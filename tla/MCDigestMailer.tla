-------------------------- MODULE MCDigestMailer --------------------------
(***************************************************************************)
(* Instances of DigestMailer for TLC: days of three hours, due from the    *)
(* second on, periods of a day, and two zones an hour apart.               *)
(***************************************************************************)
EXTENDS DigestMailer, TLC

CONSTANTS c1, c2, r1, r2

OneChannel  == {c1}
TwoChannels == {c1, c2}
OneRun      == {r1}
TwoRuns     == {r1, r2}

\* Runs are interchangeable; so are channels.
Same == Permutations({r1, r2}) \cup Permutations({c1, c2})
===========================================================================
