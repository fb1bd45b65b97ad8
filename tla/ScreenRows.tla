---------------------------- MODULE ScreenRows ----------------------------
(***************************************************************************)
(* The tables the screens read (core/models.py) and what every page does   *)
(* with their rows.  db is the tables, each a set of rows; a row is a      *)
(* record with the id of its live, of its channel, or of both, as its      *)
(* table has it; times are in half minutes, money in cents.                *)
(***************************************************************************)
EXTENDS Integers, FiniteSets, Functions

CONSTANTS
  Limit,      \* the LIMITs of the lists (3 to 200), all taken as this
  DayLength,  \* half minutes in a day
  NoLogin     \* no login

ASSUME LimitAssumption == Limit \in Nat
ASSUME DayAssumption == DayLength \in Nat \ {0}

Minute == 2

\* Tables of what is captured of a live; of what its analysis finds; of channels.
Captured == {"chat", "events", "samples", "clips"}
Findings == {"peaks", "insights", "records"}
OfChannels == {"tips", "loyalty", "followers", "subs", "bits", "goals", "vips", "videos", "advice"}
\* Tables whose rows name the live and not the channel.
LiveOnly == {"segments", "samples", "peaks", "insights"}
Tables == {"channels", "streams", "segments"} \cup Captured \cup Findings \cup OfChannels

---------------------------------------------------------------------------
(* Reading. *)

ChannelOf(db, c) == CHOOSE h \in db.channels : h.channel = c
ZoneOf(db, c) == ChannelOf(db, c).zone

LivesOf(db, c) == {s \in db.streams : s.channel = c}
Ready(S) == {s \in S : s.stage = "ready"}

\* The rows of a table that belong to lives.
RowsOf(db, t, S) == {r \in db[t] : \E s \in S : r.live = s.id}

\* Where ended_at is missing, a live is taken to end as it starts.
Until(s) == IF s.stage = "capturing" THEN s.start ELSE s.end

LocalDay(db, c, at) == (at + ZoneOf(db, c)) \div DayLength

\* Of a set of rows, the first by an order that LIMIT lets through; rows that
\* tie at the limit, of which the database picks some, are all taken.
Foremost(S, Ahead(_, _)) == {r \in S : Cardinality({q \in S : Ahead(q, r)}) < Limit}

\* The sum of the values of a function; the highest and the lowest of numbers.
Total(amounts) == SumFunction(amounts)
Least(S)    == CHOOSE n \in S : \A m \in S : n <= m
Most(S)     == IF S = {} THEN 0 ELSE CHOOSE n \in S : \A m \in S : m <= n
Authors(M)  == {m.author : m \in M}
Logins(M)   == {m.login : m \in M}
SaidBy(l, M) == {m \in M : m.login = l}

\* round(n / d); round(n / d, 1) and round(100 * n / d, 1) in tenths.
Rounded(n, d) == (2 * n + d) \div (2 * d)
Tenths(n, d)  == Rounded(10 * n, d)
Percent(n, d) == Tenths(100 * n, d)

===========================================================================
