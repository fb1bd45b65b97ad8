-------------------------- MODULE MCFollowerSync --------------------------
(***************************************************************************)
(* Instances of FollowerSync for TLC: two accounts on pages of one, so     *)
(* that the walk takes several pages, the list can move under it and both  *)
(* departures at once are more than AlwaysAllowed.                         *)
(***************************************************************************)
EXTENDS FollowerSync

CONSTANTS u1, u2

TwoUsers == {u1, u2}
===========================================================================
