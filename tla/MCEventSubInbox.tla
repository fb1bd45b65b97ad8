------------------------- MODULE MCEventSubInbox -------------------------
(***************************************************************************)
(* Instances of EventSubInbox for TLC: a follow, and a notification that   *)
(* is about no user; two api processes, as while a redeploy overlaps.      *)
(* MaxAge and DedupTTL are equal, as both are 600 in core/eventsub.py.     *)
(***************************************************************************)
EXTENDS EventSubInbox, TLC

CONSTANTS follow, cheer, fan, h1, h2

TwoMessages == {follow, cheer}
OneFollow   == {follow}
OneMessage  == {cheer}
NoFollow    == {}
OneUser     == {fan}
TwoHandlers == {h1, h2}
OneHandler  == {h1}
UserOfFollow == [m \in Follows |-> fan]

SameHandlers == Permutations({h1, h2})
===========================================================================
