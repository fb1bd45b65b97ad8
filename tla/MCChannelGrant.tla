---------------------------- MODULE MCChannelGrant ----------------------------
(* The grant of a channel for TLC: the sign-in's transactions and a clip    *)
(* task's, two steps of the backfill.                                       *)
EXTENDS ChannelGrant

TwoSteps == <<"vips", "subs">>
=============================================================================
