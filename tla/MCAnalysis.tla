------------------------------ MODULE MCAnalysis ------------------------------
(* The analysis of one live for TLC: one peak, two blocks, and text outside *)
(* the caps in some runs.                                                   *)
EXTENDS Analysis

\* A follower who paid and went quiet.
OneProfile == {[streamer |-> FALSE, paid |-> TRUE, chatted |-> TRUE,
                quiet |-> TRUE, recent |-> FALSE]}
=============================================================================
