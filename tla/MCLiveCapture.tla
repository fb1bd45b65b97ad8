--------------------------- MODULE MCLiveCapture ---------------------------
(***************************************************************************)
(* Instances of LiveCapture for TLC.  The runs differ in what is allowed   *)
(* to go wrong: reordering and losses of notifications, empty and failed   *)
(* answers of Helix, crashes of the capture worker.                        *)
(***************************************************************************)
EXTENDS LiveCapture
=============================================================================
