-------------------------- MODULE CaptureLifecycle --------------------------
(***************************************************************************)
(* What the capture promises about the rows of one channel in streams,     *)
(* with no notifications, sessions, samples, losses or crashes in it.      *)
(*                                                                         *)
(* A live's row is open while it is recorded, over once it has ended, and  *)
(* handed to the job queue with one transcription.  It takes this way      *)
(* once, never back, and no row is opened while another one is open.       *)
(*                                                                         *)
(* LiveCapture implements this specification: see RowsInOrder there.  What *)
(* becomes of a row once it is handed over is ReportLifecycle, which calls *)
(* HandOver Enqueue.                                                       *)
(***************************************************************************)
EXTENDS Naturals

CONSTANT Lives

VARIABLES
  phase,           \* [Lives -> Phases]
  transcriptions   \* [Lives -> Nat]  jobs queued for the row

vars == <<phase, transcriptions>>

Phases == {"none", "open", "over", "handed"}

Init ==
  /\ phase = [l \in Lives |-> "none"]
  /\ transcriptions = [l \in Lives |-> 0]

Open(l) ==
  /\ phase[l] = "none"
  /\ \A k \in Lives : phase[k] # "open"
  /\ phase' = [phase EXCEPT ![l] = "open"]
  /\ UNCHANGED transcriptions

End(l) ==
  /\ phase[l] = "open"
  /\ phase' = [phase EXCEPT ![l] = "over"]
  /\ UNCHANGED transcriptions

HandOver(l) ==
  /\ phase[l] = "over"
  /\ phase' = [phase EXCEPT ![l] = "handed"]
  /\ transcriptions' = [transcriptions EXCEPT ![l] = transcriptions[l] + 1]

Next == \E l \in Lives : Open(l) \/ End(l) \/ HandOver(l)

SafeSpec == Init /\ [][Next]_vars

Fairness == \A l \in Lives : WF_vars(HandOver(l))

Spec == SafeSpec /\ Fairness

\* What Fairness is for: no row that is over is left there.
HandedOver == \A l \in Lives : phase[l] = "over" ~> phase[l] = "handed"
=============================================================================
