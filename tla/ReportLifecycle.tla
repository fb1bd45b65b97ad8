------------------------- MODULE ReportLifecycle -------------------------
(***************************************************************************)
(* What the job pipeline promises about the report of one live, with no    *)
(* jobs, workers, heartbeats or crashes in it.                             *)
(*                                                                         *)
(* A live leaves "capturing" when its capture is finalised.  It is then    *)
(* transcribed and analysed, each step being attempted at most MaxAttempts *)
(* times; a step that succeeds moves the live on, a step whose last        *)
(* attempt is lost fails the live for good.  tries[s] counts the attempts  *)
(* of the step the live is in, and is 0 in the stages that have no step.   *)
(*                                                                         *)
(* JobPipeline implements this specification: see Lifecycle there.         *)
(***************************************************************************)
EXTENDS Naturals

CONSTANTS Streams, MaxAttempts

VARIABLES stage, tries

vars == <<stage, tries>>

\* core/models.py StreamStatus.
Stages == {"capturing", "queued_transcription", "transcribing",
           "queued_analysis", "analyzing", "ready", "failed"}

Terminal == {"ready", "failed"}

Running == {"transcribing", "analyzing"}

\* The stage a step shows while it is being attempted.
RunningFrom(st) ==
  CASE st \in {"queued_transcription", "transcribing"} -> "transcribing"
    [] st \in {"queued_analysis", "analyzing"}         -> "analyzing"
    [] OTHER                                           -> st

\* The stage a successful step leads to.
DoneFrom(st) == IF st = "transcribing" THEN "queued_analysis" ELSE "ready"

Init ==
  /\ stage = [s \in Streams |-> "capturing"]
  /\ tries = [s \in Streams |-> 0]

\* The capture of s is over.
Enqueue(s) ==
  /\ stage[s] = "capturing"
  /\ stage' = [stage EXCEPT ![s] = "queued_transcription"]
  /\ UNCHANGED tries

\* One more attempt at the step s is waiting for, or was in when its last
\* attempt was lost.
Attempt(s) ==
  /\ stage[s] \notin Terminal \cup {"capturing"}
  /\ tries[s] < MaxAttempts
  /\ stage' = [stage EXCEPT ![s] = RunningFrom(stage[s])]
  /\ tries' = [tries EXCEPT ![s] = tries[s] + 1]

\* The attempt succeeds: the live moves on, with no attempt spent.
Finish(s) ==
  /\ stage[s] \in Running
  /\ stage' = [stage EXCEPT ![s] = DoneFrom(stage[s])]
  /\ tries' = [tries EXCEPT ![s] = 0]

\* The last attempts at the steps of the lives in G are lost.  One pass over
\* the dead jobs of a type may notice several at once.
GiveUp(G) ==
  /\ \A s \in G : stage[s] \in Running /\ tries[s] = MaxAttempts
  /\ stage' = [s \in Streams |-> IF s \in G THEN "failed" ELSE stage[s]]
  /\ tries' = [s \in Streams |-> IF s \in G THEN 0 ELSE tries[s]]

\* Live s gets somewhere.
Advance(s) == \/ Attempt(s)
              \/ Finish(s)
              \/ \E G \in SUBSET Streams : s \in G /\ GiveUp(G)

Next == \E s \in Streams : Enqueue(s) \/ Advance(s)

\* Once captured, a live does not rest before it is ready or failed.
Fairness == \A s \in Streams : WF_vars(Advance(s))

SafeSpec == Init /\ [][Next]_vars

Spec == SafeSpec /\ Fairness
===========================================================================
