------------------------- MODULE MCJobsAndAnalysis -------------------------
(* The queue of jobs, and what the handler of an analyze job does, each on a *)
(* small instance.  To the queue the handler is one step, and the handler    *)
(* knows nothing of the queue: a behaviour picks one and leaves the other    *)
(* where it starts.                                                          *)
EXTENDS MCJobPipeline, MCAnalysis

VARIABLE part   \* the job this behaviour is of

JobsInit ==
  /\ part \in {"queue", "analysis"}
  /\ Init /\ AnalysisInit

JobsNext ==
  \/ part = "queue" /\ Next /\ UNCHANGED <<part, analysisVars>>
  \/ part = "analysis" /\ AnalysisNext /\ UNCHANGED <<part, vars>>

JobsSpec == JobsInit /\ [][JobsNext]_<<part, vars, analysisVars>>
=============================================================================
