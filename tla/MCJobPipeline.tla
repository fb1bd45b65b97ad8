-------------------------- MODULE MCJobPipeline --------------------------
(***************************************************************************)
(* Instances of JobPipeline for TLC.  A job id is <<live, type, n>>; the n *)
(* are there so that a second job of the same type can be created if the   *)
(* model lets it happen.                                                   *)
(***************************************************************************)
EXTENDS JobPipeline, TLC

CONSTANTS s1, s2, t1, t2, a1

OneLive  == {s1}
TwoLives == {s1, s2}

IdsFor(lives, transcribes, analyses) ==
       lives \X {"transcribe"} \X (1..transcribes)
  \cup lives \X {"analyze"}    \X (1..analyses)

OneLiveIds   == IdsFor(OneLive, 2, 2)
TwoLivesIds  == IdsFor(TwoLives, 1, 2)
OneReportIds == IdsFor(OneLive, 1, 2)

LiveOfId == [j \in Jobs |-> j[1]]
KindOfId == [j \in Jobs |-> j[2]]

\* deploy/app.yaml: one transcribe and one analyze instance.
Deployed == {t1, a1}

\* The dial of deploy/app.yaml at two: a pool of transcribe workers.
Pool == {t1, t2, a1}

\* Lives are interchangeable.
SameLives == Permutations({s1, s2})

TypeOfWorker == [w \in Workers |-> IF w = a1 THEN "analyze" ELSE "transcribe"]
===========================================================================
