------------------------ MODULE JobPipelineProofs ------------------------
(***************************************************************************)
(* Proofs about JobPipeline, for any sets of lives, job ids and workers    *)
(* and any bounds, with one worker per job type.                           *)
(*                                                                         *)
(* IInv is inductive: one lemma per action shows that the action preserves *)
(* it.  The safety properties are consequences of IInv, and so is the step *)
(* simulation that makes JobPipeline an implementation of ReportLifecycle. *)
(***************************************************************************)
EXTENDS JobPipeline, TLAPS

---------------------------------------------------------------------------
\* NothingRead is a memory.
LEMMA NothingReadType == NothingRead \in Memory
BY IdsAssumption DEF NothingRead, Memory, Stages

\* What a session keeps of the attempts is a function to the naturals.
LEMMA TriesOfType ==
  ASSUME TypeOK, NEW D \in SUBSET Jobs
  PROVE  TriesOf(D) \in [Jobs -> Nat]
BY DEF TypeOK, TriesOf

\* A session that has picked j holds what it read of j and of its live.
LEMMA ChosenType ==
  ASSUME TypeOK, NEW j \in Jobs
  PROVE  /\ Chosen(j) \in Memory
         /\ Chosen(j).held = j
         /\ Chosen(j).tries[j] = attempts[j]
         /\ Chosen(j).stage = stage[StreamOf[j]]
<1>1. TriesOf({j}) \in [Jobs -> Nat]
  BY TriesOfType
<1>2. TriesOf({j})[j] = attempts[j]
  BY DEF TriesOf
<1>3. stage[StreamOf[j]] \in Stages
  BY IdsAssumption DEF TypeOK
<1> QED
  BY <1>1, <1>2, <1>3 DEF Chosen, Memory

\* A session whose handler works at j holds j.
LEMMA AtWorkType ==
  ASSUME TypeOK, NEW j \in Jobs, NEW n \in Int
  PROVE  /\ AtWork(j, n) \in Memory
         /\ AtWork(j, n).held = j
         /\ AtWork(j, n).wiped = n
BY TriesOfType DEF AtWork, Memory, Stages

\* The initial state satisfies the inductive invariant.
LEMMA InitIInv == Init => IInv
<1> SUFFICES ASSUME Init PROVE IInv
  OBVIOUS
<1>1. TypeOK
  BY IdsAssumption, BoundsAssumption, NothingReadType
     DEF Init, TypeOK, Stages, Statuses, Locations
<1>2. JobInv /\ LiveInv /\ WorkerInv
  BY DEF Init, JobInv, JobOK, LiveInv, LiveOK, WorkerInv, WorkerOK
<1>3. AtMostOneLiveJob /\ NothingStranded
  BY DEF Init, AtMostOneLiveJob, NothingStranded, Live
<1>4. OutputOncePerStep
  BY DEF Init, OutputOncePerStep
<1> QED
  BY <1>1, <1>2, <1>3, <1>4 DEF IInv

---------------------------------------------------------------------------
\* The end of a capture preserves the invariant: its live had no row before.
LEMMA FinalizeIInv ==
  ASSUME IInv, NEW s \in Streams, Finalize(s)
  PROVE  IInv'
<1> USE IdsAssumption, BoundsAssumption
<1> PICK j \in FreshIds(s, "transcribe") :
           status' = [status EXCEPT ![j] = "queued"]
  BY DEF Finalize
<1>1. /\ j \in Jobs /\ StreamOf[j] = s /\ KindOf[j] = "transcribe"
      /\ status[j] = "absent" /\ attempts[j] = 0
  BY DEF FreshIds, IInv, JobInv, JobOK
<1>2. \A i \in Jobs : StreamOf[i] = s => status[i] = "absent"
  BY DEF Finalize, IInv, LiveInv, LiveOK
<1>3. TypeOK'
  BY <1>1 DEF Finalize, IInv, TypeOK, Stages, Statuses
<1>4. JobInv'
  <2> SUFFICES ASSUME NEW i \in Jobs PROVE JobOK(i)'
    BY DEF JobInv
  <2>1. CASE i = j
    BY <2>1, <1>1
       DEF Finalize, IInv, TypeOK, JobOK, Types, StagesOf, QueuedStage
  <2>2. CASE i # j /\ StreamOf[i] = s
    BY <2>2, <1>1, <1>2 DEF Finalize, IInv, TypeOK, JobInv, JobOK
  <2>3. CASE StreamOf[i] # s
    BY <2>3, <1>1 DEF Finalize, IInv, TypeOK, JobInv, JobOK
  <2> QED
    BY <2>1, <2>2, <2>3, <1>1
<1>5. LiveInv'
  BY <1>1, <1>2 DEF Finalize, IInv, TypeOK, LiveInv, LiveOK
<1>6. WorkerInv'
  BY <1>1, <1>2 DEF Finalize, IInv, TypeOK, WorkerInv, WorkerOK, Memory
<1>7. AtMostOneLiveJob' /\ NothingStranded'
  BY <1>1, <1>2
     DEF Finalize, IInv, TypeOK, AtMostOneLiveJob, NothingStranded, Live
<1>8. OutputOncePerStep'
  <2>1. \A i \in Jobs : status'[i] = "done" <=> status[i] = "done"
    BY <1>1 DEF IInv, TypeOK
  <2>2. output' = output
    BY DEF Finalize
  <2> QED
    BY <2>1, <2>2 DEF IInv, OutputOncePerStep
<1> QED
  BY <1>3, <1>4, <1>5, <1>6, <1>7, <1>8 DEF IInv

\* A step that leaves the tables alone leaves the parts of the invariant that
\* speak of the tables only.
LEMMA TablesIInv ==
  ASSUME IInv, UNCHANGED tables, TypeOK', WorkerInv'
  PROVE  IInv'
<1>1. JobInv'
  BY DEF tables, IInv, JobInv, JobOK
<1>2. LiveInv'
  BY DEF tables, IInv, LiveInv, LiveOK
<1>3. AtMostOneLiveJob' /\ NothingStranded' /\ OutputOncePerStep'
  BY DEF tables, IInv, AtMostOneLiveJob, NothingStranded, OutputOncePerStep
<1> QED
  BY <1>1, <1>2, <1>3 DEF IInv

\* Selecting the stale jobs preserves the invariant.
LEMMA ScanIInv ==
  ASSUME IInv, NEW w \in Workers, Scan(w)
  PROVE  IInv'
<1> DEFINE D == {j \in Jobs : KindOf[j] = TypeOf[w] /\ Stale(j)}
           m == Selected(D)
<1>1. /\ pc' = [pc EXCEPT ![w] = IF D = {} THEN "choosing" ELSE "reclaiming"]
      /\ mem' = [mem EXCEPT ![w] = m]
      /\ UNCHANGED tables
  BY DEF Scan
<1>2. m \in Memory /\ m.dead = D /\ m.tries = TriesOf(D)
  BY IdsAssumption, TriesOfType DEF IInv, Memory, Selected, Stages
<1>3. TypeOK'
  BY <1>1, <1>2 DEF IInv, TypeOK, Locations, tables
<1>4. \A j \in D : KindOf[j] = TypeOf[w] /\ status[j] = "running"
                   /\ TriesOf(D)[j] = attempts[j]
  BY DEF Stale, TriesOf
<1>5. WorkerInv'
  <2> HIDE DEF D, m
  <2> SUFFICES ASSUME NEW v \in Workers PROVE WorkerOK(v)'
    BY DEF WorkerInv
  <2>1. CASE v = w
    BY <2>1, <1>1, <1>2, <1>4 DEF IInv, TypeOK, WorkerOK, tables
  <2>2. CASE v # w
    BY <2>2, <1>1 DEF IInv, TypeOK, WorkerInv, WorkerOK, tables
  <2> QED
    BY <2>1, <2>2
<1> QED
  BY <1>1, <1>3, <1>5, TablesIInv

---------------------------------------------------------------------------
\* The stages that go with each type.
LEMMA StageFacts ==
  /\ RunningStage["transcribe"] = "transcribing"
  /\ RunningStage["analyze"] = "analyzing"
  /\ DoneStage["transcribe"] = "queued_analysis"
  /\ DoneStage["analyze"] = "ready"
  /\ StagesOf["transcribe"] = {"queued_transcription", "transcribing"}
  /\ StagesOf["analyze"] = {"queued_analysis", "analyzing"}
  /\ AfterStages["transcribe"] = {"queued_analysis", "analyzing", "ready", "failed"}
  /\ AfterStages["analyze"] = {"ready"}
BY DEF RunningStage, DoneStage, StagesOf, QueuedStage, AfterStages, Types

\* A worker that changes live jobs of its own type, and the stages of their
\* lives, does not disturb what the invariant says of another worker: that one
\* holds a job of the other type, and no live has two live jobs.
LEMMA OthersUndisturbed ==
  ASSUME OneWorkerPerType, IInv, NEW w \in Workers, NEW X \in SUBSET Jobs,
         \A j \in X : KindOf[j] = TypeOf[w] /\ status[j] \in Live,
         \A j \in Jobs \ X : status[j] \in Live =>
           status'[j] = status[j] /\ attempts'[j] = attempts[j],
         \A s \in Streams : stage'[s] # stage[s] =>
           \E j \in X : StreamOf[j] = s,
         NEW v \in Workers, v # w, pc'[v] = pc[v], mem'[v] = mem[v]
  PROVE  WorkerOK(v)'
<1> USE IdsAssumption
<1>1. TypeOf[v] # TypeOf[w]
  BY DEF OneWorkerPerType
<1>2. \A j \in Jobs : KindOf[j] = TypeOf[v] => j \notin X
  BY <1>1
<1>3. WorkerOK(v) /\ mem[v] \in Memory
  BY DEF IInv, WorkerInv, TypeOK
<1>4. pc[v] \in {"picked", "running"} => mem[v].held \in Jobs
  BY DEF IInv, TypeOK
<1>5. \A j \in Jobs : status[j] \in Live /\ KindOf[j] = TypeOf[v] =>
        stage'[StreamOf[j]] = stage[StreamOf[j]]
  BY <1>2 DEF IInv, AtMostOneLiveJob
<1>6. pc[v] = "picked" => WorkerOK(v)'
  BY <1>2, <1>3, <1>4, <1>5 DEF WorkerOK, Live
<1>7. pc[v] = "running" => WorkerOK(v)'
  BY <1>2, <1>3, <1>4 DEF WorkerOK, Live
<1>8. pc[v] = "reclaiming" => WorkerOK(v)'
  BY <1>2, <1>3 DEF WorkerOK, Live, Memory
<1> QED
  BY <1>3, <1>6, <1>7, <1>8 DEF WorkerOK

\* The case of one changed job.
LEMMA OthersUndisturbedByOne ==
  ASSUME OneWorkerPerType, IInv, NEW w \in Workers, NEW j \in Jobs,
         KindOf[j] = TypeOf[w], status[j] \in Live,
         \A i \in Jobs : i # j /\ status[i] \in Live =>
           status'[i] = status[i] /\ attempts'[i] = attempts[i],
         \A s \in Streams : stage'[s] # stage[s] => s = StreamOf[j],
         NEW v \in Workers, v # w, pc'[v] = pc[v], mem'[v] = mem[v]
  PROVE  WorkerOK(v)'
<1>1. /\ {j} \in SUBSET Jobs
      /\ \A i \in {j} : KindOf[i] = TypeOf[w] /\ status[i] \in Live
      /\ \A i \in Jobs \ {j} : status[i] \in Live =>
           status'[i] = status[i] /\ attempts'[i] = attempts[i]
      /\ \A s \in Streams : stage'[s] # stage[s] => \E i \in {j} : StreamOf[i] = s
  OBVIOUS
<1> QED
  BY <1>1, OthersUndisturbed

\* Where a job of type t is live, no other job of its live is done at type t
\* or later, or failed.
LEMMA LiveJobAlone ==
  ASSUME IInv, NEW j \in Jobs, status[j] \in Live,
         NEW i \in Jobs, i # j, StreamOf[i] = StreamOf[j]
  PROVE  /\ status[i] \in {"absent", "done"}
         /\ status[i] = "done" => KindOf[i] = "transcribe" /\ KindOf[j] = "analyze"
<1> USE IdsAssumption DEF IInv, TypeOK
<1>1. status[i] \notin Live
  BY DEF AtMostOneLiveJob
<1>2. JobOK(i) /\ JobOK(j)
  BY DEF JobInv
<1>3. KindOf[i] \in {"transcribe", "analyze"} /\ KindOf[j] \in {"transcribe", "analyze"}
  BY DEF Types
<1>4. stage[StreamOf[j]] \in StagesOf[KindOf[j]]
  BY <1>2, <1>3, StageFacts DEF JobOK, Live
<1>5. status[i] # "failed"
  BY <1>2, <1>3, <1>4, StageFacts DEF JobOK
<1>6. status[i] = "done" => KindOf[i] = "transcribe" /\ KindOf[j] = "analyze"
  BY <1>2, <1>3, <1>4, StageFacts DEF JobOK
<1> QED
  BY <1>1, <1>5, <1>6 DEF Statuses, Live

---------------------------------------------------------------------------
\* Picking preserves the invariant: what is read is what the tables hold.
LEMMA PickIInv ==
  ASSUME IInv, NEW w \in Workers, Pick(w)
  PROVE  IInv'
<1> USE IdsAssumption
<1>1. PICK j \in Jobs :
        /\ KindOf[j] = TypeOf[w]
        /\ status[j] = "queued"
        /\ mem' = [mem EXCEPT ![w] = Chosen(j)]
  BY DEF Pick
<1> DEFINE m == Chosen(j)
<1>2. m \in Memory /\ m.held = j /\ m.tries[j] = attempts[j]
      /\ m.stage = stage[StreamOf[j]]
  BY ChosenType DEF IInv
<1>3. mem' = [mem EXCEPT ![w] = m] /\ pc' = [pc EXCEPT ![w] = "picked"]
      /\ UNCHANGED tables
  BY <1>1 DEF Pick
<1> HIDE DEF m
<1>4. TypeOK'
  BY <1>2, <1>3 DEF IInv, TypeOK, Locations, tables
<1>5. WorkerInv'
  <2> SUFFICES ASSUME NEW v \in Workers PROVE WorkerOK(v)'
    BY DEF WorkerInv
  <2>1. CASE v = w
    <3>1. mem'[w] = m /\ pc'[w] = "picked"
      BY <1>3 DEF IInv, TypeOK
    <3> QED
      BY <2>1, <3>1, <1>1, <1>2, <1>3 DEF WorkerOK, tables
  <2>2. CASE v # w
    BY <2>2, <1>3 DEF IInv, TypeOK, WorkerInv, WorkerOK, tables
  <2> QED
    BY <2>1, <2>2
<1> QED
  BY <1>3, <1>4, <1>5, TablesIInv

\* Sleeping, dying and being started again leave nothing to a worker that the
\* invariant speaks of.
LEMMA IdleIInv ==
  ASSUME IInv, NEW w \in Workers, Sleep(w) \/ Crash(w) \/ Restart(w)
  PROVE  IInv'
<1>1. /\ UNCHANGED tables
      /\ \E l \in {"polling", "down"} : pc' = [pc EXCEPT ![w] = l]
      /\ \E m \in Memory : mem' = [mem EXCEPT ![w] = m]
  BY NothingReadType DEF IInv, TypeOK, Sleep, Crash, Restart, tables
<1>2. TypeOK'
  BY <1>1 DEF IInv, TypeOK, Locations, tables
<1>3. WorkerInv'
  BY <1>1 DEF IInv, TypeOK, WorkerInv, WorkerOK, tables
<1> QED
  BY <1>1, <1>2, <1>3, TablesIInv

\* Time and heartbeats change ages only.
LEMMA AgeIInv ==
  ASSUME IInv, Tick \/ \E w \in Workers : Beat(w)
  PROVE  IInv'
<1> USE BoundsAssumption
<1>1. UNCHANGED <<stage, status, attempts, output, pc, mem>>
  BY DEF Tick, Beat
<1>2. age' \in [Jobs -> 0..StaleAfter + 1]
  BY DEF IInv, TypeOK, Tick, Beat
<1>3. TypeOK'
  BY <1>1, <1>2 DEF IInv, TypeOK
<1>4. JobInv' /\ LiveInv'
  BY <1>1 DEF IInv, JobInv, JobOK, LiveInv, LiveOK
<1>5. WorkerInv'
  BY <1>1 DEF IInv, WorkerInv, WorkerOK
<1>6. AtMostOneLiveJob' /\ NothingStranded' /\ OutputOncePerStep'
  BY <1>1 DEF IInv, AtMostOneLiveJob, NothingStranded, OutputOncePerStep
<1> QED
  BY <1>3, <1>4, <1>5, <1>6 DEF IInv

\* Starting the picked job preserves the invariant.
LEMMA StartIInv ==
  ASSUME OneWorkerPerType, IInv, NEW w \in Workers, Start(w)
  PROVE  IInv'
<1> USE IdsAssumption, BoundsAssumption
<1> DEFINE j == mem[w].held
           s == StreamOf[j]
           t == TypeOf[w]
<1>1. /\ j \in Jobs /\ s \in Streams /\ t \in Types /\ KindOf[j] = t
      /\ status[j] = "queued" /\ attempts[j] < MaxAttempts
      /\ mem[w].tries[j] = attempts[j]
      /\ mem[w].stage = stage[s]
      /\ stage[s] \in StagesOf[t]
  <2>1. pc[w] = "picked" /\ j \in Jobs /\ WorkerOK(w)
    BY DEF Start, IInv, TypeOK, WorkerInv
  <2>2. JobOK(j) /\ t \in Types /\ s \in Streams
    BY <2>1 DEF IInv, JobInv
  <2> QED
    BY <2>1, <2>2 DEF WorkerOK, JobOK
<1>2. output[s][t] = 0
  <2>1. \A i \in Jobs : StreamOf[i] = s /\ KindOf[i] = t => status[i] # "done"
    BY <1>1, LiveJobAlone, "queued" # "done" DEF Live
  <2> QED
    BY <1>1, <2>1 DEF IInv, OutputOncePerStep
<1>3. /\ status' = [status EXCEPT ![j] = "running"]
      /\ attempts' = [attempts EXCEPT ![j] = attempts[j] + 1]
      /\ age' = [age EXCEPT ![j] = 0]
      /\ stage' = [stage EXCEPT ![s] = RunningStage[t]]
      /\ pc' = [pc EXCEPT ![w] = "running"]
      /\ mem' = [mem EXCEPT ![w] = AtWork(j, 0)]
      /\ output' = output
  BY <1>1, <1>2 DEF Start, IInv, TypeOK
<1>4. RunningStage[t] \in Stages
  BY <1>1, StageFacts DEF Types, Stages
<1> HIDE DEF j, s, t
<1>5. TypeOK'
  <2>1. /\ stage' \in [Streams -> Stages] /\ status' \in [Jobs -> Statuses]
        /\ attempts' \in [Jobs -> Nat] /\ age' \in [Jobs -> 0..StaleAfter + 1]
        /\ output' \in [Streams -> [Types -> Int]]
        /\ pc' \in [Workers -> Locations]
    BY <1>1, <1>3, <1>4 DEF IInv, TypeOK, Statuses, Locations
  <2>2. AtWork(j, 0) \in Memory /\ AtWork(j, 0).held = j
    BY <1>1, AtWorkType DEF IInv
  <2>3. /\ mem' \in [Workers -> Memory]
        /\ \A v \in Workers : mem'[v] = IF v = w THEN AtWork(j, 0) ELSE mem[v]
    BY <1>3, <2>2 DEF IInv, TypeOK
  <2> QED
    BY <1>1, <1>3, <2>1, <2>2, <2>3 DEF IInv, TypeOK
<1>6. JobInv'
  <2> SUFFICES ASSUME NEW i \in Jobs PROVE JobOK(i)'
    BY DEF JobInv
  <2>1. CASE i = j
    BY <2>1, <1>1, <1>3 DEF IInv, TypeOK, JobOK, s
  <2>2. CASE i # j /\ StreamOf[i] = s
    <3>1. status[i] \in {"absent", "done"}
          /\ (status[i] = "done" => KindOf[i] = "transcribe" /\ t = "analyze")
      BY <2>2, <1>1, LiveJobAlone DEF Live, s
    <3>2. JobOK(i) /\ status'[i] = status[i] /\ attempts'[i] = attempts[i]
          /\ stage'[s] = RunningStage[t]
      BY <2>2, <1>1, <1>3 DEF IInv, TypeOK, JobInv
    <3> QED
      BY <2>2, <3>1, <3>2, StageFacts DEF JobOK
  <2>3. CASE StreamOf[i] # s
    BY <2>3, <1>1, <1>3 DEF IInv, TypeOK, JobInv, JobOK, s
  <2> QED
    BY <2>1, <2>2, <2>3
<1>7. LiveInv'
  <2> SUFFICES ASSUME NEW r \in Streams PROVE LiveOK(r)'
    BY DEF LiveInv
  <2>1. CASE r = s
    BY <2>1, <1>1, <1>3, StageFacts DEF IInv, TypeOK, LiveOK, Types
  <2>2. CASE r # s
    BY <2>2, <1>1, <1>3 DEF IInv, TypeOK, LiveInv, LiveOK, s
  <2> QED
    BY <2>1, <2>2
<1>8. WorkerInv'
  <2> SUFFICES ASSUME NEW v \in Workers PROVE WorkerOK(v)'
    BY DEF WorkerInv
  <2>1. CASE v = w
    <3>1. /\ pc'[w] = "running" /\ mem'[w] = AtWork(j, 0)
          /\ status'[j] = "running"
      BY <1>1, <1>3 DEF IInv, TypeOK
    <3>2. AtWork(j, 0).held = j /\ AtWork(j, 0).wiped = 0
      BY <1>1, AtWorkType DEF IInv
    <3> QED
      BY <2>1, <3>1, <3>2, <1>1 DEF WorkerOK, t
  <2>2. CASE v # w
    <3>1. pc'[v] = pc[v] /\ mem'[v] = mem[v]
      BY <2>2, <1>3 DEF IInv, TypeOK
    <3>2. \A r \in Streams : stage'[r] # stage[r] => r = s
      BY <1>3 DEF IInv, TypeOK
    <3>3. \A i \in Jobs : i # j =>
            status'[i] = status[i] /\ attempts'[i] = attempts[i]
      BY <1>3 DEF IInv, TypeOK
    <3>4. j \in Jobs /\ KindOf[j] = TypeOf[w] /\ status[j] \in Live /\ s = StreamOf[j]
      BY <1>1 DEF Live, s, t
    <3> QED
      BY <2>2, <3>1, <3>2, <3>3, <3>4, OthersUndisturbedByOne
  <2> QED
    BY <2>1, <2>2
<1>9. \A i \in Jobs : status'[i] \in Live <=> status[i] \in Live
  BY <1>1, <1>3 DEF IInv, TypeOK, Live
<1>10. AtMostOneLiveJob'
  BY <1>9 DEF IInv, AtMostOneLiveJob
<1>11. NothingStranded'
  BY <1>1, <1>3, <1>9 DEF IInv, TypeOK, NothingStranded, Live, s
<1>12. OutputOncePerStep'
  <2>1. \A i \in Jobs : status'[i] = "done" <=> status[i] = "done"
    BY <1>1, <1>3 DEF IInv, TypeOK
  <2> QED
    BY <2>1, <1>3 DEF IInv, OutputOncePerStep
<1> QED
  BY <1>5, <1>6, <1>7, <1>8, <1>10, <1>11, <1>12 DEF IInv

---------------------------------------------------------------------------
\* What the invariant says of a worker whose handler runs.
LEMMA RunnerFacts ==
  ASSUME IInv, NEW w \in Workers, pc[w] = "running"
  PROVE  /\ mem[w].held \in Jobs
         /\ StreamOf[mem[w].held] \in Streams
         /\ TypeOf[w] \in {"transcribe", "analyze"}
         /\ KindOf[mem[w].held] = TypeOf[w]
         /\ status[mem[w].held] = "running"
         /\ attempts[mem[w].held] \in 1..MaxAttempts
         /\ stage[StreamOf[mem[w].held]] = RunningStage[TypeOf[w]]
         /\ mem[w].wiped = 0
         /\ output[StreamOf[mem[w].held]][TypeOf[w]] = 0
<1> USE IdsAssumption
<1> DEFINE j == mem[w].held
<1>1. j \in Jobs /\ WorkerOK(w)
  BY DEF IInv, TypeOK, WorkerInv
<1>2. StreamOf[j] \in Streams /\ TypeOf[w] \in Types
  BY <1>1
<1>3. KindOf[j] = TypeOf[w] /\ status[j] = "running" /\ mem[w].wiped = 0
  BY <1>1 DEF WorkerOK
<1>4. JobOK(j)
  BY <1>1 DEF IInv, JobInv
<1>5. \A i \in Jobs : StreamOf[i] = StreamOf[j] /\ KindOf[i] = TypeOf[w]
                        => status[i] # "done"
  <2> SUFFICES ASSUME NEW i \in Jobs, StreamOf[i] = StreamOf[j],
                      KindOf[i] = TypeOf[w], i # j
               PROVE  status[i] # "done"
    BY <1>3
  <2> QED
    BY <1>1, <1>3, LiveJobAlone DEF Live
<1>6. output[StreamOf[j]][TypeOf[w]] = 0
  BY <1>2, <1>5 DEF IInv, OutputOncePerStep
<1> QED
  BY <1>1, <1>2, <1>3, <1>4, <1>6 DEF JobOK, Types

\* A handler that raises preserves the invariant, whether its job is requeued
\* or given up.
LEMMA FailIInv ==
  ASSUME OneWorkerPerType, IInv, NEW w \in Workers, Fail(w)
  PROVE  IInv'
<1> USE IdsAssumption, BoundsAssumption
<1> DEFINE j == mem[w].held
           s == StreamOf[j]
           t == TypeOf[w]
           spent == attempts[j] >= MaxAttempts
           after == IF spent THEN "failed" ELSE "queued"
           stageAfter == IF spent THEN "failed" ELSE stage[s]
<1>1. /\ j \in Jobs /\ s \in Streams /\ t \in {"transcribe", "analyze"}
      /\ KindOf[j] = t /\ status[j] = "running"
      /\ attempts[j] \in 1..MaxAttempts
      /\ stage[s] = RunningStage[t]
  BY RunnerFacts DEF Fail
<1>2. /\ status' = [status EXCEPT ![j] = after]
      /\ stage' = [stage EXCEPT ![s] = stageAfter]
      /\ pc' = [pc EXCEPT ![w] = "polling"]
      /\ mem' = [mem EXCEPT ![w] = NothingRead]
      /\ UNCHANGED <<attempts, age, output>>
  BY <1>1 DEF Fail, IInv, TypeOK
<1>3. /\ after \in {"queued", "failed"}
      /\ after = "queued" => attempts[j] < MaxAttempts /\ stageAfter = stage[s]
      /\ after = "failed" => attempts[j] = MaxAttempts /\ stageAfter = "failed"
  BY <1>1
<1> HIDE DEF j, s, t, spent, after, stageAfter
<1>4. TypeOK'
  <2>1. /\ stage' \in [Streams -> Stages] /\ status' \in [Jobs -> Statuses]
        /\ pc' \in [Workers -> Locations] /\ mem' \in [Workers -> Memory]
    BY <1>1, <1>2, <1>3, NothingReadType
       DEF IInv, TypeOK, Stages, Statuses, Locations
  <2>2. \A v \in Workers : pc'[v] \in {"picked", "running"} => mem'[v].held \in Jobs
    BY <1>2 DEF IInv, TypeOK
  <2> QED
    BY <2>1, <2>2, <1>2 DEF IInv, TypeOK
<1>5. JobInv'
  <2> SUFFICES ASSUME NEW i \in Jobs PROVE JobOK(i)'
    BY DEF JobInv
  <2>1. CASE i = j
    BY <2>1, <1>1, <1>2, <1>3, StageFacts DEF IInv, TypeOK, JobOK, s
  <2>2. CASE i # j /\ StreamOf[i] = s
    <3>1. status[i] \in {"absent", "done"}
          /\ (status[i] = "done" => KindOf[i] = "transcribe" /\ t = "analyze")
      BY <2>2, <1>1, LiveJobAlone DEF Live, s
    <3>2. JobOK(i) /\ status'[i] = status[i] /\ attempts'[i] = attempts[i]
          /\ stage'[s] \in {"failed", stage[s]}
      BY <2>2, <1>1, <1>2, <1>3 DEF IInv, TypeOK, JobInv
    <3> QED
      BY <2>2, <3>1, <3>2, StageFacts DEF JobOK
  <2>3. CASE StreamOf[i] # s
    BY <2>3, <1>1, <1>2 DEF IInv, TypeOK, JobInv, JobOK, s
  <2> QED
    BY <2>1, <2>2, <2>3
<1>6. LiveInv'
  <2> SUFFICES ASSUME NEW r \in Streams PROVE LiveOK(r)'
    BY DEF LiveInv
  <2>1. CASE r = s
    <3>1. stage'[s] # "capturing"
      BY <1>1, <1>2, <1>3, StageFacts DEF IInv, TypeOK
    <3>2. stage'[s] = "failed" => status'[j] = "failed"
      BY <1>1, <1>2, <1>3, StageFacts DEF IInv, TypeOK
    <3> QED
      BY <2>1, <3>1, <3>2, <1>1 DEF LiveOK, s
  <2>2. CASE r # s
    <3>1. stage'[r] = stage[r] /\ LiveOK(r)
      BY <2>2, <1>2 DEF IInv, TypeOK, LiveInv
    <3>2. \A i \in Jobs : StreamOf[i] = r => status'[i] = status[i]
      BY <2>2, <1>2 DEF IInv, TypeOK, s
    <3> QED
      BY <3>1, <3>2 DEF LiveOK
  <2> QED
    BY <2>1, <2>2
<1>7. WorkerInv'
  <2> SUFFICES ASSUME NEW v \in Workers PROVE WorkerOK(v)'
    BY DEF WorkerInv
  <2>1. CASE v = w
    BY <2>1, <1>2 DEF IInv, TypeOK, WorkerOK
  <2>2. CASE v # w
    <3>1. pc'[v] = pc[v] /\ mem'[v] = mem[v]
      BY <2>2, <1>2 DEF IInv, TypeOK
    <3>2. \A r \in Streams : stage'[r] # stage[r] => r = s
      BY <1>2 DEF IInv, TypeOK
    <3>3. \A i \in Jobs : i # j =>
            status'[i] = status[i] /\ attempts'[i] = attempts[i]
      BY <1>2 DEF IInv, TypeOK
    <3>4. j \in Jobs /\ KindOf[j] = TypeOf[w] /\ status[j] \in Live /\ s = StreamOf[j]
      BY <1>1 DEF Live, s, t
    <3> QED
      BY <2>2, <3>1, <3>2, <3>3, <3>4, OthersUndisturbedByOne
  <2> QED
    BY <2>1, <2>2
<1>8. \A i \in Jobs : /\ status'[i] \in Live => status[i] \in Live
                      /\ status'[i] = "done" <=> status[i] = "done"
                      /\ i # j => status'[i] = status[i]
  BY <1>1, <1>2, <1>3 DEF IInv, TypeOK, Live
<1>9. AtMostOneLiveJob'
  BY <1>8 DEF IInv, AtMostOneLiveJob
<1>10. NothingStranded'
  <2> SUFFICES ASSUME NEW r \in Streams,
                      stage'[r] \notin {"capturing", "ready", "failed"}
               PROVE  \E i \in Jobs : StreamOf[i] = r /\ status'[i] \in Live
    BY DEF NothingStranded
  <2>1. CASE r = s
    <3>1. status'[j] = "queued"
      BY <2>1, <1>1, <1>2, <1>3 DEF IInv, TypeOK
    <3> QED
      BY <2>1, <3>1, <1>1 DEF Live, s
  <2>2. CASE r # s
    <3>1. stage'[r] = stage[r]
      BY <2>2, <1>2 DEF IInv, TypeOK
    <3>2. PICK i \in Jobs : StreamOf[i] = r /\ status[i] \in Live
      BY <3>1 DEF IInv, NothingStranded
    <3> QED
      BY <2>2, <3>2, <1>8 DEF s
  <2> QED
    BY <2>1, <2>2
<1>11. OutputOncePerStep'
  BY <1>2, <1>8 DEF IInv, OutputOncePerStep
<1> QED
  BY <1>4, <1>5, <1>6, <1>7, <1>9, <1>10, <1>11 DEF IInv

\* A handler that returns preserves the invariant.  N is the set of the jobs
\* it queues: one analyze job after a transcription, none after an analysis.
LEMMA SucceedIInv ==
  ASSUME OneWorkerPerType, IInv, NEW w \in Workers, Succeed(w)
  PROVE  IInv'
<1> USE IdsAssumption, BoundsAssumption
<1> DEFINE j == mem[w].held
           s == StreamOf[j]
           t == TypeOf[w]
<1>1. /\ j \in Jobs /\ s \in Streams /\ t \in {"transcribe", "analyze"}
      /\ KindOf[j] = t /\ status[j] = "running"
      /\ attempts[j] \in 1..MaxAttempts
      /\ stage[s] = RunningStage[t]
      /\ mem[w].wiped = 0 /\ output[s][t] = 0
  BY RunnerFacts DEF Succeed
<1>2. PICK N \in SUBSET Jobs :
        /\ \A n \in N : /\ StreamOf[n] = s /\ KindOf[n] = "analyze"
                        /\ status[n] = "absent"
        /\ \A m, n \in N : m = n
        /\ t = "transcribe" <=> N # {}
        /\ \A i \in Jobs : status'[i] = IF i = j THEN "done"
                                         ELSE IF i \in N THEN "queued"
                                         ELSE status[i]
        /\ status' \in [Jobs -> Statuses]
  <2>1. CASE t = "transcribe"
    <3>1. PICK n \in FreshIds(s, "analyze") :
                 status' = [status EXCEPT ![j] = "done", ![n] = "queued"]
      BY <2>1 DEF Succeed
    <3>2. n \in Jobs /\ StreamOf[n] = s /\ KindOf[n] = "analyze"
          /\ status[n] = "absent" /\ n # j
      BY <3>1, <1>1 DEF FreshIds
    <3>3. /\ \A i \in Jobs : status'[i] = IF i = j THEN "done"
                                           ELSE IF i = n THEN "queued"
                                           ELSE status[i]
          /\ status' \in [Jobs -> Statuses]
      BY <3>1, <3>2 DEF IInv, TypeOK, Statuses
    <3> DEFINE M == {n}
    <3>4. M \in SUBSET Jobs
      BY <3>2
    <3>5. /\ \A m \in M : /\ StreamOf[m] = s /\ KindOf[m] = "analyze"
                          /\ status[m] = "absent"
          /\ \A l, m \in M : l = m
          /\ t = "transcribe" <=> M # {}
      BY <2>1, <3>2
    <3>6. \A i \in Jobs : status'[i] = IF i = j THEN "done"
                                        ELSE IF i \in M THEN "queued"
                                        ELSE status[i]
      BY <3>3
    <3> HIDE DEF M
    <3> WITNESS M \in SUBSET Jobs
    <3> QED
      BY <3>3, <3>5, <3>6
  <2>2. CASE t = "analyze"
    <3>1. /\ \A i \in Jobs : status'[i] = IF i = j THEN "done"
                                           ELSE IF i \in {} THEN "queued"
                                           ELSE status[i]
          /\ status' \in [Jobs -> Statuses]
      BY <2>2, <1>1 DEF Succeed, IInv, TypeOK, Statuses
    <3> WITNESS {} \in SUBSET Jobs
    <3> QED
      BY <2>2, <3>1
  <2> QED
    BY <2>1, <2>2, <1>1
<1>3. /\ stage' = [stage EXCEPT ![s] = DoneStage[t]]
      /\ output' = [output EXCEPT ![s] = [output[s] EXCEPT ![t] = 1]]
      /\ pc' = [pc EXCEPT ![w] = "polling"]
      /\ mem' = [mem EXCEPT ![w] = NothingRead]
      /\ UNCHANGED <<attempts, age>>
  BY <1>1 DEF Succeed, IInv, TypeOK
<1>4. /\ stage'[s] = DoneStage[t] /\ DoneStage[t] \in {"queued_analysis", "ready"}
      /\ \A r \in Streams : r # s => stage'[r] = stage[r] /\ output'[r] = output[r]
      /\ \A i \in Jobs : i # j /\ i \notin N => status'[i] = status[i]
      /\ status'[j] = "done"
      /\ \A n \in N : n # j /\ status'[n] = "queued"
      /\ attempts' = attempts
  BY <1>1, <1>2, <1>3, StageFacts DEF IInv, TypeOK
<1>5. \A i \in Jobs : i # j /\ StreamOf[i] = s =>
        /\ status[i] \in {"absent", "done"}
        /\ status[i] = "done" => KindOf[i] = "transcribe" /\ t = "analyze"
  BY <1>1, LiveJobAlone DEF Live
<1> HIDE DEF j, s, t
<1>6. TypeOK'
  <2>1. status' \in [Jobs -> Statuses]
    BY <1>2
  <2>2. /\ stage' \in [Streams -> Stages]
        /\ pc' \in [Workers -> Locations] /\ mem' \in [Workers -> Memory]
    BY <1>1, <1>3, <1>4, NothingReadType DEF IInv, TypeOK, Stages, Locations
  <2>3. output' \in [Streams -> [Types -> Int]]
    BY <1>1, <1>3 DEF IInv, TypeOK
  <2>4. \A v \in Workers : pc'[v] \in {"picked", "running"} => mem'[v].held \in Jobs
    BY <1>3 DEF IInv, TypeOK
  <2> QED
    BY <2>1, <2>2, <2>3, <2>4, <1>3 DEF IInv, TypeOK
<1>7. JobInv'
  <2> SUFFICES ASSUME NEW i \in Jobs PROVE JobOK(i)'
    BY DEF JobInv
  <2>1. JobOK(i) /\ KindOf[i] \in {"transcribe", "analyze"}
    BY DEF IInv, JobInv, Types
  <2>2. CASE i = j
    BY <2>2, <1>1, <1>4, StageFacts DEF JobOK, s
  <2>3. CASE i \in N
    <3>1. attempts[i] = 0 /\ StreamOf[i] = s /\ KindOf[i] = "analyze" /\ t = "transcribe"
      BY <2>1, <2>3, <1>2 DEF JobOK
    <3>2. status'[i] = "queued" /\ stage'[s] = "queued_analysis"
      BY <2>3, <3>1, <1>4, StageFacts
    <3> QED
      BY <3>1, <3>2, <1>4, StageFacts DEF JobOK
  <2>4. CASE i # j /\ i \notin N /\ StreamOf[i] = s
    <3>1. status'[i] = status[i]
      BY <2>4, <1>4
    <3> QED
      BY <2>1, <2>4, <3>1, <1>4, <1>5, StageFacts DEF JobOK
  <2>5. CASE StreamOf[i] # s
    <3>1. i # j /\ i \notin N /\ StreamOf[i] \in Streams
      BY <2>5, <1>2 DEF s
    <3> QED
      BY <2>1, <2>5, <3>1, <1>4 DEF JobOK
  <2> QED
    BY <2>2, <2>3, <2>4, <2>5
<1>8. LiveInv'
  <2> SUFFICES ASSUME NEW r \in Streams PROVE LiveOK(r)'
    BY DEF LiveInv
  <2>1. CASE r = s
    BY <2>1, <1>4 DEF LiveOK
  <2>2. CASE r # s
    <3>1. stage'[r] = stage[r] /\ LiveOK(r)
      BY <2>2, <1>4 DEF IInv, LiveInv
    <3>2. \A i \in Jobs : StreamOf[i] = r => status'[i] = status[i]
      BY <2>2, <1>2, <1>4 DEF s
    <3> QED
      BY <3>1, <3>2 DEF LiveOK
  <2> QED
    BY <2>1, <2>2
<1>9. WorkerInv'
  <2> SUFFICES ASSUME NEW v \in Workers PROVE WorkerOK(v)'
    BY DEF WorkerInv
  <2>1. CASE v = w
    BY <2>1, <1>3 DEF IInv, TypeOK, WorkerOK
  <2>2. CASE v # w
    <3>1. pc'[v] = pc[v] /\ mem'[v] = mem[v]
      BY <2>2, <1>3 DEF IInv, TypeOK
    <3>2. \A r \in Streams : stage'[r] # stage[r] => r = s
      BY <1>4
    <3>3. \A i \in Jobs : i # j /\ status[i] \in Live =>
            status'[i] = status[i] /\ attempts'[i] = attempts[i]
      BY <1>2, <1>4 DEF Live
    <3>4. j \in Jobs /\ KindOf[j] = TypeOf[w] /\ status[j] \in Live /\ s = StreamOf[j]
      BY <1>1 DEF Live, s, t
    <3> QED
      BY <2>2, <3>1, <3>2, <3>3, <3>4, OthersUndisturbedByOne
  <2> QED
    BY <2>1, <2>2
<1>10. \A i \in Jobs : /\ status'[i] \in Live <=> i # j /\ (status[i] \in Live \/ i \in N)
                       /\ status'[i] = "done" <=> i = j \/ status[i] = "done"
  BY <1>2, <1>4 DEF Live
<1>11. AtMostOneLiveJob'
  <2> SUFFICES ASSUME NEW h \in Jobs, NEW i \in Jobs,
                      status'[h] \in Live, status'[i] \in Live,
                      StreamOf[h] = StreamOf[i]
               PROVE  h = i
    BY DEF AtMostOneLiveJob
  <2>1. CASE StreamOf[h] = s
    <3>1. h \in N /\ i \in N
      BY <2>1, <1>5, <1>10 DEF Live
    <3> QED
      BY <3>1, <1>2
  <2>2. CASE StreamOf[h] # s
    <3>1. status[h] \in Live /\ status[i] \in Live
      BY <2>2, <1>2, <1>10
    <3> QED
      BY <3>1 DEF IInv, AtMostOneLiveJob
  <2> QED
    BY <2>1, <2>2
<1>12. NothingStranded'
  <2> SUFFICES ASSUME NEW r \in Streams,
                      stage'[r] \notin {"capturing", "ready", "failed"}
               PROVE  \E i \in Jobs : StreamOf[i] = r /\ status'[i] \in Live
    BY DEF NothingStranded
  <2>1. CASE r = s
    <3>1. t = "transcribe"
      BY <2>1, <1>1, <1>4, StageFacts
    <3>2. PICK n \in N : TRUE
      BY <3>1, <1>2
    <3> QED
      BY <2>1, <3>2, <1>2, <1>4 DEF Live
  <2>2. CASE r # s
    <3>1. PICK i \in Jobs : StreamOf[i] = r /\ status[i] \in Live
      BY <2>2, <1>4 DEF IInv, NothingStranded
    <3> QED
      BY <2>2, <3>1, <1>10 DEF s
  <2> QED
    BY <2>1, <2>2
<1>13. OutputOncePerStep'
  <2> SUFFICES ASSUME NEW r \in Streams, NEW u \in Types
               PROVE  output'[r][u] =
                        IF \E i \in Jobs : StreamOf[i] = r /\ KindOf[i] = u
                                                           /\ status'[i] = "done"
                          THEN 1 ELSE 0
    BY DEF OutputOncePerStep
  <2>1. CASE r = s /\ u = t
    <3>1. output'[r][u] = 1
      BY <2>1, <1>1, <1>3 DEF IInv, TypeOK
    <3> QED
      BY <2>1, <3>1, <1>1, <1>4 DEF s
  <2>2. CASE ~(r = s /\ u = t)
    <3>1. output'[r][u] = output[r][u]
      BY <2>2, <1>1, <1>3 DEF IInv, TypeOK
    <3>2. \A i \in Jobs : StreamOf[i] = r /\ KindOf[i] = u =>
            (status'[i] = "done" <=> status[i] = "done")
      BY <2>2, <1>1, <1>10 DEF s
    <3> QED
      BY <3>1, <3>2 DEF IInv, OutputOncePerStep
  <2> QED
    BY <2>1, <2>2
<1> QED
  BY <1>6, <1>7, <1>8, <1>9, <1>11, <1>12, <1>13 DEF IInv

\* What the invariant says of a worker that is about to reclaim dead jobs.
LEMMA ReclaimFacts ==
  ASSUME IInv, NEW w \in Workers, Reclaim(w)
  PROVE  /\ mem[w].dead \in SUBSET Jobs
         /\ Spent(w) \in SUBSET mem[w].dead
         /\ \A j \in mem[w].dead : /\ KindOf[j] = TypeOf[w]
                                   /\ status[j] = "running"
                                   /\ attempts[j] \in 1..MaxAttempts
                                   /\ stage[StreamOf[j]] = RunningStage[TypeOf[w]]
         /\ \A j \in Spent(w) : attempts[j] = MaxAttempts
         /\ \A j \in mem[w].dead \ Spent(w) : attempts[j] < MaxAttempts
<1> USE IdsAssumption, BoundsAssumption
<1>1. mem[w].dead \in SUBSET Jobs /\ pc[w] = "reclaiming"
  BY DEF IInv, TypeOK, Memory, Reclaim
<1>2. \A j \in mem[w].dead : KindOf[j] = TypeOf[w] /\ status[j] = "running"
                             /\ mem[w].tries[j] = attempts[j]
  BY <1>1 DEF IInv, WorkerInv, WorkerOK
<1>3. \A j \in mem[w].dead : /\ attempts[j] \in 1..MaxAttempts
                             /\ stage[StreamOf[j]] = RunningStage[TypeOf[w]]
  BY <1>1, <1>2 DEF IInv, JobInv, JobOK
<1> QED
  BY <1>1, <1>2, <1>3 DEF Spent

\* Reclaiming dead jobs preserves the invariant: what was read of them still
\* holds, since only their own worker could have changed it.
LEMMA ReclaimIInv ==
  ASSUME OneWorkerPerType, IInv, NEW w \in Workers, Reclaim(w)
  PROVE  IInv'
<1> USE IdsAssumption, BoundsAssumption
<1> DEFINE D == mem[w].dead
           S == Spent(w)
<1>1. /\ D \in SUBSET Jobs /\ S \in SUBSET D
      /\ \A j \in D : /\ KindOf[j] = TypeOf[w]
                      /\ status[j] = "running"
                      /\ attempts[j] \in 1..MaxAttempts
                      /\ stage[StreamOf[j]] = RunningStage[TypeOf[w]]
      /\ \A j \in S : attempts[j] = MaxAttempts
      /\ \A j \in D \ S : attempts[j] < MaxAttempts
  BY ReclaimFacts
<1>2. /\ status' = [j \in Jobs |-> IF j \in S THEN "failed"
                                   ELSE IF j \in D THEN "queued" ELSE status[j]]
      /\ stage' = [s \in Streams |->
                     IF \E j \in S : StreamOf[j] = s THEN "failed" ELSE stage[s]]
      /\ pc' = [pc EXCEPT ![w] = "choosing"]
      /\ mem' = [mem EXCEPT ![w] = NothingRead]
      /\ UNCHANGED <<attempts, age, output>>
  BY DEF Reclaim
<1>3. /\ \A j \in S : status'[j] = "failed" /\ stage'[StreamOf[j]] = "failed"
      /\ \A j \in D \ S : status'[j] = "queued"
      /\ \A j \in Jobs \ D : status'[j] = status[j]
      /\ \A s \in Streams : (\A j \in S : StreamOf[j] # s) => stage'[s] = stage[s]
      /\ attempts' = attempts
  BY <1>1, <1>2
<1>4. \A j \in D : \A i \in Jobs : i # j /\ StreamOf[i] = StreamOf[j] =>
        /\ i \notin D
        /\ status[i] \in {"absent", "done"}
        /\ status[i] = "done" => KindOf[i] = "transcribe" /\ TypeOf[w] = "analyze"
  <2> SUFFICES ASSUME NEW j \in D, NEW i \in Jobs, i # j,
                      StreamOf[i] = StreamOf[j]
               PROVE  /\ i \notin D
                      /\ status[i] \in {"absent", "done"}
                      /\ status[i] = "done" =>
                           KindOf[i] = "transcribe" /\ TypeOf[w] = "analyze"
    OBVIOUS
  <2> QED
    BY <1>1, LiveJobAlone DEF Live
<1> HIDE DEF D, S
<1>5. TypeOK'
  <2>1. /\ stage' \in [Streams -> Stages] /\ status' \in [Jobs -> Statuses]
        /\ pc' \in [Workers -> Locations] /\ mem' \in [Workers -> Memory]
    BY <1>2, NothingReadType DEF IInv, TypeOK, Stages, Statuses, Locations
  <2>2. \A v \in Workers : pc'[v] \in {"picked", "running"} => mem'[v].held \in Jobs
    BY <1>2 DEF IInv, TypeOK
  <2> QED
    BY <2>1, <2>2, <1>2 DEF IInv, TypeOK
<1>6. JobInv'
  <2> SUFFICES ASSUME NEW i \in Jobs PROVE JobOK(i)'
    BY DEF JobInv
  <2>1. JobOK(i) /\ TypeOf[w] \in {"transcribe", "analyze"}
    BY DEF IInv, JobInv, Types
  <2>2. CASE i \in S
    BY <2>2, <1>1, <1>3 DEF JobOK
  <2>3. CASE i \in D \ S
    <3>1. stage'[StreamOf[i]] = RunningStage[TypeOf[w]]
      BY <2>3, <1>1, <1>3, <1>4
    <3>2. status'[i] = "queued" /\ attempts'[i] < MaxAttempts /\ KindOf[i] = TypeOf[w]
      BY <2>3, <1>1, <1>3
    <3>3. RunningStage[TypeOf[w]] \in StagesOf[TypeOf[w]]
      BY <2>1, StageFacts
    <3> QED
      BY <3>1, <3>2, <3>3 DEF JobOK
  <2>4. CASE i \notin D /\ \E j \in S : StreamOf[j] = StreamOf[i]
    <3>1. /\ status'[i] = status[i]
          /\ status[i] \in {"absent", "done"}
          /\ status[i] = "done" => KindOf[i] = "transcribe"
      BY <2>4, <1>1, <1>3, <1>4
    <3>2. stage'[StreamOf[i]] = "failed"
      BY <2>4, <1>3
    <3> QED
      BY <2>1, <3>1, <3>2, <1>3, StageFacts DEF JobOK
  <2>5. CASE i \notin D /\ \A j \in S : StreamOf[j] # StreamOf[i]
    BY <2>1, <2>5, <1>3 DEF JobOK
  <2> QED
    BY <2>2, <2>3, <2>4, <2>5
<1>7. LiveInv'
  <2> SUFFICES ASSUME NEW s \in Streams PROVE LiveOK(s)'
    BY DEF LiveInv
  <2>1. CASE \E j \in S : StreamOf[j] = s
    BY <2>1, <1>1, <1>3 DEF LiveOK
  <2>2. CASE \A j \in S : StreamOf[j] # s
    <3>1. stage'[s] = stage[s] /\ LiveOK(s)
      BY <2>2, <1>3 DEF IInv, LiveInv
    <3>2. stage[s] = "capturing" => \A i \in Jobs : StreamOf[i] = s => i \notin D
      BY <3>1, <1>1 DEF LiveOK
    <3>3. stage[s] = "failed" =>
            \E i \in Jobs : StreamOf[i] = s /\ status'[i] = "failed"
      BY <3>1, <1>1, <1>3 DEF LiveOK
    <3> QED
      BY <3>1, <3>2, <3>3, <1>3 DEF LiveOK
  <2> QED
    BY <2>1, <2>2
<1>8. WorkerInv'
  <2> SUFFICES ASSUME NEW v \in Workers PROVE WorkerOK(v)'
    BY DEF WorkerInv
  <2>1. CASE v = w
    BY <2>1, <1>2 DEF IInv, TypeOK, WorkerOK
  <2>2. CASE v # w
    <3>1. pc'[v] = pc[v] /\ mem'[v] = mem[v]
      BY <2>2, <1>2 DEF IInv, TypeOK
    <3>2. \A s \in Streams : stage'[s] # stage[s] => \E j \in D : StreamOf[j] = s
      BY <1>1, <1>3
    <3>3. \A i \in Jobs \ D : status[i] \in Live =>
            status'[i] = status[i] /\ attempts'[i] = attempts[i]
      BY <1>3
    <3>4. \A j \in D : KindOf[j] = TypeOf[w] /\ status[j] \in Live
      BY <1>1 DEF Live
    <3> QED
      BY <2>2, <3>1, <3>2, <3>3, <3>4, <1>1, OthersUndisturbed
  <2> QED
    BY <2>1, <2>2
<1>9. \A i \in Jobs : /\ status'[i] \in Live => status[i] \in Live
                      /\ status'[i] = "done" <=> status[i] = "done"
  BY <1>1, <1>3 DEF Live
<1>10. AtMostOneLiveJob'
  BY <1>9 DEF IInv, AtMostOneLiveJob
<1>11. NothingStranded'
  <2> SUFFICES ASSUME NEW s \in Streams,
                      stage'[s] \notin {"capturing", "ready", "failed"}
               PROVE  \E i \in Jobs : StreamOf[i] = s /\ status'[i] \in Live
    BY DEF NothingStranded
  <2>1. \A j \in S : StreamOf[j] # s
    BY <1>3
  <2>2. PICK i \in Jobs : StreamOf[i] = s /\ status[i] \in Live
    BY <2>1, <1>3 DEF IInv, NothingStranded
  <2>3. status'[i] \in Live
    BY <2>1, <2>2, <1>3 DEF Live
  <2> QED
    BY <2>2, <2>3
<1>12. OutputOncePerStep'
  BY <1>2, <1>9 DEF IInv, OutputOncePerStep
<1> QED
  BY <1>5, <1>6, <1>7, <1>8, <1>10, <1>11, <1>12 DEF IInv

---------------------------------------------------------------------------
\* Every step preserves the invariant.
LEMMA NextIInv ==
  ASSUME OneWorkerPerType, IInv, [Next]_vars
  PROVE  IInv'
<1>1. CASE Next
  <2>1. CASE \E s \in Streams : Finalize(s)
    BY <2>1, FinalizeIInv
  <2>2. CASE Tick
    BY <2>2, AgeIInv
  <2>3. ASSUME NEW w \in Workers, Step(w) PROVE IInv'
    <3>1. CASE Scan(w)
      BY <3>1, ScanIInv
    <3>2. CASE Reclaim(w)
      BY <3>2, ReclaimIInv
    <3>3. CASE Pick(w)
      BY <3>3, PickIInv
    <3>4. CASE Sleep(w) \/ Crash(w) \/ Restart(w)
      BY <3>4, IdleIInv
    <3>5. CASE Start(w)
      BY <3>5, StartIInv
    <3>6. CASE Beat(w)
      BY <3>6, AgeIInv
    <3>7. CASE Succeed(w)
      BY <3>7, SucceedIInv
    <3>8. CASE Fail(w)
      BY <3>8, FailIInv
    <3> QED
      BY <2>3, <3>1, <3>2, <3>3, <3>4, <3>5, <3>6, <3>7, <3>8 DEF Step
  <2> QED
    BY <1>1, <2>1, <2>2, <2>3 DEF Next
<1>2. CASE UNCHANGED vars
  BY <1>2 DEF vars, IInv, TypeOK, JobInv, JobOK, LiveInv, LiveOK, WorkerInv,
              WorkerOK, AtMostOneLiveJob, NothingStranded, OutputOncePerStep
<1> QED
  BY <1>1, <1>2

\* IInv holds in every reachable state of the deployed pipeline.
THEOREM InductiveInvariant ==
  ASSUME OneWorkerPerType
  PROVE  SafeSpec => []IInv
<1>1. Init => IInv
  BY InitIInv
<1>2. IInv /\ [Next]_vars => IInv'
  BY NextIInv
<1> QED
  BY <1>1, <1>2, PTL DEF SafeSpec

---------------------------------------------------------------------------
\* The properties of the runs.

\* Every variable keeps its type.
THEOREM TypeCorrect ==
  ASSUME OneWorkerPerType
  PROVE  SafeSpec => []TypeOK
<1>1. IInv => TypeOK
  BY DEF IInv
<1> QED
  BY <1>1, InductiveInvariant, PTL

\* No report is stranded, and none has two jobs to be done.
THEOREM ReportsHaveOneJob ==
  ASSUME OneWorkerPerType
  PROVE  SafeSpec => [](NothingStranded /\ AtMostOneLiveJob)
<1>1. IInv => NothingStranded /\ AtMostOneLiveJob
  BY DEF IInv
<1> QED
  BY <1>1, InductiveInvariant, PTL

\* The jobs of a live are those its stage calls for.
THEOREM StagesAndJobsAgree ==
  ASSUME OneWorkerPerType
  PROVE  SafeSpec => []StageAgreesWithJobs
<1>1. IInv => StageAgreesWithJobs
  <2> SUFFICES ASSUME IInv, NEW j \in Jobs, status[j] \in Live
               PROVE  stage[StreamOf[j]] \in StagesOf[KindOf[j]]
    BY DEF StageAgreesWithJobs
  <2>1. JobOK(j) /\ KindOf[j] \in {"transcribe", "analyze"}
    BY IdsAssumption DEF IInv, JobInv, Types
  <2> QED
    BY <2>1, StageFacts DEF JobOK, Live
<1> QED
  BY <1>1, InductiveInvariant, PTL

\* The rows of a step are committed exactly once, with its DONE.
THEOREM OutputCommittedOnce ==
  ASSUME OneWorkerPerType
  PROVE  SafeSpec => []OutputOncePerStep
<1>1. IInv => OutputOncePerStep
  BY DEF IInv
<1> QED
  BY <1>1, InductiveInvariant, PTL

\* A report fails only once the attempts at a step are spent.
THEOREM FailureMeansSpent ==
  ASSUME OneWorkerPerType
  PROVE  SafeSpec => []FailedOnlyWhenSpent
<1>1. IInv => FailedOnlyWhenSpent
  <2> SUFFICES ASSUME IInv PROVE FailedOnlyWhenSpent
    OBVIOUS
  <2>1. \A j \in Jobs : JobOK(j) /\ attempts[j] \in Nat /\ status[j] \in Statuses
    BY DEF IInv, TypeOK, JobInv
  <2>2. \A j \in Jobs : attempts[j] <= MaxAttempts
    BY <2>1, BoundsAssumption DEF JobOK, Statuses
  <2>3. \A s \in Streams : stage[s] = "failed" =>
          \E j \in Jobs : StreamOf[j] = s /\ status[j] = "failed"
    BY DEF IInv, LiveInv, LiveOK
  <2> QED
    BY <2>1, <2>2, <2>3 DEF FailedOnlyWhenSpent, JobOK
<1> QED
  BY <1>1, InductiveInvariant, PTL

---------------------------------------------------------------------------
\* JobPipeline implements ReportLifecycle.

\* The attempts spent on the step of a live are those of its live job.
LEMMA TriesAtValue ==
  ASSUME AtMostOneLiveJob, NEW s \in Streams
  PROVE  /\ \A j \in Jobs : StreamOf[j] = s /\ status[j] \in Live =>
              TriesAt(s) = attempts[j]
         /\ (\A j \in Jobs : StreamOf[j] = s => status[j] \notin Live) =>
              TriesAt(s) = 0
<1>1. ASSUME NEW j \in Jobs, StreamOf[j] = s, status[j] \in Live
      PROVE  TriesAt(s) = attempts[j]
  <2> DEFINE k == CHOOSE i \in Jobs : StreamOf[i] = s /\ status[i] \in Live
  <2>1. k \in Jobs /\ StreamOf[k] = s /\ status[k] \in Live
    BY <1>1
  <2>2. k = j
    BY <1>1, <2>1 DEF AtMostOneLiveJob
  <2>3. TriesAt(s) = attempts[k]
    BY <1>1 DEF TriesAt
  <2> QED
    BY <2>2, <2>3
<1>2. (\A j \in Jobs : StreamOf[j] = s => status[j] \notin Live) => TriesAt(s) = 0
  BY DEF TriesAt
<1> QED
  BY <1>1, <1>2

\* The same, after a step.
LEMMA TriesAtNext ==
  ASSUME AtMostOneLiveJob', NEW s \in Streams
  PROVE  /\ \A j \in Jobs : StreamOf[j] = s /\ status'[j] \in Live =>
              TriesAt(s)' = attempts'[j]
         /\ (\A j \in Jobs : StreamOf[j] = s => status'[j] \notin Live) =>
              TriesAt(s)' = 0
<1>1. ASSUME NEW j \in Jobs, StreamOf[j] = s, status'[j] \in Live
      PROVE  TriesAt(s)' = attempts'[j]
  <2> DEFINE k == CHOOSE i \in Jobs : StreamOf[i] = s /\ status'[i] \in Live
  <2>1. k \in Jobs /\ StreamOf[k] = s /\ status'[k] \in Live
    BY <1>1
  <2>2. k = j
    BY <1>1, <2>1 DEF AtMostOneLiveJob, Live
  <2>3. TriesAt(s)' = attempts'[k]
    BY <1>1 DEF TriesAt, Live
  <2> QED
    BY <2>2, <2>3
<1>2. (\A j \in Jobs : StreamOf[j] = s => status'[j] \notin Live) =>
        TriesAt(s)' = 0
  BY DEF TriesAt, Live
<1> QED
  BY <1>1, <1>2

\* A live whose jobs do not change status or attempts keeps its attempts.
LEMMA TriesAtKept ==
  ASSUME IInv, IInv', NEW s \in Streams,
         \A j \in Jobs : StreamOf[j] = s =>
           /\ status'[j] \in Live <=> status[j] \in Live
           /\ attempts'[j] = attempts[j]
  PROVE  TriesAt(s)' = TriesAt(s)
<1>1. AtMostOneLiveJob /\ AtMostOneLiveJob'
  BY DEF IInv
<1>2. /\ \A j \in Jobs : StreamOf[j] = s /\ status[j] \in Live =>
           TriesAt(s) = attempts[j]
      /\ (\A j \in Jobs : StreamOf[j] = s => status[j] \notin Live) =>
           TriesAt(s) = 0
  BY <1>1, TriesAtValue
<1>3. /\ \A j \in Jobs : StreamOf[j] = s /\ status'[j] \in Live =>
           TriesAt(s)' = attempts'[j]
      /\ (\A j \in Jobs : StreamOf[j] = s => status'[j] \notin Live) =>
           TriesAt(s)' = 0
  BY <1>1, TriesAtNext
<1> QED
  BY <1>2, <1>3

\* The mapped attempts, by name.
Tries == [s \in Streams |-> TriesAt(s)]

\* The initial state maps to the initial state.
LEMMA InitRefines == Init => RL!Init
<1> SUFFICES ASSUME Init PROVE RL!Init
  OBVIOUS
<1>1. \A s \in Streams : TriesAt(s) = 0
  BY DEF Init, TriesAt, Live
<1> QED
  BY <1>1 DEF Init, RL!Init

\* A step that changes neither a stage nor a job's status or attempts is a
\* stutter.
LEMMA StutterRefines ==
  ASSUME IInv, IInv', UNCHANGED <<stage, status, attempts>>
  PROVE  UNCHANGED RL!vars
<1>1. \A s \in Streams : TriesAt(s)' = TriesAt(s)
  BY TriesAtKept
<1> QED
  BY <1>1 DEF RL!vars

\* The end of a capture is an Enqueue.
LEMMA FinalizeRefines ==
  ASSUME IInv, IInv', NEW s \in Streams, Finalize(s)
  PROVE  RL!Enqueue(s)
<1> USE IdsAssumption
<1> PICK j \in FreshIds(s, "transcribe") :
           status' = [status EXCEPT ![j] = "queued"]
  BY DEF Finalize
<1>1. /\ j \in Jobs /\ StreamOf[j] = s
      /\ status'[j] = "queued" /\ attempts'[j] = 0
      /\ \A i \in Jobs : i # j => status'[i] = status[i]
      /\ attempts' = attempts
  BY DEF Finalize, FreshIds, IInv, TypeOK, JobInv, JobOK
<1>2. \A i \in Jobs : StreamOf[i] = s => status[i] \notin Live
  BY DEF Finalize, IInv, LiveInv, LiveOK, Live
<1>3. TriesAt(s) = 0
  BY <1>2, TriesAtValue DEF IInv
<1>4. TriesAt(s)' = 0
  <2>1. AtMostOneLiveJob'
    BY DEF IInv
  <2> QED
    BY <2>1, <1>1, TriesAtNext DEF Live
<1>5. \A r \in Streams : r # s => TriesAt(r)' = TriesAt(r)
  BY <1>1, TriesAtKept
<1> QED
  BY <1>3, <1>4, <1>5 DEF Finalize, RL!Enqueue

\* Starting a picked job is an Attempt.
LEMMA StartRefines ==
  ASSUME OneWorkerPerType, IInv, IInv', NEW w \in Workers, Start(w)
  PROVE  \E s \in Streams : RL!Attempt(s)
<1> USE IdsAssumption, BoundsAssumption
<1> PICK j : j = mem[w].held
  OBVIOUS
<1> DEFINE s == StreamOf[j]
           t == TypeOf[w]
<1>1. pc[w] = "picked" /\ j \in Jobs /\ WorkerOK(w) /\ t \in {"transcribe", "analyze"}
  BY DEF Start, IInv, TypeOK, WorkerInv, Types
<1>2. /\ s \in Streams /\ KindOf[j] = t /\ status[j] = "queued"
      /\ mem[w].tries[j] = attempts[j] /\ mem[w].stage = stage[s]
  BY <1>1 DEF WorkerOK
<1>3. attempts[j] < MaxAttempts /\ stage[s] \in StagesOf[t] /\ attempts[j] \in Nat
  BY <1>1, <1>2 DEF IInv, TypeOK, JobInv, JobOK
<1>4. /\ status' = [status EXCEPT ![j] = "running"]
      /\ attempts' = [attempts EXCEPT ![j] = attempts[j] + 1]
      /\ stage' = [stage EXCEPT ![s] = RunningStage[t]]
  <2>1. /\ status' = [status EXCEPT ![j] = "running"]
        /\ attempts' = [attempts EXCEPT ![j] = attempts[j] + 1]
        /\ stage' = IF stage[s] = RunningStage[t] THEN stage
                    ELSE [stage EXCEPT ![s] = RunningStage[t]]
    BY <1>2 DEF Start
  <2> QED
    BY <2>1, <1>2 DEF IInv, TypeOK
<1> HIDE DEF s, t
<1>5. /\ status'[j] = "running" /\ attempts'[j] = attempts[j] + 1
      /\ \A i \in Jobs : i # j => status'[i] = status[i] /\ attempts'[i] = attempts[i]
  BY <1>1, <1>4 DEF IInv, TypeOK
<1>6. TriesAt(s) = attempts[j]
  BY <1>1, <1>2, TriesAtValue DEF IInv, Live, s
<1>7. TriesAt(s)' = attempts[j] + 1
  <2>1. AtMostOneLiveJob'
    BY DEF IInv
  <2> QED
    BY <2>1, <1>1, <1>2, <1>5, TriesAtNext DEF Live, s
<1>8. \A r \in Streams : r # s => TriesAt(r)' = TriesAt(r)
  BY <1>5, TriesAtKept DEF s
<1>9. stage[s] \notin RL!Terminal \cup {"capturing"}
      /\ RL!RunningFrom(stage[s]) = RunningStage[t]
  BY <1>1, <1>3, StageFacts DEF RL!Terminal, RL!RunningFrom
<1>10. Tries' = [Tries EXCEPT ![s] = Tries[s] + 1]
  BY <1>2, <1>6, <1>7, <1>8 DEF Tries
<1>11. Tries[s] < MaxAttempts
  BY <1>2, <1>3, <1>6 DEF Tries
<1>12. stage' = [stage EXCEPT ![s] = RL!RunningFrom(stage[s])]
  BY <1>4, <1>9
<1>13. RL!Attempt(s)
  BY <1>9, <1>10, <1>11, <1>12 DEF RL!Attempt, Tries
<1> QED
  BY <1>2, <1>13

\* A handler that returns is a Finish.
LEMMA SucceedRefines ==
  ASSUME OneWorkerPerType, IInv, IInv', NEW w \in Workers, Succeed(w)
  PROVE  \E s \in Streams : RL!Finish(s)
<1> USE IdsAssumption, BoundsAssumption
<1> PICK j : j = mem[w].held
  OBVIOUS
<1> DEFINE s == StreamOf[j]
           t == TypeOf[w]
<1>1. /\ j \in Jobs /\ s \in Streams /\ t \in {"transcribe", "analyze"}
      /\ status[j] = "running" /\ stage[s] = RunningStage[t]
  BY RunnerFacts DEF Succeed
<1>2. /\ status'[j] = "done" /\ attempts' = attempts
      /\ stage' = [stage EXCEPT ![s] = DoneStage[t]]
      /\ \A i \in Jobs : i # j /\ StreamOf[i] # s => status'[i] = status[i]
      /\ \A i \in Jobs : i # j /\ StreamOf[i] = s =>
           status'[i] = status[i] \/ (status[i] = "absent" /\ status'[i] = "queued")
  BY <1>1 DEF Succeed, FreshIds, IInv, TypeOK
<1>3. \A i \in Jobs : i # j /\ StreamOf[i] = s => status[i] \notin Live
  BY <1>1 DEF IInv, AtMostOneLiveJob, Live
<1> HIDE DEF s, t
<1>4. \A i \in Jobs : StreamOf[i] = s /\ status'[i] \in Live => attempts'[i] = 0
  BY <1>1, <1>2, <1>3 DEF Live, IInv, JobInv, JobOK
<1>5. TriesAt(s)' = 0
  <2>1. AtMostOneLiveJob'
    BY DEF IInv
  <2> QED
    BY <2>1, <1>1, <1>4, TriesAtNext
<1>6. \A r \in Streams : r # s => TriesAt(r)' = TriesAt(r)
  <2>1. \A i \in Jobs : StreamOf[i] # s => status'[i] = status[i]
    BY <1>2 DEF s
  <2> QED
    BY <2>1, <1>2, TriesAtKept
<1>7. stage[s] \in RL!Running /\ RL!DoneFrom(stage[s]) = DoneStage[t]
  BY <1>1, StageFacts DEF RL!Running, RL!DoneFrom
<1>8. Tries' = [Tries EXCEPT ![s] = 0]
  BY <1>1, <1>5, <1>6 DEF Tries
<1>9. stage' = [stage EXCEPT ![s] = RL!DoneFrom(stage[s])]
  BY <1>2, <1>7
<1>10. RL!Finish(s)
  BY <1>7, <1>8, <1>9 DEF RL!Finish, Tries
<1> QED
  BY <1>1, <1>10

\* A handler that raises is a GiveUp when it was the last attempt, and a
\* stutter otherwise.
LEMMA FailRefines ==
  ASSUME OneWorkerPerType, IInv, IInv', NEW w \in Workers, Fail(w)
  PROVE  \/ \E s \in Streams : RL!GiveUp({s})
         \/ UNCHANGED RL!vars
<1> USE IdsAssumption, BoundsAssumption
<1> PICK j : j = mem[w].held
  OBVIOUS
<1> DEFINE s == StreamOf[j]
           t == TypeOf[w]
<1>1. /\ j \in Jobs /\ s \in Streams /\ t \in {"transcribe", "analyze"}
      /\ status[j] = "running" /\ stage[s] = RunningStage[t]
      /\ attempts[j] \in 1..MaxAttempts
  BY RunnerFacts DEF Fail
<1>2. attempts' = attempts
  BY DEF Fail
<1>3. CASE attempts[j] >= MaxAttempts
  <2>1. /\ stage' = [stage EXCEPT ![s] = "failed"]
        /\ status' = [status EXCEPT ![j] = "failed"]
    BY <1>3 DEF Fail
  <2>2. \A r \in Streams : r # s => TriesAt(r)' = TriesAt(r)
    <3>1. \A i \in Jobs : i # j => status'[i] = status[i]
      BY <2>1 DEF IInv, TypeOK
    <3> QED
      BY <3>1, <1>2, TriesAtKept
  <2>3. TriesAt(s) = MaxAttempts
    BY <1>1, <1>3, TriesAtValue DEF IInv, Live
  <2>4. TriesAt(s)' = 0
    <3>1. \A i \in Jobs : StreamOf[i] = s => status'[i] \notin Live
      BY <1>1, <2>1 DEF IInv, TypeOK, AtMostOneLiveJob, Live
    <3>2. AtMostOneLiveJob'
      BY DEF IInv
    <3> QED
      BY <3>1, <3>2, <1>1, TriesAtNext
  <2>5. Tries' = [r \in Streams |-> IF r \in {s} THEN 0 ELSE Tries[r]]
    BY <2>2, <2>4 DEF Tries
  <2>6. stage' = [r \in Streams |-> IF r \in {s} THEN "failed" ELSE stage[r]]
    BY <2>1 DEF IInv, TypeOK
  <2>7. \A r \in {s} : stage[r] \in RL!Running /\ Tries[r] = MaxAttempts
    BY <1>1, <2>3, StageFacts DEF RL!Running, Tries
  <2>8. RL!GiveUp({s})
    BY <2>5, <2>6, <2>7 DEF RL!GiveUp, Tries
  <2> QED
    BY <1>1, <2>8
<1>4. CASE ~(attempts[j] >= MaxAttempts)
  <2>1. /\ stage' = stage
        /\ status' = [status EXCEPT ![j] = "queued"]
    BY <1>4 DEF Fail
  <2>2. \A i \in Jobs : status'[i] \in Live <=> status[i] \in Live
    BY <1>1, <2>1 DEF IInv, TypeOK, Live
  <2>3. \A r \in Streams : TriesAt(r)' = TriesAt(r)
    BY <2>2, <1>2, TriesAtKept
  <2> QED
    BY <2>1, <2>3 DEF RL!vars
<1> QED
  BY <1>3, <1>4

\* Reclaiming dead jobs is a GiveUp of the lives whose attempts are spent, and
\* a stutter if there is none.
LEMMA ReclaimRefines ==
  ASSUME OneWorkerPerType, IInv, IInv', NEW w \in Workers, Reclaim(w)
  PROVE  \/ \E s \in Streams : RL!Advance(s)
         \/ UNCHANGED RL!vars
<1> USE IdsAssumption, BoundsAssumption
<1> PICK D, S : D = mem[w].dead /\ S = Spent(w)
  OBVIOUS
<1> DEFINE G == {s \in Streams : \E j \in S : StreamOf[j] = s}
<1>1. /\ D \in SUBSET Jobs /\ S \in SUBSET D
      /\ \A j \in D : /\ status[j] = "running"
                      /\ stage[StreamOf[j]] = RunningStage[TypeOf[w]]
      /\ \A j \in S : attempts[j] = MaxAttempts
  BY ReclaimFacts
<1>2. /\ status' = [j \in Jobs |-> IF j \in S THEN "failed"
                                   ELSE IF j \in D THEN "queued" ELSE status[j]]
      /\ stage' = [s \in Streams |-> IF s \in G THEN "failed" ELSE stage[s]]
      /\ attempts' = attempts
  BY DEF Reclaim
<1>3. \A j \in Jobs : /\ j \in S => status'[j] \notin Live /\ status[j] \in Live
                      /\ j \notin S => (status'[j] \in Live <=> status[j] \in Live)
  BY <1>1, <1>2 DEF Live
<1>4. \A s \in Streams \ G : TriesAt(s)' = TriesAt(s)
  <2> SUFFICES ASSUME NEW s \in Streams \ G PROVE TriesAt(s)' = TriesAt(s)
    OBVIOUS
  <2>1. \A j \in Jobs : StreamOf[j] = s => j \notin S
    OBVIOUS
  <2> QED
    BY <2>1, <1>2, <1>3, TriesAtKept
<1>5. \A s \in G : /\ stage[s] \in RL!Running
                   /\ TriesAt(s) = MaxAttempts
                   /\ TriesAt(s)' = 0
  <2> SUFFICES ASSUME NEW s \in G
               PROVE  /\ stage[s] \in RL!Running
                      /\ TriesAt(s) = MaxAttempts
                      /\ TriesAt(s)' = 0
    OBVIOUS
  <2>1. PICK j \in S : StreamOf[j] = s
    OBVIOUS
  <2>2. stage[s] \in RL!Running
    BY <2>1, <1>1, StageFacts DEF RL!Running, Types
  <2>3. TriesAt(s) = MaxAttempts
    BY <2>1, <1>1, <1>3, TriesAtValue DEF IInv
  <2>4. \A i \in Jobs : StreamOf[i] = s => status'[i] \notin Live
    BY <2>1, <1>1, <1>3 DEF IInv, AtMostOneLiveJob
  <2>5. TriesAt(s)' = 0
    <3>1. AtMostOneLiveJob'
      BY DEF IInv
    <3> QED
      BY <3>1, <2>4, TriesAtNext
  <2> QED
    BY <2>2, <2>3, <2>5
<1>6. CASE G = {}
  <2>1. stage' = stage
    BY <1>2, <1>6 DEF IInv, TypeOK
  <2> QED
    BY <2>1, <1>4, <1>6 DEF RL!vars
<1>7. CASE G # {}
  <2>1. PICK s \in G : s \in Streams
    BY <1>7
  <2>2. Tries' = [r \in Streams |-> IF r \in G THEN 0 ELSE Tries[r]]
    BY <1>4, <1>5 DEF Tries
  <2>3. \A r \in G : stage[r] \in RL!Running /\ Tries[r] = MaxAttempts
    BY <1>5 DEF Tries
  <2>4. stage' = [r \in Streams |-> IF r \in G THEN "failed" ELSE stage[r]]
    BY <1>2
  <2> HIDE DEF G
  <2>5. RL!GiveUp(G)
    BY <2>2, <2>3, <2>4 DEF RL!GiveUp, Tries
  <2>6. G \in SUBSET Streams
    BY DEF G
  <2>7. RL!Advance(s)
    BY <2>1, <2>5, <2>6 DEF RL!Advance
  <2> QED
    BY <2>1, <2>7
<1> QED
  BY <1>6, <1>7

\* Every step of the pipeline is a step of ReportLifecycle or a stutter.
LEMMA NextRefines ==
  ASSUME OneWorkerPerType, IInv, IInv', [Next]_vars
  PROVE  [RL!Next]_RL!vars
<1>1. ASSUME NEW s \in Streams, Finalize(s) PROVE RL!Next
  BY <1>1, FinalizeRefines DEF RL!Next
<1>2. CASE Tick \/ UNCHANGED vars
  <2>1. UNCHANGED <<stage, status, attempts>>
    BY <1>2 DEF Tick, vars
  <2> QED
    BY <2>1, StutterRefines
<1>3. ASSUME NEW w \in Workers, Step(w) PROVE [RL!Next]_RL!vars
  <2>1. CASE Scan(w) \/ Pick(w) \/ Sleep(w) \/ Beat(w) \/ Crash(w) \/ Restart(w)
    <3>1. UNCHANGED <<stage, status, attempts>>
      BY <2>1 DEF Scan, Pick, Sleep, Beat, Crash, Restart, tables
    <3> QED
      BY <3>1, StutterRefines
  <2>2. CASE Reclaim(w)
    BY <2>2, ReclaimRefines DEF RL!Next
  <2>3. CASE Start(w)
    BY <2>3, StartRefines DEF RL!Next, RL!Advance
  <2>4. CASE Succeed(w)
    BY <2>4, SucceedRefines DEF RL!Next, RL!Advance
  <2>5. CASE Fail(w)
    <3>1. ASSUME NEW s \in Streams, RL!GiveUp({s}) PROVE RL!Advance(s)
      <4>1. {s} \in SUBSET Streams /\ s \in {s}
        OBVIOUS
      <4> QED
        BY <3>1, <4>1 DEF RL!Advance
    <3> QED
      BY <2>5, <3>1, FailRefines DEF RL!Next
  <2> QED
    BY <1>3, <2>1, <2>2, <2>3, <2>4, <2>5 DEF Step
<1> QED
  BY <1>1, <1>2, <1>3 DEF Next

\* The deployed pipeline implements the safety part of ReportLifecycle: each
\* live goes through its stages in order, each step within MaxAttempts
\* attempts, and rests for good when it is ready or failed.
THEOREM PipelineImplementsLifecycle ==
  ASSUME OneWorkerPerType
  PROVE  SafeSpec => LifecycleSafety
<1>1. Init => RL!Init
  BY InitRefines
<1>2. IInv /\ IInv' /\ [Next]_vars => [RL!Next]_RL!vars
  BY NextRefines
<1> QED
  BY <1>1, <1>2, InductiveInvariant, PTL DEF SafeSpec, LifecycleSafety, RL!SafeSpec
===========================================================================
