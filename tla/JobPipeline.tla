--------------------------- MODULE JobPipeline ---------------------------
(***************************************************************************)
(* The jobs table as a queue, and the workers that drain it                *)
(* (core/worker_loop.py, core/queues.py, the specs of workers/transcribe   *)
(* and workers/analyze, and the transaction of workers/capture/session.py  *)
(* that puts a finished live on the queue).                                *)
(*                                                                         *)
(* The database rows are stage (streams.status), status, attempts and age  *)
(* (jobs.status, .attempts, and the number of heartbeat intervals since    *)
(* .last_heartbeat) and output (how many copies of what the handler of a   *)
(* type writes for a live are committed).  A worker is a process: pc says  *)
(* where in run_worker it is and mem holds what its session has read.      *)
(* Between two steps of a worker every other process may act: what a       *)
(* worker read in one step may be stale when it writes in the next.        *)
(*                                                                         *)
(* pick_next_job's order (the estimated next live of the channel) is left  *)
(* open: a worker may pick any queued job.  A handler's own work is one    *)
(* transaction that the loop commits together with the job's new status,   *)
(* so it appears as the rows it adds to output when that commit happens.   *)
(***************************************************************************)
EXTENDS Integers, FiniteSets

CONSTANTS
  Streams,        \* lives
  Jobs,           \* ids the jobs table can hand out
  Workers,        \* worker processes
  NoJob,          \* "no job", not an id
  StreamOf,       \* the live a job id will belong to
  KindOf,         \* the type a job id will have
  TypeOf,         \* the job type a worker process drains (its WorkerSpec)
  MaxAttempts,    \* MAX_ATTEMPTS
  StaleAfter,     \* HEARTBEAT_STALE_AFTER, in heartbeat intervals
  MaxLostBeats    \* bound: beats a live process may miss in a row

Types == {"transcribe", "analyze"}

ASSUME IdsAssumption ==
  /\ NoJob \notin Jobs
  /\ StreamOf \in [Jobs -> Streams]
  /\ KindOf \in [Jobs -> Types]
  /\ TypeOf \in [Workers -> Types]

ASSUME BoundsAssumption ==
  /\ MaxAttempts \in Nat \ {0}
  /\ StaleAfter \in Nat
  /\ MaxLostBeats \in Nat

VARIABLES
  stage,      \* [Streams -> Stages]                  streams.status
  status,     \* [Jobs -> Statuses]                   jobs.status
  attempts,   \* [Jobs -> Nat]                        jobs.attempts
  age,        \* [Jobs -> 0..StaleAfter + 1]          since jobs.last_heartbeat
  output,     \* [Streams -> [Types -> Int]]           copies of a handler's rows
  pc,         \* [Workers -> Locations]               where run_worker is
  mem         \* [Workers -> Memory]                  what its session has read

tables == <<stage, status, attempts, age, output>>
vars   == <<stage, status, attempts, age, output, pc, mem>>

Stages == {"capturing", "queued_transcription", "transcribing",
           "queued_analysis", "analyzing", "ready", "failed"}

\* "absent" is an id no row has yet.
Statuses == {"absent", "queued", "running", "done", "failed"}

Locations == {"polling", "reclaiming", "choosing", "picked", "running", "down"}

\* dead: the jobs reclaim_dead_jobs selected; held: the job picked; tries: the
\* attempts read with them; stage: the status of the live read with held;
\* wiped: the rows the handler's own DELETE covered.
Memory == [dead : SUBSET Jobs, held : Jobs \cup {NoJob}, tries : [Jobs -> Nat],
           stage : Stages, wiped : Int]

NothingRead == [dead |-> {}, held |-> NoJob, tries |-> [j \in Jobs |-> 0],
                stage |-> "capturing", wiped |-> 0]

Live == {"queued", "running"}

---------------------------------------------------------------------------
\* The two WorkerSpecs.

RunningStage == [t \in Types |->
                   IF t = "transcribe" THEN "transcribing" ELSE "analyzing"]

DoneStage == [t \in Types |->
                IF t = "transcribe" THEN "queued_analysis" ELSE "ready"]

\* The stage in which a job of type t is first queued.
QueuedStage == [t \in Types |->
                  IF t = "transcribe" THEN "queued_transcription"
                                      ELSE "queued_analysis"]

\* The ids enqueue_job may give to a new job of type t for live s.
FreshIds(s, t) ==
  {j \in Jobs : StreamOf[j] = s /\ KindOf[j] = t /\ status[j] = "absent"}

\* Seeded fault: no heartbeat is ever too old (there is no reclaim).
Stale_Never(j) == FALSE

\* A running job whose beat is older than the cutoff.
Stale(j) == status[j] = "running" /\ age[j] > StaleAfter

\* What the session keeps of jobs.attempts when it selects the jobs of D.
TriesOf(D) == [j \in Jobs |-> IF j \in D THEN attempts[j] ELSE 0]

\* The memory of a session that has selected the dead jobs D,
Selected(D) == [dead |-> D, held |-> NoJob, tries |-> TriesOf(D),
                stage |-> "capturing", wiped |-> 0]

\* that has picked job j together with its live,
Chosen(j) == [dead |-> {}, held |-> j, tries |-> TriesOf({j}),
              stage |-> stage[StreamOf[j]], wiped |-> 0]

\* and whose handler works at job j, having deleted n copies of its rows.
AtWork(j, n) == [dead |-> {}, held |-> j, tries |-> TriesOf({}),
                 stage |-> "capturing", wiped |-> n]

---------------------------------------------------------------------------
Init ==
  /\ stage    = [s \in Streams |-> "capturing"]
  /\ status   = [j \in Jobs |-> "absent"]
  /\ attempts = [j \in Jobs |-> 0]
  /\ age      = [j \in Jobs |-> 0]
  /\ output   = [s \in Streams |-> [t \in Types |-> 0]]
  /\ pc       = [w \in Workers |-> "polling"]
  /\ mem      = [w \in Workers |-> NothingRead]

\* CaptureSession._finalize: the live leaves "capturing" and its transcribe
\* job is queued, in one commit.
Finalize(s) ==
  /\ stage[s] = "capturing"
  /\ \E j \in FreshIds(s, "transcribe") :
       status' = [status EXCEPT ![j] = "queued"]
  /\ stage' = [stage EXCEPT ![s] = "queued_transcription"]
  /\ UNCHANGED <<attempts, age, output, pc, mem>>

\* reclaim_dead_jobs selects the running jobs of its type with a stale beat.
Scan(w) ==
  /\ pc[w] = "polling"
  /\ LET D == {j \in Jobs : KindOf[j] = TypeOf[w] /\ Stale(j)}
     IN  /\ pc'  = [pc EXCEPT ![w] = IF D = {} THEN "choosing" ELSE "reclaiming"]
         /\ mem' = [mem EXCEPT ![w] = Selected(D)]
  /\ UNCHANGED tables

\* The jobs a worker will abandon: their attempts are spent.
Spent(w) == {j \in mem[w].dead : mem[w].tries[j] >= MaxAttempts}

\* Seeded fault: the abandoned jobs fail, their lives do not.
Reclaim_KeepsStage(w) ==
  /\ pc[w] = "reclaiming"
  /\ status' = [j \in Jobs |->
                  IF j \in Spent(w) THEN "failed"
                  ELSE IF j \in mem[w].dead THEN "queued"
                  ELSE status[j]]
  /\ pc'  = [pc EXCEPT ![w] = "choosing"]
  /\ mem' = [mem EXCEPT ![w] = NothingRead]
  /\ UNCHANGED <<stage, attempts, age, output>>

\* ... and commits what it decided for each of them from what it read.
Reclaim(w) ==
  /\ pc[w] = "reclaiming"
  /\ status' = [j \in Jobs |->
                  IF j \in Spent(w) THEN "failed"
                  ELSE IF j \in mem[w].dead THEN "queued"
                  ELSE status[j]]
  /\ stage' = [s \in Streams |->
                 IF \E j \in Spent(w) : StreamOf[j] = s THEN "failed"
                                                        ELSE stage[s]]
  /\ pc'  = [pc EXCEPT ![w] = "choosing"]
  /\ mem' = [mem EXCEPT ![w] = NothingRead]
  /\ UNCHANGED <<attempts, age, output>>

\* pick_next_job: one of the queued jobs of the type, read with its live.
Pick(w) ==
  /\ pc[w] = "choosing"
  /\ \E j \in Jobs :
       /\ KindOf[j] = TypeOf[w]
       /\ status[j] = "queued"
       /\ mem' = [mem EXCEPT ![w] = Chosen(j)]
  /\ pc' = [pc EXCEPT ![w] = "picked"]
  /\ UNCHANGED tables

\* Nothing queued: sleep, then poll again.
Sleep(w) ==
  /\ pc[w] = "choosing"
  /\ \A j \in Jobs : ~(KindOf[j] = TypeOf[w] /\ status[j] = "queued")
  /\ pc' = [pc EXCEPT ![w] = "polling"]
  /\ UNCHANGED <<tables, mem>>

\* Seeded fault: the attempt is not counted.
Start_Uncounted(w) ==
  LET j == mem[w].held
      s == StreamOf[j]
  IN  /\ pc[w] = "picked"
      /\ status'   = [status EXCEPT ![j] = "running"]
      /\ UNCHANGED attempts
      /\ age'      = [age EXCEPT ![j] = 0]
      /\ stage' = [stage EXCEPT ![s] = RunningStage[TypeOf[w]]]
      /\ pc'  = [pc EXCEPT ![w] = "running"]
      /\ mem' = [mem EXCEPT ![w] = AtWork(j, output[s][TypeOf[w]])]
      /\ UNCHANGED output

\* _run_job up to the handler.  The new count is computed from the one read;
\* the live's status is written only if it differs from the one read (the
\* session sends no UPDATE for an attribute set to the value it has); the
\* handler begins by deleting the rows of earlier runs.
Start(w) ==
  LET j == mem[w].held
      s == StreamOf[j]
  IN  /\ pc[w] = "picked"
      /\ status'   = [status EXCEPT ![j] = "running"]
      /\ attempts' = [attempts EXCEPT ![j] = mem[w].tries[j] + 1]
      /\ age'      = [age EXCEPT ![j] = 0]
      /\ stage' = IF mem[w].stage = RunningStage[TypeOf[w]] THEN stage
                  ELSE [stage EXCEPT ![s] = RunningStage[TypeOf[w]]]
      /\ pc'  = [pc EXCEPT ![w] = "running"]
      /\ mem' = [mem EXCEPT ![w] = AtWork(j, output[s][TypeOf[w]])]
      /\ UNCHANGED output

\* _Heartbeat._beat while the handler runs.
Beat(w) ==
  /\ pc[w] = "running"
  /\ age' = [age EXCEPT ![mem[w].held] = 0]
  /\ UNCHANGED <<stage, status, attempts, output, pc, mem>>

\* The handler returned: its rows, the job, the live and the next job are
\* committed together.
Succeed(w) ==
  LET j == mem[w].held
      s == StreamOf[j]
      t == TypeOf[w]
  IN  /\ pc[w] = "running"
      /\ IF t = "transcribe"
           THEN \E n \in FreshIds(s, "analyze") :
                  status' = [status EXCEPT ![j] = "done", ![n] = "queued"]
           ELSE status' = [status EXCEPT ![j] = "done"]
      /\ stage'  = [stage EXCEPT ![s] = DoneStage[t]]
      /\ output' = [output EXCEPT ![s][t] = @ - mem[w].wiped + 1]
      /\ pc'  = [pc EXCEPT ![w] = "polling"]
      /\ mem' = [mem EXCEPT ![w] = NothingRead]
      /\ UNCHANGED <<attempts, age>>

\* Seeded fault: the live fails with the first attempt.
Fail_EarlyStage(w) ==
  LET j == mem[w].held
      spent == attempts[j] >= MaxAttempts
  IN  /\ pc[w] = "running"
      /\ status' = [status EXCEPT ![j] = IF spent THEN "failed" ELSE "queued"]
      /\ stage'  = [stage EXCEPT ![StreamOf[j]] = "failed"]
      /\ pc'  = [pc EXCEPT ![w] = "polling"]
      /\ mem' = [mem EXCEPT ![w] = NothingRead]
      /\ UNCHANGED <<attempts, age, output>>

\* Seeded fault: one attempt too many.
Fail_OneMore(w) ==
  LET j == mem[w].held
      spent == attempts[j] > MaxAttempts
  IN  /\ pc[w] = "running"
      /\ status' = [status EXCEPT ![j] = IF spent THEN "failed" ELSE "queued"]
      /\ stage'  = IF spent THEN [stage EXCEPT ![StreamOf[j]] = "failed"]
                            ELSE stage
      /\ pc'  = [pc EXCEPT ![w] = "polling"]
      /\ mem' = [mem EXCEPT ![w] = NothingRead]
      /\ UNCHANGED <<attempts, age, output>>

\* Seeded fault: no rollback before the failure is registered.
Fail_KeepsRows(w) ==
  LET j == mem[w].held
      spent == attempts[j] >= MaxAttempts
  IN  /\ pc[w] = "running"
      /\ status' = [status EXCEPT ![j] = IF spent THEN "failed" ELSE "queued"]
      /\ stage'  = IF spent THEN [stage EXCEPT ![StreamOf[j]] = "failed"]
                            ELSE stage
      /\ pc'  = [pc EXCEPT ![w] = "polling"]
      /\ mem' = [mem EXCEPT ![w] = NothingRead]
      /\ output' = [output EXCEPT ![StreamOf[j]][TypeOf[w]] = @ + 1]
      /\ UNCHANGED <<attempts, age>>

\* The handler raised: its rows are rolled back, then _register_failure reads
\* the job again and requeues it or gives up.
Fail(w) ==
  LET j == mem[w].held
      spent == attempts[j] >= MaxAttempts
  IN  /\ pc[w] = "running"
      /\ status' = [status EXCEPT ![j] = IF spent THEN "failed" ELSE "queued"]
      /\ stage'  = IF spent THEN [stage EXCEPT ![StreamOf[j]] = "failed"]
                            ELSE stage
      /\ pc'  = [pc EXCEPT ![w] = "polling"]
      /\ mem' = [mem EXCEPT ![w] = NothingRead]
      /\ UNCHANGED <<attempts, age, output>>

\* The process dies wherever it is (kill, OOM, redeploy, an error that
\* run_worker lets escape); its open transaction is rolled back.
Crash(w) ==
  /\ pc[w] # "down"
  /\ pc'  = [pc EXCEPT ![w] = "down"]
  /\ mem' = [mem EXCEPT ![w] = NothingRead]
  /\ UNCHANGED tables

\* The platform starts the process again.
Restart(w) ==
  /\ pc[w] = "down"
  /\ pc' = [pc EXCEPT ![w] = "polling"]
  /\ UNCHANGED <<tables, mem>>

\* A heartbeat interval passes.  A beat may be lost (a failed one is swallowed)
\* but a live process misses at most MaxLostBeats in a row.
Tick ==
  /\ \A w \in Workers :
       pc[w] = "running" => age[mem[w].held] < MaxLostBeats
  /\ age' = [j \in Jobs |-> IF status[j] = "running" /\ age[j] <= StaleAfter
                              THEN age[j] + 1 ELSE age[j]]
  /\ UNCHANGED <<stage, status, attempts, output, pc, mem>>

Step(w) == \/ Scan(w)    \/ Reclaim(w) \/ Pick(w)    \/ Sleep(w)
           \/ Start(w)   \/ Beat(w)    \/ Succeed(w) \/ Fail(w)
           \/ Crash(w)   \/ Restart(w)

Next == \/ \E s \in Streams : Finalize(s)
        \/ \E w \in Workers : Step(w)
        \/ Tick

\* A handler ends, a dead process is restarted and time passes.  A process may
\* be killed at any point, but not for ever at the same one: each step of the
\* loop that keeps becoming possible is taken at last.
Fairness ==
  /\ WF_vars(Tick)
  /\ \A w \in Workers :
       /\ WF_vars(Restart(w))
       /\ SF_vars(Scan(w))
       /\ SF_vars(Reclaim(w))
       /\ SF_vars(Pick(w))
       /\ WF_vars(Sleep(w))
       /\ SF_vars(Start(w))
       /\ WF_vars(Succeed(w) \/ Fail(w))

SafeSpec == Init /\ [][Next]_vars

Spec == SafeSpec /\ Fairness
---------------------------------------------------------------------------
\* Properties.

TypeOK ==
  /\ stage    \in [Streams -> Stages]
  /\ status   \in [Jobs -> Statuses]
  /\ attempts \in [Jobs -> Nat]
  /\ age      \in [Jobs -> 0..StaleAfter + 1]
  /\ output   \in [Streams -> [Types -> Int]]
  /\ pc       \in [Workers -> Locations]
  /\ mem      \in [Workers -> Memory]
  /\ \A w \in Workers :
       pc[w] \in {"picked", "running"} => mem[w].held \in Jobs

\* One process for each job type, which is how deploy/app.yaml runs them.
OneWorkerPerType == \A v, w \in Workers : TypeOf[v] = TypeOf[w] => v = w

\* The stages in which a live waits for, or is in, the step of type t.
StagesOf == [t \in Types |-> {QueuedStage[t], RunningStage[t]}]

\* A live has at most one job to be done: a retry, a reclaim or a crash never
\* leaves two queued or running jobs for the same report.
AtMostOneLiveJob ==
  \A i, j \in Jobs :
    status[i] \in Live /\ status[j] \in Live /\ StreamOf[i] = StreamOf[j]
      => i = j

\* No report is stranded: a live whose capture is over and whose report is
\* neither ready nor failed has a job that some worker will look for (what the
\* docstring of reclaim_dead_jobs says nothing else would guarantee).
NothingStranded ==
  \A s \in Streams :
    stage[s] \notin {"capturing", "ready", "failed"} =>
      \E j \in Jobs : StreamOf[j] = s /\ status[j] \in Live

\* ... and the job is the one its stage calls for; a live that is being
\* captured, is ready or has failed has none.
StageAgreesWithJobs ==
  \A j \in Jobs :
    status[j] \in Live => stage[StreamOf[j]] \in StagesOf[KindOf[j]]

\* What a handler writes is committed exactly once, with the job's DONE: no
\* attempt that failed, or died with its worker, leaves rows behind, and no
\* report moves on without them.
OutputOncePerStep ==
  \A s \in Streams, t \in Types :
    output[s][t] = IF \E j \in Jobs : StreamOf[j] = s /\ KindOf[j] = t
                                                      /\ status[j] = "done"
                     THEN 1 ELSE 0

\* A report fails only after MAX_ATTEMPTS attempts at one step, however those
\* were lost, and no step is ever attempted more often.
FailedOnlyWhenSpent ==
  /\ \A j \in Jobs : attempts[j] <= MaxAttempts
  /\ \A s \in Streams : stage[s] = "failed" =>
       \E j \in Jobs : /\ StreamOf[j] = s
                       /\ status[j] = "failed"
                       /\ attempts[j] = MaxAttempts

\* What a pool promises.  "Idempotent: reruns replace previous rows"
\* (workers/transcribe/pipeline.py:262): however many workers of a type there are
\* (core/config.py:80 speaks of "a throttled pool of N transcribe workers"), and
\* however often they run a step, its rows are there once.  The pick takes no
\* lock, and reclaim_dead_jobs writes jobs it selected earlier, so with two workers
\* it does not hold (MCJobPoolTwice.cfg).
RerunsReplace ==
  \A s \in Streams, t \in Types : output[s][t] <= 1

---------------------------------------------------------------------------
\* The inductive invariant behind the properties above, for one worker per
\* type.  It says what each status of a job, each stage of a live and each
\* location of a worker imply about the other rows.

\* The stages a live can be in once its step of type t is done.
AfterStages == [t \in Types |->
                  IF t = "transcribe"
                    THEN {"queued_analysis", "analyzing", "ready", "failed"}
                    ELSE {"ready"}]

JobOK(j) ==
  LET s == StreamOf[j]
      t == KindOf[j]
  IN  /\ status[j] = "absent"  => attempts[j] = 0
      /\ status[j] = "queued"  => /\ attempts[j] < MaxAttempts
                                  /\ stage[s] \in StagesOf[t]
      /\ status[j] = "running" => /\ attempts[j] \in 1..MaxAttempts
                                  /\ stage[s] = RunningStage[t]
      /\ status[j] = "done"    => /\ attempts[j] <= MaxAttempts
                                  /\ stage[s] \in AfterStages[t]
      /\ status[j] = "failed"  => /\ attempts[j] = MaxAttempts
                                  /\ stage[s] = "failed"

JobInv == \A j \in Jobs : JobOK(j)

LiveOK(s) ==
  /\ stage[s] = "capturing" =>
       \A j \in Jobs : StreamOf[j] = s => status[j] = "absent"
  /\ stage[s] = "failed" =>
       \E j \in Jobs : StreamOf[j] = s /\ status[j] = "failed"

LiveInv == \A s \in Streams : LiveOK(s)

WorkerOK(w) ==
  /\ pc[w] \in {"picked", "running"} => KindOf[mem[w].held] = TypeOf[w]
  /\ pc[w] = "picked" =>
       /\ status[mem[w].held] = "queued"
       /\ mem[w].tries[mem[w].held] = attempts[mem[w].held]
       /\ mem[w].stage = stage[StreamOf[mem[w].held]]
  /\ pc[w] = "running" =>
       /\ status[mem[w].held] = "running"
       /\ mem[w].wiped = 0
  /\ pc[w] = "reclaiming" => \A j \in mem[w].dead :
       /\ KindOf[j] = TypeOf[w]
       /\ status[j] = "running"
       /\ mem[w].tries[j] = attempts[j]

WorkerInv == \A w \in Workers : WorkerOK(w)

IInv == /\ TypeOK
        /\ JobInv
        /\ LiveInv
        /\ WorkerInv
        /\ AtMostOneLiveJob
        /\ NothingStranded
        /\ OutputOncePerStep

\* The attempts spent on the step live s is in.
TriesAt(s) ==
  IF \E j \in Jobs : StreamOf[j] = s /\ status[j] \in Live
    THEN attempts[CHOOSE j \in Jobs : StreamOf[j] = s /\ status[j] \in Live]
    ELSE 0

RL == INSTANCE ReportLifecycle WITH tries <- [s \in Streams |-> TriesAt(s)]

\* The pipeline implements ReportLifecycle: crashes, lost beats, reclaims and
\* retries are invisible but for the attempts they cost.
LifecycleSafety == RL!SafeSpec

Lifecycle == RL!Spec

\* Every live whose capture is over ends ready or failed.
EveryLiveSettles ==
  \A s \in Streams :
    stage[s] = "queued_transcription" ~> stage[s] \in {"ready", "failed"}
===========================================================================
