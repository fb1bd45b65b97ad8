--------------------------- MODULE StreamRecords ---------------------------
(***************************************************************************)
(* The record table of a channel (core/records.py, table stream_records)   *)
(* for one metric: each of the fourteen is kept like it.                   *)
(*                                                                         *)
(* A live's row is written when the live is analysed, in the transaction   *)
(* of that analysis, which stays open while the language model is asked    *)
(* (module Analysis), and by scripts/backfill_records.py, which may run    *)
(* beside it.  A live may be analysed again, and what was captured of it   *)
(* can only have grown by then: nothing of a live is ever deleted.         *)
(***************************************************************************)
EXTENDS Integers, FiniteSets

CONSTANTS
  Lives,        \* a channel's lives: their numbers, in the order they started
  Old,          \* those analysed before the table was kept
  NoReport, NoSweep,   \* no transaction
  MaxMark,      \* bound: what the metric may come to
  MaxWrites     \* bound: analyses and backfills committed

ASSUME RecordsAssumption ==
  /\ Lives \subseteq Int /\ Old \subseteq Lives
  /\ MaxMark \in Nat /\ MaxWrites \in Nat

VARIABLES
  captured,   \* [Lives -> 0..MaxMark]  the metric by what is captured of a live
  ready,      \* SUBSET Lives           streams.status = READY
  mark,       \* [Lives -> 0..MaxMark]  the metric when the live's row was last written
  records,    \* SUBSET Rows            stream_records
  report,     \* the transaction of the analysis, or NoReport
  sweep,      \* that of the backfill, or NoSweep
  crossed,    \* BOOLEAN: a backfill has run beside an analysis
  writes      \* counted against MaxWrites

recordVars == <<captured, ready, mark, records, report, sweep, crossed, writes>>

Rows == [live : Lives, value : 0..MaxMark]

\* The rows of a live.
Of(l, rows) == {r \in rows : r.live = l}

\* update_stream_records: nothing is no record, and to equal one is none.
Beats(value, rows) == value > 0 /\ \A r \in rows : value > r.value

\* Seeded fault: the live's own row is still there when its mark is compared.
Update_ComparedFirst(l, value, rows) ==
  [removed |-> Of(l, rows),
   added   |-> IF Beats(value, rows) THEN {[live |-> l, value |-> value]} ELSE {}]

\* What it deletes and inserts, as it sees the table.
Update(l, value, rows) ==
  [removed |-> Of(l, rows),
   added   |-> IF Beats(value, rows \ Of(l, rows))
               THEN {[live |-> l, value |-> value]} ELSE {}]

\* A table with the changes of a transaction.
Applied(change, rows) == (rows \ change.removed) \cup change.added

\* _current_best: who holds the record.
Holders(rows) == {r \in rows : \A q \in rows : q.value <= r.value}

---------------------------------------------------------------------------
RecordsInit ==
  /\ captured = [l \in Lives |-> 0]
  /\ mark     = [l \in Lives |-> 0]
  /\ ready = Old /\ records = {}
  /\ report = NoReport /\ sweep = NoSweep
  /\ crossed = FALSE /\ writes = 0

\* Chat, events or samples of a live are stored.
Capture(l) ==
  /\ captured[l] < MaxMark
  /\ captured' = [captured EXCEPT ![l] = @ + 1]
  /\ UNCHANGED <<ready, mark, records, report, sweep, crossed, writes>>

\* run_analysis writes the live's row first.  There is one analysis worker; a
\* row that the backfill has deleted makes it wait.
StartAnalysis(l) ==
  /\ report = NoReport /\ writes < MaxWrites
  /\ sweep # NoSweep => Of(l, records) \cap sweep.removed = {}
  /\ LET change == Update(l, captured[l], records)
     IN  report' = [live |-> l, mark |-> captured[l],
                    removed |-> change.removed, added |-> change.added]
  /\ ready' = ready \ {l}
  /\ crossed' = (crossed \/ sweep # NoSweep)
  /\ UNCHANGED <<captured, mark, records, sweep, writes>>

\* ... and commits it with the rest of the report.
CommitAnalysis ==
  /\ report # NoReport
  /\ records' = Applied(report, records)
  /\ mark'   = [mark EXCEPT ![report.live] = report.mark]
  /\ ready'  = ready \cup {report.live}
  /\ report' = NoReport
  /\ writes' = writes + 1
  /\ UNCHANGED <<captured, sweep, crossed>>

\* The analysis fails and is rolled back.
AbortAnalysis ==
  /\ report # NoReport
  /\ report' = NoReport
  /\ UNCHANGED <<captured, ready, mark, records, sweep, crossed, writes>>

\* scripts/backfill_records.py: the ready lives of the channel, oldest first, in
\* one transaction.
StartBackfill ==
  /\ sweep = NoSweep /\ writes < MaxWrites
  /\ sweep' = [todo |-> ready, marks |-> mark, removed |-> {}, added |-> {}]
  /\ crossed' = (crossed \/ report # NoReport)
  /\ UNCHANGED <<captured, ready, mark, records, report, writes>>

BackfillLive(l) ==
  /\ sweep # NoSweep
  /\ l \in sweep.todo /\ \A k \in sweep.todo : l <= k
  /\ report # NoReport => Of(l, records) \cap report.removed = {}
  /\ LET change == Update(l, captured[l], Applied(sweep, records))
     IN  sweep' = [todo |-> sweep.todo \ {l},
                   marks |-> [sweep.marks EXCEPT ![l] = captured[l]],
                   removed |-> sweep.removed \cup change.removed,
                   added |-> (sweep.added \ change.removed) \cup change.added]
  /\ UNCHANGED <<captured, ready, mark, records, report, crossed, writes>>

CommitBackfill ==
  /\ sweep # NoSweep /\ sweep.todo = {}
  /\ records' = Applied(sweep, records)
  /\ mark'   = sweep.marks
  /\ sweep'  = NoSweep
  /\ writes' = writes + 1
  /\ UNCHANGED <<captured, ready, report, crossed>>

RecordsNext ==
  \/ \E l \in Lives : Capture(l) \/ StartAnalysis(l) \/ BackfillLive(l)
  \/ CommitAnalysis \/ AbortAnalysis \/ StartBackfill \/ CommitBackfill

RecordsSpec == RecordsInit /\ [][RecordsNext]_recordVars

---------------------------------------------------------------------------
\* Each mark is equalled by some row, and no row is above its live's mark.
Good(marks, rows) ==
  /\ \A l \in Lives : marks[l] > 0 => \E r \in rows : r.value >= marks[l]
  /\ \A r \in rows : r.value <= marks[r.live]

\* In whatever order lives are analysed, again and again, and however often the
\* history is rebuilt, the best mark on the table is the best of the lives: the
\* rows a live loses to its own update are made up for (unless a backfill runs
\* beside an analysis: each may then rely on a row the other deletes).
BestMarkKept == ~crossed => Good(mark, records)

---------------------------------------------------------------------------
\* The inductive invariant behind BestMarkKept: what an open transaction will
\* leave behind is as good as what is there.

MarksOK ==
  /\ captured \in [Lives -> Nat] /\ mark \in [Lives -> Nat]
  /\ records \subseteq [live : Lives, value : Nat]
  /\ \A l \in Lives : mark[l] <= captured[l]

ReportOK == report # NoReport =>
  /\ sweep = NoSweep
  /\ report.live \in Lives /\ report.mark \in Nat
  /\ mark[report.live] <= report.mark /\ report.mark <= captured[report.live]
  /\ Applied(report, records)
       = Applied(Update(report.live, report.mark, records), records)

SweepOK == sweep # NoSweep =>
  /\ sweep.marks \in [Lives -> Nat]
  /\ Applied(sweep, records) \subseteq [live : Lives, value : Nat]
  /\ \A l \in Lives : sweep.marks[l] <= captured[l]
  /\ Good(sweep.marks, Applied(sweep, records))

RecordsInv == ~crossed => MarksOK /\ Good(mark, records) /\ ReportOK /\ SweepOK
===========================================================================
