--------------------------- MODULE ReportProofs ---------------------------
(***************************************************************************)
(* What is known of a channel: proofs about the analysis of its lives      *)
(* (Analysis), its records (StreamRecords) and the list of its followers   *)
(* (FollowerSync).                                                         *)
(***************************************************************************)
EXTENDS Analysis, StreamRecords, FollowerSync, TLAPS

---------------------------------------------------------------------------
(* What an analysis may spend, for any budget, any caps, any number of     *)
(* peaks and blocks, prompts of any length outside their caps, and         *)
(* whatever the model answers.                                             *)
(*                                                                         *)
(* A budget is spent exactly until it is empty, and nothing is asked of an *)
(* empty one: so only the last call can go beyond it (WithinBudget).  The  *)
(* final steps take from a reserve the blocks have left (ReserveKept).     *)

AnalysisTypes ==
  /\ extra \in Nat /\ drift \in Nat /\ summaries \in Nat
  /\ inputLeft \in Nat /\ outputLeft \in Nat
  /\ inputSpent \in Nat /\ outputSpent \in Nat

\* What is left and what is spent of one of the two budgets.
Within(max, remaining, spent, beyond) ==
  IF remaining > 0 THEN spent = max - remaining ELSE spent <= max + beyond

WithinBudget ==
  /\ Within(MaxInput, inputLeft, inputSpent, extra)
  /\ Within(MaxOutput, outputLeft, outputSpent, drift)

\* Blocks come after peaks.
InOrder == step = "peaks" => summaries = 0

AnalysisInv == AnalysisTypes /\ WithinBudget /\ ReserveKept /\ InOrder

---------------------------------------------------------------------------
\* A call whose prompt is no longer than what is left, but for its text outside
\* the cap, keeps the account of a budget that was not empty.
LEMMA SpendWithin ==
  ASSUME NEW max \in Nat, NEW remaining \in Nat, NEW spent \in Nat,
         NEW beyond \in Nat, NEW cost \in Nat,
         remaining > 0, cost <= remaining + beyond,
         Within(max, remaining, spent, beyond)
  PROVE  Within(max, AtLeastZero(remaining - cost), spent + cost, beyond)
BY DEF Within, AtLeastZero

\* Spending for a call that can be afforded keeps both accounts, and leaves of
\* each budget what it cost at the most.
LEMMA SpendKeeps ==
  ASSUME AnalysisTypes, WithinBudget, UNCHANGED <<extra, drift>>,
         NEW input \in Nat \ {0}, NEW output \in Nat \ {0}, CanAfford(input, output),
         NEW prompt \in 1..(input + extra), NEW response \in 1..(output + drift),
         Spend(prompt, response)
  PROVE  /\ inputLeft' \in Nat /\ outputLeft' \in Nat
         /\ inputSpent' \in Nat /\ outputSpent' \in Nat
         /\ WithinBudget'
         /\ inputLeft' >= inputLeft - input - extra
         /\ outputLeft' >= outputLeft - output - drift
<1> USE DEF AnalysisTypes, CanAfford, Spend
<1>1. prompt \in Nat /\ response \in Nat
  OBVIOUS
<1>2. inputLeft > 0 /\ prompt <= inputLeft + extra
  OBVIOUS
<1>3. outputLeft > 0 /\ response <= outputLeft + drift
  OBVIOUS
<1>4. Within(MaxInput, inputLeft', inputSpent', extra')
  BY <1>1, <1>2, SpendWithin, BudgetAssumption DEF WithinBudget
<1>5. Within(MaxOutput, outputLeft', outputSpent', drift')
  BY <1>1, <1>3, SpendWithin, BudgetAssumption DEF WithinBudget
<1>6. inputLeft' \in Nat /\ outputLeft' \in Nat
  BY <1>1 DEF AtLeastZero
<1>7. inputSpent' \in Nat /\ outputSpent' \in Nat
  BY <1>1
<1>8. inputLeft' >= inputLeft - input - extra /\ outputLeft' >= outputLeft - output - drift
  BY <1>1 DEF AtLeastZero
<1> QED BY <1>4, <1>5, <1>6, <1>7, <1>8 DEF WithinBudget

\* The same of a call under a cap: what is affordable is not cut.
LEMMA GenerateKeeps ==
  ASSUME AnalysisTypes, WithinBudget, UNCHANGED <<extra, drift>>,
         NEW input \in Nat \ {0}, NEW output \in Nat \ {0}, CanAfford(input, output),
         Generate(input, output)
  PROVE  /\ inputLeft' \in Nat /\ outputLeft' \in Nat
         /\ inputSpent' \in Nat /\ outputSpent' \in Nat
         /\ WithinBudget'
         /\ inputLeft' >= inputLeft - input - extra
         /\ outputLeft' >= outputLeft - output - drift
<1>1. Fitted(input) = input
  BY DEF Fitted, CanAfford, AnalysisTypes
<1>2. PICK prompt \in 1..(input + extra), response \in 1..(output + drift) :
        Spend(prompt, response)
  BY <1>1 DEF Generate
<1> QED BY <1>2, SpendKeeps

---------------------------------------------------------------------------
LEMMA AnalysisStarts == ASSUME AnalysisInit PROVE AnalysisInv
BY BudgetAssumption DEF AnalysisInit, AnalysisInv, AnalysisTypes, WithinBudget, Within,
   ReserveKept, InOrder

LEMMA BeginKeeps == ASSUME AnalysisInv, BeginAnalysis PROVE AnalysisInv'
<1> USE DEF AnalysisInv, BeginAnalysis, NewBudget
<1>1. AnalysisTypes'
  BY BudgetAssumption DEF AnalysisTypes
<1>2. WithinBudget'
  BY BudgetAssumption DEF WithinBudget, Within
<1>3. (ReserveKept /\ InOrder)'
  BY DEF ReserveKept, InOrder
<1> QED BY <1>1, <1>2, <1>3

\* Peaks are explained before any block is summarised: they reserve nothing.
LEMMA PeakKeeps == ASSUME AnalysisInv, ExplainPeak PROVE AnalysisInv'
<1> USE DEF AnalysisInv, ExplainPeak
<1>1. AnalysisTypes' /\ WithinBudget'
  <2>1. CASE CanAfford(PeakInput, PeakOutput)
    BY <2>1, GenerateKeeps, BudgetAssumption DEF AnalysisTypes
  <2>2. CASE ~CanAfford(PeakInput, PeakOutput)
    BY <2>2 DEF AnalysisTypes, WithinBudget, tokens
  <2> QED BY <2>1, <2>2
<1>2. summaries' = 0 /\ step' = "peaks"
  BY DEF InOrder
<1>3. (ReserveKept /\ InOrder)'
  BY <1>2 DEF ReserveKept, InOrder
<1> QED BY <1>1, <1>3

\* A block leaves the whole reserve, but for what escaped its own cap.
LEMMA BlockKeeps == ASSUME AnalysisInv, SummarizeBlock PROVE AnalysisInv'
<1> USE DEF AnalysisInv, SummarizeBlock
<1>1. InOrder'
  BY DEF InOrder
<1>2. CASE BlockAllowed
  <2>1. CanAfford(BlockInput, BlockOutput)
    BY <1>2, BudgetAssumption DEF BlockAllowed, CanAfford, AnalysisTypes
  <2>2. /\ inputLeft' \in Nat /\ outputLeft' \in Nat
        /\ inputSpent' \in Nat /\ outputSpent' \in Nat
        /\ WithinBudget'
        /\ inputLeft' >= inputLeft - BlockInput - extra
        /\ outputLeft' >= outputLeft - BlockOutput - drift
    BY <1>2, <2>1, GenerateKeeps, BudgetAssumption
  <2>3. AnalysisTypes'
    BY <1>2, <2>2 DEF AnalysisTypes
  <2>4. Holds(0)'
    BY <1>2, <2>2, BudgetAssumption DEF Holds, BlockAllowed, CanAfford, AnalysisTypes
  <2>5. ReserveKept'
    BY <2>4 DEF ReserveKept
  <2> QED BY <1>1, <2>2, <2>3, <2>5
<1>3. CASE ~BlockAllowed
  <2>1. AnalysisTypes' /\ WithinBudget'
    BY <1>3 DEF AnalysisTypes, WithinBudget, tokens
  <2>2. ReserveKept'
    BY <1>3 DEF ReserveKept, Holds, tokens
  <2> QED BY <1>1, <2>1, <2>2
<1> QED BY <1>2, <1>3

\* With a summarised block the final steps start with what the blocks left them.
LEMMA PhasesKeep == ASSUME AnalysisInv, CutBlocks \/ EndBlocks PROVE AnalysisInv'
<1> USE DEF AnalysisInv
<1>1. CASE CutBlocks
  BY <1>1 DEF CutBlocks, tokens, AnalysisTypes, WithinBudget, ReserveKept, InOrder
<1>2. CASE EndBlocks
  BY <1>2 DEF EndBlocks, tokens, AnalysisTypes, WithinBudget, ReserveKept, Holds, InOrder
<1> QED BY <1>1, <1>2

\* A step that takes at most the cap of topics, or nothing, leaves what the next
\* ones need.
LEMMA FinalStepTakes ==
  ASSUME AnalysisTypes, WithinBudget, UNCHANGED <<extra, drift, summaries>>,
         NEW taken \in {0, 1}, Holds(taken),
         \/ /\ CanAfford(TopicsInput, FinalOutput)
            /\ Generate(TopicsInput, FinalOutput)
         \/ UNCHANGED tokens
  PROVE  Holds(taken + 1)'
<1>1. TopicsInput \in Nat \ {0} /\ FinalOutput \in Nat \ {0}
  BY BudgetAssumption
<1>2. CASE UNCHANGED tokens
  BY <1>1, <1>2 DEF tokens, Holds, AnalysisTypes
<1>3. CASE CanAfford(TopicsInput, FinalOutput) /\ Generate(TopicsInput, FinalOutput)
  <2>1. /\ inputLeft' \in Nat /\ outputLeft' \in Nat
        /\ inputLeft' >= inputLeft - TopicsInput - extra
        /\ outputLeft' >= outputLeft - FinalOutput - drift
    BY <1>1, <1>3, GenerateKeeps
  <2> QED BY <1>1, <2>1 DEF Holds, AnalysisTypes
<1> QED BY <1>2, <1>3

\* A final step keeps the accounts, whether it asks or not.
LEMMA FinalStepSpends ==
  ASSUME AnalysisTypes, WithinBudget, UNCHANGED <<extra, drift, summaries>>,
         \/ /\ CanAfford(TopicsInput, FinalOutput)
            /\ Generate(TopicsInput, FinalOutput)
         \/ UNCHANGED tokens
  PROVE  AnalysisTypes' /\ WithinBudget'
<1>1. TopicsInput \in Nat \ {0} /\ FinalOutput \in Nat \ {0}
  BY BudgetAssumption
<1>2. CASE UNCHANGED tokens
  BY <1>2 DEF tokens, AnalysisTypes, WithinBudget
<1>3. CASE CanAfford(TopicsInput, FinalOutput) /\ Generate(TopicsInput, FinalOutput)
  BY <1>1, <1>3, GenerateKeeps DEF AnalysisTypes
<1> QED BY <1>2, <1>3

\* Each final step leaves the ones after it their part.
LEMMA FinalStepsKeep ==
  ASSUME AnalysisInv, FinalSummary \/ RankTopics \/ Recommend PROVE AnalysisInv'
<1> USE DEF AnalysisInv
<1>1. /\ UNCHANGED <<extra, drift, summaries>>
      /\ \/ /\ CanAfford(TopicsInput, FinalOutput)
            /\ Generate(TopicsInput, FinalOutput)
         \/ UNCHANGED tokens
  BY DEF FinalSummary, RankTopics, Recommend, tokens
<1>2. AnalysisTypes' /\ WithinBudget'
  BY <1>1, FinalStepSpends
<1>3. ASSUME NEW taken \in {0, 1}, Holds(taken) PROVE Holds(taken + 1)'
  BY <1>1, <1>3, FinalStepTakes
<1>4. ReserveKept'
  <2>1. CASE FinalSummary
    <3>1. summaries > 0 => Holds(0)
      BY <2>1 DEF FinalSummary, ReserveKept
    <3>2. summaries' > 0 => Holds(1)'
      BY <1>1, <1>3, <3>1
    <3> QED BY <2>1, <3>2 DEF FinalSummary, ReserveKept
  <2>2. CASE RankTopics
    <3>1. summaries > 0 => Holds(1)
      BY <2>2 DEF RankTopics, ReserveKept
    <3>2. summaries' > 0 => Holds(2)'
      BY <1>1, <1>3, <3>1
    <3> QED BY <2>2, <3>2 DEF RankTopics, ReserveKept
  <2>3. CASE Recommend
    BY <2>3 DEF Recommend, ReserveKept
  <2> QED BY <2>1, <2>2, <2>3
<1>5. InOrder'
  BY DEF FinalSummary, RankTopics, Recommend, InOrder
<1> QED BY <1>2, <1>4, <1>5

---------------------------------------------------------------------------
\* Advice is asked for with all its facts, and only when they fit.
LEMMA AdviceSpends ==
  ASSUME AnalysisTypes, WithinBudget, UNCHANGED <<extra, drift, summaries>>,
         NEW prompt \in Nat \ {0}, CanAfford(prompt, AdviceOutput),
         NEW more \in {0, extra}, NEW response \in 1..(AdviceOutput + drift),
         Spend(prompt + more, response)
  PROVE  AnalysisTypes' /\ WithinBudget'
<1>1. AdviceOutput \in Nat \ {0}
  BY BudgetAssumption
<1>2. prompt + more \in 1..(prompt + extra)
  BY DEF AnalysisTypes
<1> HIDE DEF AnalysisTypes
<1>3. /\ inputLeft' \in Nat /\ outputLeft' \in Nat
      /\ inputSpent' \in Nat /\ outputSpent' \in Nat
      /\ WithinBudget'
  BY <1>1, <1>2, SpendKeeps
<1> QED BY <1>3 DEF AnalysisTypes

LEMMA AdviseKeeps ==
  ASSUME AnalysisTypes, WithinBudget, UNCHANGED <<extra, drift, summaries>>,
         NEW set \in {"channel", "followers"}, NEW facts \in 0..MaxFacts,
         Advise(set, facts)
  PROVE  AnalysisTypes' /\ WithinBudget'
<1>1. CASE UNCHANGED tokens
  BY <1>1 DEF tokens, AnalysisTypes, WithinBudget
<1>2. CASE ~UNCHANGED tokens
  <2>1. facts \in Nat \ {0} /\ CanAfford(facts, AdviceOutput)
    BY <1>2, BudgetAssumption DEF Advise
  <2>2. PICK response \in 1..(AdviceOutput + drift) : Spend(facts + extra, response)
    BY <1>2 DEF Advise
  <2> QED BY <2>1, <2>2, AdviceSpends
<1> QED BY <1>1, <1>2

\* After the recommendations nothing is reserved any more.
LEMMA AdviceKeeps ==
  ASSUME AnalysisInv, RecommendChannel \/ RecommendFollowers
  PROVE  AnalysisInv'
<1>1. AnalysisTypes /\ WithinBudget
  BY DEF AnalysisInv
<1>2. UNCHANGED <<extra, drift, summaries>> /\ step' \in {"followers", "personas"}
  BY DEF RecommendChannel, RecommendFollowers
<1>3. PICK set \in {"channel", "followers"}, facts \in 0..MaxFacts : Advise(set, facts)
  BY DEF RecommendChannel, RecommendFollowers
<1>4. AnalysisTypes' /\ WithinBudget'
  BY <1>1, <1>2, <1>3, AdviseKeeps
<1>5. (ReserveKept /\ InOrder)'
  BY <1>2 DEF ReserveKept, InOrder
<1> QED BY <1>4, <1>5 DEF AnalysisInv

LEMMA PersonasKeep == ASSUME AnalysisInv, AdvisePersonas PROVE AnalysisInv'
<1>1. AnalysisTypes /\ WithinBudget
  BY DEF AnalysisInv
<1>2. UNCHANGED <<extra, drift, summaries>> /\ step' = "done"
  BY DEF AdvisePersonas
<1>3. (ReserveKept /\ InOrder)'
  BY <1>2 DEF ReserveKept, InOrder
<1>4. AnalysisTypes' /\ WithinBudget'
  <2>1. CASE UNCHANGED tokens
    BY <1>1, <1>2, <2>1 DEF tokens, AnalysisTypes, WithinBudget
  <2>2. CASE ~UNCHANGED tokens
    <3>1. PICK prompt \in 1..(MaxFacts + 1), response \in 1..(AdviceOutput + drift) :
            CanAfford(prompt, AdviceOutput) /\ Spend(prompt, response)
      BY <2>2 DEF AdvisePersonas
    <3>2. prompt \in Nat \ {0} /\ prompt + 0 = prompt
      BY BudgetAssumption
    <3> QED BY <1>1, <1>2, <3>1, <3>2, AdviceSpends
  <2> QED BY <2>1, <2>2
<1> QED BY <1>3, <1>4 DEF AnalysisInv

\* The transaction ends one way or the other: nothing more is spent.
LEMMA EndKeeps ==
  ASSUME AnalysisInv, FinishAnalysis \/ FailAnalysis PROVE AnalysisInv'
<1>1. LeaveRun
  BY DEF FinishAnalysis, FailAnalysis
<1> USE <1>1 DEF LeaveRun, NewBudget
<1>2. AnalysisTypes'
  BY BudgetAssumption DEF AnalysisTypes
<1>3. WithinBudget'
  BY BudgetAssumption DEF WithinBudget, Within
<1>4. ReserveKept' /\ InOrder'
  BY DEF ReserveKept, InOrder
<1> QED BY <1>2, <1>3, <1>4 DEF AnalysisInv

LEMMA StutterKeeps == ASSUME AnalysisInv, UNCHANGED analysisVars PROVE AnalysisInv'
BY DEF analysisVars, AnalysisInv, AnalysisTypes, WithinBudget, ReserveKept, Holds, InOrder

LEMMA AnalysisStep ==
  ASSUME AnalysisInv, [AnalysisNext]_analysisVars PROVE AnalysisInv'
BY BeginKeeps, PeakKeeps, BlockKeeps, PhasesKeep, FinalStepsKeep, AdviceKeeps,
   PersonasKeep, EndKeeps, StutterKeeps DEF AnalysisNext

LEMMA AnalysisInvariant == AnalysisSpec => []AnalysisInv
BY AnalysisStarts, AnalysisStep, PTL DEF AnalysisSpec

---------------------------------------------------------------------------
\* Neither budget is overspent by more than one call can escape its limits
\* (TokenBudget), for any caps and any number of calls.
THEOREM AnalysisWithinBudget == AnalysisSpec => []SpentWithinBudget
<1>1. ASSUME AnalysisInv PROVE SpentWithinBudget
  <2>1. MaxInput \in Nat /\ MaxOutput \in Nat
    BY BudgetAssumption
  <2>2. AnalysisTypes /\ WithinBudget
    BY <1>1 DEF AnalysisInv
  <2>3. inputSpent <= MaxInput + extra
    BY <2>1, <2>2 DEF AnalysisTypes, WithinBudget, Within
  <2>4. outputSpent <= MaxOutput + drift
    BY <2>1, <2>2 DEF AnalysisTypes, WithinBudget, Within
  <2> QED BY <2>3, <2>4 DEF SpentWithinBudget
<1> QED BY <1>1, AnalysisInvariant, PTL

\* The blocks of a live of any length leave the summary, the topics and the
\* recommendations their reserve, but for what one call after another sends beside
\* its cap (_summarize_blocks and the three steps after it).
THEOREM AnalysisKeepsReserve == AnalysisSpec => []ReserveKept
<1>1. AnalysisInv => ReserveKept BY DEF AnalysisInv
<1> QED BY <1>1, AnalysisInvariant, PTL

---------------------------------------------------------------------------
(* The best mark stays on the table of records, for any lives, any marks   *)
(* and any order of analyses and backfills that do not cross.  An update   *)
(* may take away a row that was the best; it is safe because the live it   *)
(* is taken from cannot have got worse (UpdateKeepsGood).                  *)

\* Rows as the proofs need them: a mark of any size.
AnyRows == [live : Lives, value : Nat]

\* The update of a live with a mark no lower than its last keeps the table good
\* for the marks with the new one among them.
LEMMA UpdateKeepsGood ==
  ASSUME NEW marks \in [Lives -> Nat], NEW stored \in SUBSET AnyRows,
         NEW l \in Lives, NEW v \in Nat, v >= marks[l], Good(marks, stored)
  PROVE  /\ Applied(Update(l, v, stored), stored) \subseteq AnyRows
         /\ Good([marks EXCEPT ![l] = v], Applied(Update(l, v, stored), stored))
<1> DEFINE others == stored \ Of(l, stored)
           own    == IF Beats(v, others) THEN {[live |-> l, value |-> v]} ELSE {}
           after  == others \cup own
           new    == [marks EXCEPT ![l] = v]
<1>1. Applied(Update(l, v, stored), stored) = after
  BY DEF Applied, Update
<1>2. own \subseteq AnyRows /\ others \subseteq AnyRows
  BY DEF AnyRows
<1>3. \A r \in others : r \in stored /\ r.live # l
  BY DEF Of
<1>4. \A r \in own : r.live = l /\ r.value = v
  OBVIOUS
<1>5. ASSUME NEW r \in after PROVE r.value <= new[r.live]
  <2>1. CASE r \in others
    BY <1>2, <1>3, <2>1 DEF Good, AnyRows
  <2>2. CASE r \in own
    BY <1>4, <2>2
  <2> QED BY <2>1, <2>2
<1>6. v > 0 => \E r \in after : r.value >= v
  <2>1. CASE Beats(v, others)
    <3>1. [live |-> l, value |-> v] \in after
      BY <2>1
    <3> QED BY <3>1
  <2>2. CASE ~Beats(v, others)
    BY <1>2, <2>2 DEF Beats, AnyRows
  <2> QED BY <2>1, <2>2
<1>7. ASSUME NEW k \in Lives, new[k] > 0
      PROVE  \E r \in after : r.value >= new[k]
  <2>1. CASE k = l
    BY <1>6, <1>7, <2>1
  <2>2. CASE k # l
    <3>1. new[k] = marks[k] /\ marks[k] \in Nat /\ marks[k] > 0
      BY <1>7, <2>2
    <3>2. PICK r \in stored : r.value >= marks[k]
      BY <3>1 DEF Good
    <3>3. r.value \in Nat /\ r.live \in Lives
      BY DEF AnyRows
    <3>4. CASE r.live # l
      <4>1. r \in after
        BY <3>4 DEF Of
      <4> QED BY <3>1, <3>2, <4>1
    <3>5. CASE r.live = l
      <4>1. r.value <= marks[l]
        BY <3>5 DEF Good
      <4>2. v >= marks[k] /\ v > 0
        BY <3>1, <3>2, <3>3, <4>1
      <4>3. PICK q \in after : q.value >= v
        BY <1>6, <4>2
      <4>4. q.value \in Nat
        BY <1>2 DEF AnyRows
      <4> QED BY <3>1, <4>2, <4>3, <4>4
    <3> QED BY <3>4, <3>5
  <2> QED BY <2>1, <2>2
<1>8. Good(new, after)
  BY <1>5, <1>7 DEF Good
<1>9. after \subseteq AnyRows
  BY <1>2
<1> QED BY <1>1, <1>8, <1>9

\* The changes of one live join those of the sweep as if they came after them.
LEMMA ChangesCompose ==
  ASSUME NEW stored, NEW first, NEW then, NEW both,
         both.removed = first.removed \cup then.removed,
         both.added = (first.added \ then.removed) \cup then.added
  PROVE  Applied(both, stored) = Applied(then, Applied(first, stored))
BY DEF Applied

\* One element of a function of numbers changed: the others stay.
LEMMA Changed ==
  ASSUME NEW f \in [Lives -> Nat], NEW l \in Lives, NEW v \in Nat
  PROVE  /\ [f EXCEPT ![l] = v] \in [Lives -> Nat]
         /\ [f EXCEPT ![l] = v][l] = v
         /\ \A k \in Lives : k # l => [f EXCEPT ![l] = v][k] = f[k]
OBVIOUS

---------------------------------------------------------------------------
LEMMA RecordsStart == ASSUME RecordsInit PROVE RecordsInv
BY DEF RecordsInit, RecordsInv, MarksOK, Good, ReportOK, SweepOK

LEMMA CaptureKeeps ==
  ASSUME RecordsInv, NEW l \in Lives, Capture(l) PROVE RecordsInv'
<1> SUFFICES ASSUME ~crossed' PROVE (MarksOK /\ Good(mark, records) /\ ReportOK /\ SweepOK)'
  BY DEF RecordsInv
<1> USE DEF Capture
<1>1. MarksOK /\ Good(mark, records) /\ ReportOK /\ SweepOK
  BY DEF RecordsInv
<1>2. /\ captured' \in [Lives -> Nat]
      /\ \A k \in Lives : captured[k] <= captured'[k]
  <2>1. captured[l] \in Nat /\ captured[l] + 1 \in Nat
    BY <1>1 DEF MarksOK
  <2>2. captured' = [captured EXCEPT ![l] = captured[l] + 1]
    OBVIOUS
  <2>3. /\ captured' \in [Lives -> Nat] /\ captured'[l] = captured[l] + 1
        /\ \A k \in Lives : k # l => captured'[k] = captured[k]
    BY <1>1, <2>1, <2>2, Changed DEF MarksOK
  <2> QED BY <1>1, <2>1, <2>3 DEF MarksOK
<1>3. MarksOK'
  <2>1. UNCHANGED <<mark, records>>
    OBVIOUS
  <2>2. \A k \in Lives : mark[k] <= captured'[k]
    BY <1>1, <1>2 DEF MarksOK
  <2> QED BY <1>1, <1>2, <2>1, <2>2 DEF MarksOK
<1>4. Good(mark, records)'
  BY <1>1 DEF Good
<1>5. ReportOK'
  <2> SUFFICES ASSUME report' # NoReport PROVE ReportOK'
    BY DEF ReportOK
  <2>1. /\ sweep = NoSweep /\ report.live \in Lives /\ report.mark \in Nat
        /\ mark[report.live] <= report.mark
        /\ report.mark <= captured[report.live]
        /\ Applied(report, records)
             = Applied(Update(report.live, report.mark, records), records)
    BY <1>1 DEF ReportOK
  <2>2. report.mark <= captured'[report.live]
    BY <1>1, <1>2, <2>1 DEF MarksOK
  <2>3. UNCHANGED <<sweep, report, mark, records>>
    OBVIOUS
  <2> QED BY <2>1, <2>2, <2>3 DEF ReportOK
<1>6. SweepOK'
  <2> SUFFICES ASSUME sweep' # NoSweep PROVE SweepOK'
    BY DEF SweepOK
  <2>1. /\ sweep.marks \in [Lives -> Nat]
        /\ Applied(sweep, records) \subseteq AnyRows
        /\ \A k \in Lives : sweep.marks[k] <= captured[k]
        /\ Good(sweep.marks, Applied(sweep, records))
    BY <1>1 DEF SweepOK, AnyRows
  <2>2. \A k \in Lives : sweep.marks[k] <= captured'[k]
    BY <1>1, <1>2, <2>1 DEF MarksOK
  <2>3. UNCHANGED <<sweep, records>>
    OBVIOUS
  <2> QED BY <2>1, <2>2, <2>3 DEF SweepOK, AnyRows
<1> QED BY <1>3, <1>4, <1>5, <1>6

\* The analysis writes the live's row as it will be, beside no backfill.
LEMMA AnalysisOpens ==
  ASSUME RecordsInv, NEW l \in Lives, StartAnalysis(l) PROVE RecordsInv'
<1> SUFFICES ASSUME ~crossed' PROVE (MarksOK /\ Good(mark, records) /\ ReportOK /\ SweepOK)'
  BY DEF RecordsInv
<1>1. /\ sweep = NoSweep /\ UNCHANGED <<captured, mark, records, sweep>>
      /\ ~crossed
      /\ report' = [live |-> l, mark |-> captured[l],
                    removed |-> Update(l, captured[l], records).removed,
                    added |-> Update(l, captured[l], records).added]
  BY DEF StartAnalysis
<1>2. MarksOK /\ Good(mark, records)
  BY <1>1 DEF RecordsInv
<1>3. (MarksOK /\ Good(mark, records) /\ SweepOK)'
  BY <1>1, <1>2 DEF MarksOK, Good, SweepOK
<1>4. /\ report'.live = l /\ report'.mark = captured[l]
      /\ report'.removed = Update(l, captured[l], records).removed
      /\ report'.added = Update(l, captured[l], records).added
  BY <1>1
<1>5. ReportOK'
  <2>1. Applied(report', records) = Applied(Update(l, captured[l], records), records)
    BY <1>4 DEF Applied
  <2>2. captured[l] \in Nat /\ mark[l] <= captured[l] /\ captured[l] <= captured[l]
    BY <1>2 DEF MarksOK
  <2> QED BY <1>1, <1>4, <2>1, <2>2 DEF ReportOK
<1> QED BY <1>3, <1>5

LEMMA AnalysisCommits == ASSUME RecordsInv, CommitAnalysis PROVE RecordsInv'
<1> SUFFICES ASSUME ~crossed' PROVE (MarksOK /\ Good(mark, records) /\ ReportOK /\ SweepOK)'
  BY DEF RecordsInv
<1>1. /\ report # NoReport /\ report' = NoReport /\ ~crossed
      /\ records' = Applied(report, records)
      /\ mark' = [mark EXCEPT ![report.live] = report.mark]
      /\ UNCHANGED <<captured, sweep>>
  BY DEF CommitAnalysis
<1>2. MarksOK /\ Good(mark, records) /\ ReportOK
  BY <1>1 DEF RecordsInv
<1>3. PICK l \in Lives, v \in Nat : l = report.live /\ v = report.mark
  BY <1>1, <1>2 DEF ReportOK
<1>4. /\ sweep = NoSweep /\ mark[l] <= v /\ v <= captured[l]
      /\ records' = Applied(Update(l, v, records), records)
      /\ mark' = [mark EXCEPT ![l] = v]
  BY <1>1, <1>2, <1>3 DEF ReportOK
<1>5. mark \in [Lives -> Nat] /\ records \subseteq AnyRows
  BY <1>2 DEF MarksOK, AnyRows
<1>6. /\ records' \subseteq AnyRows
      /\ Good(mark', records')
  <2>1. v >= mark[l]
    BY <1>4, <1>5
  <2> QED BY <1>2, <1>4, <1>5, <2>1, UpdateKeepsGood
<1>7. MarksOK'
  <2>1. mark' \in [Lives -> Nat] /\ \A k \in Lives : mark'[k] <= captured[k]
    BY <1>2, <1>4, <1>5 DEF MarksOK
  <2> QED BY <1>1, <1>2, <1>6, <2>1 DEF MarksOK, AnyRows
<1>8. ReportOK' /\ SweepOK'
  BY <1>1, <1>4 DEF ReportOK, SweepOK
<1> QED BY <1>6, <1>7, <1>8 DEF Good

\* A rollback leaves everything as it was.
LEMMA AnalysisAborts == ASSUME RecordsInv, AbortAnalysis PROVE RecordsInv'
BY DEF AbortAnalysis, RecordsInv, MarksOK, Good, ReportOK, SweepOK

\* A backfill that has done nothing yet leaves behind what is there.
LEMMA BackfillOpens == ASSUME RecordsInv, StartBackfill PROVE RecordsInv'
<1> SUFFICES ASSUME ~crossed' PROVE (MarksOK /\ Good(mark, records) /\ ReportOK /\ SweepOK)'
  BY DEF RecordsInv
<1>1. /\ report = NoReport /\ UNCHANGED <<captured, mark, records, report>>
      /\ ~crossed
      /\ sweep' = [todo |-> ready, marks |-> mark, removed |-> {}, added |-> {}]
  BY DEF StartBackfill
<1>2. MarksOK /\ Good(mark, records)
  BY <1>1 DEF RecordsInv
<1>3. (MarksOK /\ Good(mark, records) /\ ReportOK)'
  BY <1>1, <1>2 DEF MarksOK, Good, ReportOK
<1>4. sweep'.marks = mark /\ sweep'.removed = {} /\ sweep'.added = {}
  BY <1>1
<1>5. Applied(sweep', records') = records
  BY <1>1, <1>4 DEF Applied
<1>6. SweepOK'
  BY <1>1, <1>2, <1>4, <1>5 DEF SweepOK, MarksOK
<1> QED BY <1>3, <1>6

LEMMA BackfillGoesOn ==
  ASSUME RecordsInv, NEW l \in Lives, BackfillLive(l) PROVE RecordsInv'
<1> SUFFICES ASSUME ~crossed' PROVE (MarksOK /\ Good(mark, records) /\ ReportOK /\ SweepOK)'
  BY DEF RecordsInv
<1> DEFINE merged == Applied(sweep, records)
           change == Update(l, captured[l], merged)
<1>1. /\ sweep # NoSweep /\ UNCHANGED <<captured, mark, records, report>>
      /\ ~crossed
      /\ sweep' = [todo |-> sweep.todo \ {l},
                   marks |-> [sweep.marks EXCEPT ![l] = captured[l]],
                   removed |-> sweep.removed \cup change.removed,
                   added |-> (sweep.added \ change.removed) \cup change.added]
  BY DEF BackfillLive
<1>2. MarksOK /\ Good(mark, records) /\ ReportOK /\ SweepOK
  BY <1>1 DEF RecordsInv
<1>3. report = NoReport
  BY <1>1, <1>2 DEF ReportOK
<1>4. (MarksOK /\ Good(mark, records) /\ ReportOK)'
  BY <1>1, <1>2, <1>3 DEF MarksOK, Good, ReportOK
<1>5. /\ sweep'.marks = [sweep.marks EXCEPT ![l] = captured[l]]
      /\ sweep'.removed = sweep.removed \cup change.removed
      /\ sweep'.added = (sweep.added \ change.removed) \cup change.added
  BY <1>1
<1>6. Applied(sweep', records') = Applied(change, merged)
  <2>1. Applied(sweep', records) = Applied(change, Applied(sweep, records))
    BY <1>5, ChangesCompose
  <2> QED BY <1>1, <2>1
<1>7. /\ sweep.marks \in [Lives -> Nat] /\ merged \subseteq AnyRows
      /\ \A k \in Lives : sweep.marks[k] <= captured[k]
      /\ Good(sweep.marks, merged)
  BY <1>1, <1>2 DEF SweepOK, AnyRows
<1>8. captured \in [Lives -> Nat] /\ captured[l] \in Nat
  BY <1>2 DEF MarksOK
<1>9. /\ Applied(change, merged) \subseteq AnyRows
      /\ Good([sweep.marks EXCEPT ![l] = captured[l]], Applied(change, merged))
  <2>1. captured[l] >= sweep.marks[l]
    BY <1>7, <1>8
  <2> QED BY <1>7, <1>8, <2>1, UpdateKeepsGood
<1>10. /\ sweep'.marks \in [Lives -> Nat]
       /\ \A k \in Lives : sweep'.marks[k] <= captured'[k]
  BY <1>1, <1>5, <1>7, <1>8
<1>11. SweepOK'
  BY <1>5, <1>6, <1>9, <1>10 DEF SweepOK, AnyRows
<1> QED BY <1>4, <1>11

LEMMA BackfillCommits == ASSUME RecordsInv, CommitBackfill PROVE RecordsInv'
<1> SUFFICES ASSUME ~crossed' PROVE (MarksOK /\ Good(mark, records) /\ ReportOK /\ SweepOK)'
  BY DEF RecordsInv
<1>1. /\ sweep # NoSweep /\ sweep' = NoSweep /\ ~crossed
      /\ records' = Applied(sweep, records) /\ mark' = sweep.marks
      /\ UNCHANGED <<captured, report>>
  BY DEF CommitBackfill
<1>2. MarksOK /\ ReportOK /\ SweepOK
  BY <1>1 DEF RecordsInv
<1>3. report' = NoReport
  BY <1>1, <1>2 DEF ReportOK
<1>4. MarksOK' /\ Good(mark', records')
  BY <1>1, <1>2 DEF MarksOK, SweepOK
<1>5. ReportOK' /\ SweepOK'
  BY <1>1, <1>3 DEF ReportOK, SweepOK
<1> QED BY <1>4, <1>5 DEF Good

LEMMA RecordsStep == ASSUME RecordsInv, [RecordsNext]_recordVars PROVE RecordsInv'
<1>1. CASE UNCHANGED recordVars
  BY <1>1 DEF recordVars, RecordsInv, MarksOK, Good, ReportOK, SweepOK
<1>2. CASE RecordsNext
  BY <1>2, CaptureKeeps, AnalysisOpens, AnalysisCommits, AnalysisAborts,
     BackfillOpens, BackfillGoesOn, BackfillCommits DEF RecordsNext
<1> QED BY <1>1, <1>2

\* The best mark of the lives is on the table whenever no transaction is half
\* done beside another (update_stream_records, backfill_records).
THEOREM BestMarkStays == RecordsSpec => []BestMarkKept
<1>1. RecordsInv => BestMarkKept
  BY DEF RecordsInv, BestMarkKept
<1> QED BY <1>1, RecordsStart, RecordsStep, PTL DEF RecordsSpec

---------------------------------------------------------------------------
(* The followers, for any accounts, limits and bounds.                     *)

USE DEF twitch, grant, table, state, api, memory

\* The initial state satisfies the invariant.
LEMMA InitIInv == Init => IInv
<1> SUFFICES ASSUME Init PROVE IInv
  OBVIOUS
<1>1. 0 \in 0..MaxChanges /\ 0 \in 0..MaxFaults /\ 0 \in 0..MaxRevokes
  BY LimitsAssumption
<1>2. login \in [busy : BOOLEAN, token : BOOLEAN, null : BOOLEAN]
  BY DEF Init, NoLogin
<1>3. TypeOK
  BY <1>1, <1>2 DEF Init, TypeOK, Errors, Phases
<1>4. AwayOK /\ BatchOK /\ WalkOver
  BY DEF Init, AwayOK, BatchOK, WalkOver
<1> QED
  BY <1>3, <1>4 DEF IInv

\* Steps of the streamer, of people and of the api process.
LEMMA OutsideIInv == IInv /\ Outside => IInv'
<1> SUFFICES ASSUME IInv, Outside PROVE IInv'
  OBVIOUS
<1> USE LimitsAssumption, UsersAssumption
<1> USE DEF IInv, TypeOK, AwayOK, BatchOK, WalkOver, Errors, Phases
<1>1. ASSUME NEW u \in Users, Follow(u) PROVE IInv'
  BY <1>1 DEF Follow
<1>2. ASSUME NEW u \in Users, Unfollow(u) PROVE IInv'
  BY <1>2 DEF Unfollow
<1>3. ASSUME NEW u \in Users, LoseNews(u) PROVE IInv'
  BY <1>3 DEF LoseNews
<1>4. ASSUME NEW u \in Users, Hear(u) PROVE IInv'
  BY <1>4 DEF Hear
<1>5. CASE Revoke
  <2>1. revokes' \in 0..MaxRevokes
    BY <1>5 DEF Revoke
  <2>2. good' \in BOOLEAN /\ mine' \in BOOLEAN
    BY <1>5 DEF Revoke
  <2>3. UNCHANGED <<twitch, table, state, api, phase, memory, faults>>
    BY <1>5 DEF Revoke
  <2>4. TypeOK'
    BY <2>1, <2>2, <2>3
  <2> QED
    BY <2>3, <2>4
<1>6. CASE Insert
  <2>1. rows \subseteq rows' /\ fresh' \subseteq rows' /\ rows' \subseteq Users
    BY <1>6 DEF Insert
  <2>2. UNCHANGED <<twitch, grant, seen, state, login, phase, memory, faults>>
    BY <1>6 DEF Insert
  <2>3. hook' \in Users \cup {Nobody} /\ hookNew' \in BOOLEAN /\ seen' \subseteq rows'
    BY <1>6, <2>1 DEF Insert
  <2>4. TypeOK'
    BY <2>1, <2>2, <2>3
  <2>5. (AwayOK /\ BatchOK /\ WalkOver)'
    BY <1>6, <2>1 DEF Insert
  <2> QED
    BY <2>4, <2>5
<1>7. CASE SignIn
  BY <1>7 DEF SignIn
<1>8. CASE RequestSync
  BY <1>8 DEF RequestSync, NoLogin
<1>9. CASE Age
  BY <1>9 DEF Age
<1> QED
  BY <1>1, <1>2, <1>3, <1>4, <1>5, <1>6, <1>7, <1>8, <1>9 DEF Outside

\* Steps of the worker, failures included.
LEMMA WorkerIInv ==
  IInv /\ (Work \/ NoToken \/ Interrupt \/ Abandon \/ Crash) => IInv'
<1> SUFFICES ASSUME IInv, Work \/ NoToken \/ Interrupt \/ Abandon \/ Crash
             PROVE  IInv'
  OBVIOUS
<1> USE LimitsAssumption, UsersAssumption
<1> USE DEF IInv, TypeOK, AwayOK, BatchOK, WalkOver, Errors, Phases
<1>1. CASE Select
  BY <1>1 DEF Select
<1>2. CASE Begin
  <2>1. /\ ahead' \subseteq list /\ recent' \subseteq Users
        /\ away' \subseteq Users /\ Users \ list \subseteq away'
        /\ fresh' \subseteq rows /\ seen' \subseteq rows
    BY <1>2 DEF Begin
  <2>2. leave \subseteq away'
    BY <1>2 DEF Begin
  <2>3. TypeOK'
    BY <1>2, <2>1 DEF Begin
  <2>4. (AwayOK /\ BatchOK /\ WalkOver)'
    BY <1>2, <2>1, <2>2 DEF Begin
  <2> QED
    BY <2>3, <2>4
<1>3. CASE Fetch
  BY <1>3 DEF Fetch
<1>4. CASE Store
  BY <1>4 DEF Store, Forget
<1>5. CASE Enrich
  BY <1>5 DEF Enrich
<1>6. CASE SkipConfirm
  BY <1>6 DEF SkipConfirm
<1>7. CASE TakeBatch
  <2>1. PICK B \in SUBSET Candidates : \E D \in SUBSET (B \ list) :
           todo' = B \ D /\ leave' = D
    BY <1>7 DEF TakeBatch
  <2>2. PICK D \in SUBSET (B \ list) : todo' = B \ D /\ leave' = D
    BY <2>1
  <2>3. B \subseteq rows
    BY <2>1 DEF Candidates
  <2>4. found = {}
    BY <1>7 DEF TakeBatch
  <2>5. TypeOK'
    BY <1>7, <2>2, <2>3 DEF TakeBatch
  <2>6. (AwayOK /\ BatchOK /\ WalkOver)'
    BY <1>7, <2>2, <2>3, <2>4 DEF TakeBatch
  <2> QED
    BY <2>5, <2>6
<1>8. ASSUME NEW u \in Users, Confirm(u) PROVE IInv'
  BY <1>8 DEF Confirm
<1>9. CASE RecordGone
  <2>1. error' \in Errors
    BY <1>9 DEF RecordGone, Noted
  <2>2. seen' \subseteq rows' /\ fresh' \subseteq rows' /\ rows' \subseteq Users
    BY <1>9 DEF RecordGone
  <2>3. TypeOK'
    BY <1>9, <2>1, <2>2 DEF RecordGone, Forget
  <2>4. (AwayOK /\ BatchOK /\ WalkOver)'
    BY <1>9 DEF RecordGone, Forget
  <2> QED
    BY <2>3, <2>4
<1>10. CASE Close
  BY <1>10 DEF Close, Forget, Noted
<1>11. CASE NoToken
  BY <1>11 DEF NoToken
<1>12. CASE Interrupt
  <2>1. faults' \in 0..MaxFaults
    BY <1>12 DEF Interrupt
  <2>2. TypeOK'
    BY <1>12, <2>1 DEF Interrupt, Forget
  <2>3. (AwayOK /\ BatchOK /\ WalkOver)'
    BY <1>12 DEF Interrupt, Forget
  <2> QED
    BY <2>2, <2>3
<1>13. CASE Abandon
  <2>1. faults' \in 0..MaxFaults
    BY <1>13 DEF Abandon
  <2>2. TypeOK'
    BY <1>13, <2>1 DEF Abandon, Forget
  <2>3. (AwayOK /\ BatchOK /\ WalkOver)'
    BY <1>13 DEF Abandon, Forget
  <2> QED
    BY <2>2, <2>3
<1>14. CASE Crash
  <2>1. faults' \in 0..MaxFaults
    BY <1>14 DEF Crash
  <2>2. UNCHANGED <<twitch, grant, table, state, api>>
    BY <1>14 DEF Crash
  <2>3. /\ page' = {} /\ newcomers' = {} /\ last' \in BOOLEAN /\ note' \in Errors
        /\ todo' = {} /\ leave' = {} /\ found' = {} /\ phase' \in Phases
    BY <1>14 DEF Crash, Forget
  <2>4. TypeOK'
    BY <2>1, <2>2, <2>3
  <2>5. (AwayOK /\ BatchOK /\ WalkOver)'
    BY <1>14 DEF Crash, Forget
  <2> QED
    BY <2>4, <2>5
<1> QED
  BY <1>1, <1>2, <1>3, <1>4, <1>5, <1>6, <1>7, <1>8, <1>9, <1>10, <1>11, <1>12,
     <1>13, <1>14 DEF Work

\* The invariant is inductive.
LEMMA StepIInv == IInv /\ [Next]_vars => IInv'
<1>1. IInv /\ UNCHANGED vars => IInv'
  BY DEF vars, IInv, TypeOK, AwayOK, BatchOK, WalkOver
<1> QED
  BY <1>1, OutsideIInv, WorkerIInv DEF Next

\* What the pass has in hand and in the database fits together, in every
\* reachable state (the rows of a batch exist, each has one fate, no cursor is
\* left once the walk is over, those to be recorded as gone have been away).
THEOREM SyncInvariant == SafeSpec => []IInv
BY InitIInv, StepIInv, PTL DEF SafeSpec

\* Every variable keeps its type.
THEOREM TypeCorrect == SafeSpec => []TypeOK
<1>1. IInv => TypeOK
  BY DEF IInv
<1> QED
  BY <1>1, SyncInvariant, PTL

\* Rows are deleted by RecordGone alone, and those it deletes have been away.
LEMMA OnlyTheGoneStep == IInv /\ [Next]_vars => [rows \ rows' \subseteq away]_vars
<1> SUFFICES ASSUME IInv, Next PROVE rows \ rows' \subseteq away
  OBVIOUS
<1>1. CASE RecordGone
  BY <1>1 DEF RecordGone, IInv, AwayOK
<1>2. CASE Store
  BY <1>2 DEF Store
<1>3. CASE Insert
  BY <1>3 DEF Insert
<1>4. CASE rows' = rows
  BY <1>4
<1>5. RecordGone \/ Store \/ Insert \/ rows' = rows
  BY DEF Next, Outside, Work, Follow, Unfollow, LoseNews, Hear, Revoke, SignIn,
     RequestSync, Age, Select, Begin, Fetch, Enrich, SkipConfirm, TakeBatch,
     Confirm, Close, NoToken, Interrupt, Abandon, Crash
<1> QED
  BY <1>1, <1>2, <1>3, <1>4, <1>5

\* The row of someone who has followed ever since the pass began is never
\* deleted, for any accounts, page sizes and limits.
THEOREM OnlyTheGone == SafeSpec => GoneWereAway
BY SyncInvariant, OnlyTheGoneStep, PTL DEF SafeSpec, GoneWereAway

\* While a cursor is stored, no step takes a mark away or puts a follower back
\* among those to be walked.
LEMMA ResumesStep ==
  IInv /\ [Next]_vars =>
    [midway => seen \subseteq seen' /\ ahead' \subseteq ahead]_vars
<1> SUFFICES ASSUME IInv, Next, midway
             PROVE  seen \subseteq seen' /\ ahead' \subseteq ahead
  OBVIOUS
<1>1. CASE Store
  BY <1>1 DEF Store
<1>2. CASE Begin
  BY <1>2 DEF Begin, Resume
<1>3. CASE RecordGone
  BY <1>3 DEF RecordGone, IInv, WalkOver
<1>4. ASSUME NEW u \in Users, Unfollow(u)
      PROVE  seen \subseteq seen' /\ ahead' \subseteq ahead
  BY <1>4 DEF Unfollow
<1>5. CASE seen' = seen /\ ahead' = ahead
  BY <1>5
<1>6. \/ Store \/ Begin \/ RecordGone \/ \E u \in Users : Unfollow(u)
      \/ seen' = seen /\ ahead' = ahead
  BY DEF Next, Outside, Work, Follow, LoseNews, Hear, Insert, Revoke, SignIn,
     RequestSync, Age, Select, Fetch, Enrich, SkipConfirm, TakeBatch,
     Confirm, Close, NoToken, Interrupt, Abandon, Crash
<1> QED
  BY <1>1, <1>2, <1>3, <1>4, <1>5, <1>6

\* A walk that was interrupted goes on where it stopped.
THEOREM Resumes == SafeSpec => RestartResumes
BY SyncInvariant, ResumesStep, PTL DEF SafeSpec, RestartResumes
===========================================================================
