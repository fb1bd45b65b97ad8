----------------------------- MODULE Analysis -----------------------------
(***************************************************************************)
(* The analysis of a live (workers/analyze/pipeline.py and evidence.py,    *)
(* core/llm.py, the advice of core/monetization.py, core/follower_intel.py *)
(* and core/follower_ai.py): a fixed order of questions to a language      *)
(* model under one budget of tokens, whose answers are stored only with    *)
(* evidence that checks out.                                               *)
(*                                                                         *)
(* The model's answers are arbitrary.  Of the rows it may cite, one is     *)
(* "shown" when its line is in the prompt, "gathered" when it was read for *)
(* the prompt and is not in it (fit_input cut its line, or it has no text) *)
(* and "foreign" when it is of another live or made up.  insights is what  *)
(* this run has stored.  Everything runs in the transaction of the job: an *)
(* error of the endpoint rolls it back (module JobPipeline retries it).    *)
(* Advice kept from earlier runs, which were such runs, and wording and    *)
(* languages are left out; a text counts for its tokens.                   *)
(***************************************************************************)
EXTENDS Integers, FiniteSets

CONSTANTS
  MaxInput, MaxOutput,     \* settings.llm_max_input_tokens, ..._output_tokens
  PeakInput, PeakOutput,   \* PEAK_PROMPT_INPUT_CAP, PEAK_OUTPUT_TOKENS
  BlockInput, BlockOutput,
  TopicsInput,             \* TOPICS_PROMPT_INPUT_CAP, the summary's cap too
  FinalOutput,             \* SUMMARY_, TOPICS_ and RECOMMEND_OUTPUT_TOKENS
  AdviceOutput,            \* the channel's and the followers' advice
  Extras,    \* tokens of a prompt that its cap does not limit
  Drifts,    \* tokens an answer may count beyond its max_tokens
  MaxPeaks, MaxBlocks, MaxFacts,   \* bounds
  Profiles   \* traits of the followers there may be

ASSUME BudgetAssumption ==
  /\ {MaxInput, MaxOutput, PeakInput, PeakOutput, BlockInput, BlockOutput,
      TopicsInput, FinalOutput, AdviceOutput} \subseteq Nat \ {0}
  /\ Extras \subseteq Nat /\ Drifts \subseteq Nat
  /\ MaxPeaks \in Nat /\ MaxBlocks \in Nat /\ MaxFacts \in Nat

VARIABLES
  step,       \* where run_analysis is
  left,       \* peaks, then blocks, still to come
  extra, drift,            \* of this run, in Extras and Drifts
  inputLeft, outputLeft,   \* TokenBudget.input_remaining, output_remaining
  inputSpent, outputSpent,
  summaries,  \* how many blocks were summarised
  skipped,    \* stats.skipped_for_budget
  insights    \* insights and advice stored: [of, evidence]

tokens == <<inputLeft, outputLeft, inputSpent, outputSpent>>
analysisVars == <<step, left, extra, drift, inputLeft, outputLeft, inputSpent,
                  outputSpent, summaries, skipped, insights>>

Steps == {"idle", "peaks", "blocks", "summary", "topics", "recommend",
          "channel", "followers", "personas", "done"}

---------------------------------------------------------------------------
(* The budget. *)

AtLeastZero(n) == IF n < 0 THEN 0 ELSE n

\* Seeded fault: the answer alone is budgeted.
CanAfford_AnswerOnly(input, output) == output <= outputLeft

CanAfford(input, output) == input <= inputLeft /\ output <= outputLeft

\* truncate_to_tokens: at most this much of a text under the cap is sent.
Fitted(cap) == IF cap < inputLeft THEN cap ELSE inputLeft

Spend(prompt, response) ==
  /\ inputLeft'   = AtLeastZero(inputLeft - prompt)
  /\ outputLeft'  = AtLeastZero(outputLeft - response)
  /\ inputSpent'  = inputSpent + prompt
  /\ outputSpent' = outputSpent + response

\* One call of the endpoint with a text under a cap.
Generate(cap, output) ==
  \E prompt \in 1..(Fitted(cap) + extra), response \in 1..(output + drift) :
    Spend(prompt, response)

---------------------------------------------------------------------------
(* The evidence. *)

Ids == {"shown", "gathered", "foreign"}

\* validated_evidence: the references that count are to the rows of the context,
\* which lists them before its text is cut to the cap.
Verified(cited) == cited \cap {"shown", "gathered"}

Insight(cited) == [of |-> "live", evidence |-> Verified(cited)]

\* What an answer can leave: one that cites nothing that counts leaves nothing.
Accepted == {Insight(cited) : cited \in {ids \in SUBSET Ids : Verified(ids) # {}}}

\* _call_and_store: an answer that does not parse is discarded too.
Keep ==
  \/ UNCHANGED insights
  \/ \E insight \in Accepted : insights' = insights \cup {insight}

---------------------------------------------------------------------------
(* The personas of followers; a profile has the traits its rules look at. *)

\* _SEGMENT_RULES: the first that matches.
Persona(p) ==
  CASE p.streamer           -> "streamers"
    [] p.paid /\ p.chatted  -> "paying_fans"
    [] p.chatted /\ p.quiet -> "dormant"
    [] p.chatted            -> "engaged"
    [] p.recent             -> "newcomers"
    [] OTHER                -> "lurkers"

\* build_segments: the personas somebody has.
Segments(profiles) == {Persona(p) : p \in profiles}

---------------------------------------------------------------------------
AnalysisInit ==
  /\ step = "idle" /\ left = 0 /\ extra = 0 /\ drift = 0
  /\ inputLeft = MaxInput /\ outputLeft = MaxOutput
  /\ inputSpent = 0 /\ outputSpent = 0
  /\ summaries = 0 /\ skipped = {}
  /\ insights = {}

\* A TokenBudget and AnalysisStats, which live as long as the call of run_analysis.
NewBudget ==
  /\ inputLeft' = MaxInput /\ outputLeft' = MaxOutput
  /\ inputSpent' = 0 /\ outputSpent' = 0
  /\ summaries' = 0 /\ skipped' = {}

LeaveRun == step' = "idle" /\ left' = 0 /\ extra' = 0 /\ drift' = 0 /\ NewBudget

\* The job starts: the live's insights are dropped, its peaks are recomputed.
BeginAnalysis ==
  /\ step = "idle"
  /\ step' = "peaks"
  /\ left' \in 0..MaxPeaks
  /\ extra' \in Extras /\ drift' \in Drifts
  /\ NewBudget
  /\ insights' = {}

\* No more peaks: the live is cut in blocks of a quarter of an hour.
CutBlocks ==
  /\ step = "peaks" /\ left = 0
  /\ step' = "blocks"
  /\ left' \in 0..MaxBlocks
  /\ UNCHANGED <<extra, drift, tokens, summaries, skipped, insights>>

ExplainPeak ==
  /\ step = "peaks" /\ left > 0
  /\ left' = left - 1
  /\ IF CanAfford(PeakInput, PeakOutput)
     THEN Generate(PeakInput, PeakOutput) /\ Keep /\ UNCHANGED skipped
     ELSE skipped' = skipped \cup {"peak"} /\ UNCHANGED <<tokens, insights>>
  /\ UNCHANGED <<step, extra, drift, summaries>>

\* Seeded fault: blocks spend what they can.
BlockAllowed_NoReserve == CanAfford(BlockInput, BlockOutput)

\* The reserve of the final steps stays.
BlockAllowed == CanAfford(BlockInput + 3 * TopicsInput, BlockOutput + 3 * FinalOutput)

\* An unparseable summary is left out.
SummarizeBlock ==
  /\ step = "blocks" /\ left > 0
  /\ left' = left - 1
  /\ IF BlockAllowed
     THEN /\ Generate(BlockInput, BlockOutput)
          /\ summaries' \in {summaries, summaries + 1}
          /\ UNCHANGED skipped
     ELSE skipped' = skipped \cup {"block"} /\ UNCHANGED <<tokens, summaries>>
  /\ UNCHANGED <<step, extra, drift, insights>>

\* Without a summary there is nothing to sum up or to take topics from.
EndBlocks ==
  /\ step = "blocks" /\ left = 0
  /\ step' = IF summaries > 0 THEN "summary" ELSE "recommend"
  /\ UNCHANGED <<left, extra, drift, tokens, summaries, skipped, insights>>

FinalSummary ==
  /\ step = "summary"
  /\ step' = "topics"
  /\ IF CanAfford(TopicsInput, FinalOutput)
     THEN Generate(TopicsInput, FinalOutput) /\ Keep /\ UNCHANGED skipped
     ELSE skipped' = skipped \cup {"summary"} /\ UNCHANGED <<tokens, insights>>
  /\ UNCHANGED <<left, extra, drift, summaries>>

\* _store_topics: each topic with its own evidence, of the distinct ones kept.
RankTopics ==
  /\ step = "topics"
  /\ step' = "recommend"
  /\ IF CanAfford(TopicsInput, FinalOutput)
     THEN /\ Generate(TopicsInput, FinalOutput)
          /\ \E topics \in SUBSET Accepted : insights' = insights \cup topics
          /\ UNCHANGED skipped
     ELSE skipped' = skipped \cup {"topics"} /\ UNCHANGED <<tokens, insights>>
  /\ UNCHANGED <<left, extra, drift, summaries>>

\* Facts of peaks and dips with speech near them stand for that speech; with
\* none, or an unusable answer, nothing is kept.
Recommend ==
  /\ step = "recommend"
  /\ step' = "channel"
  /\ IF CanAfford(TopicsInput, FinalOutput)
     THEN /\ \/ UNCHANGED <<tokens, insights>>
             \/ Generate(TopicsInput, FinalOutput) /\ UNCHANGED insights
             \/ /\ Generate(TopicsInput, FinalOutput)
                /\ insights' = insights \cup {Insight({"shown"})}
          /\ UNCHANGED skipped
     ELSE skipped' = skipped \cup {"recommendations"} /\ UNCHANGED <<tokens, insights>>
  /\ UNCHANGED <<left, extra, drift, summaries>>

\* Recommendations on numbered facts of so many tokens: the items of a usable
\* answer that cite the number of a fact replace the set.
Advise(set, facts) ==
  \/ UNCHANGED <<tokens, insights>> /\ (facts = 0 \/ ~CanAfford(facts, AdviceOutput))
  \/ /\ facts > 0 /\ CanAfford(facts, AdviceOutput)
     /\ \E response \in 1..(AdviceOutput + drift) : Spend(facts + extra, response)
     /\ \/ UNCHANGED insights
        \/ \E cited \in SUBSET {"fact", "foreign"} :
             /\ "fact" \in cited
             /\ insights' = insights \cup {[of |-> set, evidence |-> cited \cap {"fact"}]}

RecommendChannel ==
  /\ step = "channel"
  /\ step' = "followers"
  /\ \E facts \in 0..MaxFacts : Advise("channel", facts)
  /\ UNCHANGED <<left, extra, drift, summaries, skipped>>

RecommendFollowers ==
  /\ step = "followers"
  /\ step' = "personas"
  /\ \E facts \in 0..MaxFacts : Advise("followers", facts)
  /\ UNCHANGED <<left, extra, drift, summaries, skipped>>

\* What is stored as the model wrote it: the audience summary, and messages to
\* followers by whatever name it gave.
Ungrounded == {"audience", "reactivation"}

\* generate_follower_ai: the whole prompt is counted before it is sent; an
\* action is kept for a persona somebody has.
AdvisePersonas ==
  /\ step = "personas"
  /\ step' = "done"
  /\ \E profiles \in SUBSET Profiles, prompt \in 1..(MaxFacts + 1) :
       \/ /\ profiles = {} \/ ~CanAfford(prompt, AdviceOutput)
          /\ UNCHANGED <<tokens, insights>>
       \/ /\ profiles # {} /\ CanAfford(prompt, AdviceOutput)
          /\ \E response \in 1..(AdviceOutput + drift) : Spend(prompt, response)
          /\ \/ UNCHANGED insights
             \/ \E keys \in SUBSET Segments(profiles), free \in SUBSET Ungrounded :
                  insights' = insights \cup {[of |-> "persona", evidence |-> {k}] : k \in keys}
                               \cup {[of |-> f, evidence |-> {}] : f \in free}
  /\ UNCHANGED <<left, extra, drift, summaries, skipped>>

\* The job commits.
FinishAnalysis ==
  /\ step = "done"
  /\ LeaveRun
  /\ UNCHANGED insights

\* The endpoint fails, or the worker dies: everything is rolled back.
FailAnalysis ==
  /\ step \notin {"idle", "done"}
  /\ LeaveRun
  /\ insights' = {}

AnalysisNext ==
  \/ BeginAnalysis \/ ExplainPeak \/ CutBlocks \/ SummarizeBlock \/ EndBlocks
  \/ FinalSummary \/ RankTopics \/ Recommend
  \/ RecommendChannel \/ RecommendFollowers \/ AdvisePersonas
  \/ FinishAnalysis \/ FailAnalysis

AnalysisSpec == AnalysisInit /\ [][AnalysisNext]_analysisVars

---------------------------------------------------------------------------
(* What no run may do. *)

\* The budget is "hard per stream" up to what one call's prompt holds outside its
\* cap and one answer counts beyond its limit, for what remains never goes below
\* zero and nothing is asked for nothing: TokenBudget and can_afford's callers.
SpentWithinBudget ==
  /\ inputSpent <= MaxInput + extra
  /\ outputSpent <= MaxOutput + drift

\* What the final steps still find after `taken' of them: the reserve of the
\* others, but for what escaped its cap in the last block and in those before.
Holds(taken) ==
  /\ inputLeft >= (3 - taken) * TopicsInput - (taken + 1) * extra
  /\ outputLeft >= (3 - taken) * FinalOutput - (taken + 1) * drift

\* However long the live, and however its tokens went, a live with a summarised
\* block comes to each final step with at least this much of its reserve: all blocks
\* together have cut into it by what one of them sends beside its cap.
ReserveKept == summaries > 0 =>
  /\ step \in {"blocks", "summary"} => Holds(0)
  /\ step = "topics" => Holds(1)
  /\ step = "recommend" => Holds(2)

\* pipeline.py says the reserve is "what summary + topics + recommendations need
\* to be allowed to run at all", and that blocks "must never spend below this".
\* The guard of a block counts its cap, not the previous summary and the
\* instructions that are sent with it.
FinalStepsRun ==
  summaries > 0 => skipped \cap {"summary", "topics", "recommendations"} = {}

\* evidence.py: "A reference only counts when the model actually saw it in the
\* prompt".  Of a row that was cut off, the number can still be cited: they run on.
EvidenceWasSeen == \A r \in insights : r.of = "live" => "gathered" \notin r.evidence
===========================================================================
