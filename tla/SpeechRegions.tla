---------------------------- MODULE SpeechRegions ----------------------------
(***************************************************************************)
(* How a file of sound is cut in regions before it is transcribed          *)
(* (workers/transcribe/pipeline.py): the spans of speech that the voice    *)
(* detector found are joined where they are near each other, and what is   *)
(* between them becomes a region of music or silence where it is long      *)
(* enough.  Two loops, one step for each turn.                             *)
(*                                                                         *)
(* Times are whole; a region of sound without speech is not told to be     *)
(* music or silence.                                                       *)
(***************************************************************************)
EXTENDS Integers, Sequences

CONSTANTS
  MergeGap,     \* SPEECH_MERGE_GAP_SECONDS
  MinNonspeech, \* MIN_NONSPEECH_SECONDS
  FileSeconds,  \* how long the file is, in the scale of these two
  MaxSpans      \* bound: spans found in a file

ASSUME RegionsAssumption ==
  /\ {MergeGap, FileSeconds, MaxSpans} \subseteq Nat
  /\ MinNonspeech \in Nat \ {0}

VARIABLES
  cutting,   \* "merge", "classify" or "done": the loop it is in
  spans,     \* speech_spans
  joined,    \* how many of them are in merged
  merged,
  placed,    \* how many of merged are in regions
  reached,   \* cursor
  regions

cutVars == <<cutting, spans, joined, merged, placed, reached, regions>>

\* What the voice detector may report: spans in order, which may touch.
Spans ==
  {s \in UNION {[1..n -> (0..FileSeconds) \X (0..FileSeconds)] : n \in 0..MaxSpans} :
     /\ \A i \in 1..Len(s) : s[i][1] < s[i][2]
     /\ \A i \in 1..Len(s) - 1 : s[i][2] <= s[i + 1][1]}

---------------------------------------------------------------------------
RegionsInit ==
  /\ cutting = "merge"
  /\ spans \in Spans
  /\ joined = 0 /\ merged = <<>>
  /\ placed = 0 /\ reached = 0 /\ regions = <<>>

\* Whether a span is near enough to the last one to be joined to it.
Near(span) == Len(merged) > 0 /\ span[1] - merged[Len(merged)][2] <= MergeGap

Later(a, b) == IF a > b THEN a ELSE b

\* merge_speech_spans: the next span is joined to the last, or begins another.
MergeSpan ==
  /\ cutting = "merge" /\ joined < Len(spans)
  /\ LET span == spans[joined + 1]
         n == Len(merged)
     IN  merged' = IF Near(span)
                   THEN [merged EXCEPT ![n] = <<@[1], Later(@[2], span[2])>>]
                   ELSE Append(merged, span)
  /\ joined' = joined + 1
  /\ UNCHANGED <<cutting, spans, placed, reached, regions>>

AllMerged ==
  /\ cutting = "merge" /\ joined = Len(spans)
  /\ cutting' = "classify"
  /\ UNCHANGED <<spans, joined, merged, placed, reached, regions>>

Region(a, b, talk) == [from |-> a, to |-> b, speech |-> talk]

\* Seeded fault: a pause of just that length is left out.
WithPause_Longer(a, b) ==
  IF b - a > MinNonspeech THEN Append(regions, Region(a, b, FALSE)) ELSE regions

\* The regions with the sound between two times, where it is long enough.
WithPause(a, b) ==
  IF b - a >= MinNonspeech THEN Append(regions, Region(a, b, FALSE)) ELSE regions

\* classify_regions: the sound before a span, and the span.
PlaceSpan ==
  /\ cutting = "classify" /\ placed < Len(merged)
  /\ LET span == merged[placed + 1] IN
     /\ regions' = Append(WithPause(reached, span[1]), Region(span[1], span[2], TRUE))
     /\ reached' = span[2]
  /\ placed' = placed + 1
  /\ UNCHANGED <<cutting, spans, joined, merged>>

\* ... and what is left of the file.
EndRegions ==
  /\ cutting = "classify" /\ placed = Len(merged)
  /\ regions' = WithPause(reached, FileSeconds)
  /\ cutting' = "done"
  /\ UNCHANGED <<spans, joined, merged, placed, reached>>

RegionsNext == MergeSpan \/ AllMerged \/ PlaceSpan \/ EndRegions

RegionsSpec == RegionsInit /\ [][RegionsNext]_cutVars

---------------------------------------------------------------------------
\* Where region i of those so far ends, and where it begins.
To(i)   == IF i = 0 THEN 0 ELSE regions[i].to
From(i) == IF i > Len(regions) THEN FileSeconds ELSE regions[i].from

\* However speech and pauses alternate, every span the detector found is inside
\* one region that is sent to be transcribed, regions are in order and apart, and
\* what no region covers is a pause shorter than MIN_NONSPEECH_SECONDS.
SpeechKept ==
  cutting = "done" =>
    /\ \A i \in 1..Len(spans) : \E k \in 1..Len(regions) :
         /\ regions[k].speech
         /\ regions[k].from <= spans[i][1] /\ spans[i][2] <= regions[k].to
    /\ \A k \in 1..Len(regions) : regions[k].from < regions[k].to
    /\ \A i \in 0..Len(regions) : From(i + 1) - To(i) \in 0..(MinNonspeech - 1)
=============================================================================
