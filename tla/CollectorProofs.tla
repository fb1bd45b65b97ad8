------------------------- MODULE CollectorProofs --------------------------
(***************************************************************************)
(* What is heard of a live: proofs about its notifications (EventSubInbox), *)
(* its chat and clips (ChatCollector), its sound (Recording) and the regions *)
(* of it that are transcribed (SpeechRegions).                             *)
(***************************************************************************)
EXTENDS EventSubInbox, ChatCollector, Recording, SpeechRegions, FiniteSetTheorems, TLAPS

---------------------------------------------------------------------------
(* The chat, for any number of messages, faults and deaths.                *)
(*                                                                         *)
(* A message that was heard is in one place at a time (PlacesOK); it is on *)
(* the way to no other, so that what is stored is stored once.             *)

ChatTypes ==
  /\ session \in {"on", "stopping", "over", "dead"}
  /\ said \in Nat /\ trouble \in Nat
  /\ heard \subseteq 1..said
  /\ chatRows \in [1..MaxMessages -> Nat]

\* A thread that is not at work has nothing in hand; nothing is heard after the
\* last flush has taken the buffer, nor in a dead worker.
HandsOK ==
  /\ flusher = "waiting" => batch = {}
  /\ closing \in {"no", "writing", "done"}
  /\ closing # "writing" => lastBatch = {}
  /\ closing # "no" => buffer = {} /\ irc = "closed" /\ session \in {"stopping", "over"}
  /\ session = "over" => closing # "no" /\ lastBatch = {}
  /\ session = "dead" => buffer = {} /\ batch = {} /\ lastBatch = {}

\* Each message is where it should be.
PlacesOK ==
  \A m \in 1..MaxMessages :
    In(m, buffer) + In(m, batch) + In(m, lastBatch) + In(m, unsaved) + chatRows[m]
      = In(m, heard)

\* Without trouble a partition said to be there is there.
NoTrouble == trouble = 0 => unsaved = {} /\ (ensured => partition)

ChatInv == ChatTypes /\ HandsOK /\ PlacesOK /\ NoTrouble

---------------------------------------------------------------------------
LEMMA ChatStarts == ASSUME ChatInit PROVE ChatInv
BY DEF ChatInit, ChatInv, ChatTypes, HandsOK, PlacesOK, NoTrouble, In

LEMMA TroubleGrows ==
  ASSUME trouble \in Nat, Trouble
  PROVE  trouble' \in Nat /\ trouble' # 0
BY DEF Trouble

\* Messages that are neither heard nor moved are where they were.
LEMMA PlacesStay ==
  ASSUME PlacesOK,
         UNCHANGED <<heard, buffer, batch, lastBatch, chatRows, unsaved>>
  PROVE  PlacesOK'
BY DEF PlacesOK, In

\* The connection, the clips and the end of the session move no message.
LEMMA BesideKeepsChat ==
  ASSUME ChatInv,
         \/ Second \/ Join \/ FallSilent \/ Disconnected \/ Reconnect
         \/ CoolDown \/ CreateClip \/ Stop \/ Finalized \/ PartitionElsewhere \/ Resume
  PROVE  ChatInv'
<1> USE DEF ChatInv
<1>1. UNCHANGED <<said, heard, buffer, batch, lastBatch, chatRows, unsaved, closing>>
  BY DEF Second, Join, FallSilent, Disconnected, Reconnect, CoolDown, CreateClip,
         Stop, Finalized, PartitionElsewhere, Resume, chat, flushing
<1>2. trouble' = trouble \/ Trouble
  BY DEF Second, Join, FallSilent, Disconnected, Reconnect, CoolDown, CreateClip,
         Stop, Finalized, PartitionElsewhere, Resume
<1>3. /\ session' = session \/ <<session, session'>> \in
           {<<"on", "stopping">>, <<"stopping", "over">>, <<"dead", "on">>}
      /\ session' = "over" => session = "over" \/ closing = "done"
      /\ session' = session => flusher' = flusher
      /\ session = "on" /\ session' # session => flusher' = flusher
      /\ session' = "over" => flusher' = flusher
  BY DEF Second, Join, FallSilent, Disconnected, Reconnect, CoolDown, CreateClip,
         Stop, Finalized, PartitionElsewhere, Resume, flushing
<1>4. irc' = irc \/ irc # "closed" \/ session = "dead"
  BY DEF Second, Join, FallSilent, Disconnected, Reconnect, CoolDown, CreateClip,
         Stop, Finalized, PartitionElsewhere, Resume, connection
<1>5. ChatTypes'
  BY <1>1, <1>2, <1>3, TroubleGrows DEF ChatTypes
<1>6. PlacesOK'
  BY <1>1, PlacesStay
<1>7. HandsOK'
  BY <1>1, <1>3, <1>4 DEF HandsOK, ChatTypes
<1>8. NoTrouble'
  <2>1. ensured' = FALSE \/ partition' = TRUE \/ UNCHANGED <<ensured, partition>>
    BY DEF Second, Join, FallSilent, Disconnected, Reconnect, CoolDown, CreateClip,
           Stop, Finalized, PartitionElsewhere, Resume, flushing
  <2>2. trouble' = 0 => trouble = 0
    BY <1>2, TroubleGrows DEF ChatTypes
  <2> QED BY <1>1, <2>1, <2>2 DEF NoTrouble
<1> QED BY <1>5, <1>6, <1>7, <1>8

\* A message is said, and heard or not.
LEMMA SayKeepsChat == ASSUME ChatInv, Say PROVE ChatInv'
<1> USE DEF ChatInv
<1>1. /\ session \in {"on", "stopping"} /\ said' = said + 1
      /\ UNCHANGED <<session, irc, flusher, batch, closing, lastBatch, ensured, partition,
                     chatRows, unsaved, trouble>>
  BY DEF Say, connection, flushing
<1>2. CASE irc = "joined"
  <2>1. heard' = heard \cup {said + 1} /\ buffer' = buffer \cup {said + 1}
    BY <1>2 DEF Say
  <2>2. ChatTypes'
    BY <1>1, <2>1 DEF ChatTypes
  <2>3. HandsOK'
    BY <1>1, <1>2 DEF HandsOK
  <2>4. NoTrouble'
    BY <1>1 DEF NoTrouble
  <2>5. ASSUME NEW m \in 1..MaxMessages
        PROVE  In(m, buffer') + In(m, batch) + In(m, lastBatch) + In(m, unsaved) + chatRows[m]
                 = In(m, heard')
    <3>1. said + 1 \notin heard
      BY DEF ChatTypes
    <3>2. chatRows[m] \in Nat
      BY DEF ChatTypes
    <3>3. In(m, buffer) + In(m, batch) + In(m, lastBatch) + In(m, unsaved) + chatRows[m]
            = In(m, heard)
      BY DEF PlacesOK
    <3>4. CASE m = said + 1
      BY <2>1, <3>1, <3>2, <3>3, <3>4 DEF In
    <3>5. CASE m # said + 1
      BY <2>1, <3>3, <3>5 DEF In
    <3> QED BY <3>4, <3>5
  <2>6. PlacesOK'
    BY <1>1, <2>5 DEF PlacesOK
  <2> QED BY <2>2, <2>3, <2>4, <2>6
<1>3. CASE irc # "joined"
  <2>1. UNCHANGED <<heard, buffer>>
    BY <1>3 DEF Say
  <2>2. ChatTypes' /\ HandsOK' /\ NoTrouble'
    BY <1>1, <2>1 DEF ChatTypes, HandsOK, NoTrouble
  <2> QED BY <1>1, <2>1, <2>2, PlacesStay
<1> QED BY <1>2, <1>3

\* Taking the buffer moves what is in it to a thread that has nothing in hand.
LEMMA TakingKeepsChat == ASSUME ChatInv, Flush \/ LastFlush PROVE ChatInv'
<1> USE DEF ChatInv
<1>1. UNCHANGED <<session, said, heard, chatRows, unsaved, ensured, partition, trouble>>
  BY DEF Flush, LastFlush, chat, flushing
<1>2. ChatTypes' /\ NoTrouble'
  BY <1>1 DEF ChatTypes, NoTrouble
<1>3. CASE Flush
  <2>1. /\ flusher = "waiting" /\ batch' = buffer /\ buffer' = {} /\ flusher' = "writing"
        /\ UNCHANGED <<closing, lastBatch, irc>> /\ session \in {"on", "stopping"}
    BY <1>3 DEF Flush, connection
  <2>2. HandsOK'
    BY <1>1, <2>1 DEF HandsOK
  <2>3. batch = {}
    BY <2>1 DEF HandsOK
  <2>4. PlacesOK'
    BY <1>1, <2>1, <2>3 DEF PlacesOK, In
  <2> QED BY <1>2, <2>2, <2>4
<1>4. CASE LastFlush
  <2>1. /\ session = "stopping" /\ closing = "no" /\ closing' = "writing" /\ irc' = "closed"
        /\ flusher' = "ended" /\ lastBatch' = buffer /\ buffer' = {} /\ UNCHANGED batch
    BY <1>4 DEF LastFlush
  <2>2. HandsOK'
    BY <1>1, <2>1 DEF HandsOK
  <2>3. lastBatch = {}
    BY <2>1 DEF HandsOK
  <2>4. PlacesOK'
    BY <1>1, <2>1, <2>3 DEF PlacesOK, In
  <2> QED BY <1>2, <2>2, <2>4
<1> QED BY <1>3, <1>4

\* The flush loop's thread commits its batch, or loses it.
LEMMA BatchKeepsChat == ASSUME ChatInv, CommitBatch \/ LoseBatch PROVE ChatInv'
<1> USE DEF ChatInv
<1>1. /\ batch # {} /\ batch' = {}
      /\ UNCHANGED <<session, irc, said, heard, buffer, closing, lastBatch>>
  BY DEF CommitBatch, LoseBatch, chat, connection
<1>2. HandsOK'
  BY <1>1 DEF HandsOK
<1>3. CASE CommitBatch
  <2>1. /\ chatRows' = Written(batch) /\ partition' = TRUE
        /\ UNCHANGED <<unsaved, trouble>>
    BY <1>3 DEF CommitBatch
  <2>2. \A m \in 1..MaxMessages : /\ chatRows'[m] = chatRows[m] + In(m, batch)
                                  /\ chatRows'[m] \in Nat
    BY <2>1 DEF Written, In, ChatTypes
  <2>3. ChatTypes'
    BY <1>1, <2>1, <2>2 DEF ChatTypes, Written
  <2>4. PlacesOK'
    BY <1>1, <2>1, <2>2 DEF PlacesOK, In, ChatTypes
  <2>5. NoTrouble'
    BY <2>1 DEF NoTrouble
  <2> QED BY <1>2, <2>3, <2>4, <2>5
<1>4. CASE LoseBatch
  <2>1. /\ unsaved' = unsaved \cup batch /\ UNCHANGED <<chatRows, partition>>
        /\ IF CanInsert THEN Trouble ELSE trouble' = trouble
    BY <1>4 DEF LoseBatch
  <2>2. trouble' \in Nat /\ trouble' # 0
    <3>1. CASE CanInsert
      BY <2>1, <3>1, TroubleGrows DEF ChatTypes
    <3>2. CASE ~CanInsert
      <4>1. trouble' = trouble /\ ensured /\ ~partition
        BY <2>1, <3>2 DEF CanInsert
      <4> QED BY <4>1 DEF ChatTypes, NoTrouble
    <3> QED BY <3>1, <3>2
  <2>3. ChatTypes' /\ NoTrouble'
    BY <1>1, <2>1, <2>2 DEF ChatTypes, NoTrouble
  <2>4. PlacesOK'
    <3>1. ASSUME NEW m \in 1..MaxMessages
          PROVE  In(m, unsaved') = In(m, unsaved) + In(m, batch)
      <4>1. chatRows[m] \in Nat
        BY DEF ChatTypes
      <4> QED BY <2>1, <4>1 DEF PlacesOK, In
    <3>2. \A m \in 1..MaxMessages : In(m, batch') = 0
      BY <1>1 DEF In
    <3> QED BY <1>1, <2>1, <3>1, <3>2 DEF PlacesOK, In, ChatTypes
  <2> QED BY <1>2, <2>3, <2>4
<1> QED BY <1>3, <1>4

\* So does the last flush.
LEMMA LastKeepsChat == ASSUME ChatInv, CommitLast \/ LoseLast PROVE ChatInv'
<1> USE DEF ChatInv
<1>1. /\ closing = "writing" /\ closing' = "done" /\ lastBatch' = {}
      /\ UNCHANGED <<session, irc, flusher, said, heard, buffer, batch>>
  BY DEF CommitLast, LoseLast, chat, connection
<1>2. HandsOK'
  BY <1>1 DEF HandsOK
<1>3. CASE CommitLast
  <2>1. /\ chatRows' = Written(lastBatch)
        /\ partition' = TRUE \/ UNCHANGED <<partition, ensured>>
        /\ UNCHANGED <<unsaved, trouble>>
    BY <1>3 DEF CommitLast
  <2>2. \A m \in 1..MaxMessages : /\ chatRows'[m] = chatRows[m] + In(m, lastBatch)
                                  /\ chatRows'[m] \in Nat
    BY <2>1 DEF Written, In, ChatTypes
  <2>3. ChatTypes'
    BY <1>1, <2>1, <2>2 DEF ChatTypes, Written
  <2>4. PlacesOK'
    BY <1>1, <2>1, <2>2 DEF PlacesOK, In, ChatTypes
  <2>5. NoTrouble'
    BY <2>1 DEF NoTrouble
  <2> QED BY <1>2, <2>3, <2>4, <2>5
<1>4. CASE LoseLast
  <2>1. /\ unsaved' = unsaved \cup lastBatch /\ UNCHANGED <<chatRows, partition>>
        /\ IF CanInsert THEN Trouble ELSE trouble' = trouble
    BY <1>4 DEF LoseLast
  <2>2. trouble' \in Nat /\ trouble' # 0
    <3>1. CASE CanInsert
      BY <2>1, <3>1, TroubleGrows DEF ChatTypes
    <3>2. CASE ~CanInsert
      <4>1. trouble' = trouble /\ ensured /\ ~partition
        BY <2>1, <3>2 DEF CanInsert
      <4> QED BY <4>1 DEF ChatTypes, NoTrouble
    <3> QED BY <3>1, <3>2
  <2>3. ChatTypes' /\ NoTrouble'
    BY <1>1, <2>1, <2>2 DEF ChatTypes, NoTrouble
  <2>4. PlacesOK'
    <3>1. ASSUME NEW m \in 1..MaxMessages
          PROVE  In(m, unsaved') = In(m, unsaved) + In(m, lastBatch)
      <4>1. chatRows[m] \in Nat
        BY DEF ChatTypes
      <4> QED BY <2>1, <4>1 DEF PlacesOK, In
    <3>2. \A m \in 1..MaxMessages : In(m, lastBatch') = 0
      BY <1>1 DEF In
    <3> QED BY <1>1, <2>1, <3>1, <3>2 DEF PlacesOK, In, ChatTypes
  <2> QED BY <1>2, <2>3, <2>4
<1> QED BY <1>3, <1>4

\* The worker dies with all it has in hand.
LEMMA DieKeepsChat == ASSUME ChatInv, Die PROVE ChatInv'
<1> USE DEF ChatInv
<1>1. /\ session' = "dead" /\ irc' = "closed" /\ flusher' = "ended" /\ closing' = "no"
      /\ unsaved' = unsaved \cup buffer \cup batch \cup lastBatch
      /\ buffer' = {} /\ batch' = {} /\ lastBatch' = {}
      /\ UNCHANGED <<said, heard, chatRows>> /\ Trouble
  BY DEF Die, chat
<1>2. ChatTypes' /\ NoTrouble'
  BY <1>1, TroubleGrows DEF ChatTypes, NoTrouble
<1>3. HandsOK'
  BY <1>1 DEF HandsOK
<1>4. PlacesOK'
  BY <1>1 DEF PlacesOK, In, ChatTypes
<1> QED BY <1>2, <1>3, <1>4

LEMMA ChatStep == ASSUME ChatInv, [ChatNext]_chatVars PROVE ChatInv'
<1>1. CASE UNCHANGED chatVars
  BY <1>1, PlacesStay
     DEF chatVars, connection, chat, flushing, ChatInv, ChatTypes, HandsOK, NoTrouble
<1> QED
  BY <1>1, BesideKeepsChat, SayKeepsChat, TakingKeepsChat, BatchKeepsChat, LastKeepsChat,
     DieKeepsChat DEF ChatNext

\* Each message heard is in the buffer, in one thread's hands, on the table or gone
\* with a failed flush or a dead worker, and in one of these only (_flush, stop).
THEOREM EveryMessageAccounted == ChatSpec => []ChatAccounted
<1>1. ChatInv => ChatAccounted
  BY DEF ChatInv, HandsOK, PlacesOK, NoTrouble, ChatAccounted
<1>2. ChatInit => ChatInv
  BY ChatStarts
<1>3. ChatInv /\ [ChatNext]_chatVars => ChatInv'
  BY ChatStep
<1> QED BY <1>1, <1>2, <1>3, PTL DEF ChatSpec

---------------------------------------------------------------------------
(* The sound, for lives of any length, any number of takes and any upload  *)
(* that fails.                                                             *)
(*                                                                         *)
(* The numbers of the stored files have no hole, and the end of the storage *)
(* is never reached: so the job that stops at the first number missing has *)
(* read all of them (StorageOK).                                           *)

Active == recorder \in {"recording", "draining"}

Pieces == [heard : Int, take : Int, whole : BOOLEAN]

RecordingTypes ==
  /\ minute \in 0..MaxSegment /\ aired \in BOOLEAN
  /\ recorder \in {"off", "recording", "draining", "ended"}
  /\ take \in Nat /\ takeBegan \in Nat
  /\ newest \in 0..minute /\ uploaded \in 0..(newest + 1)
  /\ DOMAIN storage = 0..(MaxSegment + 1)
  /\ job \in {"none", "running", "done"} /\ nextFile \in 0..(MaxSegment + 1)

\* Objects are whole and without a hole in their numbers; there is room for one
\* more than a live has files.
StorageOK ==
  /\ \A n \in 0..(MaxSegment + 1) :
       storage[n] # NoPiece => storage[n] \in Pieces /\ storage[n].whole = TRUE
  /\ \A n \in 0..(MaxSegment + 1) : \A m \in 0..n :
       storage[n] # NoPiece => storage[m] # NoPiece
  /\ storage[MaxSegment + 1] = NoPiece

\* What a take has uploaded is what it heard, and still there; once it is over the
\* rest is lost.
TakeOK ==
  /\ recorder = "recording" => uploaded <= newest
  /\ Active => \A n \in 0..(uploaded - 1) : storage[n] = Piece(n, TRUE)
  /\ take > 0 /\ ~Active =>
       \A n \in 0..newest : storage[n] = Piece(n, TRUE) \/ Piece(n, TRUE) \in lostPieces

\* The job reads what no recorder writes any more, from the first object on.
JobOK ==
  /\ job # "none" => recorder = "ended" /\ aired
  /\ job = "running" =>
       lines = {[at |-> n, piece |-> storage[n]] : n \in 0..(nextFile - 1)}
  /\ job = "running" => \A n \in 0..(nextFile - 1) : storage[n] # NoPiece
  /\ job = "done" =>
       lines = {[at |-> n, piece |-> storage[n]] :
                  n \in {k \in 0..(MaxSegment + 1) : storage[k] # NoPiece}}

RecordingInv == RecordingTypes /\ StorageOK /\ TakeOK /\ JobOK

LEMMA Bounds == MaxSegment \in Nat /\ NoPiece \notin Pieces
BY RecordingAssumption DEF Pieces

LEMMA PieceTyped ==
  ASSUME RecordingTypes, NEW n \in Int
  PROVE  Piece(n, TRUE) \in Pieces /\ Piece(n, TRUE).whole = TRUE /\ Piece(n, TRUE) # NoPiece
<1>1. takeBegan + n \in Int /\ take \in Int
  BY DEF RecordingTypes
<1>2. Piece(n, TRUE) \in Pieces /\ Piece(n, TRUE).whole = TRUE
  BY <1>1 DEF Piece, Pieces
<1> QED BY <1>2, Bounds

LEMMA RecordingStarts == ASSUME RecordingInit PROVE RecordingInv
<1> USE Bounds DEF RecordingInit
<1>1. RecordingTypes
  <2>1. 0 \in 0..MaxSegment /\ 0 \in 0..0 /\ 0 \in 0..(0 + 1) /\ 0 \in 0..(MaxSegment + 1)
    OBVIOUS
  <2> QED BY <2>1 DEF RecordingTypes
<1>2. StorageOK
  BY DEF StorageOK
<1>3. TakeOK /\ JobOK
  BY DEF TakeOK, JobOK, Active
<1> QED BY <1>1, <1>2, <1>3 DEF RecordingInv

\* A file of the take goes to the storage, whole, after those before it.
LEMMA StoreKeepsRecording ==
  ASSUME RecordingInv, UploadClosed \/ UploadLast
  PROVE  RecordingInv'
<1> USE Bounds
<1>1. /\ Active /\ uploaded <= newest
      /\ recorder = "recording" => uploaded < newest
      /\ storage' = [storage EXCEPT ![uploaded] = Piece(uploaded, TRUE)]
      /\ uploaded' = uploaded + 1
      /\ UNCHANGED <<minute, aired, recorder, take, takeBegan, newest, lostPieces, job,
                     nextFile, lines>>
  <2>1. CASE UploadClosed
    <3>1. /\ recorder = "recording" /\ uploaded < newest /\ Store(uploaded, uploaded < newest)
          /\ UNCHANGED <<minute, aired, recorder, take, takeBegan, newest, lostPieces, job,
                         nextFile, lines>>
      BY <2>1 DEF UploadClosed, onAir, transcribing
    <3>2. (uploaded < newest) = TRUE
      BY <3>1
    <3>3. Store(uploaded, TRUE)
      BY <3>1, <3>2
    <3>4. uploaded <= newest
      BY <3>1 DEF RecordingInv, RecordingTypes
    <3> QED BY <3>1, <3>3, <3>4 DEF Store, Active
  <2>2. CASE UploadLast
    BY <2>2 DEF UploadLast, Store, Active, onAir, transcribing
  <2> QED BY <2>1, <2>2
<1>2. uploaded \in 0..MaxSegment /\ newest \in Nat /\ uploaded \in Nat
      /\ MaxSegment \in Nat
  BY <1>1 DEF RecordingInv, RecordingTypes
<1>3. /\ DOMAIN storage' = 0..(MaxSegment + 1)
      /\ storage'[uploaded] = Piece(uploaded, TRUE)
      /\ \A n \in 0..(MaxSegment + 1) : n # uploaded => storage'[n] = storage[n]
  <2>1. DOMAIN storage = 0..(MaxSegment + 1) /\ uploaded \in 0..(MaxSegment + 1)
    BY <1>2 DEF RecordingInv, RecordingTypes
  <2> QED BY <1>1, <2>1
<1>4. Piece(uploaded, TRUE) \in Pieces /\ Piece(uploaded, TRUE).whole = TRUE
      /\ Piece(uploaded, TRUE) # NoPiece
  <2>1. uploaded \in Int
    BY <1>2
  <2>2. RecordingTypes
    BY DEF RecordingInv
  <2> QED BY <2>1, <2>2, PieceTyped, Zenon
<1>5. RecordingTypes'
  BY <1>1, <1>2, <1>3 DEF RecordingInv, RecordingTypes
<1>6. \A n \in 0..(uploaded - 1) : storage[n] # NoPiece
  <2>1. ASSUME NEW n \in 0..(uploaded - 1) PROVE storage[n] # NoPiece
    <3>1. storage[n] = Piece(n, TRUE)
      BY <1>1, <2>1 DEF RecordingInv, TakeOK
    <3>2. n \in Int /\ RecordingTypes
      BY DEF RecordingInv
    <3>3. Piece(n, TRUE) # NoPiece
      BY <3>2, PieceTyped, Zenon
    <3> QED BY <3>1, <3>3
  <2> QED BY <2>1
<1>7. StorageOK'
  <2>1. \A n \in 0..(MaxSegment + 1) :
          storage'[n] # NoPiece => storage'[n] \in Pieces /\ storage'[n].whole = TRUE
    BY <1>2, <1>3, <1>4 DEF RecordingInv, StorageOK
  <2>2. ASSUME NEW n \in 0..(MaxSegment + 1), NEW m \in 0..n, storage'[n] # NoPiece
        PROVE  storage'[m] # NoPiece
    <3>1. m \in 0..(MaxSegment + 1)
      BY <1>2
    <3>2. CASE m = uploaded
      BY <1>3, <1>4, <3>2
    <3>3. CASE m # uploaded /\ n = uploaded
      BY <1>2, <1>3, <1>6, <3>1, <3>3
    <3>4. CASE m # uploaded /\ n # uploaded
      BY <1>3, <2>2, <3>1, <3>4 DEF RecordingInv, StorageOK
    <3> QED BY <3>2, <3>3, <3>4
  <2>3. storage'[MaxSegment + 1] = NoPiece
    BY <1>2, <1>3 DEF RecordingInv, StorageOK
  <2> QED BY <2>1, <2>2, <2>3 DEF StorageOK
<1>8. TakeOK'
  <2>1. Active' /\ (recorder' = "recording" => uploaded' <= newest')
    BY <1>1, <1>2 DEF Active
  <2>2. ASSUME NEW n \in 0..(uploaded' - 1) PROVE storage'[n] = Piece(n, TRUE)'
    <3>1. Piece(n, TRUE)' = Piece(n, TRUE)
      BY <1>1 DEF Piece
    <3>2. n \in 0..(MaxSegment + 1) /\ (n = uploaded \/ n \in 0..(uploaded - 1))
      BY <1>1, <1>2
    <3> QED BY <1>1, <1>3, <3>1, <3>2 DEF RecordingInv, TakeOK
  <2> QED BY <2>1, <2>2 DEF TakeOK
<1>9. JobOK'
  BY <1>1 DEF RecordingInv, RecordingTypes, JobOK, Active
<1> QED BY <1>5, <1>7, <1>8, <1>9 DEF RecordingInv

\* The live goes on, a take begins or ends.
LEMMA TakeKeepsRecording ==
  ASSUME RecordingInv,
         StartTake \/ SegmentGoesBy \/ LoseSource \/ LiveEnds \/ EndTake
  PROVE  RecordingInv'
<1> USE Bounds DEF RecordingInv
<1>1. UNCHANGED <<storage, lostPieces, job, nextFile, lines>>
  BY DEF StartTake, SegmentGoesBy, LoseSource, LiveEnds, EndTake, onAir, transcribing
<1>2. job = "none"
  BY DEF StartTake, SegmentGoesBy, LoseSource, LiveEnds, EndTake, JobOK
<1>3. StorageOK'
  BY <1>1 DEF StorageOK
<1>4. JobOK'
  BY <1>1, <1>2 DEF JobOK
<1>5. CASE StartTake
  BY <1>1, <1>3, <1>4, <1>5 DEF StartTake, onAir, RecordingTypes, TakeOK, Active
<1>6. CASE SegmentGoesBy
  <2>1. RecordingTypes'
    BY <1>1, <1>6 DEF SegmentGoesBy, RecordingTypes
  <2>2. UNCHANGED <<recorder, take, takeBegan, uploaded>>
        /\ newest' = IF recorder = "recording" THEN newest + 1 ELSE newest
    BY <1>6 DEF SegmentGoesBy
  <2>4. TakeOK'
    <3>1. recorder = "recording" => uploaded' <= newest'
      BY <2>2 DEF RecordingTypes, TakeOK
    <3>2. Active => \A n \in 0..(uploaded - 1) : storage[n] = Piece(n, TRUE)'
      BY <2>2 DEF TakeOK, Piece
    <3>3. take > 0 /\ ~Active =>
            \A n \in 0..newest : storage[n] = Piece(n, TRUE)' \/ Piece(n, TRUE)' \in lostPieces
      BY <2>2 DEF TakeOK, Piece
    <3>4. Active' = Active /\ (~Active => newest' = newest)
      BY <2>2 DEF Active
    <3> QED BY <1>1, <2>2, <3>1, <3>2, <3>3, <3>4 DEF TakeOK
  <2> QED BY <1>3, <1>4, <2>1, <2>4
<1>7. CASE LoseSource
  BY <1>1, <1>3, <1>4, <1>7 DEF LoseSource, onAir, RecordingTypes, TakeOK, Active, Piece
<1>8. CASE LiveEnds
  BY <1>1, <1>3, <1>4, <1>8 DEF LiveEnds, RecordingTypes, TakeOK, Active, Piece
<1>9. CASE EndTake
  BY <1>1, <1>3, <1>4, <1>9 DEF EndTake, onAir, RecordingTypes, TakeOK, Active, Piece
<1> QED BY <1>5, <1>6, <1>7, <1>8, <1>9

\* An upload fails or the worker dies: what is not uploaded is lost.
LEMMA LossKeepsRecording ==
  ASSUME RecordingInv, FailUpload \/ KillTake
  PROVE  RecordingInv'
<1> USE Bounds DEF RecordingInv
<1>1. /\ Active /\ recorder' \in {"off", "ended"}
      /\ lostPieces' = lostPieces \cup NotUploaded
      /\ UNCHANGED <<minute, aired, take, takeBegan, newest, uploaded, storage, job,
                     nextFile, lines>>
  BY DEF FailUpload, KillTake, Active, onAir, transcribing
<1>2. job = "none" /\ ~Active'
  BY <1>1 DEF JobOK, Active
<1>3. RecordingTypes' /\ StorageOK' /\ JobOK'
  BY <1>1, <1>2 DEF RecordingTypes, StorageOK, JobOK
<1>4. ASSUME NEW n \in 0..newest
      PROVE  storage[n] = Piece(n, TRUE) \/ Piece(n, TRUE) \in lostPieces'
  <2>1. n \in 0..(uploaded - 1) \/ n \in uploaded..newest
    BY DEF RecordingTypes
  <2> QED BY <1>1, <2>1 DEF TakeOK, NotUploaded
<1>5. TakeOK'
  <2>1. recorder' # "recording"
    BY <1>1
  <2>2. \A n \in 0..newest : storage[n] = Piece(n, TRUE)' \/ Piece(n, TRUE)' \in lostPieces'
    BY <1>1, <1>4 DEF Piece
  <2> QED BY <1>1, <1>2, <2>1, <2>2 DEF TakeOK
<1> QED BY <1>3, <1>5

\* The job changes nothing of what was recorded.
LEMMA JobKeepsRecording ==
  ASSUME RecordingInv,
         \/ StartTranscript \/ TranscribeFile \/ RetryRequest \/ FailTranscript
         \/ FinishTranscript
  PROVE  RecordingInv'
<1> USE Bounds DEF RecordingInv
<1>1. UNCHANGED <<minute, aired, recorder, take, takeBegan, newest, uploaded, storage,
                  lostPieces>>
  BY DEF StartTranscript, TranscribeFile, RetryRequest, FailTranscript, FinishTranscript,
         onAir, recording
<1>2. StorageOK' /\ TakeOK'
  BY <1>1 DEF StorageOK, TakeOK, Active, Piece
<1>3. recorder = "ended" /\ aired
  BY DEF StartTranscript, TranscribeFile, RetryRequest, FailTranscript, FinishTranscript,
         JobOK
<1>4. CASE StartTranscript
  BY <1>1, <1>2, <1>3, <1>4 DEF StartTranscript, RecordingTypes, JobOK
<1>5. CASE RetryRequest
  BY <1>1, <1>2, <1>3, <1>5 DEF RetryRequest, RecordingTypes, JobOK
<1>6. CASE FailTranscript
  BY <1>1, <1>2, <1>3, <1>6 DEF FailTranscript, RecordingTypes, JobOK
<1>7. CASE TranscribeFile
  <2>1. /\ job = "running" /\ job' = job /\ storage[nextFile] # NoPiece
        /\ lines' = lines \cup {[at |-> nextFile, piece |-> storage[nextFile]]}
        /\ nextFile' = nextFile + 1
    BY <1>7 DEF TranscribeFile, Shift
  <2>2. MaxSegment \in Nat /\ nextFile \in 0..MaxSegment
    BY <2>1 DEF RecordingTypes, StorageOK
  <2>3. RecordingTypes'
    BY <1>1, <2>1, <2>2 DEF RecordingTypes
  <2>4. 0..(nextFile' - 1) = 0..(nextFile - 1) \cup {nextFile}
    BY <2>1, <2>2
  <2>5. lines' = {[at |-> n, piece |-> storage[n]] : n \in 0..(nextFile' - 1)}
    BY <2>1, <2>4 DEF JobOK
  <2>6. \A n \in 0..(nextFile' - 1) : storage[n] # NoPiece
    BY <2>1, <2>4 DEF JobOK
  <2> QED BY <1>1, <1>2, <1>3, <2>1, <2>3, <2>5, <2>6 DEF JobOK
<1>8. CASE FinishTranscript
  <2>1. /\ job = "running" /\ job' = "done" /\ storage[nextFile] = NoPiece
        /\ lines' = lines /\ nextFile' = 0
    BY <1>8 DEF FinishTranscript
  <2>2. MaxSegment \in Nat /\ nextFile \in 0..(MaxSegment + 1)
    BY DEF RecordingTypes
  <2>3. {k \in 0..(MaxSegment + 1) : storage[k] # NoPiece} = 0..(nextFile - 1)
    <3>1. ASSUME NEW k \in 0..(MaxSegment + 1), storage[k] # NoPiece
          PROVE  k \in 0..(nextFile - 1)
      BY <2>1, <2>2, <3>1 DEF StorageOK
    <3>2. ASSUME NEW k \in 0..(nextFile - 1)
          PROVE  k \in 0..(MaxSegment + 1) /\ storage[k] # NoPiece
      BY <2>1, <2>2 DEF JobOK
    <3> QED BY <3>1, <3>2
  <2>4. RecordingTypes'
    BY <1>1, <2>1, <2>2 DEF RecordingTypes
  <2> QED BY <1>1, <1>2, <1>3, <2>1, <2>3, <2>4 DEF JobOK
<1> QED BY <1>4, <1>5, <1>6, <1>7, <1>8

LEMMA RecordingStep == ASSUME RecordingInv, [RecordingNext]_recordingVars PROVE RecordingInv'
<1>1. CASE UNCHANGED recordingVars
  BY <1>1 DEF recordingVars, onAir, recording, transcribing, RecordingInv, RecordingTypes,
     StorageOK, TakeOK, JobOK, Active, Piece
<1> QED
  BY <1>1, StoreKeepsRecording, TakeKeepsRecording, LossKeepsRecording, JobKeepsRecording
     DEF RecordingNext

\* Each file of a take that is over is stored whole or is known to be lost, and the
\* transcript is of what is stored (_upload_segments, process_stream).
THEOREM RecordingKept == RecordingSpec => []SoundKept
<1>1. RecordingInv => SoundKept
  BY DEF RecordingInv, RecordingTypes, StorageOK, TakeOK, JobOK, Active, SoundKept
<1>2. RecordingInit => RecordingInv
  BY RecordingStarts
<1>3. RecordingInv /\ [RecordingNext]_recordingVars => RecordingInv'
  BY RecordingStep
<1> QED BY <1>1, <1>2, <1>3, PTL DEF RecordingSpec

---------------------------------------------------------------------------
(* The regions of a file, for any spans of speech.                         *)
(*                                                                         *)
(* The list built so far is tight: it leaves out less than a pause before  *)
(* each of its regions (Tight).  One step appends one or two of them       *)
(* (TightAppend, PauseFills).                                              *)

Times == 0..FileSeconds

RegionRows == [from : Times, to : Times, speech : BOOLEAN]

\* What the detector found, which no step changes.
SpansOK ==
  /\ spans \in Seq(Times \X Times)
  /\ \A i \in 1..Len(spans) : spans[i][1] < spans[i][2]
  /\ \A i \in 1..(Len(spans) - 1) : spans[i][2] <= spans[i + 1][1]

\* The joined spans are in order, end where the last span read ends, and hold every
\* span read.
MergedOK ==
  /\ cutting \in {"merge", "classify", "done"} /\ joined \in 0..Len(spans)
  /\ merged \in Seq(Times \X Times)
  /\ \A k \in 1..Len(merged) : merged[k][1] < merged[k][2]
  /\ \A k \in 1..(Len(merged) - 1) : merged[k][2] <= merged[k + 1][1]
  /\ Len(merged) > 0 => joined > 0 /\ merged[Len(merged)][2] = spans[joined][2]
  /\ \A i \in 1..joined : \E k \in 1..Len(merged) :
       merged[k][1] <= spans[i][1] /\ spans[i][2] <= merged[k][2]
  /\ cutting # "merge" => joined = Len(spans)

\* Regions in order, with less than a pause before each of them.
EndOf(rs) == IF Len(rs) = 0 THEN 0 ELSE rs[Len(rs)].to

Tight(rs) ==
  /\ rs \in Seq(RegionRows)
  /\ \A k \in 1..Len(rs) : rs[k].from < rs[k].to
  /\ Len(rs) > 0 => rs[1].from < MinNonspeech
  /\ \A k \in 1..(Len(rs) - 1) : rs[k + 1].from - rs[k].to \in 0..(MinNonspeech - 1)

\* Regions cover the file tightly as far as the cursor, and hold the spans placed.
PlacedOK ==
  /\ Tight(regions)
  /\ placed \in 0..Len(merged)
  /\ cutting = "merge" => placed = 0
  /\ reached = IF placed = 0 THEN 0 ELSE merged[placed][2]
  /\ \A k \in 1..placed : \E j \in 1..Len(regions) :
       regions[j] = Region(merged[k][1], merged[k][2], TRUE)
  /\ cutting # "done" => EndOf(regions) = reached
  /\ cutting = "done" => /\ placed = Len(merged)
                         /\ FileSeconds - EndOf(regions) \in 0..(MinNonspeech - 1)

RegionsInv == SpansOK /\ MergedOK /\ PlacedOK

LEMMA RegionsNumbers ==
  MergeGap \in Nat /\ FileSeconds \in Nat /\ MinNonspeech \in Nat /\ MinNonspeech > 0
BY RegionsAssumption

\* One more region, less than a pause after the last.
LEMMA TightAppend ==
  ASSUME NEW rs, Tight(rs), NEW r \in RegionRows, r.from < r.to,
         r.from - EndOf(rs) \in 0..(MinNonspeech - 1)
  PROVE  Tight(Append(rs, r)) /\ EndOf(Append(rs, r)) = r.to
<1> DEFINE n == Len(rs)
           s == Append(rs, r)
<1>1. rs \in Seq(RegionRows) /\ n \in Nat
  BY DEF Tight
<1>2. s \in Seq(RegionRows) /\ Len(s) = n + 1 /\ s[n + 1] = r
      /\ \A k \in 1..n : s[k] = rs[k]
  BY <1>1
<1>3. r.from \in Nat /\ r.to \in Nat
  BY RegionsNumbers DEF RegionRows, Times
<1>4. \A k \in 1..(n + 1) : s[k].from < s[k].to
  BY <1>1, <1>2 DEF Tight
<1>5. s[1].from < MinNonspeech
  BY <1>1, <1>2, <1>3, RegionsNumbers DEF Tight, EndOf
<1>6. \A k \in 1..n : s[k + 1].from - s[k].to \in 0..(MinNonspeech - 1)
  <2>1. ASSUME NEW k \in 1..n PROVE s[k + 1].from - s[k].to \in 0..(MinNonspeech - 1)
    <3>1. CASE k = n
      BY <1>1, <1>2, <3>1 DEF EndOf
    <3>2. CASE k # n
      <4>1. k \in 1..(n - 1) /\ k + 1 \in 1..n
        BY <1>1, <3>2
      <4> QED BY <1>2, <4>1 DEF Tight
    <3> QED BY <3>1, <3>2
  <2> QED BY <2>1
<1>7. Tight(s)
  BY <1>1, <1>2, <1>4, <1>5, <1>6 DEF Tight
<1> QED BY <1>1, <1>2, <1>7 DEF EndOf

\* What the loop appends between two times leaves less than a pause open.
LEMMA PauseFills ==
  ASSUME Tight(regions), NEW a \in Times, NEW b \in Times, a <= b, EndOf(regions) = a
  PROVE  /\ Tight(WithPause(a, b))
         /\ b - EndOf(WithPause(a, b)) \in 0..(MinNonspeech - 1)
         /\ Len(regions) \in Nat /\ Len(WithPause(a, b)) \in Nat
         /\ Len(regions) <= Len(WithPause(a, b))
         /\ \A k \in 1..Len(regions) : WithPause(a, b)[k] = regions[k]
<1> USE RegionsNumbers
<1>1. regions \in Seq(RegionRows) /\ Len(regions) \in Nat
  BY DEF Tight
<1>2. CASE b - a >= MinNonspeech
  <2> DEFINE r == Region(a, b, FALSE)
  <2>1. r \in RegionRows /\ r.from = a /\ r.to = b /\ a < b
    BY <1>2 DEF Region, RegionRows, Times
  <2>3. WithPause(a, b) = Append(regions, r)
    BY <1>2 DEF WithPause
  <2> HIDE DEF r
  <2>2. r.from - EndOf(regions) \in 0..(MinNonspeech - 1)
    BY <2>1 DEF Times
  <2>4. Tight(Append(regions, r)) /\ EndOf(Append(regions, r)) = b
    BY <2>1, <2>2, TightAppend
  <2>5. Len(Append(regions, r)) = Len(regions) + 1
        /\ \A k \in 1..Len(regions) : Append(regions, r)[k] = regions[k]
    BY <1>1, <2>1
  <2>6. b - b \in 0..(MinNonspeech - 1)
    BY DEF Times
  <2> QED BY <1>1, <2>3, <2>4, <2>5, <2>6
<1>3. CASE ~(b - a >= MinNonspeech)
  <2>1. WithPause(a, b) = regions
    BY <1>3 DEF WithPause
  <2>2. b - a \in 0..(MinNonspeech - 1)
    BY <1>3 DEF Times
  <2> QED BY <1>1, <2>1, <2>2
<1> QED BY <1>2, <1>3

LEMMA RegionsStart == ASSUME RegionsInit PROVE RegionsInv
<1> USE RegionsNumbers
<1>1. SpansOK
  <2>1. PICK n \in 0..MaxSpans : spans \in [1..n -> Times \X Times]
    BY DEF RegionsInit, Spans, Times
  <2>2. n \in Nat
    BY <2>1, RegionsAssumption
  <2>3. spans \in Seq(Times \X Times)
    BY <2>1, <2>2
  <2> QED BY <2>3 DEF RegionsInit, Spans, SpansOK
<1>2. MergedOK
  BY <1>1 DEF RegionsInit, MergedOK, SpansOK
<1>3. PlacedOK
  BY DEF RegionsInit, PlacedOK, Tight, EndOf
<1> QED BY <1>1, <1>2, <1>3 DEF RegionsInv

\* While spans are joined none is placed.
LEMMA NothingPlaced ==
  ASSUME PlacedOK, cutting = "merge", UNCHANGED <<cutting, placed, reached, regions>>,
         Len(merged') \in Nat
  PROVE  PlacedOK'
<1>1. placed = 0 /\ reached = 0 /\ placed' = 0 /\ reached' = 0 /\ cutting' = "merge"
      /\ Tight(regions) /\ EndOf(regions) = reached /\ regions' = regions
  BY DEF PlacedOK
<1>2. placed' \in 0..Len(merged') /\ 1..placed' = {}
  BY <1>1
<1>3. Tight(regions') /\ EndOf(regions') = reached'
  BY <1>1
<1> QED BY <1>1, <1>2, <1>3 DEF PlacedOK

LEMMA MergeKeepsRegions == ASSUME RegionsInv, MergeSpan PROVE RegionsInv'
<1> USE RegionsNumbers
<1> DEFINE span == spans[joined + 1]
           n == Len(merged)
<1>1. /\ cutting = "merge" /\ joined < Len(spans) /\ joined' = joined + 1
      /\ UNCHANGED <<cutting, spans, placed, reached, regions>>
      /\ merged' = IF Near(span) THEN [merged EXCEPT ![n] = <<@[1], Later(@[2], span[2])>>]
                   ELSE Append(merged, span)
  BY DEF MergeSpan
<1>2. SpansOK /\ MergedOK /\ PlacedOK
  BY DEF RegionsInv
<1>3. /\ Len(spans) \in Nat /\ joined \in Nat /\ joined + 1 \in 1..Len(spans)
      /\ merged \in Seq(Times \X Times) /\ n \in Nat
  BY <1>1, <1>2 DEF SpansOK, MergedOK
<1>4. span \in Times \X Times /\ span[1] < span[2] /\ span[1] \in Nat /\ span[2] \in Nat
  BY <1>2, <1>3 DEF SpansOK, Times
<1>5. ASSUME n > 0
      PROVE  /\ merged[n] \in Times \X Times /\ merged[n][1] \in Nat /\ merged[n][2] \in Nat
             /\ merged[n][1] < merged[n][2] /\ merged[n][2] <= span[1]
  <2>1. n \in 1..n
    BY <1>3, <1>5
  <2>2. merged[n] \in Times \X Times /\ merged[n][1] < merged[n][2]
    BY <1>2, <1>3, <2>1 DEF MergedOK
  <2>3. joined > 0 /\ merged[n][2] = spans[joined][2]
    BY <1>2, <1>5 DEF MergedOK
  <2>4. joined \in 1..(Len(spans) - 1)
    BY <1>3, <2>3
  <2>5. spans[joined][2] <= span[1]
    BY <1>2, <2>4 DEF SpansOK
  <2> QED BY <2>2, <2>3, <2>5 DEF Times
<1>6. SpansOK'
  BY <1>1, <1>2 DEF SpansOK
<1>7. CASE Near(span)
  <2> DEFINE p == <<merged[n][1], span[2]>>
  <2>1. n > 0 /\ n \in 1..n
    BY <1>3, <1>7 DEF Near
  <2>2. Later(merged[n][2], span[2]) = span[2]
    BY <1>4, <1>5, <2>1 DEF Later
  <2>3. merged' = [merged EXCEPT ![n] = p]
    BY <1>1, <1>7, <2>2
  <2>4. p \in Times \X Times /\ p[1] = merged[n][1] /\ p[2] = span[2] /\ p[1] < p[2]
        /\ p[1] <= span[1] /\ merged[n][2] <= p[2]
    BY <1>4, <1>5, <2>1
  <2> HIDE DEF p
  <2>5. merged' \in Seq(Times \X Times) /\ Len(merged') = n /\ merged'[n] = p
        /\ \A k \in 1..n : k # n => merged'[k] = merged[k]
    BY <1>3, <2>1, <2>3, <2>4
  <2>6. \A k \in 1..n : merged'[k][1] < merged'[k][2]
    BY <1>2, <2>4, <2>5 DEF MergedOK
  <2>7. \A k \in 1..(n - 1) : merged'[k][2] <= merged'[k + 1][1]
    <3>1. ASSUME NEW k \in 1..(n - 1) PROVE merged'[k][2] <= merged'[k + 1][1]
      <4>1. k \in 1..n /\ k # n /\ k + 1 \in 1..n
        BY <1>3
      <4>2. merged[k][2] <= merged[k + 1][1] /\ merged'[k] = merged[k]
        BY <1>2, <2>5, <4>1 DEF MergedOK
      <4>3. merged'[k + 1][1] = merged[k + 1][1]
        BY <2>4, <2>5, <4>1
      <4> QED BY <4>2, <4>3
    <3> QED BY <3>1
  <2>8. ASSUME NEW i \in 1..(joined + 1)
        PROVE  \E k \in 1..n : merged'[k][1] <= spans[i][1] /\ spans[i][2] <= merged'[k][2]
    <3>1. CASE i = joined + 1
      BY <1>4, <2>1, <2>4, <2>5, <3>1
    <3>2. CASE i # joined + 1
      <4>1. i \in 1..joined /\ i \in 1..Len(spans)
        BY <1>3, <3>2
      <4>2. PICK k \in 1..n : merged[k][1] <= spans[i][1] /\ spans[i][2] <= merged[k][2]
        BY <1>2, <4>1 DEF MergedOK
      <4>3. CASE k # n
        BY <2>5, <4>2, <4>3
      <4>4. CASE k = n
        <5>1. spans[i][1] \in Nat /\ spans[i][2] \in Nat
          BY <1>2, <4>1 DEF SpansOK, Times
        <5> QED BY <1>4, <1>5, <2>1, <2>4, <2>5, <4>2, <4>4, <5>1
      <4> QED BY <4>3, <4>4
    <3> QED BY <3>1, <3>2
  <2>9. MergedOK'
    <3>1. cutting' = "merge" /\ joined' \in 0..Len(spans') /\ spans' = spans
      BY <1>1, <1>3
    <3>2. joined' > 0 /\ merged'[n][2] = spans'[joined'][2]
      BY <1>1, <1>3, <2>4, <2>5
    <3>3. \A i \in 1..joined' : \E k \in 1..Len(merged') :
            merged'[k][1] <= spans'[i][1] /\ spans'[i][2] <= merged'[k][2]
      BY <1>1, <2>5, <2>8
    <3> QED BY <2>5, <2>6, <2>7, <3>1, <3>2, <3>3 DEF MergedOK
  <2>10. PlacedOK'
    BY <1>1, <1>2, <1>3, <2>5, NothingPlaced
  <2> QED BY <1>6, <2>9, <2>10 DEF RegionsInv
<1>8. CASE ~Near(span)
  <2>1. merged' = Append(merged, span)
    BY <1>1, <1>8
  <2>2. merged' \in Seq(Times \X Times) /\ Len(merged') = n + 1 /\ merged'[n + 1] = span
        /\ \A k \in 1..n : merged'[k] = merged[k]
    BY <1>3, <1>4, <2>1
  <2>3. ASSUME NEW k \in 1..(n + 1) PROVE merged'[k][1] < merged'[k][2]
    <3>1. CASE k = n + 1
      BY <1>4, <2>2, <3>1
    <3>2. CASE k # n + 1
      <4>1. k \in 1..n
        BY <1>3, <3>2
      <4> QED BY <1>2, <2>2, <4>1 DEF MergedOK
    <3> QED BY <3>1, <3>2
  <2>4. \A k \in 1..n : merged'[k][2] <= merged'[k + 1][1]
    <3>1. ASSUME NEW k \in 1..n PROVE merged'[k][2] <= merged'[k + 1][1]
      <4>1. CASE k = n
        BY <1>3, <1>5, <2>2, <4>1
      <4>2. CASE k # n
        <5>1. k \in 1..(n - 1) /\ k + 1 \in 1..n
          BY <1>3, <4>2
        <5> QED BY <1>2, <2>2, <5>1 DEF MergedOK
      <4> QED BY <4>1, <4>2
    <3> QED BY <3>1
  <2>5. ASSUME NEW i \in 1..(joined + 1)
        PROVE  \E k \in 1..(n + 1) :
                 merged'[k][1] <= spans[i][1] /\ spans[i][2] <= merged'[k][2]
    <3>1. CASE i = joined + 1
      <4>1. n + 1 \in 1..(n + 1) /\ merged'[n + 1] = spans[i]
        BY <1>3, <2>2, <3>1
      <4>2. spans[i][1] \in Nat /\ spans[i][2] \in Nat
        BY <1>4, <3>1
      <4> QED BY <4>1, <4>2
    <3>2. CASE i # joined + 1
      <4>1. i \in 1..joined
        BY <1>3, <3>2
      <4>2. PICK k \in 1..n : merged[k][1] <= spans[i][1] /\ spans[i][2] <= merged[k][2]
        BY <1>2, <4>1 DEF MergedOK
      <4>3. k \in 1..(n + 1) /\ merged'[k] = merged[k]
        BY <1>3, <2>2, <4>2
      <4> QED BY <4>2, <4>3
    <3> QED BY <3>1, <3>2
  <2>6. MergedOK'
    <3>1. cutting' = "merge" /\ joined' \in 0..Len(spans') /\ spans' = spans
      BY <1>1, <1>3
    <3>2. joined' > 0 /\ merged'[n + 1][2] = spans'[joined'][2]
      BY <1>1, <1>3, <2>2
    <3>3. \A k \in 1..(Len(merged') - 1) : merged'[k][2] <= merged'[k + 1][1]
      <4>1. Len(merged') - 1 = n
        BY <1>3, <2>2
      <4> QED BY <2>4, <4>1
    <3>4. \A i \in 1..joined' : \E k \in 1..Len(merged') :
            merged'[k][1] <= spans'[i][1] /\ spans'[i][2] <= merged'[k][2]
      BY <1>1, <2>2, <2>5
    <3> QED BY <2>2, <2>3, <3>1, <3>2, <3>3, <3>4 DEF MergedOK
  <2>7. PlacedOK'
    BY <1>1, <1>2, <1>3, <2>2, NothingPlaced
  <2> QED BY <1>6, <2>6, <2>7 DEF RegionsInv
<1> QED BY <1>7, <1>8

LEMMA PlaceKeepsRegions == ASSUME RegionsInv, PlaceSpan PROVE RegionsInv'
<1> USE RegionsNumbers
<1> DEFINE span == merged[placed + 1]
           ws == WithPause(reached, span[1])
           r == Region(span[1], span[2], TRUE)
<1>1. /\ cutting = "classify" /\ placed < Len(merged) /\ placed' = placed + 1
      /\ reached' = span[2] /\ regions' = Append(ws, r)
      /\ UNCHANGED <<cutting, spans, joined, merged>>
  BY DEF PlaceSpan
<1>2. SpansOK /\ MergedOK /\ PlacedOK
  BY DEF RegionsInv
<1>3. /\ Len(merged) \in Nat /\ placed \in Nat /\ placed + 1 \in 1..Len(merged)
      /\ merged \in Seq(Times \X Times)
  BY <1>1, <1>2 DEF MergedOK, PlacedOK
<1>4. span \in Times \X Times /\ span[1] < span[2] /\ span[1] \in Times /\ span[2] \in Times
  BY <1>2, <1>3 DEF MergedOK
<1>5. reached \in Times /\ reached <= span[1]
  <2>1. CASE placed = 0
    BY <1>2, <1>4, <2>1 DEF PlacedOK, Times
  <2>2. CASE placed # 0
    <3>1. placed \in 1..(Len(merged) - 1) /\ placed \in 1..Len(merged)
      BY <1>3, <2>2
    <3>2. reached = merged[placed][2] /\ merged[placed] \in Times \X Times
      BY <1>2, <1>3, <2>2, <3>1 DEF PlacedOK
    <3>3. merged[placed][2] <= span[1]
      BY <1>2, <3>1 DEF MergedOK
    <3> QED BY <3>2, <3>3
  <2> QED BY <2>1, <2>2
<1>6. EndOf(regions) = reached /\ Tight(regions)
  BY <1>1, <1>2 DEF PlacedOK
<1>7. /\ Tight(ws) /\ span[1] - EndOf(ws) \in 0..(MinNonspeech - 1)
      /\ Len(regions) \in Nat /\ Len(ws) \in Nat /\ Len(regions) <= Len(ws)
      /\ \A k \in 1..Len(regions) : ws[k] = regions[k]
  BY <1>4, <1>5, <1>6, PauseFills
<1>8. r \in RegionRows /\ r.from = span[1] /\ r.to = span[2]
  BY <1>4 DEF Region, RegionRows
<1> HIDE DEF ws, r
<1>9. Tight(regions') /\ EndOf(regions') = span[2]
  BY <1>1, <1>4, <1>7, <1>8, TightAppend
<1>10. Len(regions') = Len(ws) + 1 /\ regions'[Len(ws) + 1] = r
       /\ \A k \in 1..Len(ws) : regions'[k] = ws[k]
  <2>1. ws \in Seq(RegionRows)
    BY <1>7 DEF Tight
  <2> QED BY <1>1, <1>8, <2>1
<1>11. ASSUME NEW k \in 1..(placed + 1)
       PROVE  \E j \in 1..Len(regions') : regions'[j] = Region(merged[k][1], merged[k][2], TRUE)
  <2>1. CASE k = placed + 1
    <3>1. Len(regions') \in 1..Len(regions') /\ regions'[Len(regions')] = r
      BY <1>7, <1>10
    <3> QED BY <2>1, <3>1 DEF r
  <2>2. CASE k # placed + 1
    <3>1. k \in 1..placed
      BY <1>3, <2>2
    <3>2. PICK j \in 1..Len(regions) : regions[j] = Region(merged[k][1], merged[k][2], TRUE)
      BY <1>2, <3>1 DEF PlacedOK
    <3>3. j \in 1..Len(ws) /\ j \in 1..Len(regions')
      BY <1>7, <1>10, <3>2
    <3>4. regions'[j] = regions[j]
      BY <1>7, <1>10, <3>2, <3>3
    <3> QED BY <3>2, <3>3, <3>4
  <2> QED BY <2>1, <2>2
<1>12. PlacedOK'
  BY <1>1, <1>3, <1>9, <1>11 DEF PlacedOK, Region
<1>13. SpansOK' /\ MergedOK'
  BY <1>1, <1>2 DEF SpansOK, MergedOK
<1> QED BY <1>12, <1>13 DEF RegionsInv

LEMMA EndKeepsRegions == ASSUME RegionsInv, EndRegions PROVE RegionsInv'
<1> USE RegionsNumbers
<1> DEFINE ws == WithPause(reached, FileSeconds)
<1>1. /\ cutting = "classify" /\ placed = Len(merged) /\ regions' = ws /\ cutting' = "done"
      /\ UNCHANGED <<spans, joined, merged, placed, reached>>
  BY DEF EndRegions
<1>2. SpansOK /\ MergedOK /\ PlacedOK
  BY DEF RegionsInv
<1>3. merged \in Seq(Times \X Times) /\ Len(merged) \in Nat /\ placed \in 0..Len(merged)
  BY <1>2 DEF MergedOK, PlacedOK
<1>4. reached \in Times
  <2>1. CASE placed = 0
    BY <1>2, <2>1 DEF PlacedOK, Times
  <2>2. CASE placed # 0
    <3>1. placed \in 1..Len(merged)
      BY <1>3, <2>2
    <3> QED BY <1>2, <1>3, <2>2, <3>1 DEF PlacedOK
  <2> QED BY <2>1, <2>2
<1>5. EndOf(regions) = reached /\ Tight(regions) /\ FileSeconds \in Times /\ reached <= FileSeconds
  BY <1>1, <1>2, <1>4 DEF PlacedOK, Times
<1>6. /\ Tight(ws) /\ FileSeconds - EndOf(ws) \in 0..(MinNonspeech - 1)
      /\ Len(regions) \in Nat /\ Len(ws) \in Nat /\ Len(regions) <= Len(ws)
      /\ \A k \in 1..Len(regions) : ws[k] = regions[k]
  BY <1>4, <1>5, PauseFills
<1> HIDE DEF ws
<1>7. ASSUME NEW k \in 1..placed
      PROVE  \E j \in 1..Len(ws) : ws[j] = Region(merged[k][1], merged[k][2], TRUE)
  <2>1. PICK j \in 1..Len(regions) : regions[j] = Region(merged[k][1], merged[k][2], TRUE)
    BY <1>2 DEF PlacedOK
  <2>2. j \in 1..Len(ws)
    BY <1>6, <2>1
  <2>3. ws[j] = regions[j]
    BY <1>6, <2>1, Zenon
  <2> QED BY <2>1, <2>2, <2>3
<1>8. PlacedOK'
  BY <1>1, <1>2, <1>6, <1>7 DEF PlacedOK, Region
<1>9. SpansOK' /\ MergedOK'
  BY <1>1, <1>2 DEF SpansOK, MergedOK
<1> QED BY <1>8, <1>9 DEF RegionsInv

LEMMA RegionsStep == ASSUME RegionsInv, [RegionsNext]_cutVars PROVE RegionsInv'
<1>1. CASE AllMerged
  BY <1>1 DEF AllMerged, RegionsInv, SpansOK, MergedOK, PlacedOK, Region
<1>2. CASE UNCHANGED cutVars
  BY <1>2 DEF cutVars, RegionsInv, SpansOK, MergedOK, PlacedOK, Region
<1> QED
  BY <1>1, <1>2, MergeKeepsRegions, PlaceKeepsRegions, EndKeepsRegions DEF RegionsNext

\* Every span of speech found is inside a region sent to be transcribed, and only
\* pauses too short to count are in none (merge_speech_spans, classify_regions).
THEOREM EverySpanTranscribed == RegionsSpec => []SpeechKept
<1>1. RegionsInv => SpeechKept
  <2> SUFFICES ASSUME RegionsInv, cutting = "done"
      PROVE  /\ \A i \in 1..Len(spans) : \E k \in 1..Len(regions) :
                  /\ regions[k].speech
                  /\ regions[k].from <= spans[i][1] /\ spans[i][2] <= regions[k].to
             /\ \A k \in 1..Len(regions) : regions[k].from < regions[k].to
             /\ \A i \in 0..Len(regions) : From(i + 1) - To(i) \in 0..(MinNonspeech - 1)
    BY DEF SpeechKept
  <2>0. MergedOK /\ PlacedOK /\ Tight(regions)
    BY DEF RegionsInv, PlacedOK
  <2>1. MergedOK /\ PlacedOK /\ Tight(regions) /\ Len(regions) \in Nat
    <3>1. regions \in Seq(RegionRows)
      BY <2>0 DEF Tight
    <3> QED BY <2>0, <3>1
  <2>2. ASSUME NEW i \in 1..Len(spans)
        PROVE  \E k \in 1..Len(regions) :
                 /\ regions[k].speech
                 /\ regions[k].from <= spans[i][1] /\ spans[i][2] <= regions[k].to
    <3>1. i \in 1..joined
      BY <2>1 DEF MergedOK
    <3>2. PICK m \in 1..Len(merged) :
            merged[m][1] <= spans[i][1] /\ spans[i][2] <= merged[m][2]
      BY <2>1, <3>1 DEF MergedOK
    <3>3. PICK k \in 1..Len(regions) : regions[k] = Region(merged[m][1], merged[m][2], TRUE)
      BY <2>1, <3>2 DEF PlacedOK
    <3> QED BY <3>2, <3>3 DEF Region
  <2>3. ASSUME NEW i \in 0..Len(regions)
        PROVE  From(i + 1) - To(i) \in 0..(MinNonspeech - 1)
    <3>1. CASE i = Len(regions)
      BY <2>1, <3>1 DEF PlacedOK, From, To, EndOf
    <3>2. CASE i < Len(regions) /\ i = 0
      <4>1. 1 \in 1..Len(regions) /\ regions[1].from < MinNonspeech /\ regions \in Seq(RegionRows)
        BY <2>1, <3>2 DEF Tight
      <4>2. regions[1].from \in Nat
        <5>1. regions[1] \in RegionRows
          BY <4>1
        <5> QED BY <5>1, RegionsNumbers DEF RegionRows, Times
      <4> QED BY <2>1, <3>2, <4>1, <4>2, RegionsNumbers DEF From, To
    <3>3. CASE i < Len(regions) /\ i # 0
      BY <2>1, <3>3 DEF Tight, From, To
    <3> QED BY <2>1, <3>1, <3>2, <3>3
  <2> QED BY <2>1, <2>2, <2>3 DEF Tight
<1>2. RegionsInit => RegionsInv
  BY RegionsStart
<1>3. RegionsInv /\ [RegionsNext]_cutVars => RegionsInv'
  BY RegionsStep
<1> QED BY <1>1, <1>2, <1>3, PTL DEF RegionsSpec

---------------------------------------------------------------------------
(* How often a notification can be taken, for any messages, any number of    *)
(* handler processes and any clocks.  The argument is SpacedOK: the row of a *)
(* claim stays until the window is over by the database's clock, and the     *)
(* next claim is later than that, so the time a row bears counts the claims. *)

USE DEF Locations, AtWork, table, hand, wire

\* What is in hand can be counted.
LEMMA HandsCounted ==
  ASSUME NEW m
  PROVE  IsFiniteSet(Hands(m)) /\ Cardinality(Hands(m)) \in Nat
<1>1. Hands(m) \in SUBSET Handlers
  BY DEF Hands
<1>2. IsFiniteSet(Hands(m))
  BY <1>1, HandlersAssumption, FS_Subset
<1> QED BY <1>2, FS_CardinalityType

LEMMA HandsCountedAfter ==
  ASSUME NEW m
  PROVE  IsFiniteSet(Hands(m)') /\ Cardinality(Hands(m)') \in Nat
<1>1. Hands(m)' \in SUBSET Handlers
  BY DEF Hands
<1>2. IsFiniteSet(Hands(m)')
  BY <1>1, HandlersAssumption, FS_Subset
<1> QED BY <1>2, FS_CardinalityType

\* A message taken once has been handled or is in somebody's hands.
LEMMA TakenWasSent ==
  ASSUME TypeOK, TimesOK, NEW m \in Messages, Takes(m) > 0
  PROVE  m \in sent
<1>1. CASE handled[m] > 0
  BY <1>1 DEF TimesOK
<1>2. CASE ~(handled[m] > 0)
  <2>1. handled[m] = 0
    BY <1>2 DEF TypeOK
  <2>2. Cardinality(Hands(m)) # 0
    BY <2>1, HandsCounted DEF Takes
  <2>3. Hands(m) # {}
    BY <2>2, FS_EmptySet
  <2> QED BY <2>3 DEF Hands, TimesOK
<1> QED BY <1>1, <1>2

\* The arithmetic of one claim more.
LEMMA OneWindowMore ==
  ASSUME NEW n \in Nat
  PROVE  /\ n * (DedupTTL + DbAhead + 1)
              = (n - 1) * (DedupTTL + DbAhead + 1) + (DedupTTL + DbAhead + 1)
         /\ (n - 1) * (DedupTTL + DbAhead + 1) \in Int
         /\ DedupTTL + DbAhead + 1 \in Nat
<1>1. DedupTTL + DbAhead + 1 \in Nat
  BY ClocksAssumption
<1>2. \A k \in Nat, w \in Nat : k * w = (k - 1) * w + w /\ (k - 1) * w \in Int
  OBVIOUS
<1> QED BY <1>1, <1>2

\* Who has as often been taken, by rows and clocks that only grow older, is as
\* well spaced as before.
LEMMA StaysSpaced ==
  ASSUME InboxInv, NEW m \in Messages, Takes(m)' = Takes(m), Takes(m) > 0,
         sentAt'[m] = sentAt[m], receivedAt'[m] = receivedAt[m],
         now' \in Nat, now' >= now,
         m \in rows' \/ m \notin rows \/ now > receivedAt[m] + DedupTTL
  PROVE  Spaced(m)'
<1>1. Spaced(m)
  BY DEF InboxInv, SpacedOK
<1>2. m \in rows' \/ now' > receivedAt[m] + DedupTTL
  BY <1>1, ClocksAssumption DEF Spaced, InboxInv, TypeOK
<1> QED BY <1>1, <1>2 DEF Spaced

\* A step that takes and lets go of nothing.
LEMMA NothingTaken ==
  ASSUME UNCHANGED handled,
         \A h \in Handlers : /\ pc'[h] \in AtWork <=> pc[h] \in AtWork
                             /\ pc[h] \in AtWork => msg'[h] = msg[h]
  PROVE  \A m \in Messages : Takes(m)' = Takes(m)
<1>1. \A m \in Messages : Hands(m)' = Hands(m)
  BY DEF Hands
<1> QED BY <1>1 DEF Takes

\* The invariant holds of the empty inbox.
LEMMA InboxInit == ASSUME Init PROVE InboxInv
<1>1. TypeOK /\ TimesOK /\ TableIsAWindow
  BY MessagesAssumption DEF Init, TypeOK, TimesOK, TableIsAWindow
<1>2. \A m \in Messages : Takes(m) = 0
  <2>1. \A m \in Messages : Hands(m) = {} /\ handled[m] = 0
    BY DEF Init, Hands
  <2> QED BY <2>1, FS_EmptySet DEF Takes
<1> QED BY <1>1, <1>2 DEF InboxInv, SpacedOK

\* Time only makes messages older.
LEMMA TickInbox == ASSUME InboxInv, Tick PROVE InboxInv'
<1> USE MessagesAssumption, ClocksAssumption DEF InboxInv, Tick
<1>1. TypeOK' BY DEF TypeOK
<1>2. TimesOK' BY DEF TypeOK, TimesOK
<1>3. \A m \in Messages : Takes(m)' = Takes(m)
  BY NothingTaken
<1>4. SpacedOK'
  BY <1>3, StaysSpaced DEF SpacedOK, TypeOK
<1>5. TableIsAWindow' BY DEF TableIsAWindow
<1> QED BY <1>1, <1>2, <1>4, <1>5

\* A message not sent before has not been taken.
LEMMA SendInbox == ASSUME InboxInv, NEW m \in Messages, Send(m) PROVE InboxInv'
<1> USE MessagesAssumption, ClocksAssumption DEF InboxInv, Send
<1>1. TypeOK' BY DEF TypeOK
<1>2. TimesOK' BY DEF TypeOK, TimesOK
<1>3. \A n \in Messages : Takes(n)' = Takes(n)
  BY NothingTaken
<1>4. SpacedOK'
  <2>1. ASSUME NEW n \in Messages, Takes(n)' > 0 PROVE Spaced(n)'
    <3>1. Takes(n) > 0
      BY <1>3, <2>1
    <3>2. n # m
      BY <3>1, TakenWasSent
    <3> QED BY <1>3, <3>1, <3>2, StaysSpaced DEF TypeOK
  <2> QED BY <2>1 DEF SpacedOK
<1>5. TableIsAWindow' BY DEF TableIsAWindow
<1> QED BY <1>1, <1>2, <1>4, <1>5

\* A message whose age is fine gets into the hands of an idle process.
LEMMA ReceiveInbox ==
  ASSUME InboxInv, NEW h \in Handlers, NEW m \in Messages, Receive(h, m)
  PROVE  InboxInv'
<1> USE MessagesAssumption, ClocksAssumption DEF InboxInv, Receive
<1>1. TypeOK' BY DEF TypeOK
<1>2. TimesOK' BY DEF TypeOK, TimesOK, Fresh
<1>3. \A g \in Handlers : /\ pc'[g] \in AtWork <=> pc[g] \in AtWork
                          /\ pc[g] \in AtWork => msg'[g] = msg[g]
  BY DEF TypeOK
<1>4. \A n \in Messages : Takes(n)' = Takes(n)
  BY <1>3, NothingTaken
<1>5. SpacedOK' BY <1>4, StaysSpaced DEF SpacedOK, TypeOK
<1>6. TableIsAWindow' BY DEF TableIsAWindow
<1> QED BY <1>1, <1>2, <1>5, <1>6

\* A claim comes after the windows of all the claims before it.
LEMMA ClaimInbox ==
  ASSUME InboxInv, NEW h \in Handlers, Claim(h)
  PROVE  InboxInv'
<1> USE MessagesAssumption, ClocksAssumption
<1>0. PICK m \in Messages : m = msg[h]
  BY DEF InboxInv, TypeOK
<1>1. m \in sent /\ receivedAt[m] \in Int /\ sentAt[m] \in Int
  BY <1>0 DEF Claim, InboxInv, TypeOK, TimesOK
<1>2. TypeOK' BY <1>0, <1>1 DEF Claim, InboxInv, TypeOK, Kept
<1>3. TimesOK' BY <1>0, <1>1 DEF Claim, InboxInv, TypeOK, TimesOK, Kept
<1>4. /\ Hands(m)' = Hands(m) \cup {h} /\ h \notin Hands(m)
      /\ \A n \in Messages \ {m} : Hands(n)' = Hands(n)
      /\ handled' = handled
  BY <1>0, <1>1 DEF Claim, InboxInv, TypeOK, Hands
<1>5. Takes(m)' = Takes(m) + 1 /\ Takes(m) \in Nat
  <2>1. Cardinality(Hands(m)') = Cardinality(Hands(m)) + 1
    BY <1>4, HandsCounted, FS_AddElement
  <2>2. handled[m] \in Nat /\ Cardinality(Hands(m)) \in Nat
    BY <1>0, <1>1, HandsCounted DEF InboxInv, TypeOK
  <2> QED BY <1>0, <1>4, <2>1, <2>2 DEF Takes
<1>6. Spaced(m)'
  <2>1. /\ receivedAt'[m] = now + DbAhead /\ sentAt'[m] = sentAt[m] /\ m \in rows'
        /\ now <= sentAt[m] + MaxAge + MaxDelay /\ sentAt[m] <= now + SenderAhead
        /\ now \in Nat
    BY <1>0, <1>1 DEF Claim, InboxInv, TypeOK, TimesOK
  <2>2. sentAt[m] - SenderAhead + Takes(m) * (DedupTTL + DbAhead + 1) <= now
    <3>1. CASE Takes(m) = 0
      <4>1. 0 * (DedupTTL + DbAhead + 1) = 0
        OBVIOUS
      <4> QED BY <1>0, <1>1, <2>1, <3>1, <4>1
    <3>2. CASE Takes(m) > 0
      <4>1. Spaced(m)
        BY <1>0, <1>1, <3>2 DEF InboxInv, SpacedOK
      <4>2. now > receivedAt[m] + DedupTTL
        BY <1>0, <1>1, <2>1, <4>1 DEF Spaced, Claim, Kept
      <4>3. receivedAt[m] - DbAhead + (DedupTTL + DbAhead + 1) <= now
        BY <1>0, <1>1, <2>1, <4>2
      <4>4. sentAt[m] - SenderAhead + (Takes(m) - 1) * (DedupTTL + DbAhead + 1)
              <= receivedAt[m] - DbAhead
        BY <4>1 DEF Spaced
      <4>5. PICK p \in Int, w \in Nat : /\ w = DedupTTL + DbAhead + 1
                                      /\ p = (Takes(m) - 1) * (DedupTTL + DbAhead + 1)
                                      /\ Takes(m) * (DedupTTL + DbAhead + 1) = p + w
        BY <1>5, OneWindowMore
      <4> QED BY <1>1, <2>1, <4>3, <4>4, <4>5
    <3> QED BY <1>5, <3>1, <3>2
  <2>3. Takes(m)' - 1 = Takes(m)
    BY <1>5
  <2> QED BY <1>0, <1>1, <2>1, <2>2, <2>3 DEF Spaced
<1>7. SpacedOK'
  <2>1. ASSUME NEW n \in Messages, n # m, Takes(n)' > 0 PROVE Spaced(n)'
    <3>1. Takes(n)' = Takes(n)
      BY <1>4, <2>1 DEF Takes
    <3>2. /\ sentAt'[n] = sentAt[n] /\ receivedAt'[n] = receivedAt[n]
          /\ now' = now /\ now \in Nat
          /\ n \in rows' \/ n \notin rows \/ now > receivedAt[n] + DedupTTL
      BY <1>0, <1>1, <2>1 DEF Claim, Kept, InboxInv, TypeOK
    <3> QED BY <2>1, <3>1, <3>2, StaysSpaced
  <2> QED BY <1>6, <2>1 DEF SpacedOK
<1>8. TableIsAWindow'
  BY <1>0, <1>1 DEF Claim, InboxInv, TypeOK, TimesOK, TableIsAWindow, Kept
<1> QED BY <1>2, <1>3, <1>7, <1>8 DEF InboxInv

\* A duplicate only prunes.
LEMMA DuplicateInbox ==
  ASSUME InboxInv, NEW h \in Handlers, Duplicate(h)
  PROVE  InboxInv'
<1> USE MessagesAssumption, ClocksAssumption
<1>1. TypeOK' BY DEF Duplicate, InboxInv, TypeOK, Kept
<1>2. TimesOK' BY DEF Duplicate, InboxInv, TypeOK, TimesOK, Kept
<1>3. \A g \in Handlers : (pc'[g] \in AtWork <=> pc[g] \in AtWork) /\ msg' = msg
  BY DEF Duplicate, InboxInv, TypeOK
<1>4. \A n \in Messages : Takes(n)' = Takes(n)
  BY <1>3, NothingTaken DEF Duplicate
<1>5. SpacedOK'
  <2>1. ASSUME NEW n \in Messages, Takes(n)' > 0 PROVE Spaced(n)'
    <3>1. /\ sentAt'[n] = sentAt[n] /\ receivedAt'[n] = receivedAt[n]
          /\ now' = now /\ now \in Nat
          /\ n \in rows' \/ n \notin rows \/ now > receivedAt[n] + DedupTTL
      BY DEF Duplicate, Kept, InboxInv, TypeOK
    <3> QED BY <1>4, <2>1, <3>1, StaysSpaced
  <2> QED BY <2>1 DEF SpacedOK
<1>6. TableIsAWindow'
  BY DEF Duplicate, InboxInv, TableIsAWindow, Kept
<1> QED BY <1>1, <1>2, <1>5, <1>6 DEF InboxInv

\* A process at work stays at work on the message it has.
LEMMA ReadInbox ==
  ASSUME InboxInv, NEW h \in Handlers, Read(h) PROVE InboxInv'
<1> USE MessagesAssumption, ClocksAssumption DEF InboxInv, Read
<1>1. TypeOK' BY DEF TypeOK
<1>2. TimesOK' BY DEF TypeOK, TimesOK
<1>3. \A g \in Handlers : pc'[g] \in AtWork <=> pc[g] \in AtWork
  BY DEF TypeOK
<1>4. \A n \in Messages : Takes(n)' = Takes(n)
  BY <1>3, NothingTaken
<1>5. SpacedOK' BY <1>4, StaysSpaced DEF SpacedOK, TypeOK
<1>6. TableIsAWindow' BY DEF TableIsAWindow
<1> QED BY <1>1, <1>2, <1>5, <1>6

\* The message leaves the hands it was in and is handled once more.
LEMMA CommitInbox ==
  ASSUME InboxInv, NEW h \in Handlers, Commit(h) PROVE InboxInv'
<1> USE MessagesAssumption, ClocksAssumption
<1>0. PICK m \in Messages : m = msg[h]
  BY DEF InboxInv, TypeOK
<1>1. m \in sent /\ handled[m] \in Nat
  BY <1>0 DEF Commit, InboxInv, TypeOK, TimesOK
<1>2. TypeOK'
  <2>1. ~known[h] => UserOf[m] \in Users
    BY <1>0 DEF Commit, InboxInv, TypeOK
  <2> QED BY <1>0, <1>1, <2>1 DEF Commit, InboxInv, TypeOK
<1>3. TimesOK' BY <1>0, <1>1 DEF Commit, InboxInv, TypeOK, TimesOK
<1>4. \A n \in Messages : Takes(n)' = Takes(n)
  <2>1. Hands(m)' = Hands(m) \ {h} /\ h \in Hands(m) /\ handled'[m] = handled[m] + 1
    BY <1>0, <1>1 DEF Commit, InboxInv, TypeOK, Hands
  <2>2. Cardinality(Hands(m)') = Cardinality(Hands(m)) - 1
    BY <2>1, HandsCounted, FS_RemoveElement
  <2>3. \A n \in Messages \ {m} : Hands(n)' = Hands(n) /\ handled'[n] = handled[n]
    BY <1>0 DEF Commit, InboxInv, TypeOK, Hands
  <2>4. Takes(m)' = Takes(m)
    BY <1>0, <1>1, <2>1, <2>2, HandsCounted DEF Takes
  <2> QED BY <2>3, <2>4 DEF Takes
<1>5. SpacedOK'
  BY <1>4, StaysSpaced DEF SpacedOK, Commit, InboxInv, TypeOK
<1>6. TableIsAWindow' BY DEF Commit, InboxInv, TableIsAWindow
<1> QED BY <1>2, <1>3, <1>5, <1>6 DEF InboxInv

\* A process that gives up or dies only lets its message go.
LEMMA LetGoInbox ==
  ASSUME InboxInv, NEW h \in Handlers, GiveUp(h) \/ Crash(h) PROVE InboxInv'
<1> USE MessagesAssumption, ClocksAssumption
<1>a. PICK m \in Messages : m = msg[h]
  BY DEF InboxInv, TypeOK
<1>0. /\ UNCHANGED <<now, sentAt, sent, rows, receivedAt, handled, msg>>
      /\ pc' = [pc EXCEPT ![h] = "idle"]
  BY DEF GiveUp, Crash, InboxInv, TypeOK
<1>1. TypeOK' BY DEF GiveUp, Crash, InboxInv, TypeOK
<1>2. TimesOK' BY DEF GiveUp, Crash, InboxInv, TypeOK, TimesOK
<1>3. /\ \A n \in Messages \ {m} : Takes(n)' = Takes(n)
      /\ Takes(m)' = Takes(m) \/ Takes(m)' = Takes(m) - 1
      /\ Takes(m)' \in Nat /\ Takes(m) \in Nat
  <2>1. /\ Hands(m)' = Hands(m) \ {h}
        /\ \A n \in Messages \ {m} : Hands(n)' = Hands(n)
    BY <1>a, <1>0 DEF InboxInv, TypeOK, Hands
  <2>2. \/ Cardinality(Hands(m)') = Cardinality(Hands(m)) - 1
        \/ Cardinality(Hands(m)') = Cardinality(Hands(m))
    BY <2>1, HandsCounted, FS_RemoveElement
  <2>3. handled[m] \in Nat /\ handled' = handled
    BY <1>a, <1>0 DEF InboxInv, TypeOK
  <2>4. \A n \in Messages \ {m} : Takes(n)' = Takes(n)
    BY <2>1, <2>3 DEF Takes
  <2>5. Cardinality(Hands(m)') \in Nat /\ Cardinality(Hands(m)) \in Nat
    BY HandsCounted, HandsCountedAfter
  <2>6. Takes(m)' = handled[m] + Cardinality(Hands(m)')
    BY <2>3 DEF Takes
  <2>7. Takes(m) = handled[m] + Cardinality(Hands(m))
    BY DEF Takes
  <2> QED BY <2>2, <2>3, <2>4, <2>5, <2>6, <2>7
<1>4. SpacedOK'
  <2>1. ASSUME NEW n \in Messages, Takes(n)' > 0 PROVE Spaced(n)'
    <3>1. CASE Takes(n)' = Takes(n)
      BY <1>a, <1>0, <2>1, <3>1, StaysSpaced DEF InboxInv, TypeOK
    <3>2. CASE n = m /\ Takes(m)' = Takes(m) - 1
      <4>1. Takes(m) > 0 /\ Takes(m) - 1 \in Nat
        BY <1>3, <2>1, <3>2
      <4>2. Spaced(m)
        BY <1>a, <1>0, <4>1 DEF InboxInv, SpacedOK
      <4>3. /\ sentAt[m] \in Int /\ receivedAt[m] \in Int
        BY <1>a, <1>0 DEF InboxInv, TypeOK
      <4>4. (Takes(m)' - 1) * (DedupTTL + DbAhead + 1)
              <= (Takes(m) - 1) * (DedupTTL + DbAhead + 1)
        BY <1>3, <3>2, <4>1, OneWindowMore
      <4> QED
        BY <1>a, <1>0, <1>3, <3>2, <4>1, <4>2, <4>3, <4>4, OneWindowMore DEF Spaced
    <3> QED BY <1>3, <3>1, <3>2
  <2> QED BY <2>1 DEF SpacedOK
<1>5. TableIsAWindow' BY <1>a, <1>0 DEF InboxInv, TableIsAWindow
<1> QED BY <1>1, <1>2, <1>4, <1>5 DEF InboxInv

\* The sync writes followers alone, and so does nobody who waits.
LEMMA SyncInbox ==
  ASSUME InboxInv,
         \/ \E u \in Users : SyncInsert(u)
         \/ UNCHANGED vars
  PROVE  InboxInv'
<1>1. UNCHANGED <<now, wire, table, handled, answered, dropped, hand>>
  BY DEF SyncInsert, vars
<1>2. TypeOK'
  BY DEF InboxInv, TypeOK, SyncInsert, vars
<1>3. \A n \in Messages : Takes(n)' = Takes(n)
  BY <1>1, NothingTaken
<1>4. SpacedOK'
  BY <1>1, <1>3, StaysSpaced DEF SpacedOK, InboxInv, TypeOK
<1> QED BY <1>1, <1>2, <1>4 DEF InboxInv, TimesOK, TableIsAWindow

\* Every step keeps the invariant.
LEMMA NextInbox ==
  ASSUME InboxInv, [Next]_vars PROVE InboxInv'
<1>1. CASE Tick BY <1>1, TickInbox
<1>2. CASE \E m \in Messages : Send(m) BY <1>2, SendInbox
<1>3. CASE \E h \in Handlers : Handle(h)
  <2>1. PICK h \in Handlers : Handle(h) BY <1>3
  <2> QED BY <2>1, ReceiveInbox, ClaimInbox, DuplicateInbox, ReadInbox,
          CommitInbox, LetGoInbox DEF Handle
<1>4. CASE (\E u \in Users : SyncInsert(u)) \/ UNCHANGED vars
  BY <1>4, SyncInbox
<1> QED BY <1>1, <1>2, <1>3, <1>4 DEF Next

\* The invariant of the inbox (claim_message and eventsub_callback) holds for
\* every number of messages and handlers, and however the clocks differ.
THEOREM InboxInvariant == Spec => []InboxInv
<1>1. Init => InboxInv BY InboxInit
<1>2. InboxInv /\ [Next]_vars => InboxInv' BY NextInbox
<1> QED BY <1>1, <1>2, PTL DEF Spec

\* Twitch's retries (apps/api/eventsub.py) take a notification once more only when
\* a whole window is over by the database's clock, and none is taken later than the
\* age check and the delays allow: what is in hand or committed is counted by both.
THEOREM RetriesAreSpaced == Spec => []RepeatsSpaced
<1>1. InboxInv => RepeatsSpaced
  <2> SUFFICES ASSUME InboxInv, NEW m \in Messages
               PROVE  (Takes(m) - 1) * (DedupTTL + DbAhead + 1)
                        <= SenderAhead + MaxAge + MaxDelay
    BY DEF RepeatsSpaced
  <2>1. Takes(m) \in Nat
    BY HandsCounted DEF Takes, InboxInv, TypeOK
  <2>2. (Takes(m) - 1) * (DedupTTL + DbAhead + 1) \in Int
    BY <2>1, OneWindowMore
  <2>3. CASE Takes(m) > 0
    <3>1. Spaced(m) /\ sentAt[m] \in Int /\ receivedAt[m] \in Int
      BY <2>3 DEF InboxInv, SpacedOK, TypeOK
    <3> QED BY <2>2, <3>1, ClocksAssumption DEF Spaced
  <2>4. CASE Takes(m) = 0
    <3>1. (Takes(m) - 1) * (DedupTTL + DbAhead + 1) = 0 - (DedupTTL + DbAhead + 1)
      BY <2>4, ClocksAssumption
    <3> QED BY <3>1, ClocksAssumption
  <2> QED BY <2>1, <2>3, <2>4
<1> QED BY <1>1, InboxInvariant, PTL

\* The rows that a claim leaves beside its own are young, for it prunes as it
\* inserts (claim_message): no two are further apart than the time they are kept.
THEOREM RowsAreAWindow == Spec => []TableIsAWindow
<1>1. InboxInv => TableIsAWindow BY DEF InboxInv
<1> QED BY <1>1, InboxInvariant, PTL

---------------------------------------------------------------------------
(* What becomes of a message that was claimed, whatever the clocks say. *)

AccountedFor(m) ==
  \/ handled[m] > 0
  \/ m \in dropped
  \/ \E h \in Handlers : pc[h] \in AtWork /\ msg[h] = m

HandTypes ==
  /\ handled \in [Messages -> Nat]
  /\ rows \subseteq Messages /\ answered \subseteq Messages
  /\ pc \in [Handlers -> Locations] /\ msg \in [Handlers -> Messages]

\* Each row of the table is accounted for, and so is all that was answered.
AccountInv ==
  /\ HandTypes
  /\ \A m \in rows \cup answered : AccountedFor(m)

\* What is handled once more is handled, and the rest keep their counts.
LEMMA HandledOnceMore ==
  ASSUME NEW f \in [Messages -> Nat], NEW m \in Messages
  PROVE  /\ [f EXCEPT ![m] = @ + 1] \in [Messages -> Nat]
         /\ [f EXCEPT ![m] = @ + 1][m] > 0
         /\ \A n \in Messages : f[n] > 0 => [f EXCEPT ![m] = @ + 1][n] > 0
<1>1. f[m] \in Nat /\ f[m] + 1 \in Nat /\ f[m] + 1 > 0 OBVIOUS
<1> QED BY <1>1

\* A handler's step keeps a message accounted for, and accounts for its own.
LEMMA HandleAccounts ==
  ASSUME AccountInv, NEW h \in Handlers, Handle(h) PROVE AccountInv'
<1> USE DEF AccountInv, HandTypes
<1>0. PICK m \in Messages : m = msg[h]
  OBVIOUS
<1>1. ASSUME NEW n \in Messages, Receive(h, n) PROVE AccountInv'
  <2>1. \A k \in Messages : AccountedFor(k) => AccountedFor(k)'
    BY <1>1 DEF Receive, AccountedFor
  <2> QED BY <1>1, <2>1 DEF Receive
<1>2. CASE Claim(h)
  <2>1. AccountedFor(m)'
    BY <1>0, <1>2 DEF Claim, AccountedFor
  <2>2. \A n \in Messages : AccountedFor(n) => AccountedFor(n)'
    BY <1>0, <1>2 DEF Claim, AccountedFor
  <2>3. rows' \subseteq rows \cup {m} /\ answered' = answered
    BY <1>0, <1>2 DEF Claim, Kept
  <2>4. HandTypes'
    BY <1>2, <2>3 DEF Claim
  <2> QED BY <2>1, <2>2, <2>3, <2>4
<1>3. CASE Duplicate(h)
  <2>1. \A n \in Messages : AccountedFor(n) => AccountedFor(n)'
    BY <1>0, <1>3 DEF Duplicate, AccountedFor
  <2>2. rows' \subseteq rows /\ m \in rows /\ answered' \subseteq answered \cup {m}
    BY <1>0, <1>3 DEF Duplicate, Kept
  <2>3. HandTypes'
    BY <1>3, <2>2 DEF Duplicate
  <2> QED BY <2>1, <2>2, <2>3
<1>4. CASE Read(h)
  <2>1. \A n \in Messages : AccountedFor(n) => AccountedFor(n)'
    BY <1>4 DEF Read, AccountedFor
  <2> QED BY <1>4, <2>1 DEF Read
<1>5. CASE Commit(h)
  <2>1. handled' = [handled EXCEPT ![m] = @ + 1]
    BY <1>0, <1>5 DEF Commit
  <2>2. /\ handled' \in [Messages -> Nat] /\ handled'[m] > 0
        /\ \A n \in Messages : handled[n] > 0 => handled'[n] > 0
    BY <2>1, HandledOnceMore
  <2>3. \A n \in Messages : AccountedFor(n) => AccountedFor(n)'
    BY <1>0, <1>5, <2>2 DEF Commit, AccountedFor
  <2>4. AccountedFor(m)'
    BY <2>2 DEF AccountedFor
  <2>5. rows' = rows /\ answered' \subseteq answered \cup {m}
    BY <1>0, <1>5 DEF Commit
  <2>6. HandTypes'
    BY <1>5, <2>2, <2>5 DEF Commit
  <2> QED BY <2>3, <2>4, <2>5, <2>6
<1>6. CASE GiveUp(h)
  <2>1. \A n \in Messages : AccountedFor(n) => AccountedFor(n)'
    BY <1>6 DEF GiveUp, AccountedFor
  <2> QED BY <1>6, <2>1 DEF GiveUp
<1>7. CASE Crash(h)
  <2>1. \A n \in Messages : AccountedFor(n) => AccountedFor(n)'
    BY <1>7 DEF Crash, AccountedFor
  <2> QED BY <1>7, <2>1 DEF Crash
<1> QED BY <1>1, <1>2, <1>3, <1>4, <1>5, <1>6, <1>7 DEF Handle

\* Twitch is told that a message is dealt with only if it was, is being, or was
\* given up after its claim (eventsub_callback), at any age.
THEOREM AnswersAccountedFor == Spec => []AnsweredAccountedFor
<1>1. Init => AccountInv
  BY MessagesAssumption DEF Init, AccountInv, HandTypes, Locations
<1>2. ASSUME AccountInv, [Next]_vars PROVE AccountInv'
  <2>1. CASE \E h \in Handlers : Handle(h)
    BY <1>2, <2>1, HandleAccounts
  <2>2. CASE \/ Tick \/ UNCHANGED vars
             \/ \E m \in Messages : Send(m)
             \/ \E u \in Users : SyncInsert(u)
    BY <1>2, <2>2 DEF Tick, Send, SyncInsert, vars, AccountInv, HandTypes, AccountedFor
  <2> QED BY <1>2, <2>1, <2>2 DEF Next
<1>3. AccountInv => AnsweredAccountedFor
  BY DEF AccountInv, HandTypes, AccountedFor, AnsweredAccountedFor
<1> QED BY <1>1, <1>2, <1>3, PTL DEF Spec
===========================================================================
