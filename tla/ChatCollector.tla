--------------------------- MODULE ChatCollector ---------------------------
(***************************************************************************)
(* The chat of a live (class ChatCollector of workers/capture/collectors.py*)
(* with core/irc.py and clip_detector.py): read from IRC into a buffer by  *)
(* the event loop, written to the database by a thread every two seconds   *)
(* and once more when the live ends, and clipped where it spikes.          *)
(*                                                                         *)
(* Messages are numbered as they are said; parsing one is left out.  A     *)
(* session is a ChatCollector: a worker that dies comes back with a new    *)
(* one.  The chat of a month goes to a partition of its own, which a flush *)
(* creates in its transaction: one month stands for all.  A list is        *)
(* swapped or appended to in one step, as CPython's lock makes sure.       *)
(***************************************************************************)
EXTENDS Integers, FiniteSets

CONSTANTS
  MaxClips,     \* MAX_CLIPS_PER_STREAM
  MaxMessages,  \* bound: messages said
  MaxSeconds,   \* bound: seconds of connection
  MaxTrouble    \* bound: errors of the database and of Twitch, deaths

ASSUME ChatAssumption == {MaxClips, MaxMessages, MaxSeconds, MaxTrouble} \subseteq Nat

VARIABLES
  session,    \* "on", "stopping" (the stop event is set), "over" or "dead"
  irc,        \* "connecting", "joined", "waiting" (to reconnect) or "closed"
  spell,      \* seconds since the loop of _consume_irc last turned
  gap,        \* stats["gap_seconds"]
  away,       \* seconds no chat was heard
  said,       \* messages said in the chat
  heard,      \* those that reached the collector
  buffer,     \* _buffer
  flusher,    \* the flush loop: "waiting", "writing" or "ended"
  batch,      \* what it writes; the thread outlives its loop
  closing,    \* the last flush: "no", "writing" or "done"
  lastBatch,  \* what that writes
  ensured,    \* BOOLEAN: the month is in _ensured_months
  partition,  \* BOOLEAN: its partition is in the database
  chatRows,   \* [1..MaxMessages -> Nat]  rows of chat_messages
  unsaved,    \* messages heard and never to be stored
  clips,      \* the detector's count
  cooling,    \* BOOLEAN: COOLDOWN_SECONDS have not passed since
  clipping,   \* clip tasks at work
  made,       \* clips made on Twitch
  trouble

connection == <<irc, spell, gap, away>>
flushing == <<flusher, batch, closing, lastBatch, ensured, partition, chatRows>>
clipper == <<clips, cooling, clipping, made>>
chat == <<said, heard>>
chatVars == <<session, connection, chat, buffer, flushing, unsaved, clipper, trouble>>

Trouble == trouble < MaxTrouble /\ trouble' = trouble + 1

---------------------------------------------------------------------------
ChatInit ==
  /\ session = "on"
  /\ irc = "connecting" /\ spell = 0 /\ gap = 0 /\ away = 0
  /\ said = 0 /\ heard = {} /\ buffer = {}
  /\ flusher = "waiting" /\ batch = {}
  /\ closing = "no" /\ lastBatch = {}
  /\ ensured = FALSE /\ partition \in BOOLEAN
  /\ chatRows = [m \in 1..MaxMessages |-> 0]
  /\ unsaved = {}
  /\ clips = 0 /\ cooling = FALSE /\ clipping = 0 /\ made = 0
  /\ trouble = 0

\* A second of the live.
Second ==
  /\ session = "on" /\ spell < MaxSeconds
  /\ away < MaxSeconds
  /\ spell' = spell + 1
  /\ away'  = IF irc = "joined" THEN away ELSE away + 1
  /\ UNCHANGED <<session, irc, gap, chat, buffer, flushing, unsaved, clipper, trouble>>

\* _read_connection opens the connection and joins.
Join ==
  /\ session = "on" /\ irc = "connecting"
  /\ irc' = "joined"
  /\ UNCHANGED <<session, spell, gap, away, chat, buffer, flushing, unsaved,
                 clipper, trouble>>

\* Half a minute of silence: it is closed and opened anew.
FallSilent ==
  /\ session = "on" /\ irc = "joined"
  /\ irc' = "connecting" /\ spell' = 0
  /\ UNCHANGED <<session, gap, away, chat, buffer, flushing, unsaved, clipper, trouble>>

\* The connection fails or is closed.  What has passed since the loop turned is
\* counted as a gap, with the second the loop now sleeps.
Disconnected ==
  /\ session \in {"on", "stopping"} /\ irc \in {"connecting", "joined"}
  /\ Trouble
  /\ irc' = "waiting" /\ spell' = 0
  /\ gap' = gap + spell + 1
  /\ UNCHANGED <<session, away, chat, buffer, flushing, unsaved, clipper>>

Reconnect ==
  /\ session = "on" /\ irc = "waiting" /\ spell = 1
  /\ irc' = "connecting" /\ spell' = 0
  /\ UNCHANGED <<session, gap, away, chat, buffer, flushing, unsaved, clipper, trouble>>

\* should_clip, of a spike.
MayClip == clips < MaxClips /\ ~cooling

\* mark_clipped, and the task.
Clip ==
  /\ clips' = clips + 1 /\ cooling' = TRUE
  /\ clipping' = clipping + 1
  /\ UNCHANGED made

\* A message is heard, or said to nobody; a heard one may make a spike, which is
\* marked before the clip is asked for.
Say ==
  /\ session \in {"on", "stopping"} /\ said < MaxMessages
  /\ said' = said + 1
  /\ IF irc = "joined"
     THEN /\ heard'  = heard \cup {said + 1}
          /\ buffer' = buffer \cup {said + 1}
          /\ \/ UNCHANGED clipper
             \/ MayClip /\ Clip
     ELSE UNCHANGED <<heard, buffer, clipper>>
  /\ UNCHANGED <<session, connection, flushing, unsaved, trouble>>

CoolDown ==
  /\ cooling /\ cooling' = FALSE
  /\ UNCHANGED <<session, connection, chat, buffer, flushing, unsaved, clips,
                 clipping, made, trouble>>

\* _create_and_store_clip: Twitch makes the clip, or anything fails.
CreateClip ==
  /\ clipping > 0 /\ clipping' = clipping - 1
  /\ \/ made' = made + 1 /\ UNCHANGED trouble
     \/ Trouble /\ UNCHANGED made
  /\ UNCHANGED <<session, connection, chat, buffer, flushing, unsaved, clips,
                 cooling>>

\* Seeded fault: the buffer is emptied when the batch is written.
Flush_ClearsLater ==
  /\ session \in {"on", "stopping"} /\ flusher = "waiting" /\ buffer # {}
  /\ flusher' = "writing"
  /\ batch'   = buffer
  /\ UNCHANGED <<session, connection, chat, buffer, closing, lastBatch, ensured, partition,
                 chatRows, unsaved, clipper, trouble>>

\* _flush_loop, two seconds later: the thread takes the buffer.
Flush ==
  /\ session \in {"on", "stopping"} /\ flusher = "waiting" /\ buffer # {}
  /\ flusher' = "writing"
  /\ batch'   = buffer
  /\ buffer'  = {}
  /\ UNCHANGED <<session, connection, chat, closing, lastBatch, ensured, partition,
                 chatRows, unsaved, clipper, trouble>>

\* The partition is there, or the transaction creates it.
CanInsert == partition \/ ~ensured

Written(messages) ==
  [m \in 1..MaxMessages |-> chatRows[m] + (IF m \in messages THEN 1 ELSE 0)]

\* The thread commits its batch, with the partition.
CommitBatch ==
  /\ batch # {} /\ CanInsert
  /\ partition' = TRUE /\ ensured' = TRUE
  /\ chatRows' = Written(batch)
  /\ batch' = {}
  /\ flusher' = IF flusher = "writing" THEN "waiting" ELSE flusher
  /\ UNCHANGED <<session, connection, chat, buffer, closing, lastBatch, unsaved,
                 clipper, trouble>>

\* The database fails, or has no such partition: the batch is gone, and the loop
\* with it.  The month stays in _ensured_months once its partition was asked for.
LoseBatch ==
  /\ batch # {}
  /\ IF CanInsert THEN Trouble ELSE UNCHANGED trouble
  /\ ensured' \in {ensured, TRUE}
  /\ unsaved' = unsaved \cup batch
  /\ batch' = {}
  /\ flusher' = "ended"
  /\ UNCHANGED <<session, connection, chat, buffer, closing, lastBatch, partition,
                 chatRows, clipper>>

\* The live has ended.
Stop ==
  /\ session = "on"
  /\ session' = "stopping"
  /\ UNCHANGED <<connection, chat, buffer, flushing, unsaved, clipper, trouble>>

\* The reader sees it; the flush loop is cancelled, its thread is not, and what
\* is left in the buffer is taken.
LastFlush ==
  /\ session = "stopping" /\ closing = "no"
  /\ irc' = "closed"
  /\ flusher' = "ended"
  /\ closing' = "writing"
  /\ lastBatch' = buffer /\ buffer' = {}
  /\ UNCHANGED <<session, spell, gap, away, chat, batch, ensured, partition,
                 chatRows, unsaved, clipper, trouble>>

CommitLast ==
  /\ closing = "writing"
  /\ lastBatch # {} => CanInsert
  /\ IF lastBatch = {} THEN UNCHANGED <<partition, ensured>>
                       ELSE partition' = TRUE /\ ensured' = TRUE
  /\ chatRows' = Written(lastBatch)
  /\ closing' = "done" /\ lastBatch' = {}
  /\ UNCHANGED <<session, connection, chat, buffer, flusher, batch, unsaved,
                 clipper, trouble>>

LoseLast ==
  /\ closing = "writing" /\ lastBatch # {}
  /\ IF CanInsert THEN Trouble ELSE UNCHANGED trouble
  /\ unsaved' = unsaved \cup lastBatch
  /\ closing' = "done" /\ lastBatch' = {} /\ ensured' \in {ensured, TRUE}
  /\ UNCHANGED <<session, connection, chat, buffer, flusher, batch, partition,
                 chatRows, clipper>>

\* Another live, or the start of the month's first flush elsewhere, makes the
\* partition.
PartitionElsewhere ==
  /\ ~partition /\ partition' = TRUE
  /\ UNCHANGED <<session, connection, chat, buffer, flusher, batch, closing,
                 lastBatch, ensured, chatRows, unsaved, clipper, trouble>>

\* stop_and_finalize goes on to _finalize.
Finalized ==
  /\ session = "stopping" /\ closing = "done"
  /\ session' = "over"
  /\ UNCHANGED <<connection, chat, buffer, flushing, unsaved, clipper, trouble>>

\* The worker dies, with what it has not committed.
Die ==
  /\ session \in {"on", "stopping"} /\ Trouble
  /\ session' = "dead"
  /\ irc' = "closed"
  /\ unsaved' = unsaved \cup buffer \cup batch \cup lastBatch
  /\ buffer' = {} /\ batch' = {} /\ lastBatch' = {}
  /\ flusher' = "ended" /\ closing' = "no"
  /\ clipping' = 0
  /\ UNCHANGED <<spell, gap, away, chat, ensured, partition, chatRows, clips,
                 cooling, made>>

\* ... and picks the live up again with a collector that remembers nothing.
Resume ==
  /\ session = "dead"
  /\ session' = "on"
  /\ irc' = "connecting" /\ spell' = 0 /\ gap' = 0 /\ away' = 0
  /\ flusher' = "waiting" /\ ensured' = FALSE
  /\ clips' = 0 /\ cooling' = FALSE
  /\ UNCHANGED <<chat, buffer, batch, closing, lastBatch, partition, chatRows,
                 unsaved, clipping, made, trouble>>

ChatNext ==
  \/ Second \/ Join \/ FallSilent \/ Disconnected \/ Reconnect
  \/ Say \/ CoolDown \/ CreateClip
  \/ Flush \/ CommitBatch \/ LoseBatch
  \/ Stop \/ LastFlush \/ CommitLast \/ LoseLast \/ PartitionElsewhere \/ Finalized
  \/ Die \/ Resume

ChatSpec == ChatInit /\ [][ChatNext]_chatVars
---------------------------------------------------------------------------
In(m, messages) == IF m \in messages THEN 1 ELSE 0

\* Each message heard is in one place and one only, whatever fails and whoever
\* dies: in the buffer, with one of the two threads that write, on the table, or
\* gone with a failed flush or a dead worker.  A live that has ended without such
\* trouble has stored what it heard, but for a batch the cancelled flush loop left
\* to its thread.
ChatAccounted ==
  /\ \A m \in 1..MaxMessages :
       In(m, buffer) + In(m, batch) + In(m, lastBatch) + In(m, unsaved) + chatRows[m]
         = In(m, heard)
  /\ session = "over" => buffer = {} /\ lastBatch = {}
  /\ trouble = 0 => unsaved = {}

\* What is said of the clips: "a cooldown and a per-stream cap" (clip_detector.py),
\* "com cooldown e teto por stream" (ARCHITECTURE.md).
ClipsPerStream == made + clipping <= MaxClips

\* "chat had {n} disconnect(s), ~{seconds}s lost" (apps/web/src/locales/en.ts, of
\* stats["gap_seconds"]): once joined again, no more than the time away is counted.
GapIsTimeAway == irc = "joined" => gap <= away
===========================================================================
