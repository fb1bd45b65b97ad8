----------------------------- MODULE Recording -----------------------------
(***************************************************************************)
(* The sound of a live, from the recorder (class AudioRecorder of          *)
(* workers/capture/collectors.py) through the object storage to its        *)
(* transcript (workers/transcribe/pipeline.py).                            *)
(*                                                                         *)
(* ffmpeg cuts what it hears in files of AUDIO_SEGMENT_SECONDS, numbered   *)
(* from 0 in a work directory; the number is all that says when in the     *)
(* live a file was heard.  Time goes in such segments, and a piece is what *)
(* was heard in one of them.  A take is a run of the recorder: a worker    *)
(* that died starts another.                                               *)
(*                                                                         *)
(* How a file is cut in regions is module SpeechRegions.  The job that     *)
(* transcribes is module JobPipeline's: it replaces the rows of the live   *)
(* in one transaction.                                                     *)
(***************************************************************************)
EXTENDS Integers

CONSTANTS
  MaxAttempts,  \* RemoteTranscriber.MAX_ATTEMPTS
  NoPiece,      \* not a piece
  MaxSegment,   \* bound: the live is over by then
  MaxTakes      \* bound: takes

ASSUME RecordingAssumption ==
  /\ {MaxAttempts, MaxSegment, MaxTakes} \subseteq Nat
  /\ NoPiece \notin [heard : Int, take : Int, whole : BOOLEAN]

VARIABLES
  minute,     \* segments of the live gone by
  aired,      \* BOOLEAN: the live is over and the session told to stop
  recorder,   \* "off", "recording", "draining" or "ended"
  take, takeBegan,   \* the number of the take, and when it began
  newest,     \* the file ffmpeg writes, or wrote last
  uploaded,   \* how many of its files are in the storage
  storage,    \* [0..(MaxSegment + 1) -> piece, or NoPiece]  objects by number
  lostPieces, \* pieces that never got there
  job,        \* "none", "running" or "done"
  nextFile,   \* the object it is at
  tries,      \* requests it has made for it
  lines       \* rows of the transcript: [at, piece]

onAir == <<minute, aired>>
recording == <<recorder, take, takeBegan, newest, uploaded, storage, lostPieces>>
transcribing == <<job, nextFile, tries, lines>>
recordingVars == <<onAir, recording, transcribing>>

\* What is in a file of this take; ffmpeg may not have closed it.
Piece(file, closed) == [heard |-> takeBegan + file, take |-> take, whole |-> closed]

---------------------------------------------------------------------------
RecordingInit ==
  /\ minute = 0 /\ aired = FALSE
  /\ recorder = "off" /\ take = 0 /\ takeBegan = 0
  /\ newest = 0 /\ uploaded = 0
  /\ storage = [n \in 0..(MaxSegment + 1) |-> NoPiece]
  /\ lostPieces = {}
  /\ job = "none" /\ nextFile = 0 /\ tries = 0 /\ lines = {}

\* _record_hls starts streamlink and ffmpeg, in an empty work directory.
StartTake ==
  /\ recorder = "off" /\ ~aired /\ take < MaxTakes
  /\ recorder' = "recording"
  /\ take' = take + 1 /\ takeBegan' = minute
  /\ newest' = 0 /\ uploaded' = 0
  /\ UNCHANGED <<onAir, storage, lostPieces, transcribing>>

\* A segment of the live goes by; ffmpeg closes a file and opens the next.
SegmentGoesBy ==
  /\ ~aired /\ minute < MaxSegment
  /\ minute' = minute + 1
  /\ newest' = IF recorder = "recording" THEN newest + 1 ELSE newest
  /\ UNCHANGED <<aired, recorder, take, takeBegan, uploaded, storage, lostPieces,
                 transcribing>>

Store(file, closed) ==
  /\ storage' = [storage EXCEPT ![file] = Piece(file, closed)]
  /\ uploaded' = uploaded + 1

\* Seeded fault: the newest file goes too.
UploadClosed_All ==
  /\ recorder = "recording" /\ uploaded <= newest
  /\ Store(uploaded, uploaded < newest)
  /\ UNCHANGED <<onAir, recorder, take, takeBegan, newest, lostPieces, transcribing>>

\* _upload_segments with keep_last: the first closed file not uploaded yet.
UploadClosed ==
  /\ recorder = "recording" /\ uploaded < newest
  /\ Store(uploaded, uploaded < newest)
  /\ UNCHANGED <<onAir, recorder, take, takeBegan, newest, lostPieces, transcribing>>

\* streamlink has lost the stream: ffmpeg closes its last file, and nothing more of
\* the live is recorded.
LoseSource ==
  /\ recorder = "recording"
  /\ recorder' = "draining"
  /\ UNCHANGED <<onAir, take, takeBegan, newest, uploaded, storage, lostPieces, transcribing>>

\* The live ends, and both are terminated.
LiveEnds ==
  /\ ~aired
  /\ aired' = TRUE
  /\ recorder' = CASE recorder = "recording" -> "draining"
                   [] recorder = "off"       -> "ended"
                   [] OTHER                  -> recorder
  /\ UNCHANGED <<minute, take, takeBegan, newest, uploaded, storage, lostPieces, transcribing>>

\* ... and what there is left is uploaded.
UploadLast ==
  /\ recorder = "draining" /\ uploaded <= newest
  /\ Store(uploaded, TRUE)
  /\ UNCHANGED <<onAir, recorder, take, takeBegan, newest, lostPieces, transcribing>>

EndTake ==
  /\ recorder = "draining" /\ uploaded > newest
  /\ recorder' = "ended"
  /\ UNCHANGED <<onAir, take, takeBegan, newest, uploaded, storage, lostPieces, transcribing>>

NotUploaded == {Piece(n, TRUE) : n \in uploaded..newest}

\* An upload fails: the recorder ends for the rest of the live, and its work
\* directory goes with what it held.
FailUpload ==
  /\ recorder \in {"recording", "draining"}
  /\ recorder' = "ended"
  /\ lostPieces' = lostPieces \cup NotUploaded
  /\ UNCHANGED <<onAir, take, takeBegan, newest, uploaded, storage, transcribing>>

\* The worker dies, and starts another take if the live still runs.
KillTake ==
  /\ recorder \in {"recording", "draining"}
  /\ recorder' = IF aired THEN "ended" ELSE "off"
  /\ lostPieces' = lostPieces \cup NotUploaded
  /\ UNCHANGED <<onAir, take, takeBegan, newest, uploaded, storage, transcribing>>

\* The transcription job of a finalised live deletes what there is and begins
\* with the first object.
StartTranscript ==
  /\ aired /\ recorder = "ended" /\ job = "none"
  /\ job' = "running" /\ nextFile' = 0 /\ tries' = 0 /\ lines' = {}
  /\ UNCHANGED <<onAir, recording>>

\* _file_offset_seconds: where in the live a line of an object is put.
Shift(file) == file

\* The object is decoded and cut; its speech is sent and comes back as text.
TranscribeFile ==
  /\ job = "running" /\ storage[nextFile] # NoPiece
  /\ lines' = lines \cup {[at |-> Shift(nextFile), piece |-> storage[nextFile]]}
  /\ nextFile' = nextFile + 1 /\ tries' = 0
  /\ UNCHANGED <<onAir, recording, job>>

\* The endpoint is busy: it is asked again, so many times;
RetryRequest ==
  /\ job = "running" /\ storage[nextFile] # NoPiece
  /\ tries < MaxAttempts - 1
  /\ tries' = tries + 1
  /\ UNCHANGED <<onAir, recording, job, nextFile, lines>>

\* then, or on any other answer, the job fails and is rolled back.
FailTranscript ==
  /\ job = "running"
  /\ job' = "none" /\ nextFile' = 0 /\ tries' = 0 /\ lines' = {}
  /\ UNCHANGED <<onAir, recording>>

\* Every object has been read, for their numbers have no hole.
FinishTranscript ==
  /\ job = "running" /\ storage[nextFile] = NoPiece
  /\ job' = "done" /\ nextFile' = 0
  /\ UNCHANGED <<onAir, recording, tries, lines>>

RecordingNext ==
  \/ StartTake \/ SegmentGoesBy \/ UploadClosed \/ LoseSource \/ LiveEnds
  \/ UploadLast \/ EndTake \/ FailUpload \/ KillTake
  \/ StartTranscript \/ TranscribeFile \/ RetryRequest \/ FailTranscript
  \/ FinishTranscript

RecordingSpec == RecordingInit /\ [][RecordingNext]_recordingVars

---------------------------------------------------------------------------
\* When a take is over each of its files is stored whole, or went with a failed
\* upload or a dead worker; no object ever holds half a file ("keep_last skips the
\* newest file, which ffmpeg is still writing"); and the transcript is of what is
\* stored, whatever was tried before.  Later takes overwrite earlier ones, for they
\* number from 000 again.
SoundKept ==
  /\ \A n \in DOMAIN storage : storage[n] # NoPiece => storage[n].whole
  /\ take > 0 /\ recorder \in {"off", "ended"} =>
       \A n \in 0..newest : Piece(n, TRUE) \in {storage[n]} \cup lostPieces
  /\ job = "done" =>
       lines = {[at |-> n, piece |-> storage[n]] : n \in {k \in DOMAIN storage : storage[k] # NoPiece}}
===========================================================================
