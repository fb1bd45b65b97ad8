---------------------------- MODULE LiveCapture ----------------------------
(***************************************************************************)
(* The life of one channel's rows in streams, from stream.online to the    *)
(* queued transcription (core/streams.py, the stream handlers of           *)
(* apps/api/eventsub.py, workers/capture/main.py and session.py, and the   *)
(* ViewerSampler of workers/capture/collectors.py).                        *)
(*                                                                         *)
(* Three parties write a row, and none takes a lock: the api process opens *)
(* one on stream.online and ends the active one on stream.offline; the     *)
(* sampler of the row's capture session ends it when Helix has shown the   *)
(* channel offline often enough in a row; the capture worker finalises it  *)
(* once it has ended.  Each reads in one step and writes in another.       *)
(*                                                                         *)
(* Lives are numbered as they happen, and a row has the number of the live *)
(* whose stream.online opened it.  A notification is handled at most once  *)
(* (EventSubInbox); one that is lost on its way, dropped by the inbox or   *)
(* given up by the handler is "lost" here.  The other two collectors write *)
(* no row of streams and are left out.  There is one api process and one   *)
(* capture worker.                                                         *)
(***************************************************************************)
EXTENDS Integers, FiniteSets

CONSTANTS
  MaxLives,             \* bound: lives of the channel
  OfflineSamplesToEnd,  \* OFFLINE_SAMPLES_TO_END
  Orders,               \* whether notifications may be, or must be, in order
  MaxGlitches,          \* empty answers in a row Helix may give during a live
  MaxLost,              \* bound: notifications lost
  MaxErrors,            \* bound: samples that end in a transport error
  MaxCrashes            \* bound: crashes of the capture worker

ASSUME BoundsAssumption ==
  /\ MaxLives \in Nat /\ OfflineSamplesToEnd \in Nat \ {0}
  /\ Orders \subseteq BOOLEAN
  /\ MaxGlitches \in Nat /\ MaxLost \in Nat /\ MaxErrors \in Nat
  /\ MaxCrashes \in Nat

Lives == 1..MaxLives

VARIABLES
  begun,      \* how many lives have begun; the last one is on the air or over
  onAir,      \* BOOLEAN: it is on the air
  ordered,    \* BOOLEAN: notifications are handled in the order sent
  onlines,    \* lives whose stream.online is on its way
  offlines,   \* lives whose stream.offline is on its way
  heard,      \* lives whose stream.online has been handled
  hook,       \* what the api process is handling
  hookLive,   \* of which live
  hookRow,    \* the active row it has read, 0 if none
  status,     \* [Lives -> Statuses]  streams.status, "absent": no row
  ended,      \* the rows with ended_at
  jobs,       \* [Lives -> Nat]       transcribe jobs queued for the row
  todo,       \* the ended rows of the worker's last poll, not yet finalised
  sampler,    \* [Lives -> SamplerStates]  "none": the row has no session
  misses,     \* [Lives -> Nat]       the sampler's _offline_samples
  lost, errors, crashes   \* counted against their bounds

twitch == <<begun, onAir, ordered>>
wire   == <<onlines, offlines, lost>>
api    == <<heard, hook, hookLive, hookRow>>
table  == <<status, ended, jobs>>
worker == <<todo, sampler, misses, errors, crashes>>
vars   == <<begun, onAir, ordered, onlines, offlines, heard, hook, hookLive,
            hookRow, status, ended, jobs, todo, sampler, misses, lost, errors,
            crashes>>

Statuses == {"absent", "capturing", "queued"}

\* "ending": it has read the row without ended_at and is about to write it.
\* "dead": its task ended with an exception.
SamplerStates == {"none", "running", "ending", "dead"}

\* Live l is on the air.
Airing(l) == onAir /\ l = begun

\* get_active_stream's rows.
ActiveRows == {l \in Lives : status[l] = "capturing" /\ l \notin ended}

\* Seeded fault: rows that have ended but are not finalised count as active.
ActiveRow_NotFinalized ==
  LET rows == {l \in Lives : status[l] = "capturing"}
  IN  IF rows = {} THEN 0 ELSE CHOOSE l \in rows : \A k \in rows : k <= l

\* get_active_stream: the one that started last.
ActiveRow == IF ActiveRows = {} THEN 0
             ELSE CHOOSE l \in ActiveRows : \A k \in ActiveRows : k <= l

---------------------------------------------------------------------------
Init ==
  /\ begun = 0 /\ onAir = FALSE /\ ordered \in Orders
  /\ onlines = {} /\ offlines = {} /\ lost = 0
  /\ heard = {} /\ hook = "idle" /\ hookLive = 0 /\ hookRow = 0
  /\ status = [l \in Lives |-> "absent"]
  /\ ended  = {}
  /\ jobs   = [l \in Lives |-> 0]
  /\ todo   = {}
  /\ sampler = [l \in Lives |-> "none"]
  /\ misses  = [l \in Lives |-> 0]
  /\ errors = 0 /\ crashes = 0

\* The channel goes live, or off the air; Twitch sends the notification.
GoLive ==
  /\ ~onAir /\ begun < MaxLives
  /\ begun' = begun + 1
  /\ onAir' = TRUE
  /\ onlines' = onlines \cup {begun + 1}
  /\ UNCHANGED <<ordered, offlines, lost, api, table, worker>>

GoOff ==
  /\ onAir
  /\ onAir' = FALSE
  /\ offlines' = offlines \cup {begun}
  /\ UNCHANGED <<begun, ordered, onlines, lost, api, table, worker>>

Lose ==
  /\ lost < MaxLost
  /\ lost' = lost + 1
  /\ \/ /\ \E l \in onlines : onlines' = onlines \ {l}
        /\ UNCHANGED offlines
     \/ /\ \E l \in offlines : offlines' = offlines \ {l}
        /\ UNCHANGED onlines
  /\ UNCHANGED <<twitch, api, table, worker>>

\* Nothing sent before the notification is still on its way.
OnlineIsNext(l)  == \A k \in onlines \cup offlines : k >= l
OfflineIsNext(l) == (\A k \in onlines : k > l) /\ (\A k \in offlines : k >= l)

\* start_stream and _handle_offline look for the active row.
HearOnline(l) ==
  /\ hook = "idle" /\ l \in onlines
  /\ ordered => OnlineIsNext(l)
  /\ onlines' = onlines \ {l}
  /\ hook' = "online" /\ hookLive' = l /\ hookRow' = ActiveRow
  /\ UNCHANGED <<twitch, offlines, lost, heard, table, worker>>

HearOffline(l) ==
  /\ hook = "idle" /\ l \in offlines
  /\ ordered => OfflineIsNext(l)
  /\ offlines' = offlines \ {l}
  /\ hook' = "offline" /\ hookLive' = l /\ hookRow' = ActiveRow
  /\ UNCHANGED <<twitch, onlines, lost, heard, table, worker>>

HookDone == hook' = "idle" /\ hookLive' = 0 /\ hookRow' = 0

\* Seeded fault: start_stream opens a row whatever it found.
OpenRow_Always ==
  /\ hook = "online"
  /\ status' = [status EXCEPT ![hookLive] = "capturing"]
  /\ heard' = heard \cup {hookLive}
  /\ HookDone
  /\ UNCHANGED <<twitch, wire, ended, jobs, worker>>

\* start_stream opens a row, unless it found an active one.
OpenRow ==
  /\ hook = "online"
  /\ status' = IF hookRow = 0 THEN [status EXCEPT ![hookLive] = "capturing"]
                              ELSE status
  /\ heard' = heard \cup {hookLive}
  /\ HookDone
  /\ UNCHANGED <<twitch, wire, ended, jobs, worker>>

\* mark_stream_offline ends the row found, if any, of whichever live it is.
EndRow ==
  /\ hook = "offline"
  /\ ended' = IF hookRow = 0 THEN ended ELSE ended \cup {hookRow}
  /\ HookDone
  /\ UNCHANGED <<twitch, wire, heard, status, jobs, worker>>

\* Seeded faults: the poll closes a session that has lost its sampler; it starts
\* no sessions.
Poll_ClosesDead ==
  LET rows == {l \in Lives : status[l] = "capturing"}
  IN  /\ todo = {}
      /\ todo' = {l \in rows : l \in ended \/ sampler[l] = "dead"}
      /\ sampler' = [l \in Lives |-> IF l \in rows \ ended /\ sampler[l] = "none"
                                       THEN "running" ELSE sampler[l]]
      /\ UNCHANGED <<twitch, wire, api, table, misses, errors, crashes>>
Poll_NoSession ==
  /\ todo = {}
  /\ todo' = {l \in Lives : status[l] = "capturing"} \cap ended
  /\ UNCHANGED <<twitch, wire, api, table, sampler, misses, errors, crashes>>

\* run_forever: read the rows being captured, start the missing sessions, and
\* go on to finalise those that have ended.
Poll ==
  LET rows == {l \in Lives : status[l] = "capturing"}
  IN  /\ todo = {}
      /\ todo' = rows \cap ended
      /\ sampler' = [l \in Lives |-> IF l \in rows \ ended /\ sampler[l] = "none"
                                       THEN "running" ELSE sampler[l]]
      /\ UNCHANGED <<twitch, wire, api, table, misses, errors, crashes>>

\* Seeded fault: the session is not awaited.
Finalize_NoWait(l) ==
  /\ l \in todo
  /\ status' = [status EXCEPT ![l] = "queued"]
  /\ jobs'   = [jobs EXCEPT ![l] = @ + 1]
  /\ todo'   = todo \ {l}
  /\ UNCHANGED <<twitch, wire, api, ended, sampler, misses, errors, crashes>>

\* Seeded fault: only rows of a session that is well are finalised.
Finalize_OwnSession(l) ==
  /\ l \in todo
  /\ sampler[l] = "running"
  /\ status' = [status EXCEPT ![l] = "queued"]
  /\ jobs'   = [jobs EXCEPT ![l] = @ + 1]
  /\ todo'   = todo \ {l}
  /\ sampler' = [sampler EXCEPT ![l] = "none"]
  /\ misses'  = [misses EXCEPT ![l] = 0]
  /\ UNCHANGED <<twitch, wire, api, ended, errors, crashes>>

\* stop_and_finalize: the session's tasks are awaited, then the row's new
\* status and its job are committed.  A restarted worker has no session for l.
Finalize(l) ==
  /\ l \in todo
  /\ sampler[l] # "ending"
  /\ status' = [status EXCEPT ![l] = "queued"]
  /\ jobs'   = [jobs EXCEPT ![l] = @ + 1]
  /\ todo'   = todo \ {l}
  /\ sampler' = [sampler EXCEPT ![l] = "none"]
  /\ misses'  = [misses EXCEPT ![l] = 0]
  /\ UNCHANGED <<twitch, wire, api, ended, errors, crashes>>

\* A sample that shows a viewer count (of the live on the air, whichever row
\* it is for).
SampleLive(l) ==
  /\ sampler[l] = "running"
  /\ onAir
  /\ misses' = [misses EXCEPT ![l] = 0]
  /\ UNCHANGED <<twitch, wire, api, table, todo, sampler, errors, crashes>>

\* Seeded fault: one empty answer too few.
Enough_TooFew(n) == n >= OfflineSamplesToEnd - 1

\* The empty answers that make _note_offline end the row.
Enough(n) == n >= OfflineSamplesToEnd

\* An empty answer: _note_offline counts it and, the answers being enough,
\* reads the row.
SampleEmpty(l) ==
  LET n == misses[l] + 1
  IN  /\ sampler[l] = "running"
      /\ onAir => misses[l] < MaxGlitches
      /\ misses' = [misses EXCEPT ![l] = IF Enough(n) THEN misses[l] ELSE n]
      /\ sampler' = IF Enough(n) /\ l \notin ended
                      THEN [sampler EXCEPT ![l] = "ending"] ELSE sampler
      /\ UNCHANGED <<twitch, wire, api, table, todo, errors, crashes>>

\* get_stream_info raises an httpx error, which ViewerSampler.run does not
\* catch: the task is over and the session goes on without it.
SampleDies(l) ==
  /\ sampler[l] = "running"
  /\ errors < MaxErrors
  /\ errors' = errors + 1
  /\ sampler' = [sampler EXCEPT ![l] = "dead"]
  /\ UNCHANGED <<twitch, wire, api, table, todo, misses, crashes>>

\* _note_offline commits ended_at.
EndFromHelix(l) ==
  /\ sampler[l] = "ending"
  /\ ended' = ended \cup {l}
  /\ sampler' = [sampler EXCEPT ![l] = "running"]
  /\ UNCHANGED <<twitch, wire, api, status, jobs, todo, misses, errors, crashes>>

\* The worker dies with its sessions and is started again.
Crash ==
  /\ crashes < MaxCrashes
  /\ crashes' = crashes + 1
  /\ todo' = {}
  /\ sampler' = [l \in Lives |-> "none"]
  /\ misses'  = [l \in Lives |-> 0]
  /\ UNCHANGED <<twitch, wire, api, table, errors>>

Webhook == \/ \E l \in Lives : HearOnline(l) \/ HearOffline(l)
           \/ OpenRow \/ EndRow

Sample(l) == \/ SampleLive(l) \/ SampleEmpty(l) \/ SampleDies(l)
             \/ EndFromHelix(l)

Next == \/ GoLive \/ GoOff \/ Lose \/ Webhook \/ Poll \/ Crash
        \/ \E l \in Lives : Finalize(l) \/ Sample(l)

\* The worker polls and finalises, its samplers go on asking Helix and are
\* answered in the end, and a handler ends.  Nothing is assumed of the
\* streamer, nor of notifications.
Fairness ==
  /\ WF_vars(OpenRow) /\ WF_vars(EndRow)
  /\ WF_vars(Poll)
  /\ \A l \in Lives : /\ WF_vars(Finalize(l))
                      /\ WF_vars(~onAir /\ SampleEmpty(l))
                      /\ WF_vars(EndFromHelix(l))

SafeSpec == Init /\ [][Next]_vars

Spec == SafeSpec /\ Fairness
---------------------------------------------------------------------------
\* Properties.

TypeOK ==
  /\ begun \in 0..MaxLives /\ onAir \in BOOLEAN /\ ordered \in Orders
  /\ onlines \subseteq Lives /\ offlines \subseteq Lives
  /\ heard \subseteq Lives
  /\ hook \in {"idle", "online", "offline"}
  /\ hookLive \in Lives \cup {0}
  /\ hookRow \in Lives \cup {0}
  /\ status \in [Lives -> Statuses]
  /\ ended \subseteq Lives
  /\ jobs \in [Lives -> Nat]
  /\ todo \subseteq Lives
  /\ sampler \in [Lives -> SamplerStates]
  /\ misses \in [Lives -> 0..OfflineSamplesToEnd - 1]
  /\ lost \in 0..MaxLost /\ errors \in 0..MaxErrors
  /\ crashes \in 0..MaxCrashes
  /\ onAir => begun # 0

\* "Idempotent: a duplicate stream.online returns the already-active stream":
\* however notifications are lost or reordered, and whatever the sampler ends
\* between start_stream's look and its insert, a channel has one active row.
OneActiveRow == \A k, l \in ActiveRows : k = l

\* Every row that is finalised is queued for transcription exactly once,
\* however the worker's crashes fall between its poll and its commits.
QueuedOnce ==
  \A l \in Lives : jobs[l] = IF status[l] = "queued" THEN 1 ELSE 0

\* Only rows that have ended are finalised, and nobody opens them again.
FinalizedHasEnded == \A l \in Lives : status[l] = "queued" => l \in ended

\* The sampler never writes a row after it was finalised and its audit
\* computed: stop_and_finalize waits for it.
SamplerWritesOpenRows ==
  \A l \in Lives : sampler[l] = "ending" => status[l] = "capturing"

\* A capture is not cut short: with notifications in order, a row ends only when
\* the live that opened it is over (collectors.py: "so a transient empty Helix
\* response never kills a live capture").
EndedOnlyWhenOver == ordered => \A l \in ended : ~Airing(l)

\* Then also, while no notification has been lost, every live the app has heard
\* of is captured in a row of its own until it is over: none is glued to the last.
OwnRowWhileAiring ==
  ordered /\ lost = 0 => \A l \in heard : Airing(l) => l \in ActiveRows

\* The weaker promise of README.md, "qualquer live do canal passa a ser
\* capturada": while a live the app has heard of is on the air, some row of
\* the channel is being captured.
HeardLiveIsCaptured ==
  \A l \in heard : Airing(l) => ActiveRows # {}

\* Once the channel is off the air, every row of it is finalised or the channel
\* goes live again, whether stream.offline arrives or not, unless a sampler has
\* died.
RowsSettle ==
  \A l \in Lives :
    status[l] = "capturing" /\ ~onAir
      ~> status[l] = "queued" \/ onAir \/ errors > 0

\* ... and that last case should not exist: the sampler "is the backstop for a
\* lost stream.offline webhook: without it a capture runs forever"
\* (collectors.py).
BackstopHolds ==
  \A l \in Lives :
    status[l] = "capturing" /\ ~onAir ~> status[l] = "queued" \/ onAir

\* What a row is to CaptureLifecycle.
Phase(l) == CASE status[l] = "absent" -> "none"
              [] status[l] = "queued" -> "handed"
              [] status[l] = "capturing" /\ l \in ended    -> "over"
              [] status[l] = "capturing" /\ l \notin ended -> "open"

CL == INSTANCE CaptureLifecycle
        WITH phase <- [l \in Lives |-> Phase(l)], transcriptions <- jobs

\* LiveCapture implements CaptureLifecycle: whoever writes a row, on what it
\* read before and in whatever order, the row goes from open to over to handed
\* over, each once, and is not opened beside another.
RowsInOrder == CL!SafeSpec

\* A row that has ended is finalised, whatever has become of its sampler, of
\* its session or of the worker that began it.
RowsHandedOver == CL!HandedOver

---------------------------------------------------------------------------
\* The inductive invariant behind OneActiveRow and the three after it, whatever
\* is lost, reordered or restarted.

\* What the api process knows of the channel's rows while it handles an
\* online: no row was active, and none has become active since.
HookOK ==
  /\ hook = "online" /\ hookRow = 0 => ActiveRows = {}
  /\ hookRow # 0 => status[hookRow] # "absent"
  /\ hook # "idle" => hookLive \in Lives /\ hookLive <= begun

\* An online is on its way, in hand or heard, never two of these; only heard
\* lives have rows.
OnlineOnce ==
  /\ \A l \in onlines : l \notin heard /\ l <= begun
  /\ hook = "online" => hookLive \notin heard /\ hookLive \notin onlines
  /\ \A l \in heard : l <= begun
  /\ \A l \in Lives : status[l] # "absent" => l \in heard

\* No live is over before it begins.
OfflinesBegun == \A l \in offlines : l <= begun

WorkerOK ==
  /\ \A l \in todo : status[l] = "capturing" /\ l \in ended
  /\ \A l \in Lives : sampler[l] # "none" => status[l] = "capturing"
  /\ \A l \in ended : status[l] # "absent"

CaptureInv ==
  /\ TypeOK
  /\ HookOK
  /\ OnlineOnce
  /\ OfflinesBegun
  /\ WorkerOK
  /\ OneActiveRow
  /\ QueuedOnce
  /\ FinalizedHasEnded
=============================================================================
