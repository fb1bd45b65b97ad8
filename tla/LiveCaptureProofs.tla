------------------------- MODULE LiveCaptureProofs -------------------------
(***************************************************************************)
(* The rows of a channel stay in order whatever is lost, reordered or      *)
(* restarted: at most one is being captured, each is finalised after it    *)
(* has ended, and queues one transcription.  Nobody takes a lock; the      *)
(* argument is HookOK (no row can become active between the look and the   *)
(* insert of start_stream, since only the api process inserts) and         *)
(* WorkerOK (what the worker read at its last poll is still true).         *)
(***************************************************************************)
EXTENDS LiveCapture, TLAPS

USE DEF Lives, Statuses, SamplerStates

\* get_active_stream finds a row exactly if there is one.
LEMMA ActiveRowFound ==
  ASSUME OneActiveRow
  PROVE  /\ ActiveRow = 0 <=> ActiveRows = {}
         /\ ActiveRow # 0 => ActiveRow \in ActiveRows
<1>1. CASE ActiveRows = {} BY <1>1 DEF ActiveRow
<1>2. CASE ActiveRows # {}
  <2>1. PICK l \in ActiveRows : TRUE BY <1>2
  <2>2. l \in Lives /\ l <= l /\ \A k \in ActiveRows : k = l
    BY <2>1, BoundsAssumption DEF ActiveRows, OneActiveRow
  <2>3. \A k \in ActiveRows : k <= l BY <2>2
  <2>4. ActiveRow \in ActiveRows BY <1>2, <2>1, <2>3 DEF ActiveRow
  <2>5. ActiveRow # 0 BY <2>4 DEF ActiveRows
  <2> QED BY <1>2, <2>4, <2>5
<1> QED BY <1>1, <1>2

\* No row, no session, no notification.
LEMMA InitCapture == ASSUME Init PROVE CaptureInv
<1>1. 0 \in 0..OfflineSamplesToEnd - 1 /\ 0 \in 0..MaxLives
  BY BoundsAssumption
<1>2. 0 \in 0..MaxLost /\ 0 \in 0..MaxErrors /\ 0 \in 0..MaxCrashes
  BY BoundsAssumption
<1>3. TypeOK BY <1>1, <1>2 DEF Init, TypeOK
<1>4. HookOK /\ OnlineOnce /\ OfflinesBegun
  BY DEF Init, HookOK, OnlineOnce, OfflinesBegun
<1>5. WorkerOK /\ QueuedOnce /\ FinalizedHasEnded
  BY DEF Init, WorkerOK, QueuedOnce, FinalizedHasEnded
<1>6. OneActiveRow BY DEF Init, OneActiveRow, ActiveRows
<1> QED BY <1>3, <1>4, <1>5, <1>6 DEF CaptureInv

\* Twitch touches no row.
LEMMA TwitchCapture ==
  ASSUME CaptureInv, GoLive \/ GoOff \/ Lose PROVE CaptureInv'
<1> USE BoundsAssumption
<1>1. UNCHANGED <<api, table, worker>> BY DEF GoLive, GoOff, Lose
<1>2. (OneActiveRow /\ QueuedOnce /\ FinalizedHasEnded /\ WorkerOK)'
  BY <1>1 DEF CaptureInv, OneActiveRow, ActiveRows, QueuedOnce, WorkerOK,
     FinalizedHasEnded, api, table, worker
<1>3. begun' \in 0..MaxLives /\ begun <= begun'
  BY DEF GoLive, GoOff, Lose, CaptureInv, TypeOK, twitch
<1>4. TypeOK'
  <2>1. CASE GoLive
    BY <1>1, <1>3, <2>1 DEF GoLive, CaptureInv, TypeOK, api, table, worker
  <2>2. CASE GoOff
    <3>1. onAir BY <2>2 DEF GoOff
    <3>2. begun # 0 BY <3>1 DEF CaptureInv, TypeOK
    <3>3. begun \in Lives BY <3>2 DEF CaptureInv, TypeOK
    <3>4. offlines' \subseteq Lives BY <2>2, <3>3 DEF GoOff, CaptureInv, TypeOK
    <3>5. onAir' = FALSE /\ UNCHANGED <<begun, ordered, onlines, lost>>
      BY <2>2 DEF GoOff
    <3> QED BY <1>1, <3>4, <3>5 DEF CaptureInv, TypeOK, api, table, worker
  <2>3. CASE Lose
    <3>1. lost' \in 0..MaxLost /\ UNCHANGED <<begun, onAir, ordered>>
      BY <2>3 DEF Lose, CaptureInv, TypeOK, twitch
    <3>2. onlines' \subseteq Lives /\ offlines' \subseteq Lives
      BY <2>3 DEF Lose, CaptureInv, TypeOK
    <3> QED BY <1>1, <3>1, <3>2 DEF CaptureInv, TypeOK, api, table, worker
  <2> QED BY <2>1, <2>2, <2>3
<1>5. HookOK'
  BY <1>1, <1>3 DEF CaptureInv, HookOK, ActiveRows, api, table, worker, TypeOK
<1>6. \A l \in onlines' : l \in onlines \/ (l = begun + 1 /\ begun' = l)
  BY DEF GoLive, GoOff, Lose
<1>7. \A l \in heard : l <= begun' /\ l # begun + 1
  BY <1>3 DEF CaptureInv, TypeOK, OnlineOnce
<1>8. hook = "online" => hookLive # begun + 1
  BY DEF CaptureInv, TypeOK, HookOK
<1>9. \A l \in onlines' : l \notin heard /\ l <= begun'
  <2> SUFFICES ASSUME NEW l \in onlines' PROVE l \notin heard /\ l <= begun'
    OBVIOUS
  <2>1. CASE l \in onlines BY <1>3, <2>1 DEF CaptureInv, TypeOK, OnlineOnce
  <2>2. CASE l = begun + 1 /\ begun' = l
    BY <1>3, <1>7, <2>2 DEF CaptureInv, TypeOK
  <2> QED BY <1>6, <2>1, <2>2
<1>10. hook = "online" => hookLive \notin onlines'
  BY <1>6, <1>8 DEF CaptureInv, OnlineOnce
<1>11. OnlineOnce'
  BY <1>1, <1>7, <1>9, <1>10 DEF CaptureInv, OnlineOnce, api, table
<1>12. OfflinesBegun'
  <2>1. \A l \in offlines' : l \in offlines \/ l = begun
    BY DEF GoLive, GoOff, Lose
  <2> SUFFICES ASSUME NEW l \in offlines' PROVE l <= begun'
    BY DEF OfflinesBegun
  <2>2. begun <= begun /\ begun \in Int /\ begun' \in Int
    BY <1>3 DEF CaptureInv, TypeOK
  <2>3. CASE l \in offlines
    BY <1>3, <2>2, <2>3 DEF CaptureInv, TypeOK, OfflinesBegun
  <2>4. CASE l = begun BY <1>3, <2>2, <2>4
  <2> QED BY <2>1, <2>3, <2>4
<1> QED BY <1>2, <1>4, <1>5, <1>11, <1>12 DEF CaptureInv

\* A notification is taken off the wire, and the active row looked up.
LEMMA HearCapture ==
  ASSUME CaptureInv, NEW l \in Lives, HearOnline(l) \/ HearOffline(l)
  PROVE  CaptureInv'
<1> USE BoundsAssumption
<1>1. UNCHANGED <<twitch, heard, table, worker>> BY DEF HearOnline, HearOffline
<1>2. hookRow' = ActiveRow /\ hookLive' = l /\ hook' \in {"online", "offline"}
  BY DEF HearOnline, HearOffline
<1>3. /\ onlines' \subseteq onlines /\ offlines' \subseteq offlines
      /\ hook' = "online" => l \in onlines /\ l \notin onlines'
      /\ l <= begun /\ lost' = lost
  BY DEF HearOnline, HearOffline, CaptureInv, OnlineOnce, OfflinesBegun
<1>4. (ActiveRow = 0 <=> ActiveRows = {}) /\ (ActiveRow # 0 => ActiveRow \in ActiveRows)
  BY ActiveRowFound DEF CaptureInv
<1>5. TypeOK'
  BY <1>1, <1>2, <1>3, <1>4
     DEF CaptureInv, TypeOK, twitch, table, worker, ActiveRows
<1>6. ActiveRows' = ActiveRows BY <1>1 DEF ActiveRows, table
<1>7. HookOK'
  BY <1>1, <1>2, <1>3, <1>4, <1>6 DEF HookOK, ActiveRows, table, twitch
<1>8. OnlineOnce' BY <1>1, <1>2, <1>3 DEF CaptureInv, OnlineOnce, table, twitch
<1>9. OfflinesBegun' BY <1>1, <1>3 DEF CaptureInv, OfflinesBegun, twitch
<1>10. (WorkerOK /\ OneActiveRow /\ QueuedOnce /\ FinalizedHasEnded)'
  BY <1>1, <1>6 DEF CaptureInv, WorkerOK, OneActiveRow, QueuedOnce,
     FinalizedHasEnded, table, worker
<1> QED BY <1>5, <1>7, <1>8, <1>9, <1>10 DEF CaptureInv

\* start_stream opens a row only where none is active.
LEMMA OpenRowCapture == ASSUME CaptureInv, OpenRow PROVE CaptureInv'
<1> USE BoundsAssumption
<1>1. hook = "online" /\ hookLive \in Lives /\ hookLive \notin heard
  BY DEF OpenRow, CaptureInv, TypeOK, HookOK, OnlineOnce
<1>2. /\ UNCHANGED <<twitch, wire, ended, jobs, worker>>
      /\ hook' = "idle" /\ hookLive' = 0 /\ hookRow' = 0
      /\ heard' = heard \cup {hookLive}
  BY DEF OpenRow, HookDone
<1>3. status[hookLive] = "absent" BY <1>1 DEF CaptureInv, OnlineOnce
<1>4. status' = status \/ (hookRow = 0 /\ status' = [status EXCEPT ![hookLive] = "capturing"])
  BY DEF OpenRow
<1>5. TypeOK'
  BY <1>1, <1>2, <1>4 DEF CaptureInv, TypeOK, twitch, wire, worker
<1>6. (HookOK /\ OnlineOnce /\ OfflinesBegun)'
  <2>1. HookOK' BY <1>2 DEF HookOK
  <2>2. OfflinesBegun' BY <1>2 DEF CaptureInv, OfflinesBegun, wire, twitch
  <2>3. \A l \in heard' : l <= begun'
    BY <1>1, <1>2 DEF CaptureInv, OnlineOnce, HookOK, twitch
  <2>4. \A l \in onlines' : l \notin heard' /\ l <= begun'
    BY <1>1, <1>2 DEF CaptureInv, OnlineOnce, wire, twitch
  <2>5. \A l \in Lives : status'[l] # "absent" => l \in heard'
    BY <1>1, <1>2, <1>4 DEF CaptureInv, TypeOK, OnlineOnce
  <2> QED BY <1>2, <2>1, <2>2, <2>3, <2>4, <2>5 DEF OnlineOnce
<1>7. CASE status' = status
  BY <1>2, <1>5, <1>6, <1>7 DEF CaptureInv, WorkerOK, OneActiveRow, ActiveRows,
     QueuedOnce, FinalizedHasEnded, worker
<1>8. CASE hookRow = 0 /\ status' = [status EXCEPT ![hookLive] = "capturing"]
  <2>1. ActiveRows = {} BY <1>1, <1>8 DEF CaptureInv, HookOK
  <2>2. \A l \in Lives : l # hookLive => status'[l] = status[l]
    BY <1>8 DEF CaptureInv, TypeOK
  <2>3. status'[hookLive] = "capturing" BY <1>1, <1>8 DEF CaptureInv, TypeOK
  <2>4. hookLive \notin ended /\ hookLive \notin todo /\ sampler[hookLive] = "none"
    BY <1>1, <1>3 DEF CaptureInv, WorkerOK
  <2>5. OneActiveRow' BY <1>2, <2>1, <2>2 DEF OneActiveRow, ActiveRows
  <2>6. WorkerOK'
    BY <1>2, <2>2, <2>3, <2>4 DEF CaptureInv, TypeOK, WorkerOK, worker
  <2>7. (QueuedOnce /\ FinalizedHasEnded)'
    BY <1>2, <1>3, <2>2, <2>3 DEF CaptureInv, QueuedOnce, FinalizedHasEnded
  <2> QED BY <1>5, <1>6, <2>5, <2>6, <2>7 DEF CaptureInv
<1> QED BY <1>4, <1>7, <1>8

\* A row that ends, by whichever hand, was open.
LEMMA EndingCapture ==
  ASSUME CaptureInv, NEW l \in Lives, status[l] # "absent",
         ended' = ended \cup {l}, UNCHANGED <<status, jobs>>
  PROVE  /\ ended' \subseteq Lives /\ ActiveRows' \subseteq ActiveRows
         /\ (OneActiveRow /\ QueuedOnce /\ FinalizedHasEnded)'
         /\ \A k \in ended' : status'[k] # "absent"
<1>1. ActiveRows' \subseteq ActiveRows BY DEF ActiveRows
<1>2. (OneActiveRow /\ QueuedOnce /\ FinalizedHasEnded)'
  BY <1>1 DEF CaptureInv, OneActiveRow, QueuedOnce, FinalizedHasEnded
<1>3. \A k \in ended' : status'[k] # "absent" BY DEF CaptureInv, WorkerOK
<1> QED BY <1>1, <1>2, <1>3 DEF CaptureInv, TypeOK

\* mark_stream_offline ends the row it has read.
LEMMA EndRowCapture == ASSUME CaptureInv, EndRow PROVE CaptureInv'
<1> USE BoundsAssumption
<1>1. /\ UNCHANGED <<twitch, wire, heard, status, jobs, worker>>
      /\ hook' = "idle" /\ hookLive' = 0 /\ hookRow' = 0
  BY DEF EndRow, HookDone
<1>2. ended' = ended \/ (hookRow # 0 /\ ended' = ended \cup {hookRow})
  BY DEF EndRow
<1>3. /\ ended' \subseteq Lives /\ ended \subseteq ended'
      /\ (OneActiveRow /\ QueuedOnce /\ FinalizedHasEnded)'
      /\ \A k \in ended' : status'[k] # "absent"
  <2>1. CASE ended' = ended
    BY <1>1, <2>1 DEF CaptureInv, TypeOK, OneActiveRow, ActiveRows, QueuedOnce,
       FinalizedHasEnded, WorkerOK
  <2>2. CASE hookRow # 0 /\ ended' = ended \cup {hookRow}
    <3>1. hookRow \in Lives /\ status[hookRow] # "absent"
      BY <2>2 DEF CaptureInv, TypeOK, HookOK
    <3> QED BY <1>1, <2>2, <3>1, EndingCapture
  <2> QED BY <1>2, <2>1, <2>2
<1>4. TypeOK' BY <1>1, <1>3 DEF CaptureInv, TypeOK, twitch, wire, worker
<1>5. (HookOK /\ OnlineOnce /\ OfflinesBegun)'
  BY <1>1 DEF CaptureInv, HookOK, OnlineOnce, OfflinesBegun, wire, twitch
<1>6. WorkerOK' BY <1>1, <1>3 DEF CaptureInv, WorkerOK, worker
<1> QED BY <1>3, <1>4, <1>5, <1>6 DEF CaptureInv

\* A worker's step that changes no row keeps the rows' part of the invariant,
\* and what the api process knows.
LEMMA RowsUntouched ==
  ASSUME CaptureInv, UNCHANGED <<twitch, wire, api, table>>
  PROVE  /\ (HookOK /\ OnlineOnce /\ OfflinesBegun)'
         /\ (OneActiveRow /\ QueuedOnce /\ FinalizedHasEnded)'
BY DEF CaptureInv, HookOK, OnlineOnce, OfflinesBegun, OneActiveRow, ActiveRows,
   QueuedOnce, FinalizedHasEnded, twitch, wire, api, table

\* The worker's own steps: its sessions are of rows being captured, its list
\* of rows that have ended.
LEMMA PollCapture == ASSUME CaptureInv, Poll PROVE CaptureInv'
<1> USE BoundsAssumption
<1>1. UNCHANGED <<twitch, wire, api, table, misses, errors, crashes>>
  BY DEF Poll
<1>2. /\ todo' = {l \in Lives : status[l] = "capturing"} \cap ended
      /\ sampler' \in [Lives -> SamplerStates]
      /\ \A l \in Lives : sampler'[l] # "none" =>
           sampler[l] # "none" \/ status[l] = "capturing"
  BY DEF Poll, CaptureInv, TypeOK
<1>3. TypeOK'
  BY <1>1, <1>2 DEF CaptureInv, TypeOK, twitch, wire, api, table
<1>4. WorkerOK' BY <1>1, <1>2 DEF CaptureInv, TypeOK, WorkerOK, table
<1> QED BY <1>1, <1>3, <1>4, RowsUntouched DEF CaptureInv

\* A row is finalised once it has ended and its session is over.
LEMMA FinalizeCapture ==
  ASSUME CaptureInv, NEW l \in Lives, Finalize(l) PROVE CaptureInv'
<1> USE BoundsAssumption
<1>1. /\ UNCHANGED <<twitch, wire, api, ended, errors, crashes>>
      /\ status' = [status EXCEPT ![l] = "queued"]
      /\ jobs' = [jobs EXCEPT ![l] = @ + 1]
      /\ todo' = todo \ {l}
      /\ sampler' = [sampler EXCEPT ![l] = "none"]
      /\ misses' = [misses EXCEPT ![l] = 0]
  BY DEF Finalize
<1>2. l \in ended /\ status[l] = "capturing"
  BY DEF Finalize, CaptureInv, WorkerOK
<1>3. 0 \in 0..OfflineSamplesToEnd - 1 BY BoundsAssumption
<1>4. TypeOK'
  <2>1. misses' \in [Lives -> 0..OfflineSamplesToEnd - 1]
    BY <1>1, <1>3 DEF CaptureInv, TypeOK
  <2>2. /\ status' \in [Lives -> Statuses] /\ jobs' \in [Lives -> Nat]
        /\ todo' \subseteq Lives /\ sampler' \in [Lives -> SamplerStates]
    BY <1>1 DEF CaptureInv, TypeOK
  <2> QED BY <1>1, <2>1, <2>2 DEF CaptureInv, TypeOK, twitch, wire, api
<1>5. ActiveRows' = ActiveRows
  BY <1>1, <1>2 DEF CaptureInv, TypeOK, ActiveRows
<1>6. \A k \in Lives : status[k] # "absent" <=> status'[k] # "absent"
  BY <1>1, <1>2 DEF CaptureInv, TypeOK
<1>7. HookOK'
  BY <1>1, <1>5, <1>6 DEF CaptureInv, TypeOK, HookOK, api, twitch
<1>8. (OnlineOnce /\ OfflinesBegun)'
  BY <1>1, <1>6 DEF CaptureInv, OnlineOnce, OfflinesBegun, twitch, wire, api
<1>9. WorkerOK'
  BY <1>1, <1>2, <1>6 DEF CaptureInv, TypeOK, WorkerOK
<1>10. (OneActiveRow /\ QueuedOnce /\ FinalizedHasEnded)'
  BY <1>1, <1>2, <1>5 DEF CaptureInv, TypeOK, OneActiveRow, QueuedOnce,
     FinalizedHasEnded
<1> QED BY <1>4, <1>7, <1>8, <1>9, <1>10 DEF CaptureInv

\* A sample counts, or decides to end the row, or dies; it writes no row.
LEMMA SampleCapture ==
  ASSUME CaptureInv, NEW l \in Lives,
         SampleLive(l) \/ SampleEmpty(l) \/ SampleDies(l)
  PROVE  CaptureInv'
<1> USE BoundsAssumption
<1>1. UNCHANGED <<twitch, wire, api, table, todo, crashes>>
  BY DEF SampleLive, SampleEmpty, SampleDies
<1>2. \E st \in SamplerStates \ {"none"} :
        sampler' = [sampler EXCEPT ![l] = st] /\ sampler[l] # "none"
  <2>1. CASE SampleLive(l) \/ SampleEmpty(l)
    <3>1. sampler[l] = "running" BY <2>1 DEF SampleLive, SampleEmpty
    <3>2. \/ sampler' = [sampler EXCEPT ![l] = "running"]
          \/ sampler' = [sampler EXCEPT ![l] = "ending"]
      BY <2>1, <3>1 DEF SampleLive, SampleEmpty, CaptureInv, TypeOK
    <3> QED BY <3>1, <3>2
  <2>2. CASE SampleDies(l) BY <2>2 DEF SampleDies
  <2> QED BY <2>1, <2>2
<1>3. misses' \in [Lives -> 0..OfflineSamplesToEnd - 1]
  <2>1. 0 \in 0..OfflineSamplesToEnd - 1 BY BoundsAssumption
  <2>2. CASE SampleLive(l) BY <2>1, <2>2 DEF SampleLive, CaptureInv, TypeOK
  <2>3. CASE SampleEmpty(l)
    <3>1. misses[l] \in 0..OfflineSamplesToEnd - 1 BY DEF CaptureInv, TypeOK
    <3>2. ~Enough(misses[l] + 1) => misses[l] + 1 \in 0..OfflineSamplesToEnd - 1
      BY <3>1, BoundsAssumption DEF Enough
    <3> QED BY <2>3, <3>1, <3>2 DEF SampleEmpty, CaptureInv, TypeOK
  <2>4. CASE SampleDies(l) BY <2>4 DEF SampleDies, CaptureInv, TypeOK
  <2> QED BY <2>2, <2>3, <2>4
<1>4. errors' \in 0..MaxErrors
  BY DEF SampleLive, SampleEmpty, SampleDies, CaptureInv, TypeOK
<1>5. sampler' \in [Lives -> SamplerStates]
  BY <1>2 DEF CaptureInv, TypeOK
<1>6. TypeOK'
  BY <1>1, <1>3, <1>4, <1>5 DEF CaptureInv, TypeOK, twitch, wire, api, table
<1>7. \A k \in Lives : sampler'[k] # "none" => sampler[k] # "none"
  BY <1>2 DEF CaptureInv, TypeOK
<1>8. WorkerOK' BY <1>1, <1>7 DEF CaptureInv, WorkerOK, table
<1> QED BY <1>1, <1>6, <1>8, RowsUntouched DEF CaptureInv

\* Helix has shown the channel offline often enough.
LEMMA EndFromHelixCapture ==
  ASSUME CaptureInv, NEW l \in Lives, EndFromHelix(l) PROVE CaptureInv'
<1> USE BoundsAssumption
<1>1. /\ UNCHANGED <<twitch, wire, api, status, jobs, todo, misses, errors, crashes>>
      /\ ended' = ended \cup {l}
      /\ sampler' = [sampler EXCEPT ![l] = "running"]
      /\ sampler[l] # "none"
  BY DEF EndFromHelix
<1>2. status[l] = "capturing" BY <1>1 DEF CaptureInv, WorkerOK
<1>3. /\ ended' \subseteq Lives /\ ActiveRows' \subseteq ActiveRows
      /\ (OneActiveRow /\ QueuedOnce /\ FinalizedHasEnded)'
      /\ \A k \in ended' : status'[k] # "absent"
  BY <1>1, <1>2, EndingCapture
<1>4. TypeOK'
  BY <1>1, <1>3 DEF CaptureInv, TypeOK, twitch, wire, api
<1>5. (HookOK /\ OnlineOnce /\ OfflinesBegun)'
  BY <1>1, <1>3 DEF CaptureInv, HookOK, OnlineOnce, OfflinesBegun, wire, twitch,
     api
<1>6. WorkerOK' BY <1>1, <1>2, <1>3 DEF CaptureInv, TypeOK, WorkerOK
<1> QED BY <1>3, <1>4, <1>5, <1>6 DEF CaptureInv

\* A crash costs the worker what it has read, and nothing else.
LEMMA CrashCapture == ASSUME CaptureInv, Crash PROVE CaptureInv'
<1> USE BoundsAssumption
<1>1. UNCHANGED <<twitch, wire, api, table, errors>> BY DEF Crash
<1>2. 0 \in 0..OfflineSamplesToEnd - 1 BY BoundsAssumption
<1>3. /\ misses' \in [Lives -> 0..OfflineSamplesToEnd - 1]
      /\ sampler' \in [Lives -> SamplerStates] /\ todo' = {}
      /\ \A l \in Lives : sampler'[l] = "none"
      /\ crashes' \in 0..MaxCrashes
  BY <1>2 DEF Crash, CaptureInv, TypeOK
<1>4. TypeOK' BY <1>1, <1>3 DEF CaptureInv, TypeOK, twitch, wire, api, table
<1>5. WorkerOK' BY <1>1, <1>3 DEF CaptureInv, WorkerOK, table
<1> QED BY <1>1, <1>4, <1>5, RowsUntouched DEF CaptureInv

\* Every step keeps the invariant.
LEMMA NextCapture == ASSUME CaptureInv, [Next]_vars PROVE CaptureInv'
<1>1. CASE GoLive \/ GoOff \/ Lose BY <1>1, TwitchCapture
<1>2. CASE Webhook BY <1>2, HearCapture, OpenRowCapture, EndRowCapture DEF Webhook
<1>3. CASE Poll \/ Crash BY <1>3, PollCapture, CrashCapture
<1>4. CASE \E l \in Lives : Finalize(l) BY <1>4, FinalizeCapture
<1>5. CASE \E l \in Lives : Sample(l)
  BY <1>5, SampleCapture, EndFromHelixCapture DEF Sample
<1>6. CASE UNCHANGED vars
  <2>1. UNCHANGED <<twitch, wire, api, table, worker>>
    BY <1>6 DEF vars, twitch, wire, api, table, worker
  <2>2. TypeOK'
    BY <2>1 DEF CaptureInv, TypeOK, twitch, wire, api, table, worker
  <2>3. WorkerOK' BY <2>1 DEF CaptureInv, WorkerOK, table, worker
  <2> QED BY <2>1, <2>2, <2>3, RowsUntouched DEF CaptureInv
<1> QED BY <1>1, <1>2, <1>3, <1>4, <1>5, <1>6 DEF Next

\* The rows of a channel stay in order for any number of lives, whatever is
\* lost, reordered, sampled or restarted (core/streams.py, workers/capture).
THEOREM CaptureInvariant == SafeSpec => []CaptureInv
<1>1. Init => CaptureInv BY InitCapture
<1>2. CaptureInv /\ [Next]_vars => CaptureInv' BY NextCapture
<1> QED BY <1>1, <1>2, PTL DEF SafeSpec

\* start_stream never opens a second active row.
THEOREM AtMostOneActiveRow == SafeSpec => []OneActiveRow
<1>1. CaptureInv => OneActiveRow BY DEF CaptureInv
<1> QED BY <1>1, CaptureInvariant, PTL

\* CaptureSession._finalize queues one transcription for each row it
\* finalises, whenever the worker is restarted.
THEOREM TranscriptionQueuedOnce == SafeSpec => []QueuedOnce
<1>1. CaptureInv => QueuedOnce BY DEF CaptureInv
<1> QED BY <1>1, CaptureInvariant, PTL

\* The sampler of a session never writes a row that has been finalised.
THEOREM SamplerStopsFirst == SafeSpec => []SamplerWritesOpenRows
<1>1. CaptureInv => SamplerWritesOpenRows
  BY DEF CaptureInv, WorkerOK, SamplerWritesOpenRows
<1> QED BY <1>1, CaptureInvariant, PTL
\* A row is finalised only once it has ended (run_forever, _finalize).
THEOREM FinalizedAfterEnd == SafeSpec => []FinalizedHasEnded
<1>1. CaptureInv => FinalizedHasEnded BY DEF CaptureInv
<1> QED BY <1>1, CaptureInvariant, PTL

---------------------------------------------------------------------------
(* What holds of notifications that are handled in the order they were     *)
(* sent, with samples that are wrong less often than _note_offline asks.   *)

GlitchesCovered == MaxGlitches < OfflineSamplesToEnd

\* An offline is of a live that is over, and of none before those heard of; what
\* is about to be ended is not on the air.
InOrder ==
  /\ \A k \in offlines : ~Airing(k) /\ \A r \in heard : r <= k
  /\ hook = "online" => \A k \in offlines : hookLive <= k
  /\ hook = "offline" =>
       ~Airing(hookLive) /\ (hookRow # 0 => hookRow <= hookLive)
  /\ \A l \in Lives : sampler[l] = "ending" => ~Airing(l)
  /\ \A l \in ended : ~Airing(l)

OrderInv == ordered => InOrder

\* Twitch sends an offline as the live ends, when none later has begun.
LEMMA TwitchInOrder ==
  ASSUME CaptureInv, InOrder, GoLive \/ GoOff \/ Lose PROVE InOrder'
<1> USE BoundsAssumption
<1>1. UNCHANGED <<heard, hook, hookLive, hookRow, status, ended, sampler>>
  BY DEF GoLive, GoOff, Lose, api, table, worker
<1>2. begun \in Int /\ \A l \in Lives : l \in Int
  BY DEF CaptureInv, TypeOK
<1>3. /\ \A l \in offlines : l <= begun /\ l \in Int
      /\ \A l \in heard : l <= begun /\ l \in Int
      /\ \A l \in ended : l <= begun /\ l \in Int
      /\ \A l \in Lives : sampler[l] = "ending" => l <= begun
      /\ hook # "idle" => hookLive <= begun /\ hookLive \in Int
  <2>1. /\ \A l \in offlines : l <= begun /\ l \in Int
        /\ \A l \in heard : l <= begun /\ l \in Int
        /\ hook # "idle" => hookLive <= begun /\ hookLive \in Int
    BY DEF CaptureInv, TypeOK, OfflinesBegun, OnlineOnce, HookOK
  <2>2. \A l \in ended : l \in heard
    BY DEF CaptureInv, TypeOK, WorkerOK, OnlineOnce
  <2>3. \A l \in Lives : sampler[l] = "ending" => l \in heard
    BY DEF CaptureInv, WorkerOK, OnlineOnce
  <2> QED BY <2>1, <2>2, <2>3
<1>4. CASE GoLive
  <2>1. begun' = begun + 1 /\ offlines' = offlines
    BY <1>4 DEF GoLive
  <2>2. \A l \in Int : l <= begun => ~Airing(l)'
    BY <1>2, <2>1 DEF Airing
  <2>3. \A k \in offlines' : ~Airing(k)' /\ \A r \in heard' : r <= k
    BY <1>1, <1>3, <2>1, <2>2 DEF InOrder
  <2>4. \A l \in ended' : ~Airing(l)'
    BY <1>1, <1>3, <2>2
  <2>5. \A l \in Lives : sampler'[l] = "ending" => ~Airing(l)'
    BY <1>1, <1>2, <1>3, <2>2
  <2>6. hook' = "online" => \A k \in offlines' : hookLive' <= k
    BY <1>1, <2>1 DEF InOrder
  <2>7. hook' = "offline" =>
          ~Airing(hookLive)' /\ (hookRow' # 0 => hookRow' <= hookLive')
    BY <1>1, <1>3, <2>2 DEF InOrder, Airing
  <2> QED BY <2>3, <2>4, <2>5, <2>6, <2>7 DEF InOrder
<1>5. CASE GoOff
  <2>1. ~onAir' /\ offlines' = offlines \cup {begun}
    BY <1>5 DEF GoOff
  <2>2. \A k \in offlines' : \A r \in heard' : r <= k
    BY <1>1, <1>3, <2>1 DEF InOrder
  <2>3. hook' = "online" => \A k \in offlines' : hookLive' <= k
    BY <1>1, <1>3, <2>1 DEF InOrder
  <2>4. hook' = "offline" => (hookRow' # 0 => hookRow' <= hookLive')
    BY <1>1 DEF InOrder
  <2> QED BY <2>1, <2>2, <2>3, <2>4 DEF InOrder, Airing
<1>6. CASE Lose
  BY <1>1, <1>6 DEF Lose, InOrder, Airing, twitch
<1> QED BY <1>4, <1>5, <1>6

\* The row found is of a live heard of, and so of none after the one that ended.
LEMMA HearInOrder ==
  ASSUME CaptureInv, InOrder, ordered, NEW l \in Lives, HearOnline(l) \/ HearOffline(l)
  PROVE  InOrder'
<1>1. UNCHANGED <<begun, onAir, heard, status, ended, sampler>>
  BY DEF HearOnline, HearOffline, twitch, table, worker
<1>2. CASE HearOnline(l)
  BY <1>1, <1>2 DEF HearOnline, OnlineIsNext, InOrder, Airing
<1>3. CASE HearOffline(l)
  <2>1. l \in offlines /\ offlines' \subseteq offlines
    BY <1>3 DEF HearOffline
  <2>2. ActiveRow # 0 => ActiveRow \in heard
    BY ActiveRowFound DEF CaptureInv, ActiveRows, OnlineOnce
  <2>3. hook' = "offline" /\ hookLive' = l /\ hookRow' = ActiveRow
    BY <1>3 DEF HearOffline
  <2>4. ~Airing(l)' /\ (hookRow' # 0 => hookRow' <= l)
    BY <1>1, <2>1, <2>2, <2>3 DEF InOrder, Airing
  <2> QED BY <1>1, <2>1, <2>3, <2>4 DEF InOrder, Airing
<1> QED BY <1>2, <1>3

\* What the api process ends is a row of the live that ended, or of one before.
LEMMA EndRowInOrder == ASSUME CaptureInv, InOrder, EndRow PROVE InOrder'
<1>1. /\ UNCHANGED <<begun, onAir, offlines, heard, sampler>>
      /\ hook = "offline" /\ hook' = "idle"
      /\ ended' = IF hookRow = 0 THEN ended ELSE ended \cup {hookRow}
  BY DEF EndRow, HookDone, twitch, wire, worker
<1>2. hookRow # 0 => ~Airing(hookRow)
  <2>1. ~Airing(hookLive) /\ hookLive <= begun /\ hookLive \in Int
    BY <1>1, BoundsAssumption DEF InOrder, CaptureInv, TypeOK, HookOK
  <2>2. begun \in Int /\ hookRow \in Int
    BY BoundsAssumption DEF CaptureInv, TypeOK
  <2> QED BY <1>1, <2>1, <2>2 DEF InOrder, Airing
<1> QED BY <1>1, <1>2 DEF InOrder, Airing

LEMMA OpenRowInOrder == ASSUME CaptureInv, InOrder, OpenRow PROVE InOrder'
BY DEF OpenRow, HookDone, InOrder, Airing, twitch, wire, worker

\* A sampler ends a row after more empty answers than there are while on the air.
LEMMA SampleInOrder ==
  ASSUME GlitchesCovered, CaptureInv, InOrder, NEW l \in Lives, Sample(l)
  PROVE  InOrder'
<1>1. UNCHANGED <<begun, onAir, offlines, heard, hook, hookLive, hookRow>>
  BY DEF Sample, SampleLive, SampleEmpty, SampleDies, EndFromHelix, twitch, wire, api
<1>2. sampler \in [Lives -> SamplerStates]
  BY DEF CaptureInv, TypeOK
<1>3. CASE SampleLive(l) \/ SampleDies(l)
  BY <1>1, <1>2, <1>3 DEF SampleLive, SampleDies, table, InOrder, Airing
<1>4. CASE EndFromHelix(l)
  BY <1>1, <1>2, <1>4 DEF EndFromHelix, InOrder, Airing
<1>5. CASE SampleEmpty(l)
  <2>1. misses[l] \in Int /\ OfflineSamplesToEnd \in Int /\ MaxGlitches \in Int
    BY BoundsAssumption DEF CaptureInv, TypeOK
  <2>2. onAir => ~Enough(misses[l] + 1)
    BY <1>5, <2>1 DEF SampleEmpty, Enough, GlitchesCovered
  <2>3. ended' = ended
    BY <1>5 DEF SampleEmpty, table
  <2>4. \A k \in Lives : sampler'[k] = "ending" => sampler[k] = "ending" \/ ~onAir
    BY <1>2, <1>5, <2>2 DEF SampleEmpty
  <2> QED BY <1>1, <2>3, <2>4 DEF InOrder, Airing
<1> QED BY <1>3, <1>4, <1>5 DEF Sample

LEMMA WorkerInOrder ==
  ASSUME CaptureInv, InOrder, Poll \/ Crash \/ \E l \in Lives : Finalize(l)
  PROVE  InOrder'
<1>1. UNCHANGED <<begun, onAir, offlines, heard, hook, hookLive, hookRow, ended>>
  BY DEF Poll, Crash, Finalize, twitch, wire, api, table
<1>2. \A l \in Lives : sampler'[l] = "ending" => sampler[l] = "ending"
  BY DEF Poll, Crash, Finalize, CaptureInv, TypeOK
<1> QED BY <1>1, <1>2 DEF InOrder, Airing

LEMMA OrderStep ==
  ASSUME GlitchesCovered, CaptureInv, OrderInv, [Next]_vars PROVE OrderInv'
<1> SUFFICES ASSUME ordered' PROVE InOrder'
  BY DEF OrderInv
<1>1. ordered /\ InOrder
  <2>1. ordered' = ordered
    BY DEF Next, GoLive, GoOff, Lose, Webhook, HearOnline, HearOffline, OpenRow,
       EndRow, Poll, Crash, Finalize, Sample, SampleLive, SampleEmpty, SampleDies,
       EndFromHelix, twitch, vars
  <2> QED BY <2>1 DEF OrderInv
<1>2. CASE UNCHANGED vars
  BY <1>1, <1>2 DEF vars, InOrder, Airing
<1> QED BY <1>1, <1>2, TwitchInOrder, HearInOrder, EndRowInOrder, OpenRowInOrder,
     SampleInOrder, WorkerInOrder DEF Next, Webhook

LEMMA OrderInvariant == ASSUME GlitchesCovered PROVE SafeSpec => []OrderInv
<1>1. Init => OrderInv BY DEF Init, OrderInv, InOrder
<1>2. CaptureInv /\ OrderInv /\ [Next]_vars => OrderInv' BY OrderStep
<1> QED BY <1>1, <1>2, CaptureInvariant, PTL DEF SafeSpec

\* No live is cut short: ViewerSampler's count outlasts the wrong answers, and an
\* offline in order finds no later row.
THEOREM NoCaptureCutShort ==
  ASSUME GlitchesCovered PROVE SafeSpec => []EndedOnlyWhenOver
<1>1. OrderInv => EndedOnlyWhenOver BY DEF OrderInv, InOrder, EndedOnlyWhenOver
<1> QED BY <1>1, OrderInvariant, PTL

---------------------------------------------------------------------------
(* What holds while besides none is lost.                                   *)

\* Lives are heard of one after the other; a row is active while its live is on
\* the air or its offline is still to be acted upon; so an online finds none.
Followed ==
  /\ \A l \in onlines : /\ \A r \in heard : r < l
                        /\ hook = "online" => hookLive < l
                        /\ Airing(l) \/ l \in offlines
  /\ hook = "online" => hookRow = 0 /\ (Airing(hookLive) \/ hookLive \in offlines)
  /\ \A k \in ActiveRows :
       Airing(k) \/ k \in offlines \/ (hook = "offline" /\ hookRow = k)
  /\ \A l \in heard : Airing(l) => l \in ActiveRows

FollowInv == ordered /\ lost = 0 => Followed

LEMMA TwitchFollowed ==
  ASSUME CaptureInv, Followed, GoLive \/ GoOff PROVE Followed'
<1>1. UNCHANGED <<heard, hook, hookLive, hookRow, status, ended>>
  BY DEF GoLive, GoOff, api, table
<1>2. /\ begun \in Int
      /\ \A l \in heard : l <= begun /\ l \in Int
      /\ hook = "online" => hookLive <= begun /\ hookLive \in Int
  BY BoundsAssumption DEF CaptureInv, TypeOK, OnlineOnce, HookOK
<1>3. ActiveRows' = ActiveRows
  BY <1>1 DEF ActiveRows
<1>4. CASE GoLive
  <2>1. /\ ~onAir /\ onAir' /\ begun' = begun + 1
        /\ onlines' = onlines \cup {begun + 1} /\ offlines' = offlines
    BY <1>4 DEF GoLive
  <2>2. \A l : ~Airing(l) /\ (l = begun + 1 => Airing(l)')
    BY <2>1 DEF Airing
  <2>3. \A l \in heard : ~Airing(l)'
    BY <1>2, <2>1 DEF Airing
  <2>4. \A l \in onlines' : /\ \A r \in heard' : r < l
                            /\ hook' = "online" => hookLive' < l
                            /\ Airing(l)' \/ l \in offlines'
    <3> SUFFICES ASSUME NEW l \in onlines'
                 PROVE  /\ \A r \in heard : r < l
                        /\ hook = "online" => hookLive < l
                        /\ Airing(l)' \/ l \in offlines
      BY <1>1, <2>1
    <3>1. CASE l \in onlines
      BY <2>2, <3>1 DEF Followed
    <3>2. CASE l = begun + 1
      BY <1>2, <2>2, <3>2
    <3> QED BY <2>1, <3>1, <3>2
  <2> QED BY <1>1, <1>3, <2>1, <2>2, <2>3, <2>4 DEF Followed
<1>5. CASE GoOff
  <2>1. /\ ~onAir' /\ offlines' = offlines \cup {begun}
        /\ UNCHANGED <<begun, onlines>>
    BY <1>5 DEF GoOff
  <2>2. \A l : Airing(l) => l \in offlines'
    BY <2>1 DEF Airing
  <2>3. \A l : ~Airing(l)'
    BY <2>1 DEF Airing
  <2> QED BY <1>1, <1>3, <2>1, <2>2, <2>3 DEF Followed
<1> QED BY <1>4, <1>5

LEMMA HearFollowed ==
  ASSUME CaptureInv, Followed, ordered,
         NEW l \in Lives, HearOnline(l) \/ HearOffline(l)
  PROVE  Followed'
<1>1. /\ UNCHANGED <<begun, onAir, heard, status, ended>>
      /\ hook = "idle" /\ hookLive' = l /\ hookRow' = ActiveRow
  BY DEF HearOnline, HearOffline, twitch, table, worker
<1>2. ActiveRows' = ActiveRows /\ \A k : Airing(k)' = Airing(k)
  BY <1>1 DEF ActiveRows, Airing
<1>3. CASE HearOnline(l)
  <2>1. /\ l \in onlines /\ onlines' = onlines \ {l} /\ hook' = "online"
        /\ offlines' = offlines
        /\ \A k \in onlines \cup offlines : k >= l
    BY <1>3 DEF HearOnline, OnlineIsNext
  <2>2. begun \in Int /\ l \in Int /\ l <= begun /\ onlines \subseteq Int
    BY <2>1, BoundsAssumption DEF CaptureInv, TypeOK, OnlineOnce
  <2>3. ActiveRows = {}
    <3> SUFFICES ASSUME NEW k \in ActiveRows PROVE FALSE
      OBVIOUS
    <3>1. k \in heard /\ k \in Int
      BY BoundsAssumption DEF ActiveRows, CaptureInv, OnlineOnce
    <3>2. k < l
      BY <2>1, <3>1 DEF Followed
    <3>3. CASE Airing(k)
      BY <2>2, <3>1, <3>2, <3>3 DEF Airing
    <3>4. CASE k \in offlines
      BY <2>1, <2>2, <3>1, <3>2, <3>4
    <3> QED BY <1>1, <3>3, <3>4 DEF Followed
  <2>4. hookRow' = 0
    BY <1>1, <2>3, ActiveRowFound DEF CaptureInv
  <2>5. \A k \in onlines' : l < k
    BY <2>1, <2>2
  <2> QED BY <1>1, <1>2, <2>1, <2>3, <2>4, <2>5 DEF Followed
<1>4. CASE HearOffline(l)
  <2>1. /\ offlines' = offlines \ {l} /\ hook' = "offline" /\ onlines' = onlines
        /\ \A k \in onlines : k > l
    BY <1>4 DEF HearOffline, OfflineIsNext
  <2>2. l \in Int /\ onlines \subseteq Int
    BY BoundsAssumption DEF CaptureInv, TypeOK
  <2>3. l \notin onlines
    BY <2>1, <2>2
  <2>4. \A k \in ActiveRows : hookRow' = k
    BY <1>1, ActiveRowFound DEF CaptureInv, OneActiveRow
  <2> QED BY <1>1, <1>2, <2>1, <2>3, <2>4 DEF Followed
<1> QED BY <1>3, <1>4

\* start_stream opens the row of a live that has none, nor an ended one.
LEMMA OpenRowFollowed == ASSUME CaptureInv, Followed, OpenRow PROVE Followed'
<1>1. /\ hook = "online" /\ hook' = "idle" /\ hookRow = 0 /\ ActiveRows = {}
      /\ hookLive \in Lives /\ hookLive \notin heard /\ hookLive \notin onlines
      /\ heard' = heard \cup {hookLive}
      /\ status' = [status EXCEPT ![hookLive] = "capturing"]
      /\ UNCHANGED <<begun, onAir, onlines, offlines, ended>>
  BY DEF OpenRow, HookDone, Followed, CaptureInv, HookOK, OnlineOnce, twitch, wire, worker
<1>2. hookLive \notin ended /\ status \in [Lives -> Statuses]
  BY <1>1 DEF CaptureInv, TypeOK, WorkerOK, OnlineOnce
<1>3. ActiveRows' = {hookLive}
  BY <1>1, <1>2 DEF ActiveRows
<1>4. \A k : Airing(k)' = Airing(k)
  BY <1>1 DEF Airing
<1> QED BY <1>1, <1>3, <1>4 DEF Followed

\* A row that ends is not on the air (InOrder), one that is finalised has ended.
LEMMA RowsFollowed ==
  ASSUME CaptureInv, Followed, InOrder',
         EndRow \/ Poll \/ Crash \/ \E l \in Lives : Finalize(l) \/ Sample(l)
  PROVE  Followed'
<1>1. /\ UNCHANGED <<begun, onAir, onlines, offlines, heard>>
      /\ \/ UNCHANGED <<hook, hookLive, hookRow>> /\ ended \subseteq ended'
         \/ /\ hook = "offline" /\ hook' = "idle" /\ status' = status
            /\ hookRow # 0 => ended' = ended \cup {hookRow}
            /\ hookRow = 0 => ended' = ended
  BY DEF EndRow, HookDone, Poll, Crash, Finalize, Sample, SampleLive, SampleEmpty,
     SampleDies, EndFromHelix, twitch, wire, api, table, worker
<1>2. \A k \in Lives : k \notin ended =>
        (status'[k] = "capturing" <=> status[k] = "capturing")
  <2>1. CASE \E l \in Lives : Finalize(l)
    BY <2>1 DEF Finalize, CaptureInv, TypeOK, WorkerOK
  <2>2. CASE ~\E l \in Lives : Finalize(l)
    BY <2>2 DEF EndRow, Poll, Crash, Sample, SampleLive, SampleEmpty, SampleDies,
       EndFromHelix, table
  <2> QED BY <2>1, <2>2
<1>3. \A k : Airing(k)' = Airing(k)
  BY <1>1 DEF Airing
<1>4. ActiveRows' \subseteq ActiveRows
  BY <1>1, <1>2 DEF ActiveRows
<1>5. \A k \in ActiveRows : Airing(k) => k \in ActiveRows'
  BY <1>2, <1>3 DEF ActiveRows, InOrder
<1>6. CASE UNCHANGED <<hook, hookLive, hookRow>>
  BY <1>1, <1>3, <1>4, <1>5, <1>6 DEF Followed
<1>7. CASE hook = "offline" /\ hook' = "idle" /\ (hookRow # 0 => hookRow \in ended')
  <2>1. \A k \in ActiveRows' : k # hookRow
    BY <1>7, BoundsAssumption DEF ActiveRows
  <2> QED BY <1>1, <1>3, <1>4, <1>5, <1>7, <2>1 DEF Followed
<1> QED BY <1>1, <1>6, <1>7

LEMMA FollowStep ==
  ASSUME CaptureInv, FollowInv, OrderInv', [Next]_vars PROVE FollowInv'
<1> SUFFICES ASSUME ordered', lost' = 0 PROVE Followed'
  BY DEF FollowInv
<1>1. ordered' = ordered
  BY DEF Next, GoLive, GoOff, Lose, Webhook, HearOnline, HearOffline, OpenRow,
     EndRow, Poll, Crash, Finalize, Sample, SampleLive, SampleEmpty, SampleDies,
     EndFromHelix, twitch, vars
<1>2. lost' = lost /\ ~Lose
  <2>1. lost \in Nat
    BY BoundsAssumption DEF CaptureInv, TypeOK
  <2>2. ~Lose
    BY <2>1 DEF Lose
  <2>3. lost' = lost
    BY <2>2 DEF Next, GoLive, GoOff, Webhook, HearOnline, HearOffline, OpenRow,
       EndRow, Poll, Crash, Finalize, Sample, SampleLive, SampleEmpty, SampleDies,
       EndFromHelix, wire, vars
  <2> QED BY <2>2, <2>3
<1>3. Followed /\ ordered /\ InOrder'
  BY <1>1, <1>2 DEF FollowInv, OrderInv
<1>4. CASE UNCHANGED vars
  BY <1>3, <1>4 DEF vars, Followed, ActiveRows, Airing
<1> QED BY <1>2, <1>3, <1>4, TwitchFollowed, HearFollowed, OpenRowFollowed,
     RowsFollowed DEF Next, Webhook

\* With notifications in order and none lost, each live heard of is captured in a
\* row of its own until it is over (start_stream, mark_stream_offline).
THEOREM OneRowPerLive ==
  ASSUME GlitchesCovered PROVE SafeSpec => []OwnRowWhileAiring
<1>1. Init => FollowInv
  BY DEF Init, FollowInv, Followed, ActiveRows, Airing
<1>2. CaptureInv /\ FollowInv /\ OrderInv' /\ [Next]_vars => FollowInv'
  BY FollowStep
<1>3. FollowInv => OwnRowWhileAiring
  BY DEF FollowInv, Followed, OwnRowWhileAiring
<1> QED BY <1>1, <1>2, <1>3, CaptureInvariant, OrderInvariant, PTL DEF SafeSpec

---------------------------------------------------------------------------
(* LiveCapture implements CaptureLifecycle (its safety part).              *)

\* Phase tells the four states of a row apart.
LEMMA PhaseOf ==
  ASSUME TypeOK, NEW l \in Lives
  PROVE  /\ Phase(l) = "none" <=> status[l] = "absent"
         /\ Phase(l) = "open" <=> l \in ActiveRows
         /\ Phase(l) = "over" <=> status[l] = "capturing" /\ l \in ended
         /\ Phase(l) = "handed" <=> status[l] = "queued"
<1>1. status[l] \in {"absent", "capturing", "queued"} BY DEF TypeOK
<1> QED BY <1>1 DEF Phase, ActiveRows

\* A step that leaves status, ended and jobs alone is a stutter.
LEMMA TableStutter ==
  ASSUME UNCHANGED table PROVE UNCHANGED CL!vars
<1>1. status' = status /\ ended' = ended /\ jobs' = jobs BY DEF table
<1>2. \A l \in Lives : Phase(l)' = Phase(l) BY <1>1 DEF Phase
<1> QED BY <1>1, <1>2 DEF CL!vars

\* A row that changes alone: the others show the phase they had.
LEMMA OthersStay ==
  ASSUME NEW l \in Lives, NEW k \in Lives, k # l,
         status'[k] = status[k], k \in ended' <=> k \in ended
  PROVE  Phase(k)' = Phase(k)
BY DEF Phase

\* start_stream's insert is Open, or nothing.
LEMMA OpenRowRefines ==
  ASSUME CaptureInv, CaptureInv', OpenRow PROVE [CL!Next]_CL!vars
<1>1. PICK l \in Lives : hookLive = l /\ status[l] = "absent"
  BY DEF OpenRow, CaptureInv, HookOK, OnlineOnce
<1>2. UNCHANGED <<ended, jobs>> /\ hook = "online" BY DEF OpenRow
<1>3. CASE hookRow # 0
  <2>1. UNCHANGED table BY <1>2, <1>3 DEF OpenRow, table
  <2> QED BY <2>1, TableStutter
<1>4. CASE hookRow = 0
  <2>1. status' = [status EXCEPT ![l] = "capturing"] /\ ActiveRows = {}
    BY <1>1, <1>2, <1>4 DEF OpenRow, CaptureInv, HookOK
  <2>2. l \notin ended BY <1>1 DEF CaptureInv, WorkerOK
  <2>3. Phase(l) = "none" BY <1>1 DEF Phase
  <2>4. \A k \in Lives : Phase(k) # "open"
    BY <2>1, PhaseOf DEF CaptureInv
  <2>5. Phase(l)' = "open"
    <3>1. status'[l] = "capturing" BY <2>1 DEF CaptureInv, TypeOK
    <3> QED BY <1>2, <2>2, <3>1 DEF Phase
  <2>6. \A k \in Lives : k # l => Phase(k)' = Phase(k)
    BY <1>2, <2>1, OthersStay DEF CaptureInv, TypeOK
  <2>7. CL!Open(l) BY <1>2, <2>3, <2>4, <2>5, <2>6 DEF CL!Open
  <2> QED BY <2>7 DEF CL!Next
<1> QED BY <1>3, <1>4

\* A write of ended_at, by mark_stream_offline or by the sampler, is End, or
\* nothing where the row had ended.
LEMMA EndingRefines ==
  ASSUME CaptureInv, NEW l \in Lives, status[l] # "absent",
         ended' = ended \cup {l}, UNCHANGED <<status, jobs>>
  PROVE  [CL!Next]_CL!vars
<1>1. CASE l \in ended
  <2>1. UNCHANGED table BY <1>1 DEF table
  <2> QED BY <2>1, TableStutter
<1>2. CASE l \notin ended
  <2>1. status[l] = "capturing"
    BY <1>2 DEF CaptureInv, TypeOK, FinalizedHasEnded
  <2>2. Phase(l) = "open" /\ Phase(l)' = "over" BY <1>2, <2>1 DEF Phase
  <2>3. \A k \in Lives : k # l => Phase(k)' = Phase(k) BY OthersStay
  <2>4. CL!End(l) BY <2>2, <2>3 DEF CL!End
  <2> QED BY <2>4 DEF CL!Next
<1> QED BY <1>1, <1>2

\* _finalize is HandOver.
LEMMA FinalizeRefines ==
  ASSUME CaptureInv, NEW l \in Lives, Finalize(l) PROVE CL!Next
<1>1. status[l] = "capturing" /\ l \in ended
  BY DEF Finalize, CaptureInv, WorkerOK
<1>2. /\ status' = [status EXCEPT ![l] = "queued"]
      /\ jobs' = [jobs EXCEPT ![l] = @ + 1] /\ ended' = ended
  BY DEF Finalize
<1>3. Phase(l) = "over" BY <1>1 DEF Phase
<1>4. Phase(l)' = "handed"
  <2>1. status'[l] = "queued" BY <1>2 DEF CaptureInv, TypeOK
  <2> QED BY <2>1 DEF Phase
<1>5. \A k \in Lives : k # l => Phase(k)' = Phase(k)
  BY <1>2, OthersStay DEF CaptureInv, TypeOK
<1>6. CL!HandOver(l) BY <1>2, <1>3, <1>4, <1>5 DEF CL!HandOver
<1> QED BY <1>6 DEF CL!Next

\* Every step of the capture is a step of CaptureLifecycle or a stutter.
LEMMA NextRefines ==
  ASSUME CaptureInv, CaptureInv', [Next]_vars PROVE [CL!Next]_CL!vars
<1>1. CASE GoLive \/ GoOff \/ Lose \/ Poll \/ Crash
  <2>1. UNCHANGED table BY <1>1 DEF GoLive, GoOff, Lose, Poll, Crash
  <2> QED BY <2>1, TableStutter
<1>2. CASE UNCHANGED vars
  <2>1. UNCHANGED table BY <1>2 DEF vars, table
  <2> QED BY <2>1, TableStutter
<1>3. ASSUME NEW l \in Lives, HearOnline(l) \/ HearOffline(l)
      PROVE  [CL!Next]_CL!vars
  <2>1. UNCHANGED table BY <1>3 DEF HearOnline, HearOffline
  <2> QED BY <2>1, TableStutter
<1>4. CASE OpenRow BY <1>4, OpenRowRefines
<1>5. CASE EndRow
  <2>1. UNCHANGED <<status, jobs>> BY <1>5 DEF EndRow
  <2>2. CASE hookRow = 0
    <3>1. UNCHANGED table BY <1>5, <2>1, <2>2 DEF EndRow, table
    <3> QED BY <3>1, TableStutter
  <2>3. CASE hookRow # 0
    <3>1. hookRow \in Lives /\ status[hookRow] # "absent"
      BY <2>3 DEF CaptureInv, TypeOK, HookOK
    <3>2. ended' = ended \cup {hookRow} BY <1>5, <2>3 DEF EndRow
    <3> QED BY <2>1, <3>1, <3>2, EndingRefines
  <2> QED BY <2>2, <2>3
<1>6. ASSUME NEW l \in Lives, Sample(l) PROVE [CL!Next]_CL!vars
  <2>1. CASE SampleLive(l) \/ SampleEmpty(l) \/ SampleDies(l)
    <3>1. UNCHANGED table BY <2>1 DEF SampleLive, SampleEmpty, SampleDies
    <3> QED BY <3>1, TableStutter
  <2>2. CASE EndFromHelix(l)
    <3>1. /\ UNCHANGED <<status, jobs>> /\ ended' = ended \cup {l}
          /\ sampler[l] # "none"
      BY <2>2 DEF EndFromHelix
    <3>2. status[l] # "absent" BY <3>1 DEF CaptureInv, WorkerOK
    <3> QED BY <3>1, <3>2, EndingRefines
  <2> QED BY <1>6, <2>1, <2>2 DEF Sample
<1> QED BY <1>1, <1>2, <1>3, <1>4, <1>5, <1>6, FinalizeRefines DEF Next, Webhook

\* However notifications, samples and deaths of the worker fall, every row goes
\* once from open to over to handed over, with one transcription, and none is
\* opened beside another (core/streams.py, workers/capture).
THEOREM CaptureImplementsLifecycle == SafeSpec => RowsInOrder
<1>1. Init => CL!Init
  BY DEF Init, CL!Init, Phase
<1>2. CaptureInv /\ CaptureInv' /\ [Next]_vars => [CL!Next]_CL!vars
  BY NextRefines
<1> QED
  BY <1>1, <1>2, CaptureInvariant, PTL DEF SafeSpec, RowsInOrder, CL!SafeSpec
=============================================================================
