---------------------------- MODULE FollowerSync ----------------------------
(***************************************************************************)
(* How the followers table of one channel is kept in step with Twitch's    *)
(* list: the pass of core/follower_sync.py that workers/followers/main.py  *)
(* runs, the follow notifications that insert rows beside it, and the      *)
(* sign-in that asks for a pass (apps/api/auth.py).                        *)
(*                                                                         *)
(* A pass walks the list page by page, each page in a commit of its own,   *)
(* while people follow and unfollow; it may be interrupted and resumed     *)
(* from the cursor.  Once it has reached the end, the rows it never saw    *)
(* are confirmed one by one and deleted.                                   *)
(*                                                                         *)
(* Times are kept only as they compare with the start of the pass: fresh   *)
(* are the rows with followed_at not before it, seen those with            *)
(* last_seen_at equal to it.  A new pass therefore starts with both empty. *)
(* An account that is gone is out of the list too, and is one departure    *)
(* among the others here.  The cool-off and the pacing only delay and are  *)
(* left out, and so are the profile fields.                                *)
(***************************************************************************)
EXTENDS Integers, FiniteSets

CONSTANTS
  Users,          \* accounts that may follow the channel
  Nobody,         \* not one of them
  PageSize,       \* followers in a page, at most
  AlwaysAllowed,  \* departures a pass may record (_too_many_to_believe)
  ConfirmLimit,   \* UNFOLLOW_CONFIRM_LIMIT
  MaxChanges,     \* bound: follows and unfollows
  MaxFaults,      \* bound: failed calls and worker crashes
  MaxRevokes      \* bound: times the streamer revokes the app's access

ASSUME LimitsAssumption ==
  /\ PageSize \in Nat \ {0} /\ ConfirmLimit \in Nat \ {0}
  /\ AlwaysAllowed \in Nat
  /\ MaxChanges \in Nat /\ MaxFaults \in Nat /\ MaxRevokes \in Nat

ASSUME UsersAssumption == IsFiniteSet(Users) /\ Nobody \notin Users

VARIABLES
  \* Twitch
  list,      \* who follows the channel
  ahead,     \* whom the stored cursor (or the first page) has still to return
  news,      \* users whose channel.follow notification is on its way
  recent,    \* users who last followed after the pass began
  away,      \* users not in the list at some time since the pass began
  good,      \* BOOLEAN: Twitch accepts the channel's stored grant
  \* channels and followers
  rows, fresh, seen,
  midway,    \* BOOLEAN: follower_sync_cursor is not null
  synced,    \* followers_synced_at: "null", "old" (due again) or "recent"
  error,     \* follower_sync_error, by what it is
  \* the api process
  hook,      \* the user whose notification is being handled, or Nobody
  hookNew,   \* no row was found for them
  login,     \* what a sign-in has read of the channel before its backfill
  \* the worker
  phase, mine, page, newcomers, last, note, todo, leave, found,
  changes, faults, revokes   \* counted against their bounds

twitch == <<list, ahead, news, recent, away, changes>>
grant  == <<good, mine, revokes>>
table  == <<rows, fresh, seen>>
state  == <<midway, synced, error>>
api    == <<hook, hookNew, login>>
memory == <<page, newcomers, last, note, todo, leave, found>>
vars   == <<list, ahead, news, recent, away, good, rows, fresh, seen, midway,
            synced, error, hook, hookNew, login, phase, mine, page, newcomers,
            last, note, todo, leave, found, changes, faults, revokes>>

\* "token": the channel waits for its owner; "refused": too many departures;
\* "other": a walk or an enrichment that failed.
Errors == {"none", "token", "refused", "other"}

Phases == {"idle", "selected", "walk", "page", "enrich", "reconcile", "confirm",
           "close"}

NoLogin == [busy |-> FALSE, token |-> FALSE, null |-> FALSE]

---------------------------------------------------------------------------
Init ==
  /\ list \in SUBSET Users /\ ahead = {} /\ news = {} /\ recent = {}
  /\ away = Users \ list /\ good = TRUE
  /\ rows = {} /\ fresh = {} /\ seen = {}
  /\ midway = FALSE /\ synced = "null" /\ error = "none"
  /\ hook = Nobody /\ hookNew = FALSE /\ login = NoLogin
  /\ phase = "idle" /\ mine = TRUE
  /\ page = {} /\ newcomers = {} /\ last = FALSE /\ note = "none"
  /\ todo = {} /\ leave = {} /\ found = {}
  /\ changes = 0 /\ faults = 0 /\ revokes = 0

\* People come to the head of the list ...
Follow(u) ==
  /\ u \notin list /\ u \notin news
  /\ changes < MaxChanges
  /\ changes' = changes + 1
  /\ list'   = list \cup {u}
  /\ news'   = news \cup {u}
  /\ recent' = recent \cup {u}
  /\ UNCHANGED <<ahead, away, grant, table, state, api, phase, memory, faults>>

\* ... and leave it anywhere, which moves those behind them up: one that was
\* about to be returned may slip over the cursor.
Unfollow(u) ==
  /\ u \in list
  /\ changes < MaxChanges
  /\ changes' = changes + 1
  /\ list' = list \ {u}
  /\ away' = away \cup {u}
  /\ IF u \in ahead THEN ahead' = ahead \ {u}
                    ELSE \/ ahead' = ahead
                         \/ \E v \in ahead : ahead' = ahead \ {v}
  /\ UNCHANGED <<news, recent, grant, table, state, api, phase, memory, faults>>

\* A notification that is lost, or dropped by the inbox.
LoseNews(u) ==
  /\ u \in news
  /\ news' = news \ {u}
  /\ UNCHANGED <<list, ahead, recent, away, changes, grant, table, state, api,
                 phase, memory, faults>>

\* The streamer disconnects the app: no token of it works any more.
Revoke ==
  /\ revokes < MaxRevokes
  /\ revokes' = revokes + 1
  /\ good' = FALSE /\ mine' = FALSE
  /\ UNCHANGED <<twitch, table, state, api, phase, memory, faults>>
---------------------------------------------------------------------------
\* The api process.

\* _upsert_follower looks for the follower ...
Hear(u) ==
  /\ hook = Nobody /\ u \in news
  /\ news' = news \ {u}
  /\ hook' = u /\ hookNew' = (u \notin rows)
  /\ UNCHANGED <<list, ahead, recent, away, changes, grant, table, state, login,
                 phase, memory, faults>>

\* ... and inserts it if there was none (should the walk have inserted it in
\* between, the index refuses this one and the row is there all the same).
Insert ==
  /\ hook # Nobody
  /\ IF hookNew /\ hook \notin rows
       THEN /\ rows'  = rows \cup {hook}
            /\ fresh' = fresh \cup ({hook} \cap recent)
       ELSE UNCHANGED <<rows, fresh>>
  /\ hook' = Nobody /\ hookNew' = FALSE
  /\ UNCHANGED <<twitch, grant, seen, state, login, phase, memory, faults>>

\* The streamer signs in: upsert_channel reads the channel and stores a grant.
SignIn ==
  /\ ~login.busy
  /\ good' = TRUE
  /\ login' = [busy |-> TRUE, token |-> error = "token", null |-> synced = "null"]
  /\ UNCHANGED <<twitch, mine, revokes, table, state, hook, hookNew, phase,
                 memory, faults>>

\* request_sync, after the backfill: by the channel as sign-in read it, or read
\* again where a backfill step was rolled back.  What was null is not written.
RequestSync ==
  /\ login.busy
  /\ \/ /\ error'  = IF login.token THEN "none" ELSE error
        /\ synced' = IF login.null THEN synced ELSE "null"
     \/ /\ error'  = IF error = "token" THEN "none" ELSE error
        /\ synced' = "null"
  /\ login' = NoLogin
  /\ UNCHANGED <<twitch, grant, table, midway, hook, hookNew, phase, memory,
                 faults>>
---------------------------------------------------------------------------
\* The worker.

\* SYNC_INTERVAL has gone by.
Age ==
  /\ synced = "recent"
  /\ synced' = "old"
  /\ UNCHANGED <<twitch, grant, table, midway, error, api, phase, memory, faults>>

Forget == /\ page' = {} /\ newcomers' = {} /\ last' = FALSE
          /\ note' = "none" /\ todo' = {} /\ leave' = {} /\ found' = {}

\* Seeded fault: a channel whose last pass failed is not due.
Due_NoErrors == synced # "recent" /\ error = "none"

\* channels_due.
Due == synced # "recent" /\ error # "token"

\* The worker reads the due channels, this one with its grant.
Select ==
  /\ phase = "idle"
  /\ Due
  /\ phase' = "selected"
  /\ mine' = good
  /\ UNCHANGED <<twitch, good, revokes, table, state, api, memory, faults>>

\* Seeded fault: a walk is never resumed.
Resume_Never == FALSE

\* sync_channel finds a cursor.
Resume == midway

\* Where the pass begins: at the cursor, or at the head of the list, from now.
Begin ==
  /\ phase = "selected"
  /\ phase' = "walk"
  /\ IF Resume
       THEN UNCHANGED <<ahead, recent, away, fresh, seen>>
       ELSE /\ ahead'  = list
            /\ recent' = {}
            /\ away'   = Users \ list
            /\ fresh'  = {} /\ seen' = {}
  /\ UNCHANGED <<list, news, changes, grant, rows, state, api, memory, faults>>

\* ensure_fresh_token fails, refused by Twitch or on the way to it: the token
\* error is recorded either way.
NoToken ==
  /\ phase = "selected"
  /\ \/ ~mine /\ UNCHANGED faults
     \/ faults < MaxFaults /\ faults' = faults + 1
  /\ error' = "token"
  /\ phase' = "idle"
  /\ UNCHANGED <<twitch, grant, table, midway, synced, api, memory>>

\* A page arrives and _store_page looks up its rows.
Fetch ==
  /\ phase = "walk"
  /\ \E P \in SUBSET ahead :
       /\ Cardinality(P) <= PageSize
       /\ P = {} => ahead = {}
       /\ page' = P
       /\ newcomers' = P \ rows
       /\ last' = (P = ahead)
  /\ phase' = "page"
  /\ UNCHANGED <<twitch, grant, table, state, api, note, todo, leave, found, faults>>

\* A notification has inserted a row of the page since it was looked up.
Collision == newcomers \cap rows # {}

\* The page, its marks and the cursor are committed.
Store ==
  /\ phase = "page"
  /\ ~Collision
  /\ rows'  = rows \cup page
  /\ seen'  = seen \cup page
  /\ fresh' = fresh \cup (newcomers \cap recent)
  /\ ahead' = IF last THEN {} ELSE ahead \ page
  /\ midway' = ~last
  /\ error' = "none"
  /\ phase' = IF last THEN "enrich" ELSE "walk"
  /\ Forget
  /\ UNCHANGED <<list, news, recent, away, changes, grant, synced, api, faults>>

\* The walk fails: a collision, a refused token, or a call that fails.
Interrupt ==
  /\ \/ phase = "page" /\ Collision /\ UNCHANGED faults
     \/ phase = "walk" /\ ~mine /\ UNCHANGED faults
     \/ phase \in {"walk", "page"} /\ faults < MaxFaults /\ faults' = faults + 1
  /\ error' = "other"
  /\ phase' = "idle"
  /\ Forget
  /\ UNCHANGED <<twitch, grant, table, midway, synced, api>>

\* _enrich_best_effort: a failure leaves a note and nothing else.
Enrich ==
  /\ phase = "enrich"
  /\ \/ UNCHANGED <<note, faults>>
     \/ faults < MaxFaults /\ faults' = faults + 1 /\ note' = "other"
  /\ phase' = "reconcile"
  /\ UNCHANGED <<twitch, grant, table, state, api, page, newcomers, last, todo,
                 leave, found>>

\* The rows the pass never saw and could have seen.
Candidates == rows \ (seen \cup fresh)

\* _too_many_to_believe.  AlwaysAllowed stands for the larger of its two
\* limits, the fixed one and a quarter of the reported total.
TooMany == Cardinality(Candidates) > AlwaysAllowed

\* _reconcile_unfollows has nobody to confirm, or refuses.
SkipConfirm ==
  /\ phase = "reconcile"
  /\ Candidates = {} \/ TooMany
  /\ note' = IF TooMany THEN "refused" ELSE note
  /\ phase' = "close"
  /\ UNCHANGED <<twitch, grant, table, state, api, page, newcomers, last, todo,
                 leave, found, faults>>

\* It takes a batch and asks which accounts still exist; one that does not is
\* gone without another question.
TakeBatch ==
  /\ phase = "reconcile"
  /\ Candidates # {} /\ ~TooMany
  /\ \E B \in SUBSET Candidates :
       /\ Cardinality(B) <= ConfirmLimit
       /\ B # Candidates => Cardinality(B) = ConfirmLimit
       /\ \E D \in SUBSET (B \ list) :
            todo' = B \ D /\ leave' = D
  /\ phase' = "confirm"
  /\ UNCHANGED <<twitch, grant, table, state, api, page, newcomers, last, note,
                 found, faults>>

\* Seeded fault: nobody is asked.
Confirm_Unasked(u) ==
  /\ phase = "confirm" /\ u \in todo
  /\ todo' = todo \ {u}
  /\ leave' = leave \cup {u}
  /\ UNCHANGED <<twitch, grant, table, state, api, phase, page, newcomers, last,
                 note, found, faults>>

\* _still_follows.
Confirm(u) ==
  /\ phase = "confirm" /\ u \in todo
  /\ todo' = todo \ {u}
  /\ IF u \in list
       THEN found' = found \cup {u} /\ UNCHANGED leave
       ELSE leave' = leave \cup {u} /\ UNCHANGED found
  /\ UNCHANGED <<twitch, grant, table, state, api, phase, page, newcomers, last,
                 note, faults>>

Noted == IF note = "none" THEN error ELSE note

\* The departures are committed.
RecordGone ==
  /\ phase = "confirm" /\ todo = {}
  /\ rows'  = rows \ leave
  /\ fresh' = fresh \ leave
  /\ seen'  = (seen \ leave) \cup found
  /\ error' = Noted
  /\ phase' = "close"
  /\ Forget
  /\ UNCHANGED <<twitch, grant, midway, synced, api, faults>>

\* The pass is stamped as done.
Close ==
  /\ phase = "close"
  /\ midway' = FALSE
  /\ synced' = "recent"
  /\ error' = Noted
  /\ phase' = "idle"
  /\ Forget
  /\ UNCHANGED <<twitch, grant, table, api, faults>>

\* A call fails after the walk: _sync_one rolls back and goes on.
Abandon ==
  /\ \/ phase = "confirm"
     \/ phase = "reconcile" /\ Candidates # {} /\ ~TooMany
  /\ \/ ~mine /\ UNCHANGED faults
     \/ faults < MaxFaults /\ faults' = faults + 1
  /\ phase' = "idle"
  /\ Forget
  /\ UNCHANGED <<twitch, grant, table, state, api>>

\* The worker is killed and started again.
Crash ==
  /\ phase # "idle"
  /\ faults < MaxFaults
  /\ faults' = faults + 1
  /\ phase' = "idle"
  /\ Forget
  /\ UNCHANGED <<twitch, grant, table, state, api>>

Outside == \/ \E u \in Users : Follow(u) \/ Unfollow(u) \/ LoseNews(u) \/ Hear(u)
           \/ Revoke \/ Insert \/ SignIn \/ RequestSync \/ Age

\* What the worker does when nothing fails.
Work == \/ Select \/ Begin \/ Fetch \/ Store \/ Enrich \/ SkipConfirm \/ TakeBatch
        \/ (\E u \in Users : Confirm(u)) \/ RecordGone \/ Close

Next == Outside \/ Work \/ NoToken \/ Interrupt \/ Abandon \/ Crash

\* The loop of the worker goes on, its calls are answered or fail, and hours
\* go by.  A stored access token expires, so a grant Twitch refuses is found
\* out in the end.
Fairness ==
  /\ WF_vars(Work \/ Interrupt)
  /\ WF_vars(Age)
  /\ SF_vars(~mine /\ NoToken)

SafeSpec == Init /\ [][Next]_vars

Spec == SafeSpec /\ Fairness
---------------------------------------------------------------------------
\* Properties.

TypeOK ==
  /\ list \subseteq Users /\ ahead \subseteq list /\ news \subseteq Users
  /\ recent \subseteq Users /\ away \subseteq Users
  /\ good \in BOOLEAN /\ mine \in BOOLEAN
  /\ rows \subseteq Users /\ fresh \subseteq rows /\ seen \subseteq rows
  /\ midway \in BOOLEAN /\ synced \in {"null", "old", "recent"}
  /\ error \in Errors /\ note \in Errors
  /\ hook \in Users \cup {Nobody} /\ hookNew \in BOOLEAN
  /\ login \in [busy : BOOLEAN, token : BOOLEAN, null : BOOLEAN]
  /\ phase \in Phases /\ last \in BOOLEAN
  /\ page \subseteq Users /\ newcomers \subseteq page
  /\ todo \subseteq Users /\ leave \subseteq Users /\ found \subseteq Users
  /\ changes \in 0..MaxChanges /\ faults \in 0..MaxFaults
  /\ revokes \in 0..MaxRevokes

\* "dropping a real follower over a paging artefact is worse": the row of
\* someone who has followed ever since the pass began is never deleted,
\* however the list moved under the walk, and whenever the walk was
\* interrupted, restarted and resumed.
GoneWereAway == [][rows \ rows' \subseteq away]_vars

\* "the cursor lives in the database, so a restart resumes instead of
\* restarting": while a cursor is stored no page of the walk is forgotten.
RestartResumes ==
  [][midway => seen \subseteq seen' /\ ahead' \subseteq ahead]_vars

\* "Whether this channel's last sync failed for a reason only its owner can
\* fix" (needs_reconnect).
OnlyOwnerCanFix == error = "token" => ~good

\* Once people stop coming and going the table becomes Twitch's list, whatever
\* pages, calls and workers failed meanwhile: unless the channel waits for its
\* owner, or its departures are refused, for ever.
RowsConverge ==
  \/ <>[](rows = list)
  \/ []<>(error \in {"token", "refused"})

---------------------------------------------------------------------------
\* The inductive invariant behind TypeOK, GoneWereAway and RestartResumes.

\* Whoever is not in the list has been away, and those about to be recorded as
\* gone were found so.
AwayOK == Users \ list \subseteq away /\ leave \subseteq away

\* The candidates in hand still have their rows, and each has one fate.
BatchOK ==
  /\ todo \subseteq rows /\ leave \subseteq rows /\ found \subseteq rows
  /\ todo \cap leave = {} /\ todo \cap found = {} /\ leave \cap found = {}
  /\ phase # "confirm" => leave = {} /\ found = {}

\* No cursor is stored once the walk is over.
WalkOver == phase \in {"enrich", "reconcile", "confirm", "close"} => ~midway

IInv == TypeOK /\ AwayOK /\ BatchOK /\ WalkOver
=============================================================================
