----------------------------- MODULE TipsSync -----------------------------
(***************************************************************************)
(* The sync of a channel's StreamElements money (core/integrations/tips.py *)
(* and streamelements.py, apps/api/integrations.py): tips, then merchandise*)
(* sales, then the loyalty table, each fetched and committed on its own.   *)
(* It runs when the streamer connects, again at every connect; two connects*)
(* may overlap, and each may act between the answer of StreamElements to   *)
(* the other and what the other reads and writes next.                     *)
(*                                                                         *)
(* A sale is of a kind and made at a time, and is listed by StreamElements *)
(* from then on; sales are numbered in order.  The legacy JWT and the      *)
(* refresh of the OAuth token are left out: either gives a header or fails *)
(* the fetch.                                                              *)
(***************************************************************************)
EXTENDS Integers, FiniteSets

CONSTANTS
  Syncs,       \* the requests that may sync
  Kinds,       \* {"tip", "merch"}
  PageCap,     \* MAX_PAGES * PAGE_LIMIT: how many rows a fetch brings
  MaxSales,    \* bound: sales made
  MaxClock,    \* bound: the clock stops here
  MaxFailures  \* bound: fetches that fail

ASSUME TipsAssumption ==
  Kinds = {"tip", "merch"} /\ {PageCap, MaxSales, MaxClock, MaxFailures} \subseteq Nat

VARIABLES
  tick,
  sales,      \* what StreamElements lists: [id, kind, at]
  tipRows,    \* the external_ids in external_tips
  cursor,     \* channels.streamelements_synced_at; -1 before the first sync
  stage,      \* [Syncs -> Stages]
  since,      \* [Syncs -> the cursor it read]
  page,       \* [Syncs -> sales fetched and not yet committed]
  found,      \* [Syncs -> the ids it found stored]
  before,     \* [Syncs -> the sales made before it began]
  whole,      \* [Syncs -> BOOLEAN: the cap has cut none of its fetches]
  failures

memory == <<since, page, found, before, whole>>   \* of the requests
tipsVars == <<tick, sales, tipRows, cursor, stage, memory, failures>>

\* "listed": StreamElements has answered; "checked": so has the table.  "merch":
\* the tips are committed; "loyalty": so are the sales.
Stages == {"off", "tips", "tips listed", "tips checked",
           "merch", "merch listed", "merch checked", "loyalty"}

\* What there is to fetch, "or all, capped".
Listed(kind, after) == {s \in sales : s.kind = kind /\ s.at >= after}

\* The tips over the cap, which are asked for by their time, the oldest first.
Cut(listed) == {s \in listed : Cardinality({r \in listed : r.id < s.id}) >= PageCap}

IdsOf(S) == {s.id : s \in S}

---------------------------------------------------------------------------
TipsInit ==
  /\ tick = 0 /\ sales = {} /\ tipRows = {} /\ cursor = -1
  /\ stage = [c \in Syncs |-> "off"]
  /\ since = [c \in Syncs |-> -1]
  /\ page  = [c \in Syncs |-> {}]
  /\ found = [c \in Syncs |-> {}]
  /\ before = [c \in Syncs |-> {}]
  /\ whole = [c \in Syncs |-> TRUE]
  /\ failures = 0

Pass ==
  /\ tick < MaxClock /\ tick' = tick + 1
  /\ UNCHANGED <<sales, tipRows, cursor, stage, memory, failures>>

\* A viewer tips or buys.
Sell(kind) ==
  /\ Cardinality(sales) < MaxSales
  /\ sales' = sales \cup {[id |-> Cardinality(sales) + 1, kind |-> kind, at |-> tick]}
  /\ UNCHANGED <<tick, tipRows, cursor, stage, memory, failures>>

\* set_streamelements_oauth, and sync_streamelements: the cursor of before.
Connect(c) ==
  /\ stage[c] = "off"
  /\ stage'  = [stage EXCEPT ![c] = "tips"]
  /\ since'  = [since EXCEPT ![c] = cursor]
  /\ before' = [before EXCEPT ![c] = sales]
  /\ UNCHANGED <<tick, sales, tipRows, cursor, page, found, whole, failures>>

\* StreamElements answers with some of what there is to list.
Fetch(c, listed, kept) ==
  /\ page'  = [page EXCEPT ![c] = kept]
  /\ whole' = [whole EXCEPT ![c] = @ /\ kept = listed]
  /\ UNCHANGED <<tick, sales, tipRows, cursor, since, found, before, failures>>

FetchTips(c) ==
  /\ stage[c] = "tips"
  /\ stage' = [stage EXCEPT ![c] = "tips listed"]
  /\ LET listed == Listed("tip", since[c]) IN Fetch(c, listed, listed \ Cut(listed))

\* The feed has the channel's other activities too, in an order of its own, and
\* the cap counts them all: of the sales, any may be left out.
Feed(c, listed) ==
  \E kept \in SUBSET listed : Cardinality(kept) <= PageCap /\ Fetch(c, listed, kept)

\* Seeded fault: sales are asked for from the cursor the tips have moved.
FetchMerch_NewCursor(c) ==
  /\ stage[c] = "merch"
  /\ stage' = [stage EXCEPT ![c] = "merch listed"]
  /\ Feed(c, Listed("merch", cursor))

FetchMerch(c) ==
  /\ stage[c] = "merch"
  /\ stage' = [stage EXCEPT ![c] = "merch listed"]
  /\ Feed(c, Listed("merch", since[c]))

\* _stored_external_ids, read when the answer has come.
Check(c) ==
  /\ \/ stage[c] = "tips listed"  /\ stage' = [stage EXCEPT ![c] = "tips checked"]
     \/ stage[c] = "merch listed" /\ stage' = [stage EXCEPT ![c] = "merch checked"]
  /\ found' = [found EXCEPT ![c] = tipRows]
  /\ UNCHANGED <<tick, sales, tipRows, cursor, since, page, before, whole, failures>>

\* The rows not found stored; the unique external_id refuses those that another
\* sync has stored meanwhile.
New(c) == IdsOf(page[c]) \ found[c]

StoreNew(c, next) ==
  /\ New(c) \cap tipRows = {}
  /\ tipRows' = tipRows \cup New(c)
  /\ stage' = [stage EXCEPT ![c] = next]
  /\ page'  = [page EXCEPT ![c] = {}]
  /\ found' = [found EXCEPT ![c] = {}]
  /\ UNCHANGED <<tick, sales, since, before, whole, failures>>

StoreTips(c) ==
  /\ stage[c] = "tips checked"
  /\ cursor' = tick
  /\ StoreNew(c, "merch")

StoreMerch(c) ==
  /\ stage[c] = "merch checked"
  /\ StoreNew(c, "loyalty")
  /\ UNCHANGED cursor

\* The request is over, and what it knew with it.
EndSync(c) ==
  /\ stage'  = [stage EXCEPT ![c] = "off"]
  /\ since'  = [since EXCEPT ![c] = -1]
  /\ page'   = [page EXCEPT ![c] = {}]
  /\ found'  = [found EXCEPT ![c] = {}]
  /\ before' = [before EXCEPT ![c] = {}]
  /\ whole'  = [whole EXCEPT ![c] = TRUE]
  /\ UNCHANGED <<tick, sales, tipRows, cursor>>

\* The leaderboard is replaced.
SyncLoyalty(c) ==
  /\ stage[c] = "loyalty"
  /\ EndSync(c)
  /\ UNCHANGED failures

\* A fetch or a commit fails, and what comes after it is not tried.
FailSync(c) ==
  /\ \/ stage[c] \in {"tips checked", "merch checked"} /\ New(c) \cap tipRows # {}
        /\ UNCHANGED failures
     \/ stage[c] # "off" /\ failures < MaxFailures /\ failures' = failures + 1
  /\ EndSync(c)

TipsNext ==
  \/ Pass
  \/ \E k \in Kinds : Sell(k)
  \/ \E c \in Syncs : Connect(c) \/ FetchTips(c) \/ Check(c) \/ StoreTips(c)
                        \/ FetchMerch(c) \/ StoreMerch(c) \/ SyncLoyalty(c) \/ FailSync(c)

TipsSpec == TipsInit /\ [][TipsNext]_tipsVars

---------------------------------------------------------------------------
\* The sales of a kind a sync is to store: made before it began, and since its cursor.
Window(c, kind) == {s \in before[c] : s.kind = kind /\ s.at >= since[c]}

\* "Merch/loyalty use the pre-tips cursor so tips advancing `synced_at` can't make
\* them skip a window": a sync none of whose fetches the cap has cut has stored,
\* when it is past the tips, every tip of its window and, when it is past the
\* sales, every sale, whatever another sync has stored or moved meanwhile.
SyncStoresItsWindow == \A c \in Syncs : whole[c] =>
  /\ stage[c] \in {"merch", "merch listed", "merch checked", "loyalty"} =>
       IdsOf(Window(c, "tip")) \subseteq tipRows
  /\ stage[c] = "loyalty" => IdsOf(Window(c, "merch")) \subseteq tipRows

\* What a failed connect is said to cost: "a StreamElements hiccup must not fail the
\* connect, and the next sync retries" (apps/api/integrations.py).  A sync that has
\* stored the sales, with no fetch cut, leaves none out that was made before it.
NextSyncRetries == \A c \in Syncs : whole[c] /\ stage[c] = "loyalty" =>
  \A s \in before[c] : s.kind = "merch" => s.id \in tipRows
===========================================================================
