--------------------------- MODULE EventSubInbox ---------------------------
(***************************************************************************)
(* The webhook inbox: how often a notification that Twitch retries until   *)
(* it is answered is handled (apps/api/eventsub.py and core/eventsub.py).  *)
(*                                                                         *)
(* eventsub_messages is rows and receivedAt; followers is the part of the  *)
(* followers table that the follow notifications are about, where the      *)
(* follower sync inserts too (FollowerSync has the rest of its pass).  A   *)
(* handler is an api process inside eventsub_callback: the routine checks  *)
(* the age of the message, claims its id in a commit of its own, reads     *)
(* whether the follower is known, and commits what the notification        *)
(* writes.  Each of these is a step, because the database separates them   *)
(* and the process may die between them.                                   *)
(* There is one handler process but for the overlap of a redeploy.         *)
(*                                                                         *)
(* Three clocks stamp a message: Twitch's (sentAt), the api's (now) and    *)
(* the database's (receivedAt, a server default).  Signatures, message     *)
(* types other than notification and the bodies are left out; so is what   *)
(* each notification writes, except a follow's row.                        *)
(***************************************************************************)
EXTENDS Integers, FiniteSets

CONSTANTS
  Messages,      \* notifications Twitch may send
  Users,         \* users the follow notifications are about
  Follows,       \* the messages that are channel.follow
  UserOf,        \* the user of each of them
  Handlers,      \* api processes
  MaxAge,        \* MESSAGE_MAX_AGE_SECONDS
  DedupTTL,      \* DEDUP_TTL_SECONDS
  SenderAhead,   \* Twitch's clock is at most this far ahead of the api's
  DbAhead,       \* the database's clock is this far ahead of the api's
  MaxDelay,      \* time from the age check to the claim, at most
  MaxTime        \* bound: time stops here

ASSUME MessagesAssumption ==
  /\ Follows \subseteq Messages
  /\ UserOf \in [Follows -> Users]

ASSUME ClocksAssumption ==
  /\ MaxAge \in Nat /\ DedupTTL \in Nat /\ SenderAhead \in Nat
  /\ DbAhead \in Int /\ MaxDelay \in Nat /\ MaxTime \in Nat
  /\ 0 <= DbAhead + DedupTTL   \* the database is not a whole window behind

ASSUME HandlersAssumption == IsFiniteSet(Handlers)

VARIABLES
  now,          \* the api's clock
  sent,         \* the messages Twitch has sent
  sentAt,       \* [Messages -> Int]  Twitch-Eventsub-Message-Timestamp
  rows,         \* the ids in eventsub_messages
  receivedAt,   \* [Messages -> Int]  eventsub_messages.received_at
  followers,    \* users with a row in followers
  handled,      \* [Messages -> Nat]  commits of what the message writes
  answered,     \* messages Twitch has a 204 for
  dropped,      \* messages whose handling was given up after the claim
  pc,           \* [Handlers -> Locations]
  msg,          \* [Handlers -> Messages]  the message in hand
  at,           \* [Handlers -> Int]       when its age was checked
  known         \* [Handlers -> BOOLEAN]   already_following, as read

table == <<rows, receivedAt>>
hand  == <<pc, msg, at, known>>
wire  == <<sent, sentAt>>
vars  == <<now, sent, sentAt, rows, receivedAt, followers, handled, answered,
           dropped, pc, msg, at, known>>

Locations == {"idle", "fresh", "claimed", "read"}

\* A handler that has claimed its message and not yet committed.
AtWork == {"claimed", "read"}

---------------------------------------------------------------------------
Init ==
  /\ now        = 0
  /\ sent       = {}
  /\ sentAt     = [m \in Messages |-> 0]
  /\ rows       = {}
  /\ receivedAt = [m \in Messages |-> 0]
  /\ followers  = {}
  /\ handled    = [m \in Messages |-> 0]
  /\ answered   = {}
  /\ dropped    = {}
  /\ pc         = [h \in Handlers |-> "idle"]
  /\ msg        \in [Handlers -> Messages]
  /\ at         = [h \in Handlers |-> 0]
  /\ known      = [h \in Handlers |-> FALSE]

\* Time passes, but a handler is not kept longer than MaxDelay on its way from
\* the age check to the claim.
Tick ==
  /\ now < MaxTime
  /\ \A h \in Handlers : pc[h] = "fresh" => now < at[h] + MaxDelay
  /\ now' = now + 1
  /\ UNCHANGED <<wire, table, followers, handled, answered, dropped, hand>>

\* Twitch sends m for the first time, stamped by its own clock.
Send(m) ==
  /\ m \notin sent
  /\ sent' = sent \cup {m}
  /\ sentAt' = [sentAt EXCEPT ![m] = now + SenderAhead]
  /\ UNCHANGED <<now, table, followers, handled, answered, dropped, hand>>

\* timestamp_is_fresh.
Fresh(m) == now - sentAt[m] <= MaxAge /\ sentAt[m] - now <= MaxAge

\* A delivery of m, the first or a retry, passes the age check.
Receive(h, m) ==
  /\ pc[h] = "idle"
  /\ m \in sent
  /\ Fresh(m)
  /\ pc'  = [pc EXCEPT ![h] = "fresh"]
  /\ msg' = [msg EXCEPT ![h] = m]
  /\ at'  = [at EXCEPT ![h] = now]
  /\ UNCHANGED <<now, wire, table, followers, handled, answered, dropped, known>>

\* Seeded fault: nothing is pruned.
Kept_All == rows

\* What the DELETE of claim_message leaves.
Kept == {m \in rows : receivedAt[m] >= now - DedupTTL}

\* Seeded fault: the claim is not conditional.
Claim_Always(h) ==
  LET m == msg[h]
  IN  /\ pc[h] = "fresh"
      /\ rows' = Kept \cup {m}
      /\ receivedAt' = [receivedAt EXCEPT ![m] = now + DbAhead]
      /\ pc' = [pc EXCEPT ![h] = "claimed"]
      /\ UNCHANGED <<now, wire, followers, handled, answered, dropped, msg, at,
                     known>>

\* claim_message finds no row for the id: it inserts one and commits.
Claim(h) ==
  LET m == msg[h]
  IN  /\ pc[h] = "fresh"
      /\ m \notin Kept
      /\ rows' = Kept \cup {m}
      /\ receivedAt' = [receivedAt EXCEPT ![m] = now + DbAhead]
      /\ pc' = [pc EXCEPT ![h] = "claimed"]
      /\ UNCHANGED <<now, wire, followers, handled, answered, dropped, msg, at,
                     known>>

\* Seeded fault: what is not a duplicate is answered as one.
Duplicate_Any(h) ==
  /\ pc[h] = "fresh"
  /\ rows' = Kept
  /\ \/ answered' = answered \cup {msg[h]}
     \/ UNCHANGED answered
  /\ pc' = [pc EXCEPT ![h] = "idle"]
  /\ UNCHANGED <<now, wire, receivedAt, followers, handled, dropped, msg, at,
                 known>>

\* claim_message finds the id claimed: 204, and nothing is handled.
Duplicate(h) ==
  /\ pc[h] = "fresh"
  /\ msg[h] \in Kept
  /\ rows' = Kept
  /\ \/ answered' = answered \cup {msg[h]}
     \/ UNCHANGED answered
  /\ pc' = [pc EXCEPT ![h] = "idle"]
  /\ UNCHANGED <<now, wire, receivedAt, followers, handled, dropped, msg, at,
                 known>>

\* The handler of the notification reads what it needs: for a follow, whether
\* the follower is there already.
Read(h) ==
  /\ pc[h] = "claimed"
  /\ known' = [known EXCEPT ![h] =
                 msg[h] \in Follows => UserOf[msg[h]] \in followers]
  /\ pc' = [pc EXCEPT ![h] = "read"]
  /\ UNCHANGED <<now, wire, table, followers, handled, answered, dropped, msg, at>>

\* Another transaction has inserted the follower this one is about to insert.
Collides(h) == ~known[h] /\ UserOf[msg[h]] \in followers

\* The transaction commits; the 204 reaches Twitch, or is lost.
Commit(h) ==
  LET m == msg[h]
  IN  /\ pc[h] = "read"
      /\ ~Collides(h)
      /\ handled' = [handled EXCEPT ![m] = @ + 1]
      /\ followers' = IF known[h] THEN followers ELSE followers \cup {UserOf[m]}
      /\ \/ answered' = answered \cup {m}
         \/ UNCHANGED answered
      /\ pc' = [pc EXCEPT ![h] = "idle"]
      /\ UNCHANGED <<now, wire, table, dropped, msg, at, known>>

\* The unique index refuses the insert, the body lacks a field the handler
\* reads, or the process dies: the transaction is lost, the claim stays.
GiveUp(h) ==
  /\ pc[h] \in AtWork
  /\ dropped' = dropped \cup {msg[h]}
  /\ pc' = [pc EXCEPT ![h] = "idle"]
  /\ UNCHANGED <<now, wire, table, followers, handled, answered, msg, at, known>>

\* The process dies before the claim.
Crash(h) ==
  /\ pc[h] = "fresh"
  /\ pc' = [pc EXCEPT ![h] = "idle"]
  /\ UNCHANGED <<now, wire, table, followers, handled, answered, dropped, msg, at,
                 known>>

\* The follower sync inserts a follower it finds in Twitch's list.
SyncInsert(u) ==
  /\ u \notin followers
  /\ \E m \in Follows \cap sent : UserOf[m] = u
  /\ followers' = followers \cup {u}
  /\ UNCHANGED <<now, wire, table, handled, answered, dropped, hand>>

Handle(h) == \/ \E m \in Messages : Receive(h, m)
             \/ Claim(h) \/ Duplicate(h) \/ Read(h) \/ Commit(h)
             \/ GiveUp(h) \/ Crash(h)

Next == \/ Tick
        \/ \E m \in Messages : Send(m)
        \/ \E h \in Handlers : Handle(h)
        \/ \E u \in Users : SyncInsert(u)

Spec == Init /\ [][Next]_vars
---------------------------------------------------------------------------
\* Properties.

TypeOK ==
  /\ now        \in Nat
  /\ sent       \subseteq Messages
  /\ sentAt     \in [Messages -> Int]
  /\ rows       \subseteq Messages
  /\ receivedAt \in [Messages -> Int]
  /\ followers  \subseteq Users
  /\ handled    \in [Messages -> Nat]
  /\ answered   \subseteq Messages
  /\ dropped    \subseteq Messages
  /\ pc         \in [Handlers -> Locations]
  /\ msg        \in [Handlers -> Messages]
  /\ at         \in [Handlers -> Int]
  /\ known      \in [Handlers -> BOOLEAN]
  /\ \A h \in Handlers : pc[h] = "read" /\ ~known[h] => msg[h] \in Follows

\* The handlers at work on m, and how often m has been handled or is in hand.
Hands(m) == {h \in Handlers : pc[h] \in AtWork /\ msg[h] = m}
Takes(m) == handled[m] + Cardinality(Hands(m))

\* What the documents say: however often Twitch retries a notification, and
\* whichever processes the retries reach, what it writes is committed at most once
\* ("Message ids already processed, so Twitch's retries are dropped",
\* EventSubMessage).  A claim is kept no longer than a delivery is let through,
\* and pruned by another clock or a moment later: it does not hold.
HandledAtMostOnce == \A m \in Messages : handled[m] <= 1

\* What holds for any retries, processes and crashes: each time a notification is
\* taken after the first costs the whole time a row is kept, by the database's
\* clock, and the deliveries that are let through are over after MaxAge and the
\* delays.  With the 600 s of the code, and clocks and delays that differ by less
\* than ten minutes, that is twice at most, and once within the window.
RepeatsSpaced ==
  \A m \in Messages :
    (Takes(m) - 1) * (DedupTTL + DbAhead + 1) <= SenderAhead + MaxAge + MaxDelay

\* "the table is a fixed-size window": no two rows are further apart than the
\* time a row is kept.
TableIsAWindow ==
  \A m, n \in rows : receivedAt[n] - receivedAt[m] <= DbAhead + DedupTTL

\* Twitch stops retrying once it is answered, so what it was answered must be
\* handled, be in hand, or be one of the messages given up after the claim.
AnsweredAccountedFor ==
  \A m \in answered :
    \/ handled[m] > 0
    \/ m \in dropped
    \/ \E h \in Handlers : pc[h] \in AtWork /\ msg[h] = m

\* ... and the last case should not exist: "Returns False when this message id
\* was already processed (Twitch retries)" (claim_message).
AnsweredMeansProcessed ==
  \A m \in answered :
    \/ handled[m] > 0
    \/ \E h \in Handlers : pc[h] \in AtWork /\ msg[h] = m

---------------------------------------------------------------------------
\* The inductive invariant behind RepeatsSpaced.  The time a row bears tells how
\* often its message can have been taken so far; it is kept here when the row is
\* pruned, for nothing but another claim overwrites it.

Spaced(m) ==
  /\ sentAt[m] - SenderAhead + (Takes(m) - 1) * (DedupTTL + DbAhead + 1)
       <= receivedAt[m] - DbAhead
  /\ receivedAt[m] - DbAhead <= sentAt[m] + MaxAge + MaxDelay
  /\ m \in rows \/ now > receivedAt[m] + DedupTTL

SpacedOK == \A m \in Messages : Takes(m) > 0 => Spaced(m)

TimesOK ==
  /\ \A m \in sent : sentAt[m] <= now + SenderAhead
  /\ \A m \in rows : m \in sent /\ receivedAt[m] <= now + DbAhead
  /\ \A h \in Handlers : pc[h] # "idle" => msg[h] \in sent
  /\ \A m \in Messages : handled[m] > 0 => m \in sent
  /\ \A h \in Handlers : pc[h] = "fresh" =>
       at[h] - sentAt[msg[h]] <= MaxAge /\ now <= at[h] + MaxDelay

InboxInv ==
  /\ TypeOK
  /\ TimesOK
  /\ SpacedOK
  /\ TableIsAWindow
=============================================================================
