------------------------- MODULE ConnectionProofs -------------------------
(***************************************************************************)
(* A channel's dealings with other services: proofs about its grant at     *)
(* Twitch (ChannelGrant), the sync of its sales (TipsSync) and the emails  *)
(* it is sent (DigestMailer).                                              *)
(***************************************************************************)
EXTENDS ChannelGrant, TipsSync, DigestMailer, TLAPS

---------------------------------------------------------------------------
(* A channel's grant dies only with a rollback or by the streamer's hand,  *)
(* for any number of transactions that refresh it and any number of        *)
(* refresh tokens, where Twitch keeps to one way of answering.             *)
(*                                                                         *)
(* With the same token every time, a token dies only by the streamer's     *)
(* hand (SameOK).  With a new one every time, what a transaction was given *)
(* is nobody else's, and nobody can have replaced it before it is on file  *)
(* (NewOK); so whatever is committed over whatever, it is not a token that *)
(* another has replaced.  Both fail where Twitch answers now one way, now  *)
(* the other: two transactions may hold a token and its successor.         *)

Held(c) == phase[c] \in {"granted", "flushed"}

GrantTypes ==
  /\ issued \in Nat /\ onFile \in Nat
  /\ \A t \in live : t \in Nat /\ t <= issued
  /\ onFile <= issued
  /\ phase \in [Callers -> Phases]
  /\ asked \in [Callers -> Nat] /\ got \in [Callers -> Nat]
  /\ \A c \in Callers : asked[c] <= issued /\ got[c] <= issued
  /\ \A c \in Callers : phase[c] # "idle" => asked[c] # 0
  /\ \A c \in Callers : Held(c) => got[c] # 0
  /\ answers \in {"same", "rotated", "mixed"}

SameOK == answers = "same" => \A t \in 1..issued : t \in live \cup revoked

NewOK == answers = "rotated" =>
  \A c \in Callers : Held(c) =>
    /\ got[c] \in live \cup revoked /\ got[c] # onFile
    /\ \A d \in Callers : asked[d] # got[c] /\ (d # c /\ Held(d) => got[d] # got[c])

\* A refused token stays dead, and is not the last word on the grant.
RefusedDead ==
  \A c \in Callers : phase[c] = "refused" => asked[c] \notin live

GrantInv ==
  /\ GrantTypes /\ SameOK /\ NewOK
  /\ DeadGrantWasLost /\ RefusedDead /\ RefusalExplained

---------------------------------------------------------------------------
LEMMA GrantStarts == ASSUME GrantInit PROVE GrantInv
BY DEF GrantInit, GrantInv, GrantTypes, SameOK, NewOK, DeadGrantWasLost, RefusedDead,
   RefusalExplained, Phases, Held

\* A sign-in replaces the token on file, dead or not.
LEMMA SignInKeeps == ASSUME GrantInv, SignIn PROVE GrantInv'
<1> USE DEF GrantInv, SignIn, fates
<1>1. GrantTypes'
  BY DEF GrantTypes, Held
<1>2. SameOK' /\ NewOK'
  BY DEF GrantTypes, SameOK, NewOK, Held
<1>3. DeadGrantWasLost'
  BY DEF DeadGrantWasLost
<1>4. \A c \in Callers : asked[c] # issued + 1
  BY DEF GrantTypes
<1>5. RefusedDead' /\ RefusalExplained'
  BY <1>4 DEF RefusedDead, RefusalExplained
<1> QED BY <1>1, <1>2, <1>3, <1>5

LEMMA OutsideKeeps == ASSUME GrantInv, Disconnect \/ Expire PROVE GrantInv'
<1> USE DEF GrantInv, fates
<1>1. CASE Disconnect
  <2>1. GrantTypes' /\ SameOK' /\ NewOK'
    BY <1>1 DEF Disconnect, GrantTypes, SameOK, NewOK, Held
  <2>2. DeadGrantWasLost' /\ RefusedDead' /\ RefusalExplained'
    BY <1>1 DEF Disconnect, DeadGrantWasLost, RefusedDead, RefusalExplained,
       SuccessorHeld, Rotated
  <2> QED BY <2>1, <2>2
<1>2. CASE Expire
  <2>1. GrantTypes' /\ SameOK' /\ NewOK'
    BY <1>2 DEF Expire, GrantTypes, SameOK, NewOK, Held
  <2>2. DeadGrantWasLost' /\ RefusedDead' /\ RefusalExplained'
    BY <1>2 DEF Expire, DeadGrantWasLost, RefusedDead, RefusalExplained,
       SuccessorHeld, Rotated
  <2> QED BY <2>1, <2>2
<1> QED BY <1>1, <1>2

\* A transaction that moves on without an answer holds nothing yet.
LEMMA EnsureKeeps ==
  ASSUME GrantInv, NEW c \in Callers, Ensure(c) PROVE GrantInv'
<1> USE DEF GrantInv, Ensure, At, fates
<1>1. GrantTypes'
  BY DEF GrantTypes, Phases, Held
<1>2. phase'[c] \in {"using", "asking"} /\ phase[c] = "idle" /\ asked'[c] = onFile
  BY DEF GrantTypes
<1>3. \A d \in Callers : d # c => /\ phase'[d] = phase[d] /\ asked'[d] = asked[d]
  BY DEF GrantTypes
<1>4. \A d \in Callers : Held(d)' = Held(d) /\ (Held(d) => d # c)
  BY <1>2, <1>3 DEF Held
<1>5. \A t : SuccessorHeld(t) => SuccessorHeld(t)'
  BY <1>2, <1>3 DEF SuccessorHeld, Rotated
<1>6. SameOK' /\ NewOK'
  BY <1>2, <1>3, <1>4 DEF SameOK, NewOK
<1>7. DeadGrantWasLost'
  BY <1>5 DEF DeadGrantWasLost
<1>8. RefusedDead' /\ RefusalExplained'
  BY <1>2, <1>3, <1>5 DEF RefusedDead, RefusalExplained
<1> QED BY <1>1, <1>6, <1>7, <1>8

\* A token dies only as its successor is given to the one who asked with it.
LEMMA AnswerKeeps ==
  ASSUME GrantInv, NEW c \in Callers, Grant(c) PROVE GrantInv'
<1> USE DEF GrantInv, Grant, At, fates
<1>1. /\ phase[c] = "asking" /\ phase'[c] = "granted"
      /\ \A d \in Callers : d # c => phase'[d] = phase[d] /\ got'[d] = got[d]
      /\ UNCHANGED <<onFile, asked, answers, revoked, orphaned>>
  BY DEF GrantTypes
<1>2. \A t : SuccessorHeld(t) => SuccessorHeld(t)'
  BY <1>1 DEF SuccessorHeld, Rotated
<1>3. CASE /\ answers # "rotated" /\ UNCHANGED <<live, issued>>
           /\ got' = [got EXCEPT ![c] = asked[c]]
  <2>1. GrantTypes'
    BY <1>1, <1>3 DEF GrantTypes, Phases, Held
  <2>2. SameOK' /\ NewOK'
    BY <1>1, <1>3 DEF SameOK, NewOK
  <2>3. DeadGrantWasLost' /\ RefusedDead' /\ RefusalExplained'
    BY <1>1, <1>2, <1>3 DEF DeadGrantWasLost, RefusedDead, RefusalExplained
  <2> QED BY <2>1, <2>2, <2>3
<1>4. CASE /\ answers # "same" /\ issued' = issued + 1
           /\ live' = (live \ {asked[c]}) \cup {issued + 1}
           /\ got' = [got EXCEPT ![c] = issued + 1]
  <2>1. GrantTypes'
    BY <1>1, <1>4 DEF GrantTypes, Phases, Held
  <2>2. got'[c] = issued + 1 /\ asked[c] # issued + 1 /\ asked[c] \in live
    BY <1>1, <1>4 DEF GrantTypes
  <2>3. SuccessorHeld(asked[c])'
    BY <1>1, <2>2 DEF SuccessorHeld, Rotated
  <2>4. NewOK'
    <3> SUFFICES ASSUME answers = "rotated", NEW d \in Callers, Held(d)'
                 PROVE  /\ got'[d] \in live' \cup revoked /\ got'[d] # onFile
                        /\ \A e \in Callers : /\ asked[e] # got'[d]
                                              /\ e # d /\ Held(e)' => got'[e] # got'[d]
      BY <1>1 DEF NewOK
    <3>1. \A e \in Callers : e # c => got'[e] = got[e] /\ Held(e)' = Held(e)
      BY <1>1 DEF Held
    <3>2. \A e \in Callers : got[e] # issued + 1 /\ asked[e] # issued + 1 /\ onFile # issued + 1
      BY DEF GrantTypes
    <3>3. CASE d = c
      BY <1>4, <2>2, <3>1, <3>2, <3>3
    <3>4. CASE d # c
      <4>1. Held(d) /\ got'[d] = got[d]
        BY <3>1, <3>4
      <4>2. /\ got[d] \in live \cup revoked /\ got[d] # onFile
            /\ \A e \in Callers : asked[e] # got[d] /\ (e # d /\ Held(e) => got[e] # got[d])
        BY <4>1 DEF NewOK
      <4> QED BY <1>4, <2>2, <3>1, <3>2, <4>1, <4>2
    <3> QED BY <3>3, <3>4
  <2>5. SameOK'
    BY <1>1, <1>4 DEF SameOK
  <2>6. DeadGrantWasLost'
    BY <1>1, <1>2, <1>4, <2>3 DEF DeadGrantWasLost
  <2>7. RefusedDead'
    <3> SUFFICES ASSUME NEW d \in Callers, phase'[d] = "refused" PROVE asked[d] \notin live'
      BY <1>1 DEF RefusedDead
    <3>1. phase[d] = "refused" /\ asked[d] # issued + 1
      BY <1>1 DEF GrantTypes
    <3> QED BY <1>4, <3>1 DEF RefusedDead
  <2>8. RefusalExplained'
    BY <1>1, <1>2 DEF RefusalExplained
  <2> QED BY <2>1, <2>4, <2>5, <2>6, <2>7, <2>8
<1> QED BY <1>3, <1>4

\* The refused token is dead: if it is the one on file, its successor is held.
LEMMA RefuseKeeps ==
  ASSUME GrantInv, NEW c \in Callers, Refuse(c) PROVE GrantInv'
<1> USE DEF GrantInv, Refuse, At, fates
<1>1. GrantTypes'
  BY DEF GrantTypes, Phases, Held
<1>2. /\ phase[c] = "asking" /\ phase'[c] = "refused" /\ asked[c] # 0
      /\ \A d \in Callers : d # c => phase'[d] = phase[d]
  BY DEF GrantTypes
<1>3. \A d \in Callers : Held(d)' = Held(d)
  BY <1>2 DEF Held
<1>4. \A t : SuccessorHeld(t) => SuccessorHeld(t)'
  BY <1>2 DEF SuccessorHeld, Rotated
<1>5. SameOK' /\ NewOK' /\ DeadGrantWasLost'
  BY <1>3, <1>4 DEF SameOK, NewOK, DeadGrantWasLost
<1>6. RefusedDead' /\ RefusalExplained'
  BY <1>2, <1>4 DEF RefusedDead, RefusalExplained, DeadGrantWasLost
<1> QED BY <1>1, <1>5, <1>6

LEMMA FlushKeeps ==
  ASSUME GrantInv, NEW c \in Callers, FlushGrant(c) PROVE GrantInv'
<1> USE DEF GrantInv, FlushGrant, At, fates
<1>1. GrantTypes'
  BY DEF GrantTypes, Phases, Held
<1>2. /\ phase[c] = "granted" /\ phase'[c] = "flushed"
      /\ \A d \in Callers : d # c => phase'[d] = phase[d]
  BY DEF GrantTypes
<1>3. \A d \in Callers : Held(d)' = Held(d)
  BY <1>2 DEF Held
<1>4. \A t : SuccessorHeld(t) => SuccessorHeld(t)'
  BY <1>2 DEF SuccessorHeld, Rotated
<1>5. SameOK' /\ NewOK' /\ DeadGrantWasLost'
  BY <1>3, <1>4 DEF SameOK, NewOK, DeadGrantWasLost
<1>6. RefusedDead' /\ RefusalExplained'
  BY <1>2, <1>4 DEF RefusedDead, RefusalExplained
<1> QED BY <1>1, <1>5, <1>6

\* A transaction that ends holds nothing any more; the others go on as they were.
LEMMA Ended ==
  ASSUME GrantTypes, NEW c \in Callers, EndTransaction(c), issued' = issued
  PROVE  /\ phase' \in [Callers -> Phases]
         /\ asked' \in [Callers -> Nat] /\ got' \in [Callers -> Nat]
         /\ \A d \in Callers : /\ asked'[d] <= issued' /\ got'[d] <= issued'
                               /\ phase'[d] # "idle" => asked'[d] # 0
                               /\ Held(d)' => got'[d] # 0
         /\ phase'[c] = "idle" /\ asked'[c] = 0 /\ ~Held(c)'
         /\ \A d \in Callers : d # c =>
              /\ phase'[d] = phase[d] /\ asked'[d] = asked[d] /\ got'[d] = got[d]
              /\ Held(d)' = Held(d)
<1> USE DEF EndTransaction, At
<1>1. /\ phase' \in [Callers -> Phases]
      /\ asked' \in [Callers -> Nat] /\ got' \in [Callers -> Nat]
  BY DEF GrantTypes, Phases
<1>2. /\ phase'[c] = "idle" /\ asked'[c] = 0 /\ got'[c] = 0 /\ ~Held(c)'
      /\ \A d \in Callers : d # c =>
           /\ phase'[d] = phase[d] /\ asked'[d] = asked[d] /\ got'[d] = got[d]
           /\ Held(d)' = Held(d)
  BY DEF GrantTypes, Held
<1>3. \A d \in Callers : /\ asked'[d] <= issued' /\ got'[d] <= issued'
                         /\ phase'[d] # "idle" => asked'[d] # 0
                         /\ Held(d)' => got'[d] # 0
  BY <1>2 DEF GrantTypes
<1> QED BY <1>1, <1>2, <1>3

\* Nobody but the one who ends holds the successor of what it asked with for it.
LEMMA StillHeld ==
  ASSUME GrantTypes, NEW c \in Callers, EndTransaction(c), issued' = issued,
         NEW t, SuccessorHeld(t), ~(Rotated(c) /\ asked[c] = t)
  PROVE  SuccessorHeld(t)'
<1>1. PICK d \in Callers : Rotated(d) /\ asked[d] = t
  BY DEF SuccessorHeld
<1>2. d # c
  BY <1>1
<1>3. phase'[d] = phase[d] /\ asked'[d] = asked[d] /\ got'[d] = got[d]
  BY <1>2, Ended
<1> QED BY <1>1, <1>3 DEF SuccessorHeld, Rotated

\* A grant is committed over the one on file, whatever that is by then: it is not
\* one that somebody has asked with, nor one that died unless it was revoked.
LEMMA CommitKeeps ==
  ASSUME GrantInv, NEW c \in Callers, phase[c] \in {"flushed", "using"},
         CommitGrant(c), EndTransaction(c), UNCHANGED <<live, issued, fates>>
  PROVE  GrantInv'
<1>1. /\ GrantTypes /\ SameOK /\ NewOK
      /\ DeadGrantWasLost /\ RefusedDead /\ RefusalExplained
  BY DEF GrantInv
<1>2. /\ phase'[c] = "idle" /\ asked'[c] = 0 /\ ~Held(c)'
      /\ \A d \in Callers : d # c =>
           /\ phase'[d] = phase[d] /\ asked'[d] = asked[d] /\ got'[d] = got[d]
           /\ Held(d)' = Held(d)
  BY <1>1, Ended
<1>3. UNCHANGED <<answers, revoked, orphaned, live, issued>>
  BY DEF fates
<1>4. GrantTypes'
  <2>1. onFile' \in Nat /\ onFile' <= issued
    BY <1>1 DEF GrantTypes, CommitGrant
  <2>2. /\ phase' \in [Callers -> Phases]
        /\ asked' \in [Callers -> Nat] /\ got' \in [Callers -> Nat]
        /\ \A d \in Callers : /\ asked'[d] <= issued' /\ got'[d] <= issued'
                              /\ phase'[d] # "idle" => asked'[d] # 0
                              /\ Held(d)' => got'[d] # 0
    BY <1>1, Ended
  <2> QED BY <1>1, <1>3, <2>1, <2>2 DEF GrantTypes
<1>5. RefusedDead'
  BY <1>1, <1>2, <1>3 DEF RefusedDead
<1>6. SameOK'
  BY <1>1, <1>3 DEF SameOK
<1>7. CASE phase[c] = "using"
  <2>1. onFile' = onFile /\ ~Rotated(c)
    BY <1>7 DEF CommitGrant, Rotated
  <2>2. \A t : SuccessorHeld(t) => SuccessorHeld(t)'
    BY <1>1, <2>1, StillHeld
  <2>3. NewOK'
    BY <1>1, <1>2, <1>3, <2>1 DEF NewOK, GrantTypes
  <2>4. DeadGrantWasLost' /\ RefusalExplained'
    BY <1>1, <1>2, <1>3, <2>1, <2>2 DEF DeadGrantWasLost, RefusalExplained
  <2> QED BY <1>4, <1>5, <1>6, <2>3, <2>4 DEF GrantInv
<1>8. CASE phase[c] = "flushed"
  <2>1. onFile' = got[c] /\ Held(c) /\ got[c] \in 1..issued
    BY <1>1, <1>8 DEF CommitGrant, Held, GrantTypes
  <2>2. NewOK'
    BY <1>1, <1>2, <1>3, <2>1 DEF NewOK, GrantTypes
  <2>3. answers # "mixed" => got[c] \in live \cup revoked
    BY <1>1, <2>1 DEF SameOK, NewOK, GrantTypes
  <2>4. DeadGrantWasLost'
    BY <1>3, <2>1, <2>3 DEF DeadGrantWasLost
  <2>5. RefusalExplained'
    <3> SUFFICES ASSUME answers # "mixed", NEW d \in Callers, phase'[d] = "refused"
                 PROVE  asked'[d] \in revoked \cup orphaned \/ onFile' # asked'[d]
      BY <1>3 DEF RefusalExplained
    <3>1. d # c /\ phase[d] = "refused" /\ asked'[d] = asked[d]
      BY <1>2
    <3>2. CASE answers = "rotated"
      BY <1>1, <2>1, <3>1, <3>2 DEF NewOK
    <3>3. CASE answers = "same"
      BY <1>1, <3>1, <3>3 DEF SameOK, RefusedDead, GrantTypes
    <3> QED BY <1>1, <3>2, <3>3 DEF GrantTypes
  <2> QED BY <1>4, <1>5, <1>6, <2>2, <2>4, <2>5 DEF GrantInv
<1> QED BY <1>7, <1>8

\* What is rolled back was the token it asked with, or its successor is dropped.
LEMMA RollBackKeeps ==
  ASSUME GrantInv, NEW c \in Callers, RollBack(c) PROVE GrantInv'
<1>1. /\ GrantTypes /\ SameOK /\ NewOK
      /\ DeadGrantWasLost /\ RefusedDead /\ RefusalExplained
  BY DEF GrantInv
<1>2. EndTransaction(c) /\ UNCHANGED <<live, issued, onFile, answers, revoked>>
  BY DEF RollBack
<1>3. orphaned' = IF Rotated(c) THEN orphaned \cup {asked[c]} ELSE orphaned
  BY DEF RollBack
<1>4. /\ phase'[c] = "idle" /\ asked'[c] = 0 /\ ~Held(c)'
      /\ \A d \in Callers : d # c =>
           /\ phase'[d] = phase[d] /\ asked'[d] = asked[d] /\ got'[d] = got[d]
           /\ Held(d)' = Held(d)
  BY <1>1, <1>2, Ended
<1>5. GrantTypes'
  BY <1>1, <1>2, Ended DEF GrantTypes
<1>6. SameOK' /\ NewOK'
  BY <1>1, <1>2, <1>4 DEF SameOK, NewOK, GrantTypes
<1>7. \A t : SuccessorHeld(t) => SuccessorHeld(t)' \/ t \in orphaned'
  BY <1>1, <1>2, <1>3, StillHeld
<1>8. DeadGrantWasLost' /\ RefusedDead' /\ RefusalExplained'
  BY <1>1, <1>2, <1>3, <1>4, <1>7 DEF DeadGrantWasLost, RefusedDead, RefusalExplained
<1> QED BY <1>5, <1>6, <1>8 DEF GrantInv

LEMMA GrantStep == ASSUME GrantInv, [GrantNext]_grantVars PROVE GrantInv'
<1>1. CASE UNCHANGED grantVars
  <2>1. GrantTypes' /\ SameOK' /\ NewOK'
    BY <1>1 DEF grantVars, GrantInv, GrantTypes, SameOK, NewOK, Held
  <2>2. DeadGrantWasLost' /\ RefusedDead' /\ RefusalExplained'
    BY <1>1 DEF grantVars, GrantInv, DeadGrantWasLost, RefusedDead, RefusalExplained,
       SuccessorHeld, Rotated
  <2> QED BY <2>1, <2>2 DEF GrantInv
<1>2. CASE CommitStep
  <2>1. Callback \in Callers
    BY GrantAssumption
  <2> QED BY <1>2, <2>1, CommitKeeps DEF CommitStep
<1>3. ASSUME NEW c \in Callers, CommitWork(c) PROVE GrantInv'
  BY <1>3, CommitKeeps DEF CommitWork
<1> QED BY <1>1, <1>2, <1>3, SignInKeeps, OutsideKeeps, EnsureKeeps, AnswerKeeps,
     RefuseKeeps, FlushKeeps, RollBackKeeps DEF GrantNext

LEMMA GrantInvariant == GrantSpec => []GrantInv
BY GrantStarts, GrantStep, PTL DEF GrantSpec

\* However refreshes and sign-ins interleave and whatever they commit over, while
\* Twitch keeps to one way of answering the token on file is dead only if it was
\* revoked, or its successor is held or went with a rollback (ensure_fresh_token).
THEOREM DeadGrantHasACause == GrantSpec => []DeadGrantWasLost
<1>1. GrantInv => DeadGrantWasLost BY DEF GrantInv
<1> QED BY <1>1, GrantInvariant, PTL

\* A refused refresh is another's success, or such a loss (ensure_fresh_token).
THEOREM RefusalsAreExplained == GrantSpec => []RefusalExplained
<1>1. GrantInv => RefusalExplained BY DEF GrantInv
<1> QED BY <1>1, GrantInvariant, PTL

---------------------------------------------------------------------------
(* The sync of tips and sales, for any number of syncs, sales and failures. *)
(*                                                                         *)
(* What a sync has in hand is its own, and what it found stored stays      *)
(* stored: whatever another sync commits or moves in between, a page that  *)
(* the cap has not cut holds the window that was asked for (PageOK), and   *)
(* what is not on the page's way to the table is there already (HandsOK).  *)

HandsOK ==
  /\ whole \in [Syncs -> BOOLEAN]
  /\ DOMAIN stage = Syncs /\ DOMAIN page = Syncs /\ DOMAIN found = Syncs
  /\ DOMAIN since = Syncs /\ DOMAIN before = Syncs
  /\ \A c \in Syncs : before[c] \subseteq sales /\ found[c] \subseteq tipRows

OnPage(c, kind) == Window(c, kind) \subseteq page[c]
OnTable(c, kind) == \A s \in Window(c, kind) : s.id \in tipRows

PageOK(c) ==
  /\ stage[c] \in {"tips listed", "tips checked"} => OnPage(c, "tip")
  /\ stage[c] \in {"merch", "merch listed", "merch checked", "loyalty"} => OnTable(c, "tip")
  /\ stage[c] \in {"merch listed", "merch checked"} => OnPage(c, "merch")
  /\ stage[c] = "loyalty" => OnTable(c, "merch")

TipsInv == HandsOK /\ \A c \in Syncs : whole[c] => PageOK(c)

LEMMA TipsStart == ASSUME TipsInit PROVE TipsInv
BY DEF TipsInit, TipsInv, HandsOK, PageOK, OnPage, OnTable, Window

\* A sync that is where it was, with what it had, has what it had to have: others
\* only store more.
LEMMA SamePage ==
  ASSUME NEW c \in Syncs, PageOK(c), tipRows \subseteq tipRows',
         UNCHANGED <<stage[c], page[c], since[c], before[c]>>
  PROVE  PageOK(c)'
<1>1. \A k : Window(c, k)' = Window(c, k)
  BY DEF Window
<1>2. \A k : /\ OnPage(c, k) => OnPage(c, k)'
             /\ OnTable(c, k) => OnTable(c, k)'
  BY <1>1 DEF OnPage, OnTable
<1> QED BY <1>2 DEF PageOK

\* So a step of one sync has to be looked at for that sync only.
LEMMA OthersKeepTips ==
  ASSUME TipsInv, NEW c \in Syncs, HandsOK', tipRows \subseteq tipRows',
         \A d \in Syncs \ {c} : UNCHANGED <<stage[d], page[d], since[d], before[d], whole[d]>>,
         whole'[c] => PageOK(c)'
  PROVE  TipsInv'
<1> SUFFICES ASSUME NEW d \in Syncs, whole'[d], d # c PROVE PageOK(d)'
  BY DEF TipsInv
<1>1. UNCHANGED <<stage[d], page[d], since[d], before[d], whole[d]>>
  OBVIOUS
<1>2. PageOK(d)
  BY <1>1 DEF TipsInv
<1> QED BY <1>1, <1>2, SamePage

\* Time passes; somebody tips or buys, which no sync had before it began.
LEMMA OutsideKeepsTips ==
  ASSUME TipsInv, Pass \/ \E k \in Kinds : Sell(k)
  PROVE  TipsInv'
<1>1. sales \subseteq sales'
  BY DEF Pass, Sell
<1>2. UNCHANGED <<tipRows, stage, since, page, found, before, whole>>
  BY DEF Pass, Sell, memory
<1>3. HandsOK'
  BY <1>1, <1>2 DEF TipsInv, HandsOK
<1>4. ASSUME NEW c \in Syncs, whole'[c] PROVE PageOK(c)'
  BY <1>2, <1>4, SamePage DEF TipsInv
<1> QED BY <1>3, <1>4 DEF TipsInv

\* A sync begins.
LEMMA ConnectKeepsTips ==
  ASSUME TipsInv, NEW c \in Syncs, Connect(c)
  PROVE  TipsInv'
<1>1. /\ stage' = [stage EXCEPT ![c] = "tips"] /\ since' = [since EXCEPT ![c] = cursor]
      /\ before' = [before EXCEPT ![c] = sales]
      /\ UNCHANGED <<sales, tipRows, page, found, whole>>
  BY DEF Connect
<1>2. HandsOK' /\ stage'[c] = "tips"
  BY <1>1 DEF TipsInv, HandsOK
<1>3. \A d \in Syncs \ {c} : UNCHANGED <<stage[d], page[d], since[d], before[d], whole[d]>>
  BY <1>1 DEF TipsInv, HandsOK
<1>4. PageOK(c)'
  BY <1>2 DEF PageOK
<1> QED BY <1>1, <1>2, <1>3, <1>4, OthersKeepTips

\* StreamElements answers: with all of the window, unless it is cut.
LEMMA FetchKeepsTips ==
  ASSUME TipsInv, NEW c \in Syncs, FetchTips(c) \/ FetchMerch(c)
  PROVE  TipsInv'
<1>1. ASSUME NEW listed, NEW kept, Fetch(c, listed, kept), NEW next,
             stage' = [stage EXCEPT ![c] = next]
      PROVE  /\ HandsOK' /\ stage'[c] = next /\ page'[c] = kept
             /\ whole'[c] => whole[c] /\ kept = listed
             /\ since' = since /\ before' = before /\ tipRows' = tipRows
             /\ \A d \in Syncs \ {c} :
                  UNCHANGED <<stage[d], page[d], since[d], before[d], whole[d]>>
  <2>1. /\ page' = [page EXCEPT ![c] = kept]
        /\ whole' = [whole EXCEPT ![c] = whole[c] /\ kept = listed]
        /\ UNCHANGED <<sales, tipRows, since, found, before>>
    BY <1>1 DEF Fetch
  <2> QED BY <1>1, <2>1 DEF TipsInv, HandsOK
<1>2. ASSUME NEW k, NEW kept, Fetch(c, Listed(k, since[c]), kept), whole'[c]
      PROVE  OnPage(c, k)'
  <2>1. page'[c] = Listed(k, since[c]) /\ since' = since /\ before' = before
    BY <1>2 DEF Fetch, TipsInv, HandsOK
  <2>2. before[c] \subseteq sales
    BY DEF TipsInv, HandsOK
  <2> QED BY <2>1, <2>2 DEF OnPage, Window, Listed
<1>3. CASE FetchTips(c)
  <2>1. PICK kept : Fetch(c, Listed("tip", since[c]), kept)
    BY <1>3 DEF FetchTips
  <2>2. stage' = [stage EXCEPT ![c] = "tips listed"]
    BY <1>3 DEF FetchTips
  <2>3. stage'[c] = "tips listed"
    BY <2>2 DEF TipsInv, HandsOK
  <2>4. whole'[c] => PageOK(c)'
    BY <1>2, <2>1, <2>3 DEF PageOK
  <2> QED BY <1>1, <2>1, <2>2, <2>4, OthersKeepTips
<1>4. CASE FetchMerch(c)
  <2>1. PICK kept : Fetch(c, Listed("merch", since[c]), kept)
    BY <1>4 DEF FetchMerch, Feed
  <2>2. stage[c] = "merch" /\ stage' = [stage EXCEPT ![c] = "merch listed"]
    BY <1>4 DEF FetchMerch
  <2>3. stage'[c] = "merch listed"
    BY <2>2 DEF TipsInv, HandsOK
  <2>4. ASSUME whole'[c] PROVE OnTable(c, "tip")'
    <3>1. whole[c] /\ UNCHANGED <<tipRows, since, before>>
      BY <1>1, <2>1, <2>2, <2>4
    <3>2. OnTable(c, "tip")
      BY <2>2, <3>1 DEF TipsInv, PageOK
    <3> QED BY <3>1, <3>2 DEF OnTable, Window
  <2>5. whole'[c] => PageOK(c)'
    BY <1>2, <2>1, <2>3, <2>4 DEF PageOK
  <2> QED BY <1>1, <2>1, <2>2, <2>5, OthersKeepTips
<1> QED BY <1>3, <1>4

\* It reads which rows are stored.
LEMMA CheckKeepsTips ==
  ASSUME TipsInv, NEW c \in Syncs, Check(c)
  PROVE  TipsInv'
<1>1. /\ found' = [found EXCEPT ![c] = tipRows]
      /\ UNCHANGED <<sales, tipRows, since, page, before, whole>>
  BY DEF Check
<1>2. \/ stage[c] = "tips listed" /\ stage' = [stage EXCEPT ![c] = "tips checked"]
      \/ stage[c] = "merch listed" /\ stage' = [stage EXCEPT ![c] = "merch checked"]
  BY DEF Check
<1>3. /\ HandsOK'
      /\ \/ stage[c] = "tips listed" /\ stage'[c] = "tips checked"
         \/ stage[c] = "merch listed" /\ stage'[c] = "merch checked"
      /\ \A d \in Syncs \ {c} : UNCHANGED <<stage[d], page[d], since[d], before[d], whole[d]>>
  BY <1>1, <1>2 DEF TipsInv, HandsOK
<1>4. ASSUME whole'[c] PROVE PageOK(c)'
  <2>1. PageOK(c)
    BY <1>1, <1>4 DEF TipsInv
  <2>2. \A k : OnPage(c, k)' = OnPage(c, k) /\ OnTable(c, k)' = OnTable(c, k)
    BY <1>1 DEF OnPage, OnTable, Window
  <2> QED BY <1>3, <2>1, <2>2 DEF PageOK
<1> QED BY <1>1, <1>3, <1>4, OthersKeepTips

\* A page is committed, but for what was stored before.
LEMMA StoreKeepsTips ==
  ASSUME TipsInv, NEW c \in Syncs, StoreTips(c) \/ StoreMerch(c)
  PROVE  TipsInv'
<1>1. ASSUME NEW next, StoreNew(c, next)
      PROVE  /\ HandsOK' /\ stage'[c] = next /\ tipRows \subseteq tipRows'
             /\ \A s \in page[c] : s.id \in tipRows'
             /\ since' = since /\ before' = before /\ whole' = whole
             /\ \A d \in Syncs \ {c} :
                  UNCHANGED <<stage[d], page[d], since[d], before[d], whole[d]>>
  <2>1. /\ tipRows' = tipRows \cup New(c)
        /\ stage' = [stage EXCEPT ![c] = next] /\ page' = [page EXCEPT ![c] = {}]
        /\ found' = [found EXCEPT ![c] = {}]
        /\ UNCHANGED <<sales, since, before, whole>>
    BY <1>1 DEF StoreNew
  <2>2. \A s \in page[c] : s.id \in tipRows'
    BY <2>1 DEF TipsInv, HandsOK, New, IdsOf
  <2> QED BY <2>1, <2>2 DEF TipsInv, HandsOK
<1>2. ASSUME NEW next, StoreNew(c, next), NEW k, OnPage(c, k) \/ OnTable(c, k)
      PROVE  OnTable(c, k)'
  BY <1>1, <1>2 DEF OnPage, OnTable, Window
<1>3. CASE StoreTips(c)
  <2>1. stage[c] = "tips checked" /\ StoreNew(c, "merch")
    BY <1>3 DEF StoreTips
  <2>2. ASSUME whole'[c] PROVE PageOK(c)'
    <3>1. OnPage(c, "tip")
      BY <1>1, <2>1, <2>2 DEF TipsInv, PageOK
    <3>2. OnTable(c, "tip")' /\ stage'[c] = "merch"
      BY <1>1, <1>2, <2>1, <3>1
    <3> QED BY <3>2 DEF PageOK
  <2> QED BY <1>1, <2>1, <2>2, OthersKeepTips
<1>4. CASE StoreMerch(c)
  <2>1. stage[c] = "merch checked" /\ StoreNew(c, "loyalty")
    BY <1>4 DEF StoreMerch
  <2>2. ASSUME whole'[c] PROVE PageOK(c)'
    <3>1. OnTable(c, "tip") /\ OnPage(c, "merch")
      BY <1>1, <2>1, <2>2 DEF TipsInv, PageOK
    <3>2. OnTable(c, "tip")' /\ OnTable(c, "merch")' /\ stage'[c] = "loyalty"
      BY <1>1, <1>2, <2>1, <3>1
    <3> QED BY <3>2 DEF PageOK
  <2> QED BY <1>1, <2>1, <2>2, OthersKeepTips
<1> QED BY <1>3, <1>4

\* A sync is over, with or without success.
LEMMA EndKeepsTips ==
  ASSUME TipsInv, NEW c \in Syncs, SyncLoyalty(c) \/ FailSync(c)
  PROVE  TipsInv'
<1>1. EndSync(c)
  BY DEF SyncLoyalty, FailSync
<1>2. /\ HandsOK' /\ stage'[c] = "off" /\ tipRows' = tipRows
      /\ \A d \in Syncs \ {c} : UNCHANGED <<stage[d], page[d], since[d], before[d], whole[d]>>
  BY <1>1 DEF EndSync, TipsInv, HandsOK
<1>3. PageOK(c)'
  BY <1>2 DEF PageOK
<1> QED BY <1>2, <1>3, OthersKeepTips

LEMMA TipsStep == ASSUME TipsInv, [TipsNext]_tipsVars PROVE TipsInv'
<1>1. CASE UNCHANGED tipsVars
  <2>1. UNCHANGED <<sales, tipRows, stage, since, page, found, before, whole>>
    BY <1>1 DEF tipsVars, memory
  <2>2. HandsOK'
    BY <2>1 DEF TipsInv, HandsOK
  <2>3. ASSUME NEW c \in Syncs, whole'[c] PROVE PageOK(c)'
    BY <2>1, <2>3, SamePage DEF TipsInv
  <2> QED BY <2>2, <2>3 DEF TipsInv
<1>2. CASE TipsNext
  BY <1>2, OutsideKeepsTips, ConnectKeepsTips, FetchKeepsTips, CheckKeepsTips,
     StoreKeepsTips, EndKeepsTips DEF TipsNext
<1> QED BY <1>1, <1>2

\* However syncs overlap, fail or are cut, one whose own fetches were not cut has
\* stored what it had to store (sync_streamelements and its parts).
THEOREM WindowsAreStored == TipsSpec => []SyncStoresItsWindow
<1>1. TipsInv => SyncStoresItsWindow
  BY DEF TipsInv, PageOK, OnTable, SyncStoresItsWindow, IdsOf
<1>2. TipsInit => TipsInv
  BY TipsStart
<1>3. TipsInv /\ [TipsNext]_tipsVars => TipsInv'
  BY TipsStep
<1> QED BY <1>1, <1>2, <1>3, PTL DEF TipsSpec

---------------------------------------------------------------------------
(* The emails, for any channels, runs, zones and bounds.  When a period    *)
(* starts (StartAt) and when a channel is due play no part in what is sent *)
(* twice: the unique index alone carries that argument.                    *)

\* The initial state satisfies the invariant.
LEMMA InitDigestInv == Init => DigestInv
<1> SUFFICES ASSUME Init PROVE DigestInv
  OBVIOUS
<1>1. 0 \in 0..MaxHour /\ 0 \in 0..MaxFaults /\ 0 \in 0..MaxMoves
  BY ClockAssumption
<1>2. TypeOK
  BY <1>1 DEF Init, TypeOK, Logs, Locations
<1>3. HolderOK
  BY DEF Init, HolderOK, Holding
<1>4. MailsOK
  BY DEF Init, MailsOK, Known
<1> QED
  BY <1>2, <1>3, <1>4 DEF DigestInv

\* A fault is counted within its bound.
LEMMA FaultCounted == ASSUME faults \in 0..MaxFaults, Fault
                      PROVE  faults' \in 0..MaxFaults
  BY ClockAssumption DEF Fault

\* The hours missed are hours.
LEMMA MissTyped == ASSUME failed \in [Channels -> SUBSET (0..MaxHour)],
                          NEW C, NEW h \in 0..MaxHour, Miss(C, h)
                   PROVE  failed' \in [Channels -> SUBSET (0..MaxHour)]
  BY DEF Miss

\* Counting a mail once more.
LEMMA OneMore == ASSUME NEW f \in [Mails -> Nat], NEW m \in Mails
                 PROVE  [f EXCEPT ![m] = @ + 1] \in [Mails -> Nat]
<1>1. f[m] + 1 \in Nat
  OBVIOUS
<1> QED
  BY <1>1

\* Steps that leave alone the table, Resend and the rows in hand.
LEMMA AsideOK ==
  ASSUME TypeOK, HolderOK, MailsOK, UNCHANGED <<table, resend>>,
         \A r \in Runs : pc[r] \in Holding \/ pc'[r] \in Holding =>
                           pc'[r] = pc[r] /\ mail'[r] = mail[r]
  PROVE  HolderOK' /\ MailsOK'
<1> USE DEF table, resend
<1>1. \A m \in Mails : holder[m] # NoRun => holder[m] \in Runs
  BY DEF TypeOK
<1>2. HolderOK'
  BY <1>1 DEF HolderOK
<1>3. \A m \in Mails : Known(m)' <=> Known(m)
  BY <1>1 DEF HolderOK, Known
<1>4. MailsOK'
  BY <1>3 DEF MailsOK
<1> QED
  BY <1>2, <1>4

\* The hour passes, or a streamer moves.
LEMMA OutsideDigestInv ==
  DigestInv /\ (Tick \/ \E c \in Channels : Move(c)) => DigestInv'
<1> SUFFICES ASSUME DigestInv, Tick \/ \E c \in Channels : Move(c)
             PROVE  DigestInv'
  OBVIOUS
<1> USE ClockAssumption, RunsAssumption
<1> USE DEF clock, table, resend, book, chan, sight
<1>1. CASE Tick
  <2>1. hour' \in 0..MaxHour
    <3>1. hour \in 0..MaxHour /\ hour < MaxHour /\ hour' = hour + 1
      BY <1>1 DEF Tick, DigestInv, TypeOK
    <3> QED
      BY <3>1
  <2>2. began' \in BOOLEAN
    BY <1>1 DEF Tick
  <2>3. faults' \in 0..MaxFaults /\ failed' \in [Channels -> SUBSET (0..MaxHour)]
    BY <1>1, FaultCounted, MissTyped DEF Tick, DigestInv, TypeOK
  <2>4. UNCHANGED <<chan, table, resend, pc, sight, todo, mail>>
    BY <1>1 DEF Tick
  <2>5. TypeOK'
    BY <2>1, <2>2, <2>3, <2>4 DEF DigestInv, TypeOK
  <2> QED
    BY <2>4, <2>5, AsideOK DEF DigestInv
<1>2. ASSUME NEW c \in Channels, Move(c) PROVE DigestInv'
  <2>1. moves' \in 0..MaxMoves /\ zone' \in [Channels -> Offsets]
    BY <1>2 DEF Move, DigestInv, TypeOK
  <2>2. UNCHANGED <<clock, table, resend, book, pc, sight, todo, mail>>
    BY <1>2 DEF Move
  <2>3. TypeOK'
    BY <2>1, <2>2 DEF DigestInv, TypeOK
  <2> QED
    BY <2>2, <2>3, AsideOK DEF DigestInv
<1> QED
  BY <1>1, <1>2

\* A run begins, chooses, is refused or ends: it holds no row before or after.
LEMMA ChoosingDigestInv ==
  ASSUME DigestInv, NEW r \in Runs,
         \/ Begin(r) \/ Refused(r) \/ End(r)
         \/ \E c \in Channels : Skip(r, c) \/ Take(r, c)
  PROVE  DigestInv'
<1> USE ClockAssumption, RunsAssumption
<1> USE DEF clock, table, resend, book, chan, sight
<1>1. CASE Begin(r)
  <2>1. began' \in BOOLEAN /\ pc' \in [Runs -> Locations]
        /\ now' \in [Runs -> 0..MaxHour] /\ todo' \in [Runs -> SUBSET Channels]
    BY <1>1 DEF Begin, DigestInv, TypeOK, Locations
  <2>2. zones' \in [Runs -> [Channels -> Offsets]]
    BY <1>1 DEF Begin, DigestInv, TypeOK
  <2>3. UNCHANGED <<hour, chan, table, resend, book, mail>>
    BY <1>1 DEF Begin
  <2>4. \A s \in Runs : pc'[s] # pc[s] => pc[s] = "off" /\ pc'[s] = "choosing"
    BY <1>1 DEF Begin, DigestInv, TypeOK
  <2>5. TypeOK'
    BY <2>1, <2>2, <2>3, <2>4 DEF DigestInv, TypeOK
  <2> QED
    BY <2>3, <2>4, <2>5, AsideOK DEF DigestInv, Holding
<1>2. CASE Refused(r)
  <2>1. pc' \in [Runs -> Locations] /\ mail' \in [Runs -> Mails \cup {NoMail}]
    BY <1>2 DEF Refused, DigestInv, TypeOK, Locations
  <2>2. UNCHANGED <<clock, chan, table, resend, book, sight, todo>>
    BY <1>2 DEF Refused
  <2>3. \A s \in Runs : IF s = r THEN pc[s] = "building" /\ pc'[s] = "choosing"
                                 ELSE pc'[s] = pc[s] /\ mail'[s] = mail[s]
    BY <1>2 DEF Refused, DigestInv, TypeOK
  <2>4. TypeOK'
    BY <2>1, <2>2, <2>3 DEF DigestInv, TypeOK
  <2> QED
    BY <2>2, <2>3, <2>4, AsideOK DEF DigestInv, Holding
<1>3. CASE End(r)
  <2>1. pc' \in [Runs -> Locations]
    BY <1>3 DEF End, DigestInv, TypeOK, Locations
  <2>2. UNCHANGED <<clock, chan, table, resend, book, sight, todo, mail>>
    BY <1>3 DEF End
  <2>3. \A s \in Runs : pc'[s] # pc[s] => pc[s] = "choosing" /\ pc'[s] = "off"
    BY <1>3 DEF End, DigestInv, TypeOK
  <2>4. TypeOK'
    BY <2>1, <2>2, <2>3 DEF DigestInv, TypeOK
  <2> QED
    BY <2>2, <2>3, <2>4, AsideOK DEF DigestInv, Holding
<1>4. ASSUME NEW c \in Channels, Skip(r, c) PROVE DigestInv'
  <2>1. todo' \in [Runs -> SUBSET Channels]
    BY <1>4 DEF Skip, DigestInv, TypeOK
  <2>2. UNCHANGED <<clock, chan, table, resend, book, pc, sight, mail>>
    BY <1>4 DEF Skip
  <2>3. TypeOK'
    BY <2>1, <2>2 DEF DigestInv, TypeOK
  <2> QED
    BY <2>2, <2>3, AsideOK DEF DigestInv
<1>5. ASSUME NEW c \in Channels, Take(r, c) PROVE DigestInv'
  <2>1. PICK m \in Mails : mail' = [mail EXCEPT ![r] = m]
    BY <1>5 DEF Take
  <2>2. pc[r] = "choosing" /\ pc' = [pc EXCEPT ![r] = "building"]
        /\ todo' = [todo EXCEPT ![r] = @ \ {c}]
        /\ UNCHANGED <<clock, chan, table, resend, book, sight>>
    BY <1>5 DEF Take
  <2>3. pc' \in [Runs -> Locations] /\ todo' \in [Runs -> SUBSET Channels]
        /\ mail' \in [Runs -> Mails \cup {NoMail}]
    BY <2>1, <2>2 DEF DigestInv, TypeOK, Locations
  <2>4. \A s \in Runs : IF s = r THEN /\ pc[s] = "choosing" /\ pc'[s] = "building"
                                      /\ mail'[s] = m
                                 ELSE pc'[s] = pc[s] /\ mail'[s] = mail[s]
    BY <2>1, <2>2 DEF DigestInv, TypeOK
  <2>5. TypeOK'
    BY <2>2, <2>3, <2>4 DEF DigestInv, TypeOK
  <2> QED
    BY <2>2, <2>4, <2>5, AsideOK DEF DigestInv, Holding
<1> QED
  BY <1>1, <1>2, <1>3, <1>4, <1>5

\* A run takes, sends, commits or loses its row.
LEMMA HoldingDigestInv ==
  ASSUME DigestInv, NEW r \in Runs,
         \/ Reserve(r) \/ Send(r) \/ SendUnanswered(r) \/ SendFails(r)
         \/ Commit(r) \/ Crash(r)
  PROVE  DigestInv'
<1> USE ClockAssumption, RunsAssumption
<1> USE DEF clock, table, resend, book, chan, sight
<1>m. PICK m : m = mail[r]
  OBVIOUS
<1> USE <1>m
<1>0. pc[r] \notin {"off", "choosing"} => m \in Mails
  BY DEF DigestInv, TypeOK
<1>1. CASE Reserve(r)
  <2>1. pc[r] = "building" /\ holder[m] = NoRun /\ log[m] = "none" /\ m \in Mails
    BY <1>0, <1>1 DEF Reserve
  <2>2. holder' = [holder EXCEPT ![m] = r] /\ pc' = [pc EXCEPT ![r] = "reserved"]
        /\ UNCHANGED <<clock, chan, log, resend, book, sight, todo, mail>>
    BY <1>1 DEF Reserve
  <2>3. holder' \in [Mails -> Runs \cup {NoRun}] /\ pc' \in [Runs -> Locations]
    BY <2>2 DEF DigestInv, TypeOK, Locations
  <2>4. TypeOK'
    BY <2>1, <2>2, <2>3 DEF DigestInv, TypeOK
  <2>5. HolderOK'
    BY <2>1, <2>2 DEF DigestInv, TypeOK, HolderOK, Holding
  <2>6. MailsOK'
    BY <2>1, <2>2 DEF DigestInv, TypeOK, HolderOK, MailsOK, Known, Holding, Accepted
  <2> QED
    BY <2>4, <2>5, <2>6 DEF DigestInv
<1>2. CASE Send(r)
  <2>1. pc[r] = "reserved" /\ m \in Mails
    BY <1>0, <1>2 DEF Send
  <2>2. delivered' = [delivered EXCEPT ![m] = @ + 1]
        /\ pc' = [pc EXCEPT ![r] = "accepted"]
        /\ UNCHANGED <<clock, chan, table, slips, book, sight, todo, mail>>
    BY <1>2 DEF Send
  <2>3. delivered' \in [Mails -> Nat] /\ pc' \in [Runs -> Locations]
    <3>1. delivered \in [Mails -> Nat] /\ pc \in [Runs -> Locations]
      BY DEF DigestInv, TypeOK
    <3>2. delivered' \in [Mails -> Nat]
      BY <2>1, <2>2, <3>1, OneMore
    <3>3. pc' \in [Runs -> Locations]
      BY <2>2, <3>1 DEF Locations
    <3> QED
      BY <3>2, <3>3
  <2>4. TypeOK'
    BY <2>1, <2>2, <2>3 DEF DigestInv, TypeOK
  <2>5. HolderOK'
    BY <2>1, <2>2 DEF DigestInv, TypeOK, HolderOK, Holding
  <2>6. MailsOK'
    BY <2>1, <2>2 DEF DigestInv, TypeOK, HolderOK, MailsOK, Known, Holding, Accepted
  <2> QED
    BY <2>4, <2>5, <2>6 DEF DigestInv
<1>3. CASE SendUnanswered(r)
  <2>1. pc[r] = "reserved" /\ m \in Mails
    BY <1>0, <1>3 DEF SendUnanswered
  <2>2. UNCHANGED <<clock, chan, table, slips, failed, sight, todo, mail>>
    BY <1>3 DEF SendUnanswered
  <2>3. faults' \in 0..MaxFaults
    BY <1>3, FaultCounted DEF SendUnanswered, DigestInv, TypeOK
  <2>4. CASE /\ delivered' = [delivered EXCEPT ![m] = @ + 1]
             /\ pc' = [pc EXCEPT ![r] = "lost"]
    <3>1. delivered' \in [Mails -> Nat]
      BY <2>1, <2>4, OneMore DEF DigestInv, TypeOK
    <3>2. pc' \in [Runs -> Locations]
      BY <2>4 DEF DigestInv, TypeOK, Locations
    <3>3. TypeOK'
      BY <2>1, <2>2, <2>3, <2>4, <3>1, <3>2 DEF DigestInv, TypeOK
    <3>4. HolderOK'
      BY <2>1, <2>2, <2>4 DEF DigestInv, TypeOK, HolderOK, Holding
    <3>5. MailsOK'
      BY <2>1, <2>2, <2>4
         DEF DigestInv, TypeOK, HolderOK, MailsOK, Known, Holding, Accepted
    <3> QED
      BY <3>3, <3>4, <3>5 DEF DigestInv
  <2>5. CASE UNCHANGED delivered /\ pc' = [pc EXCEPT ![r] = "unheard"]
    <3>1. pc' \in [Runs -> Locations]
      BY <2>5 DEF DigestInv, TypeOK, Locations
    <3>2. TypeOK'
      BY <2>1, <2>2, <2>3, <2>5, <3>1 DEF DigestInv, TypeOK
    <3>3. HolderOK'
      BY <2>1, <2>2, <2>5 DEF DigestInv, TypeOK, HolderOK, Holding
    <3>4. MailsOK'
      BY <2>1, <2>2, <2>5
         DEF DigestInv, TypeOK, HolderOK, MailsOK, Known, Holding, Accepted
    <3> QED
      BY <3>2, <3>3, <3>4 DEF DigestInv
  <2> QED
    BY <1>3, <2>4, <2>5 DEF SendUnanswered
<1>4. ASSUME pc[r] \in Holding, pc'[r] \notin Holding,
             \A s \in Runs \ {r} : pc'[s] = pc[s] /\ mail'[s] = mail[s],
             holder' = [holder EXCEPT ![m] = NoRun],
             \A k \in Mails \ {m} : /\ log'[k] = log[k]
                                     /\ delivered'[k] = delivered[k]
                                     /\ slips'[k] = slips[k],
             delivered'[m] <= slips'[m] + (IF log'[m] # "none" THEN 1 ELSE 0)
      PROVE  HolderOK' /\ MailsOK'
  <2>1. m \in Mails /\ holder[m] = r
    BY <1>0, <1>4 DEF DigestInv, HolderOK, Holding
  <2>2. holder'[m] = NoRun /\ \A k \in Mails \ {m} : holder'[k] = holder[k]
    BY <1>4, <2>1 DEF DigestInv, TypeOK
  <2>3. \A k \in Mails \ {m} : holder[k] # NoRun => holder[k] \in Runs \ {r}
    BY DEF DigestInv, TypeOK, HolderOK
  <2>4. \A s \in Runs \ {r} : pc[s] \in Holding => mail[s] \in Mails \ {m}
    BY <2>1 DEF DigestInv, TypeOK, HolderOK, Holding
  <2>5. HolderOK'
    BY <1>4, <2>1, <2>2, <2>3, <2>4 DEF DigestInv, HolderOK
  <2>6. \A k \in Mails \ {m} : Known(k)' <=> Known(k)
    BY <1>4, <2>2, <2>3 DEF Known
  <2>7. Known(m)' <=> log'[m] # "none"
    BY <2>2 DEF Known
  <2>8. MailsOK'
    <3>1. \A k \in Mails \ {m} :
            delivered'[k] <= slips'[k] + (IF Known(k)' THEN 1 ELSE 0)
      BY <1>4, <2>6 DEF DigestInv, MailsOK
    <3>2. delivered'[m] <= slips'[m] + (IF Known(m)' THEN 1 ELSE 0)
      BY <1>4, <2>7
    <3> QED
      BY <3>1, <3>2 DEF MailsOK
  <2> QED
    BY <2>5, <2>8
<1>5. CASE SendFails(r)
  <2>1. pc[r] = "reserved" /\ m \in Mails
    BY <1>0, <1>5 DEF SendFails
  <2>2. /\ holder' = [holder EXCEPT ![m] = NoRun]
        /\ pc' = [pc EXCEPT ![r] = "choosing"]
        /\ mail' = [mail EXCEPT ![r] = NoMail]
        /\ UNCHANGED <<clock, chan, log, sight, todo>>
    BY <1>5 DEF SendFails
  <2>3. faults' \in 0..MaxFaults /\ failed' \in [Channels -> SUBSET (0..MaxHour)]
    BY <1>5, FaultCounted, MissTyped DEF SendFails, DigestInv, TypeOK
  <2>4. /\ delivered' \in [Mails -> Nat] /\ slips' \in [Mails -> Nat]
        /\ delivered'[m] - slips'[m] = delivered[m] - slips[m]
        /\ \A k \in Mails \ {m} : delivered'[k] = delivered[k] /\ slips'[k] = slips[k]
    <3>1. CASE UNCHANGED <<delivered, slips>>
      BY <3>1 DEF DigestInv, TypeOK
    <3>2. CASE /\ delivered' = [delivered EXCEPT ![m] = @ + 1]
               /\ slips' = [slips EXCEPT ![m] = @ + 1]
      <4>1. delivered \in [Mails -> Nat] /\ slips \in [Mails -> Nat]
        BY DEF DigestInv, TypeOK
      <4> QED
        BY <2>1, <3>2, <4>1, OneMore
    <3> QED
      BY <1>5, <3>1, <3>2 DEF SendFails
  <2>5. /\ holder' \in [Mails -> Runs \cup {NoRun}]
        /\ pc' \in [Runs -> Locations] /\ mail' \in [Runs -> Mails \cup {NoMail}]
    BY <2>2 DEF DigestInv, TypeOK, Locations
  <2>6. /\ pc'[r] = "choosing"
        /\ \A s \in Runs \ {r} : pc'[s] = pc[s] /\ mail'[s] = mail[s]
    BY <2>2 DEF DigestInv, TypeOK
  <2>7. TypeOK'
    BY <2>2, <2>3, <2>4, <2>5, <2>6 DEF DigestInv, TypeOK
  <2>8. ~Known(m)
    BY <2>1 DEF DigestInv, HolderOK, Known, Holding, Accepted
  <2>9. delivered'[m] <= slips'[m] + (IF log'[m] # "none" THEN 1 ELSE 0)
    <3>1. log'[m] = "none"
      BY <2>2, <2>8 DEF Known
    <3>2. delivered[m] <= slips[m]
      BY <2>1, <2>8 DEF DigestInv, TypeOK, MailsOK
    <3>3. /\ delivered[m] \in Nat /\ slips[m] \in Nat
          /\ delivered'[m] \in Nat /\ slips'[m] \in Nat
      BY <2>1, <2>4 DEF DigestInv, TypeOK
    <3> QED
      BY <2>4, <3>1, <3>2, <3>3
  <2>10. HolderOK' /\ MailsOK'
    BY <1>4, <2>1, <2>2, <2>4, <2>6, <2>9 DEF Holding
  <2> QED
    BY <2>7, <2>10 DEF DigestInv
<1>6. CASE Commit(r)
  <2>1. pc[r] \in Holding /\ m \in Mails
    BY <1>0, <1>6 DEF Commit, Holding
  <2>2. /\ holder' = [holder EXCEPT ![m] = NoRun]
        /\ pc' = [pc EXCEPT ![r] = "choosing"]
        /\ mail' = [mail EXCEPT ![r] = NoMail]
        /\ UNCHANGED <<clock, chan, resend, book, sight, todo>>
    BY <1>6 DEF Commit
  <2>3. /\ log' \in [Mails -> Logs] /\ log'[m] # "none"
        /\ \A k \in Mails \ {m} : log'[k] = log[k]
    BY <1>6, <2>1 DEF Commit, DigestInv, TypeOK, Logs
  <2>4. /\ holder' \in [Mails -> Runs \cup {NoRun}]
        /\ pc' \in [Runs -> Locations] /\ mail' \in [Runs -> Mails \cup {NoMail}]
    BY <2>2 DEF DigestInv, TypeOK, Locations
  <2>5. /\ pc'[r] = "choosing"
        /\ \A s \in Runs \ {r} : pc'[s] = pc[s] /\ mail'[s] = mail[s]
    BY <2>2 DEF DigestInv, TypeOK
  <2>6. TypeOK'
    BY <2>2, <2>3, <2>4, <2>5 DEF DigestInv, TypeOK
  <2>7. delivered'[m] <= slips'[m] + 1
    BY <2>1, <2>2 DEF DigestInv, TypeOK, MailsOK
  <2>8. HolderOK' /\ MailsOK'
    BY <1>4, <2>1, <2>2, <2>3, <2>5, <2>7 DEF Holding
  <2> QED
    BY <2>6, <2>8 DEF DigestInv
<1>7. CASE Crash(r)
  <2>1. /\ pc' = [pc EXCEPT ![r] = "off"]
        /\ todo' = [todo EXCEPT ![r] = {}]
        /\ mail' = [mail EXCEPT ![r] = NoMail]
        /\ UNCHANGED <<clock, chan, log, delivered, sight>>
    BY <1>7 DEF Crash
  <2>2. faults' \in 0..MaxFaults /\ failed' \in [Channels -> SUBSET (0..MaxHour)]
    BY <1>7, FaultCounted, MissTyped DEF Crash, DigestInv, TypeOK
  <2>3. /\ pc' \in [Runs -> Locations] /\ mail' \in [Runs -> Mails \cup {NoMail}]
        /\ todo' \in [Runs -> SUBSET Channels]
    BY <2>1 DEF DigestInv, TypeOK, Locations
  <2>4. pc'[r] = "off" /\ \A s \in Runs \ {r} : pc'[s] = pc[s] /\ mail'[s] = mail[s]
    BY <2>1 DEF DigestInv, TypeOK
  <2>5. CASE pc[r] \notin Holding
    <3>1. UNCHANGED <<table, resend>>
      BY <1>7, <2>1, <2>5 DEF Crash, Holding, Accepted
    <3>2. TypeOK'
      BY <2>1, <2>2, <2>3, <2>4, <3>1 DEF DigestInv, TypeOK
    <3> QED
      BY <2>4, <2>5, <3>1, <3>2, AsideOK DEF DigestInv, Holding
  <2>6. CASE pc[r] \in Holding
    <3>1. m \in Mails /\ log[m] = "none"
      BY <1>0, <2>6 DEF DigestInv, HolderOK, Holding
    <3>2. holder' = [holder EXCEPT ![m] = NoRun]
      BY <1>7, <2>6 DEF Crash
    <3>3. /\ slips' \in [Mails -> Nat]
          /\ slips'[m] = IF pc[r] \in Accepted THEN slips[m] + 1 ELSE slips[m]
          /\ \A k \in Mails \ {m} : slips'[k] = slips[k]
      <4>1. slips' = IF pc[r] \in Accepted THEN [slips EXCEPT ![m] = @ + 1]
                                          ELSE slips
        BY <1>7 DEF Crash
      <4>2. slips \in [Mails -> Nat]
        BY DEF DigestInv, TypeOK
      <4> QED
        BY <3>1, <4>1, <4>2, OneMore
    <3>4. holder' \in [Mails -> Runs \cup {NoRun}]
      BY <3>2 DEF DigestInv, TypeOK
    <3>5. TypeOK'
      BY <2>1, <2>2, <2>3, <2>4, <3>3, <3>4 DEF DigestInv, TypeOK
    <3>6. Known(m) => pc[r] \in Accepted
      BY <2>6, <3>1 DEF DigestInv, HolderOK, Known
    <3>7. delivered'[m] <= slips'[m]
      BY <2>1, <3>1, <3>3, <3>6 DEF DigestInv, TypeOK, MailsOK
    <3>8. HolderOK' /\ MailsOK'
      <4>1. delivered'[m] <= slips'[m] + (IF log'[m] # "none" THEN 1 ELSE 0)
        BY <2>1, <3>1, <3>3, <3>7 DEF DigestInv, TypeOK
      <4> QED
        BY <1>4, <2>1, <2>4, <2>6, <3>2, <3>3, <4>1 DEF Holding
    <3> QED
      BY <3>5, <3>8 DEF DigestInv
  <2> QED
    BY <2>5, <2>6
<1> QED
  BY <1>1, <1>2, <1>3, <1>5, <1>6, <1>7

\* DigestInv holds in every reachable state.
THEOREM DigestInvariant == Spec => []DigestInv
<1>1. DigestInv /\ [Next]_vars => DigestInv'
  <2> SUFFICES ASSUME DigestInv, [Next]_vars PROVE DigestInv'
    OBVIOUS
  <2>1. CASE Next
    BY <2>1, OutsideDigestInv, ChoosingDigestInv, HoldingDigestInv DEF Next, Work
  <2>2. CASE UNCHANGED vars
    BY <2>2 DEF vars, DigestInv, TypeOK, HolderOK, MailsOK, Known
  <2> QED
    BY <2>1, <2>2
<1> QED
  BY InitDigestInv, <1>1, PTL DEF Spec

\* A recap goes out a second time only after one that Resend accepted and the
\* job did not learn of (_send_one with the unique index).
THEOREM SentAgain == Spec => []SentAgainOnlyAfterSlip
<1>1. DigestInv => SentAgainOnlyAfterSlip
  BY DEF DigestInv, TypeOK, MailsOK, SentAgainOnlyAfterSlip
<1> QED
  BY <1>1, DigestInvariant, PTL

\* A committed row stays, and nothing is sent for it any more (MailerUncertain
\* keeps its row).
THEOREM ReservationFinal == Spec => ReservationIsFinal
<1> DEFINE Kept == \A m \in Mails : log[m] # "none" =>
                     log'[m] = log[m] /\ delivered'[m] = delivered[m]
<1>1. DigestInv /\ [Next]_vars => [Kept]_vars
  <2> SUFFICES ASSUME DigestInv, Next PROVE Kept
    OBVIOUS
  <2> USE DEF clock, table, resend, book, chan, sight
  <2> SUFFICES ASSUME NEW m \in Mails, log[m] # "none"
               PROVE  log'[m] = log[m] /\ delivered'[m] = delivered[m]
    OBVIOUS
  <2>1. \A r \in Runs : pc[r] \in Holding => mail[r] # m
    BY RunsAssumption DEF DigestInv, HolderOK, TypeOK, Holding
  <2>2. CASE Tick \/ \E c \in Channels : Move(c)
    BY <2>2 DEF Tick, Move
  <2>3. ASSUME NEW r \in Runs, Work(r)
        PROVE  log'[m] = log[m] /\ delivered'[m] = delivered[m]
    <3>1. CASE \/ Begin(r) \/ Refused(r) \/ End(r) \/ Reserve(r) \/ Crash(r)
               \/ \E c \in Channels : Skip(r, c) \/ Take(r, c)
      BY <3>1 DEF Begin, Refused, End, Reserve, Crash, Skip, Take
    <3>2. CASE Send(r) \/ SendUnanswered(r) \/ SendFails(r)
      BY <2>1, <3>2 DEF Send, SendUnanswered, SendFails, Holding, DigestInv, TypeOK
    <3>3. CASE Commit(r)
      BY <2>1, <3>3 DEF Commit, Holding, DigestInv, TypeOK
    <3> QED
      BY <2>3, <3>1, <3>2, <3>3 DEF Work
  <2> QED
    BY <2>2, <2>3 DEF Next
<1> QED
  BY <1>1, DigestInvariant, PTL DEF Spec, ReservationIsFinal

---------------------------------------------------------------------------
(* No period is lost without a cause in each of its hours.  Here the log   *)
(* and the runs are followed hour by hour: an hour whose job has begun     *)
(* leaves each channel mailed, not due, missed, or in the hands of a run.  *)

LEMMA MailThere ==
  ASSUME TypeOK, NEW c \in Channels, NEW h \in 0..MaxHour
  PROVE  <<c, StartAt(zone[c], h)>> \in Mails
<1>1. zone[c] \in Offsets
  BY DEF TypeOK
<1> QED BY <1>1 DEF Mails, Starts

LEMMA ServedStart == Init => ServedInv
<1> SUFFICES ASSUME Init PROVE SightOK /\ HoursOK
  BY DEF ServedInv
<1>1. SightOK
  BY DEF Init, SightOK
<1>2. hour = 0 /\ began = FALSE
  BY DEF Init
<1> QED BY <1>1, <1>2 DEF HoursOK

\* A step of one run, after it has begun: what it faced it faces still, or it is
\* settled otherwise.
LEMMA RunKeepsServed ==
  ASSUME DigestInv, ServedInv, NEW r \in Runs,
         UNCHANGED <<clock, chan, sight>>,
         \A s \in Runs \ {r} : pc'[s] = pc[s] /\ todo'[s] = todo[s] /\ mail'[s] = mail[s],
         \A c \in Channels : failed[c] \subseteq failed'[c],
         \A m \in Mails : log[m] # "none" => log'[m] # "none",
         moves = 0 /\ pc'[r] \notin {"off", "choosing"} =>
           \E c \in Channels : mail'[r] = <<c, StartAt(zone[c], now[r])>>,
         \A c \in Channels : moves = 0 /\ Facing(r, c) =>
           \/ Facing(r, c)'
           \/ now[r] \in failed'[c]
           \/ ~Due(zone[c], now[r])
           \/ log'[<<c, StartAt(zone[c], now[r])>>] # "none"
  PROVE  ServedInv'
<1> USE DEF clock, chan, sight
<1> SUFFICES ASSUME moves = 0 PROVE SightOK' /\ HoursOK'
  BY DEF ServedInv
<1>1. SightOK /\ HoursOK /\ TypeOK
  BY DEF ServedInv, DigestInv
<1>2. SightOK'
  BY <1>1 DEF SightOK
<1>3. ASSUME NEW h \in 0..hour, h < hour \/ began, NEW c \in Channels
      PROVE  Settled(c, h)'
  <2>1. Settled(c, h)
    BY <1>1, <1>3 DEF HoursOK
  <2>2. <<c, StartAt(zone[c], h)>> \in Mails
    <3>1. h \in 0..MaxHour
      BY <1>1, ClockAssumption DEF TypeOK
    <3> QED BY <1>1, <3>1, MailThere
  <2>3. CASE h \in failed[c] \/ ~Due(zone[c], h) \/ log[<<c, StartAt(zone[c], h)>>] # "none"
    BY <2>2, <2>3 DEF Settled
  <2>4. ASSUME NEW s \in Runs, now[s] = h, Facing(s, c) PROVE Settled(c, h)'
    <3>1. CASE s = r
      BY <2>4, <3>1 DEF Settled
    <3>2. CASE s # r
      <4>1. Facing(s, c)'
        BY <2>4, <3>2 DEF Facing
      <4> QED BY <2>4, <4>1 DEF Settled
    <3> QED BY <3>1, <3>2
  <2> QED BY <2>1, <2>3, <2>4 DEF Settled
<1> QED BY <1>2, <1>3 DEF HoursOK

\* The hour passes, or a streamer moves.
LEMMA OutsideKeepsServed ==
  ASSUME DigestInv, ServedInv, Tick \/ \E c \in Channels : Move(c)
  PROVE  ServedInv'
<1> USE DEF clock, table, resend, book, chan, sight
<1>1. ASSUME NEW c \in Channels, Move(c) PROVE ServedInv'
  <2>1. moves \in Nat /\ moves' = moves + 1
    BY <1>1, ClockAssumption DEF Move, DigestInv, TypeOK
  <2> QED BY <2>1 DEF ServedInv
<1>2. CASE Tick
  <2>1. /\ hour' = hour + 1 /\ began' = FALSE /\ hour \in 0..MaxHour
        /\ UNCHANGED <<zone, moves, log, pc, now, zones, todo, mail>>
    BY <1>2 DEF Tick, DigestInv, TypeOK
  <2> SUFFICES ASSUME moves = 0 PROVE SightOK' /\ HoursOK'
    BY <2>1 DEF ServedInv
  <2>2. SightOK /\ HoursOK
    BY DEF ServedInv
  <2>3. SightOK'
    BY <2>1, <2>2 DEF SightOK
  <2>4. \A c \in Channels : failed[c] \subseteq failed'[c] /\ (~began => hour \in failed'[c])
    <3>1. CASE began
      BY <1>2, <3>1 DEF Tick
    <3>2. CASE ~began
      BY <1>2, <3>2 DEF Tick, Miss
    <3> QED BY <3>1, <3>2
  <2>5. ASSUME NEW h \in 0..hour', h < hour', NEW c \in Channels
        PROVE  Settled(c, h)'
    <3>1. h \in 0..hour /\ (h < hour \/ h = hour)
      BY <2>1, <2>5
    <3>2. CASE h < hour \/ began
      <4>1. Settled(c, h)
        BY <2>2, <3>1, <3>2 DEF HoursOK
      <4>2. \A r \in Runs : Facing(r, c)' <=> Facing(r, c)
        BY <2>1 DEF Facing
      <4> QED BY <2>1, <2>4, <4>1, <4>2 DEF Settled
    <3>3. CASE h = hour /\ ~began
      BY <2>4, <3>3 DEF Settled
    <3> QED BY <3>1, <3>2, <3>3
  <2> QED BY <2>1, <2>3, <2>5 DEF HoursOK
<1> QED BY <1>1, <1>2

\* A run that begins faces every channel, in the hour its clock shows.
LEMMA BeginKeepsServed ==
  ASSUME DigestInv, ServedInv, NEW r \in Runs, Begin(r)
  PROVE  ServedInv'
<1> USE DEF clock, table, resend, book, chan, sight
<1>1. /\ pc[r] = "off"
      /\ pc'[r] = "choosing" /\ now'[r] = hour /\ zones'[r] = zone /\ todo'[r] = Channels
      /\ \A s \in Runs \ {r} : /\ pc'[s] = pc[s] /\ now'[s] = now[s]
                               /\ zones'[s] = zones[s] /\ todo'[s] = todo[s]
      /\ UNCHANGED <<hour, zone, moves, log, failed, mail>>
  BY DEF Begin, DigestInv, TypeOK
<1> SUFFICES ASSUME moves = 0 PROVE SightOK' /\ HoursOK'
  BY <1>1 DEF ServedInv
<1>2. SightOK /\ HoursOK /\ hour \in Nat
  BY DEF ServedInv, DigestInv, TypeOK
<1>3. SightOK'
  <2>1. ASSUME NEW s \in Runs
        PROVE  /\ zones'[s] = zone'
               /\ pc'[s] \notin {"off", "choosing"} =>
                    \E c \in Channels : mail'[s] = <<c, StartAt(zone[c], now[s])>>' 
    <3>1. CASE s = r
      BY <1>1, <3>1
    <3>2. CASE s # r
      BY <1>1, <1>2, <3>2 DEF SightOK
    <3> QED BY <3>1, <3>2
  <2> QED BY <2>1 DEF SightOK
<1>4. ASSUME NEW h \in 0..hour, NEW c \in Channels PROVE Settled(c, h)'
  <2>1. CASE h = hour
    <3>1. Facing(r, c)'
      BY <1>1 DEF Facing
    <3> QED BY <1>1, <2>1, <3>1 DEF Settled
  <2>2. CASE h # hour
    <3>1. Settled(c, h)
      BY <1>2, <2>2 DEF HoursOK
    <3>2. \A s \in Runs : Facing(s, c) => Facing(s, c)' /\ now'[s] = now[s]
      BY <1>1 DEF Facing
    <3> QED BY <1>1, <3>1, <3>2 DEF Settled
  <2> QED BY <2>1, <2>2
<1> QED BY <1>1, <1>3, <1>4 DEF HoursOK

\* A run turns to its channels, or is done with them.
LEMMA ChoosingKeepsServed ==
  ASSUME DigestInv, ServedInv, NEW r \in Runs,
         Refused(r) \/ End(r) \/ \E c \in Channels : Skip(r, c) \/ Take(r, c)
  PROVE  ServedInv'
<1> USE DEF clock, table, resend, book, chan, sight
<1>0. TypeOK /\ (moves = 0 => SightOK)
  BY DEF DigestInv, ServedInv
<1>1. CASE Refused(r)
  <2>1. /\ pc[r] = "building" /\ pc'[r] = "choosing" /\ log[mail[r]] # "none"
        /\ \A s \in Runs \ {r} : pc'[s] = pc[s] /\ mail'[s] = mail[s]
        /\ UNCHANGED <<clock, chan, table, failed, sight, todo>>
    BY <1>0, <1>1 DEF Refused, TypeOK
  <2>2. \A c \in Channels : Facing(r, c) =>
          Facing(r, c)' \/ log'[<<c, StartAt(zone[c], now[r])>>] # "none"
    BY <2>1 DEF Facing
  <2> QED BY <2>1, <2>2, RunKeepsServed
<1>2. CASE End(r)
  <2>1. /\ pc[r] = "choosing" /\ todo[r] = {} /\ pc'[r] = "off"
        /\ \A s \in Runs \ {r} : pc'[s] = pc[s]
        /\ UNCHANGED <<clock, chan, table, failed, sight, todo, mail>>
    BY <1>0, <1>2 DEF End, TypeOK
  <2>2. \A c \in Channels : ~Facing(r, c)
    BY <2>1 DEF Facing
  <2> QED BY <2>1, <2>2, RunKeepsServed
<1>3. ASSUME NEW c \in Channels, Skip(r, c) PROVE ServedInv'
  <2>1. /\ pc[r] = "choosing" /\ todo'[r] = todo[r] \ {c}
        /\ \A s \in Runs \ {r} : todo'[s] = todo[s]
        /\ UNCHANGED <<clock, chan, table, failed, pc, sight, mail>>
    BY <1>0, <1>3 DEF Skip, TypeOK
  <2>2. moves = 0 => \/ ~Due(zone[c], now[r])
                     \/ log[<<c, StartAt(zone[c], now[r])>>] # "none"
    BY <1>0, <1>3 DEF Skip, Aim, SightOK
  <2>3. \A d \in Channels : moves = 0 /\ Facing(r, d) =>
          \/ Facing(r, d)' \/ ~Due(zone[d], now[r])
          \/ log'[<<d, StartAt(zone[d], now[r])>>] # "none"
    BY <2>1, <2>2 DEF Facing
  <2> QED BY <2>1, <2>3, RunKeepsServed
<1>4. ASSUME NEW c \in Channels, Take(r, c) PROVE ServedInv'
  <2>1. /\ pc[r] = "choosing" /\ pc'[r] = "building" /\ todo'[r] = todo[r] \ {c}
        /\ \A s \in Runs \ {r} : /\ pc'[s] = pc[s] /\ todo'[s] = todo[s]
                                 /\ mail'[s] = mail[s]
        /\ UNCHANGED <<clock, chan, table, failed, sight>>
    BY <1>0, <1>4 DEF Take, TypeOK
  <2>2. moves = 0 => mail'[r] = <<c, StartAt(zone[c], now[r])>>
    BY <1>0, <1>4 DEF Take, Aim, SightOK, TypeOK
  <2>3. \A d \in Channels : moves = 0 /\ Facing(r, d) => Facing(r, d)'
    BY <2>1, <2>2 DEF Facing
  <2> QED BY <2>1, <2>2, <2>3, RunKeepsServed
<1> QED BY <1>1, <1>2, <1>3, <1>4

\* A run reserves its row and sends.
LEMMA SendingKeepsServed ==
  ASSUME DigestInv, ServedInv, NEW r \in Runs,
         Reserve(r) \/ Send(r) \/ SendUnanswered(r)
  PROVE  ServedInv'
<1> USE DEF clock, table, resend, book, chan, sight
<1>1. TypeOK /\ (moves = 0 => SightOK)
  BY DEF DigestInv, ServedInv
<1>2. /\ pc[r] \notin {"off", "choosing"} /\ pc'[r] \notin {"off", "choosing"}
      /\ \A s \in Runs \ {r} : pc'[s] = pc[s]
      /\ UNCHANGED <<clock, chan, log, failed, sight, todo, mail>>
  BY <1>1 DEF Reserve, Send, SendUnanswered, TypeOK
<1>3. \A c \in Channels : Facing(r, c) => Facing(r, c)'
  BY <1>2 DEF Facing
<1>4. moves = 0 => \E c \in Channels : mail'[r] = <<c, StartAt(zone[c], now[r])>>
  BY <1>1, <1>2 DEF SightOK
<1> QED BY <1>2, <1>3, <1>4, RunKeepsServed

\* A run is done with its row, or dies.
LEMMA ReleaseKeepsServed ==
  ASSUME DigestInv, ServedInv, NEW r \in Runs, SendFails(r) \/ Commit(r) \/ Crash(r)
  PROVE  ServedInv'
<1> USE DEF clock, table, resend, book, chan, sight
<1>0. TypeOK /\ (moves = 0 => SightOK)
  BY DEF DigestInv, ServedInv
<1>1. CASE SendFails(r)
  <2>1. /\ pc[r] = "reserved" /\ pc'[r] = "choosing"
        /\ \A s \in Runs \ {r} : pc'[s] = pc[s] /\ mail'[s] = mail[s]
        /\ UNCHANGED <<clock, chan, log, sight, todo>>
    BY <1>0, <1>1 DEF SendFails, TypeOK
  <2>2. \A c \in Channels : /\ failed[c] \subseteq failed'[c]
                            /\ c = mail[r][1] => now[r] \in failed'[c]
    BY <1>1 DEF SendFails, Miss
  <2>3. \A c \in Channels : Facing(r, c) => Facing(r, c)' \/ now[r] \in failed'[c]
    BY <2>1, <2>2 DEF Facing
  <2> QED BY <2>1, <2>2, <2>3, RunKeepsServed
<1>2. CASE Commit(r)
  <2>1. /\ pc[r] \in Holding /\ pc'[r] = "choosing"
        /\ \A s \in Runs \ {r} : pc'[s] = pc[s] /\ mail'[s] = mail[s]
        /\ UNCHANGED <<clock, chan, failed, sight, todo>>
    BY <1>0, <1>2 DEF Commit, TypeOK
  <2>2. mail[r] \in Mails
    BY <1>0, <2>1 DEF TypeOK, Holding
  <2>3. log'[mail[r]] # "none" /\ \A m \in Mails : log[m] # "none" => log'[m] # "none"
    BY <1>0, <1>2, <2>2 DEF Commit, TypeOK
  <2>4. \A c \in Channels : Facing(r, c) =>
          Facing(r, c)' \/ log'[<<c, StartAt(zone[c], now[r])>>] # "none"
    BY <2>1, <2>3 DEF Facing
  <2> QED BY <2>1, <2>3, <2>4, RunKeepsServed
<1>3. CASE Crash(r)
  <2>1. /\ pc'[r] = "off"
        /\ \A s \in Runs \ {r} : /\ pc'[s] = pc[s] /\ todo'[s] = todo[s]
                                 /\ mail'[s] = mail[s]
        /\ UNCHANGED <<clock, chan, log, sight>>
    BY <1>0, <1>3 DEF Crash, TypeOK
  <2>2. \A c \in Channels :
          /\ failed[c] \subseteq failed'[c]
          /\ c \in todo[r] \/ (pc[r] # "choosing" /\ c = mail[r][1]) => now[r] \in failed'[c]
    BY <1>3 DEF Crash, Miss
  <2>3. \A c \in Channels : Facing(r, c) => now[r] \in failed'[c]
    BY <2>2 DEF Facing
  <2> QED BY <2>1, <2>2, <2>3, RunKeepsServed
<1> QED BY <1>1, <1>2, <1>3

LEMMA ServedStep == ASSUME DigestInv, ServedInv, [Next]_vars PROVE ServedInv'
<1>1. CASE Next
  BY <1>1, OutsideKeepsServed, BeginKeepsServed, ChoosingKeepsServed, SendingKeepsServed,
     ReleaseKeepsServed DEF Next, Work
<1>2. CASE UNCHANGED vars
  BY <1>2 DEF vars, ServedInv, SightOK, HoursOK, Settled, Facing
<1> QED BY <1>1, <1>2

\* While a channel keeps its zone, a period ends without a row of it only where each
\* due hour was missed or its run failed (_due_now, last_period_bounds, main).
THEOREM LostOnlyByFailure == Spec => []LostOnlyIfEveryHourFailed
<1>1. ServedInv /\ DigestInv => LostOnlyIfEveryHourFailed
  <2> SUFFICES ASSUME ServedInv, DigestInv, NEW c \in Channels, moves = 0,
                      \A r \in Runs : pc[r] = "off", NEW h \in 0..hour,
                      SendHour <= (h + zone[c]) % Day,
                      StartAt(zone[c], h) < StartAt(zone[c], hour),
                      log[<<c, StartAt(zone[c], h)>>] = "none"
               PROVE  h \in failed[c]
    BY DEF LostOnlyIfEveryHourFailed
  <2>0. hour \in Int /\ h \in Int /\ zone[c] \in Int
    <3>1. hour \in 0..MaxHour /\ zone[c] \in Offsets
      BY DEF DigestInv, TypeOK
    <3>2. hour \in Int /\ h \in Int
      BY <3>1, ClockAssumption
    <3>3. zone[c] \in Int
      BY <3>1, ClockAssumption
    <3> QED BY <3>2, <3>3
  <2>1. StartAt(zone[c], hour) \in Int
    <3>1. hour \in Int /\ zone[c] \in Int /\ Week \in Nat \ {0}
      BY <2>0, ClockAssumption
    <3>2. ((hour + zone[c]) \div Week) \in Int
      BY <3>1
    <3>3. ((hour + zone[c]) \div Week) * Week \in Int
      BY <3>1, <3>2
    <3> QED BY <3>1, <3>3 DEF StartAt
  <2>2. h # hour
    BY <2>1
  <2>3. h < hour
    BY <2>2 DEF DigestInv, TypeOK
  <2>4. Settled(c, h)
    BY <2>3 DEF ServedInv, HoursOK
  <2>5. Due(zone[c], h) /\ \A r \in Runs : ~Facing(r, c)
    <3>1. ((h + zone[c]) % Day) \in Int
      <4>1. h \in Int /\ zone[c] \in Int /\ Day \in Nat \ {0}
        BY <2>0, ClockAssumption
      <4> QED BY <4>1
    <3> QED BY <3>1, ClockAssumption DEF Due, Facing
  <2> QED BY <2>4, <2>5 DEF Settled
<1>2. Init => ServedInv
  BY ServedStart
<1>3. DigestInv /\ ServedInv /\ [Next]_vars => ServedInv'
  BY ServedStep
<1> QED BY <1>1, <1>2, <1>3, DigestInvariant, PTL DEF Spec
===========================================================================
