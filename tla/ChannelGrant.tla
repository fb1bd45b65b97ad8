--------------------------- MODULE ChannelGrant ---------------------------
(***************************************************************************)
(* The OAuth grant of a channel (core/channels.py) and those who use it:   *)
(* the sign-in with its backfill (apps/api/auth.py, core/backfill.py), the *)
(* clip tasks of the capture worker (workers/capture/collectors.py) and    *)
(* the follower worker (core/follower_sync.py).                            *)
(*                                                                         *)
(* ensure_fresh_token only flushes the grant it got: it is committed, or   *)
(* lost, with the rest of its caller's transaction, and the row is locked  *)
(* meanwhile.  Twitch answers a refresh with the same refresh token, or    *)
(* with a new one, and then honours the old one no more.                   *)
(*                                                                         *)
(* Refresh tokens are numbers.  Of what the backfill fetches, the accounts *)
(* are kept: Twitch's answers are any sets of them.                        *)
(***************************************************************************)
EXTENDS Integers, FiniteSets, Sequences

CONSTANTS
  Callers,      \* the transactions that may use the grant,
  Callback,     \* ... of which this is the sign-in's
  Backfill,     \* BACKFILL_STEPS, in order,
  AddOnly,      \* ... and those that only add and refresh rows
  Accounts,     \* what a list of Helix may hold
  MaxTokens     \* bound: refresh tokens issued

ASSUME GrantAssumption == Callback \in Callers /\ MaxTokens \in Nat

VARIABLES
  live,      \* the refresh tokens Twitch honours
  issued,    \* how many it has issued
  onFile,    \* channels.refresh_token_encrypted; 0 before the first sign-in
  fresh,     \* BOOLEAN: channels.token_expires_at is far enough
  phase,     \* [Callers -> Phases]
  asked,     \* [Callers -> 0..MaxTokens]  the refresh token read
  got,       \* [Callers -> 0..MaxTokens]  the one it was answered with
  answers,   \* how Twitch answers: "same", "rotated", or now one, now the other
  revoked,   \* the tokens that died when the streamer disconnected
  orphaned,  \* those whose successor went with a rollback
  steps,     \* the steps of BACKFILL_STEPS to come
  tables     \* [step -> SUBSET Accounts]

grantVars == <<live, issued, onFile, fresh, phase, asked, got,
               answers, revoked, orphaned, steps, tables>>

fates == <<answers, revoked, orphaned>>

\* "asking": with its request to Twitch; "granted": answered; "flushed": it
\* holds the row of the channel; "using": with a token that was still valid.
Phases == {"idle", "asking", "granted", "refused", "flushed", "using"}

Locked == \E c \in Callers : phase[c] = "flushed"

\* A transaction that was answered with a new refresh token.
Rotated(c) == phase[c] \in {"granted", "flushed"} /\ got[c] # asked[c]

At(c, p) == phase' = [phase EXCEPT ![c] = p]

\* The transaction is over, and what it read or was given with it.
EndTransaction(c) ==
  /\ At(c, "idle")
  /\ asked' = [asked EXCEPT ![c] = 0]
  /\ got'  = [got EXCEPT ![c] = 0]

---------------------------------------------------------------------------
GrantInit ==
  /\ live = {} /\ issued = 0 /\ onFile = 0 /\ fresh = FALSE
  /\ phase = [c \in Callers |-> "idle"]
  /\ asked  = [c \in Callers |-> 0] /\ got = [c \in Callers |-> 0]
  /\ answers \in {"same", "rotated", "mixed"}
  /\ revoked = {} /\ orphaned = {} /\ steps = <<>>
  /\ tables = [s \in {Backfill[i] : i \in 1..Len(Backfill)} |-> {}]

\* /auth/callback: exchange_code brings a grant of its own, which
\* upsert_channel stores and commits before anything else.
SignIn ==
  /\ phase[Callback] = "idle" /\ steps = <<>> /\ ~Locked
  /\ issued < MaxTokens
  /\ issued' = issued + 1
  /\ live'   = live \cup {issued + 1}
  /\ onFile' = issued + 1
  /\ fresh'  = TRUE
  /\ steps'  = Backfill
  /\ UNCHANGED <<phase, asked, got, fates, tables>>

\* The streamer disconnects the application.
Disconnect ==
  /\ live # {}
  /\ live' = {}
  /\ revoked' = revoked \cup live
  /\ UNCHANGED <<issued, onFile, fresh, phase, asked, got, answers, orphaned, steps, tables>>

\* Time: the access token comes near its end.
Expire ==
  /\ fresh /\ fresh' = FALSE
  /\ UNCHANGED <<live, issued, onFile, phase, asked, got, fates, steps, tables>>

\* ensure_fresh_token: a valid token is used, another is refreshed with the
\* refresh token as this transaction read it.
Ensure(c) ==
  /\ phase[c] = "idle" /\ onFile # 0
  /\ c = Callback => steps # <<>>
  /\ At(c, IF fresh THEN "using" ELSE "asking")
  /\ asked' = [asked EXCEPT ![c] = onFile]
  /\ UNCHANGED <<live, issued, onFile, fresh, got, fates, steps, tables>>

\* Twitch answers with the token it was sent, or with a new one in its place.
Grant(c) ==
  /\ phase[c] = "asking" /\ asked[c] \in live
  /\ At(c, "granted")
  /\ \/ /\ answers # "rotated"
        /\ got' = [got EXCEPT ![c] = asked[c]]
        /\ UNCHANGED <<live, issued>>
     \/ /\ answers # "same"
        /\ issued < MaxTokens
        /\ issued' = issued + 1
        /\ live' = (live \ {asked[c]}) \cup {issued + 1}
        /\ got' = [got EXCEPT ![c] = issued + 1]
  /\ UNCHANGED <<onFile, fresh, asked, fates, steps, tables>>

\* ... or refuses it.
Refuse(c) ==
  /\ phase[c] = "asking" /\ asked[c] \notin live
  /\ At(c, "refused")
  /\ UNCHANGED <<live, issued, onFile, fresh, asked, got, fates, steps, tables>>

\* _store_grant and the flush, which waits for the row.
FlushGrant(c) ==
  /\ phase[c] = "granted" /\ ~Locked
  /\ At(c, "flushed")
  /\ UNCHANGED <<live, issued, onFile, fresh, asked, got, fates, steps, tables>>

\* Seeded fault: the token is used and the grant is left out of the commit.
CommitGrant_Unstored(c) == UNCHANGED <<onFile, fresh>>

\* Seeded fault: the new access token is stored with the old refresh token.
CommitGrant_OldRefresh(c) ==
  IF phase[c] = "flushed"
  THEN onFile' = asked[c] /\ fresh' = TRUE
  ELSE UNCHANGED <<onFile, fresh>>

\* The transaction commits the grant it flushed, over whatever is on file.
CommitGrant(c) ==
  IF phase[c] = "flushed"
  THEN onFile' = got[c] /\ fresh' = TRUE
  ELSE UNCHANGED <<onFile, fresh>>

\* A step of the backfill has fetched its list and commits its rows.
CommitStep ==
  /\ phase[Callback] \in {"flushed", "using"}
  /\ CommitGrant(Callback)
  /\ \E listed \in SUBSET Accounts :
       tables' = [tables EXCEPT ![Head(steps)] =
                    IF Head(steps) \in AddOnly THEN @ \cup listed ELSE listed]
  /\ steps' = Tail(steps)
  /\ EndTransaction(Callback)
  /\ UNCHANGED <<live, issued, fates>>

\* A clip task or a page of followers commits.
CommitWork(c) ==
  /\ c # Callback /\ phase[c] \in {"flushed", "using"}
  /\ CommitGrant(c)
  /\ EndTransaction(c)
  /\ UNCHANGED <<live, issued, fates, steps, tables>>

\* Whatever fails after the answer (a call of Helix, the insert of a row, the
\* process) or with it rolls the transaction back; the backfill goes on.
RollBack(c) ==
  /\ phase[c] # "idle"
  /\ orphaned' = IF Rotated(c) THEN orphaned \cup {asked[c]} ELSE orphaned
  /\ steps' = IF c = Callback THEN Tail(steps) ELSE steps
  /\ EndTransaction(c)
  /\ UNCHANGED <<live, issued, onFile, fresh, answers, revoked, tables>>

GrantNext ==
  \/ SignIn \/ Disconnect \/ Expire \/ CommitStep
  \/ \E c \in Callers :
       Ensure(c) \/ Grant(c) \/ Refuse(c) \/ FlushGrant(c) \/ CommitWork(c) \/ RollBack(c)

GrantSpec == GrantInit /\ [][GrantNext]_grantVars

---------------------------------------------------------------------------
\* A transaction holds the token that replaced it.
SuccessorHeld(t) == \E c \in Callers : Rotated(c) /\ asked[c] = t

\* While Twitch answers always with the same token or always with a new one, a
\* token on file that it does not honour was revoked by the streamer, or replaced
\* by one that a transaction holds or that went with a rollback: for all that
\* refreshes of several processes overwrite, none brings back a token that
\* another has replaced.
DeadGrantWasLost ==
  answers # "mixed" /\ onFile # 0 /\ onFile \notin live =>
    onFile \in revoked \cup orphaned \/ SuccessorHeld(onFile)

\* Under the same condition a refusal means a dead channel only if the token was
\* revoked or its successor dropped: else another process refreshed it first,
\* and the token on file is another, or is about to be.
RefusalExplained ==
  answers # "mixed" =>
    \A c \in Callers : phase[c] = "refused" =>
      \/ asked[c] \in revoked \cup orphaned
      \/ onFile # asked[c]
      \/ SuccessorHeld(asked[c])

\* core/channels.py says of ensure_fresh_token that it refreshes "(and persisting
\* the rotated refresh token)": but for the streamer, a token that was replaced is
\* on file only until its successor is.  It only flushes the successor.
RotatedTokenPersisted ==
  onFile # 0 /\ onFile \notin live => onFile \in revoked \/ SuccessorHeld(onFile)

\* The screen says of an expired connection that "Connecting again fixes it": a
\* token that a sign-in or a refresh has stored is not replaced by one that is good
\* for nothing.  A transaction writes the grant it was given over whatever is on
\* file by then.
StoredTokenStays ==
  [][(onFile \in live /\ onFile' # onFile) => onFile' \in live']_grantVars
===========================================================================
