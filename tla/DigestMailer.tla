--------------------------- MODULE DigestMailer ---------------------------
(***************************************************************************)
(* How the recap of a channel's last period is mailed once                 *)
(* (scripts/send_email_digests.py, core/mailer.py, last_period_bounds of   *)
(* core/digest.py).                                                        *)
(*                                                                         *)
(* log is the committed rows of email_digest_log, one for each channel and *)
(* period_start.  A run inserts its row before it sends and commits it     *)
(* after: in between the row is held by the run.  Nobody sees it, but the  *)
(* unique index makes another run's insert of it wait.  A run reads the    *)
(* clock once, when it begins; a slow one overlaps the next.               *)
(*                                                                         *)
(* Time goes in hours, Day to a day and Week to a period: the monthly mail *)
(* is another instance.  The channels are those that opted in, have an     *)
(* address and have lives in the period.  Building the recap, its insights *)
(* (best effort: an LLM outage loses nothing else) and its layout are left *)
(* out.                                                                    *)
(***************************************************************************)
EXTENDS Integers, FiniteSets

CONSTANTS
  Channels,    \* eligible channels
  Runs,        \* processes that may run the script
  NoRun,       \* not one of them
  NoMail,      \* not a row
  Offsets,     \* hours a channel's zone may be ahead of UTC
  Day, Week,   \* hours in a day and in a period
  SendHour,    \* settings.digest_send_hour
  MaxHour,     \* bound: time stops here
  MaxFaults,   \* bound: missed runs, crashes, refused and unanswered sends
  MaxMoves     \* bound: changes of a channel's zone

ASSUME ClockAssumption ==
  /\ Day \in Nat \ {0} /\ Week \in Nat \ {0} /\ SendHour \in Nat
  /\ Offsets \subseteq Int
  /\ MaxHour \in Nat /\ MaxFaults \in Nat /\ MaxMoves \in Nat

\* channel_zone, last_period_bounds: when the last complete period began, for a
\* channel so far ahead of UTC.
StartAt(offset, h) == ((h + offset) \div Week) * Week - Week - offset

\* Seeded fault: during the hour only.
Due_Exact(offset, h) == (h + offset) % Day = SendHour

\* _due_now: at or after the hour, on any day of the period.
Due(offset, h) == (h + offset) % Day >= SendHour

Starts == {StartAt(o, h) : o \in Offsets, h \in 0..MaxHour}

\* The rows there may be: channel_id and period_start.
Mails == Channels \X Starts

ASSUME RunsAssumption == NoRun \notin Runs /\ NoMail \notin Mails

VARIABLES
  hour,
  began,      \* BOOLEAN: the job of this hour has begun
  zone,       \* [Channels -> Offsets]  channels.timezone
  log,        \* [Mails -> Logs]        email_digest_log
  holder,     \* [Mails -> Runs \cup {NoRun}]  who has inserted it, uncommitted
  delivered,  \* [Mails -> Nat]         mails accepted by Resend
  slips,      \* [Mails -> Nat]         ... that the job does not know of
  failed,     \* [Channels -> SUBSET Int]  hours whose run did not serve it
  pc,         \* [Runs -> Locations]
  now,        \* [Runs -> Int]          the run's now
  zones,      \* [Runs -> [Channels -> Offsets]]  the channels as it read them
  todo,       \* [Runs -> SUBSET Channels]
  mail,       \* [Runs -> Mails \cup {NoMail}]  the row it is working at
  faults, moves   \* counted against their bounds

clock == <<hour, began>>
table == <<log, holder>>
resend == <<delivered, slips>>
book  == <<failed, faults>>
chan  == <<zone, moves>>
sight == <<now, zones>>
vars  == <<hour, began, zone, log, holder, delivered, slips, failed, pc, now,
           zones, todo, mail, faults, moves>>

\* "uncertain": committed without sent_at.
Logs == {"none", "uncertain", "sent"}

\* Where a run is; "lost": its request went, no answer came, Resend has the
\* mail; "unheard": no answer came, Resend does not.
Locations == {"off", "choosing", "building", "reserved", "accepted", "lost",
              "unheard"}

\* A run that holds the row of its mail,
Holding == {"reserved", "accepted", "lost", "unheard"}

\* and one whose mail is with Resend.
Accepted == {"accepted", "lost"}

---------------------------------------------------------------------------
Init ==
  /\ hour = 0 /\ began = FALSE
  /\ zone \in [Channels -> Offsets]
  /\ log       = [m \in Mails |-> "none"]
  /\ holder    = [m \in Mails |-> NoRun]
  /\ delivered = [m \in Mails |-> 0]
  /\ slips     = [m \in Mails |-> 0]
  /\ failed    = [c \in Channels |-> {}]
  /\ pc    = [r \in Runs |-> "off"]
  /\ now   = [r \in Runs |-> 0]
  /\ zones = [r \in Runs |-> zone]
  /\ todo  = [r \in Runs |-> {}]
  /\ mail  = [r \in Runs |-> NoMail]
  /\ faults = 0 /\ moves = 0

Fault == faults < MaxFaults /\ faults' = faults + 1

\* The hour h of the channels in C goes by without their mail.
Miss(C, h) ==
  failed' = [c \in Channels |-> IF c \in C THEN failed[c] \cup {h} ELSE failed[c]]

\* An hour passes; the platform may not have started its job.
Tick ==
  /\ hour < MaxHour
  /\ hour' = hour + 1
  /\ began' = FALSE
  /\ IF began THEN UNCHANGED book ELSE Fault /\ Miss(Channels, hour)
  /\ UNCHANGED <<chan, table, resend, pc, sight, todo, mail>>

\* The streamer sets another zone (apps/api/channel.py).
Move(c) ==
  /\ moves < MaxMoves
  /\ moves' = moves + 1
  /\ \E o \in Offsets \ {zone[c]} : zone' = [zone EXCEPT ![c] = o]
  /\ UNCHANGED <<clock, table, resend, book, pc, sight, todo, mail>>

\* A run begins: it reads the clock and the eligible channels.
Begin(r) ==
  /\ pc[r] = "off"
  /\ began' = TRUE
  /\ pc'    = [pc EXCEPT ![r] = "choosing"]
  /\ now'   = [now EXCEPT ![r] = hour]
  /\ zones' = [zones EXCEPT ![r] = zone]
  /\ todo'  = [todo EXCEPT ![r] = Channels]
  /\ UNCHANGED <<hour, chan, table, resend, book, mail>>

\* The row of c in the eyes of r, which reads the channel again after a rollback.
Aim(r, c, m) ==
  \E o \in {zones[r][c], zone[c]} : m = <<c, StartAt(o, now[r])>>
                                    /\ Due(o, now[r])

\* Not due, or _already_reserved.
Skip(r, c) ==
  /\ pc[r] = "choosing" /\ c \in todo[r]
  /\ \/ \E o \in {zones[r][c], zone[c]} : ~Due(o, now[r])
     \/ \E m \in Mails : Aim(r, c, m) /\ log[m] # "none"
  /\ todo' = [todo EXCEPT ![r] = @ \ {c}]
  /\ UNCHANGED <<clock, chan, table, resend, book, pc, sight, mail>>

\* No committed row: _send_one builds the recap.
Take(r, c) ==
  /\ pc[r] = "choosing" /\ c \in todo[r]
  /\ \E m \in Mails : Aim(r, c, m) /\ log[m] = "none"
                      /\ mail' = [mail EXCEPT ![r] = m]
  /\ todo' = [todo EXCEPT ![r] = @ \ {c}]
  /\ pc'   = [pc EXCEPT ![r] = "building"]
  /\ UNCHANGED <<clock, chan, table, resend, book, sight>>

\* Seeded fault: the insert is not refused.
Reserve_Unchecked(r) ==
  /\ pc[r] = "building"
  /\ holder[mail[r]] = NoRun
  /\ holder' = [holder EXCEPT ![mail[r]] = r]
  /\ pc' = [pc EXCEPT ![r] = "reserved"]
  /\ UNCHANGED <<clock, chan, log, resend, book, sight, todo, mail>>

\* _reserve inserts the row, once no other run holds it, ...
Reserve(r) ==
  /\ pc[r] = "building"
  /\ holder[mail[r]] = NoRun
  /\ log[mail[r]] = "none"
  /\ holder' = [holder EXCEPT ![mail[r]] = r]
  /\ pc' = [pc EXCEPT ![r] = "reserved"]
  /\ UNCHANGED <<clock, chan, log, resend, book, sight, todo, mail>>

\* ... or is refused by the unique index.
Refused(r) ==
  /\ pc[r] = "building"
  /\ log[mail[r]] # "none"
  /\ pc' = [pc EXCEPT ![r] = "choosing"]
  /\ mail' = [mail EXCEPT ![r] = NoMail]
  /\ UNCHANGED <<clock, chan, table, resend, book, sight, todo>>

\* Resend accepts the mail and answers with its id,
Send(r) ==
  /\ pc[r] = "reserved"
  /\ delivered' = [delivered EXCEPT ![mail[r]] = @ + 1]
  /\ pc' = [pc EXCEPT ![r] = "accepted"]
  /\ UNCHANGED <<clock, chan, table, slips, book, sight, todo, mail>>

\* or the request goes and no answer comes (MailerUncertain).
SendUnanswered(r) ==
  /\ pc[r] = "reserved"
  /\ Fault
  /\ \/ /\ delivered' = [delivered EXCEPT ![mail[r]] = @ + 1]
        /\ pc' = [pc EXCEPT ![r] = "lost"]
     \/ /\ UNCHANGED delivered
        /\ pc' = [pc EXCEPT ![r] = "unheard"]
  /\ UNCHANGED <<clock, chan, table, slips, failed, sight, todo, mail>>

\* MailerError: Resend refuses it, or accepts it in an answer without an id.
\* The row is rolled back.
SendFails(r) ==
  /\ pc[r] = "reserved"
  /\ Fault
  /\ \/ UNCHANGED <<delivered, slips>>
     \/ /\ delivered' = [delivered EXCEPT ![mail[r]] = @ + 1]
        /\ slips'     = [slips EXCEPT ![mail[r]] = @ + 1]
  /\ Miss({mail[r][1]}, now[r])
  /\ holder' = [holder EXCEPT ![mail[r]] = NoRun]
  /\ pc' = [pc EXCEPT ![r] = "choosing"]
  /\ mail' = [mail EXCEPT ![r] = NoMail]
  /\ UNCHANGED <<clock, chan, log, sight, todo>>

\* Seeded fault: an unanswered send is rolled back like a failed one.
Commit_Answered(r) ==
  /\ pc[r] \in Holding \ {"reserved"}
  /\ log' = IF pc[r] = "accepted" THEN [log EXCEPT ![mail[r]] = "sent"] ELSE log
  /\ holder' = [holder EXCEPT ![mail[r]] = NoRun]
  /\ pc' = [pc EXCEPT ![r] = "choosing"]
  /\ mail' = [mail EXCEPT ![r] = NoMail]
  /\ UNCHANGED <<clock, chan, resend, book, sight, todo>>

\* The row is committed, with sent_at where Resend answered.
Commit(r) ==
  /\ pc[r] \in Holding \ {"reserved"}
  /\ log' = [log EXCEPT ![mail[r]] =
               IF pc[r] = "accepted" THEN "sent" ELSE "uncertain"]
  /\ holder' = [holder EXCEPT ![mail[r]] = NoRun]
  /\ pc' = [pc EXCEPT ![r] = "choosing"]
  /\ mail' = [mail EXCEPT ![r] = NoMail]
  /\ UNCHANGED <<clock, chan, resend, book, sight, todo>>

\* The run dies (a kill, or an exception _send_one does not catch): its row is
\* rolled back, and the channels it had not reached are left out.
Crash(r) ==
  /\ pc[r] # "off"
  /\ Fault
  /\ Miss(todo[r] \cup (IF pc[r] = "choosing" THEN {} ELSE {mail[r][1]}), now[r])
  /\ slips' = IF pc[r] \in Accepted THEN [slips EXCEPT ![mail[r]] = @ + 1]
                                    ELSE slips
  /\ holder' = IF pc[r] \in Holding THEN [holder EXCEPT ![mail[r]] = NoRun]
                                    ELSE holder
  /\ pc'   = [pc EXCEPT ![r] = "off"]
  /\ todo' = [todo EXCEPT ![r] = {}]
  /\ mail' = [mail EXCEPT ![r] = NoMail]
  /\ UNCHANGED <<clock, chan, log, delivered, sight>>

\* Every channel has been looked at.
End(r) ==
  /\ pc[r] = "choosing" /\ todo[r] = {}
  /\ pc' = [pc EXCEPT ![r] = "off"]
  /\ UNCHANGED <<clock, chan, table, resend, book, sight, todo, mail>>

Work(r) == \/ Begin(r) \/ (\E c \in Channels : Skip(r, c) \/ Take(r, c))
           \/ Reserve(r) \/ Refused(r) \/ Send(r) \/ SendUnanswered(r)
           \/ SendFails(r) \/ Commit(r) \/ Crash(r) \/ End(r)

Next == Tick \/ (\E c \in Channels : Move(c)) \/ (\E r \in Runs : Work(r))

Spec == Init /\ [][Next]_vars
---------------------------------------------------------------------------
\* Properties.

TypeOK ==
  /\ hour \in 0..MaxHour /\ began \in BOOLEAN
  /\ zone \in [Channels -> Offsets]
  /\ log \in [Mails -> Logs]
  /\ holder \in [Mails -> Runs \cup {NoRun}]
  /\ delivered \in [Mails -> Nat]
  /\ slips \in [Mails -> Nat]
  /\ failed \in [Channels -> SUBSET (0..MaxHour)]
  /\ pc \in [Runs -> Locations]
  /\ now \in [Runs -> 0..MaxHour]
  /\ zones \in [Runs -> [Channels -> Offsets]]
  /\ todo \in [Runs -> SUBSET Channels]
  /\ mail \in [Runs -> Mails \cup {NoMail}]
  /\ \A r \in Runs : pc[r] \notin {"off", "choosing"} => mail[r] \in Mails
  /\ faults \in 0..MaxFaults /\ moves \in 0..MaxMoves

\* "what actually stops a duplicate send is EmailDigestLog's unique constraint":
\* however runs overlap, fail and are started again, a recap goes out a second
\* time only after Resend accepted one the job did not learn of: it died before
\* its commit, or the answer had no id.
SentAgainOnlyAfterSlip == \A m \in Mails : delivered[m] <= 1 + slips[m]

\* "the caller must NOT send this digest again" (MailerUncertain): once a row is
\* committed, with or without sent_at, nothing is sent for it and it stays.
ReservationIsFinal ==
  [][\A m \in Mails : log[m] # "none" =>
       log'[m] = log[m] /\ delivered'[m] = delivered[m]]_vars

\* "a scheduled run that started late or failed skipped the channel for the
\* whole period" no more: a period ends without a row only where each of its due
\* hours was missed, by no run or by one that failed.
LostOnlyIfEveryHourFailed ==
  \A c \in Channels :
    LET o == zone[c]
        Gone(h) == /\ SendHour <= (h + o) % Day  \* what the docstring says of Due
                   /\ StartAt(o, h) < StartAt(o, hour)
    IN  moves = 0 /\ (\A r \in Runs : pc[r] = "off") =>
          \A h \in 0..hour :
            Gone(h) /\ log[<<c, StartAt(o, h)>>] = "none" => h \in failed[c]

\* s and t are midnights, in two zones, that begin the same week.
SameWeek(s, t) ==
  \E o, p \in Offsets : s + o = t + p /\ (s + o) % Week = 0

\* ... and "the unique constraint is what makes the sending job idempotent"
\* (EmailDigestLog): no channel gets the recap of a week twice.
OneRecapPerWeek ==
  \A c \in Channels, s, t \in Starts :
    delivered[<<c, s>>] > 0 /\ delivered[<<c, t>>] > 0 /\ SameWeek(s, t) => s = t

---------------------------------------------------------------------------
\* The inductive invariant behind SentAgainOnlyAfterSlip and ReservationIsFinal.

\* Each row in hand has one holder, and is not committed yet.
HolderOK ==
  /\ \A r \in Runs : pc[r] \in Holding => holder[mail[r]] = r
  /\ \A m \in Mails : holder[m] # NoRun =>
       /\ log[m] = "none"
       /\ mail[holder[m]] = m
       /\ pc[holder[m]] \in Holding

\* A mail is accounted for by its row, by the run that has just sent it, or it
\* has slipped.
Known(m) == log[m] # "none" \/ (holder[m] # NoRun /\ pc[holder[m]] \in Accepted)

MailsOK ==
  \A m \in Mails : delivered[m] <= slips[m] + (IF Known(m) THEN 1 ELSE 0)

DigestInv == TypeOK /\ HolderOK /\ MailsOK

\* The inductive invariant behind LostOnlyIfEveryHourFailed, while no zone changes.

\* A run that still has the channel before it, or in hand.
Facing(r, c) ==
  /\ pc[r] # "off"
  /\ c \in todo[r] \/ (pc[r] # "choosing" /\ mail[r] = <<c, StartAt(zone[c], now[r])>>)

\* What becomes of a channel in an hour whose job has begun, or was missed.
Settled(c, h) ==
  \/ h \in failed[c]
  \/ ~Due(zone[c], h)
  \/ log[<<c, StartAt(zone[c], h)>>] # "none"
  \/ \E r \in Runs : now[r] = h /\ Facing(r, c)

SightOK ==
  /\ \A r \in Runs : zones[r] = zone
  /\ \A r \in Runs : pc[r] \notin {"off", "choosing"} =>
       \E c \in Channels : mail[r] = <<c, StartAt(zone[c], now[r])>>

HoursOK ==
  \A h \in 0..hour : h < hour \/ began => \A c \in Channels : Settled(c, h)

ServedInv == moves = 0 => SightOK /\ HoursOK
===========================================================================
