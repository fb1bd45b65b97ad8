-------------------------- MODULE MCMailAndScreens --------------------------
(***************************************************************************)
(* What a channel is sent and shown, for TLC: DigestMailer on its instance *)
(* and Screens on worlds of two channels.  A behaviour is of one of them.  *)
(*                                                                         *)
(* Days are of 24 half minutes, lives of six.  There is a world for each   *)
(* kind of page: the talk, the money, what went on during a live, and who  *)
(* is around.  Each has a live or a row of the other channel.              *)
(***************************************************************************)
EXTENDS MCDigestMailer, Screens

VARIABLE part   \* "mail" or "screens"

NoRows == [t \in Tables |-> {}]

Home == {[channel |-> "a", zone |-> 0, total |-> {}], [channel |-> "b", zone |-> 0, total |-> {2}]}

Live(id, c, start, end, category) ==
  [id |-> id, channel |-> c, start |-> start, end |-> end, stage |-> "capturing",
   category |-> category]

Said(id, live, c, author, login, at, mood) ==
  [id |-> id, live |-> live, channel |-> c, author |-> author, login |-> login, at |-> at,
   words |-> {"hi"}, mood |-> mood, asks |-> mood = 0]

Happened(id, live, c, type, amount, login, at) ==
  [id |-> id, live |-> live, channel |-> c, type |-> type, amount |-> amount, tier |-> 1000,
   login |-> login, at |-> at, level |-> 1, title |-> login]

Seen(id, live, at, viewers) == [id |-> id, live |-> live, at |-> at, viewers |-> viewers]

Speech(id, live, from, to) ==
  [id |-> id, live |-> live, from |-> from, to |-> to, kind |-> "speech", words |-> {"hi"}]

Topic(id, live, messages, segments) ==
  [id |-> id, live |-> live, type |-> "topic", name |-> "a game", messages |-> messages,
   segments |-> segments, peak |-> 0, feedback |-> "none"]

Loud(id, live, from, to, score) ==
  [id |-> id, live |-> live, from |-> from, to |-> to, score |-> score]

Paid(id, c, kind, who, cents, at) ==
  [id |-> id, channel |-> c, kind |-> kind, who |-> who, cents |-> cents, at |-> at,
   currency |-> "USD"]

\* Two lives of a day: one person on both, under another name in the second.
TalkWorld ==
  [NoRows EXCEPT
     !.channels = Home,
     !.streams = {Live(1, "a", 2, 8, "x"), Live(2, "a", 14, 20, "y"), Live(3, "b", 3, 9, "x")},
     !.chat = {Said(1, 1, "a", 1, "ana", 3, 1), Said(2, 1, "a", 2, "bob", 6, 0),
               Said(3, 2, "a", 1, "anna", 15, -1), Said(4, 3, "b", 1, "ana", 4, 1)},
     !.segments = {Speech(1, 1, 3, 4), Speech(2, 2, 15, 16)},
     !.insights = {Topic(1, 1, {1}, {1})},
     !.peaks = {Loud(1, 1, 3, 5, 2), Loud(2, 3, 3, 5, 1)}]

\* Payments on two days, one of them anonymous.
PaidWorld ==
  [NoRows EXCEPT
     !.channels = {[channel |-> "a", zone |-> 5, total |-> {}], [channel |-> "b", zone |-> 0, total |-> {}]},
     !.streams = {Live(1, "a", 20, 26, "x"), Live(2, "a", 46, 52, NoLogin)},
     !.events = {Happened(1, 1, "a", "cheer", 100, "ana", 22), Happened(2, 1, "a", "sub", 1000, "ana", 24),
                 Happened(3, 2, "a", "gift", 2, NoLogin, 47)},
     !.segments = {Speech(1, 1, 22, 23)},
     !.insights = {Topic(1, 1, {}, {1})},
     !.tips = {Paid(1, "a", "tip", "Ana", 300, 21), Paid(2, "a", "merch", NoLogin, 200, 47),
              Paid(3, "b", "tip", "ana", 500, 21)}]

\* The viewers fall during an ad and come back; a clip; another channel's live.
AdWorld ==
  [NoRows EXCEPT
     !.channels = Home,
     !.streams = {Live(1, "a", 2, 12, "x"), Live(2, "b", 3, 9, "y")},
     !.samples = {Seen(1, 1, 3, 10), Seen(2, 1, 5, 4), Seen(3, 1, 7, 9)},
     !.events = {Happened(1, 1, "a", "ad", 30, NoLogin, 4), Happened(2, 2, "b", "cheer", 100, "ana", 4)},
     !.clips = {[id |-> 1, live |-> 1, channel |-> "a", at |-> 4, kept |-> FALSE]},
     !.segments = {Speech(1, 1, 3, 6), Speech(2, 2, 4, 5)},
     !.peaks = {Loud(1, 1, 3, 5, 2), Loud(2, 2, 4, 5, 1)},
     !.insights = {[Topic(1, 1, {}, {}) EXCEPT !.type = "explanation", !.peak = 1]}]

\* Who is around: a follower, a subscriber, a tipper under two spellings.
PeopleWorld ==
  [NoRows EXCEPT
     !.channels = Home,
     !.streams = {Live(1, "a", 2, 8, "x")},
     !.chat = {Said(1, 1, "a", 1, "ana", 3, 1)},
     !.events = {Happened(1, 1, "a", "follow", 0, "bob", 3), Happened(2, 1, "a", "reward", 0, "song", 5),
                 Happened(3, 1, "a", "reward", 0, "joke", 5)},
     !.records = {[id |-> 1, live |-> 1, channel |-> "a", metric |-> "messages", value |-> 1, at |-> 2]},
     !.followers = {[channel |-> "b", login |-> "ana"]},
     !.subs = {[channel |-> "a", who |-> "bob", tier |-> 1000, gift |-> TRUE]},
     !.loyalty = {[channel |-> "a", who |-> "ana", points |-> 7, rank |-> 1]},
     !.tips = {Paid(1, "a", "tip", "Ana", 300, 3), Paid(2, "a", "tip", "ana", 200, 4)}]

LowerCase(name) == IF name = "Ana" THEN "ana" ELSE name

FiveDays == -1..3

\* The last is where the other module's behaviours leave the screens.
FiveWorlds == {TalkWorld, PaidWorld, AdWorld, PeopleWorld, NoRows}

---------------------------------------------------------------------------
mailerVars == vars

PartInit ==
  /\ part \in {"mail", "screens"}
  /\ Init /\ ScreensInit
  /\ part = "mail" <=> world = NoRows
  /\ part = "screens" => zone = [c \in Channels |-> 0]

PartNext ==
  \/ /\ part = "mail" /\ Next
     /\ UNCHANGED <<part, rowVars>>
  \/ /\ part = "screens" /\ ScreensNext
     /\ UNCHANGED <<part, mailerVars>>

PartSpec == PartInit /\ [][PartNext]_<<part, mailerVars, rowVars>>
=============================================================================
