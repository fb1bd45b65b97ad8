------------------------------- MODULE Pages -------------------------------
(***************************************************************************)
(* All that a channel is shown: the pages of Dashboard and Ledger and the  *)
(* emails of Recap, of what db holds.                                      *)
(***************************************************************************)
EXTENDS Recap

CONSTANT Weeks   \* the periods mailed

ASSUME WeeksAssumption == Weeks \subseteq Int /\ IsFiniteSet(Weeks)

\* What may be asked for, where world is all that may be stored.
LiveIds(world) == {s.id : s \in world.streams}
Words(world)   == UNION {r.words : r \in world.chat \cup world.segments}

\* What is served under /streams/{id}.
LivePages(db, world, s) ==
  [report |-> Report(db, s), timeline |-> Timeline(db, s),
   peaks |-> {PeakDetail(db, s, p.id) : p \in world.peaks},
   chatters |-> ChatterList(db, s), community |-> Community(db, s),
   topics |-> {TopicDetail(db, s, i.id) : i \in world.insights},
   actionable |-> Actionable(db, s), finance |-> StreamFinance(db, s)]

Mail(db, c, k) ==
  LET recap == Recap(db, c, k)
  IN  [recap |-> recap, facts |-> IF recap.lives = {} THEN {} ELSE RecapFacts(db, c, recap)]

\* What is served under /streams; the rest; what is mailed.
PagesOfLives(db, world, c) ==
  [list |-> LiveList(db, c), days |-> DayChatters(db, c),
   live |-> [id \in LiveIds(world) |-> {LivePages(db, world, s) : s \in Owned(db, c, id)}],
   search |-> [w \in Words(world) |-> Search(db, c, w, LiveIds(world))], clips |-> ClipList(db, c)]

PagesOfChannel(db, c) ==
  [channel |-> ChannelOverview(db, c), finance |-> [p \in Periods |-> FinanceOverview(db, c, p)],
   supporters |-> Supporters(db, c), loyalty |-> Loyalty(db, c), people |-> TopPeople(db, c),
   advice |-> AdviceFacts(db, c), mails |-> [k \in Weeks |-> Mail(db, c, k)]]
===========================================================================
