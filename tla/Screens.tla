------------------------------ MODULE Screens ------------------------------
(***************************************************************************)
(* The tables, as the workers fill them, and the pages of every channel    *)
(* meanwhile.  world is what will have been stored in the end; db is what  *)
(* is stored so far.  The rows of a live come in the order the pipeline    *)
(* makes them: what is captured while it is on the air, in any order, then *)
(* its transcript, then what the analysis finds, in one transaction each   *)
(* (modules LiveCapture and JobPipeline).                                  *)
(*                                                                         *)
(* The pages are computed apart, each by queries of its own, in Python or  *)
(* in SQL; the properties say that they tell one story, and tell it to the *)
(* channel it is about.                                                    *)
(***************************************************************************)
EXTENDS Pages

CONSTANT Worlds   \* what may come to be stored: the tables, each row whole

VARIABLES world, db

rowVars == <<world, db>>

Streamers == {h.channel : h \in world.channels}

\* The zones a channel may be in.
Zones(w) == {h.zone : h \in w.channels} \cup {0}

---------------------------------------------------------------------------
(* Filling. *)

RowsInit ==
  /\ world \in Worlds
  /\ db = [t \in Tables |-> IF t = "channels" THEN world.channels ELSE {}]

InsertRows(t, rows) == db' = [db EXCEPT ![t] = @ \cup rows]

\* A live starts: the channel has no other on the air.
StoreLive ==
  /\ \E s \in world.streams :
       /\ s.id \notin {r.id : r \in db.streams}
       /\ \A r \in LivesOf(db, s.channel) : r.stage # "capturing"
       /\ \A r \in LivesOf(db, s.channel) : r.start < s.start
       /\ InsertRows("streams", {s})
  /\ UNCHANGED world

StoreCaptured ==
  /\ \E t \in Captured : \E r \in world[t] \ db[t] :
       /\ r.id \notin {q.id : q \in db[t]}
       /\ \E s \in db.streams : s.id = r.live /\ s.stage = "capturing"
       /\ InsertRows(t, {r})
  /\ UNCHANGED world

\* A stage of a live is over; what it has stored comes with it.
MoveOn(from, to, tables) ==
  /\ \E s \in {r \in db.streams : r.stage = from} :
       db' = [t \in Tables |->
                IF t = "streams" THEN (db.streams \ {s}) \cup {[s EXCEPT !.stage = to]}
                ELSE IF t \in tables THEN db[t] \cup {r \in world[t] : r.live = s.id}
                ELSE db[t]]
  /\ UNCHANGED world

EndLive        == MoveOn("capturing", "ended", {})
TranscribeLive == MoveOn("ended", "transcribed", {"segments"})
AnalyseLive    == MoveOn("transcribed", "ready", Findings)

\* What is synced of a channel beside its lives: tips, followers, subscribers...
StoreSynced ==
  /\ \E t \in OfChannels : \E r \in world[t] \ db[t] : InsertRows(t, {r})
  /\ UNCHANGED world

---------------------------------------------------------------------------
(* What a channel may change;  a row of another's answers 404. *)

GiveFeedback ==
  /\ \E c \in Streamers, i \in db.insights, f \in {"useful", "not_useful", "none"} :
       /\ Owned(db, c, i.live) # {}
       /\ db' = [db EXCEPT !.insights = (@ \ {i}) \cup {[i EXCEPT !.feedback = f]}]
  /\ UNCHANGED world

CurateClip ==
  /\ \E c \in Streamers : \E k \in ClipList(db, c), kept \in BOOLEAN :
       db' = [db EXCEPT !.clips = (@ \ {k}) \cup {[k EXCEPT !.kept = kept]}]
  /\ UNCHANGED world

\* update_preferences, of which the zone changes what is read.
ChangeZone ==
  /\ \E h \in db.channels, z \in Zones(world) :
       db' = [db EXCEPT !.channels = (@ \ {h}) \cup {[h EXCEPT !.zone = z]}]
  /\ UNCHANGED world

---------------------------------------------------------------------------
ScreensInit == RowsInit

ScreensNext ==
  \/ StoreLive
  \/ StoreCaptured
  \/ EndLive
  \/ TranscribeLive
  \/ AnalyseLive
  \/ StoreSynced
  \/ GiveFeedback
  \/ CurateClip
  \/ ChangeZone

ScreensSpec == ScreensInit /\ [][ScreensNext]_rowVars

---------------------------------------------------------------------------
(* What the tables are, and what the properties below rest on.             *)

\* Tables whose rows are of a live and name its channel as well.
OfBoth == (Captured \cup Findings) \ LiveOnly

\* The columns of the tables of which rows change, and those that do.
Columns ==
  [channels |-> {"channel", "zone", "total"},
   streams  |-> {"id", "channel", "start", "end", "stage", "category"},
   insights |-> {"id", "live", "type", "name", "messages", "segments", "peak", "feedback"},
   clips    |-> {"id", "live", "channel", "at", "kept"}]

Changing == [channels |-> "zone", streams |-> "stage", insights |-> "feedback", clips |-> "kept"]

\* The keys of core/models.py, and its columns' types where a page computes with
\* them; an insight cites what was said on its own live (_resolve_citations).
Schema(d) ==
  /\ \A t \in Tables : IsFiniteSet(d[t])
  /\ \A t \in DOMAIN Columns : \A r \in d[t] : DOMAIN r = Columns[t]
  /\ \A g, h \in d.channels : g.channel = h.channel => g = h
  /\ \A r, s \in d.streams : r.id = s.id => r = s
  /\ \A i, j \in d.insights : i.id = j.id => i = j
  /\ \A t \in OfBoth \cup LiveOnly : \A r \in d[t] : \E s \in d.streams :
       s.id = r.live /\ (t \in OfBoth => s.channel = r.channel)
  /\ \A s \in d.streams : \E h \in d.channels : h.channel = s.channel
  /\ \A i \in d.insights, g \in d.segments : g.id \in i.segments => g.live = i.live
  /\ \A h \in d.channels : h.zone \in Int
  /\ \A s \in d.streams : s.start \in Nat /\ s.end \in Nat
  /\ \A v \in d.samples : v.viewers \in Nat
  /\ \A e \in d.events : e.amount \in Nat
  /\ \A p \in d.tips : p.cents \in Nat /\ p.at \in Nat

ASSUME WorldsAssumption == \A w \in Worlds : DOMAIN w = Tables /\ Schema(w)

\* Every period in which a live may start is mailed.
ASSUME MailedAssumption ==
  \A w \in Worlds : \A s \in w.streams, z \in Zones(w) :
    (s.start + z) \div (PeriodDays * DayLength) \in Weeks

\* Rows are stored as they are in world, but for what changes.
FromWorld ==
  /\ \A t \in Tables \ DOMAIN Changing : db[t] \subseteq world[t]
  /\ \A t \in DOMAIN Changing : \A r \in db[t] : \E w \in world[t] :
       DOMAIN r = DOMAIN w /\ \A f \in DOMAIN w \ {Changing[t]} : r[f] = w[f]

OneRow ==
  /\ \A g, h \in db.channels : g.channel = h.channel => g = h
  /\ \A r, s \in db.streams : r.id = s.id => r = s
  /\ \A i, j \in db.insights : i.id = j.id => i = j

LiveStored == \A t \in OfBoth \cup LiveOnly : \A r \in db[t] : \E s \in db.streams : s.id = r.live

RowsInv ==
  /\ world \in Worlds /\ DOMAIN db = Tables
  /\ \A t \in Tables : IsFiniteSet(db[t])
  /\ FromWorld /\ OneRow /\ LiveStored
  /\ \A i \in db.insights, s \in db.streams : s.id = i.live => s.stage = "ready"
  /\ \A h \in db.channels : h.zone \in Zones(world)
  /\ Streamers = {h.channel : h \in db.channels}

---------------------------------------------------------------------------
(* Properties. *)

\* What is stored of a channel.
OwnRows(c) ==
  [t \in Tables |-> IF t \in LiveOnly THEN RowsOf(db, t, LivesOf(db, c))
                    ELSE {r \in db[t] : r.channel = c}]

\* No channel reads another's data (tests/test_isolation.py): all the pages and
\* emails of a channel are what they would be if no other channel had rows.
KeptToChannel ==
  \A c \in Streamers :
    /\ PagesOfLives(db, world, c) = PagesOfLives(OwnRows(c), world, c)
    /\ PagesOfChannel(db, c) = PagesOfChannel(OwnRows(c), c)

SumOf(S, key) == Total([r \in S |-> r[key]])
Few(S) == Cardinality(S) < Limit

SameLive(s) ==
  LET m == Metrics(db, s)
      item == LiveItem(db, s)
      n == Numbers(db, s)
      t == Timeline(db, s)
      com == Community(db, s)
  IN  /\ item.messages = m.messages /\ n.messages = 10 * m.messages
      /\ m.messages = Total([b \in DOMAIN t.chat |-> t.chat[b]])
      /\ m.messages = SumOf(com.share, "messages") + com.others
      /\ item.chatters = m.chatters /\ n.chatters = 10 * m.chatters
      /\ Few(ChatterList(db, s)) => m.messages = SumOf(ChatterList(db, s), "messages")
      /\ item.events = m.events /\ n.events = 10 * m.events
      /\ item.followers = m.follows
      /\ item.peak = m.peak /\ n.peak = 10 * m.peak /\ n.average = m.average
      /\ n.average <= n.peak
      /\ n.duration = m.minutes
      /\ \A w \in TopicWindows(db, s) : TopicDetail(db, s, w.id).window = w.window
      /\ s.stage = "ready" =>
           {<<w.id, w.window>> : w \in TopicWindows(db, s)} = {<<w.id, w.window>> : w \in WindowsByLive(db, {s})}

\* The list of lives, the report, the timeline, the chatters, the community page,
\* the channel's growth and the records are computed by queries of their own and
\* give the same numbers of a live; people on several lives of a day or of the
\* channel are counted once; the landing page counts every channel's.
NumbersAgree ==
  /\ \A c \in Streamers :
       LET days == DayChatters(db, c)
           all == ChannelOverview(db, c)
       IN  /\ \A s \in LivesOf(db, c) : SameLive(s)
           /\ \A d \in DOMAIN days : days[d] <= all.chatters
           /\ \A s \in LivesOf(db, c) : Metrics(db, s).messages > 0 =>
                Metrics(db, s).chatters <= days[LocalDay(db, c, s.start)]
           /\ all.messages = SumOf(LiveList(db, c), "messages")
           /\ \A g \in all.growth : \E s \in Ready(LivesOf(db, c)) :
                LET m == Metrics(db, s) IN
                <<g.live, g.peak, g.average, g.follows, g.messages, g.cents>> =
                  <<s.id, m.peak, m.average, m.follows, m.messages, m.cents>>
  /\ PlatformStats(db).messages = Total([c \in Streamers |-> ChannelOverview(db, c).messages])
  /\ PlatformStats(db).analysed = Total([c \in Streamers |-> ChannelOverview(db, c).lives])

Anonymous(c) == {e \in Money(db.events) : e.channel = c /\ e.login = NoLogin}

\* Every payment is in one part of each fold (finance.py, channel.py): the channel's
\* total is the sum of its lives', its contributors' with the anonymous, its
\* categories' with the unknown one; a longer period holds no less than a shorter
\* one; what supporters tipped is what was tipped.
MoneyAddsUp ==
  \A c \in Streamers :
    LET whole == FinanceOverview(db, c, 0)
        channel == ChannelFinance(db, c)
        ready == Ready(LivesOf(db, c))
        OverLives(S, key) == Total([s \in S |-> StreamFinance(db, s).money[key]])
    IN  /\ \A key \in DOMAIN channel.money :
             /\ channel.money[key] = OverLives(LivesOf(db, c), key)
             /\ whole.money[key] = OverLives(ready, key)
        /\ whole.money.cents = SumOf(Growth(db, c), "cents")
        /\ Few(whole.byLive) => whole.money.cents = SumOf(whole.byLive, "cents")
        /\ Few(channel.contributors) =>
             channel.money.cents = SumOf(channel.contributors, "cents") + Worth(Anonymous(c))
        /\ Few(whole.content) =>
             whole.money.cents = SumOf(whole.content, "cents")
                                 + Worth(Money(RowsOf(db, "events", {s \in ready : s.category = NoLogin})))
        /\ \A p, q \in Periods \ {0} : p <= q =>
             /\ FinanceOverview(db, c, p).total <= FinanceOverview(db, c, q).total
             /\ FinanceOverview(db, c, q).total <= whole.total
        /\ Few(Supporters(db, c)) =>
             whole.tips = SumOf(Supporters(db, c), "cents")
                          + SumOf({t \in Sold(db, c, "tip", 0) : t.who = NoLogin}, "cents")

\* The emails tell what the pages tell: each analysed live is in the email of one
\* period, so that the periods add up to the channel's messages and money; each
\* day shown is of the period in the channel's zone; nobody is said to have paid
\* more than was paid, and people are counted once.
RecapAgrees ==
  \A c \in Streamers :
    LET told == {k \in Weeks : Recap(db, c, k).lives # {}}
        Told(key) == Total([k \in told |-> Recap(db, c, k).totals.metrics[key]])
    IN  /\ Told("cents") = FinanceOverview(db, c, 0).money.cents
        /\ Told("messages") = SumOf(Growth(db, c), "messages")
        /\ \A k \in told :
             LET r == Recap(db, c, k)
                 cents == r.totals.metrics.cents
             IN  /\ cents = Total([d \in DOMAIN r.daily |-> r.daily[d]])
                 /\ DOMAIN r.daily \subseteq (k * PeriodDays)..((k + 1) * PeriodDays - 1)
                 /\ SumOf(r.payers, "cents") <= cents
                 /\ SumOf(r.content, "cents") <= cents
                 /\ \A p \in r.lives :
                      RowsOf(db, "chat", {p.live}) \subseteq PeriodChat(db, {q.live : q \in r.lives}) =>
                        p.metrics.chatters <= r.totals.chatters
                 /\ r.totals.chatters <= Total([p \in r.lives |-> p.metrics.chatters])
                 /\ r.totals.metrics.average <= 10 * r.totals.metrics.peak
                 /\ \A e \in r.engaged : e.lives <= Cardinality(r.lives)
                 /\ \A f \in RecapFacts(db, c, r) : f.fact = "whale" =>
                      f.login \in {p.login : p \in r.payers}
=============================================================================
