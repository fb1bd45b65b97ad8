------------------------------ MODULE Ledger ------------------------------
(***************************************************************************)
(* The channel's page and its money (apps/api/channel.py and finance.py,   *)
(* core/finance.py, core/topics.py).  As in Dashboard, each operator is an *)
(* answer read from db at one moment, for a channel c or its lives S.      *)
(* Amounts are in whole cents, where the code adds floats and rounds the   *)
(* sum; titles, links and dates that are only shown are left out.          *)
(***************************************************************************)
EXTENDS Dashboard

CONSTANTS
  Periods,      \* days of the periods there are, 0 for all
  Lower(_)      \* a name in lower case

ASSUME PeriodsAssumption == Periods \subseteq Nat

---------------------------------------------------------------------------
(* What an event is worth. *)

MoneyTypes == {"cheer", "sub", "resub", "gift"}

TierCents(tier) == CASE tier = 2000 -> 500 [] tier = 3000 -> 1250 [] OTHER -> 250

\* event_usd: bits at a cent, a subscription by the tier in its amount, gifts by
\* number and tier.
Cents(e) ==
  CASE e.type = "cheer"           -> e.amount
    [] e.type \in {"sub", "resub"} -> TierCents(e.amount)
    [] e.type = "gift"            -> e.amount * TierCents(e.tier)
    [] OTHER                      -> 0

Money(E)  == {e \in E : e.type \in MoneyTypes}
Worth(E)  == Total([e \in E |-> Cents(e)])
Sum(E)    == Total([e \in E |-> e.amount])
OfType(E, types) == {e \in E : e.type \in types}

\* _fold_money, as every page does it.
Folded(E) ==
  [cents |-> Worth(E), bits |-> Sum(OfType(E, {"cheer"})),
   subs |-> Cardinality(OfType(E, {"sub", "resub"})), gifts |-> Sum(OfType(E, {"gift"})),
   events |-> Cardinality(E)]

\* Seeded fault: a payer's events overwrite each other.
Contributors_LastOnly(E) ==
  Foremost({[login |-> l, cents |-> Most({Cents(e) : e \in SaidBy(l, E)})] : l \in Logins(E) \ {NoLogin}},
           LAMBDA p, q : p.cents > q.cents)

\* Who an event names, and what they brought.
Contributors(E) ==
  Foremost({[login |-> l, cents |-> Worth(SaidBy(l, E)),
             bits |-> Sum(OfType(SaidBy(l, E), {"cheer"})),
             subs |-> Cardinality(OfType(SaidBy(l, E), {"sub", "resub"}))
                        + Sum(OfType(SaidBy(l, E), {"gift"})),
             lives |-> Cardinality({e.live : e \in SaidBy(l, E)})] : l \in Logins(E) \ {NoLogin}},
           LAMBDA p, q : p.cents > q.cents)

---------------------------------------------------------------------------
(* The money of a live. *)

\* _topic_windows: of the topics whose cited segments are there.
TopicWindows(db, s) ==
  {[id |-> i.id, name |-> i.name, window |-> Window(CitedSegments(db, s, i))] :
     i \in {t \in Topics(db, s) : CitedSegments(db, s, t) # {}}}

StreamFinance(db, s) ==
  LET E == Money(RowsOf(db, "events", {s}))
      Inside(t) == During(E, t.window.from, t.window.to)
      TopicAt(e) == {t \in TopicWindows(db, s) : e \in Inside(t)}
  IN  [money |-> Folded(E), contributors |-> Contributors(E),
       byTopic |-> {[of |-> t.id, cents |-> Worth(Inside(t)), events |-> Cardinality(Inside(t))] :
                      t \in {w \in TopicWindows(db, s) : Inside(w) # {}}},
       moments |-> Foremost({[of |-> e.id, cents |-> Cents(e), login |-> e.login,
                              topic |-> {t.name : t \in {w \in TopicAt(e) : \A v \in TopicAt(e) : w.id <= v.id}}] :
                               e \in {f \in E : Cents(f) > 0}},
                            LAMBDA m, n : m.cents > n.cents)]

---------------------------------------------------------------------------
(* The channel's page. *)

PeakOf(db, s) == Most({v.viewers : v \in RowsOf(db, "samples", {s})})

\* _content_revenue: by category; money cannot be put down to an unknown one.
ContentRevenue(db, S) ==
  Foremost(
    {LET T == {s \in S : s.category = g}
         cents == Worth(Money(RowsOf(db, "events", T)))
         time == Total([s \in T |-> Until(s) - s.start])
     IN  [category |-> g, cents |-> cents, lives |-> Cardinality(T),
          hourly |-> IF time = 0 THEN 0 ELSE Rounded(cents * 60 * Minute, time),
          peak |-> Tenths(Total([s \in T |-> PeakOf(db, s)]), Cardinality(T))] :
       g \in {s.category : s \in S} \ {NoLogin}},
    LAMBDA p, q : p.cents > q.cents)

\* _subscribers: the snapshot of who is subscribed, and what the lives' events
\* say came and went.
Subscribers(db, c, S) ==
  LET subs == {r \in db.subs : r.channel = c}
      E == RowsOf(db, "events", S)
      ended == Cardinality(OfType(E, {"subEnd"}))
      gained == Cardinality(OfType(E, {"sub"})) + Sum(OfType(E, {"gift"}))
      before == Cardinality(subs) - gained + ended
  IN  [total |-> Cardinality(subs),
       tiers |-> [t \in {r.tier : r \in subs} |-> Cardinality({r \in subs : r.tier = t})],
       gifted |-> IF subs = {} THEN 0
                  ELSE Percent(Cardinality({r \in subs : r.gift}), Cardinality(subs)),
       ended |-> ended, gained |-> gained, net |-> gained - ended,
       churn |-> IF before > 0 THEN {Percent(ended, before)} ELSE {},
       bits |-> Foremost({r \in db.bits : r.channel = c}, LAMBDA p, q : p.rank < q.rank)]

\* The mean of ratios, in tenths of a percent.
MeanPercent(S, Part(_), Whole(_)) ==
  LET all == FoldFunction(LAMBDA a, b : a * b, 1, [x \in S |-> Whole(x)])
  IN  IF S = {} THEN {}
      ELSE {Percent(Total([x \in S |-> Part(x) * (all \div Whole(x))]), all * Cardinality(S))}

\* _engaged_viewer_pct: chatters against peak viewers.
EngagedViewers(db, S) ==
  MeanPercent({s \in S : PeakOf(db, s) > 0},
              LAMBDA s : Cardinality(Authors(RowsOf(db, "chat", {s}))), LAMBDA s : PeakOf(db, s))

AdWindow == 3

\* _ad_viewer_change: the mean of the samples after a break against before it.
AdChange(db, ads) ==
  LET Seen(e, from, to) == {v \in db.samples : v.live = e.live /\ from <= v.at /\ v.at < to}
      Before(e) == Seen(e, e.at - AdWindow, e.at)
      After(e)  == Seen(e, e.at, e.at + AdWindow)
      Viewers(V) == Total([v \in V |-> v.viewers])
  IN  MeanPercent({e \in ads : Viewers(Before(e)) > 0 /\ Viewers(After(e)) > 0},
        LAMBDA e : Viewers(After(e)) * Cardinality(Before(e)) - Viewers(Before(e)) * Cardinality(After(e)),
        LAMBDA e : Viewers(Before(e)) * Cardinality(After(e)))

\* _engagement: hype trains, rewards and ad breaks.
Mechanics(db, S) ==
  LET E == RowsOf(db, "events", S)
      hype == OfType(E, {"hype"})
      redeemed == {e \in OfType(E, {"reward"}) : e.title # NoLogin}
      ads == OfType(E, {"ad"})
  IN  [trains |-> Cardinality(hype), best |-> Most({e.level : e \in hype}), given |-> Sum(hype),
       rewards |-> Foremost({<<t, Cardinality({e \in redeemed : e.title = t})>> :
                               t \in {e.title : e \in redeemed}},
                            LAMBDA p, q : p[2] > q[2]),
       breaks |-> Cardinality(ads), seconds |-> Sum(ads), change |-> AdChange(db, ads)]

\* _best_weekdays, in the channel's zone.
BestWeekdays(db, c) ==
  LET S == Ready(LivesOf(db, c))
      On(d) == {s \in S : LocalDay(db, c, s.start) % 7 = d}
  IN  {[weekday |-> d, lives |-> Cardinality(On(d)),
         peak |-> Tenths(Total([s \in On(d) |-> PeakOf(db, s)]), Cardinality(On(d)))] :
         d \in {LocalDay(db, c, s.start) % 7 : s \in S}}

Growth(db, c) ==
  {[live |-> s.id, peak |-> PeakOf(db, s), average |-> Numbers(db, s).average,
    follows |-> Cardinality(OfType(RowsOf(db, "events", {s}), {"follow"})),
    messages |-> Cardinality(RowsOf(db, "chat", {s})),
    cents |-> Worth(Money(RowsOf(db, "events", {s})))] : s \in Ready(LivesOf(db, c))}

\* recurring_topics: how many of the lives had a topic of the name.
RecurringTopics(db, S) ==
  LET topics == OfType(RowsOf(db, "insights", S), {"topic"})
  IN  Foremost({<<n, Cardinality({t.live : t \in {u \in topics : u.name = n}})>> :
                  n \in {t.name : t \in topics}},
               LAMBDA p, q : p[2] > q[2])

\* _topic_windows_by_stream: as TopicWindows, but the cited segments are looked
\* up by their ids alone.
WindowsByLive(db, S) ==
  LET Cited(t) == {g \in db.segments : g.id \in t.segments}
  IN  {[id |-> t.id, live |-> t.live, name |-> t.name, window |-> Window(Cited(t))] :
         t \in {i \in OfType(RowsOf(db, "insights", S), {"topic"}) : Cited(i) # {}}}

\* _topic_revenue: an event counts for each window of its live it is in.
TopicRevenue(E, windows) ==
  LET Inside(w) == During({e \in E : e.live = w.live}, w.window.from, w.window.to)
      Named(n) == {w \in windows : w.name = n}
  IN  {t \in Foremost({[name |-> n, cents |-> Total([w \in Named(n) |-> Worth(Inside(w))]),
                        lives |-> Cardinality({e.live : e \in UNION {Inside(w) : w \in Named(n)}})] :
                         n \in {w.name : w \in windows}},
                     LAMBDA p, q : p.cents > q.cents) : t.cents > 0}

\* _channel_finance: of every live, also those that are not ready.
ChannelFinance(db, c) ==
  LET E == {e \in Money(db.events) : e.channel = c}
  IN  [money |-> Folded(E), contributors |-> Contributors(E),
       topics |-> TopicRevenue(E, WindowsByLive(db, Ready(LivesOf(db, c))))]

\* _follower_logins: who was listed and who was seen to follow.
FollowerLogins(db, c) ==
  Logins({f \in db.followers : f.channel = c})
    \cup (Logins({e \in db.events : e.channel = c /\ e.type = "follow"}) \ {NoLogin})

\* Twitch's own count (channels.follower_total, a set of one), or theirs before
\* the first sync.
TotalFollowers(db, c) ==
  IF ChannelOf(db, c).total = {} THEN {Cardinality(FollowerLogins(db, c))} ELSE ChannelOf(db, c).total

\* _loyal_chatters: by lives attended, then by messages.
LoyalChatters(db, c) ==
  LET said == {m \in db.chat : m.channel = c}
      Of(l) == SaidBy(l, said)
      followers == FollowerLogins(db, c)
  IN  Foremost({[login |-> l, lives |-> Cardinality({m.live : m \in Of(l)}),
                 messages |-> Cardinality(Of(l)), seen |-> Most({m.at : m \in Of(l)}),
                 followed |-> l \in followers] : l \in Logins(said)},
               LAMBDA p, q : p.lives > q.lives \/ (p.lives = q.lives /\ p.messages > q.messages))

\* The lists that are shown as they were synced.
Synced(db, c) == [t \in {"goals", "advice", "vips", "videos"} |-> {r \in db[t] : r.channel = c}]

ChannelOverview(db, c) ==
  LET S == Ready(LivesOf(db, c))
      said == {m \in db.chat : m.channel = c}
  IN  [lives |-> Cardinality(S), messages |-> Cardinality(said),
       chatters |-> Cardinality(Authors(said)), followers |-> TotalFollowers(db, c),
       loyal |-> LoyalChatters(db, c),
       weekdays |-> BestWeekdays(db, c), growth |-> Growth(db, c), topics |-> RecurringTopics(db, S),
       finance |-> ChannelFinance(db, c), content |-> ContentRevenue(db, S), mechanics |-> Mechanics(db, S),
       engaged |-> EngagedViewers(db, S), subscribers |-> Subscribers(db, c, S), synced |-> Synced(db, c)]

---------------------------------------------------------------------------
(* The money page. *)

\* _revenue_in_window: tips and merchandise, whatever the live.
Sold(db, c, kind, since) == {t \in db.tips : t.channel = c /\ t.kind = kind /\ t.at >= since}

\* finance_overview: the lives started in a period, and in the one before it.
FinanceOverview(db, c, days) ==
  LET start == IF days = 0 THEN 0 ELSE Now - days * DayLength
      S == {s \in Ready(LivesOf(db, c)) : s.start >= start}
      before == IF days = 0 THEN {}
                ELSE {s \in Ready(LivesOf(db, c)) : s.start < start /\ s.start >= start - days * DayLength}
      E == Money(RowsOf(db, "events", S))
      earlier == Worth(Money(RowsOf(db, "events", before)))
      tips == Total([t \in Sold(db, c, "tip", start) |-> t.cents])
      merch == Total([t \in Sold(db, c, "merch", start) |-> t.cents])
      time == Total([s \in S |-> Until(s) - s.start])
  IN  [money |-> Folded(E), tips |-> tips, tipped |-> Cardinality(Sold(db, c, "tip", start)),
       merch |-> merch, total |-> Worth(E) + tips + merch,
       hourly |-> IF time = 0 THEN 0 ELSE Rounded((Worth(E) + tips + merch) * 60 * Minute, time),
       delta |-> IF earlier = 0 THEN {} ELSE {Percent(Worth(E) - earlier, earlier)},
       contributors |-> Contributors(E),
       byLive |-> Foremost({[live |-> s.id, at |-> s.start, cents |-> Worth(Money(RowsOf(db, "events", {s})))] :
                              s \in {r \in S : Worth(Money(RowsOf(db, "events", {r}))) > 0}},
                           Earlier),
       content |-> ContentRevenue(db, S), mechanics |-> Mechanics(db, S),
       subscribers |-> Subscribers(db, c, S), synced |-> Synced(db, c)]

\* top_supporters: tips by the tipper's name as it is written.
Supporters(db, c) ==
  LET tips == {t \in Sold(db, c, "tip", 0) : t.who # NoLogin}
      By(n) == {t \in tips : t.who = n}
  IN  Foremost({[who |-> n, cents |-> Total([t \in By(n) |-> t.cents]), tips |-> Cardinality(By(n)),
                 last |-> Most({t.at : t \in By(n)}),
                 currency |-> {t.currency : t \in {u \in By(n) : \A v \in By(n) : v.at <= u.at}}] :
                   n \in {t.who : t \in tips}},
               LAMBDA p, q : p.cents > q.cents)

\* loyalty_leaderboard
Loyalty(db, c) == Foremost({r \in db.loyalty : r.channel = c}, LAMBDA p, q : p.rank < q.rank)

\* top_people: supporters and loyal viewers by name in lower case.  Of names that
\* differ in case one's sum is taken, whichever the database lists last.
TopPeople(db, c) ==
  LET tips == {t \in Sold(db, c, "tip", 0) : t.who # NoLogin}
      points == {r \in db.loyalty : r.channel = c}
      Named(k, rows) == {r \in rows : Lower(r.who) = k}
      Spelling(k, rows) == (CHOOSE r \in Named(k, rows) : TRUE).who
      Paid(k) == IF Named(k, tips) = {} THEN 0
                 ELSE Total([t \in {u \in tips : u.who = Spelling(k, tips)} |-> t.cents])
      Earned(k) == IF Named(k, points) = {} THEN 0
                   ELSE (CHOOSE r \in Named(k, points) : TRUE).points
  IN  Foremost({[who |-> k, cents |-> Paid(k), points |-> Earned(k)] :
                  k \in {Lower(r.who) : r \in tips \cup points}},
               LAMBDA p, q : p.cents > q.cents \/ (p.cents = q.cents /\ p.points > q.points))

===========================================================================
