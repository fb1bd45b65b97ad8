------------------------------- MODULE Recap -------------------------------
(***************************************************************************)
(* What the email of a week or month says (core/digest.py build_period,    *)
(* core/records.py compute_stream_metrics, core/digest_insights.py), and   *)
(* the facts the advice on the channel's page is given from                *)
(* (core/monetization.py).  As in Dashboard, each operator is read from db *)
(* at one moment.  Periods are of PeriodDays local days (a calendar month  *)
(* is taken as long as another); rates are compared as fractions.          *)
(***************************************************************************)
EXTENDS Ledger

CONSTANTS
  PeriodDays,
  ChatTail,     \* CHAT_TAIL_MARGIN
  MinFelt       \* MIN_SENTIMENT_MESSAGES

ASSUME PeriodAssumption == PeriodDays \in Nat \ {0} /\ ChatTail \in Nat

\* Seeded fault: the midnights are UTC's.
Bounds_Utc(db, c, k) == [from |-> k * PeriodDays * DayLength, to |-> (k + 1) * PeriodDays * DayLength]

\* last_period_bounds: period k of the channel, from midnight to midnight there.
Bounds(db, c, k) == [from |-> k * PeriodDays * DayLength - ZoneOf(db, c),
                 to   |-> (k + 1) * PeriodDays * DayLength - ZoneOf(db, c)]

\* _period_streams
PeriodLives(db, c, b) == {s \in Ready(LivesOf(db, c)) : b.from <= s.start /\ s.start < b.to}

\* compute_stream_metrics: minutes and the mean of viewers in tenths, messages a
\* minute in hundredths, of the rounded minutes.
Metrics(db, s) ==
  LET chat == RowsOf(db, "chat", {s})
      events == RowsOf(db, "events", {s})
      Number(type) == Cardinality(OfType(events, {type}))
      samples == RowsOf(db, "samples", {s})
      minutes == Tenths(Until(s) - s.start, Minute)
  IN  [messages |-> Cardinality(chat), chatters |-> Cardinality(Authors(chat)),
       events |-> Cardinality(events), follows |-> Number("follow"),
       peak |-> Most({v.viewers : v \in samples}),
       average |-> IF samples = {} THEN 0
                   ELSE Tenths(Total([v \in samples |-> v.viewers]), Cardinality(samples)),
       minutes |-> minutes,
       rate |-> IF minutes > 0 THEN Rounded(1000 * Cardinality(chat), minutes) ELSE 0,
       subs |-> Number("sub"), gifts |-> Sum(OfType(events, {"gift"})),
       bits |-> Sum(OfType(events, {"cheer"})), raids |-> Number("raid"),
       cents |-> Worth(Money(events)), resubs |-> Number("resub")]

---------------------------------------------------------------------------
(* The email's numbers, of the lives S of a period. *)

\* The lives with their metrics, as the email works on them (DigestLive).
PerLive(db, S) == {[live |-> s, metrics |-> Metrics(db, s)] : s \in S}

\* _fold_metrics: summed, but for the highest peak and the mean of means; chatters
\* do not add up, and messages a minute come of the sums.
Folds(lives) ==
  LET Over(key) == Total([p \in lives |-> p.metrics[key]])
  IN  [messages |-> Over("messages"), events |-> Over("events"), follows |-> Over("follows"),
       minutes |-> Over("minutes"), subs |-> Over("subs"), gifts |-> Over("gifts"),
       bits |-> Over("bits"), raids |-> Over("raids"), cents |-> Over("cents"),
       resubs |-> Over("resubs"), peak |-> Most({p.metrics.peak : p \in lives}),
       average |-> Rounded(Over("average"), Cardinality(lives)),
       rate |-> IF Over("minutes") = 0 THEN 0
                ELSE Rounded(1000 * Over("messages"), Over("minutes"))]

\* _chat_window: the chat of the lives, from the first's start to after the last.
PeriodChat(db, S) ==
  During(RowsOf(db, "chat", S), Least({s.start : s \in S}), Most({Until(s) : s \in S}) + ChatTail)

Totals(db, S) == [metrics |-> Folds(PerLive(db, S)), chatters |-> Cardinality(Authors(PeriodChat(db, S)))]

\* _best_moment_per_live: its loudest peak, with the text that explains it.
Moment(db, s) ==
  {[live |-> s.id, at |-> Most({p.from - s.start, 0}), score |-> p.score,
    text |-> {i.id : i \in {j \in RowsOf(db, "insights", {s}) : j.type = "explanation" /\ j.peak = p.id}}] :
     p \in {q \in RowsOf(db, "peaks", {s}) : \A r \in RowsOf(db, "peaks", {s}) : r.score <= q.score}}

\* _top_lives: by cents or by messages, none with nothing to show.
TopLives(db, lives, key) ==
  {[live |-> p.live.id, cents |-> p.metrics.cents, messages |-> p.metrics.messages,
    moment |-> Moment(db, p.live)] :
     p \in {q \in Foremost(lives, LAMBDA q, r : q.metrics[key] > r.metrics[key]) : q.metrics[key] > 0}}

\* _top_payers
Payers(E) ==
  {p \in Foremost({[login |-> l, cents |-> Worth(SaidBy(l, E))] : l \in Logins(E) \ {NoLogin}},
                LAMBDA p, q : p.cents > q.cents) : p.cents > 0}

\* _money_moments
MoneyMoments(E) ==
  Foremost({[of |-> e.id, live |-> e.live, cents |-> Cents(e), login |-> e.login] :
              e \in {f \in E : Cents(f) > 0}},
           LAMBDA m, n : m.cents > n.cents)

\* Topic revenue, with _topic_moments and _topic_message_counts.
PeriodTopics(db, S, E) ==
  LET windows == WindowsByLive(db, S)
      Inside(rows, n) == {p \in rows \X {v \in windows : v.name = n} :
                            /\ p[1].live = p[2].live
                            /\ p[2].window.from <= p[1].at /\ p[1].at < p[2].window.to}
      Best(n) == {p[1].id : p \in {q \in Inside(E, n) : \A r \in Inside(E, n) : Cents(r[1]) <= Cents(q[1])}}
  IN  {[topic |-> t, moment |-> Best(t.name), messages |-> Cardinality(Inside(PeriodChat(db, S), t.name))] :
         t \in TopicRevenue(E, windows)}

\* _daily_revenue
DailyCents(db, c, lives) ==
  [d \in {LocalDay(db, c, p.live.start) : p \in lives} |->
     Total([p \in {q \in lives : LocalDay(db, c, q.live.start) = d} |-> p.metrics.cents])]

\* _period_sentiment: none on too few messages.
PeriodMood(db, S) ==
  IF S = {} THEN {} ELSE IF Cardinality(Felt(PeriodChat(db, S))) < MinFelt THEN {} ELSE Mood(PeriodChat(db, S))

\* _engaged_users
Engaged(db, S, E) ==
  LET said == PeriodChat(db, S)
  IN  Foremost({[login |-> l, lives |-> Cardinality({m.live : m \in SaidBy(l, said)}),
                 messages |-> Cardinality(SaidBy(l, said)), cents |-> Worth(SaidBy(l, E))] :
                  l \in Logins(said)},
               LAMBDA p, q : p.lives > q.lives \/ (p.lives = q.lives /\ p.messages > q.messages))

\* _records: the highest of each metric that was set in the period.
PeriodRecords(db, c, b) ==
  LET rows == {r \in db.records : r.channel = c /\ b.from <= r.at /\ r.at < b.to}
  IN  IF Cardinality(Ready(LivesOf(db, c))) < MinLivesForRecords THEN {}
      ELSE {[metric |-> r.metric, value |-> r.value] :
              r \in {q \in rows : \A p \in rows : p.metric = q.metric => p.value <= q.value}}

\* _clips: those the streamer kept.
PeriodClips(db, c, b) == Foremost(During({k \in ClipList(db, c) : k.kept}, b.from, b.to), Earlier)

\* _subscriber_churn and _add_subscriber_trend: gifts are not counted as gained.
Churn(db, S) ==
  LET E == RowsOf(db, "events", S)
      n == [gained |-> Cardinality(OfType(E, {"sub"})), lost |-> Cardinality(OfType(E, {"subEnd"}))]
  IN  IF n.gained + n.lost = 0 THEN {} ELSE {n}

\* _top_reward, which needs another to beat.
TopReward(db, S) ==
  LET redeemed == {e \in OfType(RowsOf(db, "events", S), {"reward"}) : e.title # NoLogin}
      times == {<<t, Cardinality({e \in redeemed : e.title = t})>> : t \in {e.title : e \in redeemed}}
  IN  IF Cardinality(times) < 2 THEN {} ELSE {p \in times : \A q \in times : q[2] <= p[2]}

\* build_period; a period without lives says nothing.
Recap(db, c, k) ==
  LET b == Bounds(db, c, k)
      S == PeriodLives(db, c, b)
      lives == PerLive(db, S)
      earlier == PeriodLives(db, c, Bounds(db, c, k - 1))
      E == Money(RowsOf(db, "events", S))
  IN  IF S = {} THEN [lives |-> {}]
      ELSE [lives |-> lives, totals |-> Totals(db, S),
            previous |-> IF earlier = {} THEN {} ELSE {Totals(db, earlier)},
            moments |-> Foremost(UNION {Moment(db, s) : s \in S}, LAMBDA p, q : p.score > q.score),
            topics |-> RecurringTopics(db, S), records |-> PeriodRecords(db, c, b),
            clips |-> PeriodClips(db, c, b), topicRevenue |-> PeriodTopics(db, S, E),
            content |-> ContentRevenue(db, S), topByCents |-> TopLives(db, lives, "cents"),
            topByMessages |-> TopLives(db, lives, "messages"), mood |-> PeriodMood(db, S),
            previousMood |-> PeriodMood(db, earlier), engaged |-> Engaged(db, S, E),
            payers |-> Payers(E), moneyMoments |-> MoneyMoments(E), daily |-> DailyCents(db, c, lives),
            churn |-> Churn(db, S), reward |-> TopReward(db, S)]

---------------------------------------------------------------------------
(* Facts: each sets a number against another, and is left out where there  *)
(* is none to set it against.                                              *)

\* A fraction is <<n, d>>; 1.5 times as much (the LIFT_MINs), 40 % (WHALE_SHARE_MIN).
Above(p, q)  == p[1] * q[2] > q[1] * p[2]
Lifted(p, q) == 2 * p[1] * q[2] >= 3 * q[1] * p[2]

Highest(F) == {k \in DOMAIN F : \A j \in DOMAIN F : ~Above(F[j], F[k])}
Lowest(F)  == {k \in DOMAIN F : \A j \in DOMAIN F : ~Above(F[k], F[j])}

\* period_key: the slots of a day.
TimeOfDay(db, c, s) ==
  LET hour == (24 * ((s.start + ZoneOf(db, c)) % DayLength)) \div DayLength
  IN  CASE 5 <= hour /\ hour < 12  -> "morning"
        [] 12 <= hour /\ hour < 18 -> "afternoon"
        [] OTHER                   -> "evening"

\* _rate_by_bucket, _hours_by: cents against time, of what pays.
Rates(lives, Bucket(_)) ==
  LET Of(k)   == {p \in lives : Bucket(p.live) = k}
      Rate(k) == <<Total([p \in Of(k) |-> p.metrics.cents]), Total([p \in Of(k) |-> p.metrics.minutes])>>
  IN  [k \in {j \in {Bucket(p.live) : p \in lives} \ {NoLogin} : Rate(j)[1] > 0 /\ Rate(j)[2] > 0} |-> Rate(k)]

\* The best and the worst, where it is 1.5 times as good.
Contrast(name, F) ==
  IF Cardinality(DOMAIN F) < 2 THEN {}
  ELSE {[fact |-> name, best |-> p[1], worst |-> p[2]] :
          p \in {q \in Highest(F) \X Lowest(F) : F[q[2]][1] > 0 /\ Lifted(F[q[1]], F[q[2]])}}

\* The category that pays 1.5 times the average.
Efficiency(F, average) ==
  IF Cardinality(DOMAIN F) < 2 THEN {}
  ELSE {[fact |-> "category", best |-> k] : k \in {j \in Highest(F) : Lifted(F[j], average)}}

\* Chatters to peak viewers, the mean of a category's lives.
Talk(lives) ==
  LET seen == {p \in lives : p.live.category # NoLogin /\ p.metrics.peak > 0}
      Of(g) == {p \in seen : p.live.category = g}
      Peaks(T) == FoldFunction(LAMBDA a, b : a * b, 1, [p \in T |-> p.metrics.peak])
  IN  [g \in {p.live.category : p \in seen} |->
         <<Total([p \in Of(g) |-> p.metrics.chatters * (Peaks(Of(g)) \div p.metrics.peak)]),
           Peaks(Of(g)) * Cardinality(Of(g))>>]

Whale(cents, payers) ==
  {[fact |-> "whale", login |-> p.login] :
     p \in {q \in payers : cents > 0 /\ 10 * q.cents >= 4 * cents /\ \A r \in payers : r.cents <= q.cents}}

\* build_digest_facts, but for the wording, of what an email holds.
RecapFacts(db, c, r) ==
  LET total == r.totals.metrics
  IN  {[fact |-> "revenue", pct |-> Percent(total.cents - p.metrics.cents, p.metrics.cents)] :
         p \in {q \in r.previous : q.metrics.cents > 0}}
      \cup {[fact |-> "topic", name |-> t.topic.name] : t \in r.topicRevenue}
      \cup {[fact |-> "content", category |-> g.category] : g \in r.content}
      \cup {[fact |-> "record", metric |-> m.metric] : m \in r.records}
      \cup Whale(total.cents, r.payers)
      \cup Efficiency(Rates(r.lives, LAMBDA s : s.category), <<total.cents, total.minutes>>)
      \cup Contrast("time", Rates(r.lives, LAMBDA s : TimeOfDay(db, c, s)))
      \cup Contrast("talk", Talk(r.lives))
      \cup {[fact |-> "mood", now |-> p[1], before |-> p[2]] : p \in r.mood \X r.previousMood}
      \cup {[fact |-> "churn", of |-> n] : n \in r.churn}
      \cup {[fact |-> "reward", title |-> p[1]] : p \in r.reward}

\* build_monetization_facts: of all the channel's lives; the average is of the
\* categories that pay only, over the money of all of them.
AdviceFacts(db, c) ==
  LET S == Ready(LivesOf(db, c))
      lives == PerLive(db, S)
      E == {e \in Money(db.events) : e.channel = c}
      rates == Rates(lives, LAMBDA s : s.category)
      average == <<Total([p \in {q \in lives : q.live.category # NoLogin} |-> p.metrics.cents]),
                   Total([g \in DOMAIN rates |-> rates[g][2]])>>
  IN  Whale(Worth(E), {[login |-> l, cents |-> Worth(SaidBy(l, E))] : l \in Logins(E) \ {NoLogin}})
      \cup Efficiency(rates, average)
      \cup Contrast("time", Rates(lives, LAMBDA s : TimeOfDay(db, c, s)))
      \cup {[fact |-> "churn", of |-> n] : n \in Churn(db, S)}
      \cup Contrast("talk", Talk(lives))
      \cup {[fact |-> "reward", title |-> p[1]] : p \in TopReward(db, S)}
===========================================================================
