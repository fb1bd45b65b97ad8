---------------------------- MODULE Dashboard ----------------------------
(***************************************************************************)
(* The list of lives and the screens of one (apps/api/dashboard.py,        *)
(* community.py, actionable.py, clips.py, with core/metrics.py and         *)
(* core/analytics.py).  Each operator is the answer of an endpoint to a    *)
(* channel, read from db at one moment; a list is the set of its items.    *)
(* Texts are the words they hold (emotes are words); labels of offsets,    *)
(* titles and the wording of causes are left out.                          *)
(***************************************************************************)
EXTENDS ScreenRows
LOCAL Seqs == INSTANCE SequencesExt

CONSTANTS
  MinLivesForRecords,
  Now,          \* the moment of the requests
  DipLookahead  \* DIP_LOOKAHEAD

ASSUME NowAssumption == Now \in Int

NotFound == [page |-> "404"]

\* Seeded fault: whosever it is.
Owned_Any(db, c, id) == {s \in db.streams : s.id = id}

\* _owned_stream: the live by that id, when it is the channel's.
Owned(db, c, id) == {s \in db.streams : s.id = id /\ s.channel = c}

---------------------------------------------------------------------------
(* The list of lives. *)

\* records_held_by_stream: the metrics whose best row is of this live.
Held(db, s) ==
  {r.metric : r \in {q \in RowsOf(db, "records", {s}) :
     \A p \in db.records : p.channel = s.channel /\ p.metric = q.metric => p.value <= q.value}}

LiveItem(db, s) ==
  LET messages == {m \in RowsOf(db, "chat", {s}) : m.channel = s.channel}
      events   == {e \in RowsOf(db, "events", {s}) : e.channel = s.channel}
  IN  [live |-> s.id, stage |-> s.stage,
       messages |-> Cardinality(messages), chatters |-> Cardinality(Authors(messages)),
       events |-> Cardinality(events),
       followers |-> Cardinality({e \in events : e.type = "follow"}),
       peak |-> Most({v.viewers : v \in RowsOf(db, "samples", {s})}),
       records |-> IF Cardinality(Ready(LivesOf(db, s.channel))) >= MinLivesForRecords
                   THEN Held(db, s) ELSE {},
       day |-> LocalDay(db, s.channel, s.start)]

LiveList(db, c) == {LiveItem(db, s) : s \in LivesOf(db, c)}

\* Seeded fault: adds up the chatters of the day's lives.
DayChatters_Summed(db, c) ==
  LET chatted == {s \in LivesOf(db, c) : RowsOf(db, "chat", {s}) # {}}
  IN  [d \in {LocalDay(db, c, s.start) : s \in chatted} |->
         Total([s \in {r \in chatted : LocalDay(db, c, r.start) = d} |-> LiveItem(db, s).chatters])]

\* streams_day_chatters: of the days somebody chatted.
DayChatters(db, c) ==
  LET chatted == {s \in LivesOf(db, c) : RowsOf(db, "chat", {s}) # {}}
  IN  [d \in {LocalDay(db, c, s.start) : s \in chatted} |->
         Cardinality(Authors(RowsOf(db, "chat", {s \in chatted : LocalDay(db, c, s.start) = d})))]

---------------------------------------------------------------------------
(* The report of a live. *)

\* stream_numbers, in tenths.
Numbers(db, s) ==
  LET messages == RowsOf(db, "chat", {s})
      samples  == RowsOf(db, "samples", {s})
  IN  [duration |-> Tenths(Until(s) - s.start, Minute),
       messages |-> 10 * Cardinality(messages),
       chatters |-> 10 * Cardinality(Authors(messages)),
       peak |-> 10 * Most({v.viewers : v \in samples}),
       average |-> IF samples = {} THEN 0
                   ELSE Tenths(Total([v \in samples |-> v.viewers]), Cardinality(samples)),
       events |-> 10 * Cardinality(RowsOf(db, "events", {s}))]

\* previous_streams_average: the ready lives before this one.
Previous(db, s) ==
  Foremost({p \in Ready(LivesOf(db, s.channel)) : p.start < s.start}, LAMBDA q, p : q.start > p.start)

\* _compare: by how much of its average a number is above or below it.
Compared(db, s) ==
  LET lives == Previous(db, s)
      Average(key) == Rounded(Total([p \in lives |-> Numbers(db, p)[key]]), Cardinality(lives))
      Delta(key) == IF lives = {} \/ Average(key) = 0 THEN {}
                    ELSE {Percent(Numbers(db, s)[key] - Average(key), Average(key))}
  IN  [key \in DOMAIN Numbers(db, s) |-> [value |-> Numbers(db, s)[key], delta |-> Delta(key)]]

\* _resolve_citations: the rows an insight cites, of this live.
CitedMessages(db, s, i) == {m \in RowsOf(db, "chat", {s}) : m.id \in i.messages}
CitedSegments(db, s, i) == {g \in RowsOf(db, "segments", {s}) : g.id \in i.segments}

\* From a minute before the first to a minute after the last.
Window(segments) ==
  [from |-> Least({g.from : g \in segments}) - Minute,
   to   |-> Most({g.to : g \in segments}) + Minute]

Topics(db, s) == {i \in RowsOf(db, "insights", {s}) : i.type = "topic"}

\* chat_rate_buckets: the minutes with chat.
Buckets(db, s) ==
  LET minutes == {m.at \div Minute : m \in RowsOf(db, "chat", {s})}
  IN  [b \in minutes |-> Cardinality({m \in RowsOf(db, "chat", {s}) : m.at \div Minute = b})]

\* _topic_engagement: the mean of the buckets in the topic's window, against the
\* busiest topic's.
Engagement(db, s) ==
  LET Rate(i) ==   \* <<messages, minutes>>
        LET w == Window(CitedSegments(db, s, i))
            inside == {b \in DOMAIN Buckets(db, s) : w.from <= b * Minute /\ b * Minute <= w.to}
        IN  IF CitedSegments(db, s, i) = {} \/ inside = {} THEN <<0, 1>>
            ELSE <<Total([b \in inside |-> Buckets(db, s)[b]]), Cardinality(inside)>>
      busiest == CHOOSE i \in Topics(db, s) :
                   \A j \in Topics(db, s) : Rate(j)[1] * Rate(i)[2] <= Rate(i)[1] * Rate(j)[2]
  IN  IF RowsOf(db, "chat", {s}) = {} THEN {}
      ELSE {[of |-> i.id,
             pct |-> IF Rate(busiest)[1] = 0 THEN 0
                     ELSE Percent(Rate(i)[1] * Rate(busiest)[2], Rate(i)[2] * Rate(busiest)[1])] :
              i \in Topics(db, s)}

Report(db, s) ==
  [live |-> s.id, stage |-> s.stage, numbers |-> Compared(db, s),
   peaks |-> RowsOf(db, "peaks", {s}),
   insights |-> {[insight |-> i, messages |-> CitedMessages(db, s, i),
                  segments |-> CitedSegments(db, s, i)] : i \in RowsOf(db, "insights", {s})},
   engagement |-> Engagement(db, s)]

Timeline(db, s) ==
  [chat |-> Buckets(db, s), viewers |-> RowsOf(db, "samples", {s}),
   events |-> RowsOf(db, "events", {s}), peaks |-> RowsOf(db, "peaks", {s})]

During(M, from, to) == {m \in M : from <= m.at /\ m.at < to}
Earlier(m, n) == m.at < n.at
Later(m, n)   == m.at > n.at

\* peak_detail: by the id in the path; 404 when the peak is of another live.
PeakDetail(db, s, id) ==
  LET p == CHOOSE q \in RowsOf(db, "peaks", {s}) : q.id = id
  IN  IF ~\E q \in RowsOf(db, "peaks", {s}) : q.id = id THEN NotFound
      ELSE [peak |-> p,
            segments |-> {g \in RowsOf(db, "segments", {s}) : g.from < p.to /\ g.to > p.from},
            messages |-> Foremost(During(RowsOf(db, "chat", {s}), p.from, p.to), Earlier)]

\* search: of chat and transcript, of one live or of all.
Search(db, c, word, ids) ==
  LET lives == {s \in LivesOf(db, c) : s.id \in ids}
      Newest(S) == Foremost(S, Later)
      chat == {[live |-> m.live, at |-> m.at, login |-> m.login] :
                 m \in Newest({m \in db.chat : m.channel = c /\ m.live \in ids /\ word \in m.words})}
      speech == {[live |-> g.live, at |-> g.from, login |-> NoLogin] :
                   g \in Foremost({g \in RowsOf(db, "segments", lives) : word \in g.words},
                                 LAMBDA g, h : g.from > h.from)}
  IN  Newest(chat \cup speech)

---------------------------------------------------------------------------
(* Chatters and topics. *)

\* counter.most_common: how often each word is used.
CommonWords(M) ==
  LET words == UNION {m.words : m \in M}
      Uses(w) == Cardinality({m \in M : w \in m.words})
  IN  Foremost({<<w, Uses(w)>> : w \in words}, LAMBDA v, w : v[2] > w[2])

\* The messages with a word of the lexicon, and their mean, in hundredths.
Felt(M) == {m \in M : m.mood # 0}
Mood(M) ==
  IF Felt(M) = {} THEN {}
  ELSE {Rounded(100 * Total([m \in Felt(M) |-> m.mood]), Cardinality(Felt(M)))}

\* _follower_logins of a live.
FollowedLogins(db, s) == {e.login : e \in {f \in RowsOf(db, "events", {s}) : f.type = "follow"}} \ {NoLogin}

InPeaks(db, s, M) == {m \in M : \E p \in RowsOf(db, "peaks", {s}) : p.from <= m.at /\ m.at < p.to}

FullPresenceMargin == 5 * Minute

\* _chatter_labels, but for the top chatter's, which ties leave to the database.
Labels(db, s, M, followed) ==
  LET ats == {m.at : m \in M}
  IN  {l \in {"full_presence", "peak_active", "followed"} :
        CASE l = "full_presence" -> /\ s.stage # "capturing"
                                    /\ Least(ats) <= s.start + FullPresenceMargin
                                    /\ Most(ats) >= s.end - FullPresenceMargin
          [] l = "peak_active"   -> /\ InPeaks(db, s, M) # {}
                                    /\ 2 * Cardinality(InPeaks(db, s, M)) >= Cardinality(M)
          [] l = "followed"      -> followed}

Chatter(db, s, login) ==
  LET M == SaidBy(login, RowsOf(db, "chat", {s}))
      followed == login \in FollowedLogins(db, s)
  IN  [login |-> login, messages |-> Cardinality(M),
       share |-> Percent(Cardinality(M), Cardinality(RowsOf(db, "chat", {s}))),
       first |-> Least({m.at : m \in M}), last |-> Most({m.at : m \in M}),
       minutes |-> Cardinality({m.at \div Minute : m \in M}),
       inPeaks |-> Cardinality(InPeaks(db, s, M)), mood |-> Mood(M), followed |-> followed,
       words |-> CommonWords(M), labels |-> Labels(db, s, M, followed),
       sample |-> Foremost(M, Later)]

\* stream_chatters: who said most.
ChatterList(db, s) ==
  Foremost({Chatter(db, s, login) : login \in Logins(RowsOf(db, "chat", {s}))},
           LAMBDA p, q : p.messages > q.messages)

\* topic_detail: 404 when the topic is not of the live, or has no window.
TopicDetail(db, s, id) ==
  LET i == CHOOSE t \in Topics(db, s) : t.id = id
      segments == CitedSegments(db, s, i)
      w == Window(segments)
      all == RowsOf(db, "chat", {s})
      inside == During(all, w.from, w.to)
      AtLeast(n, m) == IF n < m THEN m ELSE n
  IN  IF ~(\E t \in Topics(db, s) : t.id = id) \/ segments = {} THEN NotFound
      ELSE [window |-> w, messages |-> Cardinality(inside),
            lift |-> IF all = {} THEN {}
                     ELSE {Rounded(100 * Cardinality(inside) * AtLeast(Until(s) - s.start, Minute),
                                   AtLeast(w.to - w.from, Minute) * Cardinality(all))},
            chatters |-> Foremost({<<l, Cardinality(SaidBy(l, inside))>> : l \in Logins(inside)},
                                LAMBDA p, q : p[2] > q[2]),
            words |-> CommonWords(inside), sample |-> Foremost(inside, Earlier),
            segments |-> segments]

\* stream_community: who spoke how much, when, and in what mood.
PresenceColumns == 40
SentimentBucket == 1

Community(db, s) ==
  LET all == RowsOf(db, "chat", {s})
      minutes == Most({1, (Until(s) - s.start + 1) \div Minute})
      MinuteOf(m) == LET n == (m.at - s.start) \div Minute
                     IN  IF n < 0 THEN 0 ELSE IF n >= minutes THEN minutes - 1 ELSE n
      columns == Least({PresenceColumns, minutes})
      slot == (minutes + columns - 1) \div columns
      Cell(m) == Least({MinuteOf(m) \div slot, columns - 1})
      BucketOf(m) == Most({0, (m.at - s.start) \div SentimentBucket})
      Spoke == {[login |-> l, messages |-> Cardinality(SaidBy(l, all))] : l \in Logins(all)}
      top == Foremost(Spoke, LAMBDA p, q : p.messages > q.messages)
  IN  [share |-> top,
       others |-> Cardinality(all) - Total([p \in top |-> p.messages]),
       words |-> CommonWords(all), mood |-> Mood(all),
       moods |-> [b \in {BucketOf(m) : m \in Felt(all)} |-> Mood({m \in all : BucketOf(m) = b})],
       moodOf |-> Foremost({[login |-> l, messages |-> Cardinality(Felt(SaidBy(l, all))),
                             mood |-> Mood(SaidBy(l, all))] : l \in Logins(Felt(all))},
                           LAMBDA p, q : p.messages > q.messages),
       presence |-> [p \in top |-> [x \in {Cell(m) : m \in SaidBy(p.login, all)} |->
                       Cardinality({m \in SaidBy(p.login, all) : Cell(m) = x})]]]

---------------------------------------------------------------------------
(* What to do about a live. *)

DipMerge == 2 * Minute
ContextGap == 2 * Minute
RecoveryWindow == 5 * Minute
AnswerWindow == 3

Distance(m, n) == IF m < n THEN n - m ELSE m - n

\* _speech_and_scene: what is on at the moment, and the speech then or nearest.
DipContext(db, s, at) ==
  LET near == {g \in RowsOf(db, "segments", {s}) : g.to >= at - ContextGap /\ g.from <= at + ContextGap}
      over == {g \in near : g.from <= at /\ at <= g.to}
      first == {g \in over : \A h \in over : g.from <= h.from}
      speech == {g \in near : g.kind = "speech"}
      Gap(g) == Least({Distance(g.from, at), Distance(g.to, at)})
  IN  IF \E g \in first : g.kind = "speech"
      THEN [speech |-> first, scene |-> {}]
      ELSE [speech |-> {g \in speech : \A h \in speech : Gap(g) <= Gap(h)},
            scene |-> {g.kind : g \in first}]

\* dip_cause: an ad break about then, or else a change of category.
DipCause(db, s, at) ==
  LET types == {e.type : e \in {f \in RowsOf(db, "events", {s}) : f.at \in (at - ContextGap)..(at + 1)}}
  IN  IF "ad" \in types THEN {"ad"} ELSE types \cap {"category"}

\* _recovery: how many came back, and when.
Recovery(db, s, dip) ==
  LET after == {v \in RowsOf(db, "samples", {s}) : dip.at < v.at /\ v.at <= dip.at + RecoveryWindow}
      most  == {v \in after : \A w \in after : w.viewers <= v.viewers}
      best  == {v \in most : \A w \in most : v.at <= w.at}
  IN  {<<v.viewers, v.at - dip.at>> : v \in {w \in best : w.viewers > dip.after}}

\* retention_and_dips: a dip is a fall of 15 % within the next samples; the
\* deepest come first and take in those about the same time.
Dips(db, s) ==
  LET q == Seqs!SetToSortSeq(RowsOf(db, "samples", {s}), Earlier)
      Trough(i) == Least({q[j].viewers : j \in (i + 1)..Least({i + DipLookahead, Seqs!Len(q)})})
      dips == {[at |-> q[i].at, before |-> q[i].viewers, after |-> Trough(i),
                pct |-> Percent(q[i].viewers - Trough(i), q[i].viewers)] :
                 i \in {j \in 1..(Seqs!Len(q) - 1) :
                          q[j].viewers > 0 /\ 100 * (q[j].viewers - Trough(j)) >= 15 * q[j].viewers}}
      Deeper(d, e) == d.pct > e.pct \/ (d.pct = e.pct /\ d.at < e.at)
      Take(kept, d) == IF /\ Cardinality(kept) < Limit
                          /\ \A k \in kept : Distance(k.at, d.at) > DipMerge
                       THEN kept \cup {d} ELSE kept
  IN  Seqs!FoldLeft(Take, {}, Seqs!SetToSortSeq(dips, Deeper))

\* _unanswered_questions: with no speech in the time after them.
Unanswered(db, s) ==
  {m \in Foremost({n \in RowsOf(db, "chat", {s}) : n.asks}, Earlier) :
     ~\E g \in RowsOf(db, "segments", {s}) :
        g.kind = "speech" /\ g.from < m.at + AnswerWindow /\ g.to > m.at}

Actionable(db, s) ==
  LET samples == RowsOf(db, "samples", {s})
      peak  == Most({v.viewers : v \in samples})
      final == {v \in samples : \A w \in samples : w.at <= v.at}
  IN  [retention |-> {[peak |-> peak, final |-> v.viewers,
                       kept |-> IF peak = 0 THEN 0 ELSE Percent(v.viewers, peak)] : v \in final},
       dips |-> {[dip |-> d, context |-> DipContext(db, s, d.at), cause |-> DipCause(db, s, d.at),
                  recovery |-> Recovery(db, s, d),
                  chat |-> Foremost({m \in RowsOf(db, "chat", {s}) : Distance(m.at, d.at) <= Minute}, Earlier)] :
                   d \in Dips(db, s)},
       clips |-> Foremost(RowsOf(db, "peaks", {s}), LAMBDA p, q : p.score > q.score),
       unanswered |-> Cardinality(Unanswered(db, s)), samples |-> Foremost(Unanswered(db, s), Later)]

ClipList(db, c) == {k \in db.clips : k.channel = c}

---------------------------------------------------------------------------
\* platform_stats: of everybody, for the landing page.
PlatformStats(db) ==
  [messages |-> Cardinality(db.chat), analysed |-> Cardinality(Ready(db.streams)),
   hours |-> Total([s \in db.streams |-> Until(s) - s.start]) \div (60 * Minute),
   segments |-> Cardinality(db.segments)]
===========================================================================
