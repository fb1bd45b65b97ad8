--------------------------- MODULE RecapProofs ----------------------------
(***************************************************************************)
(* What the pages and the emails tell of the same lives: proofs about      *)
(* Screens, from the invariant of ScreensProofs.                           *)
(***************************************************************************)
EXTENDS ScreensProofs

---------------------------------------------------------------------------
(* The pages tell the same numbers (SameNumbers).                          *)

---------------------------------------------------------------------------
(* Numbers of a live. *)

\* Of few chatters, those who said most are all.
LEMMA FewByMessages ==
  ASSUME NEW S, IsFiniteSet(S), \A r \in S : r.messages \in Int, NEW T,
         T = {r \in S : Cardinality({q \in S : q.messages > r.messages}) < Limit}, Few(T)
  PROVE  T = S
<1> DEFINE rank == [r \in S |-> r.messages]
<1>1. rank \in [S -> Int]
  OBVIOUS
<1>2. \A r, q \in S : q.messages > r.messages <=> rank[q] > rank[r]
  OBVIOUS
<1> HIDE DEF rank
<1>3. \A r \in S : {q \in S : q.messages > r.messages} = {q \in S : rank[q] > rank[r]}
  BY <1>2
<1>4. T = {r \in S : Cardinality({q \in S : rank[q] > rank[r]}) < Limit}
  BY <1>3
<1>5. Limit \in Int /\ Cardinality(T) < Limit
  BY LimitAssumption DEF Few
<1> QED
  BY <1>1, <1>4, <1>5, FewAreAll

\* A list with a line for each group of rows counts the rows.
LEMMA ListCounts ==
  ASSUME NEW U, IsFiniteSet(U), NEW K, IsFiniteSet(K), NEW key \in [U -> K],
         NEW L, NEW line \in Bijection(K, L),
         NEW of \in [K -> SUBSET U], \A k \in K, x \in U : x \in of[k] <=> key[x] = k,
         \A k \in K : line[k].messages = Cardinality(of[k])
  PROVE  IsFiniteSet(L) /\ (\A r \in L : r.messages \in Int) /\ SumOf(L, "messages") = Cardinality(U)
<1> DEFINE g == [k \in K |-> Cardinality(of[k])]
<1>1. \A k \in K : {x \in U : key[x] = k} = of[k]
  OBVIOUS
<1>2. \A k \in K : IsFiniteSet(of[k])
  BY FS_Subset
<1>3. \A k \in K : Cardinality(of[k]) \in Int
  BY <1>2, FS_CardinalityType
<1>4. g \in [K -> Int] /\ g = [k \in K |-> g[k]] /\ \A k \in K : line[k]["messages"] = g[k]
  BY <1>3
<1>5. line \in Surjection(K, L)
  BY DEF Bijection
<1>6. IsFiniteSet(L)
  BY <1>5, FS_Surjection
<1>7. \A r \in L : r.messages \in Int
  BY <1>3, <1>5 DEF Surjection
<1>8. \A k \in K : g[k] = Cardinality({x \in U : key[x] = k})
  BY <1>1
<1> HIDE DEF g
<1>9. SumOf(L, "messages") = SumFunction(g)
  BY <1>4, ColumnSum
<1>10. Cardinality(U) = SumFunction(g)
  BY <1>4, <1>8, CountByKey
<1> QED
  BY <1>6, <1>7, <1>9, <1>10

\* A finite set of integers has a highest.
LEMMA HighestIs ==
  ASSUME NEW S, IsFiniteSet(S), S \subseteq Int, S # {}
  PROVE  Most(S) \in S /\ \A n \in S : n <= Most(S)
<1> DEFINE F == {T \in SUBSET S : T = {} \/ \E n \in T : \A m \in T : m <= n}
<1>1. {} \in F
  OBVIOUS
<1>2. ASSUME NEW T \in SUBSET S, NEW x \in S \ T, T \in F PROVE T \cup {x} \in F
  <2>1. CASE T = {}
    <3>1. x \in T \cup {x} /\ \A m \in T \cup {x} : m <= x
      BY <2>1
    <3> QED BY <3>1
  <2>2. CASE T # {}
    <3>1. PICK n \in T : \A m \in T : m <= n
      BY <1>2, <2>2
    <3>2. CASE x <= n
      BY <3>1, <3>2
    <3>3. CASE n < x
      <4>1. \A m \in T \cup {x} : m <= x
        BY <3>1, <3>3
      <4> QED BY <4>1
    <3> QED BY <3>2, <3>3
  <2> QED BY <2>1, <2>2
<1> HIDE DEF F
<1>3. S \in F
  BY <1>1, <1>2, SubsetInduction
<1>4. \E n \in S : \A m \in S : m <= n
  BY <1>3 DEF F
<1> QED
  BY <1>4 DEF Most

\* Division rounds down.
LEMMA DivisionBounds ==
  ASSUME NEW a \in Int, NEW b \in Nat \ {0}
  PROVE  a \div b \in Int /\ b * (a \div b) <= a /\ a < b * (a \div b) + b
  OBVIOUS

\* A quotient is below what its numerator is below.
LEMMA DivisionBelow ==
  ASSUME NEW a \in Int, NEW b \in Nat \ {0}, NEW n \in Int, a < b * (n + 1)
  PROVE  a \div b <= n
<1>1. a \div b \in Int /\ b * (a \div b) <= a
  BY DivisionBounds
<1>2. SUFFICES ASSUME a \div b >= n + 1 PROVE FALSE
  BY <1>1
<1>3. b * (a \div b) >= b * (n + 1)
  BY <1>1, <1>2
<1> QED
  BY <1>1, <1>3

\* The rows of a live are of its channel.
LEMMA RowsOfOwnChannel ==
  ASSUME Schema(db), NEW t \in OfBoth, NEW s \in db.streams
  PROVE  {r \in RowsOf(db, t, {s}) : r.channel = s.channel} = RowsOf(db, t, {s})
<1>1. \A r \in db[t] : \E q \in db.streams : q.id = r.live /\ q.channel = r.channel
  BY DEF Schema
<1>2. \A q, r \in db.streams : q.id = r.id => q = r
  BY DEF Schema
<1> QED
  BY <1>1, <1>2 DEF RowsOf

\* A message of a live of the channel is of the channel.
LEMMA ChatOfOwnChannel ==
  ASSUME Schema(db), NEW s \in db.streams
  PROVE  /\ {r \in RowsOf(db, "chat", {s}) : r.channel = s.channel} = RowsOf(db, "chat", {s})
         /\ {r \in RowsOf(db, "events", {s}) : r.channel = s.channel} = RowsOf(db, "events", {s})
<1>1. "chat" \in OfBoth /\ "events" \in OfBoth
  BY DEF OfBoth, Captured, LiveOnly
<1>2. \A t \in OfBoth : {r \in RowsOf(db, t, {s}) : r.channel = s.channel} = RowsOf(db, t, {s})
  BY RowsOfOwnChannel
<1> QED
  BY <1>1, <1>2

\* The rows of some lives are rows of their tables, and finite.
LEMMA RowsAreRows ==
  ASSUME Schema(db), NEW S
  PROVE  /\ RowsOf(db, "chat", S) \in SUBSET db.chat /\ IsFiniteSet(RowsOf(db, "chat", S))
         /\ RowsOf(db, "events", S) \in SUBSET db.events /\ IsFiniteSet(RowsOf(db, "events", S))
         /\ RowsOf(db, "samples", S) \in SUBSET db.samples /\ IsFiniteSet(RowsOf(db, "samples", S))
         /\ RowsOf(db, "insights", S) \in SUBSET db.insights
<1>1. /\ RowsOf(db, "chat", S) \in SUBSET db.chat /\ RowsOf(db, "events", S) \in SUBSET db.events
      /\ RowsOf(db, "samples", S) \in SUBSET db.samples /\ RowsOf(db, "insights", S) \in SUBSET db.insights
  BY DEF RowsOf
<1> QED
  BY <1>1, TablesFinite, FS_Subset

\* The numbers that are counts of the same rows.
LEMMA SameCounts ==
  ASSUME Schema(db), NEW s \in db.streams
  PROVE  LET m == Metrics(db, s)
             item == LiveItem(db, s)
             n == Numbers(db, s)
         IN  /\ item.messages = m.messages /\ n.messages = 10 * m.messages
             /\ item.chatters = m.chatters /\ n.chatters = 10 * m.chatters
             /\ item.events = m.events /\ n.events = 10 * m.events
             /\ item.followers = m.follows
             /\ item.peak = m.peak /\ n.peak = 10 * m.peak /\ n.average = m.average
             /\ n.duration = m.minutes
<1> DEFINE chat == RowsOf(db, "chat", {s})
           events == RowsOf(db, "events", {s})
           m == Metrics(db, s)
           item == LiveItem(db, s)
           n == Numbers(db, s)
<1>1. {r \in chat : r.channel = s.channel} = chat /\ {r \in events : r.channel = s.channel} = events
  BY ChatOfOwnChannel
<1>2. /\ item.messages = Cardinality({r \in chat : r.channel = s.channel})
      /\ item.chatters = Cardinality(Authors({r \in chat : r.channel = s.channel}))
      /\ item.events = Cardinality({r \in events : r.channel = s.channel})
      /\ item.followers = Cardinality({e \in {r \in events : r.channel = s.channel} : e.type = "follow"})
      /\ item.peak = Most({v.viewers : v \in RowsOf(db, "samples", {s})})
  BY DEF LiveItem
<1>3. /\ m.messages = Cardinality(chat) /\ m.chatters = Cardinality(Authors(chat))
      /\ m.events = Cardinality(events) /\ m.follows = Cardinality(OfType(events, {"follow"}))
      /\ m.peak = Most({v.viewers : v \in RowsOf(db, "samples", {s})})
      /\ m.minutes = Tenths(Until(s) - s.start, Minute)
  BY DEF Metrics
<1>4. /\ n.messages = 10 * Cardinality(chat) /\ n.chatters = 10 * Cardinality(Authors(chat))
      /\ n.events = 10 * Cardinality(events)
      /\ n.peak = 10 * Most({v.viewers : v \in RowsOf(db, "samples", {s})})
      /\ n.duration = Tenths(Until(s) - s.start, Minute)
  BY DEF Numbers
<1>5. n.average = m.average
  BY DEF Numbers, Metrics
<1>6. OfType(events, {"follow"}) = {e \in events : e.type = "follow"}
  BY DEF OfType
<1> HIDE DEF chat, events, m, item, n
<1> QED
  BY <1>1, <1>2, <1>3, <1>4, <1>5, <1>6 DEF m, item, n

\* The timeline's minutes hold every message once.
LEMMA MinutesAddUp ==
  ASSUME Schema(db), NEW s \in db.streams
  PROVE  LET buckets == Timeline(db, s).chat
         IN  Metrics(db, s).messages = Total([b \in DOMAIN buckets |-> buckets[b]])
<1> DEFINE chat == RowsOf(db, "chat", {s})
           K == {m.at \div Minute : m \in chat}
           key == [m \in chat |-> m.at \div Minute]
           g == [b \in K |-> Cardinality({m \in chat : m.at \div Minute = b})]
<1>1. IsFiniteSet(chat)
  BY RowsAreRows
<1>2. key \in Surjection(chat, K)
  BY DEF Surjection
<1>3. \A b \in K : g[b] = Cardinality({m \in chat : key[m] = b})
  <2>1. \A b \in K : {m \in chat : m.at \div Minute = b} = {m \in chat : key[m] = b}
    OBVIOUS
  <2> QED BY <2>1
<1>4. Timeline(db, s).chat = g
  BY DEF Timeline, Buckets
<1>5. g = [b \in K |-> g[b]] /\ DOMAIN g = K
  OBVIOUS
<1>6. Metrics(db, s).messages = Cardinality(chat)
  BY DEF Metrics
<1> HIDE DEF chat, K, key, g
<1>7. IsFiniteSet(K) /\ key \in [chat -> K]
  BY <1>1, <1>2, FS_Surjection DEF Surjection
<1>8. Cardinality(chat) = SumFunction(g)
  BY <1>1, <1>3, <1>5, <1>7, CountByKey
<1> QED
  BY <1>4, <1>5, <1>6, <1>8 DEF Total

\* Whom the chatters' page lists said everything, when it lists them all.
LEMMA ChattersAddUp ==
  ASSUME Schema(db), NEW s \in db.streams, Few(ChatterList(db, s))
  PROVE  Metrics(db, s).messages = SumOf(ChatterList(db, s), "messages")
<1> DEFINE chat == RowsOf(db, "chat", {s})
           K == Logins(chat)
           key == [m \in chat |-> m.login]
           line == [l \in K |-> Chatter(db, s, l)]
           L == {Chatter(db, s, l) : l \in K}
           of == [l \in K |-> SaidBy(l, chat)]
           T == ChatterList(db, s)
<1>1. IsFiniteSet(chat)
  BY RowsAreRows
<1>2. IsFiniteSet(K) /\ key \in [chat -> K]
  <2>1. key \in Surjection(chat, K)
    BY DEF Logins, Surjection
  <2> HIDE DEF key, K, chat
  <2> QED BY <1>1, <2>1, FS_Surjection DEF Surjection
<1>3. \A l : Chatter(db, s, l).login = l /\ Chatter(db, s, l).messages = Cardinality(SaidBy(l, chat))
  BY DEF Chatter
<1>4. line \in Bijection(K, L)
  <2>1. \A l \in K : line[l].login = l
    BY <1>3
  <2>2. line \in [K -> L] /\ \A r \in L : \E l \in K : line[l] = r
    OBVIOUS
  <2> HIDE DEF K, L, line
  <2> QED BY <2>1, <2>2 DEF Bijection, Injection, Surjection, IsInjective
<1>5. of \in [K -> SUBSET chat] /\ \A l \in K, m \in chat : m \in of[l] <=> key[m] = l
  BY DEF SaidBy
<1>6. \A l \in K : line[l].messages = Cardinality(of[l])
  BY <1>3
<1>7. T = {r \in L : Cardinality({q \in L : q.messages > r.messages}) < Limit}
  BY DEF ChatterList, Foremost
<1>8. Few(T) /\ Metrics(db, s).messages = Cardinality(chat)
  BY DEF Metrics
<1> HIDE DEF chat, K, key, line, L, of, T
<1>9. IsFiniteSet(L) /\ (\A r \in L : r.messages \in Int) /\ SumOf(L, "messages") = Cardinality(chat)
  BY <1>1, <1>2, <1>4, <1>5, <1>6, ListCounts, SMTT(60)
<1>10. T = L
  BY <1>7, <1>8, <1>9, FewByMessages
<1> QED
  BY <1>8, <1>9, <1>10 DEF T

\* The community page tells what the top chatters said and what is left of all.
LEMMA SharesAddUp ==
  ASSUME Schema(db), NEW s \in db.streams
  PROVE  Metrics(db, s).messages = SumOf(Community(db, s).share, "messages") + Community(db, s).others
<1> DEFINE chat == RowsOf(db, "chat", {s})
           Spoke == {[login |-> l, messages |-> Cardinality(SaidBy(l, chat))] : l \in Logins(chat)}
           K == Logins(chat)
           line == [l \in K |-> [login |-> l, messages |-> Cardinality(SaidBy(l, chat))]]
           top == Foremost(Spoke, LAMBDA p, q : p.messages > q.messages)
           h == [p \in top |-> p.messages]
<1>1. IsFiniteSet(chat)
  BY RowsAreRows
<1>2. IsFiniteSet(K)
  <2> DEFINE key == [m \in chat |-> m.login]
  <2>1. key \in Surjection(chat, K)
    BY DEF Logins, Surjection
  <2> HIDE DEF key, K, chat
  <2> QED BY <1>1, <2>1, FS_Surjection
<1>3. line \in Surjection(K, Spoke)
  BY DEF Surjection
<1>4. \A l \in K : line[l].messages \in Int
  <2>1. \A l \in K : IsFiniteSet(SaidBy(l, chat))
    BY <1>1, FS_Subset DEF SaidBy
  <2> QED BY <2>1, FS_CardinalityType
<1>5. top \in SUBSET Spoke
  BY DEF Foremost
<1>6. Community(db, s).share = top /\ Community(db, s).others = Cardinality(chat) - Total(h)
  BY DEF Community
<1>7. SumOf(top, "messages") = SumFunction(h) /\ Total(h) = SumFunction(h)
  BY DEF SumOf, Total
<1>8. Metrics(db, s).messages = Cardinality(chat) /\ Cardinality(chat) \in Int
  BY <1>1, FS_CardinalityType DEF Metrics
<1>9. h = [p \in top |-> p.messages]
  OBVIOUS
<1> HIDE DEF chat, Spoke, K, line, top, h
<1>10. IsFiniteSet(top)
  BY <1>2, <1>3, <1>5, FS_Surjection, FS_Subset
<1>11. \A p \in Spoke : p.messages \in Int
  BY <1>3, <1>4 DEF Surjection
<1>12. h \in [top -> Int]
  BY <1>5, <1>9, <1>11
<1>13. SumFunction(h) \in Int
  BY <1>10, <1>12, TotalInt
<1> QED
  BY <1>6, <1>7, <1>8, <1>13

\* A mean is no higher than the highest.
LEMMA MeanBelowPeak ==
  ASSUME Schema(db), NEW s \in db.streams
  PROVE  Numbers(db, s).average <= Numbers(db, s).peak
<1> DEFINE V == RowsOf(db, "samples", {s})
           N == {v.viewers : v \in V}
           f == [v \in V |-> v.viewers]
           M == Most(N)
           T == SumFunction(f)
           k == Cardinality(V)
<1>1. IsFiniteSet(V) /\ V \in SUBSET db.samples
  BY RowsAreRows
<1>2. \A v \in V : v.viewers \in Nat
  BY <1>1 DEF Schema
<1>3. f \in [V -> Nat] /\ f \in [V -> Int] /\ f \in Surjection(V, N)
  BY <1>2 DEF Surjection
<1>4. /\ Numbers(db, s).peak = 10 * M
      /\ Numbers(db, s).average = IF V = {} THEN 0 ELSE Tenths(Total(f), k)
  BY DEF Numbers
<1>5. CASE V = {}
  <2>1. N = {}
    BY <1>5
  <2>2. M = 0
    BY <2>1 DEF Most
  <2> QED BY <1>4, <1>5, <2>2
<1>6. CASE V # {}
  <2>1. N # {} /\ N \subseteq Int
    BY <1>2, <1>6
  <2>2. \A v \in V : f[v] \in N
    OBVIOUS
  <2> HIDE DEF f, N
  <2>3. IsFiniteSet(N)
    BY <1>1, <1>3, FS_Surjection
  <2>4. M \in Int /\ \A v \in V : f[v] <= M
    BY <2>1, <2>2, <2>3, HighestIs
  <2> HIDE DEF M
  <2>5. T <= M * k /\ T \in Int
    BY <1>1, <1>3, <2>4, TotalBounded, TotalInt
  <2>6. k \in Nat /\ k # 0
    BY <1>1, <1>6, FS_CardinalityType, FS_EmptySet
  <2>7. Tenths(Total(f), k) = (2 * (10 * T) + k) \div (2 * k)
    BY DEF Tenths, Rounded, Total
  <2>8. Numbers(db, s).average = (2 * (10 * T) + k) \div (2 * k) /\ Numbers(db, s).peak = 10 * M
    BY <1>4, <1>6, <2>7
  <2> HIDE DEF T, k
  <2>9. 2 * (10 * T) + k < (2 * k) * (10 * M + 1)
    <3>1. (2 * k) * (10 * M + 1) = 20 * (M * k) + 2 * k
      BY <2>4, <2>6
    <3>2. M * k \in Int
      BY <2>4, <2>6
    <3> QED BY <2>5, <2>6, <3>1, <3>2
  <2>10. (2 * (10 * T) + k) \div (2 * k) <= 10 * M
    <3> DEFINE a == 2 * (10 * T) + k
               b == 2 * k
               n == 10 * M
    <3>1. a \in Int /\ b \in Nat \ {0} /\ n \in Int /\ a < b * (n + 1)
      BY <2>4, <2>5, <2>6, <2>9
    <3> HIDE DEF a, b, n
    <3>2. a \div b <= n
      BY <3>1, DivisionBelow
    <3> QED BY <3>2 DEF a, b, n
  <2> QED BY <2>8, <2>10
<1> QED
  BY <1>5, <1>6

\* A topic's page has the window its money is counted in.
LEMMA SameWindow ==
  ASSUME Schema(db), NEW s \in db.streams, NEW w \in TopicWindows(db, s)
  PROVE  TopicDetail(db, s, w.id).window = w.window
<1>1. PICK i \in Topics(db, s) : /\ CitedSegments(db, s, i) # {}
                                 /\ w.id = i.id /\ w.window = Window(CitedSegments(db, s, i))
  BY DEF TopicWindows
<1>2. \A t \in Topics(db, s) : t.id = w.id => t = i
  BY <1>1, RowsAreRows DEF Topics, Schema
<1>3. (CHOOSE t \in Topics(db, s) : t.id = w.id) = i
  BY <1>1, <1>2
<1> QED
  BY <1>1, <1>3 DEF TopicDetail

\* Windows looked up by the ids of their segments alone are those of the live.
LEMMA SameWindows ==
  ASSUME Schema(db), NEW s \in db.streams
  PROVE  {<<w.id, w.window>> : w \in TopicWindows(db, s)}
           = {<<w.id, w.window>> : w \in WindowsByLive(db, {s})}
<1> DEFINE Cited(i) == {g \in db.segments : g.id \in i.segments}
           I == {t \in Topics(db, s) : CitedSegments(db, s, t) # {}}
           J == {t \in OfType(RowsOf(db, "insights", {s}), {"topic"}) : Cited(t) # {}}
<1>1. Topics(db, s) = OfType(RowsOf(db, "insights", {s}), {"topic"}) /\ Topics(db, s) \subseteq db.insights
  BY DEF Topics, OfType, RowsOf
<1>2. \A i \in Topics(db, s) : CitedSegments(db, s, i) = Cited(i)
  BY <1>1 DEF Schema, CitedSegments, RowsOf, Topics
<1>3. I = J
  BY <1>1, <1>2
<1> DEFINE of(i) == [id |-> i.id, name |-> i.name, window |-> Window(CitedSegments(db, s, i))]
           by(i) == [id |-> i.id, live |-> i.live, name |-> i.name, window |-> Window(Cited(i))]
<1>4. TopicWindows(db, s) = {of(i) : i \in I}
  BY DEF TopicWindows
<1>5. WindowsByLive(db, {s}) = {by(i) : i \in J}
  BY DEF WindowsByLive
<1>6. \A i \in I : of(i).id = by(i).id /\ of(i).window = by(i).window
  BY <1>2
<1> HIDE DEF I, J, of, by
<1>7. {<<w.id, w.window>> : w \in {of(i) : i \in I}} = {<<w.id, w.window>> : w \in {by(i) : i \in I}}
  BY <1>6
<1> QED
  BY <1>3, <1>4, <1>5, <1>7

\* A live has the same numbers on every page.
LEMMA LiveIsSame ==
  ASSUME Schema(db), NEW s \in db.streams
  PROVE  SameLive(s)
  BY SameCounts, MinutesAddUp, ChattersAddUp, SharesAddUp, MeanBelowPeak, SameWindow, SameWindows DEF SameLive

\* Of a channel's chat, that of its lives.
LEMMA ChatOfChannel ==
  ASSUME Schema(db), NEW c
  PROVE  {m \in db.chat : m.channel = c} = RowsOf(db, "chat", LivesOf(db, c))
<1>1. \A m \in db.chat : \E s \in db.streams : s.id = m.live /\ s.channel = m.channel
  BY DEF Schema, OfBoth, Captured, LiveOnly
<1>2. \A r, s \in db.streams : r.id = s.id => r = s
  BY DEF Schema
<1> QED
  BY <1>1, <1>2 DEF RowsOf, LivesOf

\* As many as are of a part of the rows, no more than are of all.
LEMMA FewerAuthors ==
  ASSUME NEW M, IsFiniteSet(M), NEW N \in SUBSET M
  PROVE  Cardinality(Authors(N)) <= Cardinality(Authors(M))
<1> DEFINE by == [m \in M |-> m.author]
           A == Authors(M)
<1>1. by \in Surjection(M, A)
  BY DEF Authors, Surjection
<1>2. Authors(N) \subseteq A
  BY DEF Authors
<1> HIDE DEF by, A
<1>3. IsFiniteSet(A)
  BY <1>1, FS_Surjection
<1> QED
  BY <1>2, <1>3, FS_Subset DEF A

\* Nobody is counted twice on a day or over the channel, and nobody on a live is missed.
LEMMA DaysOfChannel ==
  ASSUME Schema(db), NEW c
  PROVE  LET days == DayChatters(db, c)
             all == ChannelOverview(db, c)
         IN  /\ \A d \in DOMAIN days : days[d] <= all.chatters
             /\ \A s \in LivesOf(db, c) : Metrics(db, s).messages > 0 =>
                  Metrics(db, s).chatters <= days[LocalDay(db, c, s.start)]
<1> DEFINE days == DayChatters(db, c)
           said == {m \in db.chat : m.channel = c}
           chatted == {s \in LivesOf(db, c) : RowsOf(db, "chat", {s}) # {}}
           On(d) == {s \in chatted : LocalDay(db, c, s.start) = d}
           D == {LocalDay(db, c, s.start) : s \in chatted}
<1>1. days = [d \in D |-> Cardinality(Authors(RowsOf(db, "chat", On(d))))]
  BY DEF DayChatters
<1>2. ChannelOverview(db, c).chatters = Cardinality(Authors(said))
  BY DEF ChannelOverview
<1>3. IsFiniteSet(said)
  BY TablesFinite, FS_Subset
<1>4. ASSUME NEW d \in D PROVE days[d] <= Cardinality(Authors(said))
  <2>1. RowsOf(db, "chat", On(d)) \in SUBSET said
    <3>1. said = RowsOf(db, "chat", LivesOf(db, c))
      BY ChatOfChannel
    <3>2. On(d) \subseteq LivesOf(db, c)
      OBVIOUS
    <3> HIDE DEF On, said
    <3> QED BY <3>1, <3>2 DEF RowsOf
  <2> HIDE DEF said
  <2> QED BY <1>1, <1>3, <2>1, FewerAuthors
<1>5. ASSUME NEW s \in LivesOf(db, c), Metrics(db, s).messages > 0
      PROVE  Metrics(db, s).chatters <= days[LocalDay(db, c, s.start)]
  <2> DEFINE d == LocalDay(db, c, s.start)
             chat == RowsOf(db, "chat", {s})
  <2>1. Metrics(db, s).messages = Cardinality(chat) /\ Metrics(db, s).chatters = Cardinality(Authors(chat))
    BY DEF Metrics
  <2>2. chat # {}
    BY <1>5, <2>1, FS_EmptySet
  <2>3. s \in On(d) /\ d \in D
    BY <2>2
  <2>4. chat \in SUBSET RowsOf(db, "chat", On(d)) /\ IsFiniteSet(RowsOf(db, "chat", On(d)))
    <3> HIDE DEF On, d
    <3> QED BY <2>3, RowsAreRows DEF RowsOf
  <2> HIDE DEF chat, On, D, d
  <2>5. Cardinality(Authors(chat)) <= Cardinality(Authors(RowsOf(db, "chat", On(d))))
    BY <2>4, FewerAuthors
  <2> QED BY <1>1, <2>1, <2>3, <2>5 DEF d
<1>6. DOMAIN days = D
  BY <1>1
<1> HIDE DEF days, said, D
<1> QED
  BY <1>2, <1>4, <1>5, <1>6 DEF days

\* The channel's messages are those its list of lives tells.
LEMMA ListAddsMessages ==
  ASSUME Schema(db), NEW c
  PROVE  ChannelOverview(db, c).messages = SumOf(LiveList(db, c), "messages")
<1> DEFINE U == {m \in db.chat : m.channel = c}
           K == LivesOf(db, c)
           key == [m \in U |-> CHOOSE s \in K : s.id = m.live]
           line == [s \in K |-> LiveItem(db, s)]
           L == LiveList(db, c)
           of == [s \in K |-> RowsOf(db, "chat", {s})]
<1>1. U = RowsOf(db, "chat", K)
  BY ChatOfChannel
<1>2. IsFiniteSet(U) /\ IsFiniteSet(K) /\ K \subseteq db.streams
  BY TablesFinite, FS_Subset DEF LivesOf
<1>3. \A m \in U : key[m] \in K /\ key[m].id = m.live
  <2>1. \A m \in U : \E s \in K : s.id = m.live
    BY <1>1 DEF RowsOf
  <2> HIDE DEF U, K
  <2> QED BY <2>1
<1>4. \A s \in K : of[s] = RowsOf(db, "chat", {s})
  OBVIOUS
<1>5. ChannelOverview(db, c).messages = Cardinality(U)
  BY DEF ChannelOverview
<1>6. \A s \in K : /\ line[s].live = s.id
                   /\ line[s].messages = Cardinality({m \in of[s] : m.channel = s.channel})
  BY DEF LiveItem
<1>7. line \in Surjection(K, L)
  BY DEF LiveList, Surjection
<1>8. key = [m \in U |-> key[m]] /\ of = [s \in K |-> of[s]]
  OBVIOUS
<1> HIDE DEF U, K, key, line, L, of
<1>9. line \in Bijection(K, L)
  <2>1. ASSUME NEW r \in K, NEW s \in K, line[r] = line[s] PROVE r = s
    <3>1. r.id = s.id
      BY <1>6, <2>1
    <3> QED BY <1>2, <3>1 DEF Schema
  <2> QED BY <1>7, <2>1 DEF Bijection, Injection, Surjection, IsInjective
<1>10. of \in [K -> SUBSET U] /\ \A s \in K, m \in U : m \in of[s] <=> key[m] = s
  <2>1. \A s \in K : of[s] \in SUBSET U
    BY <1>1, <1>4 DEF RowsOf
  <2>2. \A s \in K, m \in U : m \in of[s] <=> m.live = s.id
    BY <1>1, <1>4 DEF RowsOf
  <2>3. \A s \in K, m \in U : m.live = s.id <=> key[m] = s
    BY <1>2, <1>3 DEF Schema
  <2> QED BY <1>8, <2>1, <2>2, <2>3
<1>11. \A s \in K : line[s].messages = Cardinality(of[s])
  <2>1. \A s \in K : {m \in of[s] : m.channel = s.channel} = of[s]
    BY <1>2, <1>4, ChatOfOwnChannel
  <2> QED BY <1>6, <2>1
<1>12. key \in [U -> K]
  BY <1>3, <1>8
<1>13. SumOf(L, "messages") = Cardinality(U)
  BY <1>2, <1>9, <1>10, <1>11, <1>12, ListCounts, SMTT(60)
<1> QED
  BY <1>5, <1>13 DEF L

\* The growth tells each analysed live's own numbers.
LEMMA GrowthTells ==
  ASSUME NEW c, NEW g \in Growth(db, c)
  PROVE  \E s \in Ready(LivesOf(db, c)) :
           LET m == Metrics(db, s) IN
           <<g.live, g.peak, g.average, g.follows, g.messages, g.cents>> =
             <<s.id, m.peak, m.average, m.follows, m.messages, m.cents>>
<1>1. PICK s \in Ready(LivesOf(db, c)) :
        g = [live |-> s.id, peak |-> PeakOf(db, s), average |-> Numbers(db, s).average,
             follows |-> Cardinality(OfType(RowsOf(db, "events", {s}), {"follow"})),
             messages |-> Cardinality(RowsOf(db, "chat", {s})),
             cents |-> Worth(Money(RowsOf(db, "events", {s})))]
  BY DEF Growth
<1>2. Numbers(db, s).average = Metrics(db, s).average
  BY DEF Numbers, Metrics
<1>3. /\ Metrics(db, s).peak = PeakOf(db, s)
      /\ Metrics(db, s).follows = Cardinality(OfType(RowsOf(db, "events", {s}), {"follow"}))
      /\ Metrics(db, s).messages = Cardinality(RowsOf(db, "chat", {s}))
      /\ Metrics(db, s).cents = Worth(Money(RowsOf(db, "events", {s})))
  BY DEF Metrics, PeakOf
<1> QED
  BY <1>1, <1>2, <1>3

\* The landing page counts what the channels' pages do.
LEMMA PlatformAddsUp ==
  ASSUME Schema(db), Streamers = {h.channel : h \in db.channels}
  PROVE  /\ PlatformStats(db).messages = Total([c \in Streamers |-> ChannelOverview(db, c).messages])
         /\ PlatformStats(db).analysed = Total([c \in Streamers |-> ChannelOverview(db, c).lives])
<1> DEFINE C == db.chat
           R == Ready(db.streams)
           of == [m \in C |-> m.channel]
           by == [s \in R |-> s.channel]
           messages == [c \in Streamers |-> ChannelOverview(db, c).messages]
           lives == [c \in Streamers |-> ChannelOverview(db, c).lives]
           name == [h \in db.channels |-> h.channel]
<1>1. IsFiniteSet(C) /\ IsFiniteSet(R)
  BY TablesFinite, FS_Subset DEF Ready
<1>2. IsFiniteSet(Streamers)
  <2>1. name \in Surjection(db.channels, Streamers)
    BY DEF Surjection
  <2> HIDE DEF name
  <2> QED BY <2>1, TablesFinite, FS_Surjection
<1>3. \A s \in db.streams : s.channel \in Streamers
  BY DEF Schema
<1>4. \A m \in C : m.channel \in Streamers
  <2>1. \A m \in C : \E s \in db.streams : s.channel = m.channel
    BY DEF Schema, OfBoth, Captured, LiveOnly
  <2> QED BY <1>3, <2>1
<1>5. of \in [C -> Streamers] /\ by \in [R -> Streamers]
  BY <1>3, <1>4 DEF Ready
<1>6. \A c \in Streamers : messages[c] = Cardinality({m \in C : of[m] = c})
  <2>1. \A c \in Streamers : {m \in C : of[m] = c} = {m \in db.chat : m.channel = c}
    OBVIOUS
  <2> QED BY <2>1 DEF ChannelOverview
<1>7. \A c \in Streamers : lives[c] = Cardinality({s \in R : by[s] = c})
  <2>1. \A c \in Streamers : {s \in R : by[s] = c} = Ready(LivesOf(db, c))
    BY DEF Ready, LivesOf
  <2> QED BY <2>1 DEF ChannelOverview
<1>8. messages = [c \in Streamers |-> messages[c]] /\ lives = [c \in Streamers |-> lives[c]]
  OBVIOUS
<1>9. PlatformStats(db).messages = Cardinality(C) /\ PlatformStats(db).analysed = Cardinality(R)
  BY DEF PlatformStats
<1>10. Total(messages) = SumFunction(messages) /\ Total(lives) = SumFunction(lives)
  BY DEF Total
<1> HIDE DEF C, R, of, by, messages, lives
<1>11. Cardinality(C) = SumFunction(messages)
  BY <1>1, <1>2, <1>5, <1>6, <1>8, CountByKey
<1>12. Cardinality(R) = SumFunction(lives)
  BY <1>1, <1>2, <1>5, <1>7, <1>8, CountByKey
<1> QED
  BY <1>9, <1>10, <1>11, <1>12 DEF messages, lives

\* The pages of tables that satisfy the schema agree.
LEMMA NumbersOfSchema ==
  ASSUME Schema(db), Streamers = {h.channel : h \in db.channels}
  PROVE  NumbersAgree
<1>1. ASSUME NEW c
      PROVE  /\ \A s \in LivesOf(db, c) : SameLive(s)
             /\ \A g \in Growth(db, c) : \E s \in Ready(LivesOf(db, c)) :
                LET m == Metrics(db, s) IN
                <<g.live, g.peak, g.average, g.follows, g.messages, g.cents>> =
                  <<s.id, m.peak, m.average, m.follows, m.messages, m.cents>>
             /\ ChannelOverview(db, c).growth = Growth(db, c)
  <2>1. \A s \in LivesOf(db, c) : SameLive(s)
    BY LiveIsSame DEF LivesOf
  <2>2. ChannelOverview(db, c).growth = Growth(db, c)
    BY DEF ChannelOverview
  <2> QED BY <2>1, <2>2, GrowthTells
<1> QED
  BY <1>1, DaysOfChannel, ListAddsMessages, PlatformAddsUp DEF NumbersAgree

\* Whatever is stored, the pages tell the same numbers.
THEOREM SameNumbers == ScreensSpec => []NumbersAgree
<1>1. RowsInv => NumbersAgree
  BY RowsOfSchema, NumbersOfSchema DEF RowsInv
<1> QED
  BY <1>1, RowsAlways, PTL

---------------------------------------------------------------------------
(* The emails tell what the pages tell (RecapsTrue).  Every analysed live  *)
(* is of one period, which is mailed (PeriodIs, PeriodMailed), so that the *)
(* sums of the emails are parts of the pages' sums.                        *)

\* A quotient is the one number whose multiple is just below.
LEMMA DivisionIs ==
  ASSUME NEW a \in Int, NEW b \in Nat \ {0}, NEW k \in Int
  PROVE  (b * k <= a /\ a < b * k + b) <=> a \div b = k
<1> DEFINE q == a \div b
<1>1. q \in Int /\ b * q <= a /\ a < b * q + b
  BY DivisionBounds
<1> HIDE DEF q
<1>2. ASSUME b * k <= a, a < b * k + b PROVE q = k
  <2>1. CASE q > k
    <3>1. b * q >= b * (k + 1)
      BY <1>1, <2>1
    <3> QED BY <1>1, <1>2, <3>1
  <2>2. CASE q < k
    <3>1. b * k >= b * (q + 1)
      BY <1>1, <2>2
    <3> QED BY <1>1, <1>2, <3>1
  <2> QED BY <1>1, <2>1, <2>2
<1> QED
  BY <1>1, <1>2 DEF q

---------------------------------------------------------------------------
(* The periods. *)

\* The length of a period; the period a live starts in; the lives of one.
Span == PeriodDays * DayLength
PeriodOf(c, s) == (s.start + ZoneOf(db, c)) \div Span
OfPeriod(c, k) == PeriodLives(db, c, Bounds(db, c, k))

\* A channel's zone is one of the world's, a number.
LEMMA ZoneIs ==
  ASSUME RowsInv, NEW c \in Streamers
  PROVE  ZoneOf(db, c) \in Zones(world) /\ ZoneOf(db, c) \in Int
<1>1. \E h \in db.channels : h.channel = c
  BY DEF RowsInv
<1>2. PICK h \in db.channels : ZoneOf(db, c) = h.zone
  BY <1>1 DEF ZoneOf, ChannelOf
<1> QED
  BY <1>2, RowsOfSchema DEF RowsInv, Schema

\* Days and periods have a length.
LEMMA SpanIs ==
  Span \in Nat \ {0} /\ PeriodDays \in Nat \ {0} /\ DayLength \in Nat \ {0}
<1>1. PeriodDays \in Nat \ {0} /\ DayLength \in Nat \ {0}
  BY PeriodAssumption, DayAssumption
<1>2. PeriodDays * DayLength \in Nat /\ PeriodDays * DayLength # 0
  BY <1>1
<1> QED
  BY <1>1, <1>2 DEF Span

\* A period's bounds hold what the division says is of it.
LEMMA PeriodIs ==
  ASSUME RowsInv, NEW c \in Streamers, NEW k \in Int
  PROVE  OfPeriod(c, k) = {s \in Ready(LivesOf(db, c)) : PeriodOf(c, s) = k}
<1> DEFINE z == ZoneOf(db, c)
           low == k * PeriodDays * DayLength
           high == (k + 1) * PeriodDays * DayLength
           from == low - z
           to == high - z
<1>1. z \in Int
  BY ZoneIs
<1>2. from = Span * k - z /\ to = Span * k + Span - z
  <2>1. low = Span * k /\ high = Span * k + Span
    BY SpanIs DEF Span
  <2>2. low \in Int /\ high \in Int /\ Span * k \in Int /\ Span \in Int
    BY SpanIs
  <2> HIDE DEF low, high, z
  <2> QED BY <1>1, <2>1, <2>2
<1>3. OfPeriod(c, k) = {s \in Ready(LivesOf(db, c)) : from <= s.start /\ s.start < to}
  BY DEF OfPeriod, PeriodLives, Bounds
<1>4. ASSUME NEW s \in Ready(LivesOf(db, c))
      PROVE  (from <= s.start /\ s.start < to) <=> PeriodOf(c, s) = k
  <2>1. s.start \in Int
    BY RowsOfSchema DEF Schema, Ready, LivesOf
  <2>2. (Span * k <= s.start + z /\ s.start + z < Span * k + Span) <=> (s.start + z) \div Span = k
    <3> DEFINE a == s.start + z
    <3>1. a \in Int
      BY <1>1, <2>1
    <3> HIDE DEF a
    <3>2. (Span * k <= a /\ a < Span * k + Span) <=> a \div Span = k
      BY <3>1, SpanIs, DivisionIs
    <3> QED BY <3>2 DEF a
  <2>3. Span * k \in Int /\ Span \in Int
    BY SpanIs
  <2> HIDE DEF z, from, to
  <2> QED BY <1>1, <1>2, <2>1, <2>2, <2>3 DEF PeriodOf, z
<1> HIDE DEF from, to
<1> QED
  BY <1>3, <1>4

\* Each live is of a period that is mailed.
LEMMA PeriodMailed ==
  ASSUME RowsInv, NEW c \in Streamers, NEW s \in LivesOf(db, c)
  PROVE  PeriodOf(c, s) \in Weeks
<1>1. PICK w \in world.streams : w.start = s.start
  BY StreamRow DEF LivesOf
<1>2. ZoneOf(db, c) \in Zones(world) /\ world \in Worlds
  BY ZoneIs DEF RowsInv
<1> QED
  BY <1>1, <1>2, MailedAssumption DEF PeriodOf, Span

\* What the email of a period is made of.
LEMMA RecapIs ==
  ASSUME NEW c, NEW k
  PROVE  LET S == OfPeriod(c, k)
             r == Recap(db, c, k)
         IN  /\ S = {} => r.lives = {}
             /\ S # {} =>
                  /\ r.lives = PerLive(db, S) /\ r.lives # {} /\ r.totals = Totals(db, S)
                  /\ r.daily = DailyCents(db, c, PerLive(db, S))
                  /\ r.payers = Payers(EventsOf(S)) /\ r.content = ContentRevenue(db, S)
                  /\ r.engaged = Engaged(db, S, EventsOf(S))
<1> DEFINE S == OfPeriod(c, k)
           r == Recap(db, c, k)
<1>1. S = {} => r = [lives |-> {}]
  BY DEF Recap, OfPeriod
<1>2. S # {} =>
        /\ r.lives = PerLive(db, S) /\ r.totals = Totals(db, S)
        /\ r.daily = DailyCents(db, c, PerLive(db, S))
        /\ r.payers = Payers(EventsOf(S)) /\ r.content = ContentRevenue(db, S)
        /\ r.engaged = Engaged(db, S, EventsOf(S))
  BY DEF Recap, OfPeriod, EventsOf
<1>3. S # {} => PerLive(db, S) # {}
  BY DEF PerLive
<1> QED
  BY <1>1, <1>2, <1>3

\* What is summed over the lives of an email is so over the lives.
LEMMA OverPerLive ==
  ASSUME NEW S, IsFiniteSet(S), NEW key, \A s \in S : Metrics(db, s)[key] \in Int
  PROVE  LET lives == PerLive(db, S)
             f == [p \in lives |-> p.metrics[key]]
         IN  /\ IsFiniteSet(lives) /\ Cardinality(lives) = Cardinality(S)
             /\ f \in [lives -> Int]
             /\ SumFunction(f) = SumFunction([s \in S |-> Metrics(db, s)[key]])
<1> DEFINE lives == PerLive(db, S)
           f == [p \in lives |-> p.metrics[key]]
           g == [s \in S |-> Metrics(db, s)[key]]
           line == [s \in S |-> [live |-> s, metrics |-> Metrics(db, s)]]
<1>1. \A s \in S : line[s].live = s /\ line[s].metrics = Metrics(db, s)
  OBVIOUS
<1>2. line \in Surjection(S, lives)
  BY DEF PerLive, Surjection
<1>3. g \in [S -> Int]
  OBVIOUS
<1>4. \A s \in S : g[s] = Metrics(db, s)[key]
  OBVIOUS
<1>5. f = [p \in lives |-> p.metrics[key]]
  OBVIOUS
<1> HIDE DEF lives, f, g, line
<1>6. line \in Bijection(S, lives)
  BY <1>1, <1>2 DEF Bijection, Injection, Surjection, IsInjective
<1>7. IsFiniteSet(lives) /\ Cardinality(lives) = Cardinality(S)
  BY <1>6, FS_Bijection DEF ExistsBijection
<1>8. \A p \in lives : p.metrics[key] \in Int
  BY <1>1, <1>2 DEF Surjection
<1>9. f \in [lives -> Int]
  BY <1>5, <1>8
<1>10. \A s \in S : f[line[s]] = g[s]
  BY <1>1, <1>2, <1>4, <1>5 DEF Surjection
<1>11. SumFunction(f) = SumFunction(g)
  BY <1>3, <1>6, <1>9, <1>10, TotalImage
<1> QED
  BY <1>7, <1>9, <1>11 DEF lives, f, g

\* The metrics that are used are numbers.
LEMMA MetricsInt ==
  ASSUME Schema(db), NEW s \in db.streams
  PROVE  LET m == Metrics(db, s)
         IN  /\ m.messages \in Nat /\ m.chatters \in Nat /\ m.cents \in Nat
             /\ m.average \in Int /\ m.peak \in Int /\ m.average <= 10 * m.peak
             /\ m.messages = Cardinality(RowsOf(db, "chat", {s}))
             /\ m.chatters = Cardinality(Authors(RowsOf(db, "chat", {s})))
             /\ m.cents = Worth(EventsOf({s}))
<1> DEFINE V == RowsOf(db, "samples", {s})
           N == {v.viewers : v \in V}
           f == [v \in V |-> v.viewers]
           chat == RowsOf(db, "chat", {s})
           A == Authors(chat)
           m == Metrics(db, s)
<1>1. /\ IsFiniteSet(V) /\ IsFiniteSet(chat) /\ V \in SUBSET db.samples
  BY RowsAreRows
<1>2. m.messages = Cardinality(chat) /\ m.chatters = Cardinality(A) /\ m.cents = Worth(EventsOf({s}))
  BY DEF Metrics, EventsOf
<1>3. m.messages \in Nat /\ m.cents \in Nat
  BY <1>1, <1>2, FS_CardinalityType, EventsOfType, WorthNat
<1>4. m.chatters \in Nat
  <2> DEFINE by == [q \in chat |-> q.author]
  <2>1. by \in Surjection(chat, A)
    BY DEF Authors, Surjection
  <2> HIDE DEF by, A, chat, m
  <2> QED BY <1>1, <1>2, <2>1, FS_Surjection, FS_CardinalityType
<1>5. m.peak \in Int
  <2>1. m.peak = Most(N)
    BY DEF Metrics
  <2>2. CASE N = {}
    BY <2>1, <2>2 DEF Most
  <2>3. CASE N # {}
    <3>1. \A v \in V : v.viewers \in Nat
      BY <1>1 DEF Schema
    <3>2. N \subseteq Int /\ f \in Surjection(V, N)
      BY <3>1 DEF Surjection
    <3> HIDE DEF N, f, V, m
    <3>3. IsFiniteSet(N)
      BY <1>1, <3>2, FS_Surjection
    <3> QED BY <2>1, <2>3, <3>2, <3>3, HighestIs
  <2> QED BY <2>2, <2>3
<1>6. m.average \in Int
  <2>1. m.average = IF V = {} THEN 0 ELSE Tenths(Total(f), Cardinality(V))
    BY DEF Metrics
  <2>2. f \in [V -> Int]
    BY <1>1 DEF Schema
  <2> DEFINE T == SumFunction(f)
             k == Cardinality(V)
  <2>3. Tenths(Total(f), k) = (2 * (10 * T) + k) \div (2 * k)
    BY DEF Tenths, Rounded, Total
  <2> HIDE DEF f, V, m
  <2>4. T \in Int /\ k \in Nat /\ (V # {} => k # 0)
    BY <1>1, <2>2, TotalInt, FS_CardinalityType, FS_EmptySet
  <2>5. V # {} => (2 * (10 * T) + k) \div (2 * k) \in Int
    <3> DEFINE a == 2 * (10 * T) + k
               b == 2 * k
    <3>1. V # {} => a \in Int /\ b \in Nat \ {0}
      BY <2>4
    <3> HIDE DEF a, b
    <3>2. V # {} => a \div b \in Int
      BY <3>1, DivisionBounds
    <3> QED BY <3>2 DEF a, b
  <2> QED BY <2>1, <2>3, <2>5
<1>7. m.average <= 10 * m.peak
  BY SameCounts, MeanBelowPeak
<1> QED
  BY <1>2, <1>3, <1>4, <1>5, <1>6, <1>7

\* The periods of which a channel is mailed.
Told(c) == {k \in Weeks : Recap(db, c, k).lives # {}}

\* The metrics that are told to add up are natural numbers.
LEMMA MetricNat ==
  ASSUME Schema(db), NEW s \in db.streams, NEW key \in {"cents", "messages"}
  PROVE  Metrics(db, s)[key] \in Nat
<1>1. CASE key = "cents"
  BY <1>1, MetricsInt
<1>2. CASE key = "messages"
  BY <1>2, MetricsInt
<1> QED
  BY <1>1, <1>2

\* The same, by the name of each.
LEMMA MetricsTyped ==
  ASSUME Schema(db), NEW S \in SUBSET db.streams
  PROVE  /\ \A s \in S : Metrics(db, s)["cents"] \in Int
         /\ \A s \in S : Metrics(db, s)["messages"] \in Int
<1>1. ASSUME NEW s \in S PROVE \A key \in {"cents", "messages"} : Metrics(db, s)[key] \in Nat
  BY MetricNat
<1> QED
  BY <1>1

\* A summed metric of an email is the sum over its lives.
LEMMA RecapSum ==
  ASSUME Schema(db), NEW c, NEW k, NEW key \in {"cents", "messages"}, OfPeriod(c, k) # {}
  PROVE  LET S == OfPeriod(c, k)
         IN  Recap(db, c, k).totals.metrics[key] = SumFunction([s \in S |-> Metrics(db, s)[key]])
<1> DEFINE S == OfPeriod(c, k)
           lives == PerLive(db, S)
<1>1. IsFiniteSet(S) /\ S \subseteq db.streams
  BY TablesFinite, FS_Subset DEF OfPeriod, PeriodLives, Ready, LivesOf
<1>2. Recap(db, c, k).totals.metrics = Folds(lives)
  <2>1. Recap(db, c, k).totals = Totals(db, S)
    BY RecapIs
  <2>2. Totals(db, S).metrics = Folds(lives)
    BY DEF Totals
  <2> QED BY <2>1, <2>2
<1>3. Folds(lives)[key] = Total([p \in lives |-> p.metrics[key]])
  <2> HIDE DEF lives
  <2>1. /\ Folds(lives)["cents"] = Total([p \in lives |-> p.metrics["cents"]])
        /\ Folds(lives)["messages"] = Total([p \in lives |-> p.metrics["messages"]])
    BY DEF Folds
  <2>2. CASE key = "cents"
    <3>1. [p \in lives |-> p.metrics[key]] = [p \in lives |-> p.metrics["cents"]]
      BY <2>2
    <3> QED BY <2>1, <2>2, <3>1
  <2>3. CASE key = "messages"
    <3>1. [p \in lives |-> p.metrics[key]] = [p \in lives |-> p.metrics["messages"]]
      BY <2>3
    <3> QED BY <2>1, <2>3, <3>1
  <2> QED BY <2>2, <2>3
<1>4. \A s \in S : Metrics(db, s)[key] \in Int
  BY <1>1, MetricNat
<1>5. SumFunction([p \in lives |-> p.metrics[key]]) = SumFunction([s \in S |-> Metrics(db, s)[key]])
  <2> HIDE DEF S
  <2> QED BY <1>1, <1>4, OverPerLive
<1> QED
  BY <1>2, <1>3, <1>5 DEF Total

\* The same, by the name of each.
LEMMA RecapSums ==
  ASSUME Schema(db), NEW c, NEW k, OfPeriod(c, k) # {}
  PROVE  /\ Recap(db, c, k).totals.metrics["cents"] =
              SumFunction([s \in OfPeriod(c, k) |-> Metrics(db, s)["cents"]])
         /\ Recap(db, c, k).totals.metrics["messages"] =
              SumFunction([s \in OfPeriod(c, k) |-> Metrics(db, s)["messages"]])
<1>1. ASSUME NEW key \in {"cents", "messages"}
      PROVE  Recap(db, c, k).totals.metrics[key]
               = SumFunction([s \in OfPeriod(c, k) |-> Metrics(db, s)[key]])
  BY RecapSum
<1> QED
  BY <1>1

\* The emails' sums add up to that over the analysed lives.
LEMMA ToldAddsUp ==
  ASSUME RowsInv, NEW c \in Streamers, NEW key \in {"cents", "messages"}
  PROVE  LET R == Ready(LivesOf(db, c))
         IN  Total([k \in Told(c) |-> Recap(db, c, k).totals.metrics[key]])
               = SumFunction([s \in R |-> Metrics(db, s)[key]])
<1> DEFINE R == Ready(LivesOf(db, c))
           f == [s \in R |-> Metrics(db, s)[key]]
           by == [s \in R |-> PeriodOf(c, s)]
           K == Told(c)
           g == [k \in K |-> Recap(db, c, k).totals.metrics[key]]
<1>1. Schema(db)
  BY RowsOfSchema
<1>2. IsFiniteSet(R) /\ R \subseteq LivesOf(db, c) /\ R \subseteq db.streams
  BY <1>1, TablesFinite, FS_Subset DEF Ready, LivesOf
<1>3. f \in [R -> Int] /\ \A s \in R : f[s] = Metrics(db, s)[key]
  <2>1. \A s \in R : Metrics(db, s)[key] \in Int
    <3> HIDE DEF R
    <3> QED BY <1>1, <1>2, MetricNat
  <2> QED BY <2>1
<1>4. IsFiniteSet(K) /\ K \subseteq Int
  BY WeeksAssumption, FS_Subset DEF Told
<1>5. \A k \in Int : OfPeriod(c, k) = {s \in R : PeriodOf(c, s) = k}
  BY PeriodIs
<1>6. ASSUME NEW s \in R PROVE PeriodOf(c, s) \in K
  <2>1. PeriodOf(c, s) \in Weeks /\ PeriodOf(c, s) \in Int
    BY <1>2, PeriodMailed, WeeksAssumption
  <2>2. s \in OfPeriod(c, PeriodOf(c, s))
    BY <1>5, <2>1
  <2> QED BY <2>1, <2>2, RecapIs DEF Told
<1>7. by \in [R -> K]
  BY <1>6
<1>8. ASSUME NEW k \in K PROVE g[k] = Part(f, {s \in R : by[s] = k})
  <2>1. OfPeriod(c, k) # {}
    BY RecapIs DEF Told
  <2>2. {s \in R : by[s] = k} = OfPeriod(c, k)
    BY <1>4, <1>5
  <2>3. Recap(db, c, k).totals.metrics[key] = SumFunction([s \in OfPeriod(c, k) |-> Metrics(db, s)[key]])
    BY <1>1, <2>1, RecapSum
  <2>4. \A s \in OfPeriod(c, k) : f[s] = Metrics(db, s)[key]
    BY <1>3, <1>4, <1>5
  <2>5. [s \in OfPeriod(c, k) |-> Metrics(db, s)[key]] = [s \in OfPeriod(c, k) |-> f[s]]
    <3> HIDE DEF f
    <3> QED BY <2>4
  <2> HIDE DEF f, by, R, K
  <2> QED BY <2>2, <2>3, <2>5 DEF Part
<1>9. g = [k \in K |-> g[k]]
  OBVIOUS
<1> HIDE DEF R, f, by, K, g
<1>10. SumFunction(f) = SumFunction(g)
  BY <1>2, <1>3, <1>4, <1>7, <1>8, <1>9, TotalByKey
<1> QED
  BY <1>10 DEF R, f, K, g, Total

\* The emails of a channel add up to its finance page and to its growth.
LEMMA ToldAgrees ==
  ASSUME RowsInv, NEW c \in Streamers
  PROVE  /\ Total([k \in Told(c) |-> Recap(db, c, k).totals.metrics["cents"]])
              = FinanceOverview(db, c, 0).money.cents
         /\ Total([k \in Told(c) |-> Recap(db, c, k).totals.metrics["messages"]])
              = SumOf(Growth(db, c), "messages")
<1> DEFINE R == Ready(LivesOf(db, c))
           f == [s \in R |-> Metrics(db, s)["cents"]]
           h == [s \in R |-> Metrics(db, s)["messages"]]
           g == [s \in R |-> Worth(EventsOf({s}))]
           line == [s \in R |-> [live |-> s.id, peak |-> PeakOf(db, s), average |-> Numbers(db, s).average,
                      follows |-> Cardinality(OfType(RowsOf(db, "events", {s}), {"follow"})),
                      messages |-> Cardinality(RowsOf(db, "chat", {s})),
                      cents |-> Worth(Money(RowsOf(db, "events", {s})))]]
           L == Growth(db, c)
<1>1. Schema(db)
  BY RowsOfSchema
<1>2. IsFiniteSet(R) /\ R \in SUBSET db.streams
  BY <1>1, TablesFinite, FS_Subset DEF Ready, LivesOf
<1>3. \A key \in {"cents", "messages"} :
        Total([k \in Told(c) |-> Recap(db, c, k).totals.metrics[key]])
          = SumFunction([s \in R |-> Metrics(db, s)[key]])
  BY ToldAddsUp
<1>4. /\ Total([k \in Told(c) |-> Recap(db, c, k).totals.metrics["cents"]]) = SumFunction(f)
      /\ Total([k \in Told(c) |-> Recap(db, c, k).totals.metrics["messages"]]) = SumFunction(h)
  BY <1>3
<1>5. f = g
  BY <1>1, <1>2, MetricsInt
<1>6. SumFunction(g) = Worth(EventsOf(R))
  <2>1. Worth(EventsOf(R)) = Part(g, R)
    <3> HIDE DEF R
    <3> QED BY <1>1, <1>2, WorthOfLives
  <2>2. SumFunction(g) = Part(g, R)
    BY TotalPart
  <2> QED BY <2>1, <2>2
<1>7. FinanceOverview(db, c, 0).money.cents = Worth(EventsOf(R))
  <2>1. FinanceOverview(db, c, 0).money = Folded(EventsOf(R))
    BY <1>1, OverviewMoney, AllStarted
  <2> HIDE DEF R
  <2> QED BY <2>1 DEF Folded
<1>8. line \in Surjection(R, L)
  BY DEF Growth, Surjection
<1>9. \A s \in R : line[s].live = s.id /\ line[s]["messages"] = Cardinality(RowsOf(db, "chat", {s}))
  OBVIOUS
<1>10. h \in [R -> Int] /\ \A s \in R : line[s]["messages"] = h[s]
  <2>1. \A s \in R : /\ Metrics(db, s).messages \in Nat
                     /\ Metrics(db, s).messages = Cardinality(RowsOf(db, "chat", {s}))
    <3> HIDE DEF R
    <3> QED BY <1>1, <1>2, MetricsInt
  <2> HIDE DEF R, line
  <2>2. h \in [R -> Int]
    <3>1. \A s \in R : Metrics(db, s)["messages"] \in Int
      BY <1>1, <1>2, MetricsTyped
    <3> QED BY ONLY <3>1
  <2>3. \A s \in R : h[s] = Metrics(db, s).messages
    OBVIOUS
  <2> QED BY <1>9, <2>1, <2>2, <2>3
<1> HIDE DEF R, f, g, h, line, L
<1>11. line \in Bijection(R, L)
  <2>1. ASSUME NEW r \in R, NEW s \in R, line[r] = line[s] PROVE r = s
    <3>1. r.id = s.id
      BY <1>9, <2>1
    <3> QED BY <1>1, <1>2, <3>1 DEF Schema
  <2> QED BY <1>8, <2>1 DEF Bijection, Injection, Surjection, IsInjective
<1>12. SumOf(L, "messages") = SumFunction(h)
  BY <1>2, <1>10, <1>11, ColumnSum
<1> QED
  BY <1>4, <1>5, <1>6, <1>7, <1>12 DEF L

\* What is said of a period's lives.
LEMMA PeriodRows ==
  ASSUME Schema(db), NEW c, NEW k
  PROVE  LET S == OfPeriod(c, k)
         IN  IsFiniteSet(S) /\ S \in SUBSET db.streams /\ S \subseteq Ready(LivesOf(db, c))
<1>1. OfPeriod(c, k) \in SUBSET db.streams /\ OfPeriod(c, k) \subseteq Ready(LivesOf(db, c))
  BY DEF OfPeriod, PeriodLives, Ready, LivesOf
<1> QED
  BY <1>1, TablesFinite, FS_Subset

\* A period's money, as its email tells it.
LEMMA RecapCents ==
  ASSUME Schema(db), NEW c, NEW k, OfPeriod(c, k) # {}
  PROVE  Recap(db, c, k).totals.metrics.cents = Worth(EventsOf(OfPeriod(c, k)))
<1> DEFINE S == OfPeriod(c, k)
           g == [s \in S |-> Worth(EventsOf({s}))]
<1>1. S \in SUBSET db.streams
  BY PeriodRows
<1>3. Recap(db, c, k).totals.metrics["cents"] = SumFunction([s \in S |-> Metrics(db, s)["cents"]])
  BY RecapSums
<1>4. [s \in S |-> Metrics(db, s)["cents"]] = g
  <2>1. \A s \in S : Metrics(db, s)["cents"] = Worth(EventsOf({s}))
    BY <1>1, MetricsInt
  <2> HIDE DEF S
  <2> QED BY <2>1
<1>5. Worth(EventsOf(S)) = Part(g, S)
  <2> HIDE DEF S
  <2> QED BY <1>1, WorthOfLives
<1>6. SumFunction(g) = Part(g, S)
  BY TotalPart
<1> QED
  BY <1>3, <1>4, <1>5, <1>6

\* The days of a period hold its money, and are of it.
LEMMA DailyAddsUp ==
  ASSUME RowsInv, NEW c \in Streamers, NEW k \in Int, OfPeriod(c, k) # {}
  PROVE  LET r == Recap(db, c, k)
         IN  /\ r.totals.metrics.cents = Total([d \in DOMAIN r.daily |-> r.daily[d]])
             /\ DOMAIN r.daily \subseteq (k * PeriodDays)..((k + 1) * PeriodDays - 1)
<1> DEFINE S == OfPeriod(c, k)
           lives == PerLive(db, S)
           f == [p \in lives |-> p.metrics["cents"]]
           by == [p \in lives |-> LocalDay(db, c, p.live.start)]
           D == {LocalDay(db, c, p.live.start) : p \in lives}
           daily == DailyCents(db, c, lives)
<1>1. Schema(db) /\ IsFiniteSet(S) /\ S \in SUBSET db.streams /\ S \subseteq Ready(LivesOf(db, c))
  BY RowsOfSchema, PeriodRows
<1>2. Recap(db, c, k).daily = daily
  BY RecapIs
<1>3. Recap(db, c, k).totals.metrics.cents = SumFunction(f)
  <2>2. Recap(db, c, k).totals.metrics["cents"] = SumFunction([s \in S |-> Metrics(db, s)["cents"]])
    BY <1>1, RecapSums
  <2>3. \A s \in S : Metrics(db, s)["cents"] \in Int
    <3> HIDE DEF S
    <3> QED BY <1>1, MetricsTyped
  <2>4. SumFunction(f) = SumFunction([s \in S |-> Metrics(db, s)["cents"]])
    <3> HIDE DEF S
    <3> QED BY <1>1, <2>3, OverPerLive
  <2> QED BY <2>2, <2>4
<1>4. IsFiniteSet(lives) /\ f \in [lives -> Int]
  <2>1. \A s \in S : Metrics(db, s)["cents"] \in Int
    <3> HIDE DEF S
    <3> QED BY <1>1, MetricsTyped
  <2> HIDE DEF S
  <2> QED BY <1>1, <2>1, OverPerLive
<1>5. by \in Surjection(lives, D)
  BY DEF Surjection
<1>6. daily = [d \in D |-> Total([p \in {q \in lives : LocalDay(db, c, q.live.start)
        = d} |-> p.metrics.cents])]
  BY DEF DailyCents
<1>7. ASSUME NEW d \in D PROVE daily[d] = Part(f, {p \in lives : by[p] = d})
  <2> DEFINE P == {q \in lives : LocalDay(db, c, q.live.start) = d}
  <2>1. {p \in lives : by[p] = d} = P
    OBVIOUS
  <2>2. daily[d] = Total([p \in P |-> p.metrics.cents])
    BY <1>6
  <2>3. \A p \in P : p.metrics["cents"] = f[p]
    OBVIOUS
  <2> HIDE DEF daily, f, by, P, lives
  <2>4. [p \in P |-> p.metrics["cents"]] = [p \in P |-> f[p]]
    BY <2>3
  <2> QED BY <2>1, <2>2, <2>4 DEF Total, Part
<1>8. DOMAIN daily = D /\ daily = [d \in D |-> daily[d]]
  BY <1>6
<1>9. ASSUME NEW p \in lives
      PROVE  LocalDay(db, c, p.live.start) \in (k * PeriodDays)..((k + 1) * PeriodDays - 1)
  <2>1. p.live \in S
    BY DEF PerLive
  <2> DEFINE a == p.live.start + ZoneOf(db, c)
             day == a \div DayLength
  <2>2. a \in Int
    BY <1>1, <2>1, ZoneIs DEF Schema
  <2>3. a \div Span = k
    <3>1. OfPeriod(c, k) = {s \in Ready(LivesOf(db, c)) : PeriodOf(c, s) = k}
      BY PeriodIs
    <3> QED BY <2>1, <3>1 DEF PeriodOf
  <2>4. LocalDay(db, c, p.live.start) = day
    BY DEF LocalDay
  <2> HIDE DEF a
  <2>5. Span * k <= a /\ a < Span * k + Span
    BY <2>2, <2>3, SpanIs, DivisionBounds
  <2>6. day \in Int /\ DayLength * day <= a /\ a < DayLength * day + DayLength
    BY <2>2, SpanIs, DivisionBounds
  <2> HIDE DEF day
  <2>7. k * PeriodDays \in Int /\ (k + 1) * PeriodDays \in Int
    BY SpanIs
  <2> DEFINE u == k * PeriodDays
             v == (k + 1) * PeriodDays
  <2>8. Span * k = DayLength * u /\ Span * k + Span = DayLength * v
    BY SpanIs DEF Span
  <2> HIDE DEF u, v
  <2>9. DayLength * u < DayLength * (day + 1) /\ DayLength * day < DayLength * v
    <3>1. DayLength * (day + 1) = DayLength * day + DayLength
      BY <2>6, SpanIs
    <3> QED BY <2>2, <2>5, <2>6, <2>8, <3>1, SpanIs
  <2>10. u < day + 1 /\ day < v
    BY <2>6, <2>7, <2>9, SpanIs DEF u, v
  <2> QED BY <2>4, <2>6, <2>7, <2>10 DEF u, v
<1>10. D \subseteq (k * PeriodDays)..((k + 1) * PeriodDays - 1)
  BY <1>9
<1> HIDE DEF lives, f, by, D, daily
<1>11. IsFiniteSet(D) /\ by \in [lives -> D]
  BY <1>4, <1>5, FS_Surjection DEF Surjection
<1>12. SumFunction(f) = SumFunction(daily)
  BY <1>4, <1>7, <1>8, <1>11, TotalByKey
<1> QED
  BY <1>2, <1>3, <1>8, <1>10, <1>12 DEF Total

\* Some lines of a list bring no more than was brought.
LEMMA ListBelow ==
  ASSUME NEW S, IsFiniteSet(S), NEW f \in [S -> Nat], NEW U \in SUBSET S,
         NEW K, IsFiniteSet(K), NEW key \in [U -> K], NEW L, NEW line \in Bijection(K, L),
         NEW of \in [K -> SUBSET U], \A k \in K, x \in U : x \in of[k] <=> key[x] = k,
         \A k \in K : line[k].cents = Part(f, of[k]), NEW T \in SUBSET L
  PROVE  SumOf(T, "cents") <= Part(f, U)
<1>1. IsFiniteSet(L) /\ (\A r \in L : r.cents \in Int) /\ SumOf(L, "cents") = Part(f, U)
  BY ListAddsUp, Z3
<1> DEFINE h == [r \in L |-> r.cents]
<1>2. \A k \in K : line[k].cents \in Nat
  <2>1. \A k \in K : of[k] \in SUBSET S
    OBVIOUS
  <2>2. \A P \in SUBSET S : Part(f, P) \in Nat
    BY PartNat
  <2> QED BY <2>1, <2>2
<1>3. \A r \in L : r.cents \in Nat
  BY <1>2 DEF Bijection, Surjection
<1>4. h \in [L -> Nat]
  BY <1>3
<1>5. [r \in T |-> r.cents] = [r \in T |-> h[r]]
  OBVIOUS
<1>6. SumOf(L, "cents") = SumFunction(h) /\ SumOf(T, "cents") = Part(h, T)
  BY <1>5 DEF SumOf, Total, Part
<1> HIDE DEF h
<1>7. Part(h, T) <= SumFunction(h)
  BY <1>1, <1>4, TotalSubset
<1> QED
  BY <1>1, <1>6, <1>7

\* Whom the email names paid no more than was paid.
LEMMA PayersWithin ==
  ASSUME Schema(db), NEW E \in SUBSET db.events
  PROVE  SumOf(Payers(E), "cents") <= Worth(E)
<1> DEFINE U == {e \in E : e.login # NoLogin}
           f == Counted("cents")
           key == [e \in U |-> e.login]
           K == Logins(E) \ {NoLogin}
           Line(l) == [login |-> l, cents |-> Worth(SaidBy(l, E))]
           line == [l \in K |-> Line(l)]
           of == [l \in K |-> SaidBy(l, E)]
           L == {Line(l) : l \in K}
           T == Payers(E)
<1>1. IsFiniteSet(db.events) /\ f \in [db.events -> Nat] /\ U \in SUBSET db.events /\ U \in SUBSET E
  BY TablesFinite, CountedNat DEF MoneyKeys
<1>2. IsFiniteSet(K) /\ key \in [U -> K]
  <2>1. key \in Surjection(U, K)
    BY DEF Logins, Surjection
  <2>2. IsFiniteSet(U)
    BY <1>1, FS_Subset
  <2> HIDE DEF key, K, U
  <2> QED BY <2>1, <2>2, FS_Surjection DEF Surjection
<1>3. line \in Bijection(K, L)
  <2>1. \A l \in K : line[l].login = l
    OBVIOUS
  <2>2. \A l \in K : line[l] = Line(l)
    OBVIOUS
  <2> HIDE DEF K, Line
  <2>3. line \in [K -> L] /\ \A r \in L : \E l \in K : line[l] = r
    OBVIOUS
  <2> QED BY <2>1, <2>3 DEF Bijection, Injection, Surjection, IsInjective
<1>4. \A l \in K : line[l].cents = Part(f, of[l])
  <2>1. \A l \in K : SaidBy(l, E) \in SUBSET db.events
    BY DEF SaidBy
  <2>2. \A l \in K : line[l].cents = Worth(SaidBy(l, E)) /\ of[l] = SaidBy(l, E)
    OBVIOUS
  <2> QED BY <2>1, <2>2, WorthIsPart
<1>5. of \in [K -> SUBSET U] /\ \A l \in K, e \in U : e \in of[l] <=> key[e] = l
  BY DEF SaidBy
<1>6. T \in SUBSET L
  BY DEF Payers, Foremost
<1>7. Worth(E) = Part(f, E)
  BY WorthIsPart
<1> HIDE DEF U, f, key, K, Line, line, of, L, T
<1>8. SumOf(T, "cents") <= Part(f, U)
  BY <1>1, <1>2, <1>3, <1>4, <1>5, <1>6, ListBelow, SMTT(60)
<1>9. Part(f, U) <= Part(f, E)
  BY <1>1, PartSubset
<1>10. Part(f, U) \in Nat /\ Part(f, E) \in Nat
  BY <1>1, PartNat
<1>11. SumOf(T, "cents") \in Int
  <2>1. IsFiniteSet(L) /\ \A r \in L : r.cents \in Int
    BY <1>1, <1>2, <1>3, <1>4, <1>5, ListAddsUp, SMTT(60)
  <2>2. IsFiniteSet(T) /\ \A r \in T : r["cents"] \in Int
    BY <1>6, <2>1, FS_Subset
  <2> QED BY <2>2, TotalInt DEF SumOf, Total
<1> QED
  BY <1>7, <1>8, <1>9, <1>10, <1>11 DEF T

\* The categories the email lists brought no more than was brought.
LEMMA ContentWithin ==
  ASSUME Schema(db), NEW S \in SUBSET db.streams
  PROVE  SumOf(ContentRevenue(db, S), "cents") <= Worth(EventsOf(S))
<1> DEFINE U == {s \in S : s.category # NoLogin}
           g == [s \in S |-> Worth(EventsOf({s}))]
           key == [s \in U |-> s.category]
           K == {s.category : s \in S} \ {NoLogin}
           Of(k) == {s \in S : s.category = k}
           Line(k) ==
             LET T == {s \in S : s.category = k}
                 cents == Worth(Money(RowsOf(db, "events", T)))
                 time == Total([s \in T |-> Until(s) - s.start])
             IN  [category |-> k, cents |-> cents, lives |-> Cardinality(T),
                  hourly |-> IF time = 0 THEN 0 ELSE Rounded(cents * 60 * Minute, time),
                  peak |-> Tenths(Total([s \in T |-> PeakOf(db, s)]), Cardinality(T))]
           line == [k \in K |-> Line(k)]
           of == [k \in K |-> Of(k)]
           L == {Line(k) : k \in K}
           T == ContentRevenue(db, S)
<1>1. IsFiniteSet(S) /\ U \in SUBSET S
  BY TablesFinite, FS_Subset
<1>2. IsFiniteSet(K) /\ key \in [U -> K]
  <2>1. key \in Surjection(U, K)
    BY DEF Surjection
  <2>2. IsFiniteSet(U)
    BY <1>1, FS_Subset
  <2> HIDE DEF key, K, U
  <2> QED BY <2>1, <2>2, FS_Surjection DEF Surjection
<1>3. line \in Bijection(K, L)
  <2>1. \A k \in K : line[k].category = k
    OBVIOUS
  <2>2. \A k \in K : line[k] = Line(k)
    OBVIOUS
  <2> HIDE DEF K, Line
  <2>3. line \in [K -> L] /\ \A r \in L : \E k \in K : line[k] = r
    OBVIOUS
  <2> QED BY <2>1, <2>3 DEF Bijection, Injection, Surjection, IsInjective
<1>4. /\ g \in [S -> Nat] /\ g \in [S -> Int]
      /\ \A P \in SUBSET S : Worth(EventsOf(P)) = Part(g, P)
  <2> HIDE DEF U, key, K, Line, line, of, L, T
  <2> QED BY WorthOfLives
<1>5. of \in [K -> SUBSET U] /\ \A k \in K, s \in U : s \in of[k] <=> key[s] = k
  OBVIOUS
<1>6. \A k \in K : line[k].cents = Part(g, of[k])
  <2>1. \A k \in K : line[k].cents = Worth(EventsOf(Of(k)))
    BY DEF EventsOf
  <2>2. \A k \in K : of[k] = Of(k) /\ Of(k) \in SUBSET S
    OBVIOUS
  <2> HIDE DEF g, line, of, Of, K
  <2> QED BY <1>4, <2>1, <2>2
<1>7. T \in SUBSET L
  BY DEF ContentRevenue, Foremost
<1> HIDE DEF U, g, key, K, Of, Line, line, of, L, T
<1>8. SumOf(T, "cents") <= Part(g, U)
  BY <1>1, <1>2, <1>3, <1>4, <1>5, <1>6, <1>7, ListBelow, SMTT(60)
<1>9. Part(g, U) <= Part(g, S)
  BY <1>1, <1>4, PartSubset
<1>10. Part(g, U) \in Nat /\ Part(g, S) \in Nat
  BY <1>1, <1>4, PartNat
<1>11. SumOf(T, "cents") \in Int
  <2>1. IsFiniteSet(L) /\ \A r \in L : r.cents \in Int
    BY <1>1, <1>2, <1>3, <1>4, <1>5, <1>6, ListAddsUp, SMTT(60)
  <2>2. IsFiniteSet(T) /\ \A r \in T : r["cents"] \in Int
    BY <1>7, <2>1, FS_Subset
  <2> QED BY <2>2, TotalInt DEF SumOf, Total
<1> QED
  BY <1>4, <1>8, <1>9, <1>10, <1>11 DEF T

\* A whale is one of those who are said to have paid.
LEMMA WhaleOfPayers ==
  ASSUME NEW c, NEW r, NEW f \in RecapFacts(db, c, r), f.fact = "whale"
  PROVE  f.login \in {p.login : p \in r.payers}
<1>1. \A F, average, g : g \in Efficiency(F, average) => g.fact = "category"
  BY DEF Efficiency
<1>2. \A F, g : (g \in Contrast("time", F) => g.fact = "time")
        /\ (g \in Contrast("talk", F) => g.fact = "talk")
  BY DEF Contrast
<1>3. \A cents, g : g \in Whale(cents, r.payers) => g.login \in {p.login : p \in r.payers}
  BY DEF Whale
<1>4. f \in Whale(r.totals.metrics.cents, r.payers)
  BY <1>1, <1>2 DEF RecapFacts
<1> QED
  BY <1>3, <1>4

\* A live's chatters are among those of the period, where its chat is.
LEMMA ChattersWithin ==
  ASSUME Schema(db), NEW S \in SUBSET db.streams, NEW s \in S,
         RowsOf(db, "chat", {s}) \subseteq PeriodChat(db, S)
  PROVE  Metrics(db, s).chatters <= Totals(db, S).chatters
<1>1. PeriodChat(db, S) \in SUBSET db.chat
  BY DEF PeriodChat, During, RowsOf
<1>2. IsFiniteSet(PeriodChat(db, S))
  BY <1>1, TablesFinite, FS_Subset
<1>3. Metrics(db, s).chatters = Cardinality(Authors(RowsOf(db, "chat", {s})))
  BY DEF Metrics
<1>4. Totals(db, S).chatters = Cardinality(Authors(PeriodChat(db, S)))
  BY DEF Totals
<1>5. Cardinality(Authors(RowsOf(db, "chat", {s}))) <= Cardinality(Authors(PeriodChat(db, S)))
  <2> DEFINE N == RowsOf(db, "chat", {s})
             M == PeriodChat(db, S)
  <2>1. N \in SUBSET M
    OBVIOUS
  <2> HIDE DEF N, M
  <2> QED BY <1>2, <2>1, FewerAuthors DEF M, N
<1> QED
  BY <1>3, <1>4, <1>5

\* The people of a period are no more than its lives' together.
LEMMA ChattersOfLives ==
  ASSUME Schema(db), NEW S \in SUBSET db.streams
  PROVE  Totals(db, S).chatters <= Total([p \in PerLive(db, S) |-> p.metrics.chatters])
<1> DEFINE M == PeriodChat(db, S)
           F == [s \in S |-> Authors(RowsOf(db, "chat", {s}))]
           g == [s \in S |-> Cardinality(F[s])]
           U == UNION {F[s] : s \in S}
<1>1. IsFiniteSet(S)
  BY TablesFinite, FS_Subset
<1>2. ASSUME NEW s \in S PROVE IsFiniteSet(F[s])
  <2> DEFINE N == RowsOf(db, "chat", {s})
             by == [m \in N |-> m.author]
  <2>1. by \in Surjection(N, Authors(N))
    BY DEF Surjection, Authors
  <2>2. IsFiniteSet(N)
    BY RowsAreRows
  <2>3. F[s] = Authors(N)
    OBVIOUS
  <2> HIDE DEF N, by, F
  <2> QED BY <2>1, <2>2, <2>3, FS_Surjection
<1>3. Authors(M) \in SUBSET U
  <2>1. ASSUME NEW m \in M PROVE m.author \in U
    <3>1. m \in RowsOf(db, "chat", S)
      BY DEF PeriodChat, During
    <3>2. PICK s \in S : m \in RowsOf(db, "chat", {s})
      BY <3>1 DEF RowsOf
    <3>3. m.author \in F[s]
      BY <3>2 DEF Authors
    <3> QED BY <3>3
  <2> HIDE DEF M, U
  <2> QED BY <2>1 DEF Authors
<1>4. IsFiniteSet(U)
  <2>1. \A T \in {F[s] : s \in S} : IsFiniteSet(T)
    BY <1>2
  <2>2. F \in Surjection(S, {F[s] : s \in S})
    BY DEF Surjection
  <2>3. IsFiniteSet({F[s] : s \in S})
    BY <1>1, <2>2, FS_Surjection
  <2> QED BY <2>1, <2>3, FS_UNION
<1>5. \A s \in S : Metrics(db, s)["chatters"] \in Int /\ Metrics(db, s)["chatters"] = g[s]
  <2>1. \A s \in S : Metrics(db, s).chatters \in Nat
          /\ Metrics(db, s).chatters = Cardinality(Authors(RowsOf(db, "chat", {s})))
    BY MetricsInt
  <2> QED BY <2>1
<1>6. Total([p \in PerLive(db, S) |-> p.metrics.chatters])
        = SumFunction([s \in S |-> Metrics(db, s)["chatters"]])
  <2>1. SumFunction([p \in PerLive(db, S) |-> p.metrics["chatters"]])
          = SumFunction([s \in S |-> Metrics(db, s)["chatters"]])
    <3>1. \A s \in S : Metrics(db, s)["chatters"] \in Int
      BY <1>5
    <3> HIDE DEF M, F, g, U
    <3> QED BY <1>1, <3>1, OverPerLive
  <2> QED BY <2>1 DEF Total
<1>7. [s \in S |-> Metrics(db, s)["chatters"]] = g
  <2> HIDE DEF g
  <2>1. [s \in S |-> Metrics(db, s)["chatters"]] = [s \in S |-> g[s]]
    BY <1>5
  <2>2. g = [s \in S |-> g[s]]
    BY DEF g
  <2> QED BY <2>1, <2>2
<1>8. Cardinality(U) <= SumFunction(g)
  <2>1. g = [s \in S |-> Cardinality(F[s])]
    OBVIOUS
  <2> HIDE DEF g, F
  <2> QED BY <1>1, <1>2, <2>1, CountOfUnion
<1>9. Cardinality(Authors(M)) <= Cardinality(U) /\ Cardinality(Authors(M)) \in Nat /\ Cardinality(U) \in Nat
  <2> HIDE DEF M, U
  <2> QED BY <1>3, <1>4, FS_Subset, FS_CardinalityType
<1>10. SumFunction(g) \in Int
  <2>1. g \in [S -> Int]
    BY <1>2, FS_CardinalityType
  <2> HIDE DEF g
  <2> QED BY <1>1, <2>1, TotalInt
<1>11. Totals(db, S).chatters = Cardinality(Authors(M))
  BY DEF Totals
<1> HIDE DEF M, F, g, U
<1> QED
  BY <1>6, <1>7, <1>8, <1>9, <1>10, <1>11

\* Nobody was on more lives than there were.
LEMMA EngagedWithin ==
  ASSUME Schema(db), NEW S \in SUBSET db.streams, NEW E, NEW e \in Engaged(db, S, E)
  PROVE  e.lives <= Cardinality(S)
<1> DEFINE said == PeriodChat(db, S)
           On(l) == {m.live : m \in SaidBy(l, said)}
           ids == {s.id : s \in S}
           id == [s \in S |-> s.id]
<1>1. PICK l : e.lives = Cardinality(On(l))
  <2>1. \A l : On(l) = {m.live : m \in SaidBy(l, said)}
    OBVIOUS
  <2>2. \E l : e.lives = Cardinality({m.live : m \in SaidBy(l, said)})
    <3> DEFINE Line(l) == [login |-> l, lives |-> Cardinality({m.live : m \in SaidBy(l, said)}),
                           messages |-> Cardinality(SaidBy(l, said)), cents |-> Worth(SaidBy(l, E))]
    <3>1. e \in {Line(l) : l \in Logins(said)}
      BY DEF Engaged, Foremost
    <3>2. \A l : Line(l).lives = Cardinality({m.live : m \in SaidBy(l, said)})
      OBVIOUS
    <3> HIDE DEF Line
    <3> QED BY <3>1, <3>2
  <2> HIDE DEF On, said
  <2> QED BY <2>1, <2>2
<1>2. On(l) \subseteq ids
  BY DEF SaidBy, PeriodChat, During, RowsOf
<1>3. IsFiniteSet(S) /\ id \in Surjection(S, ids)
  BY TablesFinite, FS_Subset DEF Surjection
<1> HIDE DEF On, ids, id
<1>4. IsFiniteSet(ids) /\ Cardinality(ids) <= Cardinality(S)
  BY <1>3, FS_Surjection
<1>5. Cardinality(On(l)) <= Cardinality(ids) /\ Cardinality(On(l)) \in Nat
  BY <1>2, <1>4, FS_Subset, FS_CardinalityType
<1> QED
  BY <1>1, <1>3, <1>4, <1>5, FS_CardinalityType

\* The mean of the lives' means is not above the highest peak.
LEMMA MeanOfMeans ==
  ASSUME Schema(db), NEW S \in SUBSET db.streams, S # {}
  PROVE  Totals(db, S).metrics.average <= 10 * Totals(db, S).metrics.peak
<1> DEFINE lives == PerLive(db, S)
           N == {p.metrics.peak : p \in lives}
           M == Most(N)
           f == [p \in lives |-> p.metrics["average"]]
           T == SumFunction(f)
           k == Cardinality(lives)
           peak == [p \in lives |-> p.metrics.peak]
<1>1. IsFiniteSet(S)
  BY TablesFinite, FS_Subset
<1>2. \A s \in S : /\ Metrics(db, s).average \in Int /\ Metrics(db, s).peak \in Int
                   /\ Metrics(db, s).average <= 10 * Metrics(db, s).peak
  BY MetricsInt
<1>3. IsFiniteSet(lives) /\ f \in [lives -> Int]
  <2>1. \A s \in S : Metrics(db, s)["average"] \in Int
    BY <1>2
  <2> QED BY <1>1, <2>1, OverPerLive
<1>4. \A p \in lives : p.metrics.average \in Int /\ p.metrics.peak \in Int
        /\ p.metrics.average <= 10 * p.metrics.peak
  BY <1>2 DEF PerLive
<1>5. lives # {}
  BY DEF PerLive
<1>6. Totals(db, S).metrics.average = (2 * T + k) \div (2 * k) /\ Totals(db, S).metrics.peak = M
  BY DEF Totals, Folds, Rounded, Total
<1>7. \A p \in lives : f[p] = p.metrics.average
  OBVIOUS
<1>8. N # {} /\ N \subseteq Int /\ peak \in Surjection(lives, N)
  BY <1>4, <1>5 DEF Surjection
<1>9. \A p \in lives : p.metrics.peak \in N
  OBVIOUS
<1> HIDE DEF lives, N, f, peak
<1>10. IsFiniteSet(N)
  BY <1>3, <1>8, FS_Surjection
<1>11. M \in Int /\ \A p \in lives : p.metrics.peak <= M
  BY <1>8, <1>9, <1>10, HighestIs
<1> HIDE DEF M
<1>12. \A p \in lives : f[p] <= 10 * M
  BY <1>4, <1>7, <1>11
<1>13. T <= (10 * M) * k /\ T \in Int
  <2>1. 10 * M \in Int
    BY <1>11
  <2> QED BY <1>3, <1>12, <2>1, TotalBounded, TotalInt
<1>14. k \in Nat /\ k # 0
  BY <1>3, <1>5, FS_CardinalityType, FS_EmptySet
<1> HIDE DEF T, k
<1>15. 2 * T + k < (2 * k) * (10 * M + 1)
  <2>1. (2 * k) * (10 * M + 1) = 2 * ((10 * M) * k) + 2 * k
    BY <1>11, <1>14
  <2>2. (10 * M) * k \in Int
    BY <1>11, <1>14
  <2> DEFINE q == (10 * M) * k
  <2> HIDE DEF q
  <2>3. T <= q /\ q \in Int /\ (2 * k) * (10 * M + 1) = 2 * q + 2 * k
    BY <1>13, <2>1, <2>2 DEF q
  <2> QED BY <1>13, <1>14, <2>3
<1>16. (2 * T + k) \div (2 * k) <= 10 * M
  <2> DEFINE a == 2 * T + k
             b == 2 * k
             n == 10 * M
  <2>1. a \in Int /\ b \in Nat \ {0} /\ n \in Int /\ a < b * (n + 1)
    BY <1>11, <1>13, <1>14, <1>15
  <2> HIDE DEF a, b, n
  <2>2. a \div b <= n
    BY <2>1, DivisionBelow
  <2> QED BY <2>2 DEF a, b, n
<1> QED
  BY <1>6, <1>16

\* What the email of one period says agrees with its lives.
LEMMA RecapOfPeriod ==
  ASSUME RowsInv, NEW c \in Streamers, NEW k \in Told(c)
  PROVE  LET r == Recap(db, c, k)
             cents == r.totals.metrics.cents
         IN  /\ cents = Total([d \in DOMAIN r.daily |-> r.daily[d]])
             /\ DOMAIN r.daily \subseteq (k * PeriodDays)..((k + 1) * PeriodDays - 1)
             /\ SumOf(r.payers, "cents") <= cents
             /\ SumOf(r.content, "cents") <= cents
             /\ \A p \in r.lives :
                  RowsOf(db, "chat", {p.live}) \subseteq PeriodChat(db, {q.live : q \in r.lives}) =>
                    p.metrics.chatters <= r.totals.chatters
             /\ r.totals.chatters <= Total([p \in r.lives |-> p.metrics.chatters])
             /\ r.totals.metrics.average <= 10 * r.totals.metrics.peak
             /\ \A e \in r.engaged : e.lives <= Cardinality(r.lives)
             /\ \A f \in RecapFacts(db, c, r) : f.fact = "whale" =>
                  f.login \in {p.login : p \in r.payers}
<1> DEFINE S == OfPeriod(c, k)
           r == Recap(db, c, k)
           E == EventsOf(S)
<1>1. Schema(db) /\ k \in Int /\ S # {}
  BY RowsOfSchema, RecapIs, WeeksAssumption DEF Told
<1>2. IsFiniteSet(S) /\ S \in SUBSET db.streams
  BY <1>1, PeriodRows
<1>3. /\ r.lives = PerLive(db, S) /\ r.totals = Totals(db, S)
      /\ r.payers = Payers(E) /\ r.content = ContentRevenue(db, S) /\ r.engaged = Engaged(db, S, E)
  BY <1>1, RecapIs
<1>4. /\ r.totals.metrics.cents = Total([d \in DOMAIN r.daily |-> r.daily[d]])
      /\ DOMAIN r.daily \subseteq (k * PeriodDays)..((k + 1) * PeriodDays - 1)
  BY <1>1, DailyAddsUp
<1>5. r.totals.metrics.cents = Worth(E)
  BY <1>1, RecapCents
<1>6. E \in SUBSET db.events
  BY DEF EventsOf, Money, RowsOf
<1>7. \A f \in RecapFacts(db, c, r) : f.fact = "whale" => f.login \in {p.login : p \in r.payers}
  BY WhaleOfPayers
<1>8. {q.live : q \in PerLive(db, S)} = S
  <2> DEFINE Line(s) == [live |-> s, metrics |-> Metrics(db, s)]
             L == {Line(s) : s \in S}
  <2>1. PerLive(db, S) = L
    BY DEF PerLive
  <2>2. \A s : Line(s).live = s
    OBVIOUS
  <2> HIDE DEF S, Line
  <2>3. \A s \in S : Line(s) \in L
    OBVIOUS
  <2>4. \A q \in L : \E s \in S : q = Line(s)
    OBVIOUS
  <2> HIDE DEF L
  <2>5. \A s \in S : \E q \in L : q.live = s
    BY <2>2, <2>3
  <2>6. \A q \in L : q.live \in S
    BY <2>2, <2>4
  <2>7. {q.live : q \in L} = S
    BY <2>5, <2>6
  <2> QED BY <2>1, <2>7
<1>9. \A p \in PerLive(db, S) : p.live \in S /\ p.metrics = Metrics(db, p.live)
  BY DEF PerLive
<1>10. Cardinality(PerLive(db, S)) = Cardinality(S)
  <2>1. \A s \in S : Metrics(db, s)["cents"] \in Int
    BY <1>1, <1>2, MetricsTyped
  <2> HIDE DEF S
  <2> QED BY <1>2, <2>1, OverPerLive
<1> HIDE DEF S, r, E
<1>11. SumOf(r.payers, "cents") <= r.totals.metrics.cents
  BY <1>1, <1>3, <1>5, <1>6, PayersWithin
<1>12. SumOf(r.content, "cents") <= r.totals.metrics.cents
  BY <1>1, <1>2, <1>3, <1>5, ContentWithin DEF E
<1>13. \A p \in r.lives :
         RowsOf(db, "chat", {p.live}) \subseteq PeriodChat(db, {q.live : q \in r.lives}) =>
           p.metrics.chatters <= r.totals.chatters
  <2> SUFFICES ASSUME NEW p \in PerLive(db, S), RowsOf(db, "chat", {p.live}) \subseteq PeriodChat(db, S)
               PROVE  p.metrics.chatters <= Totals(db, S).chatters
    BY <1>3, <1>8
  <2> QED BY <1>1, <1>2, <1>9, ChattersWithin
<1>14. r.totals.chatters <= Total([p \in r.lives |-> p.metrics.chatters])
  BY <1>1, <1>2, <1>3, ChattersOfLives
<1>15. r.totals.metrics.average <= 10 * r.totals.metrics.peak
  BY <1>1, <1>2, <1>3, MeanOfMeans
<1>16. \A e \in r.engaged : e.lives <= Cardinality(r.lives)
  BY <1>1, <1>2, <1>3, <1>10, EngagedWithin
<1> QED
  BY <1>4, <1>7, <1>11, <1>12, <1>13, <1>14, <1>15, <1>16 DEF r

\* In every state the emails of a channel tell what its pages tell.
THEOREM RecapsTrue == ScreensSpec => []RecapAgrees
<1>1. RowsInv => RecapAgrees
  <2> SUFFICES ASSUME RowsInv PROVE RecapAgrees
    OBVIOUS
  <2>1. \A c \in Streamers :
          /\ Total([k \in Told(c) |-> Recap(db, c, k).totals.metrics["cents"]])
               = FinanceOverview(db, c, 0).money.cents
          /\ Total([k \in Told(c) |-> Recap(db, c, k).totals.metrics["messages"]])
               = SumOf(Growth(db, c), "messages")
    BY ToldAgrees
  <2> QED BY <2>1, RecapOfPeriod DEF RecapAgrees, Told
<1> QED
  BY <1>1, RowsAlways, PTL
===========================================================================
