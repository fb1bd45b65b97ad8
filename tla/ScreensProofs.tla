-------------------------- MODULE ScreensProofs ---------------------------
(***************************************************************************)
(* The tables, the money of the pages and whom they are of: proofs about   *)
(* Screens, for any tables the schema allows, stored in any order the      *)
(* pipeline allows.                                                        *)
(***************************************************************************)
EXTENDS Screens, SumTheorems

---------------------------------------------------------------------------
(* What is stored satisfies the schema at any time (RowsInv): a row is     *)
(* stored after what it refers to, under a key of its own, and steps change *)
(* no column but the four that people may change.                          *)

(* The rows. *)

\* The tables named by the pages are tables.
LEMMA TableNames ==
  /\ {"channels", "streams", "insights", "clips", "segments", "samples", "peaks", "events",
      "chat", "records", "tips"} \subseteq Tables
  /\ OfBoth \subseteq Tables /\ LiveOnly \subseteq Tables /\ Findings \subseteq Tables
  /\ Captured \subseteq Tables /\ OfChannels \subseteq Tables
  /\ DOMAIN Columns = {"channels", "streams", "insights", "clips"} /\ DOMAIN Changing = DOMAIN Columns
  BY DEF Tables, OfBoth, LiveOnly, Findings, Captured, OfChannels, Columns, Changing

\* A row stored has the columns of its table, and of a row of world the values that
\* do not change.
LEMMA RowColumns ==
  ASSUME RowsInv, NEW t \in DOMAIN Columns, NEW r \in db[t]
  PROVE  /\ DOMAIN r = Columns[t]
         /\ \E w \in world[t] : DOMAIN w = Columns[t] /\ \A f \in Columns[t] \ {Changing[t]} : r[f] = w[f]
<1>1. world \in Worlds /\ FromWorld /\ t \in Tables
  BY TableNames DEF RowsInv
<1>2. PICK w \in world[t] : DOMAIN r = DOMAIN w /\ \A f \in DOMAIN w \ {Changing[t]} : r[f] = w[f]
  BY <1>1 DEF FromWorld
<1>3. DOMAIN w = Columns[t]
  BY <1>1, WorldsAssumption DEF Schema
<1> QED
  BY <1>2, <1>3

\* A live's columns other than its stage are those of the world's row.
LEMMA StreamRow ==
  ASSUME RowsInv, NEW s \in db.streams
  PROVE  /\ DOMAIN s = {"id", "channel", "start", "end", "stage", "category"}
         /\ \E w \in world.streams : /\ w.id = s.id /\ w.channel = s.channel /\ w.start = s.start
                                     /\ w.end = s.end /\ w.category = s.category
<1>1. /\ Columns["streams"] = {"id", "channel", "start", "end", "stage", "category"}
      /\ Changing["streams"] = "stage" /\ "streams" \in DOMAIN Columns
  BY DEF Columns, Changing
<1>2. \A t \in DOMAIN Columns : \A r \in db[t] :
        /\ DOMAIN r = Columns[t]
        /\ \E w \in world[t] : \A f \in Columns[t] \ {Changing[t]} : r[f] = w[f]
  BY RowColumns
<1>3. /\ DOMAIN s = Columns["streams"]
      /\ \E w \in world.streams : \A f \in Columns["streams"] \ {Changing["streams"]} : s[f] = w[f]
  BY <1>1, <1>2
<1> QED
  BY <1>1, <1>3

\* An insight's columns other than its feedback are those of the world's row.
LEMMA InsightRow ==
  ASSUME RowsInv, NEW i \in db.insights
  PROVE  /\ DOMAIN i = {"id", "live", "type", "name", "messages", "segments", "peak", "feedback"}
         /\ \E w \in world.insights : /\ w.id = i.id /\ w.live = i.live /\ w.segments = i.segments
<1>1. /\ Columns["insights"] = {"id", "live", "type", "name", "messages", "segments", "peak", "feedback"}
      /\ Changing["insights"] = "feedback" /\ "insights" \in DOMAIN Columns
  BY DEF Columns, Changing
<1>2. \A t \in DOMAIN Columns : \A r \in db[t] :
        /\ DOMAIN r = Columns[t]
        /\ \E w \in world[t] : \A f \in Columns[t] \ {Changing[t]} : r[f] = w[f]
  BY RowColumns
<1>3. /\ DOMAIN i = Columns["insights"]
      /\ \E w \in world.insights : \A f \in Columns["insights"] \ {Changing["insights"]} : i[f] = w[f]
  BY <1>1, <1>2
<1> QED
  BY <1>1, <1>3

\* A clip's columns other than the streamer's choice are those of the world's row.
LEMMA ClipRow ==
  ASSUME RowsInv, NEW k \in db.clips
  PROVE  DOMAIN k = {"id", "live", "channel", "at", "kept"}
  BY RowColumns, TableNames DEF Columns, Changing

\* A channel's columns other than its zone are those of the world's row.
LEMMA ChannelRow ==
  ASSUME RowsInv, NEW h \in db.channels
  PROVE  DOMAIN h = {"channel", "zone", "total"}
  BY RowColumns, TableNames DEF Columns, Changing

\* Rows of world, and rows changed where they may be, are of world.
LEMMA FromWorldKept ==
  ASSUME FromWorld, world' = world,
         \A t \in Tables : \A r \in db'[t] :
           \/ r \in db[t] \/ r \in world[t]
           \/ t \in DOMAIN Changing /\ \E q \in db[t] :
                DOMAIN r = DOMAIN q /\ \A f \in DOMAIN q \ {Changing[t]} : r[f] = q[f]
  PROVE  FromWorld'
<1>1. \A t \in Tables \ DOMAIN Changing : db'[t] \subseteq world[t]
  BY DEF FromWorld
<1>2. ASSUME NEW t \in DOMAIN Changing, NEW r \in db'[t]
      PROVE  \E w \in world[t] : DOMAIN r = DOMAIN w /\ \A f \in DOMAIN w \ {Changing[t]} : r[f] = w[f]
  <2>1. CASE r \in db[t]
    BY <2>1 DEF FromWorld
  <2>2. CASE r \in world[t]
    BY <2>2
  <2>3. CASE \E q \in db[t] : DOMAIN r = DOMAIN q /\ \A f \in DOMAIN q \ {Changing[t]} : r[f] = q[f]
    <3>1. PICK q \in db[t] : DOMAIN r = DOMAIN q /\ \A f \in DOMAIN q \ {Changing[t]} : r[f] = q[f]
      BY <2>3
    <3>2. PICK w \in world[t] : DOMAIN q = DOMAIN w /\ \A f \in DOMAIN w \ {Changing[t]} : q[f] = w[f]
      BY DEF FromWorld
    <3>3. DOMAIN r = DOMAIN w /\ \A f \in DOMAIN w \ {Changing[t]} : r[f] = w[f]
      BY <3>1, <3>2
    <3> QED BY <3>3
  <2> QED BY <2>1, <2>2, <2>3, TableNames
<1> QED
  BY <1>1, <1>2 DEF FromWorld

\* No row loses its live.
LEMMA LiveStoredKept ==
  ASSUME LiveStored, \A s \in db.streams : \E r \in db'.streams : r.id = s.id,
         \A t \in OfBoth \cup LiveOnly : \A r \in db'[t] :
           \/ \E q \in db[t] : q.live = r.live
           \/ \E s \in db'.streams : s.id = r.live
  PROVE  LiveStored'
<1> SUFFICES ASSUME NEW t \in OfBoth \cup LiveOnly, NEW r \in db'[t]
             PROVE  \E s \in db'.streams : s.id = r.live
  BY DEF LiveStored, OfBoth, LiveOnly, Captured, Findings
<1>1. CASE \E q \in db[t] : q.live = r.live
  BY <1>1 DEF LiveStored
<1> QED
  BY <1>1

\* A change that leaves lives, channels and insights alone.
LEMMA RowInserted ==
  ASSUME RowsInv, world' = world, NEW t \in Tables \ {"channels", "streams", "insights"},
         NEW r \in world[t], InsertRows(t, {r}),
         t \in OfBoth \cup LiveOnly => \E s \in db.streams : s.id = r.live
  PROVE  RowsInv'
<1>1. DOMAIN db = Tables
  BY DEF RowsInv
<1>2. /\ DOMAIN db' = Tables /\ db'[t] = db[t] \cup {r}
      /\ \A u \in Tables \ {t} : db'[u] = db[u]
  BY <1>1 DEF InsertRows
<1>3. db'.channels = db.channels /\ db'.streams = db.streams /\ db'.insights = db.insights
  BY <1>2, TableNames
<1>4. FromWorld'
  <2>1. FromWorld
    BY DEF RowsInv
  <2>2. \A u \in Tables : \A q \in db'[u] : q \in db[u] \/ q \in world[u]
    BY <1>2
  <2> QED BY <2>1, <2>2, FromWorldKept
<1>5. LiveStored'
  <2>1. LiveStored
    BY DEF RowsInv
  <2>2. \A u \in OfBoth \cup LiveOnly : \A q \in db'[u] : q \in db[u] \/ (u = t /\ q = r)
    BY <1>2, TableNames
  <2>3. \A s \in db.streams : \E q \in db'.streams : q.id = s.id
    BY <1>3
  <2>4. \A u \in OfBoth \cup LiveOnly : \A q \in db'[u] :
          (\E p \in db[u] : p.live = q.live) \/ (\E s \in db'.streams : s.id = q.live)
    BY <1>3, <2>2
  <2> QED BY <2>1, <2>3, <2>4, LiveStoredKept
<1>6. \A u \in Tables : IsFiniteSet(db'[u])
  <2>1. IsFiniteSet(db[t] \cup {r})
    BY FS_AddElement DEF RowsInv
  <2> QED BY <1>2, <2>1 DEF RowsInv
<1>7. OneRow'
  BY <1>3 DEF RowsInv, OneRow
<1> QED
  BY <1>2, <1>3, <1>4, <1>5, <1>6, <1>7 DEF RowsInv, Streamers

\* A captured row is stored beside the row of its live.
LEMMA StoreCapturedKeeps == ASSUME RowsInv, StoreCaptured PROVE RowsInv'
<1>1. PICK t \in Captured : \E r \in world[t] \ db[t] :
        /\ \E s \in db.streams : s.id = r.live
        /\ InsertRows(t, {r})
  BY DEF StoreCaptured
<1>2. t \in Tables \ {"channels", "streams", "insights"}
  BY DEF Captured, Tables
<1> QED
  BY <1>1, <1>2, RowInserted DEF StoreCaptured

\* A row of the channel is stored.
LEMMA StoreSyncedKeeps == ASSUME RowsInv, StoreSynced PROVE RowsInv'
<1>1. PICK t \in OfChannels : \E r \in world[t] \ db[t] : InsertRows(t, {r})
  BY DEF StoreSynced
<1>2. t \in Tables \ {"channels", "streams", "insights"} /\ t \notin OfBoth \cup LiveOnly
  BY DEF OfChannels, Tables, OfBoth, LiveOnly, Captured, Findings
<1> QED
  BY <1>1, <1>2, RowInserted DEF StoreSynced

\* A new live is stored under an id of its own.
LEMMA StoreLiveKeeps == ASSUME RowsInv, StoreLive PROVE RowsInv'
<1>1. PICK s \in world.streams : s.id \notin {r.id : r \in db.streams} /\ InsertRows("streams", {s})
  BY DEF StoreLive
<1> world' = world
  BY DEF StoreLive
<1>2. /\ DOMAIN db' = Tables /\ db'.streams = db.streams \cup {s}
      /\ \A u \in Tables \ {"streams"} : db'[u] = db[u]
  BY <1>1, TableNames DEF InsertRows, RowsInv
<1>3. db'.channels = db.channels /\ db'.insights = db.insights
  BY <1>2, TableNames
<1>4. FromWorld'
  <2>1. FromWorld
    BY DEF RowsInv
  <2>2. \A u \in Tables : \A q \in db'[u] : q \in db[u] \/ q \in world[u]
    BY <1>2
  <2> QED BY <2>1, <2>2, FromWorldKept
<1>5. LiveStored'
  <2>1. LiveStored
    BY DEF RowsInv
  <2>2. \A u \in OfBoth \cup LiveOnly : db'[u] = db[u]
    BY <1>2, TableNames DEF OfBoth, LiveOnly, Captured, Findings
  <2>3. \A r \in db.streams : \E q \in db'.streams : q.id = r.id
    BY <1>2
  <2>4. \A u \in OfBoth \cup LiveOnly : \A q \in db'[u] : \E p \in db[u] : p.live = q.live
    BY <2>2
  <2> QED BY <2>1, <2>3, <2>4, LiveStoredKept
<1>6. \A u \in Tables : IsFiniteSet(db'[u])
  <2>1. IsFiniteSet(db.streams \cup {s})
    BY FS_AddElement, TableNames DEF RowsInv
  <2> QED BY <1>2, <2>1 DEF RowsInv
<1>7. OneRow'
  BY <1>1, <1>2, <1>3 DEF RowsInv, OneRow
<1>8. \A i \in db'.insights, q \in db'.streams : q.id = i.live => q.stage = "ready"
  <2> SUFFICES ASSUME NEW i \in db.insights, NEW q \in db'.streams, q.id = i.live PROVE q.stage = "ready"
    BY <1>3
  <2>1. PICK r \in db.streams : r.id = i.live
    BY TableNames DEF RowsInv, LiveStored, LiveOnly
  <2>2. q # s
    BY <1>1, <2>1
  <2> QED BY <1>2, <2>2 DEF RowsInv
<1> QED
  BY <1>2, <1>3, <1>4, <1>5, <1>6, <1>7, <1>8 DEF RowsInv, Streamers

\* A row changed where it may be takes the place of the row.
LEMMA RowChanged ==
  ASSUME RowsInv, NEW t \in {"clips", "insights", "channels"}, NEW q \in db[t], NEW r,
         NEW v, r = [q EXCEPT ![Changing[t]] = v], world' = world,
         db' = [db EXCEPT ![t] = (@ \ {q}) \cup {r}],
         t = "channels" => v \in Zones(world)
  PROVE  RowsInv'
<1>1. t \in Tables /\ t \in DOMAIN Columns /\ Changing[t] \in Columns[t]
  BY TableNames DEF Columns, Changing
<1>2. /\ DOMAIN db' = Tables /\ db'[t] = (db[t] \ {q}) \cup {r}
      /\ \A u \in Tables \ {t} : db'[u] = db[u]
  BY <1>1 DEF RowsInv
<1>3. DOMAIN q = Columns[t]
  BY <1>1, RowColumns
<1>4. /\ DOMAIN r = DOMAIN q /\ \A g \in DOMAIN q \ {Changing[t]} : r[g] = q[g]
      /\ r[Changing[t]] = v
  BY <1>1, <1>3
<1>5. db'.streams = db.streams
  BY <1>2, TableNames
<1>6. FromWorld'
  <2>1. FromWorld
    BY DEF RowsInv
  <2>2. DOMAIN r = DOMAIN q /\ \A g \in DOMAIN q \ {Changing[t]} : r[g] = q[g]
    BY <1>4
  <2>3. \A u \in Tables : \A p \in db'[u] :
           \/ p \in db[u] \/ p \in world[u]
           \/ u \in DOMAIN Changing /\ \E o \in db[u] :
                DOMAIN p = DOMAIN o /\ \A g \in DOMAIN o \ {Changing[u]} : p[g] = o[g]
    BY <1>1, <1>2, <2>2, TableNames
  <2> QED BY <2>1, <2>3, FromWorldKept
<1>7. t \in OfBoth \cup LiveOnly => r.live = q.live
  BY <1>3, <1>4 DEF Columns, Changing, OfBoth, LiveOnly, Captured, Findings
<1>8. LiveStored'
  <2>1. LiveStored
    BY DEF RowsInv
  <2>2. \A s \in db.streams : \E p \in db'.streams : p.id = s.id
    BY <1>5
  <2>3. \A u \in OfBoth \cup LiveOnly : \A p \in db'[u] : p \in db[u] \/ (u = t /\ p = r)
    BY <1>2, TableNames
  <2>4. \A u \in OfBoth \cup LiveOnly : \A p \in db'[u] : \E o \in db[u] : o.live = p.live
    BY <1>7, <2>3
  <2> QED BY <2>1, <2>2, <2>4, LiveStoredKept
<1>9. \A u \in Tables : IsFiniteSet(db'[u])
  <2>1. IsFiniteSet(db[t] \ {q})
    BY <1>1, FS_Difference DEF RowsInv
  <2>2. IsFiniteSet((db[t] \ {q}) \cup {r})
    BY <2>1, FS_AddElement
  <2> QED BY <1>2, <2>2 DEF RowsInv
<1>10. Streamers' = Streamers /\ world' \in Worlds
  BY DEF Streamers, RowsInv
<1>11. CASE t = "clips"
  <2>1. db'.channels = db.channels /\ db'.insights = db.insights
    BY <1>2, <1>11, TableNames
  <2>2. OneRow'
    BY <1>5, <2>1 DEF RowsInv, OneRow
  <2>3. \A h \in db'.channels : h.zone \in Zones(world)
    BY <2>1 DEF RowsInv
  <2>4. \A i \in db'.insights, p \in db'.streams : p.id = i.live => p.stage = "ready"
    BY <1>5, <2>1 DEF RowsInv
  <2>5. {h.channel : h \in db'.channels} = {h.channel : h \in db.channels}
    BY <2>1
  <2> QED BY <1>2, <1>6, <1>8, <1>9, <1>10, <2>2, <2>3, <2>4, <2>5 DEF RowsInv
<1>12. CASE t = "insights"
  <2>1. /\ db'.channels = db.channels /\ db'.insights = (db.insights \ {q}) \cup {r}
        /\ q \in db.insights
    BY <1>2, <1>12, TableNames
  <2>2. r.id = q.id /\ r.live = q.live
    BY <1>3, <1>4, <1>12 DEF Columns, Changing
  <2>3. \A i \in db'.insights : \E o \in db.insights :
          /\ o.id = i.id /\ o.live = i.live /\ (i = o \/ (i = r /\ o = q))
    BY <2>1, <2>2
  <2>4. \A i, j \in db'.insights : i.id = j.id => i = j
    <3> SUFFICES ASSUME NEW i \in db'.insights, NEW j \in db'.insights, i.id = j.id PROVE i = j
      OBVIOUS
    <3>1. i \in db.insights \ {q} \/ i = r
      BY <2>1
    <3>2. j \in db.insights \ {q} \/ j = r
      BY <2>1
    <3> QED BY <2>1, <2>2, <3>1, <3>2 DEF RowsInv, OneRow
  <2>5. OneRow'
    BY <1>5, <2>1, <2>4 DEF RowsInv, OneRow
  <2>6. \A i \in db'.insights, s \in db'.streams : s.id = i.live => s.stage = "ready"
    BY <1>5, <2>3 DEF RowsInv
  <2> QED BY <1>2, <1>5, <1>6, <1>8, <1>9, <1>10, <2>1, <2>5, <2>6 DEF RowsInv
<1>13. CASE t = "channels"
  <2>1. /\ db'.insights = db.insights /\ db'.channels = (db.channels \ {q}) \cup {r}
        /\ q \in db.channels
    BY <1>2, <1>13, TableNames
  <2>2. r.channel = q.channel /\ r.zone \in Zones(world)
    BY <1>3, <1>4, <1>13 DEF Columns, Changing
  <2>3. \A g, h \in db'.channels : g.channel = h.channel => g = h
    <3> SUFFICES ASSUME NEW g \in db'.channels, NEW h \in db'.channels, g.channel = h.channel PROVE g = h
      OBVIOUS
    <3>1. g \in db.channels \ {q} \/ g = r
      BY <2>1
    <3>2. h \in db.channels \ {q} \/ h = r
      BY <2>1
    <3> QED BY <2>1, <2>2, <3>1, <3>2 DEF RowsInv, OneRow
  <2>4. OneRow'
    BY <1>5, <2>1, <2>3 DEF RowsInv, OneRow
  <2>5. {h.channel : h \in db'.channels} = {h.channel : h \in db.channels}
    BY <2>1, <2>2
  <2>6. \A h \in db'.channels : h.zone \in Zones(world)
    BY <2>1, <2>2 DEF RowsInv
  <2>7. \A i \in db'.insights, s \in db'.streams : s.id = i.live => s.stage = "ready"
    BY <1>5, <2>1 DEF RowsInv
  <2> QED BY <1>2, <1>6, <1>8, <1>9, <1>10, <2>4, <2>5, <2>6, <2>7 DEF RowsInv
<1> QED
  BY <1>11, <1>12, <1>13

\* An insight is replaced by itself with another feedback.
LEMMA GiveFeedbackKeeps == ASSUME RowsInv, GiveFeedback PROVE RowsInv'
<1>1. PICK i \in db.insights, f \in {"useful", "not_useful", "none"} :
        db' = [db EXCEPT !.insights = (@ \ {i}) \cup {[i EXCEPT !.feedback = f]}]
  BY DEF GiveFeedback
<1>2. "insights" \in {"clips", "insights", "channels"} /\ Changing["insights"] = "feedback"
  BY DEF Changing
<1> QED
  BY <1>1, <1>2, RowChanged DEF GiveFeedback

\* A clip is replaced by itself with another choice.
LEMMA CurateClipKeeps == ASSUME RowsInv, CurateClip PROVE RowsInv'
<1>1. PICK k \in db.clips, kept \in BOOLEAN :
        db' = [db EXCEPT !.clips = (@ \ {k}) \cup {[k EXCEPT !.kept = kept]}]
  BY DEF CurateClip, ClipList
<1>2. "clips" \in {"clips", "insights", "channels"} /\ Changing["clips"] = "kept"
  BY DEF Changing
<1> QED
  BY <1>1, <1>2, RowChanged DEF CurateClip

\* A channel is replaced by itself in another zone.
LEMMA ChangeZoneKeeps == ASSUME RowsInv, ChangeZone PROVE RowsInv'
<1>1. PICK h \in db.channels, z \in Zones(world) :
        db' = [db EXCEPT !.channels = (@ \ {h}) \cup {[h EXCEPT !.zone = z]}]
  BY DEF ChangeZone
<1>2. "channels" \in {"clips", "insights", "channels"} /\ Changing["channels"] = "zone"
  BY DEF Changing
<1> QED
  BY <1>1, <1>2, RowChanged DEF ChangeZone

\* A live moves on, and its findings come when it is ready.
LEMMA MoveOnKeeps ==
  ASSUME RowsInv, NEW from, NEW to, NEW tables \in SUBSET (Findings \cup {"segments"}),
         MoveOn(from, to, tables), from # "ready", "insights" \in tables => to = "ready"
  PROVE  RowsInv'
<1>1. PICK s \in db.streams :
        /\ s.stage = from
        /\ db' = [t \in Tables |->
                    IF t = "streams" THEN (db.streams \ {s}) \cup {[s EXCEPT !.stage = to]}
                    ELSE IF t \in tables THEN db[t] \cup {r \in world[t] : r.live = s.id}
                    ELSE db[t]]
  BY DEF MoveOn
<1> world' = world
  BY DEF MoveOn
<1> DEFINE q == [s EXCEPT !.stage = to]
           New(t) == {r \in world[t] : r.live = s.id}
<1>2. /\ DOMAIN q = DOMAIN s /\ \A f \in DOMAIN s \ {"stage"} : q[f] = s[f]
      /\ q.id = s.id /\ q.stage = to
  BY StreamRow
<1>3. "streams" \notin tables /\ "channels" \notin tables /\ tables \subseteq Tables
      /\ tables \subseteq OfBoth \cup LiveOnly
  BY DEF Findings, Tables, OfBoth, LiveOnly, Captured
<1>4. /\ DOMAIN db' = Tables /\ db'.streams = (db.streams \ {s}) \cup {q}
      /\ \A t \in tables : db'[t] = db[t] \cup New(t)
      /\ \A t \in Tables \ ({"streams"} \cup tables) : db'[t] = db[t]
      /\ db'.channels = db.channels
  BY <1>1, <1>3, TableNames
<1> HIDE DEF q
<1>5. FromWorld'
  <2>1. FromWorld
    BY DEF RowsInv
  <2>2. DOMAIN q = DOMAIN s /\ \A g \in DOMAIN s \ {Changing["streams"]} : q[g] = s[g]
    BY <1>2 DEF Changing
  <2>3. \A u \in Tables : \A p \in db'[u] : p \in db[u] \/ p \in world[u] \/ (u = "streams" /\ p = q)
    BY <1>4
  <2>4. \A u \in Tables : \A p \in db'[u] :
           \/ p \in db[u] \/ p \in world[u]
           \/ u \in DOMAIN Changing /\ \E o \in db[u] :
                DOMAIN p = DOMAIN o /\ \A g \in DOMAIN o \ {Changing[u]} : p[g] = o[g]
    BY <2>2, <2>3, TableNames
  <2> QED BY <2>1, <2>4, FromWorldKept
<1>6. LiveStored'
  <2>1. LiveStored
    BY DEF RowsInv
  <2>2. \A o \in db.streams : \E p \in db'.streams : p.id = o.id
    BY <1>2, <1>4
  <2>3. \A u \in OfBoth \cup LiveOnly : \A p \in db'[u] : p \in db[u] \/ p.live = s.id
    BY <1>4, TableNames DEF OfBoth, LiveOnly, Captured, Findings
  <2>4. \E o \in db'.streams : o.id = s.id
    BY <1>2, <1>4
  <2>5. \A u \in OfBoth \cup LiveOnly : \A p \in db'[u] :
          (\E o \in db[u] : o.live = p.live) \/ (\E o \in db'.streams : o.id = p.live)
    BY <2>3, <2>4
  <2> QED BY <2>1, <2>2, <2>5, LiveStoredKept
<1>7. \A u \in Tables : IsFiniteSet(db'[u])
  <2>1. IsFiniteSet((db.streams \ {s}) \cup {q})
    <3>1. IsFiniteSet(db.streams \ {s})
      BY FS_Difference, TableNames DEF RowsInv
    <3> QED BY <3>1, FS_AddElement
  <2>2. \A t \in tables : IsFiniteSet(db[t] \cup New(t))
    <3> SUFFICES ASSUME NEW t \in tables PROVE IsFiniteSet(db[t] \cup New(t))
      OBVIOUS
    <3>1. IsFiniteSet(db[t]) /\ IsFiniteSet(world[t])
      BY <1>3, WorldsAssumption DEF RowsInv, Schema
    <3>2. IsFiniteSet(New(t))
      BY <3>1, FS_Subset
    <3> QED BY <3>1, <3>2, FS_Union
  <2>3. \A t \in tables : IsFiniteSet(db'[t])
    BY <1>4, <2>2
  <2>4. \A t \in Tables \ ({"streams"} \cup tables) : IsFiniteSet(db'[t])
    BY <1>4 DEF RowsInv
  <2>5. IsFiniteSet(db'["streams"])
    BY <1>4, <2>1
  <2> QED BY <2>3, <2>4, <2>5
<1>8. \A o, p \in db'.streams : o.id = p.id => o = p
  <2> SUFFICES ASSUME NEW o \in db'.streams, NEW p \in db'.streams, o.id = p.id PROVE o = p
    OBVIOUS
  <2>1. (o \in db.streams \ {s} \/ o = q) /\ (p \in db.streams \ {s} \/ p = q)
    BY <1>4
  <2> QED BY <1>2, <2>1 DEF RowsInv, OneRow
<1>9. \A i \in db.insights : i.live # s.id
  BY <1>1 DEF RowsInv
<1>10. \A i \in db'.insights : i \in db.insights \/ ("insights" \in tables /\ i \in New("insights"))
  BY <1>4, TableNames
<1>11. \A i, j \in db'.insights : i.id = j.id => i = j
  <2>1. \A i, j \in world.insights : i.id = j.id => i = j
    BY WorldsAssumption DEF RowsInv, Schema
  <2>2. \A i, j \in db.insights : i.id = j.id => i = j
    BY DEF RowsInv, OneRow
  <2>3. \A i \in db.insights : \E w \in world.insights : w.id = i.id /\ w.live = i.live
    BY InsightRow
  <2>4. \A i \in db.insights, j \in New("insights") : i.id # j.id
    BY <1>9, <2>1, <2>3
  <2>5. New("insights") \subseteq world.insights
    OBVIOUS
  <2> HIDE DEF New
  <2> QED BY <1>10, <2>1, <2>2, <2>4, <2>5
<1>12. \A i \in db'.insights, o \in db'.streams : o.id = i.live => o.stage = "ready"
  <2> SUFFICES ASSUME NEW i \in db'.insights, NEW o \in db'.streams, o.id = i.live PROVE o.stage = "ready"
    OBVIOUS
  <2>1. CASE i \in db.insights
    <3>1. o \in db.streams
      BY <1>2, <1>4, <1>9, <2>1
    <3> QED BY <2>1, <3>1 DEF RowsInv
  <2>2. CASE i \notin db.insights
    <3>1. i.live = s.id /\ to = "ready"
      BY <1>10, <2>2
    <3>2. o = q
      BY <1>4, <3>1 DEF RowsInv, OneRow
    <3> QED BY <1>2, <3>1, <3>2
  <2> QED BY <2>1, <2>2
<1>13. OneRow'
  BY <1>4, <1>8, <1>11 DEF RowsInv, OneRow
<1>14. Streamers' = Streamers /\ world' \in Worlds
  BY DEF Streamers, RowsInv
<1>15. \A h \in db'.channels : h.zone \in Zones(world)
  BY <1>4 DEF RowsInv
<1>16. {h.channel : h \in db'.channels} = {h.channel : h \in db.channels}
  BY <1>4
<1> QED
  BY <1>4, <1>5, <1>6, <1>7, <1>12, <1>13, <1>14, <1>15, <1>16 DEF RowsInv

\* The empty tables satisfy the invariant.
LEMMA RowsStart == ASSUME ScreensInit PROVE RowsInv
<1>1. /\ world \in Worlds /\ DOMAIN db = Tables /\ db.channels = world.channels
      /\ \A t \in Tables \ {"channels"} : db[t] = {}
  BY TableNames DEF ScreensInit, RowsInit
<1>2. db.streams = {} /\ db.insights = {}
  BY <1>1, TableNames
<1>3. Schema(world)
  BY <1>1, WorldsAssumption
<1>4. \A t \in Tables : IsFiniteSet(db[t])
  BY <1>1, <1>3, FS_EmptySet DEF Schema
<1>5. FromWorld
  <2>1. \A t \in Tables : db[t] \subseteq world[t]
    BY <1>1
  <2> QED BY <2>1, TableNames DEF FromWorld
<1>6. OneRow
  BY <1>1, <1>2, <1>3 DEF OneRow, Schema
<1>7. LiveStored
  BY <1>1, TableNames DEF LiveStored, OfBoth, LiveOnly, Captured, Findings
<1>8. \A h \in db.channels : h.zone \in Zones(world)
  BY <1>1 DEF Zones
<1> QED
  BY <1>1, <1>2, <1>4, <1>5, <1>6, <1>7, <1>8 DEF RowsInv, Streamers

\* Every step keeps the invariant.
LEMMA RowsStep == ASSUME RowsInv, [ScreensNext]_rowVars PROVE RowsInv'
<1>1. CASE UNCHANGED rowVars
  BY <1>1 DEF rowVars, RowsInv, FromWorld, OneRow, LiveStored, Streamers
<1>2. CASE EndLive
  BY <1>2, MoveOnKeeps DEF EndLive
<1>3. CASE TranscribeLive
  BY <1>3, MoveOnKeeps DEF TranscribeLive
<1>4. CASE AnalyseLive
  BY <1>4, MoveOnKeeps DEF AnalyseLive
<1> QED
  BY <1>1, <1>2, <1>3, <1>4, StoreLiveKeeps, StoreCapturedKeeps, StoreSyncedKeeps, GiveFeedbackKeeps,
     CurateClipKeeps, ChangeZoneKeeps DEF ScreensNext

\* What is stored keeps to the schema.
LEMMA RowsAlways == ScreensSpec => []RowsInv
<1>1. ScreensInit => RowsInv
  BY RowsStart
<1>2. RowsInv /\ [ScreensNext]_rowVars => RowsInv'
  BY RowsStep
<1> QED
  BY <1>1, <1>2, PTL DEF ScreensSpec

\* What is stored satisfies the schema at any time, not only in the end.
LEMMA RowsOfSchema == ASSUME RowsInv PROVE Schema(db)
<1>1. world \in Worlds /\ Schema(world) /\ FromWorld /\ OneRow /\ LiveStored
  BY WorldsAssumption DEF RowsInv
<1>2. \A t \in Tables \ DOMAIN Columns : db[t] \subseteq world[t]
  BY <1>1, TableNames DEF FromWorld
<1>3. \A t \in DOMAIN Columns : \A r \in db[t] : DOMAIN r = Columns[t]
  BY RowColumns
<1>4. \A s \in db.streams : \E w \in world.streams : /\ w.id = s.id /\ w.channel = s.channel
                                                     /\ w.start = s.start /\ w.end = s.end
  BY StreamRow
<1>5. ASSUME NEW t \in OfBoth \cup LiveOnly, NEW r \in db[t]
      PROVE  \E s \in db.streams : s.id = r.live /\ (t \in OfBoth => s.channel = r.channel)
  <2>1. PICK s \in db.streams : s.id = r.live
    BY <1>1 DEF LiveStored
  <2>2. PICK v \in world.streams : v.id = s.id /\ v.channel = s.channel
    BY <1>4
  <2>3. CASE t \in OfBoth
    <3>1. PICK w \in world[t] : r.live = w.live /\ r.channel = w.channel
      <4>1. CASE t = "clips"
        BY <4>1, RowColumns, TableNames DEF Columns, Changing
      <4>2. CASE t # "clips"
        BY <1>2, <2>3, <4>2, TableNames DEF OfBoth, LiveOnly, Captured, Findings
      <4> QED BY <4>1, <4>2
    <3>2. PICK u \in world.streams : u.id = w.live /\ u.channel = w.channel
      BY <1>1, <2>3 DEF Schema
    <3>3. u = v
      BY <1>1, <2>1, <2>2, <3>1, <3>2 DEF Schema
    <3> QED BY <2>1, <2>2, <3>1, <3>2, <3>3
  <2> QED BY <2>1, <2>3
<1>6. \A s \in db.streams : \E h \in db.channels : h.channel = s.channel
  <2> SUFFICES ASSUME NEW s \in db.streams PROVE s.channel \in {h.channel : h \in db.channels}
    OBVIOUS
  <2>1. PICK w \in world.streams : w.channel = s.channel
    BY <1>4
  <2>2. s.channel \in Streamers
    BY <1>1, <2>1 DEF Schema, Streamers
  <2> QED BY <2>2 DEF RowsInv
<1>7. \A i \in db.insights, g \in db.segments : g.id \in i.segments => g.live = i.live
  <2> SUFFICES ASSUME NEW i \in db.insights, NEW g \in db.segments, g.id \in i.segments
      PROVE g.live = i.live
    OBVIOUS
  <2>1. PICK w \in world.insights : w.live = i.live /\ w.segments = i.segments
    BY InsightRow
  <2>2. g \in world.segments
    BY <1>2, TableNames
  <2> QED BY <1>1, <2>1, <2>2 DEF Schema
<1>8. \A s \in db.streams : s.start \in Nat /\ s.end \in Nat
  <2> SUFFICES ASSUME NEW s \in db.streams PROVE s.start \in Nat /\ s.end \in Nat
    OBVIOUS
  <2>1. PICK w \in world.streams : w.start = s.start /\ w.end = s.end
    BY <1>4
  <2> QED BY <1>1, <2>1 DEF Schema
<1>9. \A v \in db.samples : v.viewers \in Nat
  BY <1>1, <1>2, TableNames DEF Schema
<1>10. \A e \in db.events : e.amount \in Nat
  BY <1>1, <1>2, TableNames DEF Schema
<1>11. \A p \in db.tips : p.cents \in Nat /\ p.at \in Nat
  BY <1>1, <1>2, TableNames DEF Schema
<1>12. \A h \in db.channels : h.zone \in Int
  BY <1>1 DEF RowsInv, Schema, Zones
<1> QED
  BY <1>1, <1>3, <1>5, <1>6, <1>7, <1>8, <1>9, <1>10, <1>11, <1>12 DEF Schema, RowsInv, OneRow

---------------------------------------------------------------------------
(* Every payment is in one part of each fold (MoneyTotals).                *)
(*                                                                         *)
(* Each number of a fold is a sum over the events of what an event counts  *)
(* for (Counted), so that the pages' totals are parts of one sum; lives,   *)
(* payers, categories and periods split it (ListAddsUp, PartByKey).        *)

---------------------------------------------------------------------------
(* Money. *)

\* The numbers of a fold of payments.
MoneyKeys == {"cents", "bits", "subs", "gifts", "events"}

\* What an event counts for.
Counted(key) ==
  [e \in db.events |->
     CASE key = "cents"  -> Cents(e)
       [] key = "bits"   -> IF e.type = "cheer" THEN e.amount ELSE 0
       [] key = "subs"   -> IF e.type \in {"sub", "resub"} THEN 1 ELSE 0
       [] key = "gifts"  -> IF e.type = "gift" THEN e.amount ELSE 0
       [] OTHER           -> 1]

\* The tables that are counted are finite.
LEMMA TablesFinite ==
  ASSUME Schema(db)
  PROVE  /\ IsFiniteSet(db.events) /\ IsFiniteSet(db.streams) /\ IsFiniteSet(db.tips)
         /\ IsFiniteSet(db.chat) /\ IsFiniteSet(db.samples) /\ IsFiniteSet(db.insights)
         /\ IsFiniteSet(db.segments) /\ IsFiniteSet(db.channels)
  BY TableNames DEF Schema

\* Payments are worth whole cents.
LEMMA CentsNat ==
  ASSUME Schema(db), NEW e \in db.events
  PROVE  Cents(e) \in Nat
<1>1. \A tier : TierCents(tier) \in Nat
  BY DEF TierCents
<1>2. e.amount \in Nat
  BY DEF Schema
<1>3. e.amount * TierCents(e.tier) \in Nat
  BY <1>1, <1>2
<1> QED
  BY <1>1, <1>2, <1>3 DEF Cents

\* What an event counts for is a natural number.
LEMMA CountedNat ==
  ASSUME Schema(db), NEW key \in MoneyKeys
  PROVE  Counted(key) \in [db.events -> Nat] /\ Counted(key) \in [db.events -> Int]
<1>1. \A e \in db.events : Cents(e) \in Nat /\ e.amount \in Nat
  BY CentsNat DEF Schema
<1>2. \A e \in db.events : Counted(key)[e] \in Nat
  BY <1>1 DEF MoneyKeys, Counted
<1>3. Counted(key) = [e \in db.events |-> Counted(key)[e]]
  BY DEF Counted
<1> QED
  BY <1>2, <1>3

\* Sums over events are parts of one.
LEMMA WorthIsPart ==
  ASSUME Schema(db), NEW E \in SUBSET db.events
  PROVE  Worth(E) = Part(Counted("cents"), E)
<1>1. \A e \in E : Counted("cents")[e] = Cents(e)
  BY DEF Counted
<1>2. [e \in E |-> Counted("cents")[e]] = [e \in E |-> Cents(e)]
  BY <1>1
<1> QED
  BY <1>2 DEF Worth, Total, Part

\* The amounts of the events of a type, as a part of the sum over the table.
LEMMA SumIsPart ==
  ASSUME Schema(db), NEW E \in SUBSET db.events, NEW key, NEW type,
         (key = "bits" /\ type = "cheer") \/ (key = "gifts" /\ type = "gift")
  PROVE  Sum(OfType(E, {type})) = Part(Counted(key), E)
<1> DEFINE T == OfType(E, {type})
           f == Counted(key)
           h == [e \in E |-> f[e]]
<1>1. \A e \in T : f[e] = e.amount
  BY DEF Counted, OfType
<1>2. \A e \in E \ T : f[e] = 0
  BY DEF Counted, OfType
<1>3. T \in SUBSET E /\ IsFiniteSet(E)
  BY TablesFinite, FS_Subset DEF OfType
<1>4. h \in [E -> Int]
  BY CountedNat DEF MoneyKeys
<1>5. Sum(T) = Part(f, T)
  <2>1. [e \in T |-> e.amount] = [e \in T |-> f[e]]
    BY <1>1
  <2> HIDE DEF T, f
  <2> QED BY <2>1 DEF Sum, Total, Part
<1>6. Part(f, E) = SumFunction(h)
  BY DEF Part
<1>7. \A e \in E : h[e] = f[e]
  OBVIOUS
<1> HIDE DEF T, f, h
<1>8. SumFunction(h) = Part(h, T)
  BY <1>2, <1>3, <1>4, <1>7, TotalOfRest
<1>9. Part(h, T) = Part(f, T)
  BY <1>3, <1>7, PartSame
<1> QED
  BY <1>5, <1>6, <1>8, <1>9 DEF T, f

\* The subscriptions, as a part of the sum over the table.
LEMMA SubsIsPart ==
  ASSUME Schema(db), NEW E \in SUBSET db.events
  PROVE  Cardinality(OfType(E, {"sub", "resub"})) = Part(Counted("subs"), E)
<1> DEFINE T == OfType(E, {"sub", "resub"})
           f == Counted("subs")
           h == [e \in E |-> f[e]]
           one == [e \in E |-> 1]
<1>1. \A e \in T : f[e] = 1
  BY DEF Counted, OfType
<1>2. \A e \in E \ T : f[e] = 0
  BY DEF Counted, OfType
<1>3. T \in SUBSET E /\ IsFiniteSet(E)
  BY TablesFinite, FS_Subset DEF OfType
<1>4. h \in [E -> Int]
  BY CountedNat DEF MoneyKeys
<1>5. Cardinality(T) = Part(one, T)
  BY <1>3, CountIsTotal
<1>6. Part(f, E) = SumFunction(h)
  BY DEF Part
<1>7. \A e \in E : h[e] = f[e] /\ one[e] = 1
  OBVIOUS
<1> HIDE DEF T, f, h, one
<1>8. SumFunction(h) = Part(h, T)
  BY <1>2, <1>3, <1>4, <1>7, TotalOfRest
<1>9. Part(h, T) = Part(one, T)
  BY <1>1, <1>3, <1>7, PartSame
<1> QED
  BY <1>5, <1>6, <1>8, <1>9 DEF T, f

\* The number of events, as a part of the sum over the table.
LEMMA EventsIsPart ==
  ASSUME Schema(db), NEW E \in SUBSET db.events
  PROVE  Cardinality(E) = Part(Counted("events"), E)
<1> DEFINE one == [e \in db.events |-> 1]
<1>1. Counted("events") = one
  BY DEF Counted
<1>2. Cardinality(E) = Part(one, E)
  BY TablesFinite, CountIsTotal
<1> QED
  BY <1>1, <1>2

\* A fold of payments is the part that they are of the whole table's.
LEMMA FoldedIsPart ==
  ASSUME Schema(db), NEW E \in SUBSET db.events, NEW key \in MoneyKeys
  PROVE  DOMAIN Folded(E) = MoneyKeys /\ Folded(E)[key] = Part(Counted(key), E)
<1>1. Worth(E) = Part(Counted("cents"), E)
  BY WorthIsPart
<1>2. \A k, t : (k = "bits" /\ t = "cheer") \/ (k = "gifts" /\ t = "gift") =>
               Sum(OfType(E, {t})) = Part(Counted(k), E)
  BY SumIsPart
<1>3. /\ Sum(OfType(E, {"cheer"})) = Part(Counted("bits"), E)
      /\ Sum(OfType(E, {"gift"})) = Part(Counted("gifts"), E)
  BY <1>2
<1>4. Cardinality(OfType(E, {"sub", "resub"})) = Part(Counted("subs"), E)
  BY SubsIsPart
<1>5. Cardinality(E) = Part(Counted("events"), E)
  BY EventsIsPart
<1> QED
  BY <1>1, <1>2, <1>3, <1>4, <1>5 DEF Folded, MoneyKeys

\* The payments of some lives.
EventsOf(S) == Money(RowsOf(db, "events", S))

\* They are payments, of the table.
LEMMA EventsOfType ==
  ASSUME NEW S
  PROVE  EventsOf(S) \in SUBSET db.events
  BY DEF EventsOf, Money, RowsOf

\* The money of lives is that of each together.
LEMMA MoneyOfLives ==
  ASSUME Schema(db), NEW S \in SUBSET db.streams, NEW key \in MoneyKeys
  PROVE  Part(Counted(key), EventsOf(S)) = Total([s \in S |-> Part(Counted(key), EventsOf({s}))])
<1> DEFINE by == [e \in db.events |-> CHOOSE s \in S : s.id = e.live]
           g == [s \in S |-> Part(Counted(key), EventsOf({s}))]
<1>1. \A e \in EventsOf(S) : by[e] \in S /\ by[e].id = e.live
  BY DEF EventsOf, Money, RowsOf
<1>2. ASSUME NEW s \in S PROVE {e \in EventsOf(S) : by[e] = s} = EventsOf({s})
  <2>1. \A e \in EventsOf(S) : e.live = s.id => by[e] = s
    BY <1>1 DEF Schema
  <2>2. EventsOf({s}) = {e \in EventsOf(S) : e.live = s.id}
    BY DEF EventsOf, Money, RowsOf
  <2> HIDE DEF by
  <2> QED BY <1>1, <2>1, <2>2
<1>3. \A s \in S : g[s] = Part(Counted(key), {e \in EventsOf(S) : by[e] = s})
  BY <1>2
<1>4. IsFiniteSet(S) /\ IsFiniteSet(db.events)
  BY TablesFinite, FS_Subset
<1>5. g = [s \in S |-> g[s]]
  OBVIOUS
<1> HIDE DEF by, g
<1>6. Part(Counted(key), EventsOf(S)) = SumFunction(g)
  BY <1>1, <1>3, <1>4, <1>5, CountedNat, EventsOfType, PartByKey
<1> QED
  BY <1>6 DEF g, Total

\* A live's page folds its payments.
LEMMA StreamMoney ==
  ASSUME NEW s
  PROVE  StreamFinance(db, s).money = Folded(EventsOf({s}))
  BY DEF StreamFinance, EventsOf

\* The channel's page folds those of all its lives.
LEMMA ChannelMoney ==
  ASSUME NEW c
  PROVE  /\ ChannelFinance(db, c).money = Folded({e \in Money(db.events) : e.channel = c})
         /\ ChannelFinance(db, c).contributors = Contributors({e \in Money(db.events) : e.channel = c})
  BY DEF ChannelFinance

\* The lives, the start and the sales that a page of a period is about.
Started(c, start) == {s \in Ready(LivesOf(db, c)) : s.start >= start}
Since(days) == IF days = 0 THEN 0 ELSE Now - days * DayLength
SoldCents(c, kind, start) == Total([t \in Sold(db, c, kind, start) |-> t.cents])

\* The finance page folds the payments of the period's lives.
LEMMA OverviewMoney ==
  ASSUME NEW c, NEW days
  PROVE  LET page == FinanceOverview(db, c, days)
             S == Started(c, Since(days))
         IN  /\ page.money = Folded(EventsOf(S))
             /\ page.tips = SoldCents(c, "tip", Since(days))
             /\ page.total = Worth(EventsOf(S)) + SoldCents(c, "tip", Since(days))
                               + SoldCents(c, "merch", Since(days))
             /\ page.content = ContentRevenue(db, S)
             /\ page.byLive = Foremost({[live |-> s.id, at |-> s.start, cents |-> Worth(EventsOf({s}))] :
                                          s \in {r \in S : Worth(EventsOf({r})) > 0}}, Earlier)
  BY DEF FinanceOverview, Started, Since, EventsOf, SoldCents

\* The period without a start is of all the lives.
LEMMA AllStarted ==
  ASSUME Schema(db), NEW c
  PROVE  Started(c, Since(0)) = Ready(LivesOf(db, c))
<1>1. \A s \in Ready(LivesOf(db, c)) : s.start >= 0
  BY DEF Schema, Ready, LivesOf
<1> QED
  BY <1>1 DEF Started, Since

\* The payments of a channel are those of its lives.
LEMMA ChannelEvents ==
  ASSUME Schema(db), NEW c
  PROVE  {e \in Money(db.events) : e.channel = c} = EventsOf(LivesOf(db, c))
<1>1. \A e \in db.events : \E s \in db.streams : s.id = e.live /\ s.channel = e.channel
  BY DEF Schema, OfBoth, Captured, LiveOnly
<1>2. \A r, s \in db.streams : r.id = s.id => r = s
  BY DEF Schema
<1> QED
  BY <1>1, <1>2 DEF EventsOf, Money, RowsOf, LivesOf

\* A list of which fewer than the limit are shown is shown whole.
LEMMA FewByCents ==
  ASSUME NEW S, IsFiniteSet(S), \A r \in S : r.cents \in Int, NEW T,
         T = {r \in S : Cardinality({q \in S : q.cents > r.cents}) < Limit}, Few(T)
  PROVE  T = S
<1> DEFINE rank == [r \in S |-> r.cents]
<1>1. rank \in [S -> Int]
  OBVIOUS
<1>2. \A r, q \in S : q.cents > r.cents <=> rank[q] > rank[r]
  OBVIOUS
<1> HIDE DEF rank
<1>3. \A r \in S : {q \in S : q.cents > r.cents} = {q \in S : rank[q] > rank[r]}
  BY <1>2
<1>4. T = {r \in S : Cardinality({q \in S : rank[q] > rank[r]}) < Limit}
  BY <1>3
<1>5. Limit \in Int /\ Cardinality(T) < Limit
  BY LimitAssumption DEF Few
<1> QED
  BY <1>1, <1>4, <1>5, FewAreAll

\* Of few lives, the latest are all.
LEMMA FewByTime ==
  ASSUME NEW S, IsFiniteSet(S), \A r \in S : r.at \in Int, NEW T,
         T = {r \in S : Cardinality({q \in S : q.at < r.at}) < Limit}, Few(T)
  PROVE  T = S
<1> DEFINE rank == [r \in S |-> -r.at]
<1>1. rank \in [S -> Int]
  OBVIOUS
<1>2. \A r, q \in S : q.at < r.at <=> rank[q] > rank[r]
  OBVIOUS
<1> HIDE DEF rank
<1>3. \A r \in S : {q \in S : q.at < r.at} = {q \in S : rank[q] > rank[r]}
  BY <1>2
<1>4. T = {r \in S : Cardinality({q \in S : rank[q] > rank[r]}) < Limit}
  BY <1>3
<1>5. Limit \in Int /\ Cardinality(T) < Limit
  BY LimitAssumption DEF Few
<1> QED
  BY <1>1, <1>4, <1>5, FewAreAll

\* A column of a page's list adds up as what its lines are made of.
LEMMA ColumnSum ==
  ASSUME NEW S, IsFiniteSet(S), NEW K, NEW line \in Bijection(S, K), NEW key,
         NEW f \in [S -> Int], \A x \in S : line[x][key] = f[x]
  PROVE  SumOf(K, key) = SumFunction(f)
<1> DEFINE g == [k \in K |-> k[key]]
<1>1. line \in [S -> K]
  BY DEF Bijection, Injection
<1>2. \A x \in S : g[line[x]] = f[x]
  BY <1>1
<1>3. g \in [K -> Int]
  BY DEF Bijection, Surjection
<1>4. SumOf(K, key) = SumFunction(g)
  BY DEF SumOf, Total
<1> HIDE DEF g
<1>5. SumFunction(g) = SumFunction(f)
  BY <1>2, <1>3, TotalImage
<1> QED
  BY <1>4, <1>5

\* What is mapped from a finite set is finite.
LEMMA ImageFinite ==
  ASSUME NEW S, IsFiniteSet(S), NEW line, NEW K, K = {line[x] : x \in S}
  PROVE  IsFiniteSet(K)
<1> DEFINE h == [x \in S |-> line[x]]
<1>1. h \in Surjection(S, K)
  BY DEF Surjection
<1> QED
  BY <1>1, FS_Surjection

---------------------------------------------------------------------------

\* The sum over the pages of lives, as a part of the sum over the table.
LEMMA OverLivesIs ==
  ASSUME Schema(db), NEW S \in SUBSET db.streams, NEW key \in MoneyKeys
  PROVE  Total([s \in S |-> StreamFinance(db, s).money[key]]) = Folded(EventsOf(S))[key]
<1>1. \A s \in S : StreamFinance(db, s).money[key] = Part(Counted(key), EventsOf({s}))
  BY StreamMoney, FoldedIsPart, EventsOfType
<1>2. [s \in S |-> StreamFinance(db, s).money[key]] = [s \in S |-> Part(Counted(key), EventsOf({s}))]
  BY <1>1
<1>3. Folded(EventsOf(S))[key] = Part(Counted(key), EventsOf(S))
  BY FoldedIsPart, EventsOfType
<1> QED
  BY <1>2, <1>3, MoneyOfLives

\* The channel's fold is the sum of its lives', column by column.
LEMMA ChannelIsLives ==
  ASSUME Schema(db), NEW c, NEW key \in MoneyKeys
  PROVE  /\ ChannelFinance(db, c).money[key] =
              Total([s \in LivesOf(db, c) |-> StreamFinance(db, s).money[key]])
         /\ FinanceOverview(db, c, 0).money[key] =
              Total([s \in Ready(LivesOf(db, c)) |-> StreamFinance(db, s).money[key]])
<1>1. LivesOf(db, c) \in SUBSET db.streams /\ Ready(LivesOf(db, c)) \in SUBSET db.streams
  BY DEF LivesOf, Ready
<1>2. ChannelFinance(db, c).money = Folded(EventsOf(LivesOf(db, c)))
  BY ChannelMoney, ChannelEvents
<1>3. FinanceOverview(db, c, 0).money = Folded(EventsOf(Ready(LivesOf(db, c))))
  BY OverviewMoney, AllStarted
<1> QED
  BY <1>1, <1>2, <1>3, OverLivesIs

\* The money of some lives, of which each line tells one's.
LEMMA LinesOfLives ==
  ASSUME Schema(db), NEW S \in SUBSET db.streams, NEW K, NEW line \in Surjection(S, K),
         \A s \in S : line[s].live = s.id /\ line[s].cents = Worth(EventsOf({s}))
  PROVE  SumOf(K, "cents") = Worth(EventsOf(S))
<1> DEFINE f == [s \in S |-> Part(Counted("cents"), EventsOf({s}))]
<1>1. IsFiniteSet(S)
  BY TablesFinite, FS_Subset
<1>2. \A s \in S : Part(Counted("cents"), EventsOf({s})) \in Int
  BY TablesFinite, CountedNat, EventsOfType, PartLessOne DEF MoneyKeys
<1>3. \A s \in S : line[s]["cents"] = Part(Counted("cents"), EventsOf({s}))
  BY EventsOfType, WorthIsPart
<1>4. ASSUME NEW r \in S, NEW s \in S, line[r] = line[s] PROVE r = s
  <2>1. r.id = s.id
    BY <1>4
  <2> QED BY <2>1 DEF Schema
<1>5. line \in Bijection(S, K)
  BY <1>4 DEF Bijection, Injection, IsInjective, Surjection
<1>6. f \in [S -> Int] /\ \A s \in S : line[s]["cents"] = f[s]
  BY <1>2, <1>3
<1>7. Worth(EventsOf(S)) = SumFunction(f)
  BY EventsOfType, WorthIsPart, MoneyOfLives DEF MoneyKeys, Total
<1> HIDE DEF f
<1>8. SumOf(K, "cents") = SumFunction(f)
  BY <1>1, <1>5, <1>6, ColumnSum
<1> QED
  BY <1>7, <1>8

\* The channel's growth adds up to the finance page's total.
LEMMA GrowthAddsUp ==
  ASSUME Schema(db), NEW c
  PROVE  FinanceOverview(db, c, 0).money.cents = SumOf(Growth(db, c), "cents")
<1> DEFINE S == Ready(LivesOf(db, c))
           line == [s \in S |-> [live |-> s.id, peak |-> PeakOf(db, s), average |-> Numbers(db, s).average,
                      follows |-> Cardinality(OfType(RowsOf(db, "events", {s}), {"follow"})),
                      messages |-> Cardinality(RowsOf(db, "chat", {s})),
                      cents |-> Worth(Money(RowsOf(db, "events", {s})))]]
<1>1. S \in SUBSET db.streams
  BY DEF LivesOf, Ready
<1>2. line \in Surjection(S, Growth(db, c))
  BY DEF Growth, Surjection
<1>3. \A s \in S : line[s].live = s.id /\ line[s].cents = Worth(EventsOf({s}))
  BY DEF EventsOf
<1>4. FinanceOverview(db, c, 0).money.cents = Worth(EventsOf(S))
  <2>1. FinanceOverview(db, c, 0).money = Folded(EventsOf(S))
    BY OverviewMoney, AllStarted
  <2> QED BY <2>1 DEF Folded
<1> HIDE DEF S, line
<1> QED
  BY <1>1, <1>2, <1>3, <1>4, LinesOfLives

\* What payments are worth is a natural number.
LEMMA WorthNat ==
  ASSUME Schema(db), NEW E \in SUBSET db.events
  PROVE  Worth(E) \in Nat
  BY WorthIsPart, CountedNat, TablesFinite, PartNat DEF MoneyKeys

\* The lives of the finance page add up to its total.
LEMMA ByLiveAddsUp ==
  ASSUME Schema(db), NEW c, Few(FinanceOverview(db, c, 0).byLive)
  PROVE  FinanceOverview(db, c, 0).money.cents = SumOf(FinanceOverview(db, c, 0).byLive, "cents")
<1> DEFINE S == Ready(LivesOf(db, c))
           P == {s \in S : Worth(EventsOf({s})) > 0}
           line == [s \in P |-> [live |-> s.id, at |-> s.start, cents |-> Worth(EventsOf({s}))]]
           K == {[live |-> s.id, at |-> s.start, cents |-> Worth(EventsOf({s}))] : s \in P}
           list == FinanceOverview(db, c, 0).byLive
           f == Counted("cents")
           g == [s \in S |-> Worth(EventsOf({s}))]
<1>1. S \in SUBSET db.streams /\ P \in SUBSET db.streams /\ IsFiniteSet(S) /\ IsFiniteSet(P)
  BY TablesFinite, FS_Subset DEF LivesOf, Ready
<1>2. line \in Surjection(P, K)
  BY DEF Surjection
<1>3. \A s \in P : line[s].live = s.id /\ line[s].cents = Worth(EventsOf({s}))
  OBVIOUS
<1>4. \A k \in K : k.at \in Int
  <2>1. \A s \in S : s.start \in Int
    BY <1>1 DEF Schema
  <2>2. \A s \in P : line[s].at \in Int
    BY <2>1
  <2> HIDE DEF S, P, K, list, f, g, line
  <2> QED BY <1>2, <2>2 DEF Surjection
<1>5. list = {r \in K : Cardinality({q \in K : q.at < r.at}) < Limit}
  <2>1. list = Foremost(K, Earlier)
    BY OverviewMoney, AllStarted
  <2> QED BY <2>1 DEF Foremost, Earlier
<1>6. FinanceOverview(db, c, 0).money.cents = Worth(EventsOf(S))
  <2>1. FinanceOverview(db, c, 0).money = Folded(EventsOf(S))
    BY OverviewMoney, AllStarted
  <2> QED BY <2>1 DEF Folded
<1>7. \A s \in S : Worth(EventsOf({s})) \in Nat
  BY EventsOfType, WorthNat
<1>8. g \in [S -> Int] /\ \A s \in S \ P : g[s] = 0
  BY <1>7
<1>9. \A T \in SUBSET db.streams : Worth(EventsOf(T)) = Total([s \in T |-> Worth(EventsOf({s}))])
  <2> SUFFICES ASSUME NEW T \in SUBSET db.streams
               PROVE  Worth(EventsOf(T)) = Total([s \in T |-> Worth(EventsOf({s}))])
    OBVIOUS
  <2>1. \A s \in T : Worth(EventsOf({s})) = Part(f, EventsOf({s}))
    BY EventsOfType, WorthIsPart
  <2>2. [s \in T |-> Worth(EventsOf({s}))] = [s \in T |-> Part(f, EventsOf({s}))]
    <3> HIDE DEF f
    <3> QED BY <2>1
  <2>3. Worth(EventsOf(T)) = Part(f, EventsOf(T))
    BY EventsOfType, WorthIsPart
  <2> QED BY <2>2, <2>3, MoneyOfLives DEF MoneyKeys
<1>10. Worth(EventsOf(S)) = SumFunction(g) /\ Worth(EventsOf(P)) = Part(g, P)
  <2>1. [s \in P |-> Worth(EventsOf({s}))] = [s \in P |-> g[s]]
    OBVIOUS
  <2> QED BY <1>1, <1>9, <2>1 DEF Total, Part
<1> HIDE DEF S, P, line, K, list, g, f
<1>11. list = K
  <2>1. IsFiniteSet(K)
    BY <1>1, <1>2, FS_Surjection
  <2>2. Few(list)
    BY DEF list
  <2> QED BY <1>4, <1>5, <2>1, <2>2, FewByTime
<1>12. SumFunction(g) = Part(g, P)
  BY <1>1, <1>8, TotalOfRest DEF P
<1>13. SumOf(K, "cents") = Worth(EventsOf(P))
  BY <1>1, <1>2, <1>3, LinesOfLives
<1> QED
  BY <1>6, <1>10, <1>11, <1>12, <1>13 DEF list

\* A list by what its lines brought adds up to what was brought.
LEMMA ListAddsUp ==
  ASSUME NEW S, IsFiniteSet(S), NEW f \in [S -> Nat], NEW U \in SUBSET S,
         NEW K, IsFiniteSet(K), NEW key \in [U -> K], NEW L, NEW line \in Bijection(K, L),
         NEW of \in [K -> SUBSET U], \A k \in K, x \in U : x \in of[k] <=> key[x] = k,
         \A k \in K : line[k].cents = Part(f, of[k])
  PROVE  IsFiniteSet(L) /\ (\A r \in L : r.cents \in Int) /\ SumOf(L, "cents") = Part(f, U)
<1> DEFINE g == [k \in K |-> Part(f, {x \in U : key[x] = k})]
<1>0. \A k \in K : {x \in U : key[x] = k} = of[k]
  OBVIOUS
<1>1. IsFiniteSet(U) /\ f \in [S -> Int]
  BY FS_Subset
<1>2. \A k \in K : {x \in U : key[x] = k} \in SUBSET S
  OBVIOUS
<1>3. \A k \in K : Part(f, {x \in U : key[x] = k}) \in Int
  BY <1>1, <1>2, PartLessOne
<1>4. g \in [K -> Int]
  BY <1>3
<1>5. line \in Surjection(K, L)
  BY DEF Bijection
<1>6. IsFiniteSet(L)
  BY <1>1, <1>5, FS_Surjection
<1>7. \A r \in L : r.cents \in Int
  <2>1. \A k \in K : line[k].cents \in Int
    BY <1>0, <1>3
  <2> QED BY <1>5, <2>1 DEF Surjection
<1>9. \A k \in K : line[k]["cents"] = g[k]
  BY <1>0
<1>10. \A x \in U : key[x] \in K
  OBVIOUS
<1>11. \A k \in K : g[k] = Part(f, {x \in U : key[x] = k})
  OBVIOUS
<1>12. g = [k \in K |-> g[k]]
  OBVIOUS
<1> HIDE DEF g
<1>13. SumOf(L, "cents") = SumFunction(g)
  BY <1>1, <1>4, <1>9, ColumnSum
<1>14. Part(f, U) = SumFunction(g)
  BY <1>1, <1>10, <1>11, <1>12, PartByKey
<1> QED
  BY <1>6, <1>7, <1>13, <1>14

\* The contributors of a channel with the anonymous make its total.
LEMMA ContributorsAddUp ==
  ASSUME Schema(db), NEW E \in SUBSET db.events, Few(Contributors(E))
  PROVE  Worth(E) = SumOf(Contributors(E), "cents") + Worth({e \in E : e.login = NoLogin})
<1> DEFINE U == {e \in E : e.login # NoLogin}
           V == {e \in E : e.login = NoLogin}
           f == Counted("cents")
           key == [e \in U |-> e.login]
           K == Logins(E) \ {NoLogin}
           Line(l) == [login |-> l, cents |-> Worth(SaidBy(l, E)),
                       bits |-> Sum(OfType(SaidBy(l, E), {"cheer"})),
                       subs |-> Cardinality(OfType(SaidBy(l, E), {"sub", "resub"}))
                                  + Sum(OfType(SaidBy(l, E), {"gift"})),
                       lives |-> Cardinality({e.live : e \in SaidBy(l, E)})]
           line == [l \in K |-> Line(l)]
           of == [l \in K |-> SaidBy(l, E)]
           L == {Line(l) : l \in K}
           T == Contributors(E)
<1>1. /\ IsFiniteSet(db.events) /\ f \in [db.events -> Nat] /\ f \in [db.events -> Int]
      /\ U \in SUBSET db.events /\ V \in SUBSET db.events
  BY TablesFinite, CountedNat DEF MoneyKeys
<1>2. IsFiniteSet(K) /\ key \in [U -> K]
  <2>1. key \in Surjection(U, K)
    BY DEF Logins, Surjection
  <2>2. IsFiniteSet(U)
    BY <1>1, FS_Subset
  <2> HIDE DEF key, K, U
  <2> QED BY <2>1, <2>2, FS_Surjection DEF Surjection
<1>3. line \in Bijection(K, L)
  <2>1. \A l \in K : line[l].login = l
    OBVIOUS
  <2>2. \A l \in K : line[l] = Line(l)
    OBVIOUS
  <2> HIDE DEF K, Line
  <2>3. line \in [K -> L] /\ \A r \in L : \E l \in K : line[l] = r
    OBVIOUS
  <2> QED BY <2>1, <2>3 DEF Bijection, Injection, Surjection, IsInjective
<1>4. \A l \in K : line[l].cents = Part(f, of[l])
  <2>1. \A l \in K : SaidBy(l, E) \in SUBSET db.events
    BY DEF SaidBy
  <2>2. \A l \in K : line[l].cents = Worth(SaidBy(l, E)) /\ of[l] = SaidBy(l, E)
    OBVIOUS
  <2> QED BY <2>1, <2>2, WorthIsPart
<1>13. of \in [K -> SUBSET U] /\ \A l \in K, e \in U : e \in of[l] <=> key[e] = l
  BY DEF SaidBy
<1>5. T = {r \in L : Cardinality({q \in L : q.cents > r.cents}) < Limit}
  BY DEF Contributors, Foremost
<1>6. Worth(E) = Part(f, E) /\ Worth(V) = Part(f, V)
  BY <1>1, WorthIsPart
<1>7. E = U \cup V /\ U \cap V = {}
  OBVIOUS
<1> HIDE DEF U, V, f, key, K, Line, line, of, L, T
<1>8. SumOf(T, "cents") = Part(f, U)
  <2>1. Few(T)
    BY DEF T
  <2>2. IsFiniteSet(L) /\ (\A r \in L : r.cents \in Int) /\ SumOf(L, "cents") = Part(f, U)
    BY <1>1, <1>2, <1>3, <1>4, <1>13, ListAddsUp, Z3
  <2>3. T = L
    BY <2>1, <2>2, <1>5, FewByCents
  <2> QED BY <2>2, <2>3
<1>9. Part(f, E) = Part(f, U) + Part(f, V)
  BY <1>1, <1>7, PartOfBoth
<1> QED
  BY <1>6, <1>8, <1>9 DEF T, V

\* The supporters with the anonymous make the tips.
LEMMA SupportersAddUp ==
  ASSUME Schema(db), NEW c, Few(Supporters(db, c))
  PROVE  FinanceOverview(db, c, 0).tips =
           SumOf(Supporters(db, c), "cents") + SumOf({t \in Sold(db, c, "tip", 0) : t.who
             = NoLogin}, "cents")
<1> DEFINE E == Sold(db, c, "tip", 0)
           U == {t \in E : t.who # NoLogin}
           V == {t \in E : t.who = NoLogin}
           f == [t \in db.tips |-> t.cents]
           key == [t \in U |-> t.who]
           K == {t.who : t \in U}
           By(n) == {t \in U : t.who = n}
           Line(n) == [who |-> n, cents |-> Total([t \in By(n) |-> t.cents]), tips |-> Cardinality(By(n)),
                       last |-> Most({t.at : t \in By(n)}),
                       currency |-> {t.currency : t \in {u \in By(n) : \A v \in By(n) : v.at <= u.at}}]
           line == [n \in K |-> Line(n)]
           of == [n \in K |-> By(n)]
           L == {Line(n) : n \in K}
           T == Supporters(db, c)
<1>1. /\ IsFiniteSet(db.tips) /\ E \in SUBSET db.tips /\ U \in SUBSET db.tips /\ V \in SUBSET db.tips
  BY TablesFinite DEF Sold
<1>2. f \in [db.tips -> Nat] /\ f \in [db.tips -> Int]
  BY DEF Schema
<1>3. \A P \in SUBSET db.tips : Part(f, P) = Total([t \in P |-> t.cents])
  <2> SUFFICES ASSUME NEW P \in SUBSET db.tips PROVE Part(f, P) = Total([t \in P |-> t.cents])
    OBVIOUS
  <2>1. [t \in P |-> t.cents] = [t \in P |-> f[t]]
    OBVIOUS
  <2> QED BY <2>1 DEF Part, Total
<1>4. IsFiniteSet(K) /\ key \in [U -> K]
  <2>1. key \in Surjection(U, K)
    BY DEF Surjection
  <2>2. IsFiniteSet(U)
    BY <1>1, FS_Subset
  <2> HIDE DEF key, K, U
  <2> QED BY <2>1, <2>2, FS_Surjection DEF Surjection
<1>5. line \in Bijection(K, L)
  <2>1. \A n \in K : line[n].who = n
    OBVIOUS
  <2>2. \A n \in K : line[n] = Line(n)
    OBVIOUS
  <2> HIDE DEF K, Line
  <2>3. line \in [K -> L] /\ \A r \in L : \E n \in K : line[n] = r
    OBVIOUS
  <2> QED BY <2>1, <2>3 DEF Bijection, Injection, Surjection, IsInjective
<1>6. \A n \in K : line[n].cents = Part(f, of[n])
  <2>1. \A n \in K : By(n) \in SUBSET db.tips
    BY <1>1
  <2>2. \A n \in K : line[n].cents = Total([t \in By(n) |-> t.cents]) /\ of[n] = By(n)
    OBVIOUS
  <2> HIDE DEF By, f, of, line, K
  <2> QED BY <1>3, <2>1, <2>2
<1>14. of \in [K -> SUBSET U] /\ \A n \in K, t \in U : t \in of[n] <=> key[t] = n
  OBVIOUS
<1>7. T = {r \in L : Cardinality({q \in L : q.cents > r.cents}) < Limit}
  BY DEF Supporters, Foremost
<1>8. FinanceOverview(db, c, 0).tips = Part(f, E)
  <2>1. FinanceOverview(db, c, 0).tips = SoldCents(c, "tip", 0)
    BY OverviewMoney DEF Since
  <2> QED BY <1>1, <1>3, <2>1 DEF SoldCents
<1>9. SumOf(V, "cents") = Part(f, V)
  BY <1>1, <1>3 DEF SumOf
<1>10. E = U \cup V /\ U \cap V = {}
  OBVIOUS
<1>11. Few(T)
  OBVIOUS
<1> HIDE DEF E, U, V, f, key, K, By, Line, line, of, L, T
<1>12. SumOf(T, "cents") = Part(f, U)
  <2>1. IsFiniteSet(L) /\ (\A r \in L : r.cents \in Int) /\ SumOf(L, "cents") = Part(f, U)
    BY <1>1, <1>2, <1>4, <1>5, <1>6, <1>14, ListAddsUp, Z3T(60)
  <2>2. T = L
    BY <2>1, <1>7, <1>11, FewByCents
  <2> QED BY <2>1, <2>2
<1>13. Part(f, E) = Part(f, U) + Part(f, V)
  BY <1>1, <1>2, <1>10, PartOfBoth
<1> QED
  BY <1>8, <1>9, <1>12, <1>13 DEF T, V, E

\* What lives brought is the sum of what each did.
LEMMA WorthOfLives ==
  ASSUME Schema(db), NEW S \in SUBSET db.streams
  PROVE  LET g == [s \in S |-> Worth(EventsOf({s}))]
         IN  /\ g \in [S -> Nat] /\ g \in [S -> Int]
             /\ \A T \in SUBSET S : Worth(EventsOf(T)) = Part(g, T)
<1> DEFINE g == [s \in S |-> Worth(EventsOf({s}))]
           f == Counted("cents")
<1>1. \A s \in S : Worth(EventsOf({s})) \in Nat
  BY EventsOfType, WorthNat
<1>2. ASSUME NEW T \in SUBSET S PROVE Worth(EventsOf(T)) = Part(g, T)
  <2>1. \A s \in T : Part(f, EventsOf({s})) = g[s]
    BY EventsOfType, WorthIsPart
  <2>2. [s \in T |-> Part(f, EventsOf({s}))] = [s \in T |-> g[s]]
    <3> HIDE DEF f, g
    <3> QED BY <2>1
  <2>3. Worth(EventsOf(T)) = Part(f, EventsOf(T))
    BY EventsOfType, WorthIsPart
  <2>4. Part(f, EventsOf(T)) = Total([s \in T |-> Part(f, EventsOf({s}))])
    BY MoneyOfLives DEF MoneyKeys
  <2> HIDE DEF f, g
  <2> QED BY <2>2, <2>3, <2>4 DEF Total, Part
<1>3. g \in [S -> Nat]
  BY <1>1
<1> QED
  BY <1>2, <1>3

\* Of the categories' money and of that of no known category.
LEMMA ContentAddsUp ==
  ASSUME Schema(db), NEW S \in SUBSET db.streams, Few(ContentRevenue(db, S))
  PROVE  Worth(EventsOf(S)) = SumOf(ContentRevenue(db, S), "cents")
                                + Worth(EventsOf({s \in S : s.category = NoLogin}))
<1> DEFINE U == {s \in S : s.category # NoLogin}
           V == {s \in S : s.category = NoLogin}
           g == [s \in S |-> Worth(EventsOf({s}))]
           key == [s \in U |-> s.category]
           K == {s.category : s \in S} \ {NoLogin}
           Of(k) == {s \in S : s.category = k}
           Line(k) ==
             LET T == {s \in S : s.category = k}
                 cents == Worth(Money(RowsOf(db, "events", T)))
                 time == Total([s \in T |-> Until(s) - s.start])
             IN  [category |-> k, cents |-> cents, lives |-> Cardinality(T),
                  hourly |-> IF time = 0 THEN 0 ELSE Rounded(cents * 60 * Minute, time),
                  peak |-> Tenths(Total([s \in T |-> PeakOf(db, s)]), Cardinality(T))]
           line == [k \in K |-> Line(k)]
           of == [k \in K |-> Of(k)]
           L == {Line(k) : k \in K}
           T == ContentRevenue(db, S)
<1>1. IsFiniteSet(S) /\ U \in SUBSET S /\ V \in SUBSET S
  BY TablesFinite, FS_Subset
<1>2. IsFiniteSet(K) /\ key \in [U -> K]
  <2>1. key \in Surjection(U, K)
    BY DEF Surjection
  <2>2. IsFiniteSet(U)
    BY <1>1, FS_Subset
  <2> HIDE DEF key, K, U
  <2> QED BY <2>1, <2>2, FS_Surjection DEF Surjection
<1>3. line \in Bijection(K, L)
  <2>1. \A k \in K : line[k].category = k
    OBVIOUS
  <2>2. \A k \in K : line[k] = Line(k)
    OBVIOUS
  <2> HIDE DEF K, Line
  <2>3. line \in [K -> L] /\ \A r \in L : \E k \in K : line[k] = r
    OBVIOUS
  <2> QED BY <2>1, <2>3 DEF Bijection, Injection, Surjection, IsInjective
<1>4. /\ g \in [S -> Nat] /\ g \in [S -> Int]
      /\ \A P \in SUBSET S : Worth(EventsOf(P)) = Part(g, P)
  <2> HIDE DEF U, V, key, K, Line, line, of, L, T
  <2> QED BY WorthOfLives
<1>5. of \in [K -> SUBSET U] /\ \A k \in K, s \in U : s \in of[k] <=> key[s] = k
  OBVIOUS
<1>6. \A k \in K : line[k].cents = Part(g, of[k])
  <2>1. \A k \in K : line[k].cents = Worth(EventsOf(Of(k)))
    BY DEF EventsOf
  <2>2. \A k \in K : of[k] = Of(k) /\ Of(k) \in SUBSET S
    OBVIOUS
  <2> HIDE DEF g, line, of, Of, K
  <2> QED BY <1>4, <2>1, <2>2
<1>7. T = {r \in L : Cardinality({q \in L : q.cents > r.cents}) < Limit}
  BY DEF ContentRevenue, Foremost
<1>8. S = U \cup V /\ U \cap V = {}
  OBVIOUS
<1>9. Few(T)
  OBVIOUS
<1> HIDE DEF U, V, g, key, K, Of, Line, line, of, L, T
<1>10. IsFiniteSet(L) /\ (\A r \in L : r.cents \in Int) /\ SumOf(L, "cents") = Part(g, U)
  BY <1>1, <1>2, <1>3, <1>4, <1>5, <1>6, ListAddsUp, SMTT(60)
<1>11. T = L
  BY <1>7, <1>9, <1>10, FewByCents
<1>12. Part(g, S) = Part(g, U) + Part(g, V)
  BY <1>1, <1>4, <1>8, PartOfBoth
<1> QED
  BY <1>1, <1>4, <1>10, <1>11, <1>12 DEF T, V

---------------------------------------------------------------------------
(* Periods. *)

\* A longer period's total is no less.
LEMMA TotalGrows ==
  ASSUME Schema(db), NEW c, NEW p, NEW q,
         \A s \in db.streams : s.start >= Since(p) => s.start >= Since(q),
         \A t \in db.tips : t.at >= Since(p) => t.at >= Since(q)
  PROVE  FinanceOverview(db, c, p).total <= FinanceOverview(db, c, q).total
<1> DEFINE f == [t \in db.tips |-> t.cents]
           A == Started(c, Since(p))
           B == Started(c, Since(q))
<1>1. IsFiniteSet(db.tips) /\ IsFiniteSet(db.events) /\ f \in [db.tips -> Nat]
  BY TablesFinite DEF Schema
<1>2. ASSUME NEW kind
      PROVE  /\ SoldCents(c, kind, Since(p)) \in Nat /\ SoldCents(c, kind, Since(q)) \in Nat
             /\ SoldCents(c, kind, Since(p)) <= SoldCents(c, kind, Since(q))
  <2> DEFINE X(n) == Sold(db, c, kind, n)
  <2>1. \A n : X(n) \in SUBSET db.tips
    BY DEF Sold
  <2>2. X(Since(p)) \in SUBSET X(Since(q))
    BY DEF Sold
  <2>3. \A n : SoldCents(c, kind, n) = Part(f, X(n))
    <3> SUFFICES ASSUME NEW n PROVE SoldCents(c, kind, n) = Part(f, X(n))
      OBVIOUS
    <3>1. [t \in X(n) |-> t.cents] = [t \in X(n) |-> f[t]]
      BY <2>1
    <3> QED BY <3>1 DEF SoldCents, Total, Part
  <2> HIDE DEF X, f
  <2>4. Part(f, X(Since(p))) \in Nat /\ Part(f, X(Since(q))) \in Nat
    BY <1>1, <2>1, PartNat
  <2>5. Part(f, X(Since(p))) <= Part(f, X(Since(q)))
    BY <1>1, <2>1, <2>2, PartSubset
  <2> QED BY <2>3, <2>4, <2>5
<1>3. A \in SUBSET B /\ B \in SUBSET db.streams
  BY DEF Started, Ready, LivesOf
<1>4. EventsOf(A) \in SUBSET EventsOf(B) /\ EventsOf(B) \in SUBSET db.events
  BY <1>3 DEF EventsOf, Money, RowsOf
<1>5. Worth(EventsOf(A)) = Part(Counted("cents"), EventsOf(A))
        /\ Worth(EventsOf(B)) = Part(Counted("cents"), EventsOf(B))
  BY <1>4, WorthIsPart
<1>6. Counted("cents") \in [db.events -> Nat]
  BY CountedNat DEF MoneyKeys
<1>7. Worth(EventsOf(A)) <= Worth(EventsOf(B))
  BY <1>1, <1>4, <1>5, <1>6, PartSubset
<1>8. Worth(EventsOf(A)) \in Nat /\ Worth(EventsOf(B)) \in Nat
  BY <1>4, WorthNat
<1>9. /\ FinanceOverview(db, c, p).total
           = Worth(EventsOf(A)) + SoldCents(c, "tip", Since(p)) + SoldCents(c, "merch", Since(p))
      /\ FinanceOverview(db, c, q).total
           = Worth(EventsOf(B)) + SoldCents(c, "tip", Since(q)) + SoldCents(c, "merch", Since(q))
  BY OverviewMoney
<1>10. /\ SoldCents(c, "tip", Since(p)) \in Nat /\ SoldCents(c, "tip", Since(q)) \in Nat
       /\ SoldCents(c, "tip", Since(p)) <= SoldCents(c, "tip", Since(q))
       /\ SoldCents(c, "merch", Since(p)) \in Nat /\ SoldCents(c, "merch", Since(q)) \in Nat
       /\ SoldCents(c, "merch", Since(p)) <= SoldCents(c, "merch", Since(q))
  BY <1>2
<1> HIDE DEF A, B
<1> QED
  BY <1>7, <1>8, <1>9, <1>10

\* A longer period holds no less than a shorter one.
LEMMA PeriodsGrow ==
  ASSUME Schema(db), NEW c, NEW p \in Periods \ {0}, NEW q \in Periods \ {0}, p <= q
  PROVE  /\ FinanceOverview(db, c, p).total <= FinanceOverview(db, c, q).total
         /\ FinanceOverview(db, c, q).total <= FinanceOverview(db, c, 0).total
<1>1. /\ \A s \in db.streams : s.start \in Nat
      /\ \A t \in db.tips : t.at \in Nat
  BY DEF Schema
<1>2. Since(0) = 0
  BY DEF Since
<1>3. Since(p) \in Int /\ Since(q) \in Int /\ Since(q) <= Since(p)
  <2>1. p \in Nat /\ q \in Nat /\ p # 0 /\ q # 0 /\ Now \in Int /\ DayLength \in Nat
    BY PeriodsAssumption, NowAssumption, DayAssumption
  <2>2. (q - p) * DayLength >= 0 /\ q * DayLength = p * DayLength + (q - p) * DayLength
    BY <2>1
  <2>3. p * DayLength \in Int /\ q * DayLength \in Int /\ (q - p) * DayLength \in Int
    BY <2>1
  <2>4. Since(p) = Now - p * DayLength /\ Since(q) = Now - q * DayLength
    BY <2>1 DEF Since
  <2> QED BY <2>1, <2>2, <2>3, <2>4
<1>4. FinanceOverview(db, c, p).total <= FinanceOverview(db, c, q).total
  BY <1>1, <1>3, TotalGrows
<1>5. FinanceOverview(db, c, q).total <= FinanceOverview(db, c, 0).total
  BY <1>1, <1>2, TotalGrows
<1> QED
  BY <1>4, <1>5

---------------------------------------------------------------------------

\* Each part of MoneyAddsUp holds of tables that keep the schema.
LEMMA MoneyOfSchema ==
  ASSUME Schema(db)
  PROVE  MoneyAddsUp
<1> SUFFICES ASSUME NEW c \in Streamers
             PROVE
    LET whole == FinanceOverview(db, c, 0)
        channel == ChannelFinance(db, c)
        ready == Ready(LivesOf(db, c))
        OverLives(S, key) == Total([s \in S |-> StreamFinance(db, s).money[key]])
    IN  /\ \A key \in DOMAIN channel.money :
             /\ channel.money[key] = OverLives(LivesOf(db, c), key)
             /\ whole.money[key] = OverLives(ready, key)
        /\ whole.money.cents = SumOf(Growth(db, c), "cents")
        /\ Few(whole.byLive) => whole.money.cents = SumOf(whole.byLive, "cents")
        /\ Few(channel.contributors) =>
             channel.money.cents = SumOf(channel.contributors, "cents") + Worth(Anonymous(c))
        /\ Few(whole.content) =>
             whole.money.cents = SumOf(whole.content, "cents")
                                 + Worth(Money(RowsOf(db, "events", {s \in ready : s.category = NoLogin})))
        /\ \A p, q \in Periods \ {0} : p <= q =>
             /\ FinanceOverview(db, c, p).total <= FinanceOverview(db, c, q).total
             /\ FinanceOverview(db, c, q).total <= whole.total
        /\ Few(Supporters(db, c)) =>
             whole.tips = SumOf(Supporters(db, c), "cents")
                          + SumOf({t \in Sold(db, c, "tip", 0) : t.who = NoLogin}, "cents")
  BY DEF MoneyAddsUp
<1> DEFINE ready == Ready(LivesOf(db, c))
           E == {e \in Money(db.events) : e.channel = c}
<1>1. DOMAIN ChannelFinance(db, c).money = MoneyKeys
  <2>1. E \in SUBSET db.events
    BY DEF Money
  <2>2. "cents" \in MoneyKeys
    BY DEF MoneyKeys
  <2> QED BY <2>1, <2>2, ChannelMoney, FoldedIsPart
<1>2. ASSUME Few(ChannelFinance(db, c).contributors)
      PROVE  ChannelFinance(db, c).money.cents =
               SumOf(ChannelFinance(db, c).contributors, "cents") + Worth(Anonymous(c))
  <2>1. E \in SUBSET db.events
    BY DEF Money
  <2>2. ChannelFinance(db, c).money.cents = Worth(E) /\ ChannelFinance(db, c).contributors = Contributors(E)
    <3>1. ChannelFinance(db, c).money = Folded(E)
      BY ChannelMoney
    <3> HIDE DEF E
    <3>2. ChannelFinance(db, c).money.cents = Worth(E)
      BY <3>1 DEF Folded
    <3>3. ChannelFinance(db, c).contributors = Contributors(E)
      BY ChannelMoney DEF E
    <3> QED BY <3>2, <3>3
  <2>3. Anonymous(c) = {e \in E : e.login = NoLogin}
    BY DEF Anonymous
  <2> HIDE DEF E
  <2> QED BY <1>2, <2>1, <2>2, <2>3, ContributorsAddUp
<1>3. ASSUME Few(FinanceOverview(db, c, 0).content)
      PROVE  FinanceOverview(db, c, 0).money.cents =
               SumOf(FinanceOverview(db, c, 0).content, "cents")
                 + Worth(Money(RowsOf(db, "events", {s \in ready : s.category = NoLogin})))
  <2>1. ready \in SUBSET db.streams
    BY DEF Ready, LivesOf
  <2>2. /\ FinanceOverview(db, c, 0).money.cents = Worth(EventsOf(ready))
        /\ FinanceOverview(db, c, 0).content = ContentRevenue(db, ready)
    <3>1. FinanceOverview(db, c, 0).money = Folded(EventsOf(ready))
      BY OverviewMoney, AllStarted
    <3>2. FinanceOverview(db, c, 0).content = ContentRevenue(db, ready)
      BY OverviewMoney, AllStarted
    <3> HIDE DEF ready
    <3>3. FinanceOverview(db, c, 0).money.cents = Worth(EventsOf(ready))
      BY <3>1 DEF Folded
    <3> QED BY <3>2, <3>3
  <2> HIDE DEF ready
  <2> QED BY <1>3, <2>1, <2>2, ContentAddsUp DEF EventsOf
<1> QED
  BY <1>1, <1>2, <1>3, ChannelIsLives, GrowthAddsUp, ByLiveAddsUp, PeriodsGrow, SupportersAddUp

\* Whatever is stored, and in whatever order, the pages' money adds up.
THEOREM MoneyTotals == ScreensSpec => []MoneyAddsUp
<1>1. RowsInv => MoneyAddsUp
  BY RowsOfSchema, MoneyOfSchema
<1> QED
  BY <1>1, RowsAlways, PTL

---------------------------------------------------------------------------
(* A channel's pages are of its own rows (KeptApart).                      *)
(*                                                                         *)
(* OwnSuffice says, from the keys, that tables cut down to the channel's   *)
(* rows are read alike by everything a page reads about the channel        *)
(* (SameReads).  A lemma for each page says that tables read alike give    *)
(* the same page.                                                          *)

\* Tables whose rows have the id of a live.
OfLives == OfBoth \cup LiveOnly

\* What the pages of channel c read, d and e hold alike: its lives and zone, the rows of
\* its lives, its own rows, and what they refer to.
SameReads(d, e, c) ==
  /\ LivesOf(d, c) = LivesOf(e, c) /\ ChannelOf(d, c) = ChannelOf(e, c) /\ ZoneOf(d, c) = ZoneOf(e, c)
  /\ \A t \in OfLives, S \in SUBSET LivesOf(d, c) : RowsOf(d, t, S) = RowsOf(e, t, S)
  /\ \A t \in OfBoth \cup OfChannels : {r \in d[t] : r.channel = c} = {r \in e[t] : r.channel = c}
  /\ \A i \in RowsOf(d, "insights", LivesOf(d, c)) :
       {g \in d.segments : g.id \in i.segments} = {g \in e.segments : g.id \in i.segments}
  /\ \A x \in RowsOf(d, "events", LivesOf(d, c)) :
       {v \in d.samples : v.live = x.live} = {v \in e.samples : v.live = x.live}

\* The rows of some of its lives, table by table.
LEMMA SameRows ==
  ASSUME NEW d, NEW e, NEW c, SameReads(d, e, c), NEW S \in SUBSET LivesOf(d, c)
  PROVE  /\ RowsOf(d, "chat", S) = RowsOf(e, "chat", S)
         /\ RowsOf(d, "events", S) = RowsOf(e, "events", S)
         /\ RowsOf(d, "samples", S) = RowsOf(e, "samples", S)
         /\ RowsOf(d, "peaks", S) = RowsOf(e, "peaks", S)
         /\ RowsOf(d, "insights", S) = RowsOf(e, "insights", S)
         /\ RowsOf(d, "segments", S) = RowsOf(e, "segments", S)
         /\ RowsOf(d, "records", S) = RowsOf(e, "records", S)
<1>1. {"chat", "events", "samples", "peaks", "insights", "segments", "records"} \subseteq OfLives
  BY DEF OfLives, OfBoth, LiveOnly, Captured, Findings
<1> QED
  BY <1>1 DEF SameReads

\* Its own rows, table by table.
LEMMA SameOwn ==
  ASSUME NEW d, NEW e, NEW c, SameReads(d, e, c)
  PROVE  /\ {r \in d.chat : r.channel = c} = {r \in e.chat : r.channel = c}
         /\ {r \in d.events : r.channel = c} = {r \in e.events : r.channel = c}
         /\ {r \in d.clips : r.channel = c} = {r \in e.clips : r.channel = c}
         /\ {r \in d.records : r.channel = c} = {r \in e.records : r.channel = c}
         /\ {r \in d.tips : r.channel = c} = {r \in e.tips : r.channel = c}
         /\ {r \in d.loyalty : r.channel = c} = {r \in e.loyalty : r.channel = c}
         /\ {r \in d.followers : r.channel = c} = {r \in e.followers : r.channel = c}
         /\ {r \in d.subs : r.channel = c} = {r \in e.subs : r.channel = c}
         /\ {r \in d.bits : r.channel = c} = {r \in e.bits : r.channel = c}
<1>1. {"chat", "events", "clips", "records", "tips", "loyalty", "followers", "subs", "bits"}
       \subseteq OfBoth \cup OfChannels
  BY DEF OfBoth, LiveOnly, Captured, Findings, OfChannels
<1> QED
  BY <1>1 DEF SameReads

\* By the keys, what is referred to from a channel's rows is the channel's: its own rows
\* alone are read alike.
LEMMA OwnSuffice ==
  ASSUME Schema(db), NEW c \in {h.channel : h \in db.channels}
  PROVE  SameReads(db, OwnRows(c), c)
<1> DEFINE o == OwnRows(c)
<1>1. /\ \A t \in LiveOnly : o[t] = RowsOf(db, t, LivesOf(db, c))
      /\ \A t \in Tables \ LiveOnly : o[t] = {r \in db[t] : r.channel = c}
  <2>1. LiveOnly \subseteq Tables
    BY DEF LiveOnly, Tables, Captured, Findings
  <2>2. \A t \in Tables :
          o[t] = IF t \in LiveOnly THEN RowsOf(db, t, LivesOf(db, c)) ELSE {r \in db[t] : r.channel = c}
    BY DEF OwnRows
  <2> HIDE DEF o
  <2> QED BY <2>1, <2>2
<1>2. o.channels = {r \in db.channels : r.channel = c} /\ o.streams = {r \in db.streams : r.channel = c}
  BY <1>1 DEF Tables, LiveOnly
<1>3. LiveOnly \subseteq Tables /\ OfBoth \subseteq Tables \ LiveOnly
        /\ OfChannels \subseteq Tables \ LiveOnly
  BY DEF LiveOnly, Tables, OfBoth, Captured, Findings, OfChannels
<1>4. o.segments = RowsOf(db, "segments", LivesOf(db, c))
        /\ o.samples = RowsOf(db, "samples", LivesOf(db, c))
  BY <1>1 DEF LiveOnly
<1> HIDE DEF o
<1>5. LivesOf(db, c) = LivesOf(o, c)
  BY <1>2 DEF LivesOf
<1>6. ChannelOf(db, c) = ChannelOf(o, c) /\ ZoneOf(db, c) = ZoneOf(o, c)
  <2>1. PICK h \in db.channels : h.channel = c
    OBVIOUS
  <2>2. \A g \in db.channels : g.channel = c => g = h
    BY <2>1 DEF Schema
  <2>3. (CHOOSE g \in db.channels : g.channel = c) = h
    BY <2>1, <2>2
  <2>4. (CHOOSE g \in o.channels : g.channel = c) = h
    BY <1>2, <2>1, <2>2
  <2> QED BY <2>3, <2>4 DEF ChannelOf, ZoneOf
<1>7. ASSUME NEW t \in OfLives, NEW S \in SUBSET LivesOf(db, c)
      PROVE  RowsOf(db, t, S) = RowsOf(o, t, S)
  <2>1. CASE t \in LiveOnly
    <3>1. o[t] = RowsOf(db, t, LivesOf(db, c))
      BY <1>1, <2>1
    <3> QED BY <3>1 DEF RowsOf
  <2>2. CASE t \in OfBoth
    <3>1. o[t] = {r \in db[t] : r.channel = c}
      BY <1>1, <1>3, <2>2
    <3>2. \A r \in db[t], s \in S : r.live = s.id => r.channel = c
      BY <2>2 DEF Schema, LivesOf
    <3> QED BY <3>1, <3>2 DEF RowsOf
  <2> QED BY <2>1, <2>2 DEF OfLives
<1>8. ASSUME NEW t \in OfBoth \cup OfChannels
      PROVE  {r \in db[t] : r.channel = c} = {r \in o[t] : r.channel = c}
  BY <1>1, <1>3
<1>9. ASSUME NEW i \in RowsOf(db, "insights", LivesOf(db, c))
      PROVE  {g \in db.segments : g.id \in i.segments} = {g \in o.segments : g.id \in i.segments}
  BY <1>4 DEF RowsOf, Schema
<1>10. ASSUME NEW x \in RowsOf(db, "events", LivesOf(db, c))
       PROVE  {v \in db.samples : v.live = x.live} = {v \in o.samples : v.live = x.live}
  BY <1>4 DEF RowsOf
<1> QED
  BY <1>5, <1>6, <1>7, <1>8, <1>9, <1>10 DEF SameReads, o

\* The rows of one live.
SameOf(d, e, s) ==
  /\ RowsOf(d, "chat", {s}) = RowsOf(e, "chat", {s})
  /\ RowsOf(d, "events", {s}) = RowsOf(e, "events", {s})
  /\ RowsOf(d, "samples", {s}) = RowsOf(e, "samples", {s})
  /\ RowsOf(d, "peaks", {s}) = RowsOf(e, "peaks", {s})
  /\ RowsOf(d, "insights", {s}) = RowsOf(e, "insights", {s})
  /\ RowsOf(d, "segments", {s}) = RowsOf(e, "segments", {s})
  /\ RowsOf(d, "records", {s}) = RowsOf(e, "records", {s})

\* They are the same for every live of the channel.
LEMMA SameTables ==
  ASSUME NEW d, NEW e, NEW c, SameReads(d, e, c), NEW s \in LivesOf(d, c)
  PROVE  SameOf(d, e, s)
  BY SameRows DEF SameOf

\* Topics, minutes of chat and citations of a live.
LEMMA SameCited ==
  ASSUME NEW d, NEW e, NEW c, SameReads(d, e, c), NEW s \in LivesOf(d, c)
  PROVE  /\ Topics(d, s) = Topics(e, s) /\ Buckets(d, s) = Buckets(e, s)
         /\ \A i : CitedSegments(d, s, i) = CitedSegments(e, s, i)
         /\ \A i : CitedMessages(d, s, i) = CitedMessages(e, s, i)
<1>s. SameOf(d, e, s)
  BY SameTables
<1>1. Topics(d, s) = Topics(e, s)
  BY <1>s DEF SameOf, Topics
<1>2. Buckets(d, s) = Buckets(e, s)
  BY <1>s DEF SameOf, Buckets
<1>3. ASSUME NEW i PROVE CitedSegments(d, s, i) = CitedSegments(e, s, i)
  BY <1>s DEF SameOf, CitedSegments
<1>4. ASSUME NEW i PROVE CitedMessages(d, s, i) = CitedMessages(e, s, i)
  BY <1>s DEF SameOf, CitedMessages
<1> QED BY <1>1, <1>2, <1>3, <1>4

\* A topic's page, or its 404.
LEMMA SameTopicDetail ==
  ASSUME NEW d, NEW e, NEW c, SameReads(d, e, c), NEW s \in LivesOf(d, c), NEW id
  PROVE  TopicDetail(d, s, id) = TopicDetail(e, s, id)
<1>s. SameOf(d, e, s)
  BY SameTables
<1> DEFINE i(x) == CHOOSE t \in Topics(x, s) : t.id = id
           g(x) == CitedSegments(x, s, i(x))
           Unknown(x) == ~(\E t \in Topics(x, s) : t.id = id) \/ g(x) = {}
           Shown(segments, all) ==
             LET w == Window(segments)
                 inside == During(all, w.from, w.to)
                 AtLeast(n, m) == IF n < m THEN m ELSE n
             IN  [window |-> w, messages |-> Cardinality(inside),
                  lift |-> IF all = {} THEN {}
                           ELSE {Rounded(100 * Cardinality(inside) * AtLeast(Until(s) - s.start, Minute),
                                         AtLeast(w.to - w.from, Minute) * Cardinality(all))},
                  chatters |-> Foremost({<<l, Cardinality(SaidBy(l, inside))>> : l \in Logins(inside)},
                                        LAMBDA p, q : p[2] > q[2]),
                  words |-> CommonWords(inside), sample |-> Foremost(inside, Earlier),
                  segments |-> segments]
<1>1. \A x : TopicDetail(x, s, id) = IF Unknown(x) THEN NotFound ELSE Shown(g(x), RowsOf(x, "chat", {s}))
  BY DEF TopicDetail
<1> HIDE DEF Shown
<1>2. i(d) = i(e)
  BY SameCited
<1>3. g(d) = g(e)
  <2>1. \A k : CitedSegments(d, s, k) = CitedSegments(e, s, k)
    BY SameCited
  <2> HIDE DEF i
  <2> QED BY <1>2, <2>1
<1>4. Unknown(d) <=> Unknown(e)
  <2>1. Topics(d, s) = Topics(e, s)
    BY SameCited
  <2> HIDE DEF g
  <2> QED BY <1>3, <2>1
<1> HIDE DEF Unknown, g
<1> QED BY <1>1, <1>3, <1>4, <1>s DEF SameOf

\* The engagement of topics; the busiest is chosen from the same ones.
LEMMA SameEngagement ==
  ASSUME NEW d, NEW e, NEW c, SameReads(d, e, c), NEW s \in LivesOf(d, c)
  PROVE  Engagement(d, s) = Engagement(e, s)
<1>s. SameOf(d, e, s)
  BY SameTables
<1> DEFINE
      Rate(x, i) ==
        LET w == Window(CitedSegments(x, s, i))
            inside == {b \in DOMAIN Buckets(x, s) : w.from <= b * Minute /\ b * Minute <= w.to}
        IN  IF CitedSegments(x, s, i) = {} \/ inside = {} THEN <<0, 1>>
            ELSE <<Total([b \in inside |-> Buckets(x, s)[b]]), Cardinality(inside)>>
      Busiest(x) ==
        CHOOSE i \in Topics(x, s) :
          \A j \in Topics(x, s) : Rate(x, j)[1] * Rate(x, i)[2] <= Rate(x, i)[1] * Rate(x, j)[2]
      Line(x, i, b) ==
        [of |-> i.id,
         pct |-> IF Rate(x, b)[1] = 0 THEN 0
                 ELSE Percent(Rate(x, i)[1] * Rate(x, b)[2], Rate(x, i)[2] * Rate(x, b)[1])]
<1>1. \A x : Engagement(x, s) = IF RowsOf(x, "chat", {s}) = {} THEN {}
                                ELSE {Line(x, i, Busiest(x)) : i \in Topics(x, s)}
  BY DEF Engagement
<1>2. ASSUME NEW i PROVE Rate(d, i) = Rate(e, i)
  <2>1. CitedSegments(d, s, i) = CitedSegments(e, s, i)
    BY SameCited
  <2> QED BY <2>1, SameCited
<1>t. Topics(d, s) = Topics(e, s)
  BY SameCited
<1> HIDE DEF Rate
<1>3. Busiest(d) = Busiest(e)
  BY <1>2, <1>t
<1>4. ASSUME NEW i, NEW b PROVE Line(d, i, b) = Line(e, i, b)
  BY <1>2
<1> HIDE DEF Busiest, Line
<1>5. {Line(d, i, Busiest(d)) : i \in Topics(d, s)} = {Line(e, i, Busiest(e)) : i \in Topics(e, s)}
  BY <1>3, <1>4, <1>t
<1> QED BY <1>1, <1>5, <1>s DEF SameOf

\* The numbers of a live.
LEMMA SameNumbersRead ==
  ASSUME NEW d, NEW e, NEW c, SameReads(d, e, c), NEW s \in LivesOf(d, c)
  PROVE  Numbers(d, s) = Numbers(e, s) /\ Metrics(d, s) = Metrics(e, s) /\ PeakOf(d, s) = PeakOf(e, s)
         /\ Moment(d, s) = Moment(e, s)
<1>s. SameOf(d, e, s)
  BY SameTables
<1>1. Numbers(d, s) = Numbers(e, s)
  BY <1>s DEF SameOf, Numbers
<1>2. Metrics(d, s) = Metrics(e, s)
  <2> DEFINE Of(chat, events, samples) ==
        LET Number(type) == Cardinality(OfType(events, {type}))
            minutes == Tenths(Until(s) - s.start, Minute)
        IN  [messages |-> Cardinality(chat), chatters |-> Cardinality(Authors(chat)),
             events |-> Cardinality(events), follows |-> Number("follow"),
             peak |-> Most({v.viewers : v \in samples}),
             average |-> IF samples = {} THEN 0
                         ELSE Tenths(Total([v \in samples |-> v.viewers]), Cardinality(samples)),
             minutes |-> minutes,
             rate |-> IF minutes > 0 THEN Rounded(1000 * Cardinality(chat), minutes) ELSE 0,
             subs |-> Number("sub"), gifts |-> Sum(OfType(events, {"gift"})),
             bits |-> Sum(OfType(events, {"cheer"})), raids |-> Number("raid"),
             cents |-> Worth(Money(events)), resubs |-> Number("resub")]
  <2>1. \A x : Metrics(x, s) =
          Of(RowsOf(x, "chat", {s}), RowsOf(x, "events", {s}), RowsOf(x, "samples", {s}))
    BY DEF Metrics
  <2> HIDE DEF Of
  <2>2. /\ RowsOf(d, "chat", {s}) = RowsOf(e, "chat", {s})
        /\ RowsOf(d, "events", {s}) = RowsOf(e, "events", {s})
        /\ RowsOf(d, "samples", {s}) = RowsOf(e, "samples", {s})
    BY <1>s DEF SameOf
  <2> QED BY <2>1, <2>2
<1>3. PeakOf(d, s) = PeakOf(e, s)
  BY <1>s DEF SameOf, PeakOf
<1>4. Moment(d, s) = Moment(e, s)
  BY <1>s DEF SameOf, Moment
<1> QED BY <1>1, <1>2, <1>3, <1>4

\* The report of a live, with the lives before it.
LEMMA SameReport ==
  ASSUME NEW d, NEW e, NEW c, SameReads(d, e, c), NEW s \in LivesOf(d, c)
  PROVE  Report(d, s) = Report(e, s)
<1>s. SameOf(d, e, s)
  BY SameTables
<1>c. s.channel = c
  BY DEF LivesOf
<1>1. Previous(d, s) = Previous(e, s) /\ Previous(d, s) \subseteq LivesOf(d, c)
  BY <1>c DEF Previous, SameReads, Foremost, Ready
<1>2. Compared(d, s) = Compared(e, s)
  <2> DEFINE Average(x, key) ==
               Rounded(Total([p \in Previous(x, s) |-> Numbers(x, p)[key]]), Cardinality(Previous(x, s)))
             Delta(x, key) ==
               IF Previous(x, s) = {} \/ Average(x, key) = 0 THEN {}
               ELSE {Percent(Numbers(x, s)[key] - Average(x, key), Average(x, key))}
             Line(x, key) == [value |-> Numbers(x, s)[key], delta |-> Delta(x, key)]
  <2>1. \A x : Compared(x, s) = [key \in DOMAIN Numbers(x, s) |-> Line(x, key)]
    BY DEF Compared
  <2>2. ASSUME NEW key PROVE Average(d, key) = Average(e, key)
    <3>1. [p \in Previous(d, s) |-> Numbers(d, p)[key]] = [p \in Previous(e, s) |-> Numbers(e, p)[key]]
      BY <1>1, SameNumbersRead
    <3> QED BY <1>1, <3>1
  <2>3. Numbers(d, s) = Numbers(e, s)
    BY SameNumbersRead
  <2> HIDE DEF Average
  <2>4. ASSUME NEW key PROVE Line(d, key) = Line(e, key)
    BY <1>1, <2>2, <2>3
  <2> HIDE DEF Line
  <2> QED BY <2>1, <2>3, <2>4
<1> DEFINE Line(x, i) ==
             [insight |-> i, messages |-> CitedMessages(x, s, i), segments |-> CitedSegments(x, s, i)]
<1>3. {Line(d, i) : i \in RowsOf(d, "insights", {s})} = {Line(e, i) : i \in RowsOf(e, "insights", {s})}
  BY SameCited, <1>s DEF SameOf
<1> QED BY <1>2, <1>3, SameEngagement, <1>s DEF SameOf, Report

\* Who spoke on a live.
LEMMA SamePeople ==
  ASSUME NEW d, NEW e, NEW c, SameReads(d, e, c), NEW s \in LivesOf(d, c)
  PROVE  ChatterList(d, s) = ChatterList(e, s) /\ Community(d, s) = Community(e, s)
<1>s. SameOf(d, e, s)
  BY SameTables
<1>1. ASSUME NEW M PROVE InPeaks(d, s, M) = InPeaks(e, s, M)
  BY <1>s DEF SameOf, InPeaks
<1>2. FollowedLogins(d, s) = FollowedLogins(e, s)
  BY <1>s DEF SameOf, FollowedLogins
<1>3. ASSUME NEW M, NEW followed PROVE Labels(d, s, M, followed) = Labels(e, s, M, followed)
  BY <1>1 DEF Labels
<1>4. ASSUME NEW login PROVE Chatter(d, s, login) = Chatter(e, s, login)
  BY <1>1, <1>2, <1>3, <1>s DEF SameOf, Chatter
<1>5. ChatterList(d, s) = ChatterList(e, s)
  BY <1>4, <1>s DEF SameOf, ChatterList
<1>6. Community(d, s) = Community(e, s)
  BY <1>s DEF SameOf, Community
<1> QED BY <1>5, <1>6

\* The timeline and the peaks of a live.
LEMMA SameMoments ==
  ASSUME NEW d, NEW e, NEW c, SameReads(d, e, c), NEW s \in LivesOf(d, c)
  PROVE  /\ Timeline(d, s) = Timeline(e, s)
         /\ \A id : PeakDetail(d, s, id) = PeakDetail(e, s, id)
<1>s. SameOf(d, e, s)
  BY SameTables
<1>1. Timeline(d, s) = Timeline(e, s)
  <2>1. Buckets(d, s) = Buckets(e, s)
    BY SameCited
  <2> QED BY <1>s, <2>1 DEF SameOf, Timeline
<1>2. ASSUME NEW id PROVE PeakDetail(d, s, id) = PeakDetail(e, s, id)
  BY <1>s DEF SameOf, PeakDetail
<1> QED BY <1>1, <1>2

\* The money of a live.
LEMMA SameFinance ==
  ASSUME NEW d, NEW e, NEW c, SameReads(d, e, c), NEW s \in LivesOf(d, c)
  PROVE  TopicWindows(d, s) = TopicWindows(e, s) /\ StreamFinance(d, s) = StreamFinance(e, s)
<1>s. SameOf(d, e, s)
  BY SameTables
<1>1. TopicWindows(d, s) = TopicWindows(e, s)
  <2>1. Topics(d, s) = Topics(e, s) /\ \A i : CitedSegments(d, s, i) = CitedSegments(e, s, i)
    BY SameCited
  <2> QED BY <2>1 DEF TopicWindows
<1>2. StreamFinance(d, s) = StreamFinance(e, s)
  BY <1>1, <1>s DEF SameOf, StreamFinance
<1> QED BY <1>1, <1>2

\* The dips of a live, their causes and what to do about them.
LEMMA SameActionable ==
  ASSUME NEW d, NEW e, NEW c, SameReads(d, e, c), NEW s \in LivesOf(d, c)
  PROVE  Actionable(d, s) = Actionable(e, s)
<1>s. SameOf(d, e, s)
  BY SameTables
<1>1. ASSUME NEW at PROVE DipContext(d, s, at) = DipContext(e, s, at)
  BY <1>s DEF SameOf, DipContext
<1>2. ASSUME NEW at PROVE DipCause(d, s, at) = DipCause(e, s, at)
  BY <1>s DEF SameOf, DipCause
<1>3. ASSUME NEW dip PROVE Recovery(d, s, dip) = Recovery(e, s, dip)
  BY <1>s DEF SameOf, Recovery
<1>4. Dips(d, s) = Dips(e, s)
  BY <1>s DEF SameOf, Dips
<1>5. Unanswered(d, s) = Unanswered(e, s)
  BY <1>s DEF SameOf, Unanswered
<1> DEFINE Line(x, f) ==
  [dip |-> f, context |-> DipContext(x, s, f.at), cause |-> DipCause(x, s, f.at),
   recovery |-> Recovery(x, s, f),
   chat |-> Foremost({m \in RowsOf(x, "chat", {s}) : Distance(m.at, f.at) <= Minute}, Earlier)]
<1>6. ASSUME NEW f PROVE Line(d, f) = Line(e, f)
  BY <1>1, <1>2, <1>3, <1>s DEF SameOf
<1> HIDE DEF Line
<1>7. {Line(d, f) : f \in Dips(d, s)} = {Line(e, f) : f \in Dips(e, s)}
  BY <1>4, <1>6
<1> DEFINE Shown(lines, samples, peaks, unanswered) ==
  LET peak  == Most({v.viewers : v \in samples})
      final == {v \in samples : \A w \in samples : w.at <= v.at}
  IN  [retention |-> {[peak |-> peak, final |-> v.viewers,
                       kept |-> IF peak = 0 THEN 0 ELSE Percent(v.viewers, peak)] : v \in final},
       dips |-> lines,
       clips |-> Foremost(peaks, LAMBDA p, q : p.score > q.score),
       unanswered |-> Cardinality(unanswered), samples |-> Foremost(unanswered, Later)]
<1>8. \A x : Actionable(x, s) = Shown({Line(x, f) : f \in Dips(x, s)}, RowsOf(x, "samples", {s}),
                                       RowsOf(x, "peaks", {s}), Unanswered(x, s))
  BY DEF Actionable, Line
<1> HIDE DEF Shown
<1> QED BY <1>5, <1>7, <1>8, <1>s DEF SameOf

\* All that is served of a live.
LEMMA SameLivePages ==
  ASSUME NEW d, NEW e, NEW c, SameReads(d, e, c), NEW s \in LivesOf(d, c), NEW w
  PROVE  LivePages(d, w, s) = LivePages(e, w, s)
<1>1. Report(d, s) = Report(e, s)
  BY SameReport
<1>2. Timeline(d, s) = Timeline(e, s) /\ \A id : PeakDetail(d, s, id) = PeakDetail(e, s, id)
  BY SameMoments
<1>3. ChatterList(d, s) = ChatterList(e, s) /\ Community(d, s) = Community(e, s)
  BY SamePeople
<1>4. ASSUME NEW id PROVE TopicDetail(d, s, id) = TopicDetail(e, s, id)
  BY SameTopicDetail
<1>5. Actionable(d, s) = Actionable(e, s)
  BY SameActionable
<1>6. StreamFinance(d, s) = StreamFinance(e, s)
  BY SameFinance
<1> QED BY <1>1, <1>2, <1>3, <1>4, <1>5, <1>6 DEF LivePages

\* A live in the list, with the records that it holds.
LEMMA SameLiveItem ==
  ASSUME NEW d, NEW e, NEW c, SameReads(d, e, c), NEW s \in LivesOf(d, c)
  PROVE  LiveItem(d, s) = LiveItem(e, s)
<1>s. SameOf(d, e, s)
  BY SameTables
<1>c. s.channel = c
  BY DEF LivesOf
<1>1. Held(d, s) = Held(e, s)
  <2>1. {r \in d.records : r.channel = c} = {r \in e.records : r.channel = c}
    BY SameOwn
  <2> QED BY <1>c, <1>s, <2>1 DEF SameOf, Held
<1>2. LivesOf(d, s.channel) = LivesOf(e, s.channel) /\ ZoneOf(d, s.channel) = ZoneOf(e, s.channel)
  BY <1>c DEF SameReads
<1> QED BY <1>1, <1>2, <1>s DEF SameOf, LiveItem, LocalDay

\* The list of lives, the days, the clips and what is found by a search.
LEMMA SameLists ==
  ASSUME NEW d, NEW e, NEW c, SameReads(d, e, c)
  PROVE  /\ LiveList(d, c) = LiveList(e, c) /\ DayChatters(d, c) = DayChatters(e, c)
         /\ ClipList(d, c) = ClipList(e, c)
         /\ \A id : Owned(d, c, id) = Owned(e, c, id)
         /\ \A word, ids : Search(d, c, word, ids) = Search(e, c, word, ids)
<1>l. LivesOf(d, c) = LivesOf(e, c)
  BY DEF SameReads
<1>z. \A at : LocalDay(d, c, at) = LocalDay(e, c, at)
  BY DEF SameReads, LocalDay
<1>1. LiveList(d, c) = LiveList(e, c)
  BY <1>l, SameLiveItem DEF LiveList
<1>2. DayChatters(d, c) = DayChatters(e, c)
  <2>1. \A S \in SUBSET LivesOf(d, c) : RowsOf(d, "chat", S) = RowsOf(e, "chat", S)
    BY SameRows
  <2> DEFINE chatted(x) == {s \in LivesOf(x, c) : RowsOf(x, "chat", {s}) # {}}
             Day(x, k) == {s \in chatted(x) : LocalDay(x, c, s.start) = k}
  <2>2. chatted(d) = chatted(e) /\ chatted(d) \subseteq LivesOf(d, c)
    BY <1>l, <2>1
  <2>3. \A x : DayChatters(x, c) = [k \in {LocalDay(x, c, s.start) : s \in chatted(x)} |->
                                      Cardinality(Authors(RowsOf(x, "chat", Day(x, k))))]
    BY DEF DayChatters
  <2> HIDE DEF chatted
  <2>4. ASSUME NEW k PROVE RowsOf(d, "chat", Day(d, k)) = RowsOf(e, "chat", Day(e, k))
    <3>1. Day(d, k) = Day(e, k) /\ Day(d, k) \subseteq LivesOf(d, c)
      BY <1>z, <2>2
    <3> HIDE DEF Day
    <3> QED BY <2>1, <3>1
  <2>5. {LocalDay(d, c, s.start) : s \in chatted(d)} = {LocalDay(e, c, s.start) : s \in chatted(e)}
    BY <1>z, <2>2
  <2> HIDE DEF Day
  <2> QED BY <2>3, <2>4, <2>5
<1>3. ClipList(d, c) = ClipList(e, c)
  BY SameOwn DEF ClipList
<1>4. ASSUME NEW id PROVE Owned(d, c, id) = Owned(e, c, id)
  <2>1. \A x : Owned(x, c, id) = {s \in LivesOf(x, c) : s.id = id}
    BY DEF Owned, LivesOf
  <2> QED BY <1>l, <2>1
<1>5. ASSUME NEW word, NEW ids PROVE Search(d, c, word, ids) = Search(e, c, word, ids)
  <2> DEFINE lives(x) == {s \in LivesOf(x, c) : s.id \in ids}
             Said(x) == {m \in x.chat : m.channel = c /\ m.live \in ids /\ word \in m.words}
             Spoken(x) == {g \in RowsOf(x, "segments", lives(x)) : word \in g.words}
             Found(said, spoken) ==
               Foremost({[live |-> m.live, at |-> m.at, login |-> m.login] : m \in Foremost(said, Later)}
                        \cup {[live |-> g.live, at |-> g.from, login |-> NoLogin] :
                                g \in Foremost(spoken, LAMBDA g, h : g.from > h.from)}, Later)
  <2>1. \A x : Search(x, c, word, ids) = Found(Said(x), Spoken(x))
    BY DEF Search
  <2>2. Said(d) = Said(e)
    <3>1. \A x : Said(x) = {m \in {r \in x.chat : r.channel = c} : m.live \in ids /\ word \in m.words}
      OBVIOUS
    <3>2. {r \in d.chat : r.channel = c} = {r \in e.chat : r.channel = c}
      BY SameOwn
    <3> HIDE DEF Said
    <3> QED BY <3>1, <3>2
  <2>3. Spoken(d) = Spoken(e)
    <3>1. lives(d) = lives(e) /\ lives(d) \subseteq LivesOf(d, c)
      BY <1>l
    <3> HIDE DEF lives
    <3>2. RowsOf(d, "segments", lives(d)) = RowsOf(e, "segments", lives(e))
      BY <3>1, SameRows
    <3> QED BY <3>2
  <2> HIDE DEF Said, Spoken, Found
  <2> QED BY <2>1, <2>2, <2>3
<1> QED BY <1>1, <1>2, <1>3, <1>4, <1>5

\* All that is served under /streams.
LEMMA SamePagesOfLives ==
  ASSUME NEW d, NEW e, NEW c, SameReads(d, e, c), NEW w
  PROVE  PagesOfLives(d, w, c) = PagesOfLives(e, w, c)
<1>1. ASSUME NEW id
      PROVE  {LivePages(d, w, s) : s \in Owned(d, c, id)} = {LivePages(e, w, s) : s \in Owned(e, c, id)}
  <2>1. Owned(d, c, id) = Owned(e, c, id)
    BY SameLists
  <2>2. \A s \in Owned(d, c, id) : s \in LivesOf(d, c)
    BY DEF Owned, LivesOf
  <2>3. \A s \in Owned(d, c, id) : LivePages(d, w, s) = LivePages(e, w, s)
    BY <2>2, SameLivePages
  <2> QED BY <2>1, <2>3
<1>2. [id \in LiveIds(w) |-> {LivePages(d, w, s) : s \in Owned(d, c, id)}]
      = [id \in LiveIds(w) |-> {LivePages(e, w, s) : s \in Owned(e, c, id)}]
  BY <1>1
<1>3. [k \in Words(w) |-> Search(d, c, k, LiveIds(w))] = [k \in Words(w) |-> Search(e, c, k, LiveIds(w))]
  BY SameLists
<1>4. LiveList(d, c) = LiveList(e, c) /\ DayChatters(d, c) = DayChatters(e, c)
        /\ ClipList(d, c) = ClipList(e, c)
  BY SameLists
<1> QED BY <1>2, <1>3, <1>4 DEF PagesOfLives

\* MeanPercent, with functions for its operators.
MeanOf(S, part, whole) ==
  LET all == FoldFunction(LAMBDA a, b : a * b, 1, whole)
  IN  IF S = {} THEN {}
      ELSE {Percent(Total([x \in S |-> part[x] * (all \div whole[x])]), all * Cardinality(S))}

\* Chatters against viewers.
LEMMA SameEngaged ==
  ASSUME NEW d, NEW e, NEW c, SameReads(d, e, c), NEW S \in SUBSET LivesOf(d, c)
  PROVE  EngagedViewers(d, S) = EngagedViewers(e, S)
<1>1. \A s \in S : PeakOf(d, s) = PeakOf(e, s)
  BY SameNumbersRead
<1>2. \A s \in S : RowsOf(d, "chat", {s}) = RowsOf(e, "chat", {s})
  BY SameRows
<1> DEFINE T(x) == {s \in S : PeakOf(x, s) > 0}
           P(x, s) == Cardinality(Authors(RowsOf(x, "chat", {s})))
           Parts(x) == [s \in T(x) |-> P(x, s)]
           Wholes(x) == [s \in T(x) |-> PeakOf(x, s)]
<1>3. T(d) = T(e)
  BY <1>1
<1>4. ASSUME NEW x PROVE EngagedViewers(x, S) = MeanOf(T(x), Parts(x), Wholes(x))
  <2> DEFINE n == FoldFunction(LAMBDA a, b : a * b, 1, Wholes(x))
  <2>1. [s \in T(x) |-> P(x, s) * (n \div PeakOf(x, s))]
          = [s \in T(x) |-> Parts(x)[s] * (n \div Wholes(x)[s])]
    <3> HIDE DEF n, P, T
    <3> QED OBVIOUS
  <2>2. EngagedViewers(x, S) =
          IF T(x) = {} THEN {}
          ELSE {Percent(Total([s \in T(x) |-> P(x, s) * (n \div PeakOf(x, s))]), n * Cardinality(T(x)))}
    BY DEF EngagedViewers, MeanPercent
  <2>3. MeanOf(T(x), Parts(x), Wholes(x)) =
          IF T(x) = {} THEN {}
          ELSE {Percent(Total([s \in T(x) |-> Parts(x)[s] * (n \div Wholes(x)[s])]), n * Cardinality(T(x)))}
    BY DEF MeanOf
  <2> HIDE DEF n, P, T, Parts, Wholes
  <2> QED BY <2>1, <2>2, <2>3
<1>5. Parts(d) = Parts(e) /\ Wholes(d) = Wholes(e)
  <2>1. \A s \in T(d) : P(d, s) = P(e, s) /\ PeakOf(d, s) = PeakOf(e, s)
    BY <1>1, <1>2
  <2> HIDE DEF P, T
  <2> QED BY <1>3, <2>1
<1> HIDE DEF T, Parts, Wholes
<1> QED BY <1>3, <1>4, <1>5

\* The viewers before and after breaks of the channel's lives.
LEMMA SameAds ==
  ASSUME NEW d, NEW e, NEW c, SameReads(d, e, c), NEW ads \in SUBSET RowsOf(d, "events", LivesOf(d, c))
  PROVE  AdChange(d, ads) = AdChange(e, ads)
<1> DEFINE Seen(x, a, from, to) == {v \in x.samples : v.live = a.live /\ from <= v.at /\ v.at < to}
           Before(x, a) == Seen(x, a, a.at - AdWindow, a.at)
           After(x, a)  == Seen(x, a, a.at, a.at + AdWindow)
           Viewers(V) == Total([v \in V |-> v.viewers])
           T(x) == {a \in ads : Viewers(Before(x, a)) > 0 /\ Viewers(After(x, a)) > 0}
           P(x, a) == Viewers(After(x, a)) * Cardinality(Before(x, a))
                        - Viewers(Before(x, a)) * Cardinality(After(x, a))
           Q(x, a) == Viewers(Before(x, a)) * Cardinality(After(x, a))
           Parts(x) == [a \in T(x) |-> P(x, a)]
           Wholes(x) == [a \in T(x) |-> Q(x, a)]
<1>1. ASSUME NEW a \in ads PROVE Before(d, a) = Before(e, a) /\ After(d, a) = After(e, a)
  <2>1. {v \in d.samples : v.live = a.live} = {v \in e.samples : v.live = a.live}
    BY DEF SameReads
  <2>2. ASSUME NEW from, NEW to PROVE Seen(d, a, from, to) = Seen(e, a, from, to)
    <3>1. \A v : v \in Seen(d, a, from, to) <=>
            v \in {w \in d.samples : w.live = a.live} /\ from <= v.at /\ v.at < to
      OBVIOUS
    <3>2. \A v : v \in Seen(e, a, from, to) <=>
            v \in {w \in e.samples : w.live = a.live} /\ from <= v.at /\ v.at < to
      OBVIOUS
    <3>3. \A v : v \in Seen(d, a, from, to) <=> v \in Seen(e, a, from, to)
      BY <2>1, <3>1, <3>2
    <3> QED BY <3>3
  <2> HIDE DEF Seen
  <2> QED BY <2>2
<1>4. ASSUME NEW x PROVE AdChange(x, ads) = MeanOf(T(x), Parts(x), Wholes(x))
  <2> DEFINE n == FoldFunction(LAMBDA a, b : a * b, 1, Wholes(x))
  <2>1. [s \in T(x) |-> P(x, s) * (n \div Q(x, s))] = [s \in T(x) |-> Parts(x)[s] * (n \div Wholes(x)[s])]
    <3> HIDE DEF n, P, Q, T
    <3> QED OBVIOUS
  <2>2. AdChange(x, ads) =
          IF T(x) = {} THEN {}
          ELSE {Percent(Total([s \in T(x) |-> P(x, s) * (n \div Q(x, s))]), n * Cardinality(T(x)))}
    BY DEF AdChange, MeanPercent
  <2>3. MeanOf(T(x), Parts(x), Wholes(x)) =
          IF T(x) = {} THEN {}
          ELSE {Percent(Total([s \in T(x) |-> Parts(x)[s] * (n \div Wholes(x)[s])]), n * Cardinality(T(x)))}
    BY DEF MeanOf
  <2> HIDE DEF n, P, Q, T, Parts, Wholes
  <2> QED BY <2>1, <2>2, <2>3
<1> HIDE DEF Before, After, Viewers
<1>5. \A a \in ads : P(d, a) = P(e, a) /\ Q(d, a) = Q(e, a)
  BY <1>1
<1>6. T(d) = T(e)
  BY <1>1
<1>7. Parts(d) = Parts(e) /\ Wholes(d) = Wholes(e)
  <2>1. T(d) \subseteq ads
    OBVIOUS
  <2> HIDE DEF P, Q, T
  <2> QED BY <1>5, <1>6, <2>1
<1> HIDE DEF T, Parts, Wholes
<1> QED BY <1>4, <1>6, <1>7

\* The rows of some lives of a channel are of its lives.
LEMMA RowsWithin ==
  ASSUME NEW d, NEW c, NEW t, NEW S \in SUBSET LivesOf(d, c)
  PROVE  RowsOf(d, t, S) \subseteq RowsOf(d, t, LivesOf(d, c))
  BY DEF RowsOf

\* The categories of some of its lives.
LEMMA SameContent ==
  ASSUME NEW d, NEW e, NEW c, SameReads(d, e, c), NEW S \in SUBSET LivesOf(d, c)
  PROVE  ContentRevenue(d, S) = ContentRevenue(e, S)
<1> DEFINE T(g) == {s \in S : s.category = g}
           Line(x, g) ==
             LET cents == Worth(Money(RowsOf(x, "events", T(g))))
                 time == Total([s \in T(g) |-> Until(s) - s.start])
             IN  [category |-> g, cents |-> cents, lives |-> Cardinality(T(g)),
                  hourly |-> IF time = 0 THEN 0 ELSE Rounded(cents * 60 * Minute, time),
                  peak |-> Tenths(Total([s \in T(g) |-> PeakOf(x, s)]), Cardinality(T(g)))]
<1>1. ASSUME NEW g PROVE Line(d, g) = Line(e, g)
  <2>1. T(g) \in SUBSET LivesOf(d, c)
    OBVIOUS
  <2>2. \A s \in T(g) : PeakOf(d, s) = PeakOf(e, s)
    BY <2>1, SameNumbersRead
  <2> HIDE DEF T
  <2>3. RowsOf(d, "events", T(g)) = RowsOf(e, "events", T(g))
    BY <2>1, SameRows
  <2>4. [s \in T(g) |-> PeakOf(d, s)] = [s \in T(g) |-> PeakOf(e, s)]
    BY <2>2
  <2> QED BY <2>3, <2>4
<1>2. \A x : ContentRevenue(x, S) =
        Foremost({Line(x, g) : g \in {s.category : s \in S} \ {NoLogin}}, LAMBDA p, q : p.cents > q.cents)
  BY DEF ContentRevenue
<1> HIDE DEF Line
<1>3. {Line(d, g) : g \in {s.category : s \in S} \ {NoLogin}}
        = {Line(e, g) : g \in {s.category : s \in S} \ {NoLogin}}
  BY <1>1
<1> QED BY <1>2, <1>3

\* The subscribers, and what came and went on some of its lives.
LEMMA SameSubscribers ==
  ASSUME NEW d, NEW e, NEW c, SameReads(d, e, c), NEW S \in SUBSET LivesOf(d, c)
  PROVE  Subscribers(d, c, S) = Subscribers(e, c, S)
<1>1. RowsOf(d, "events", S) = RowsOf(e, "events", S)
  BY SameRows
<1>2. {r \in d.subs : r.channel = c} = {r \in e.subs : r.channel = c}
        /\ {r \in d.bits : r.channel = c} = {r \in e.bits : r.channel = c}
  BY SameOwn
<1> DEFINE Shown(subs, bits, E) ==
      LET ended == Cardinality(OfType(E, {"subEnd"}))
          gained == Cardinality(OfType(E, {"sub"})) + Sum(OfType(E, {"gift"}))
          before == Cardinality(subs) - gained + ended
      IN  [total |-> Cardinality(subs),
           tiers |-> [t \in {r.tier : r \in subs} |-> Cardinality({r \in subs : r.tier = t})],
           gifted |-> IF subs = {} THEN 0
                      ELSE Percent(Cardinality({r \in subs : r.gift}), Cardinality(subs)),
           ended |-> ended, gained |-> gained, net |-> gained - ended,
           churn |-> IF before > 0 THEN {Percent(ended, before)} ELSE {},
           bits |-> Foremost(bits, LAMBDA p, q : p.rank < q.rank)]
<1>3. \A x : Subscribers(x, c, S) =
        Shown({r \in x.subs : r.channel = c}, {r \in x.bits : r.channel = c}, RowsOf(x, "events", S))
  BY DEF Subscribers
<1> HIDE DEF Shown
<1> QED BY <1>1, <1>2, <1>3

\* Hype trains, rewards and breaks.
LEMMA SameMechanics ==
  ASSUME NEW d, NEW e, NEW c, SameReads(d, e, c), NEW S \in SUBSET LivesOf(d, c)
  PROVE  Mechanics(d, S) = Mechanics(e, S)
<1>0. RowsOf(d, "events", S) \subseteq RowsOf(d, "events", LivesOf(d, c))
  BY RowsWithin
<1>1. RowsOf(d, "events", S) = RowsOf(e, "events", S)
  BY SameRows
<1>2. AdChange(d, OfType(RowsOf(d, "events", S), {"ad"}))
        = AdChange(e, OfType(RowsOf(e, "events", S), {"ad"}))
  <2>1. OfType(RowsOf(d, "events", S), {"ad"}) \in SUBSET RowsOf(d, "events", LivesOf(d, c))
    BY <1>0 DEF OfType
  <2> QED BY <1>1, <2>1, SameAds
<1> QED BY <1>1, <1>2 DEF Mechanics

\* The best weekdays, in the channel's zone.
LEMMA SameWeekdays ==
  ASSUME NEW d, NEW e, NEW c, SameReads(d, e, c)
  PROVE  BestWeekdays(d, c) = BestWeekdays(e, c)
<1>l. LivesOf(d, c) = LivesOf(e, c)
  BY DEF SameReads
<1>z. \A at : LocalDay(d, c, at) = LocalDay(e, c, at)
  BY DEF SameReads, LocalDay
<1> DEFINE S == Ready(LivesOf(d, c))
           On(x, k) == {s \in S : LocalDay(x, c, s.start) % 7 = k}
           Line(x, k) == [weekday |-> k, lives |-> Cardinality(On(x, k)),
                          peak |-> Tenths(Total([s \in On(x, k) |-> PeakOf(x, s)]), Cardinality(On(x, k)))]
<1>1. BestWeekdays(d, c) = {Line(d, k) : k \in {LocalDay(d, c, s.start) % 7 : s \in S}}
  BY DEF BestWeekdays
<1>2. BestWeekdays(e, c) = {Line(e, k) : k \in {LocalDay(e, c, s.start) % 7 : s \in S}}
  BY <1>l DEF BestWeekdays
<1>3. S \subseteq LivesOf(d, c)
  BY DEF Ready
<1> HIDE DEF S
<1>4. \A s \in S : PeakOf(d, s) = PeakOf(e, s)
  BY <1>3, SameNumbersRead
<1>5. ASSUME NEW k PROVE Line(d, k) = Line(e, k)
  <2>1. On(d, k) = On(e, k) /\ On(d, k) \subseteq S
    BY <1>z
  <2> HIDE DEF On
  <2>2. [s \in On(d, k) |-> PeakOf(d, s)] = [s \in On(e, k) |-> PeakOf(e, s)]
    BY <1>4, <2>1
  <2> QED BY <2>1, <2>2
<1> HIDE DEF Line
<1>6. {LocalDay(d, c, s.start) % 7 : s \in S} = {LocalDay(e, c, s.start) % 7 : s \in S}
  BY <1>z
<1> QED BY <1>1, <1>2, <1>5, <1>6

\* The growth over its lives.
LEMMA SameGrowth ==
  ASSUME NEW d, NEW e, NEW c, SameReads(d, e, c)
  PROVE  Growth(d, c) = Growth(e, c)
<1>l. LivesOf(d, c) = LivesOf(e, c)
  BY DEF SameReads
<1> DEFINE Line(x, s) == [live |-> s.id, peak |-> PeakOf(x, s), average |-> Numbers(x, s).average,
    follows |-> Cardinality(OfType(RowsOf(x, "events", {s}), {"follow"})),
    messages |-> Cardinality(RowsOf(x, "chat", {s})),
    cents |-> Worth(Money(RowsOf(x, "events", {s})))]
<1>1. ASSUME NEW s \in LivesOf(d, c) PROVE Line(d, s) = Line(e, s)
  <2>1. SameOf(d, e, s)
    BY SameTables
  <2>2. PeakOf(d, s) = PeakOf(e, s) /\ Numbers(d, s) = Numbers(e, s)
    BY SameNumbersRead
  <2> QED BY <2>1, <2>2 DEF SameOf
<1>2. \A x : Growth(x, c) = {Line(x, s) : s \in Ready(LivesOf(x, c))}
  BY DEF Growth
<1> HIDE DEF Line
<1> QED BY <1>l, <1>1, <1>2 DEF Ready

\* The topics of some of its lives, whose segments are looked up by their ids alone.
LEMMA SameTopics ==
  ASSUME NEW d, NEW e, NEW c, SameReads(d, e, c), NEW S \in SUBSET LivesOf(d, c)
  PROVE  RecurringTopics(d, S) = RecurringTopics(e, S) /\ WindowsByLive(d, S) = WindowsByLive(e, S)
<1>0. RowsOf(d, "insights", S) \subseteq RowsOf(d, "insights", LivesOf(d, c))
  BY RowsWithin
<1>1. RowsOf(d, "insights", S) = RowsOf(e, "insights", S)
  BY SameRows
<1>2. RecurringTopics(d, S) = RecurringTopics(e, S)
  BY <1>1 DEF RecurringTopics
<1>3. WindowsByLive(d, S) = WindowsByLive(e, S)
  <2> DEFINE Cited(x, t) == {g \in x.segments : g.id \in t.segments}
             Line(x, t) == [id |-> t.id, live |-> t.live, name |-> t.name, window |-> Window(Cited(x, t))]
             Of(x) == {i \in OfType(RowsOf(x, "insights", S), {"topic"}) : Cited(x, i) # {}}
  <2>1. \A x : WindowsByLive(x, S) = {Line(x, t) : t \in Of(x)}
    BY DEF WindowsByLive
  <2>2. \A t \in RowsOf(d, "insights", S) : Cited(d, t) = Cited(e, t)
    BY <1>0 DEF SameReads
  <2> HIDE DEF Cited
  <2>3. Of(d) = Of(e) /\ Of(d) \subseteq RowsOf(d, "insights", S)
    BY <1>1, <2>2 DEF OfType
  <2>4. \A t \in Of(d) : Line(d, t) = Line(e, t)
    BY <2>2, <2>3
  <2> HIDE DEF Of, Line
  <2> QED BY <2>1, <2>3, <2>4
<1> QED BY <1>2, <1>3

\* What is synced of it, and its analysed lives.
LEMMA SameChannelRows ==
  ASSUME NEW d, NEW e, NEW c, SameReads(d, e, c)
  PROVE  /\ Synced(d, c) = Synced(e, c) /\ Loyalty(d, c) = Loyalty(e, c)
         /\ \A kind, since : Sold(d, c, kind, since) = Sold(e, c, kind, since)
         /\ Ready(LivesOf(d, c)) = Ready(LivesOf(e, c)) /\ Ready(LivesOf(d, c)) \subseteq LivesOf(d, c)
<1>1. Synced(d, c) = Synced(e, c)
  <2>1. {"goals", "advice", "vips", "videos"} \subseteq OfBoth \cup OfChannels
    BY DEF OfChannels
  <2>2. \A t \in {"goals", "advice", "vips", "videos"} : {r \in d[t] : r.channel = c}
          = {r \in e[t] : r.channel = c}
    BY <2>1 DEF SameReads
  <2> QED BY <2>2 DEF Synced
<1>2. Loyalty(d, c) = Loyalty(e, c)
  <2>1. {r \in d.loyalty : r.channel = c} = {r \in e.loyalty : r.channel = c}
    BY SameOwn
  <2> QED BY <2>1 DEF Loyalty
<1>3. ASSUME NEW kind, NEW since PROVE Sold(d, c, kind, since) = Sold(e, c, kind, since)
  <2>1. {r \in d.tips : r.channel = c} = {r \in e.tips : r.channel = c}
    BY SameOwn
  <2>2. \A x, t : t \in Sold(x, c, kind, since) <=>
          t \in {r \in x.tips : r.channel = c} /\ t.kind = kind /\ t.at >= since
    BY DEF Sold
  <2>3. \A t : t \in Sold(d, c, kind, since) <=> t \in Sold(e, c, kind, since)
    BY <2>1, <2>2
  <2>4. \A x : Sold(x, c, kind, since) = {t \in x.tips : t \in Sold(x, c, kind, since)}
    BY DEF Sold
  <2> QED BY <2>3, <2>4
<1>4. Ready(LivesOf(d, c)) = Ready(LivesOf(e, c)) /\ Ready(LivesOf(d, c)) \subseteq LivesOf(d, c)
  BY DEF SameReads, Ready
<1> QED BY <1>1, <1>2, <1>3, <1>4

\* The money of the channel.
LEMMA SameChannelFinance ==
  ASSUME NEW d, NEW e, NEW c, SameReads(d, e, c)
  PROVE  ChannelFinance(d, c) = ChannelFinance(e, c)
<1> DEFINE E(x) == {v \in Money(x.events) : v.channel = c}
<1>1. E(d) = E(e)
  <2>1. {r \in d.events : r.channel = c} = {r \in e.events : r.channel = c}
    BY SameOwn
  <2> QED BY <2>1 DEF Money
<1>2. WindowsByLive(d, Ready(LivesOf(d, c))) = WindowsByLive(e, Ready(LivesOf(e, c)))
  BY SameTopics, SameChannelRows
<1>3. \A x : ChannelFinance(x, c) = [money |-> Folded(E(x)), contributors |-> Contributors(E(x)),
                                     topics |-> TopicRevenue(E(x), WindowsByLive(x, Ready(LivesOf(x, c))))]
  BY DEF ChannelFinance
<1> HIDE DEF E
<1> QED BY <1>1, <1>2, <1>3

\* Its followers, by name.
LEMMA SameFollowerLogins ==
  ASSUME NEW d, NEW e, NEW c, SameReads(d, e, c)
  PROVE  FollowerLogins(d, c) = FollowerLogins(e, c)
<1> DEFINE Follows(x) == {v \in x.events : v.channel = c /\ v.type = "follow"}
<1>1. {f \in d.followers : f.channel = c} = {f \in e.followers : f.channel = c}
  BY SameOwn
<1>2. Follows(d) = Follows(e)
  <2>1. {r \in d.events : r.channel = c} = {r \in e.events : r.channel = c}
    BY SameOwn
  <2> QED BY <2>1
<1>3. \A x : FollowerLogins(x, c) = Logins({f \in x.followers : f.channel = c})
                                     \cup (Logins(Follows(x)) \ {NoLogin})
  BY DEF FollowerLogins
<1> HIDE DEF Follows
<1> QED BY <1>1, <1>2, <1>3

\* The chatters of all its lives.
LEMMA SameLoyal ==
  ASSUME NEW d, NEW e, NEW c, SameReads(d, e, c)
  PROVE  LoyalChatters(d, c) = LoyalChatters(e, c)
<1> DEFINE Shown(said, followers) ==
      LET Of(l) == SaidBy(l, said)
      IN  Foremost({[login |-> l, lives |-> Cardinality({m.live : m \in Of(l)}),
                     messages |-> Cardinality(Of(l)), seen |-> Most({m.at : m \in Of(l)}),
                     followed |-> l \in followers] : l \in Logins(said)},
                   LAMBDA p, q : p.lives > q.lives \/ (p.lives = q.lives /\ p.messages > q.messages))
<1>1. \A x : LoyalChatters(x, c) = Shown({m \in x.chat : m.channel = c}, FollowerLogins(x, c))
  BY DEF LoyalChatters
<1> HIDE DEF Shown
<1>2. {m \in d.chat : m.channel = c} = {m \in e.chat : m.channel = c}
  BY SameOwn
<1>3. FollowerLogins(d, c) = FollowerLogins(e, c)
  BY SameFollowerLogins
<1> QED BY <1>1, <1>2, <1>3

\* The channel's page.
LEMMA SameOverview ==
  ASSUME NEW d, NEW e, NEW c, SameReads(d, e, c)
  PROVE  ChannelOverview(d, c) = ChannelOverview(e, c)
<1>1. Ready(LivesOf(d, c)) = Ready(LivesOf(e, c)) /\ Ready(LivesOf(d, c)) \in SUBSET LivesOf(d, c)
  BY SameChannelRows
<1>2. {m \in d.chat : m.channel = c} = {m \in e.chat : m.channel = c}
  BY SameOwn
<1>3. LoyalChatters(d, c) = LoyalChatters(e, c)
  BY SameLoyal
<1>4. BestWeekdays(d, c) = BestWeekdays(e, c)
  BY SameWeekdays
<1>5. Growth(d, c) = Growth(e, c)
  BY SameGrowth
<1>6. RecurringTopics(d, Ready(LivesOf(d, c))) = RecurringTopics(e, Ready(LivesOf(e, c)))
  BY <1>1, SameTopics
<1>7. ChannelFinance(d, c) = ChannelFinance(e, c)
  BY SameChannelFinance
<1>8. ContentRevenue(d, Ready(LivesOf(d, c))) = ContentRevenue(e, Ready(LivesOf(e, c)))
  BY <1>1, SameContent
<1>9. Mechanics(d, Ready(LivesOf(d, c))) = Mechanics(e, Ready(LivesOf(e, c)))
  BY <1>1, SameMechanics
<1>10. EngagedViewers(d, Ready(LivesOf(d, c))) = EngagedViewers(e, Ready(LivesOf(e, c)))
  BY <1>1, SameEngaged
<1>11. Subscribers(d, c, Ready(LivesOf(d, c))) = Subscribers(e, c, Ready(LivesOf(e, c)))
  BY <1>1, SameSubscribers
<1>12. Synced(d, c) = Synced(e, c)
  BY SameChannelRows
<1>13. TotalFollowers(d, c) = TotalFollowers(e, c)
  <2>1. ChannelOf(d, c) = ChannelOf(e, c)
    BY DEF SameReads
  <2>2. FollowerLogins(d, c) = FollowerLogins(e, c)
    BY SameFollowerLogins
  <2> QED BY <2>1, <2>2 DEF TotalFollowers
<1> QED
  BY <1>1, <1>2, <1>3, <1>4, <1>5, <1>6, <1>7, <1>8, <1>9, <1>10, <1>11, <1>12, <1>13 DEF ChannelOverview

\* The money page of a period.
LEMMA SameFinanceOverview ==
  ASSUME NEW d, NEW e, NEW c, SameReads(d, e, c), NEW days
  PROVE  FinanceOverview(d, c, days) = FinanceOverview(e, c, days)
<1> DEFINE start == IF days = 0 THEN 0 ELSE Now - days * DayLength
           S(x) == {s \in Ready(LivesOf(x, c)) : s.start >= start}
           before(x) == IF days = 0 THEN {}
                        ELSE {s \in Ready(LivesOf(x, c)) :
                                s.start < start /\ s.start >= start - days * DayLength}
           ByLive(x, T) ==
             {[live |-> s.id, at |-> s.start, cents |-> Worth(Money(RowsOf(x, "events", {s})))] :
                s \in {r \in T : Worth(Money(RowsOf(x, "events", {r}))) > 0}}
           Shown(T, events, past, sold, merchandise, lines, content, mechanics, subscribers, synced) ==
             LET E == Money(events)
                 earlier == Worth(Money(past))
                 tips == Total([t \in sold |-> t.cents])
                 merch == Total([t \in merchandise |-> t.cents])
                 time == Total([s \in T |-> Until(s) - s.start])
             IN  [money |-> Folded(E), tips |-> tips, tipped |-> Cardinality(sold),
                  merch |-> merch, total |-> Worth(E) + tips + merch,
                  hourly |-> IF time = 0 THEN 0 ELSE Rounded((Worth(E) + tips + merch) * 60 * Minute, time),
                  delta |-> IF earlier = 0 THEN {} ELSE {Percent(Worth(E) - earlier, earlier)},
                  contributors |-> Contributors(E),
                  byLive |-> Foremost(lines, Earlier),
                  content |-> content, mechanics |-> mechanics,
                  subscribers |-> subscribers, synced |-> synced]
<1>1. \A x : FinanceOverview(x, c, days) =
        Shown(S(x), RowsOf(x, "events", S(x)), RowsOf(x, "events", before(x)), Sold(x, c, "tip", start),
              Sold(x, c, "merch", start), ByLive(x, S(x)), ContentRevenue(x, S(x)), Mechanics(x, S(x)),
              Subscribers(x, c, S(x)), Synced(x, c))
  BY DEF FinanceOverview
<1> HIDE DEF Shown
<1>2. S(d) = S(e) /\ S(d) \in SUBSET LivesOf(d, c) /\ before(d) = before(e)
        /\ before(d) \in SUBSET LivesOf(d, c)
  BY SameChannelRows DEF Ready
<1> HIDE DEF S, before, start
<1>3. RowsOf(d, "events", S(d)) = RowsOf(e, "events", S(e))
  BY <1>2, SameRows
<1>4. RowsOf(d, "events", before(d)) = RowsOf(e, "events", before(e))
  BY <1>2, SameRows
<1>5. Sold(d, c, "tip", start) = Sold(e, c, "tip", start)
        /\ Sold(d, c, "merch", start) = Sold(e, c, "merch", start)
  BY SameChannelRows
<1>6. ByLive(d, S(d)) = ByLive(e, S(e))
  <2>1. \A s \in S(d) : RowsOf(d, "events", {s}) = RowsOf(e, "events", {s})
    BY <1>2, SameRows
  <2> DEFINE Paid(x, s) == Worth(Money(RowsOf(x, "events", {s})))
             T == S(d)
  <2>2. \A s \in T : Paid(d, s) = Paid(e, s)
    BY <2>1
  <2>3. \A x : ByLive(x, T) =
          {[live |-> s.id, at |-> s.start, cents |-> Paid(x, s)] : s \in {r \in T : Paid(x, r) > 0}}
    OBVIOUS
  <2> HIDE DEF Paid, ByLive
  <2>5. {r \in T : Paid(d, r) > 0} = {r \in T : Paid(e, r) > 0}
    BY <2>2
  <2>4. ByLive(d, T) = ByLive(e, T)
    BY <2>2, <2>3, <2>5
  <2> QED BY <1>2, <2>4
<1> HIDE DEF ByLive
<1>7. ContentRevenue(d, S(d)) = ContentRevenue(e, S(e))
  BY <1>2, SameContent
<1>8. Mechanics(d, S(d)) = Mechanics(e, S(e))
  BY <1>2, SameMechanics
<1>9. Subscribers(d, c, S(d)) = Subscribers(e, c, S(e))
  BY <1>2, SameSubscribers
<1>10. Synced(d, c) = Synced(e, c)
  BY SameChannelRows
<1> QED BY <1>1, <1>2, <1>3, <1>4, <1>5, <1>6, <1>7, <1>8, <1>9, <1>10

\* Who tipped, and whose points are known.
LEMMA SameSupporters ==
  ASSUME NEW d, NEW e, NEW c, SameReads(d, e, c)
  PROVE  Supporters(d, c) = Supporters(e, c) /\ TopPeople(d, c) = TopPeople(e, c)
<1>s. Sold(d, c, "tip", 0) = Sold(e, c, "tip", 0)
  BY SameChannelRows
<1>p. {r \in d.loyalty : r.channel = c} = {r \in e.loyalty : r.channel = c}
  BY SameOwn
<1>1. Supporters(d, c) = Supporters(e, c)
  <2> DEFINE Shown(sold) ==
        LET tips == {t \in sold : t.who # NoLogin}
            By(n) == {t \in tips : t.who = n}
        IN  Foremost({[who |-> n, cents |-> Total([t \in By(n) |-> t.cents]), tips |-> Cardinality(By(n)),
                       last |-> Most({t.at : t \in By(n)}),
                       currency |-> {t.currency : t \in {u \in By(n) : \A v \in By(n) : v.at <= u.at}}] :
                         n \in {t.who : t \in tips}},
                     LAMBDA p, q : p.cents > q.cents)
  <2>1. \A x : Supporters(x, c) = Shown(Sold(x, c, "tip", 0))
    BY DEF Supporters
  <2> HIDE DEF Shown
  <2> QED BY <1>s, <2>1
<1>2. TopPeople(d, c) = TopPeople(e, c)
  <2> DEFINE Shown(sold, points) ==
        LET tips == {t \in sold : t.who # NoLogin}
            Named(k, rows) == {r \in rows : Lower(r.who) = k}
            Spelling(k, rows) == (CHOOSE r \in Named(k, rows) : TRUE).who
            Paid(k) == IF Named(k, tips) = {} THEN 0
                       ELSE Total([t \in {u \in tips : u.who = Spelling(k, tips)} |-> t.cents])
            Earned(k) == IF Named(k, points) = {} THEN 0
                         ELSE (CHOOSE r \in Named(k, points) : TRUE).points
        IN  Foremost({[who |-> k, cents |-> Paid(k), points |-> Earned(k)] :
                        k \in {Lower(r.who) : r \in tips \cup points}},
                     LAMBDA p, q : p.cents > q.cents \/ (p.cents = q.cents /\ p.points > q.points))
  <2>1. \A x : TopPeople(x, c) = Shown(Sold(x, c, "tip", 0), {r \in x.loyalty : r.channel = c})
    BY DEF TopPeople
  <2> HIDE DEF Shown
  <2> QED BY <1>s, <1>p, <2>1
<1> QED BY <1>1, <1>2

\* When a period is, its lives, records and clips.
LEMMA SamePeriodRows ==
  ASSUME NEW d, NEW e, NEW c, SameReads(d, e, c)
  PROVE  /\ \A k : Bounds(d, c, k) = Bounds(e, c, k)
         /\ \A b : /\ PeriodLives(d, c, b) = PeriodLives(e, c, b)
                   /\ PeriodLives(d, c, b) \in SUBSET LivesOf(d, c)
                   /\ PeriodRecords(d, c, b) = PeriodRecords(e, c, b)
                   /\ PeriodClips(d, c, b) = PeriodClips(e, c, b)
<1>1. \A k : Bounds(d, c, k) = Bounds(e, c, k)
  BY DEF SameReads, Bounds
<1>2. ASSUME NEW b
      PROVE  /\ PeriodLives(d, c, b) = PeriodLives(e, c, b)
             /\ PeriodLives(d, c, b) \in SUBSET LivesOf(d, c)
  BY SameChannelRows DEF PeriodLives, Ready
<1>3. ASSUME NEW b PROVE PeriodRecords(d, c, b) = PeriodRecords(e, c, b)
  <2> DEFINE rows(x) == {r \in x.records : r.channel = c /\ b.from <= r.at /\ r.at < b.to}
  <2>1. rows(d) = rows(e)
    <3>1. {r \in d.records : r.channel = c} = {r \in e.records : r.channel = c}
      BY SameOwn
    <3> QED BY <3>1
  <2>2. Ready(LivesOf(d, c)) = Ready(LivesOf(e, c))
    BY SameChannelRows
  <2>3. \A x : PeriodRecords(x, c, b) =
          IF Cardinality(Ready(LivesOf(x, c))) < MinLivesForRecords THEN {}
          ELSE {[metric |-> r.metric, value |-> r.value] :
                  r \in {q \in rows(x) : \A p \in rows(x) : p.metric = q.metric => p.value <= q.value}}
    BY DEF PeriodRecords
  <2> HIDE DEF rows
  <2> QED BY <2>1, <2>2, <2>3
<1>4. ASSUME NEW b PROVE PeriodClips(d, c, b) = PeriodClips(e, c, b)
  <2>1. ClipList(d, c) = ClipList(e, c)
    BY SameLists
  <2> QED BY <2>1 DEF PeriodClips
<1> QED BY <1>1, <1>2, <1>3, <1>4

\* What an email sums over the lives of a period.
LEMMA SamePeriod ==
  ASSUME NEW d, NEW e, NEW c, SameReads(d, e, c), NEW S \in SUBSET LivesOf(d, c)
  PROVE  /\ PerLive(d, S) = PerLive(e, S) /\ PeriodChat(d, S) = PeriodChat(e, S)
         /\ Totals(d, S) = Totals(e, S) /\ PeriodMood(d, S) = PeriodMood(e, S)
         /\ Churn(d, S) = Churn(e, S) /\ TopReward(d, S) = TopReward(e, S)
         /\ UNION {Moment(d, s) : s \in S} = UNION {Moment(e, s) : s \in S}
<1>1. PerLive(d, S) = PerLive(e, S)
  <2>1. \A s \in S : Metrics(d, s) = Metrics(e, s)
    BY SameNumbersRead
  <2> QED BY <2>1 DEF PerLive
<1>2. RowsOf(d, "chat", S) = RowsOf(e, "chat", S) /\ RowsOf(d, "events", S) = RowsOf(e, "events", S)
  BY SameRows
<1>3. PeriodChat(d, S) = PeriodChat(e, S)
  BY <1>2 DEF PeriodChat
<1>4. Totals(d, S) = Totals(e, S)
  BY <1>1, <1>3 DEF Totals
<1>5. PeriodMood(d, S) = PeriodMood(e, S)
  BY <1>3 DEF PeriodMood
<1>6. Churn(d, S) = Churn(e, S)
  BY <1>2 DEF Churn
<1>7. TopReward(d, S) = TopReward(e, S)
  BY <1>2 DEF TopReward
<1>8. UNION {Moment(d, s) : s \in S} = UNION {Moment(e, s) : s \in S}
  <2>1. \A s \in S : Moment(d, s) = Moment(e, s)
    BY SameNumbersRead
  <2> QED BY <2>1
<1> QED BY <1>1, <1>3, <1>4, <1>5, <1>6, <1>7, <1>8

\* The lives it names.
LEMMA SameTop ==
  ASSUME NEW d, NEW e, NEW c, SameReads(d, e, c), NEW S \in SUBSET LivesOf(d, c), NEW key
  PROVE  TopLives(d, PerLive(d, S), key) = TopLives(e, PerLive(e, S), key)
<1> DEFINE Shown(x, p) == [live |-> p.live.id, cents |-> p.metrics.cents, messages |-> p.metrics.messages,
                           moment |-> Moment(x, p.live)]
           T(lives) ==
             {q \in Foremost(lives, LAMBDA q, r : q.metrics[key] > r.metrics[key]) : q.metrics[key] > 0}
<1>1. \A x, lives : TopLives(x, lives, key) = {Shown(x, p) : p \in T(lives)}
  BY DEF TopLives
<1>2. PerLive(d, S) = PerLive(e, S)
  BY SamePeriod
<1> DEFINE lives == PerLive(d, S)
<1>3. T(lives) \subseteq lives
  BY DEF Foremost
<1>4. \A p \in lives : p.live \in S
  BY DEF PerLive
<1> HIDE DEF T, lives
<1>5. ASSUME NEW p \in T(lives) PROVE Shown(d, p) = Shown(e, p)
  <2>1. p.live \in S
    BY <1>3, <1>4
  <2>2. Moment(d, p.live) = Moment(e, p.live)
    BY <2>1, SameNumbersRead
  <2> QED BY <2>2
<1> HIDE DEF Shown
<1>6. {Shown(d, p) : p \in T(lives)} = {Shown(e, p) : p \in T(lives)}
  BY <1>5
<1>7. TopLives(d, lives, key) = TopLives(e, lives, key)
  BY <1>1, <1>6
<1> QED BY <1>2, <1>7 DEF lives

\* The topics that paid, and who was there.
LEMMA SamePeriodTopics ==
  ASSUME NEW d, NEW e, NEW c, SameReads(d, e, c), NEW S \in SUBSET LivesOf(d, c), NEW E
  PROVE  PeriodTopics(d, S, E) = PeriodTopics(e, S, E) /\ Engaged(d, S, E) = Engaged(e, S, E)
<1>1. WindowsByLive(d, S) = WindowsByLive(e, S)
  BY SameTopics
<1>2. PeriodChat(d, S) = PeriodChat(e, S)
  BY SamePeriod
<1>3. PeriodTopics(d, S, E) = PeriodTopics(e, S, E)
  <2> DEFINE Shown(windows, said) ==
        LET Inside(rows, n) == {p \in rows \X {v \in windows : v.name = n} :
                                  /\ p[1].live = p[2].live
                                  /\ p[2].window.from <= p[1].at /\ p[1].at < p[2].window.to}
            Best(n) == {p[1].id : p \in {q \in Inside(E, n) :
                                           \A r \in Inside(E, n) : Cents(r[1]) <= Cents(q[1])}}
        IN  {[topic |-> t, moment |-> Best(t.name), messages |-> Cardinality(Inside(said, t.name))] :
               t \in TopicRevenue(E, windows)}
  <2>1. \A x : PeriodTopics(x, S, E) = Shown(WindowsByLive(x, S), PeriodChat(x, S))
    BY DEF PeriodTopics
  <2> HIDE DEF Shown
  <2> QED BY <1>1, <1>2, <2>1
<1>4. Engaged(d, S, E) = Engaged(e, S, E)
  BY <1>2 DEF Engaged
<1> QED BY <1>3, <1>4

\* The money of each day.
LEMMA SameDaily ==
  ASSUME NEW d, NEW e, NEW c, SameReads(d, e, c), NEW lives
  PROVE  DailyCents(d, c, lives) = DailyCents(e, c, lives)
<1>1. \A at : LocalDay(d, c, at) = LocalDay(e, c, at)
  BY DEF SameReads, LocalDay
<1> DEFINE Of(x, k) == {q \in lives : LocalDay(x, c, q.live.start) = k}
<1>2. \A x : DailyCents(x, c, lives) = [k \in {LocalDay(x, c, p.live.start) : p \in lives} |->
                                          Total([p \in Of(x, k) |-> p.metrics.cents])]
  BY DEF DailyCents
<1>3. ASSUME NEW k PROVE Of(d, k) = Of(e, k)
  BY <1>1
<1>4. {LocalDay(d, c, p.live.start) : p \in lives} = {LocalDay(e, c, p.live.start) : p \in lives}
  BY <1>1
<1> HIDE DEF Of
<1> QED BY <1>2, <1>3, <1>4

\* The email of a period.
LEMMA SameRecap ==
  ASSUME NEW d, NEW e, NEW c, SameReads(d, e, c), NEW k
  PROVE  Recap(d, c, k) = Recap(e, c, k)
<1> DEFINE S(x) == PeriodLives(x, c, Bounds(x, c, k))
           T(x) == PeriodLives(x, c, Bounds(x, c, k - 1))
           E(x) == Money(RowsOf(x, "events", S(x)))
<1>1. \A x : Recap(x, c, k) =
        IF S(x) = {} THEN [lives |-> {}]
        ELSE [lives |-> PerLive(x, S(x)), totals |-> Totals(x, S(x)),
              previous |-> IF T(x) = {} THEN {} ELSE {Totals(x, T(x))},
              moments |-> Foremost(UNION {Moment(x, s) : s \in S(x)}, LAMBDA p, q : p.score > q.score),
              topics |-> RecurringTopics(x, S(x)), records |-> PeriodRecords(x, c, Bounds(x, c, k)),
              clips |-> PeriodClips(x, c, Bounds(x, c, k)), topicRevenue |-> PeriodTopics(x, S(x), E(x)),
              content |-> ContentRevenue(x, S(x)), topByCents |-> TopLives(x, PerLive(x, S(x)), "cents"),
              topByMessages |-> TopLives(x, PerLive(x, S(x)), "messages"), mood |-> PeriodMood(x, S(x)),
              previousMood |-> PeriodMood(x, T(x)), engaged |-> Engaged(x, S(x), E(x)),
              payers |-> Payers(E(x)), moneyMoments |-> MoneyMoments(E(x)),
              daily |-> DailyCents(x, c, PerLive(x, S(x))),
              churn |-> Churn(x, S(x)), reward |-> TopReward(x, S(x))]
  BY DEF Recap
<1>b. Bounds(d, c, k) = Bounds(e, c, k) /\ Bounds(d, c, k - 1) = Bounds(e, c, k - 1)
  BY SamePeriodRows
<1>2. S(d) = S(e) /\ S(d) \in SUBSET LivesOf(d, c) /\ T(d) = T(e) /\ T(d) \in SUBSET LivesOf(d, c)
  BY <1>b, SamePeriodRows
<1>3. E(d) = E(e)
  <2>1. RowsOf(d, "events", S(d)) = RowsOf(e, "events", S(d))
    BY <1>2, SameRows
  <2> HIDE DEF S
  <2> QED BY <1>2, <2>1
<1> HIDE DEF S, T, E
<1>4. /\ PerLive(d, S(d)) = PerLive(e, S(e)) /\ Totals(d, S(d)) = Totals(e, S(e))
      /\ PeriodMood(d, S(d)) = PeriodMood(e, S(e)) /\ Churn(d, S(d)) = Churn(e, S(e))
      /\ TopReward(d, S(d)) = TopReward(e, S(e))
      /\ UNION {Moment(d, s) : s \in S(d)} = UNION {Moment(e, s) : s \in S(e)}
  <2> DEFINE U == S(d)
  <2> HIDE DEF U
  <2>1. U \in SUBSET LivesOf(d, c) /\ U = S(d) /\ U = S(e)
    BY <1>2 DEF U
  <2>2. /\ PerLive(d, U) = PerLive(e, U) /\ Totals(d, U) = Totals(e, U)
        /\ PeriodMood(d, U) = PeriodMood(e, U) /\ Churn(d, U) = Churn(e, U)
        /\ TopReward(d, U) = TopReward(e, U)
        /\ UNION {Moment(d, s) : s \in U} = UNION {Moment(e, s) : s \in U}
    BY <2>1, SamePeriod
  <2> QED BY <2>1, <2>2
<1>5. Totals(d, T(d)) = Totals(e, T(e)) /\ PeriodMood(d, T(d)) = PeriodMood(e, T(e))
  BY <1>2, SamePeriod
<1>6. /\ TopLives(d, PerLive(d, S(d)), "cents") = TopLives(e, PerLive(e, S(e)), "cents")
      /\ TopLives(d, PerLive(d, S(d)), "messages") = TopLives(e, PerLive(e, S(e)), "messages")
  BY <1>2, SameTop
<1>7. /\ PeriodTopics(d, S(d), E(d)) = PeriodTopics(e, S(e), E(e))
      /\ Engaged(d, S(d), E(d)) = Engaged(e, S(e), E(e))
  BY <1>2, <1>3, SamePeriodTopics
<1>8. RecurringTopics(d, S(d)) = RecurringTopics(e, S(e))
  BY <1>2, SameTopics
<1>9. ContentRevenue(d, S(d)) = ContentRevenue(e, S(e))
  BY <1>2, SameContent
<1>10. DailyCents(d, c, PerLive(d, S(d))) = DailyCents(e, c, PerLive(e, S(e)))
  BY <1>4, SameDaily
<1>11. /\ PeriodRecords(d, c, Bounds(d, c, k)) = PeriodRecords(e, c, Bounds(e, c, k))
       /\ PeriodClips(d, c, Bounds(d, c, k)) = PeriodClips(e, c, Bounds(e, c, k))
  BY <1>b, SamePeriodRows
<1> QED BY <1>1, <1>2, <1>3, <1>4, <1>5, <1>6, <1>7, <1>8, <1>9, <1>10, <1>11

\* What the times of day pay.
TimeRates(d, c, lives) == Rates(lives, LAMBDA s : TimeOfDay(d, c, s))

\* The times of day, in the channel's zone.
LEMMA SameRates ==
  ASSUME NEW d, NEW e, NEW c, SameReads(d, e, c), NEW lives
  PROVE  TimeRates(d, c, lives) = TimeRates(e, c, lives)
<1>1. ASSUME NEW s PROVE TimeOfDay(d, c, s) = TimeOfDay(e, c, s)
  BY DEF SameReads, TimeOfDay
<1> DEFINE Of(x, k)   == {p \in lives : TimeOfDay(x, c, p.live) = k}
           Rate(x, k) == <<Total([p \in Of(x, k) |-> p.metrics.cents]),
                           Total([p \in Of(x, k) |-> p.metrics.minutes])>>
           Slots(x)   == {j \in {TimeOfDay(x, c, p.live) : p \in lives} \ {NoLogin} :
                            Rate(x, j)[1] > 0 /\ Rate(x, j)[2] > 0}
<1>2. ASSUME NEW x PROVE TimeRates(x, c, lives) = [k \in Slots(x) |-> Rate(x, k)]
  BY DEF Rates, TimeRates
<1>3. ASSUME NEW k PROVE Rate(d, k) = Rate(e, k)
  <2>1. Of(d, k) = Of(e, k)
    BY <1>1
  <2> HIDE DEF Of
  <2> QED BY <2>1
<1>4. {TimeOfDay(d, c, p.live) : p \in lives} = {TimeOfDay(e, c, p.live) : p \in lives}
  BY <1>1
<1> HIDE DEF Rate
<1>5. Slots(d) = Slots(e)
  BY <1>3, <1>4
<1> HIDE DEF Slots
<1>6. [k \in Slots(d) |-> Rate(d, k)] = [k \in Slots(e) |-> Rate(e, k)]
  BY <1>3, <1>5
<1> QED BY <1>2, <1>6

\* What an email points out.
LEMMA SameRecapFacts ==
  ASSUME NEW d, NEW e, NEW c, SameReads(d, e, c), NEW r
  PROVE  RecapFacts(d, c, r) = RecapFacts(e, c, r)
<1> DEFINE Shown(times) ==
      LET total == r.totals.metrics
      IN  {[fact |-> "revenue", pct |-> Percent(total.cents - p.metrics.cents, p.metrics.cents)] :
             p \in {q \in r.previous : q.metrics.cents > 0}}
          \cup {[fact |-> "topic", name |-> t.topic.name] : t \in r.topicRevenue}
          \cup {[fact |-> "content", category |-> g.category] : g \in r.content}
          \cup {[fact |-> "record", metric |-> m.metric] : m \in r.records}
          \cup Whale(total.cents, r.payers)
          \cup Efficiency(Rates(r.lives, LAMBDA s : s.category), <<total.cents, total.minutes>>)
          \cup Contrast("time", times)
          \cup Contrast("talk", Talk(r.lives))
          \cup {[fact |-> "mood", now |-> p[1], before |-> p[2]] : p \in r.mood \X r.previousMood}
          \cup {[fact |-> "churn", of |-> n] : n \in r.churn}
          \cup {[fact |-> "reward", title |-> p[1]] : p \in r.reward}
<1>1. \A x : RecapFacts(x, c, r) = Shown(TimeRates(x, c, r.lives))
  BY DEF RecapFacts, TimeRates
<1> HIDE DEF Shown
<1> QED BY <1>1, SameRates

\* What the advice is given from.
LEMMA SameAdviceFacts ==
  ASSUME NEW d, NEW e, NEW c, SameReads(d, e, c)
  PROVE  AdviceFacts(d, c) = AdviceFacts(e, c)
<1> DEFINE E(x) == {v \in Money(x.events) : v.channel = c}
           S(x) == Ready(LivesOf(x, c))
           Shown(lives, paid, times, churned, rewards) ==
             LET rates == Rates(lives, LAMBDA s : s.category)
                 average == <<Total([p \in {q \in lives : q.live.category # NoLogin} |-> p.metrics.cents]),
                              Total([g \in DOMAIN rates |-> rates[g][2]])>>
             IN  Whale(Worth(paid), {[login |-> l, cents |-> Worth(SaidBy(l, paid))] :
                                       l \in Logins(paid) \ {NoLogin}})
                 \cup Efficiency(rates, average)
                 \cup Contrast("time", times)
                 \cup {[fact |-> "churn", of |-> n] : n \in churned}
                 \cup Contrast("talk", Talk(lives))
                 \cup {[fact |-> "reward", title |-> p[1]] : p \in rewards}
<1>1. \A x : AdviceFacts(x, c) = Shown(PerLive(x, S(x)), E(x), TimeRates(x, c, PerLive(x, S(x))),
                                      Churn(x, S(x)), TopReward(x, S(x)))
  BY DEF AdviceFacts, TimeRates
<1> HIDE DEF Shown
<1>2. E(d) = E(e)
  <2>1. {r \in d.events : r.channel = c} = {r \in e.events : r.channel = c}
    BY SameOwn
  <2> QED BY <2>1 DEF Money
<1>3. S(d) = S(e) /\ S(d) \in SUBSET LivesOf(d, c)
  BY SameChannelRows
<1> HIDE DEF S, E
<1>4. PerLive(d, S(d)) = PerLive(e, S(e)) /\ Churn(d, S(d)) = Churn(e, S(e))
        /\ TopReward(d, S(d)) = TopReward(e, S(e))
  BY <1>3, SamePeriod
<1>5. TimeRates(d, c, PerLive(d, S(d))) = TimeRates(e, c, PerLive(e, S(e)))
  BY <1>4, SameRates
<1> QED BY <1>1, <1>2, <1>4, <1>5

\* All else that is served or mailed.
LEMMA SamePagesOfChannel ==
  ASSUME NEW d, NEW e, NEW c, SameReads(d, e, c)
  PROVE  PagesOfChannel(d, c) = PagesOfChannel(e, c)
<1>1. ASSUME NEW k PROVE Mail(d, c, k) = Mail(e, c, k)
  <2>1. Recap(d, c, k) = Recap(e, c, k)
    BY SameRecap
  <2>2. RecapFacts(d, c, Recap(d, c, k)) = RecapFacts(e, c, Recap(d, c, k))
    BY SameRecapFacts
  <2> QED BY <2>1, <2>2 DEF Mail
<1>2. \A p : FinanceOverview(d, c, p) = FinanceOverview(e, c, p)
  BY SameFinanceOverview
<1>3. ChannelOverview(d, c) = ChannelOverview(e, c)
  BY SameOverview
<1>4. Supporters(d, c) = Supporters(e, c) /\ TopPeople(d, c) = TopPeople(e, c)
  BY SameSupporters
<1>5. Loyalty(d, c) = Loyalty(e, c)
  BY SameChannelRows
<1>6. AdviceFacts(d, c) = AdviceFacts(e, c)
  BY SameAdviceFacts
<1> QED BY <1>1, <1>2, <1>3, <1>4, <1>5, <1>6 DEF PagesOfChannel

\* While the rows keep to the schema, every page of a channel is that of its own rows.
LEMMA KeptOfSchema ==
  ASSUME RowsInv
  PROVE  KeptToChannel
<1>1. ASSUME NEW c \in Streamers
      PROVE  /\ PagesOfLives(db, world, c) = PagesOfLives(OwnRows(c), world, c)
             /\ PagesOfChannel(db, c) = PagesOfChannel(OwnRows(c), c)
  <2>1. Schema(db)
    BY RowsOfSchema
  <2>2. c \in {h.channel : h \in db.channels}
    BY DEF RowsInv
  <2>3. SameReads(db, OwnRows(c), c)
    BY <2>1, <2>2, OwnSuffice
  <2> QED BY <2>3, SamePagesOfLives, SamePagesOfChannel
<1> QED BY <1>1 DEF KeptToChannel

\* Whatever is stored, and in whatever order, a channel's pages and emails say nothing of
\* another's rows.
THEOREM KeptApart == ScreensSpec => []KeptToChannel
BY RowsAlways, KeptOfSchema, PTL
===========================================================================
