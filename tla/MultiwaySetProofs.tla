------------------------- MODULE MultiwaySetProofs --------------------------
(***************************************************************************)
(* Where the items of MultiwaySearchTree are, for any number of threads,   *)
(* keys and levels: every step keeps the invariant MultiwayOrder.  So the  *)
(* nodes of a level ascend, links and children lead to the leaf in which a *)
(* key belongs, and the calls are those of a linearizable set.             *)
(***************************************************************************)
EXTENDS MultiwayOrderProofs

USE MultiwayAssumption

-----------------------------------------------------------------------------
(* The link of a node, and the barriers that go over it. *)
Linked(cts, p, n, k) ==
    /\ n \in DOMAIN cts /\ k \in DOMAIN cts /\ k \in Names /\ k # NoNode /\ k[1] = n[1] /\ Lt(p, n, k)
    /\ Numbered(cts, p) /\ AllEnd(cts) /\ EMPTY \in Int
    /\ \A x \in DOMAIN cts : Lt(p, n, x) /\ Lt(p, x, k) => ~Full(cts[x])

LEMMA LinkFacts ==
 ASSUME NEW cts, NEW p, NEW rt, TreeInv(cts, rt), OrderInv(cts, p, rt),
        NEW n \in DOMAIN cts, NEW k, k = cts[n].link, k # NoNode
 PROVE  Linked(cts, p, n, k)
<1>1. k \in DOMAIN cts /\ k[1] = n[1] /\ k \in Names BY LinkIn
<1>2. Numbered(cts, p) /\ AllEnd(cts) /\ LinkOn(cts, p, n, k) BY OrderRows
<1> QED BY <1>1, <1>2 DEF Linked, LinkOn

LEMMA BarrierPast ==
 ASSUME NEW cts, NEW p, NEW rt, TreeInv(cts, rt), OrderInv(cts, p, rt),
        NEW n \in DOMAIN cts, NEW c, c = cts[n], NEW b \in Int, BarrierHolds(cts, p, n, b),
        NEW b2, b2 = IF c.items = <<>> THEN b ELSE Last(c.items)
 PROVE  BarrierAfter(cts, p, n, b2) /\ b2 \in Int
<1>1. Numbered(cts, p) /\ AllEnd(cts) /\ ItemsLead(cts, p) /\ Ends(c) /\ EMPTY \in Int
 BY OrderRows DEF OrderInv
<1>2. CASE c.items = <<>>
 <2>1. b2 = b /\ UpperEnd(c) = EMPTY /\ ~Full(c) BY <1>2 DEF UpperEnd, Full
 <2>2. ASSUME b2 # EMPTY, n[1] # 0 PROVE After(cts, p, n, b2)
  <3>1. Between(cts, p, n, b) BY <2>1, <2>2 DEF BarrierHolds
  <3>2. EMPTY < b /\ Low(cts, p, n, b) BY <3>1 DEF Between
  <3>3. UpperEnd(c) <= b BY ONLY <1>1, <2>1, <3>2, b \in Int
  <3>4. Has(cts, n[1], b) \/ \E y \in DOMAIN cts : Lt(p, n, y) /\ Full(cts[y]) /\ First(cts[y]) <= b
   <4>1. ASSUME NEW y \in DOMAIN cts, Le(p, n, y), Full(cts[y]) PROVE Lt(p, n, y)
    BY <1>1, <2>1, <4>1, RowFacts
   <4> QED BY <3>1, <4>1 DEF Between
  <3> QED BY <2>1, <3>2, <3>3, <3>4 DEF After
 <2> QED BY <2>1, <2>2 DEF BarrierAfter
<1>3. CASE c.items # <<>>
 <2>1. b2 = UpperEnd(c) /\ Full(c) BY <1>3 DEF UpperEnd, Full
 <2>2. UpperEnd(c) \in Int /\ EMPTY < UpperEnd(c) /\ Holds(c, UpperEnd(c)) BY <1>1, <2>1 DEF Ends
 <2>3. Low(cts, p, n, b2) BY <1>1, <2>1, ItemsAscend DEF Low
 <2>4. Has(cts, n[1], b2) /\ UpperEnd(c) <= b2 BY <2>1, <2>2 DEF Has
 <2>5. After(cts, p, n, b2) BY <2>1, <2>2, <2>3, <2>4 DEF After
 <2> QED BY <2>1, <2>2, <2>5 DEF BarrierAfter
<1> QED BY <1>2, <1>3

LEMMA BarrierOver ==
 ASSUME NEW cts, NEW p, NEW rt, TreeInv(cts, rt), OrderInv(cts, p, rt),
        NEW n \in DOMAIN cts, NEW k, k = cts[n].link, k # NoNode, NEW b \in Int, BarrierAfter(cts, p, n, b)
 PROVE  BarrierHolds(cts, p, k, b)
<1>1. Linked(cts, p, n, k) BY LinkFacts
<1> SUFFICES ASSUME b # EMPTY, k[1] # 0 PROVE Between(cts, p, k, b) BY DEF BarrierHolds
<1>2. After(cts, p, n, b) /\ k[1] = n[1] /\ EMPTY \in Int BY <1>1 DEF BarrierAfter, Linked
<1>3. EMPTY < b /\ Low(cts, p, n, b) /\ UpperEnd(cts[n]) <= b BY <1>2 DEF After
<1>4. EMPTY <= b BY ONLY <1>2, <1>3, b \in Int
<1>5. Low(cts, p, k, b) BY <1>3, <1>4, LinkLow
<1>6. ASSUME NEW y \in DOMAIN cts, Lt(p, n, y), Full(cts[y]) PROVE Le(p, k, y)
 <2>1. y[1] = k[1] /\ ~Lt(p, y, k) /\ k \in DOMAIN cts /\ Numbered(cts, p)
  BY <1>1, <1>6 DEF Linked, Lt
 <2> QED BY <2>1, RowFacts
<1> QED BY <1>2, <1>3, <1>5, <1>6 DEF After, Between

LEMMA BarrierBefore ==
 ASSUME NEW cts, NEW p, Numbered(cts, p), NEW n \in DOMAIN cts, NEW k \in DOMAIN cts, Lt(p, n, k),
        NEW b, BarrierHolds(cts, p, k, b)
 PROVE  BarrierAfter(cts, p, n, b)
<1> SUFFICES ASSUME b # EMPTY, n[1] # 0 PROVE After(cts, p, n, b) BY DEF BarrierAfter
<1>1. k[1] = n[1] BY DEF Lt
<1>2. Between(cts, p, k, b) BY <1>1 DEF BarrierHolds
<1>3. EMPTY < b /\ Low(cts, p, k, b) BY <1>2 DEF Between
<1>4. UpperEnd(cts[n]) <= b BY <1>3 DEF Low
<1>5. ASSUME NEW x \in DOMAIN cts, Lt(p, x, n) PROVE Lt(p, x, k) BY <1>5, RowFacts
<1>6. ASSUME NEW y \in DOMAIN cts, Le(p, k, y) PROVE Lt(p, n, y) BY <1>6, RowFacts
<1>7. Low(cts, p, n, b) BY <1>3, <1>5 DEF Low
<1> QED BY <1>1, <1>2, <1>3, <1>4, <1>6, <1>7 DEF After, Between

(* Past empty nodes. *)
LEMMA LowPushed ==
 ASSUME NEW cts, NEW p, Numbered(cts, p), AllEnd(cts), NEW a \in DOMAIN cts, NEW b \in DOMAIN cts, Le(p, a, b),
        NEW v \in Int, EMPTY <= v, Low(cts, p, a, v), Upto(cts, p, a, b, EMPTY)
 PROVE  Low(cts, p, b, v)
<1> SUFFICES ASSUME NEW x \in DOMAIN cts, Lt(p, x, b) PROVE UpperEnd(cts[x]) <= v BY DEF Low
<1>1. x[1] = a[1] BY DEF Lt, Le
<1>2. CASE Lt(p, x, a) BY <1>2 DEF Low
<1>3. CASE Le(p, a, x)
 <2>1. UpperEnd(cts[x]) <= EMPTY /\ UpperEnd(cts[x]) \in Int /\ EMPTY \in Int
  BY <1>3 DEF Upto, AllEnd, Ends
 <2> QED BY ONLY <2>1, v \in Int, EMPTY <= v
<1> QED BY <1>1, <1>2, <1>3, RowFacts

LEMMA BarrierPushed ==
 ASSUME NEW cts, NEW p, Numbered(cts, p), AllEnd(cts), NEW a \in DOMAIN cts, NEW b \in DOMAIN cts, Le(p, a, b),
        NEW v \in Int, BarrierHolds(cts, p, a, v), Upto(cts, p, a, b, EMPTY), EMPTY \in Int
 PROVE  BarrierHolds(cts, p, b, v)
<1> SUFFICES ASSUME v # EMPTY, b[1] # 0 PROVE Between(cts, p, b, v) BY DEF BarrierHolds
<1>1. a[1] = b[1] BY DEF Le
<1>2. Between(cts, p, a, v) BY <1>1 DEF BarrierHolds
<1>3. EMPTY < v /\ Low(cts, p, a, v) BY <1>2 DEF Between
<1>4. EMPTY <= v BY ONLY <1>3, v \in Int, EMPTY \in Int
<1>5. Low(cts, p, b, v) BY <1>3, <1>4, LowPushed
<1>6. ASSUME NEW y \in DOMAIN cts, Le(p, a, y), Full(cts[y]) PROVE Le(p, b, y)
 <2>1. y[1] = b[1] BY <1>1, <1>6 DEF Le
 <2>2. ~Lt(p, y, b)
  <3>1. SUFFICES ASSUME Lt(p, y, b) PROVE FALSE OBVIOUS
  <3>2. UpperEnd(cts[y]) <= EMPTY /\ Ends(cts[y]) BY <1>6, <3>1 DEF Upto, AllEnd
  <3> QED BY <1>6, <3>2 DEF Ends
 <2> QED BY <2>1, <2>2, RowFacts
<1> QED BY <1>1, <1>2, <1>3, <1>5, <1>6 DEF Between

(* pushRight is entered. *)
PushedOn(t, v, node, barrier, then, x) ==
    /\ SameCall(x, v) /\ x.push = node /\ x.pushBarrier = barrier /\ x.then = then /\ x \in LocalsSet
    /\ pc' = [pc EXCEPT ![t] = "push"] /\ my' = [my EXCEPT ![t] = x]

LEMMA PushedFrom ==
 ASSUME NEW t, NEW v \in LocalsSet, NEW node \in Names, NEW barrier \in Int, NEW then \in Labels,
        PushRightFrom(t, v, node, barrier, then)
 PROVE  \E x : PushedOn(t, v, node, barrier, then, x)
<1>1. PICK x : x = [v EXCEPT !.push = node, !.pushBarrier = barrier, !.then = then] OBVIOUS
<1>2. pc' = [pc EXCEPT ![t] = "push"] /\ my' = [my EXCEPT ![t] = x]
 BY <1>1, Zenon DEF PushRightFrom, GoTo, Become
<1>3. then \in Labels \cup {"none"} OBVIOUS
<1>4. SameCall(x, v) /\ x.push = node /\ x.pushBarrier = barrier /\ x.then = then /\ x \in LocalsSet
 BY <1>1, <1>3 DEF LocalsSet, NodeOrNone, SameCall
<1> QED BY <1>2, <1>4 DEF PushedOn

LEMMA SoundAlone ==
 ASSUME NEW cts, NEW p, NEW l, NEW m, NEW key, Sound(cts, p, l, m, key),
        l \notin {"adjust", "shift"}, At(l, m) \notin Sliding
 PROVE  Alone(cts, p, l, m, key)
 BY DEF Alone, Holding, CarriesWell, TwinsKeep, DropsLast

LEMMA SoundGoes ==
 ASSUME NEW cts, NEW p, MultiwayInv, NEW t \in Threads, NEW l, GoTo(t, l), UNCHANGED my,
        l \notin {"adjust", "shift"}, At(l, my[t]) \notin Sliding, Sound(cts, p, l, my[t], call[t].key)
 PROVE  Goes(t, cts, p)
<1>1. my \in [Threads -> LocalsSet] BY DEF MultiwayInv, OthersInv
<1>2. my' = [my EXCEPT ![t] = my[t]] BY <1>1, UnchangedAsExcept
<1>3. Alone(cts, p, l, my[t], call[t].key) BY SoundAlone
<1> QED BY <1>2, <1>3 DEF Goes, GoTo

(* cleanLink looks for where the link of a node should lead. *)
LEMMA LinkPushGoes ==
 ASSUME NEW p, NEW rt, TreeInv(contents, rt), OrderInv(contents, p, rt), NEW t \in Threads,
        NEW key, key = call[t].key, NEW v \in LocalsSet,
        NEW n \in DOMAIN contents, n = v.node, NEW k, k = contents[n].link, k # NoNode, v.edit = contents[n],
        PushRightFrom(t, v, k, EMPTY, "link"), OnWay(contents, p, v, key),
        v.height # 0 => DescendsWell(contents, p, v, key),
        v.height = 0 => /\ UpperEnd(contents[n]) < key /\ Low(contents, p, k, key - 1)
                        /\ BarrierHolds(contents, p, k, v.barrier)
 PROVE  Goes(t, contents, p)
<1>1. Linked(contents, p, n, k) BY LinkFacts
<1>2. k \in DOMAIN contents /\ k \in Names /\ Lt(p, n, k) /\ Numbered(contents, p) /\ EMPTY \in Int
 BY <1>1 DEF Linked
<1>3. PICK x : PushedOn(t, v, k, EMPTY, "link", x) BY <1>2, PushedFrom DEF Labels
<1>4. /\ x.push = k /\ x.pushBarrier = EMPTY /\ x.then = "link" /\ x.edit = v.edit /\ x.node = n
      /\ x.height = v.height /\ x.barrier = v.barrier /\ x.cts = v.cts /\ x.results = v.results
 BY <1>3 DEF PushedOn, SameCall
<1>5. OnWay(contents, p, x, key) BY <1>4 DEF OnWay
<1>6. Le(p, k, k) /\ Upto(contents, p, k, k, EMPTY) BY <1>2, RowFacts DEF Upto
<1>7. LinksWell(contents, p, "link", x, key)
 <2>1. x.edit.link = k BY <1>4
 <2>2. x.height # 0 => DescendsWell(contents, p, x, key) BY <1>4 DEF DescendsWell
 <2> QED BY <1>2, <1>4, <1>6, <2>1, <2>2 DEF LinksWell
<1>8. At("push", x) = "link" BY <1>4 DEF At
<1>9. Sound(contents, p, "push", x, key)
 <2>1. PushesWell("link", x, key) BY <1>4 DEF PushesWell
 <2> QED BY <1>5, <1>7, <1>8, <2>1 DEF Sound
<1>10. Alone(contents, p, "push", x, key) BY <1>8, <1>9, SoundAlone DEF Sliding
<1> QED BY <1>3, <1>10 DEF Goes, PushedOn

LEMMA VisitBeyondOrders ==
 ASSUME NEW p, Ordered(p), NEW t \in Threads, VisitBeyond(t)
 PROVE  MultiwayOrder'
<1>1. PICK m, key, n, c : m = my[t] /\ key = call[t].key /\ n = m.node /\ c = contents[n] OBVIOUS
<1>2. PICK b, v, k, rt : /\ b = (IF c.items = <<>> THEN m.barrier ELSE Last(c.items))
                         /\ v = PastNode(m, c) /\ k = c.link /\ rt = root
 OBVIOUS
<1>3. /\ pc[t] = "visit" /\ UNCHANGED <<shared, history, bounds>> /\ Beyond(c, key)
      /\ PushRightFrom(t, v, k, EMPTY, "link")
 BY <1>1, <1>2, Zenon DEF VisitBeyond, PastNode, Key
<1>4. Mine(t, p, m, key) /\ MultiwayInv BY <1>1, <1>3, MineHere DEF Ordered
<1>5. /\ TreeInv(contents, rt) /\ OrderInv(contents, p, rt) /\ m \in LocalsSet /\ n \in DOMAIN contents
      /\ m.height = 0 /\ key \in Keys /\ m.barrier \in Int /\ OnWay(contents, p, m, key)
      /\ BarrierHolds(contents, p, n, m.barrier)
 <2>1. At("visit", m) = "visit" BY DEF At
 <2> QED BY <1>1, <1>2, <1>3, <1>4, <2>1 DEF Mine, Placed, Visits, Sound
<1>6. n # NoNode /\ c \in ContentsSet BY <1>1, <1>5, NodeRead DEF Shape
<1>7. Low(contents, p, n, key - 1) BY <1>1, <1>5, <1>6 DEF OnWay
<1>8. UpperEnd(c) < key /\ k # NoNode /\ k \in DOMAIN contents /\ Low(contents, p, k, key - 1)
 BY <1>1, <1>2, <1>3, <1>5, <1>7, BeyondLow
<1>9. BarrierAfter(contents, p, n, b) /\ b \in Int BY <1>1, <1>2, <1>5, BarrierPast
<1>10. BarrierHolds(contents, p, k, b) BY <1>1, <1>2, <1>5, <1>8, <1>9, BarrierOver
<1>11. v = [[m EXCEPT !.edit = c] EXCEPT !.barrier = b] BY <1>2, <1>5 DEF PastNode, LocalsSet
<1>12. /\ v \in LocalsSet /\ v.edit = c /\ v.barrier = b /\ v.height = m.height /\ v.node = m.node
       /\ v.results = m.results
 BY <1>5, <1>6, <1>9, <1>11 DEF LocalsSet
<1>13. OnWay(contents, p, v, key) BY <1>5, <1>12 DEF OnWay
<1>14. Goes(t, contents, p) BY <1>1, <1>2, <1>3, <1>5, <1>8, <1>10, <1>12, <1>13, LinkPushGoes
<1> QED BY <1>3, <1>14, QuietGoes DEF history

LEMMA LinkReadOrders ==
 ASSUME NEW p, Ordered(p), NEW t \in Threads, LinkRead(t)
 PROVE  MultiwayOrder'
<1>1. PICK m, key, n, c : m = my[t] /\ key = call[t].key /\ n = m.node /\ c = contents[n] OBVIOUS
<1>2. PICK v, k, rt, u : v = [m EXCEPT !.edit = c] /\ k = c.link /\ rt = root /\ u = key - 1 OBVIOUS
<1>3. pc[t] = "linkRead" /\ UNCHANGED <<shared, history, bounds>> /\ PushRightFrom(t, v, k, EMPTY, "link")
 BY <1>1, <1>2 DEF LinkRead
<1>4. Mine(t, p, m, key) /\ MultiwayInv BY <1>1, <1>3, MineHere DEF Ordered
<1>5. /\ TreeInv(contents, rt) /\ OrderInv(contents, p, rt) /\ m \in LocalsSet /\ u \in Int /\ EMPTY <= u
      /\ key \in Int /\ m.barrier \in Int /\ OnWay(contents, p, m, key)
 BY <1>1, <1>2, <1>4 DEF Mine
<1>6. LinksWell(contents, p, "linkRead", m, key)
 <2>1. At("linkRead", m) = "linkRead" BY DEF At
 <2> QED BY <1>3, <1>4, <2>1 DEF Mine, Sound
<1>7. n \in DOMAIN contents /\ k # NoNode BY <1>1, <1>2, <1>3, <1>4, AtLinkFacts
<1>8. n # NoNode /\ c \in ContentsSet /\ Ends(c)
 <2>1. AllEnd(contents) BY <1>5, OrderRows
 <2> QED BY <1>1, <1>5, <1>7, <2>1, NodeRead DEF Shape, AllEnd
<1>9. ASSUME m.height = 0 PROVE UpperEnd(c) < key /\ Low(contents, p, k, key - 1) /\ BarrierHolds(contents, p, k, m.barrier)
 <2>1. UpperEnd(c) < key /\ BarrierAfter(contents, p, n, m.barrier)
  BY <1>1, <1>6, <1>9 DEF LinksWell
 <2>2. UpperEnd(c) <= u
  <3>1. PICK e : e = UpperEnd(c) OBVIOUS
  <3>2. e \in Int BY <1>8, <3>1 DEF Ends
  <3> QED BY <1>2, <1>5, <2>1, <3>1, <3>2
 <2>3. Low(contents, p, n, u) BY <1>1, <1>2, <1>5, <1>8 DEF OnWay
 <2>4. Low(contents, p, k, u) BY <1>1, <1>2, <1>5, <1>7, <2>2, <2>3, LinkLow
 <2>5. BarrierHolds(contents, p, k, m.barrier) BY <1>1, <1>2, <1>5, <1>7, <2>1, BarrierOver
 <2> QED BY <1>2, <2>1, <2>4, <2>5
<1>10. /\ v \in LocalsSet /\ v.edit = c /\ v.barrier = m.barrier /\ v.height = m.height /\ v.node = m.node
       /\ v.results = m.results /\ v.cts = m.cts
 BY <1>2, <1>5, <1>8 DEF LocalsSet
<1>11. OnWay(contents, p, v, key) BY <1>5, <1>10 DEF OnWay
<1>12. v.height # 0 => DescendsWell(contents, p, v, key) BY <1>6, <1>10 DEF LinksWell, DescendsWell
<1>13. Goes(t, contents, p) BY <1>1, <1>2, <1>3, <1>5, <1>7, <1>9, <1>10, <1>11, <1>12, LinkPushGoes
<1> QED BY <1>3, <1>13, QuietGoes DEF history

LEMMA LinkCleanedGoes ==
 ASSUME NEW p, NEW t \in Threads, NEW m, NEW key, m = my[t], key = call[t].key, Mine(t, p, m, key),
        NEW c, LinkCleaned(t, c), NEW cts2, NEW p2, Safe(contents, p, cts2, p2),
        m.node \in DOMAIN contents, NEW k, k = c.link, k \in DOMAIN contents,
        m.height = 0 => Low(contents, p, k, key - 1) /\ BarrierHolds(contents, p, k, m.barrier),
        m.height # 0 => ChildFor(m.cts, key) \in DOMAIN contents /\ DescendsWell(contents, p, m, key)
 PROVE  Goes(t, cts2, p2)
<1>1. CASE m.height = 0
 <2>1. PICK v, b : v = key - 1 /\ b = m.barrier OBVIOUS
 <2>2. GoOn(t, "visit", k, b) BY <1>1, <2>1 DEF LinkCleaned, Height
 <2>3. MineStill(m, key, cts2, p, p2) BY MineAfter
 <2>4. v \in Int /\ b \in Int /\ k \in Names /\ m \in LocalsSet BY <2>1 DEF Mine
 <2>5. Low(cts2, p2, k, v) BY <1>1, <2>1, <2>3, <2>4 DEF MineStill
 <2>6. BarrierHolds(cts2, p2, k, b) BY <1>1, <2>1, <2>4, SafeFacts
 <2>7. ResultsLow(cts2, p2, my[t].results, call[t].key) BY <2>3 DEF MineStill
 <2> QED BY <2>1, <2>2, <2>4, <2>5, <2>6, <2>7, GoOnGoes
<1>2. CASE m.height # 0
 <2>1. SamaritanReturns(t, m.cts, c) BY <1>2 DEF LinkCleaned, Height
 <2>2. Low(contents, p, ChildFor(m.cts, key), key - 1) BY <1>2 DEF DescendsWell
 <2> QED BY <1>2, <2>1, <2>2, SamaritanBack
<1> QED BY <1>1, <1>2

AtLinkWell(t, p, m, key, k) ==
    /\ Mine(t, p, m, key) /\ m.node \in DOMAIN contents /\ k \in DOMAIN contents /\ m.push \in DOMAIN contents
    /\ m.height # 0 => ChildFor(m.cts, key) \in DOMAIN contents /\ DescendsWell(contents, p, m, key)
    /\ m.height = 0 => /\ UpperEnd(contents[m.node]) < key /\ Low(contents, p, k, key - 1)
                       /\ BarrierHolds(contents, p, k, m.barrier)
    /\ Lt(p, m.node, k) /\ Le(p, k, m.push) /\ Upto(contents, p, k, m.push, EMPTY)

LEMMA AtLinkHere ==
 ASSUME NEW p, Ordered(p), NEW t \in Threads, pc[t] = "link",
        NEW m, m = my[t], NEW key, key = call[t].key, NEW k, k = m.edit.link
 PROVE  AtLinkWell(t, p, m, key, k)
<1>1. Mine(t, p, m, key) /\ MultiwayInv BY MineHere DEF Ordered
<1>2. At("link", m) = "link" BY DEF At
<1>3. LinksWell(contents, p, "link", m, key) BY <1>1, <1>2 DEF Mine, Sound
<1>4. PICK rt, c : rt = root /\ c = call[t] OBVIOUS
<1>5. LocalInv(contents, "link", m, c) /\ TreeInv(contents, rt)
 BY <1>1, <1>4 DEF MultiwayInv, AllLocalInv
<1>6. m.node \in DOMAIN contents /\ k \in DOMAIN contents /\ m.push \in DOMAIN contents
 BY <1>2, <1>5, LinkNodes
<1>7. m.height # 0 => ChildFor(m.cts, key) \in DOMAIN contents BY <1>2, <1>4, <1>5, LinkNodes
<1> QED BY <1>1, <1>3, <1>6, <1>7 DEF LinksWell, AtLinkWell

LEMMA KeepLinkOrders ==
 ASSUME NEW p, Ordered(p), NEW t \in Threads, KeepLink(t)
 PROVE  MultiwayOrder'
<1>1. PICK m, key, c, k, rt : m = my[t] /\ key = call[t].key /\ c = m.edit /\ k = c.link /\ rt = root
 OBVIOUS
<1>2. pc[t] = "link" /\ LinkCleaned(t, c) /\ UNCHANGED <<shared, history, bounds>>
 BY <1>1 DEF KeepLink
<1>3. AtLinkWell(t, p, m, key, k) BY <1>1, <1>2, AtLinkHere
<1>4. TreeInv(contents, rt) /\ OrderInv(contents, p, rt) BY <1>1 DEF Ordered, MultiwayInv
<1>5. Safe(contents, p, contents, p) BY <1>4, SameIsGood DEF Good
<1>6. Goes(t, contents, p) BY <1>1, <1>2, <1>3, <1>5, LinkCleanedGoes DEF AtLinkWell
<1> QED BY <1>2, <1>6, QuietGoes DEF history

LEMMA CleanLinkOrders ==
 ASSUME NEW p, Ordered(p), NEW t \in Threads, CleanLink(t), MultiwayInv'
 PROVE  MultiwayOrder'
<1>1. PICK m, key, n, c, k, b, rt : /\ m = my[t] /\ key = call[t].key /\ n = m.node /\ c = m.edit
                                    /\ k = c.link /\ b = m.push /\ rt = root
 OBVIOUS
<1>2. PICK new : new = WithLink(c, b) OBVIOUS
<1>3. pc[t] = "link" BY DEF CleanLink
<1>4. AtLinkWell(t, p, m, key, k) /\ MultiwayInv BY <1>1, <1>3, AtLinkHere DEF Ordered
<1>5. /\ n \in DOMAIN contents /\ k \in DOMAIN contents /\ b \in DOMAIN contents /\ TreeInv(contents, rt)
      /\ OrderInv(contents, p, rt) /\ Lt(p, n, k) /\ Le(p, k, b) /\ Upto(contents, p, k, b, EMPTY)
      /\ Numbered(contents, p) /\ AllEnd(contents) /\ m.barrier \in Int /\ EMPTY \in Int
      /\ key - 1 \in Int /\ EMPTY <= key - 1
 <2>1. Numbered(contents, p) /\ AllEnd(contents) BY <1>4, OrderRows DEF AtLinkWell, Mine
 <2> QED BY <1>1, <1>4, <2>1 DEF AtLinkWell, Mine
<1>6. m.height = 0 => /\ UpperEnd(contents[n]) < key /\ Low(contents, p, k, key - 1)
                      /\ BarrierHolds(contents, p, k, m.barrier)
 BY <1>1, <1>4 DEF AtLinkWell
<1>7. m.height # 0 => ChildFor(m.cts, key) \in DOMAIN contents /\ DescendsWell(contents, p, m, key)
 BY <1>4 DEF AtLinkWell
<1>8. CASE CanReplace(n, c)
 <2>1. Replace(t, n, c, new, {}) /\ LinkCleaned(t, new) BY <1>1, <1>2, <1>8 DEF CleanLink
 <2>2. PICK cts2 : Replaced(n, new, cts2) BY <1>5, <2>1, ReplacedIs
 <2>3. contents' = cts2 /\ root' = rt /\ UNCHANGED call /\ OneNode(contents, cts2, n, new) /\ TreeInv(cts2, rt)
       /\ c = contents[n]
  BY <1>1, <1>8, <2>2 DEF Replaced, CanReplace
 <2>4. Good(contents, p, cts2, p, rt) BY <1>1, <1>2, <1>5, <2>3, CleanLinkGood
 <2>5. Safe(contents, p, cts2, p) BY <2>4 DEF Good
 <2>6. new.link = b
  <3>1. Shape(DOMAIN contents, n[1], c) /\ DOMAIN contents \in SUBSET Names /\ n[1] \in Nat
   BY <1>5, <2>3, NodeRead
  <3> QED BY <1>2, <3>1, LinkedIs
 <2>7. m.height = 0 => Low(contents, p, b, key - 1) /\ BarrierHolds(contents, p, b, m.barrier)
  <3>1. PICK v : v = key - 1 OBVIOUS
  <3>2. m.height = 0 => Low(contents, p, b, v) BY <1>5, <1>6, <3>1, LowPushed
  <3>3. PICK w : w = m.barrier OBVIOUS
  <3>4. m.height = 0 => BarrierHolds(contents, p, b, w) BY <1>5, <1>6, <3>3, BarrierPushed
  <3> QED BY <3>1, <3>2, <3>3, <3>4
 <2>8. Mine(t, p, m, key) /\ m.node \in DOMAIN contents BY <1>4 DEF AtLinkWell
 <2>9. Goes(t, cts2, p) BY <1>1, <1>5, <1>7, <2>1, <2>5, <2>6, <2>7, <2>8, LinkCleanedGoes
 <2> QED BY <2>3, <2>4, <2>9, GoodGoes
<1>9. CASE ~CanReplace(n, c)
 <2>1. GoTo(t, "linkRead") /\ UNCHANGED my /\ UNCHANGED <<shared, history, bounds>>
  BY <1>1, <1>2, <1>9 DEF CleanLink
 <2>2. At("linkRead", m) = "linkRead" BY DEF At
 <2>3. m.height = 0 => BarrierAfter(contents, p, n, m.barrier) BY <1>5, <1>6, BarrierBefore
 <2>4. LinksWell(contents, p, "linkRead", m, key) BY <1>1, <1>6, <1>7, <2>3 DEF LinksWell
 <2>5. Sound(contents, p, "linkRead", m, key) BY <1>4, <2>2, <2>4 DEF Sound, AtLinkWell, Mine
 <2>6. Goes(t, contents, p) BY <1>1, <1>4, <2>1, <2>2, <2>5, SoundGoes DEF Sliding
 <2> QED BY <2>1, <2>6, QuietGoes DEF history
<1> QED BY <1>8, <1>9

(* The last item of a node, and its child. *)
LastAs(D, l, c, w, d) ==
    /\ w \in Int /\ EMPTY < w /\ EMPTY \in Int /\ Full(c) /\ Holds(c, w) /\ Leads(c, w, d)
    /\ d \in D /\ d[1] = l - 1 /\ d = c.children[Len(c.items)] /\ Len(c.items) \in Nat /\ Len(c.items) >= 1
    /\ w = c.items[Len(c.items)] /\ w \in Item

LEMMA LastLeads ==
 ASSUME NEW D \in SUBSET Names, NEW l \in Nat, l # 0, NEW c, Shape(D, l, c), Full(c),
        NEW w, w = UpperEnd(c), NEW d, d = Last(c.children)
 PROVE  LastAs(D, l, c, w, d)
<1>1. Ends(c) BY EndFacts
<1>2. w \in Int /\ EMPTY < w /\ EMPTY \in Int /\ Holds(c, w) /\ w \in Item BY <1>1 DEF Ends
<1>3. PICK s, k : s = c.items /\ k = Len(s) OBVIOUS
<1>4. s # <<>> /\ k \in Nat /\ (s = <<>> <=> k = 0) BY <1>3, ShapeFacts DEF Full
<1>5. k >= 1 /\ k \in 1 .. k BY ONLY <1>4
<1>6. w = s[k] BY <1>3, <1>4 DEF UpperEnd, Last
<1>7. Len(c.children) = k /\ \A i \in 1 .. k : On(D, c.children[i], l - 1) BY <1>3, ShapeFacts
<1>8. d = c.children[k] /\ d \in D /\ d[1] = l - 1 BY <1>5, <1>7 DEF Last, On
<1>9. Leads(c, w, d) BY <1>3, <1>5, <1>6, <1>8 DEF Leads
<1> QED BY <1>2, <1>3, <1>4, <1>5, <1>6, <1>8, <1>9 DEF LastAs

(* A node that drops its last but one item pushes its last child. *)
DropsLastAs(cts, p, m, w, d, e) ==
    /\ m.node \in DOMAIN cts /\ m.node[1] # 0 /\ m.node[1] \in Nat /\ cts[m.node] = m.edit
    /\ LastAs(DOMAIN cts, m.node[1], m.edit, w, d)
    /\ e \in DOMAIN cts /\ Le(p, d, e) /\ e[1] = d[1] /\ w = LastOf(m)

LEMMA DropsLastEnd ==
 ASSUME NEW cts, NEW p, NEW rt, TreeInv(cts, rt), NEW pcl, NEW m, NEW c,
        LocalInv(cts, pcl, m, c), Sound(cts, p, pcl, m, c.key), DropsLast(cts, pcl, m, c.key),
        NEW w, w = LastOf(m), NEW d, d = LastChildOf(m), NEW e, e = Effective(pcl, m)[2]
 PROVE  DropsLastAs(cts, p, m, w, d, e)
<1>1. PICK D, n, l, x, key, a : /\ D = DOMAIN cts /\ n = m.node /\ l = n[1] /\ x = m.edit /\ key = c.key
                                /\ a = Effective(pcl, m)
 OBVIOUS
<1>2. /\ pcl \in {"adjust", "shift"} /\ cts[n] = x /\ Len(x.items) > 2 /\ Index(x, key) + 1 = Len(x.items)
      /\ Len(a) = 2
 BY <1>1 DEF DropsLast
<1>3. At(pcl, m) = pcl BY <1>2 DEF At
<1>4. /\ n \in D /\ l # 0 /\ l \in Nat /\ HasPlace(D, l, x, key) /\ Len(a) <= Len(Adjusting(x, key))
      /\ \A q \in 1 .. Len(a) : a[q] \in D
 <2>1. At(pcl, m) \in {"adjust", "shift"} /\ pcl # "idle" /\ a = Effective(At(pcl, m), m)
  BY <1>1, <1>2, <1>3
 <2>2. /\ m.node \in DOMAIN cts /\ m.node[1] # 0 /\ m.node[1] \in Nat
       /\ HasPlace(DOMAIN cts, m.node[1], m.edit, c.key) /\ Len(a) <= Len(Adjusting(m.edit, c.key))
       /\ \A q \in 1 .. Len(a) : a[q] \in DOMAIN cts
  BY ONLY TreeInv(cts, rt), LocalInv(cts, pcl, m, c), <2>1, AdjustNodes
 <2> QED BY <1>1, <2>2
<1>5. D \in SUBSET Names /\ key \in Keys BY <1>1, <1>2, CallOf
<1>6. Shape(D, l, x) BY <1>4 DEF HasPlace
<1>7. Full(x)
 <2>1. Len(x.items) \in Nat /\ (x.items = <<>> <=> Len(x.items) = 0) BY <1>4, <1>5, <1>6, ShapeFacts
 <2> QED BY <1>2, <2>1 DEF Full
<1>8. LastAs(D, l, x, w, d) BY <1>1, <1>4, <1>5, <1>6, <1>7, LastLeads DEF LastOf, LastChildOf
<1>9. e \in D BY <1>1, <1>2, <1>4
<1>10. PICK ix, i, k : ix = Adjusting(x, key) /\ i = Index(x, key) /\ k = Len(x.items) OBVIOUS
<1>11. AdjustingAs(x, key, k, i, ix) BY <1>4, <1>5, <1>10, AdjustingIs
<1>12. ix[2] = k
 <2>1. Len(ix) = 2
  <3>1. Len(ix) \in 1 .. 2 /\ 2 <= Len(ix) BY <1>2, <1>4, <1>10, <1>11 DEF AdjustingAs
  <3> QED BY ONLY <3>1
 <2> QED BY <1>2, <1>10, <1>11, <2>1 DEF AdjustingAs
<1>13. PushedWell(cts, p, m, key, 2, e)
 <2>1. AdjustsWell(cts, p, pcl, m, key) BY <1>1, <1>2, <1>3 DEF Sound
 <2> QED BY <1>1, <1>2, <2>1 DEF AdjustsWell
<1>14. Le(p, d, e)
 <2>1. Le(p, x.children[ix[2]], e) BY <1>1, <1>10, <1>13 DEF PushedWell
 <2> QED BY <1>8, <1>10, <1>12, <2>1 DEF LastAs
<1>15. e[1] = d[1] BY <1>14 DEF Le
<1> QED BY <1>1, <1>2, <1>4, <1>8, <1>9, <1>14, <1>15 DEF DropsLastAs

LEMMA NothingUpto ==
 ASSUME NEW cts, NEW p, Numbered(cts, p), NEW a \in DOMAIN cts, NEW b \in DOMAIN cts, Le(p, b, a), NEW v
 PROVE  Upto(cts, p, a, b, v)
 BY RowFacts DEF Upto

(* What a node slides over to, the moment it has read its link. *)
Links(cts, p, n, c, k, w, d) ==
    /\ n \in DOMAIN cts /\ n[1] # 0 /\ n[1] \in Nat /\ c = cts[n] /\ k = c.link /\ Linked(cts, p, n, k)
    /\ LastAs(DOMAIN cts, n[1], c, w, d) /\ w = UpperEnd(c) /\ Between(cts, p, k, w) /\ Promise(cts, p, n[1], w, d)

LEMMA LinksHere ==
 ASSUME NEW cts, NEW p, NEW rt, TreeInv(cts, rt), OrderInv(cts, p, rt),
        NEW n \in DOMAIN cts, n[1] # 0, NEW c, c = cts[n], Full(c), NEW k, k = c.link, k # NoNode,
        NEW w, w = UpperEnd(c), NEW d, d = Last(c.children)
 PROVE  Links(cts, p, n, c, k, w, d)
<1>1. Linked(cts, p, n, k) BY LinkFacts
<1>2. PICK D, l : D = DOMAIN cts /\ l = n[1] OBVIOUS
<1>3. D \in SUBSET Names /\ l \in Nat /\ Shape(D, l, c) BY <1>2, NodeRead
<1>4. LastAs(D, l, c, w, d) BY <1>2, <1>3, LastLeads
<1>5. EMPTY \in Int /\ EMPTY < w /\ w \in Int /\ Leads(c, w, d) BY <1>4 DEF LastAs
<1>6. PICK b : b = EMPTY OBVIOUS
<1>7. BarrierHolds(cts, p, n, b) BY <1>6 DEF BarrierHolds
<1>8. w = IF c.items = <<>> THEN b ELSE Last(c.items) BY DEF Full, UpperEnd
<1>9. BarrierAfter(cts, p, n, w) BY <1>5, <1>6, <1>7, <1>8, BarrierPast
<1>10. BarrierHolds(cts, p, k, w) BY <1>5, <1>9, BarrierOver
<1>11. Between(cts, p, k, w)
 <2>1. w # EMPTY /\ k[1] # 0 BY <1>1, <1>5 DEF Linked
 <2> QED BY <1>10, <2>1 DEF BarrierHolds
<1>12. Promise(cts, p, l, w, d) BY <1>2, <1>5, OrderRows
<1> QED BY <1>1, <1>2, <1>3, <1>4, <1>11, <1>12 DEF Links

(* The contents of a node that would slide its last item to its link, as   *)
(* it has just been read.                                                  *)
LEMMA NewSlideKeeps ==
 ASSUME NEW p, Ordered(p), NEW n, NEW c, NEW k, NEW w, NEW d, Links(contents, p, n, c, k, w, d),
        NEW x, x.push = k, x.edit = c, NEW u \in Threads
 PROVE  SlidesKeep(contents, p, pc[u], my[u], call[u].key, "sibling", x)
<1>1. PICK pcu, mu, cu, rt, e : pcu = pc[u] /\ mu = my[u] /\ cu = call[u] /\ rt = root /\ e = Effective(pc[u], my[u])[2]
 OBVIOUS
<1>2. Target("sibling", x) = k /\ LastOf(x) = w /\ LastChildOf(x) = d
 <2>1. LastOf(x) = w BY DEF Links, LastOf
 <2>2. Len(c.children) = Len(c.items)
  <3>1. TreeInv(contents, rt) /\ n \in DOMAIN contents /\ n[1] # 0 /\ c = contents[n]
   BY <1>1 DEF Ordered, MultiwayInv, Links
  <3>2. Shape(DOMAIN contents, n[1], c) BY <3>1, NodeRead
  <3> QED BY <3>1, <3>2 DEF Shape, ChildrenOK
 <2>3. LastChildOf(x) = d BY <2>2 DEF LastChildOf, Links, LastAs, Last
 <2> QED BY <2>1, <2>3 DEF Target
<1>3. SUFFICES ASSUME DropsLast(contents, pcu, mu, cu.key), Lt(p, mu.node, k), w = LastOf(mu)
               PROVE  Upto(contents, p, e, d, EMPTY)
 BY <1>1, <1>2 DEF SlidesKeep
<1>4. /\ TreeInv(contents, rt) /\ OrderInv(contents, p, rt) /\ LocalInv(contents, pcu, mu, cu)
      /\ Sound(contents, p, pcu, mu, cu.key) /\ TwinsKeep(contents, p, pcu, mu, cu.key)
 BY <1>1 DEF Ordered, MultiwayInv, AllLocalInv, CallsSound
<1>5. PICK d2, w2 : d2 = LastChildOf(mu) /\ w2 = LastOf(mu) OBVIOUS
<1>6. DropsLastAs(contents, p, mu, w2, d2, e) BY <1>1, <1>3, <1>4, <1>5, DropsLastEnd
<1>7. PICK g : g = mu.node OBVIOUS
<1>8. /\ n \in DOMAIN contents /\ g \in DOMAIN contents /\ k \in DOMAIN contents /\ Numbered(contents, p)
      /\ Lt(p, n, k) /\ Lt(p, g, k) /\ e \in DOMAIN contents /\ d \in DOMAIN contents
 BY <1>3, <1>6, <1>7 DEF Links, Linked, DropsLastAs, LastAs
<1>9. n[1] = g[1] BY <1>8 DEF Lt
<1>10. CASE n = g
 <2>1. contents[g] = mu.edit BY <1>6, <1>7 DEF DropsLastAs
 <2>2. d2 = d BY <1>6, <1>10, <2>1 DEF DropsLastAs, LastAs, Links
 <2>3. Le(p, d, e) BY <1>6, <2>2 DEF DropsLastAs
 <2> QED BY <1>8, <2>3, NothingUpto
<1>11. CASE Lt(p, g, n)
 <2>1. Leads(contents[n], w, d) BY DEF Links, LastAs
 <2> QED BY <1>1, <1>3, <1>4, <1>7, <1>8, <1>11, <2>1 DEF TwinsKeep
<1>12. CASE Lt(p, n, g)
 <2>1. ~Full(contents[g]) BY <1>8, <1>12 DEF Links, Linked
 <2>2. Full(contents[g]) BY <1>6, <1>7 DEF DropsLastAs, LastAs
 <2> QED BY <2>1, <2>2
<1> QED BY <1>8, <1>9, <1>10, <1>11, <1>12, RowFacts

LEMMA SlideEnters ==
 ASSUME NEW p, Ordered(p), NEW t \in Threads, UNCHANGED shared, UNCHANGED call,
        NEW v \in LocalsSet, NEW key, key = call[t].key, NEW n, n = v.node, NEW c, c = v.edit, NEW k, NEW w, NEW d,
        Links(contents, p, n, c, k, w, d), PushRightFrom(t, v, k, EMPTY, "sibling"),
        OnWay(contents, p, v, key), DescendsWell(contents, p, v, key),
        v.height = 0 => BarrierHolds(contents, p, n, v.barrier)
 PROVE  MultiwayOrder'
<1>1. k \in Names /\ EMPTY \in Int /\ c = contents[n] /\ Lt(p, n, k) /\ k[1] = n[1] /\ Between(contents, p, k, w)
      /\ Promise(contents, p, n[1], w, d) /\ w = UpperEnd(c)
 BY DEF Links, Linked
<1>2. PICK x : PushedOn(t, v, k, EMPTY, "sibling", x) BY <1>1, PushedFrom DEF Labels
<1>3. /\ x.push = k /\ x.pushBarrier = EMPTY /\ x.then = "sibling" /\ x.edit = c /\ x.node = n
      /\ x.height = v.height /\ x.barrier = v.barrier /\ x.cts = v.cts /\ x.results = v.results
 BY <1>2 DEF PushedOn, SameCall
<1>4. At("push", x) = "sibling" /\ Target("sibling", x) = k /\ LastOf(x) = w
 BY <1>1, <1>3 DEF At, Target, LastOf
<1>5. LastChildOf(x) = d
 <2>1. Shape(DOMAIN contents, n[1], c) /\ n[1] # 0
  <3>1. TreeInv(contents, root) /\ n \in DOMAIN contents BY DEF Ordered, MultiwayInv, Links
  <3> QED BY <1>1, <3>1, NodeRead DEF Links
 <2>2. Len(c.children) = Len(c.items) BY <2>1 DEF Shape, ChildrenOK
 <2> QED BY <1>3, <2>2 DEF LastChildOf, Links, LastAs, Last
<1>6. OnWay(contents, p, x, key) BY <1>3 DEF OnWay
<1>7. CleansWell(contents, p, x, key) BY <1>3 DEF CleansWell, DescendsWell
<1>8. SlidesWell(contents, p, "sibling", x)
 <2>1. x.edit.stamp <= contents[x.node].stamp
  <3>1. c.stamp \in Nat BY DEF LocalsSet, ContentsSet
  <3> QED BY <1>1, <1>3, <3>1
 <2> QED BY <1>1, <1>3, <1>4, <2>1 DEF SlidesWell
<1>9. Sound(contents, p, "push", x, key)
 <2>1. PushesWell("sibling", x, key) BY <1>3 DEF PushesWell
 <2> QED BY <1>4, <1>6, <1>7, <1>8, <2>1 DEF Sound
<1>10. Holding(contents, p, "push", x, key)
 <2>1. CarriesWell(contents, p, "sibling", x) BY <1>1, <1>4, <1>5 DEF CarriesWell, Carries
 <2> QED BY <1>4, <1>9, <2>1 DEF Holding, TwinsKeep, DropsLast
<1>11. PairsHold(contents, p, t, "push", x, key)
 <2>1. ASSUME NEW u \in Threads PROVE SlidesKeep(contents, p, "push", x, key, At(pc[u], my[u]), my[u])
  BY DEF SlidesKeep, DropsLast
 <2>2. ASSUME NEW u \in Threads PROVE SlidesKeep(contents, p, pc[u], my[u], call[u].key, "sibling", x)
  BY <1>3, NewSlideKeeps
 <2> QED BY <1>4, <2>1, <2>2 DEF PairsHold
<1>12. MultiwayInv /\ OrderInv(contents, p, root) /\ CallsSound(contents, p) BY DEF Ordered
<1>13. Moves(t, "push", x, call[t]) BY <1>2, <1>12, SameCallMoves DEF PushedOn
<1> QED BY <1>10, <1>11, <1>12, <1>13, SameStep

(* cleanNode looks for where the next child should lead. *)
AdjustedSoFar(cts, p, v, key) ==
    /\ v.edit.stamp <= cts[v.node].stamp
    /\ \A q \in 1 .. Len(v.adjusted) : PushedWell(cts, p, v, key, q, v.adjusted[q])

LEMMA AdjustGoes ==
 ASSUME NEW p, NEW rt, TreeInv(contents, rt), OrderInv(contents, p, rt), NEW t \in Threads,
        NEW key \in Keys, key = call[t].key, NEW v \in LocalsSet, NEW n \in DOMAIN contents, n = v.node, n[1] # 0,
        HasPlace(DOMAIN contents, n[1], v.edit, key), Adjust(t, v),
        Len(v.adjusted) < Len(Adjusting(v.edit, key)), AdjustedSoFar(contents, p, v, key),
        OnWay(contents, p, v, key), CleansWell(contents, p, v, key)
 PROVE  Goes(t, contents, p)
<1>1. PICK D, l, c, a, k, ix : /\ D = DOMAIN contents /\ l = n[1] /\ c = v.edit /\ a = v.adjusted /\ k = Len(a) + 1
                               /\ ix = Adjusting(c, key)
 OBVIOUS
<1>2. PICK j, b : j = ix[k] /\ b = v.barrier OBVIOUS
<1>3. PICK e, f : e = BarrierOf(c, j, b) /\ f = c.children[j] OBVIOUS
<1>4. PushRightFrom(t, v, f, e, "adjust") BY <1>1, <1>2, <1>3 DEF Adjust, Key
<1>5. D \in SUBSET Names /\ l \in Nat /\ l # 0 /\ HasPlace(D, l, c, key) /\ Numbered(contents, p)
 BY <1>1, NodeRead, OrderRows
<1>6. a \in Seq(Names) /\ Len(a) \in Nat /\ b \in Int BY <1>1, <1>2 DEF LocalsSet
<1>7. j \in 1 .. Len(c.items)
 <2>1. AdjustingAs(c, key, Len(c.items), Index(c, key), ix) BY <1>1, <1>5, AdjustingIs
 <2>2. Len(ix) \in 1 .. 2 /\ \A q \in 1 .. Len(ix) : ix[q] \in 1 .. Len(c.items)
  BY <2>1 DEF AdjustingAs
 <2>3. k \in 1 .. Len(ix)
  <3>1. Len(a) < Len(ix) BY <1>1
  <3> QED BY <1>1, <1>6, <2>2, <3>1
 <2> QED BY <1>2, <2>2, <2>3
<1>8. Shape(D, l, c) /\ Ends(c) BY <1>5, EndFacts DEF HasPlace
<1>9. f \in D /\ f \in Names
 <2>1. \A i \in 1 .. Len(c.items) : On(D, c.children[i], l - 1) BY <1>5, <1>8, ShapeFacts
 <2> QED BY <1>3, <1>5, <1>7, <2>1 DEF On
<1>10. e \in Int
 <2>1. Len(c.items) \in Nat /\ \A i \in 1 .. Len(c.items) : c.items[i] \in Int
  BY <1>5, <1>8, ShapeFacts
 <2>2. j > 1 => j - 1 \in 1 .. Len(c.items) BY <1>7, <2>1
 <2>3. EMPTY \in Int BY <1>8 DEF Ends
 <2> QED BY <1>3, <1>6, <1>7, <2>1, <2>2, <2>3 DEF BarrierOf
<1>11. PICK x : PushedOn(t, v, f, e, "adjust", x) BY <1>4, <1>9, <1>10, PushedFrom DEF Labels
<1>12. /\ x.push = f /\ x.pushBarrier = e /\ x.then = "adjust" /\ x.edit = c /\ x.node = n /\ x.adjusted = a
       /\ x.height = v.height /\ x.barrier = b /\ x.cts = v.cts /\ x.results = v.results
 BY <1>1, <1>2, <1>11 DEF PushedOn, SameCall
<1>13. OnWay(contents, p, x, key) /\ CleansWell(contents, p, x, key)
 BY <1>2, <1>12 DEF OnWay, CleansWell, DescendsWell
<1>14. AdjustsWell(contents, p, "adjust", x, key)
 <2> PICK s : s = Append(a, f) OBVIOUS
 <2>1. Effective("adjust", x) = s BY <1>12 DEF Effective
 <2>2. Len(s) = k /\ s[k] = f /\ \A q \in 1 .. Len(a) : s[q] = a[q] BY <1>1, <1>6, <1>9
 <2>3. ASSUME NEW q \in 1 .. k PROVE PushedWell(contents, p, x, key, q, s[q])
  <3>1. CASE q = k
   <4>1. Le(p, f, f) /\ Upto(contents, p, f, f, e) BY <1>1, <1>5, <1>9, RowFacts DEF Upto
   <4>2. Adjusting(x.edit, key)[q] = j /\ x.edit.children[j] = f /\ BarrierOf(x.edit, j, x.barrier) = e
    BY <1>1, <1>2, <1>3, <1>12, <3>1
   <4> QED BY <2>2, <3>1, <4>1, <4>2 DEF PushedWell
  <3>2. CASE q # k
   <4>1. q \in 1 .. Len(a) BY <1>1, <1>6, <3>2
   <4>2. PushedWell(contents, p, v, key, q, a[q]) BY <1>1, <4>1 DEF AdjustedSoFar
   <4>3. s[q] = a[q] /\ x.edit = v.edit /\ x.barrier = v.barrier BY <1>1, <1>2, <1>12, <2>2, <4>1
   <4> QED BY <4>2, <4>3 DEF PushedWell
  <3> QED BY <3>1, <3>2
 <2> QED BY <1>1, <1>12, <2>1, <2>2, <2>3 DEF AdjustsWell, AdjustedSoFar
<1>15. PushesWell("adjust", x, key) BY <1>1, <1>2, <1>3, <1>12 DEF PushesWell
<1>16. At("push", x) = "adjust" BY <1>12 DEF At
<1>17. Alone(contents, p, "push", x, key)
 <2>1. Sound(contents, p, "push", x, key) BY <1>13, <1>14, <1>15, <1>16 DEF Sound
 <2> QED BY <1>16, <2>1, SoundAlone DEF Sliding
<1> QED BY <1>11, <1>17 DEF Goes, PushedOn

LEMMA CleanNodeOrders ==
 ASSUME NEW p, Ordered(p), NEW t \in Threads, UNCHANGED shared, UNCHANGED call,
        NEW key \in Keys, key = call[t].key, NEW v \in LocalsSet, NEW n \in DOMAIN contents, n = v.node, n[1] # 0,
        NEW c, c = v.edit, c = contents[n], HasPlace(DOMAIN contents, n[1], c, key), v.adjusted = <<>>,
        CleanNode(t, v), OnWay(contents, p, v, key), CleansWell(contents, p, v, key)
 PROVE  MultiwayOrder'
<1>1. PICK D, l, k, w, d, rt : /\ D = DOMAIN contents /\ l = n[1] /\ k = c.link /\ w = UpperEnd(c)
                               /\ d = Last(c.children) /\ rt = root
 OBVIOUS
<1>2. TreeInv(contents, rt) /\ OrderInv(contents, p, rt) BY <1>1 DEF Ordered, MultiwayInv
<1>3. D \in SUBSET Names /\ l \in Nat /\ HasPlace(D, l, c, key) /\ l # 0 BY <1>1, <1>2, NodeRead
<1>4. CASE Len(c.items) <= 2 /\ k # NoNode
 <2>1. PushRightFrom(t, v, k, EMPTY, "sibling") BY <1>1, <1>4 DEF CleanNode
 <2>2. Full(c) BY <1>1, <1>3, <1>4, LastItemFacts DEF Full
 <2>3. Links(contents, p, n, c, k, w, d) BY <1>1, <1>2, <1>4, <2>2, LinksHere
 <2>4. DescendsWell(contents, p, v, key) /\ (v.height = 0 => BarrierHolds(contents, p, n, v.barrier))
  BY DEF CleansWell
 <2> QED BY <2>1, <2>3, <2>4, SlideEnters
<1>5. CASE ~(Len(c.items) <= 2 /\ k # NoNode)
 <2>1. Adjust(t, v) BY <1>1, <1>5 DEF CleanNode
 <2>2. Len(v.adjusted) < Len(Adjusting(v.edit, key))
  <3>1. PICK a : a = v.adjusted OBVIOUS
  <3>2. Len(a) < Len(Adjusting(c, key)) BY <1>3, <3>1, AdjustsSome
  <3> QED BY <3>1, <3>2
 <2>3. AdjustedSoFar(contents, p, v, key)
  <3>1. c.stamp \in Nat BY DEF LocalsSet, ContentsSet
  <3>2. Len(v.adjusted) = 0 OBVIOUS
  <3> QED BY <3>1, <3>2 DEF AdjustedSoFar
 <2>4. Goes(t, contents, p) BY <1>2, <2>1, <2>2, <2>3, AdjustGoes
 <2> QED BY <2>4, QuietGoes
<1> QED BY <1>4, <1>5

(* traverseLeaf goes down, cleaning when it removes; traverseNonLeaf. *)
LEMMA VisitInnerOrders ==
 ASSUME NEW p, Ordered(p), NEW t \in Threads, VisitInner(t)
 PROVE  MultiwayOrder'
<1>1. PICK m, key, n, c : m = my[t] /\ key = call[t].key /\ n = m.node /\ c = contents[n] OBVIOUS
<1>2. /\ pc[t] = "visit" /\ UNCHANGED <<shared, history, bounds>> /\ ~Beyond(c, key) /\ ~IsLeaf(c)
      /\ IF Removing(t) THEN CleanNode(t, Entering(my[t], c)) ELSE GoOn(t, "visit", ChildFor(c, key), EMPTY)
 BY <1>1, Zenon DEF VisitInner, Entering, Key
<1>3. Mine(t, p, m, key) /\ MultiwayInv BY <1>1, <1>2, MineHere DEF Ordered
<1>4. PICK D : D = DOMAIN contents OBVIOUS
<1>5. /\ TreeInv(contents, root) /\ OrderInv(contents, p, root) /\ m \in LocalsSet /\ n \in D /\ key \in Keys
      /\ OnWay(contents, p, m, key) /\ Visits(m) /\ m.adjusted = <<>> /\ Going(D, m, call[t])
      /\ EMPTY \in Int /\ Sound(contents, p, "visit", m, key) /\ ResultsLow(contents, p, m.results, key)
 BY <1>1, <1>2, <1>3, <1>4 DEF Mine, Placed
<1>6. Shape(D, n[1], c) /\ n[1] \in Nat /\ D \in SUBSET Names /\ n # NoNode /\ c \in ContentsSet
 BY <1>1, <1>4, <1>5, NodeRead DEF Shape
<1>7. n[1] # 0 /\ HasPlace(D, n[1], c, key) BY <1>2, <1>5, <1>6, ShapeFacts DEF HasPlace
<1>8. Low(contents, p, n, key - 1) BY <1>1, <1>5, <1>6 DEF OnWay
<1>9. Low(contents, p, ChildFor(c, key), key - 1) BY <1>1, <1>2, <1>4, <1>5, <1>7, <1>8, ChildLow
<1>10. ChildFor(c, key) \in Names BY <1>5, <1>6, <1>7, ChildIsOn DEF On
<1>11. BarrierHolds(contents, p, n, m.barrier)
 <2>1. At("visit", m) = "visit" /\ m.height = 0 BY <1>5 DEF At, Visits
 <2> QED BY <1>1, <1>5, <2>1 DEF Sound
<1>12. CASE Removing(t)
 <2>1. PICK v : v = Entering(m, c) OBVIOUS
 <2>2. /\ v \in LocalsSet /\ v.cts = c /\ v.edit = c /\ v.height = m.height /\ v.node = m.node
       /\ v.results = m.results /\ v.barrier = m.barrier /\ v.adjusted = m.adjusted
  BY <1>5, <1>6, <2>1, EnteringIs
 <2>3. CleanNode(t, v) BY <1>1, <1>2, <1>12, <2>1
 <2>4. OnWay(contents, p, v, key) BY <1>5, <2>2 DEF OnWay
 <2>5. CleansWell(contents, p, v, key) BY <1>1, <1>9, <1>11, <2>2 DEF CleansWell, DescendsWell
 <2>6. n = v.node /\ c = v.edit /\ v.adjusted = <<>> /\ n \in DOMAIN contents
       /\ HasPlace(DOMAIN contents, n[1], c, key)
  BY <1>1, <1>4, <1>5, <1>7, <2>2
 <2> QED BY <1>1, <1>2, <1>5, <1>7, <2>2, <2>3, <2>4, <2>5, <2>6, CleanNodeOrders DEF history
<1>13. CASE ~Removing(t)
 <2>1. GoOn(t, "visit", ChildFor(c, key), EMPTY) BY <1>2, <1>13
 <2>2. BarrierHolds(contents, p, ChildFor(c, key), EMPTY) BY DEF BarrierHolds
 <2>3. Goes(t, contents, p) BY <1>1, <1>5, <1>9, <1>10, <2>1, <2>2, GoOnGoes
 <2> QED BY <1>2, <2>3, QuietGoes DEF history
<1> QED BY <1>12, <1>13

LEMMA WalkOrders ==
 ASSUME NEW p, Ordered(p), NEW t \in Threads, Walk(t)
 PROVE  MultiwayOrder'
<1>1. PICK m, key, n, c, D : m = my[t] /\ key = call[t].key /\ n = m.node /\ c = contents[n] /\ D = DOMAIN contents
 OBVIOUS
<1>2. pc[t] = "walk" /\ UNCHANGED <<shared, history, bounds>> BY DEF Walk
<1>3. Mine(t, p, m, key) /\ MultiwayInv BY <1>1, <1>2, MineHere DEF Ordered
<1>4. /\ TreeInv(contents, root) /\ OrderInv(contents, p, root) /\ m \in LocalsSet /\ n \in D /\ key \in Keys
      /\ OnWay(contents, p, m, key) /\ n[1] = m.level /\ m.height >= 1 /\ m.height \in Nat
      /\ Going(D, m, call[t]) /\ EMPTY \in Int /\ m.level \in Nat
 BY <1>1, <1>2, <1>3 DEF Mine, Placed
<1>5. Shape(D, n[1], c) /\ n[1] \in Nat /\ D \in SUBSET Names /\ n # NoNode /\ c \in ContentsSet
 BY <1>1, <1>4, NodeRead DEF Shape
<1>6. Low(contents, p, n, key - 1) BY <1>1, <1>4, <1>5 DEF OnWay
<1>7. "walk" \in Base /\ "insert" \in Base /\ At("walk", m) = "walk" BY DEF Base, At
<1>8. CASE Beyond(c, key)
 <2>1. PICK v : v = [m EXCEPT !.node = c.link] OBVIOUS
 <2>2. Become(t, v) /\ UNCHANGED pc BY <1>1, <1>8, <2>1 DEF Walk, Key
 <2>3. c.link \in Names /\ Low(contents, p, c.link, key - 1) BY <1>1, <1>4, <1>6, <1>8, BeyondLow
 <2>4. v.node = c.link /\ v.results = m.results BY <1>4, <2>1, <2>3 DEF LocalsSet, NodeOrNone
 <2>5. OnWay(contents, p, v, key) BY <1>4, <2>3, <2>4 DEF OnWay
 <2>6. At("walk", v) = "walk" BY DEF At
 <2>7. Goes(t, contents, p) BY <1>1, <1>2, <1>3, <1>7, <2>2, <2>5, <2>6, BecomesGoes
 <2> QED BY <1>2, <2>7, QuietGoes DEF history
<1>9. CASE ~Beyond(c, key) /\ m.level = 0
 <2>1. PICK v : v = [m EXCEPT !.cts = c] OBVIOUS
 <2>2. GoTo(t, "insert") /\ Become(t, v) BY <1>1, <1>9, <2>1 DEF Walk, Key
 <2>3. v.node = m.node /\ v.results = m.results BY <1>4, <1>5, <2>1 DEF LocalsSet
 <2>4. OnWay(contents, p, v, key) BY <1>4, <2>3 DEF OnWay
 <2>5. At("insert", v) = "insert" BY DEF At
 <2>6. Alone(contents, p, "insert", v, key) BY <1>7, <2>4, <2>5, BaseAlone
 <2>7. Goes(t, contents, p) BY <1>1, <2>2, <2>6 DEF Goes, GoTo, Become
 <2> QED BY <1>2, <2>7, QuietGoes DEF history
<1>10. CASE ~Beyond(c, key) /\ m.level # 0
 <2>1. HasPlace(D, n[1], c, key) /\ n[1] # 0 BY <1>4, <1>5, <1>10 DEF HasPlace
 <2>2. Low(contents, p, ChildFor(c, key), key - 1) BY <1>1, <1>4, <1>6, <1>10, <2>1, ChildLow
 <2>3. ChildFor(c, key) \in D BY <1>4, <1>5, <2>1, ChildIsOn DEF On
 <2>4. CASE c.link = NoNode
  <3>1. SamaritanReturns(t, c, c) BY <1>1, <1>10, <2>4 DEF Walk, Key
  <3>2. Safe(contents, p, contents, p) BY <1>4, SameIsGood DEF Good
  <3>3. m.node \in DOMAIN contents /\ ChildFor(c, key) \in DOMAIN contents BY <1>1, <1>4, <2>3
  <3>4. Goes(t, contents, p) BY <1>1, <1>3, <2>2, <3>1, <3>2, <3>3, SamaritanBack
  <3> QED BY <1>2, <3>4, QuietGoes DEF history
 <2>5. CASE c.link # NoNode
  <3>1. PICK v, k, w, d : v = Entering(m, c) /\ k = c.link /\ w = UpperEnd(c) /\ d = Last(c.children)
   OBVIOUS
  <3>2. PushRightFrom(t, v, k, EMPTY, "sibling")
   <4>1. PushRightFrom(t, Entering(my[t], c), c.link, EMPTY, "sibling")
    BY <1>1, <1>10, <2>5, Zenon DEF Walk, Key, Entering
   <4> QED BY <1>1, <3>1, <4>1
  <3>3. /\ v \in LocalsSet /\ v.cts = c /\ v.edit = c /\ v.height = m.height /\ v.node = m.node
        /\ v.results = m.results
   BY <1>4, <1>5, <3>1, EnteringIs
  <3>4. Full(c) BY <1>4, <1>5, <2>1, <2>5, LastItemFacts DEF Full
  <3>5. Links(contents, p, n, c, k, w, d) BY <1>1, <1>4, <2>1, <2>5, <3>1, <3>4, LinksHere
  <3>6. OnWay(contents, p, v, key) BY <1>4, <3>3 DEF OnWay
  <3>7. DescendsWell(contents, p, v, key) BY <2>2, <3>3 DEF DescendsWell
  <3>8. v.height # 0 BY <1>4, <3>3
  <3>9. n = v.node /\ c = v.edit BY <1>1, <3>3
  <3> QED BY <1>1, <1>2, <3>2, <3>3, <3>5, <3>6, <3>7, <3>8, <3>9, SlideEnters DEF history
 <2> QED BY <2>4, <2>5
<1> QED BY <1>8, <1>9, <1>10

(* pushRight goes on. *)
LEMMA PushOn ==
 ASSUME NEW cts, NEW p, NEW rt, TreeInv(cts, rt), OrderInv(cts, p, rt),
        NEW a \in DOMAIN cts, NEW b \in DOMAIN cts, NEW v \in Int, EMPTY <= v,
        Le(p, a, b), Upto(cts, p, a, b, v), UpperEnd(cts[b]) <= v, NEW k, k = cts[b].link, k # NoNode
 PROVE  Le(p, a, k) /\ Upto(cts, p, a, k, v)
<1>1. Linked(cts, p, b, k) BY LinkFacts
<1>2. /\ Numbered(cts, p) /\ AllEnd(cts) /\ k \in DOMAIN cts /\ Lt(p, b, k) /\ EMPTY \in Int
      /\ \A x \in DOMAIN cts : Lt(p, b, x) /\ Lt(p, x, k) => ~Full(cts[x])
 BY <1>1 DEF Linked
<1>3. Lt(p, a, k) /\ Le(p, a, k) /\ a[1] = b[1] BY <1>2, RowFacts
<1>4. ASSUME NEW x \in DOMAIN cts, Le(p, a, x), Lt(p, x, k) PROVE UpperEnd(cts[x]) <= v
 <2>1. CASE Lt(p, x, b) BY <1>4, <2>1 DEF Upto
 <2>2. CASE x = b BY <2>2
 <2>3. CASE Lt(p, b, x)
  <3>1. ~Full(cts[x]) /\ Ends(cts[x]) BY <1>2, <1>4, <2>3 DEF AllEnd
  <3> QED BY <3>1 DEF Ends
 <2> QED
  <3>1. x[1] = b[1] BY <1>2, <1>3, <1>4, RowFacts
  <3> QED BY <1>2, <2>1, <2>2, <2>3, <3>1, RowFacts
<1> QED BY <1>3, <1>4 DEF Upto

Skipped(cts, p, b, k) == \A x \in DOMAIN cts : Lt(p, x, k) /\ Full(cts[x]) => Lt(p, x, b)
SlidOn(cts, p, n, b, k, v) ==
    k \in DOMAIN cts /\ k[1] = b[1] /\ Lt(p, n, k) /\ Between(cts, p, k, v) /\ Skipped(cts, p, b, k)

LEMMA SlideOn ==
 ASSUME NEW cts, NEW p, NEW rt, TreeInv(cts, rt), OrderInv(cts, p, rt),
        NEW n \in DOMAIN cts, NEW b \in DOMAIN cts, Lt(p, n, b), ~Full(cts[b]), NEW v \in Int, Between(cts, p, b, v),
        NEW k, k = cts[b].link, k # NoNode
 PROVE  SlidOn(cts, p, n, b, k, v)
<1>1. Linked(cts, p, b, k) BY LinkFacts
<1>2. /\ Numbered(cts, p) /\ AllEnd(cts) /\ k \in DOMAIN cts /\ Lt(p, b, k) /\ EMPTY \in Int /\ k[1] = b[1]
      /\ \A x \in DOMAIN cts : Lt(p, b, x) /\ Lt(p, x, k) => ~Full(cts[x])
 BY <1>1 DEF Linked
<1>3. Lt(p, n, k) BY <1>2, RowFacts
<1>4. ASSUME NEW x \in DOMAIN cts, Lt(p, x, k), Full(cts[x]) PROVE Lt(p, x, b)
 <2>1. x[1] = b[1] BY <1>2, <1>4, RowFacts
 <2>2. Lt(p, x, b) \/ x = b \/ Lt(p, b, x) BY <1>2, <2>1, RowFacts
 <2> QED BY <1>2, <1>4, <2>2
<1>5. Low(cts, p, k, v)
 <2>1. ASSUME NEW x \in DOMAIN cts, Lt(p, x, k) PROVE UpperEnd(cts[x]) <= v
  <3>1. CASE Full(cts[x]) BY <1>4, <2>1, <3>1 DEF Between, Low
  <3>2. CASE ~Full(cts[x])
   <4>1. Ends(cts[x]) /\ EMPTY < v BY <1>2 DEF AllEnd, Between
   <4> QED BY <3>2, <4>1 DEF Ends
  <3> QED BY <3>1, <3>2
 <2> QED BY <2>1 DEF Low
<1>6. Has(cts, k[1], v) \/ \E y \in DOMAIN cts : Le(p, k, y) /\ Full(cts[y]) /\ First(cts[y]) <= v
 <2>1. CASE Has(cts, b[1], v) BY <1>2, <2>1
 <2>2. ASSUME NEW y \in DOMAIN cts, Le(p, b, y), Full(cts[y]), First(cts[y]) <= v PROVE Le(p, k, y)
  <3>1. ~Lt(p, y, k) BY <1>2, <1>4, <2>2, RowFacts
  <3>2. y[1] = k[1] BY <1>2, <2>2, RowFacts
  <3> QED BY <1>2, <3>1, <3>2, RowFacts
 <2> QED BY <2>1, <2>2 DEF Between
<1> QED BY <1>2, <1>3, <1>4, <1>5, <1>6 DEF SlidOn, Skipped, Between

(* A child that reaches beyond the last but one item of the level is where *)
(* the last item leads, but for empty nodes.                               *)
LEMMA NoneBetween ==
 ASSUME NEW cts, NEW p, NEW rt, TreeInv(cts, rt), OrderInv(cts, p, rt),
        NEW n \in DOMAIN cts, NEW c, c = cts[n], NEW N \in Nat, N = Len(c.items), N >= 2,
        NEW w, w = c.items[N], NEW v, v = c.items[N - 1],
        NEW e \in DOMAIN cts, Full(cts[e]), v < UpperEnd(cts[e]), NEW d \in DOMAIN cts, Promise(cts, p, n[1], w, d)
 PROVE  Upto(cts, p, e, d, EMPTY)
<1>1. PICK D, l : D = DOMAIN cts /\ l = n[1] OBVIOUS
<1>2. Numbered(cts, p) /\ AllEnd(cts) /\ ItemsLead(cts, p) /\ D \in SUBSET Names /\ l \in Nat /\ Shape(D, l, c)
 BY <1>1, OrderRows DEF OrderInv
<1>3. /\ \A i \in 1 .. N : c.items[i] \in Item /\ c.items[i] \in Int
      /\ \A i, j \in 1 .. N : i < j => c.items[i] < c.items[j]
 BY <1>2, ShapeFacts
<1>4. v \in Int /\ w \in Int /\ v < w /\ Full(c) /\ UpperEnd(c) = w /\ First(c) <= v
 <2>1. N - 1 \in 1 .. N /\ N \in 1 .. N /\ N - 1 < N OBVIOUS
 <2>2. Full(c) /\ UpperEnd(c) = w
  <3>1. c.items # <<>> BY <1>2, ShapeFacts
  <3> QED BY <3>1 DEF Full, UpperEnd, Last
 <2>3. First(c) <= v
  <3>1. Holds(c, v) BY <2>1 DEF Holds
  <3>2. Ends(c) BY <1>2 DEF AllEnd
  <3> QED BY <3>1, <3>2 DEF Ends
 <2> QED BY <1>3, <2>1, <2>2, <2>3
<1>5. ASSUME NEW u, Has(cts, l, u), u < w PROVE u <= v /\ u \in Int
 <2>1. PICK f \in DOMAIN cts : f[1] = l /\ Holds(cts[f], u) BY <1>5 DEF Has
 <2>2. Ends(cts[f]) /\ Full(cts[f]) /\ u \in Int /\ u <= UpperEnd(cts[f]) /\ Ends(c) /\ UpperEnd(cts[f]) \in Int
       /\ First(c) \in Int
  <3>1. Ends(cts[f]) /\ Ends(c) BY <1>2 DEF AllEnd
  <3> QED BY <1>4, <2>1, <3>1 DEF Ends
 <2>3. CASE f = n
  <3>1. PICK i \in 1 .. N : c.items[i] = u BY <2>1, <2>3 DEF Holds
  <3>2. i # N BY <1>3, <1>4, <1>5, <3>1
  <3>3. i = N - 1 \/ i < N - 1 BY <3>1, <3>2
  <3>4. i < N - 1 => c.items[i] < c.items[N - 1]
   <4>1. N - 1 \in 1 .. N OBVIOUS
   <4> QED BY <1>3, <3>1, <4>1
  <3>5. u \in Int BY <1>3, <3>1
  <3>6. CASE i = N - 1 BY <1>4, <3>1, <3>5, <3>6
  <3>7. CASE i < N - 1 BY <1>4, <3>1, <3>4, <3>5, <3>7
  <3> QED BY <3>3, <3>6, <3>7
 <2>4. CASE Lt(p, f, n)
  <3>1. UpperEnd(cts[f]) <= First(c) BY <1>2, <1>4, <2>4, ItemsAscend
  <3> QED BY <1>4, <2>2, <3>1
 <2>5. CASE Lt(p, n, f)
  <3>1. UpperEnd(c) <= u BY <1>2, <2>1, <2>2, <2>5, ItemsAscend
  <3> QED BY <1>4, <1>5, <2>2, <3>1
 <2> QED BY <1>1, <1>2, <2>1, <2>3, <2>4, <2>5, RowFacts
<1>6. ASSUME NEW x \in DOMAIN cts, Le(p, e, x), Lt(p, x, d) PROVE UpperEnd(cts[x]) <= EMPTY
 <2>1. Ends(cts[x]) /\ Ends(cts[e]) BY <1>2 DEF AllEnd
 <2>2. CASE ~Full(cts[x]) BY <2>1, <2>2 DEF Ends
 <2>3. CASE Full(cts[x])
  <3>1. UpperEnd(cts[e]) <= UpperEnd(cts[x])
   <4>1. e = x \/ Lt(p, e, x) BY <1>2, <1>6, RowFacts
   <4>2. Lt(p, e, x) => UpperEnd(cts[e]) <= UpperEnd(cts[x]) BY <1>2, <2>3, ItemsAscend
   <4> QED BY <2>1, <4>1, <4>2 DEF Ends
  <3>2. Bounded(cts, l, UpperEnd(cts[x]), w) BY <1>1, <1>6 DEF Promise
  <3>3. ASSUME NEW u, Has(cts, l, u), u < w, UpperEnd(cts[x]) <= u PROVE FALSE
   <4>1. u <= v /\ u \in Int BY <1>5, <3>3
   <4>2. UpperEnd(cts[x]) \in Int /\ UpperEnd(cts[e]) \in Int BY <2>1 DEF Ends
   <4> QED BY <1>4, <3>1, <3>3, <4>1, <4>2
  <3> QED BY <3>2, <3>3 DEF Bounded
 <2> QED BY <2>2, <2>3
<1> QED BY <1>6 DEF Upto

(* Steps on the way of a sliding item, and of pushRight. *)
LEMMA SlidingStep ==
 ASSUME NEW p, Ordered(p), NEW t \in Threads, UNCHANGED shared, UNCHANGED call,
        NEW x, x \notin {"adjust", "shift"}, NEW v, NEW l, l = At(x, v), NEW key, key = call[t].key,
        pc' = [pc EXCEPT ![t] = x], my' = [my EXCEPT ![t] = v],
        Sound(contents, p, x, v, key), CarriesWell(contents, p, l, v),
        \A u \in Threads \ {t} : SlidesKeep(contents, p, pc[u], my[u], call[u].key, l, v)
 PROVE  MultiwayOrder'
<1>1. Holding(contents, p, x, v, key) BY DEF Holding, TwinsKeep, DropsLast
<1>2. PairsHold(contents, p, t, x, v, key) BY DEF PairsHold, SlidesKeep, DropsLast
<1>3. MultiwayInv /\ OrderInv(contents, p, root) /\ CallsSound(contents, p) BY DEF Ordered
<1>4. Moves(t, x, v, call[t]) BY <1>3, SameCallMoves
<1> QED BY <1>1, <1>2, <1>3, <1>4, SameStep

LEMMA SlidingStays ==
 ASSUME NEW p, Ordered(p), NEW t \in Threads, UNCHANGED shared, UNCHANGED call, NEW m, m = my[t],
        NEW x, x \notin {"adjust", "shift"}, NEW l, l = At(x, m), l = At(pc[t], m), GoTo(t, x), UNCHANGED my,
        Sound(contents, p, x, m, call[t].key)
 PROVE  MultiwayOrder'
<1>1. pc' = [pc EXCEPT ![t] = x] /\ my' = [my EXCEPT ![t] = m]
 BY UnchangedAsExcept DEF GoTo, Ordered, MultiwayInv, OthersInv
<1>2. CarriesWell(contents, p, l, m) /\ \A u \in Threads : SlidesKeep(contents, p, pc[u], my[u], call[u].key, l, m)
 BY DEF Ordered, CallsSound
<1> QED BY <1>1, <1>2, SlidingStep

PushNext(m, k) == [m EXCEPT !.push = k]

LEMMA PushNextIs ==
 ASSUME NEW m \in LocalsSet, NEW k \in Names, NEW v, v = PushNext(m, k)
 PROVE  /\ SameCall(v, m) /\ v.push = k /\ v.pushBarrier = m.pushBarrier /\ v.then = m.then
        /\ v \in LocalsSet
 BY DEF PushNext, LocalsSet, NodeOrNone, SameCall

LEMMA SoundBecomes ==
 ASSUME NEW cts, NEW p, MultiwayInv, NEW t \in Threads, NEW v, Become(t, v), UNCHANGED pc, NEW l, l = pc[t],
        l \notin {"adjust", "shift"}, At(l, v) \notin Sliding, Sound(cts, p, l, v, call[t].key)
 PROVE  Goes(t, cts, p)
<1>1. pc' = [pc EXCEPT ![t] = l] BY UnchangedAsExcept DEF MultiwayInv, OthersInv
<1>2. Alone(cts, p, l, v, call[t].key) BY SoundAlone
<1> QED BY <1>1, <1>2 DEF Goes, Become

LEMMA BarrierAbove ==
 ASSUME NEW D \in SUBSET Names, NEW l \in Nat, NEW c, Shape(D, l, c), NEW j \in 1 .. Len(c.items), NEW b \in Int,
        b = EMPTY \/ EMPTY < b, NEW e, e = BarrierOf(c, j, b)
 PROVE  e \in Int /\ EMPTY <= e
<1>1. Ends(c) BY EndFacts
<1>2. Len(c.items) \in Nat /\ \A i \in 1 .. Len(c.items) : c.items[i] \in Int BY ShapeFacts
<1>3. EMPTY \in Int BY <1>1 DEF Ends
<1>4. CASE j > 1
 <2>1. PICK i : i = j - 1 OBVIOUS
 <2>2. i \in 1 .. Len(c.items) BY <1>2, <1>4, <2>1
 <2>3. Holds(c, c.items[i]) BY <2>2 DEF Holds
 <2>4. EMPTY < c.items[i] BY <1>1, <2>3 DEF Ends
 <2>5. e = c.items[i] BY <1>4, <2>1 DEF BarrierOf
 <2> QED BY <1>2, <1>3, <2>2, <2>4, <2>5
<1>5. CASE ~(j > 1) BY <1>3, <1>5 DEF BarrierOf
<1> QED BY <1>4, <1>5

(* Where pushRight is. *)
AtPush(t, p, m, key, l, b, c, k) ==
    /\ Mine(t, p, m, key) /\ l \in {"link", "sibling", "nephew", "adjust"} /\ At("push", m) = l /\ l = m.then
    /\ Sound(contents, p, "push", m, key) /\ b \in DOMAIN contents /\ c = contents[b] /\ c = contents[m.push]
    /\ LocalInv(contents, "push", m, call[t]) /\ m.pushBarrier \in Int /\ m.pushBarrier < INF
    /\ Ends(c) /\ (c.items = <<>> \/ Last(c.items) <= m.pushBarrier
                      => k # NoNode /\ k \in DOMAIN contents /\ k \in Names)

LEMMA AtPushHere ==
 ASSUME NEW p, Ordered(p), NEW t \in Threads, pc[t] = "push",
        NEW m, m = my[t], NEW key, key = call[t].key, NEW l, l = m.then, NEW b, b = m.push,
        NEW c, c = contents[b], NEW k, k = c.link
 PROVE  AtPush(t, p, m, key, l, b, c, k)
<1>1. Mine(t, p, m, key) /\ LocalInv(contents, "push", m, call[t])
 BY MineHere DEF Ordered, MultiwayInv, AllLocalInv
<1>2. /\ TreeInv(contents, root) /\ OrderInv(contents, p, root) /\ m \in LocalsSet
      /\ Sound(contents, p, "push", m, key) /\ Placed(contents, "push", m, call[t])
 BY <1>1 DEF Mine
<1>3. l \in {"link", "sibling", "nephew", "adjust"} /\ At("push", m) = l /\ m.pushBarrier < INF /\ m.pushBarrier \in Int
 BY <1>2 DEF Placed, At, LocalsSet
<1>4. b \in DOMAIN contents
 <2>1. CASE l = "link" BY <1>2, <1>3, <2>1 DEF Placed, AtLink, On
 <2>2. CASE l \in {"sibling", "nephew"} BY <1>2, <1>3, <2>2 DEF Placed, AtSlide, On
 <2>3. CASE l = "adjust" BY <1>2, <1>3, <2>3 DEF Placed, AtAdjust, On
 <2> QED BY <1>3, <2>1, <2>2, <2>3
<1>5. DOMAIN contents \in SUBSET Names /\ b[1] \in Nat /\ Shape(DOMAIN contents, b[1], c) /\ Ends(c)
 BY <1>2, <1>4, NodeRead, OrderRows
<1>6. ASSUME c.items = <<>> \/ Last(c.items) <= m.pushBarrier PROVE k # NoNode /\ k \in DOMAIN contents /\ k \in Names
 <2>1. k # NoNode
  <3>1. INF \in Int BY MultiwayAssumption
  <3>2. c.link = NoNode <=> c.items # <<>> /\ Last(c.items) = INF BY <1>5 DEF Shape, LinkOK
  <3>3. PICK w : w = Last(c.items) OBVIOUS
  <3>4. w = INF => ~(w <= m.pushBarrier) BY <1>3, <3>1
  <3> QED BY <1>6, <3>2, <3>3, <3>4
 <2> QED BY <1>2, <1>4, <2>1, LinkIn
<1> QED BY <1>1, <1>2, <1>3, <1>4, <1>5, <1>6 DEF AtPush

LEMMA LinkPushesOn ==
 ASSUME NEW p, Ordered(p), NEW t \in Threads, NEW m, m = my[t], NEW key, key = call[t].key, NEW b, NEW c, NEW k, k = c.link,
        AtPush(t, p, m, key, "link", b, c, k), b = m.push, UpperEnd(c) <= m.pushBarrier, k \in DOMAIN contents,
        k # NoNode, NEW v, SameCall(v, m), v.push = k, v.pushBarrier = m.pushBarrier, v.then = m.then
 PROVE  Sound(contents, p, "push", v, key)
<1>1. /\ TreeInv(contents, root) /\ OrderInv(contents, p, root) /\ OnWay(contents, p, m, key)
      /\ Sound(contents, p, "push", m, key) /\ At("push", m) = "link" /\ LocalInv(contents, "push", m, call[t])
      /\ b \in DOMAIN contents /\ c = contents[b]
 BY DEF AtPush, Mine
<1>2. LinksWell(contents, p, "link", m, key) /\ m.pushBarrier = EMPTY BY <1>1 DEF Sound, PushesWell
<1>3. PICK a : a = m.edit.link OBVIOUS
<1>4. a \in DOMAIN contents BY <1>1, <1>3, LinkNodes
<1>5. Le(p, a, b) /\ Upto(contents, p, a, b, EMPTY) BY <1>2, <1>3 DEF LinksWell
<1>6. EMPTY \in Int /\ EMPTY <= EMPTY BY MultiwayAssumption
<1>7. Le(p, a, k) /\ Upto(contents, p, a, k, EMPTY) BY <1>1, <1>2, <1>4, <1>5, <1>6, PushOn
<1>8. /\ v.height = m.height /\ v.node = m.node /\ v.cts = m.cts /\ v.edit = m.edit /\ v.results = m.results
      /\ v.barrier = m.barrier /\ v.push = k
 BY DEF SameCall
<1>9. LinksWell(contents, p, "link", v, key) BY <1>2, <1>3, <1>7, <1>8 DEF LinksWell, DescendsWell
<1>10. OnWay(contents, p, v, key) BY <1>1, <1>8 DEF OnWay
<1>11. At("push", v) = "link" BY <1>1 DEF At
<1>12. PushesWell("link", v, key) BY <1>2 DEF PushesWell
<1> QED BY <1>9, <1>10, <1>11, <1>12 DEF Sound

LEMMA AdjustPushesOn ==
 ASSUME NEW p, Ordered(p), NEW t \in Threads, NEW m, m = my[t], NEW key, key = call[t].key, NEW b, NEW c, NEW k, k = c.link,
        AtPush(t, p, m, key, "adjust", b, c, k), b = m.push,
        UpperEnd(c) <= EMPTY \/ UpperEnd(c) <= m.pushBarrier, k \in DOMAIN contents, k \in Names,
        k # NoNode, NEW v, SameCall(v, m), v.push = k, v.pushBarrier = m.pushBarrier, v.then = m.then
 PROVE  Sound(contents, p, "push", v, key)
<1>1. /\ TreeInv(contents, root) /\ OrderInv(contents, p, root) /\ OnWay(contents, p, m, key) /\ m \in LocalsSet
      /\ Sound(contents, p, "push", m, key) /\ At("push", m) = "adjust" /\ LocalInv(contents, "push", m, call[t])
      /\ b \in DOMAIN contents /\ c = contents[b] /\ Placed(contents, "push", m, call[t]) /\ Ends(c)
 BY DEF AtPush, Mine, LocalInv
<1>2. AdjustsWell(contents, p, "adjust", m, key) /\ PushesWell("adjust", m, key) /\ CleansWell(contents, p, m, key)
 BY <1>1 DEF Sound
<1>3. PICK D, l, e, a, q, s, z, ct : /\ D = DOMAIN contents /\ l = m.node[1] /\ e = m.edit /\ a = m.adjusted /\ q = Len(a) + 1
                                 /\ s = Append(a, b) /\ z = Append(a, k) /\ ct = call[t]
 OBVIOUS
<1>4. s = Effective("adjust", m) /\ s = Effective(At("push", m), m) BY <1>1, <1>3 DEF Effective
<1>5. /\ b \in Names /\ a \in Seq(Names) /\ Len(a) \in Nat /\ Len(s) = q /\ s[q] = b
      /\ Len(z) = q /\ z[q] = k /\ \A i \in 1 .. Len(a) : s[i] = z[i]
 <2>1. b \in Names /\ a \in Seq(Names) BY <1>1, <1>3, NodeRead DEF LocalsSet
 <2> QED BY <1>3, <2>1
<1>6. PICK ix, j : ix = Adjusting(e, key) /\ j = ix[q] OBVIOUS
<1>7. /\ l \in Nat /\ l # 0 /\ HasPlace(D, l, e, key)
      /\ j \in 1 .. Len(e.items) /\ e.children[j] \in D
 <2>1. /\ m.node \in D /\ l # 0 /\ l \in Nat /\ HasPlace(D, l, e, ct.key)
       /\ \A i \in 1 .. Len(s) : /\ Adjusting(e, ct.key)[i] \in 1 .. Len(e.items)
                                 /\ e.children[Adjusting(e, ct.key)[i]] \in D
  <3>1. PICK pcl : pcl = "push" /\ LocalInv(contents, pcl, m, ct) /\ At(pcl, m) = "adjust"
   BY <1>1, <1>3
  <3>2. s = Effective(At(pcl, m), m) /\ pcl # "idle" BY <1>4, <3>1
  <3>3. /\ m.node \in DOMAIN contents /\ m.node[1] # 0 /\ m.node[1] \in Nat
        /\ HasPlace(DOMAIN contents, m.node[1], m.edit, ct.key)
        /\ \A i \in 1 .. Len(s) : /\ Adjusting(m.edit, ct.key)[i] \in 1 .. Len(m.edit.items)
                                  /\ m.edit.children[Adjusting(m.edit, ct.key)[i]] \in DOMAIN contents
   BY ONLY <1>1, <3>1, <3>2, AdjustNodes
  <3> QED BY <1>3, <3>3, Zenon
 <2>2. q \in 1 .. Len(s) /\ ct.key = key BY <1>3, <1>5
 <2>3. j \in 1 .. Len(e.items) /\ e.children[j] \in D BY <1>6, <2>1, <2>2
 <2>4. l \in Nat /\ l # 0 /\ HasPlace(D, l, e, key) BY <2>1, <2>2, Zenon
 <2> QED BY <2>3, <2>4, Zenon
<1>8. PICK f, w : f = e.children[j] /\ w = m.pushBarrier OBVIOUS
<1>9. w = BarrierOf(e, j, m.barrier) BY <1>2, <1>3, <1>6, <1>8 DEF PushesWell
<1>10. m.barrier \in Int /\ (m.barrier = EMPTY \/ EMPTY < m.barrier)
 <2>1. m.height = 0 /\ m.node[1] # 0
  <3>1. AtAdjust(D, "push", m, ct) BY <1>1, <1>3 DEF Placed
  <3> QED BY <1>3, <1>7, <3>1 DEF AtAdjust, Adjusts, Removes, Visits
 <2>2. BarrierHolds(contents, p, m.node, m.barrier) BY <1>2, <2>1 DEF CleansWell
 <2> QED BY <1>1, <2>1, <2>2 DEF BarrierHolds, Between, LocalsSet
<1>11. w \in Int /\ EMPTY <= w BY <1>1, <1>3, <1>7, <1>9, <1>10, NodeRead, BarrierAbove DEF HasPlace
<1>12. UpperEnd(c) <= w
 <2>1. UpperEnd(c) \in Int /\ EMPTY \in Int BY <1>1 DEF Ends
 <2> QED BY <1>8, <1>11, <2>1
<1>13. Le(p, f, b) /\ Upto(contents, p, f, b, w)
 <2>1. q \in 1 .. Len(s) BY <1>3, <1>5
 <2>2. PushedWell(contents, p, m, key, q, s[q]) BY <1>2, <1>4, <2>1, Zenon DEF AdjustsWell
 <2>3. Adjusting(m.edit, key)[q] = j /\ m.edit.children[j] = f /\ BarrierOf(m.edit, j, m.barrier) = w
  BY <1>3, <1>6, <1>8, <1>9
 <2> QED BY <1>5, <2>2, <2>3 DEF PushedWell
<1>14. Le(p, f, k) /\ Upto(contents, p, f, k, w)
 BY <1>1, <1>3, <1>7, <1>8, <1>11, <1>12, <1>13, PushOn
<1>15. /\ v.height = m.height /\ v.node = m.node /\ v.cts = m.cts /\ v.edit = e /\ v.results = m.results
       /\ v.barrier = m.barrier /\ v.push = k /\ v.adjusted = a
 BY <1>3 DEF SameCall
<1>16. AdjustsWell(contents, p, "adjust", v, key)
 <2>1. z = Effective("adjust", v) BY <1>3, <1>15 DEF Effective
 <2>2. ASSUME NEW i \in 1 .. q PROVE PushedWell(contents, p, v, key, i, z[i])
  <3>1. CASE i = q
   <4>1. Adjusting(v.edit, key)[i] = j /\ v.edit.children[j] = f /\ BarrierOf(v.edit, j, v.barrier) = w
    BY <1>6, <1>8, <1>9, <1>15, <3>1
   <4> QED BY <1>5, <1>14, <3>1, <4>1 DEF PushedWell
  <3>2. CASE i # q
   <4>1. i \in 1 .. Len(a) /\ i \in 1 .. Len(s) BY <1>3, <1>5, <3>2
   <4>2. PushedWell(contents, p, m, key, i, s[i]) BY <1>2, <1>4, <4>1 DEF AdjustsWell
   <4>3. z[i] = s[i] /\ v.edit = m.edit /\ v.barrier = m.barrier
    <5>1. z[i] = s[i] BY <1>5, <4>1
    <5> QED BY <1>3, <1>15, <5>1
   <4> QED BY <4>2, <4>3, Zenon DEF PushedWell
  <3> QED BY <3>1, <3>2
 <2> QED BY <1>2, <1>3, <1>5, <1>15, <2>1, <2>2 DEF AdjustsWell
<1>17. OnWay(contents, p, v, key) /\ CleansWell(contents, p, v, key)
 BY <1>1, <1>2, <1>15 DEF OnWay, CleansWell, DescendsWell
<1>18. At("push", v) = "adjust" BY <1>1 DEF At
<1>19. PushesWell("adjust", v, key) BY <1>2, <1>3, <1>15 DEF PushesWell
<1> QED BY <1>16, <1>17, <1>18, <1>19 DEF Sound

SlidesAt(cts, p, l, m) ==
    /\ Target(l, m) \in DOMAIN cts /\ Target(l, m)[1] # 0 /\ LastOf(m) \in Int /\ LastChildOf(m) \in DOMAIN cts
    /\ Between(cts, p, Target(l, m), LastOf(m))
    /\ m.node \in DOMAIN cts /\ Lt(p, m.node, Target(l, m))
    /\ m.edit.items # <<>> /\ Len(m.edit.items) \in Nat /\ Len(m.edit.items) >= 1
    /\ LastChildOf(m) = m.edit.children[Len(m.edit.items)]
(* The call is about to slide the last item of its node over. *)
LEMMA SlidesHere ==
 ASSUME NEW cts, NEW p, NEW rt, TreeInv(cts, rt), NEW pcl, NEW m, NEW c,
        LocalInv(cts, pcl, m, c), pcl # "idle", At(pcl, m) \in Sliding, Sound(cts, p, pcl, m, c.key)
 PROVE  SlidesAt(cts, p, At(pcl, m), m)
 BY SlidingNodes DEF SlidesAt

PushesTo(t, m, key, b, c, k, v) ==
    /\ m = my[t] /\ key = call[t].key /\ k = c.link /\ b = m.push /\ k \in DOMAIN contents /\ k # NoNode
    /\ SameCall(v, m) /\ v.push = k /\ v.pushBarrier = m.pushBarrier /\ v.then = m.then
    /\ pc[t] = "push" /\ pc' = [pc EXCEPT ![t] = "push"] /\ my' = [my EXCEPT ![t] = v]

LEMMA SiblingPushesOn ==
 ASSUME NEW p, Ordered(p), NEW t \in Threads, NEW m, NEW key, NEW b, NEW c, NEW k, NEW v, UNCHANGED shared, UNCHANGED call,
        AtPush(t, p, m, key, "sibling", b, c, k), UpperEnd(c) <= m.pushBarrier, PushesTo(t, m, key, b, c, k, v)
 PROVE  MultiwayOrder'
<1>0. /\ m = my[t] /\ key = call[t].key /\ k = c.link /\ b = m.push /\ k \in DOMAIN contents /\ k # NoNode
      /\ SameCall(v, m) /\ v.push = k /\ v.pushBarrier = m.pushBarrier /\ v.then = m.then
      /\ pc[t] = "push" /\ pc' = [pc EXCEPT ![t] = "push"] /\ my' = [my EXCEPT ![t] = v]
 BY Zenon DEF PushesTo
<1> USE <1>0
<1>1. /\ TreeInv(contents, root) /\ OrderInv(contents, p, root) /\ OnWay(contents, p, m, key) /\ MultiwayInv
      /\ Sound(contents, p, "push", m, key) /\ At("push", m) = "sibling" /\ LocalInv(contents, "push", m, call[t])
      /\ b \in DOMAIN contents /\ c = contents[b] /\ Ends(c)
 BY DEF AtPush, Mine, Ordered
<1>2. SlidesWell(contents, p, "sibling", m) /\ m.pushBarrier = EMPTY /\ CleansWell(contents, p, m, key)
 BY <1>1 DEF Sound, PushesWell
<1>3. PICK n, w, ct : n = m.node /\ w = LastOf(m) /\ ct = call[t] OBVIOUS
<1>4. Target("sibling", m) = b BY DEF Target
<1>5. /\ n \in DOMAIN contents /\ b[1] # 0 /\ w \in Int /\ Between(contents, p, b, w) /\ Lt(p, n, b)
 <2>1. At("push", m) \in Sliding BY <1>1 DEF Sliding
 <2>2. Sound(contents, p, "push", m, ct.key) /\ LocalInv(contents, "push", m, ct) /\ "push" # "idle"
  BY <1>1, <1>3
 <2>3. /\ Target(At("push", m), m)[1] # 0 /\ LastOf(m) \in Int
       /\ Between(contents, p, Target(At("push", m), m), LastOf(m))
       /\ m.node \in DOMAIN contents /\ Lt(p, m.node, Target(At("push", m), m))
  <3>1. PICK z, rt : z = "push" /\ rt = root OBVIOUS
  <3>2. TreeInv(contents, rt) /\ LocalInv(contents, z, m, ct) /\ z # "idle" /\ At(z, m) \in Sliding
        /\ Sound(contents, p, z, m, ct.key)
   BY <1>1, <2>1, <2>2, <3>1
  <3>3. SlidesAt(contents, p, At(z, m), m) BY <3>2, SlidesHere
  <3> QED BY <3>1, <3>3 DEF SlidesAt
 <2> QED BY <1>1, <1>3, <1>4, <2>3
<1>6. ~Full(c) BY <1>1, <1>2 DEF Ends
<1>7. SlidOn(contents, p, n, b, k, w) BY <1>1, <1>5, <1>6, SlideOn
<1>8. k[1] = b[1] /\ Lt(p, n, k) /\ Between(contents, p, k, w) /\ Skipped(contents, p, b, k) /\ EMPTY < w
 BY <1>7 DEF SlidOn, Between
<1>9. /\ v.height = m.height /\ v.node = n /\ v.cts = m.cts /\ v.edit = m.edit /\ v.results = m.results
      /\ v.barrier = m.barrier /\ v.push = k
 BY <1>3 DEF SameCall
<1>10. At("push", v) = "sibling" /\ Target("sibling", v) = k /\ LastOf(v) = w /\ LastChildOf(v) = LastChildOf(m)
 BY <1>1, <1>3, <1>9 DEF At, Target, LastOf, LastChildOf
<1>11. Sound(contents, p, "push", v, key)
 <2>1. OnWay(contents, p, v, key) /\ CleansWell(contents, p, v, key)
  BY <1>1, <1>2, <1>3, <1>9 DEF OnWay, CleansWell, DescendsWell
 <2>2. SlidesWell(contents, p, "sibling", v) BY <1>2, <1>3, <1>8, <1>9, <1>10 DEF SlidesWell
 <2>3. PushesWell("sibling", v, key) BY <1>2 DEF PushesWell
 <2> QED BY <1>10, <2>1, <2>2, <2>3 DEF Sound
<1>12. CarriesWell(contents, p, "sibling", v)
 <2>1. PICK d : d = LastChildOf(m) OBVIOUS
 <2>2. CarriesWell(contents, p, "sibling", m) BY <1>1 DEF Ordered, CallsSound
 <2>3. Carries(contents, p, b, w, d) BY <1>3, <1>4, <2>1, <2>2 DEF CarriesWell, Sliding
 <2>4. EndsBefore(contents, p, k, w) => EndsBefore(contents, p, b, w)
  <3>1. ASSUME NEW x \in DOMAIN contents, Lt(p, x, k), UpperEnd(contents[x]) = w PROVE Lt(p, x, b)
   <4>1. Ends(contents[x]) BY <1>1, OrderRows
   <4>2. Full(contents[x]) BY <1>8, <3>1, <4>1 DEF Ends
   <4> QED BY <1>8, <3>1, <4>2 DEF Skipped
  <3> QED BY <3>1 DEF EndsBefore
 <2>5. Carries(contents, p, k, w, d) BY <1>8, <2>3, <2>4 DEF Carries
 <2> QED BY <1>10, <2>1, <2>5 DEF CarriesWell
<1>13. ASSUME NEW u \in Threads \ {t} PROVE SlidesKeep(contents, p, pc[u], my[u], call[u].key, "sibling", v)
 <2>1. PICK l, mu, cu : l = pc[u] /\ mu = my[u] /\ cu = call[u] OBVIOUS
 <2>2. SlidesKeep(contents, p, l, mu, cu.key, "sibling", m) /\ Sound(contents, p, l, mu, cu.key) /\ LocalInv(contents, l, mu, cu)
  <3>1. u \in Threads /\ SlidesKeep(contents, p, pc[u], my[u], call[u].key, At(pc[t], my[t]), my[t])
        /\ Sound(contents, p, pc[u], my[u], call[u].key)
   BY DEF Ordered, CallsSound
  <3> QED BY <1>1, <2>1, <3>1 DEF MultiwayInv, AllLocalInv
 <2>3. ASSUME DropsLast(contents, l, mu, cu.key), Lt(p, mu.node, k) PROVE Lt(p, mu.node, b)
  <3>1. l \in {"adjust", "shift"} /\ contents[mu.node] = mu.edit /\ Len(mu.edit.items) > 2
   BY <2>3 DEF DropsLast
  <3>2. mu.node \in DOMAIN contents BY <1>1, <2>2, <3>1, DropsLastIs
  <3>3. Full(contents[mu.node]) BY <3>1 DEF Full
  <3> QED BY <1>8, <2>3, <3>2, <3>3 DEF Skipped
 <2>4. SlidesKeep(contents, p, l, mu, cu.key, "sibling", v)
  BY <1>3, <1>4, <1>10, <2>2, <2>3 DEF SlidesKeep
 <2> QED BY <2>1, <2>4
<1> QED BY <1>10, <1>11, <1>12, <1>13, SlidingStep

Passes(c, m) == UpperEnd(c) <= EMPTY \/ UpperEnd(c) <= m.pushBarrier

LEMMA NephewPushesOn ==
 ASSUME NEW p, Ordered(p), NEW t \in Threads, NEW m, NEW key, NEW b, NEW c, NEW k, NEW v, UNCHANGED shared, UNCHANGED call,
        AtPush(t, p, m, key, "nephew", b, c, k), Passes(c, m), PushesTo(t, m, key, b, c, k, v)
 PROVE  MultiwayOrder'
<1>0. /\ m = my[t] /\ key = call[t].key /\ k = c.link /\ b = m.push /\ k \in DOMAIN contents /\ k # NoNode
      /\ SameCall(v, m) /\ v.push = k /\ v.pushBarrier = m.pushBarrier /\ v.then = m.then
      /\ pc[t] = "push" /\ pc' = [pc EXCEPT ![t] = "push"] /\ my' = [my EXCEPT ![t] = v]
 BY Zenon DEF PushesTo
<1> USE <1>0
<1>1. /\ TreeInv(contents, root) /\ OrderInv(contents, p, root) /\ OnWay(contents, p, m, key) /\ MultiwayInv
      /\ Sound(contents, p, "push", m, key) /\ At("push", m) = "nephew" /\ LocalInv(contents, "push", m, call[t])
      /\ b \in DOMAIN contents /\ c = contents[b] /\ Ends(c)
 BY DEF AtPush, Mine, Ordered
<1>2. PICK e, w, a : e = m.pushBarrier /\ w = LastOf(m) /\ a = m.sibling.cts.children[1] OBVIOUS
<1>3. SlidesWell(contents, p, "nephew", m) /\ e = LowEnd(m.sibling.cts, w) /\ CleansWell(contents, p, m, key)
 BY <1>1, <1>2 DEF Sound, PushesWell
<1>4. Target("nephew", m) = m.sibling.node BY DEF Target
<1>5. a \in DOMAIN contents /\ Le(p, a, b) /\ Upto(contents, p, a, b, e)
 <2>1. a \in DOMAIN contents BY <1>1, <1>2, SlideNodes
 <2> QED BY <1>2, <1>3, <2>1 DEF SlidesWell
<1>6. e \in Int /\ EMPTY <= e /\ UpperEnd(c) <= e
 <2>1. EMPTY < w /\ EMPTY \in Int BY <1>1, <1>2, <1>3 DEF SlidesWell, Between, Ends
 <2>2. e = w \/ e = EMPTY BY <1>3 DEF LowEnd
 <2>3. e \in Int BY <1>2 DEF AtPush
 <2>4. EMPTY <= e BY <2>1, <2>2, <2>3
 <2>5. UpperEnd(c) \in Int BY <1>1 DEF Ends
 <2>6. UpperEnd(c) <= EMPTY \/ UpperEnd(c) <= e BY <1>2 DEF Passes
 <2> QED BY <2>1, <2>3, <2>4, <2>5, <2>6
<1>7. Le(p, a, k) /\ Upto(contents, p, a, k, e) BY <1>1, <1>5, <1>6, PushOn
<1>8. /\ v.height = m.height /\ v.node = m.node /\ v.cts = m.cts /\ v.edit = m.edit /\ v.results = m.results
      /\ v.barrier = m.barrier /\ v.push = k /\ v.sibling = m.sibling
 BY DEF SameCall
<1>9. At("push", v) = "nephew" /\ Target("nephew", v) = Target("nephew", m)
      /\ LastOf(v) = w /\ LastChildOf(v) = LastChildOf(m)
 BY <1>1, <1>2, <1>4, <1>8 DEF At, Target, LastOf, LastChildOf
<1>10. Sound(contents, p, "push", v, key)
 <2>1. OnWay(contents, p, v, key) /\ CleansWell(contents, p, v, key)
  BY <1>1, <1>3, <1>8, Zenon DEF OnWay, CleansWell, DescendsWell
 <2>2. SlidesWell(contents, p, "nephew", v) BY <1>2, <1>3, <1>7, <1>8, <1>9, Zenon DEF SlidesWell
 <2>3. PushesWell("nephew", v, key) BY <1>2, <1>3, <1>8, <1>9 DEF PushesWell
 <2> QED BY <1>9, <2>1, <2>2, <2>3 DEF Sound
<1>11. CarriesWell(contents, p, "nephew", v)
 <2>1. CarriesWell(contents, p, "nephew", m) BY <1>1 DEF Ordered, CallsSound
 <2> QED BY <1>2, <1>9, <2>1 DEF CarriesWell
<1>12. ASSUME NEW u \in Threads \ {t} PROVE SlidesKeep(contents, p, pc[u], my[u], call[u].key, "nephew", v)
 <2>1. u \in Threads /\ SlidesKeep(contents, p, pc[u], my[u], call[u].key, At(pc[t], my[t]), my[t])
  BY DEF Ordered, CallsSound
 <2>2. SlidesKeep(contents, p, pc[u], my[u], call[u].key, "nephew", m) BY <1>1, <2>1
 <2> QED BY <1>2, <1>9, <2>2 DEF SlidesKeep
<1> QED BY <1>9, <1>10, <1>11, <1>12, SlidingStep

(* What pushRight found for the last child is not past another node that could go there. *)
LEMMA PushedNone ==
 ASSUME NEW p, Ordered(p), NEW t \in Threads, NEW m, m = my[t], NEW key, key = call[t].key, NEW b, NEW c, NEW k,
        AtPush(t, p, m, key, "adjust", b, c, k), b = m.push, ~(c.items = <<>> \/ Last(c.items) <= m.pushBarrier),
        DropsLast(contents, "adjust", m, key),
        NEW d \in DOMAIN contents, Promise(contents, p, m.node[1], LastOf(m), d)
 PROVE  Upto(contents, p, Effective("adjust", m)[2], d, EMPTY)
<1>1. /\ TreeInv(contents, root) /\ OrderInv(contents, p, root) /\ m \in LocalsSet /\ key \in Keys
      /\ Sound(contents, p, "push", m, key) /\ At("push", m) = "adjust" /\ LocalInv(contents, "push", m, call[t])
      /\ b \in DOMAIN contents /\ c = contents[b] /\ Ends(c) /\ m.pushBarrier \in Int
 BY DEF AtPush, Mine
<1>2. PushesWell("adjust", m, key) BY <1>1 DEF Sound
<1>3. PICK D, n, l, e, a, s, ct, N, i, ix : /\ D = DOMAIN contents /\ n = m.node /\ l = n[1] /\ e = m.edit /\ a = m.adjusted
                              /\ s = Append(a, b) /\ ct = call[t] /\ N = Len(e.items) /\ i = Index(e, key) /\ ix = Adjusting(e, key)
 OBVIOUS
<1>4. s = Effective("adjust", m) /\ s = Effective(At("push", m), m) BY <1>1, <1>3 DEF Effective
<1>5. contents[n] = e /\ N > 2 /\ i + 1 = N /\ Len(s) = 2 BY <1>3, <1>4 DEF DropsLast
<1>6. b \in Names /\ a \in Seq(Names) BY <1>1, <1>3, NodeRead DEF LocalsSet
<1>7. Len(a) = 1 /\ s[2] = b
 <2>1. s = Append(a, b) /\ Len(s) = 2 BY <1>3, <1>5
 <2>2. Len(s) = Len(a) + 1 /\ s[Len(a) + 1] = b /\ Len(a) \in Nat BY ONLY <1>6, <2>1
 <2>3. PICK L : L = Len(a) OBVIOUS
 <2>4. L \in Nat /\ L + 1 = 2 BY <2>1, <2>2, <2>3
 <2>5. L = 1 BY ONLY <2>4
 <2> QED BY <2>2, <2>3, <2>5
<1>8. n \in D /\ l # 0 /\ l \in Nat /\ HasPlace(D, l, e, ct.key) /\ Len(s) <= Len(Adjusting(e, ct.key))
      /\ Len(Adjusting(e, ct.key)) \in 1 .. 2
 BY <1>1, <1>3, <1>4, AdjustNodes
<1>9. HasPlace(D, l, e, key) /\ Len(ix) = 2
 <2>1. ct.key = key BY <1>3
 <2>2. HasPlace(D, l, e, key) /\ 2 <= Len(ix) /\ Len(ix) \in 1 .. 2 BY <1>3, <1>5, <1>8, <2>1
 <2>3. PICK L : L = Len(ix) OBVIOUS
 <2>4. 2 <= L /\ L \in 1 .. 2 BY <2>2, <2>3
 <2>5. L = 2 BY ONLY <2>4
 <2> QED BY <2>2, <2>3, <2>5
<1>10. D \in SUBSET Names /\ Shape(D, l, e) BY <1>1, <1>3, <1>9, NodeRead, CallOf DEF HasPlace
<1>11. AdjustingAs(e, key, N, i, ix) BY <1>1, <1>3, <1>8, <1>9, <1>10, AdjustingIs
<1>12. ix[2] = N /\ N \in Nat BY <1>5, <1>9, <1>11 DEF AdjustingAs
<1>13. PICK w, v : w = e.items[N] /\ v = e.items[N - 1] OBVIOUS
<1>14. m.pushBarrier = v
 <2>1. m.pushBarrier = BarrierOf(e, ix[Len(a) + 1], m.barrier) BY <1>2, <1>3 DEF PushesWell
 <2>2. Len(a) + 1 = 2 BY <1>7
 <2>3. m.pushBarrier = BarrierOf(e, N, m.barrier) BY <1>12, <2>1, <2>2
 <2> QED BY <1>5, <1>12, <1>13, <2>3 DEF BarrierOf
<1>15. Full(c) /\ v < UpperEnd(c)
 <2>1. Full(c) /\ UpperEnd(c) \in Int /\ UpperEnd(c) = Last(c.items)
  BY <1>1 DEF Full, Ends, UpperEnd
 <2> QED BY <1>1, <1>14, <2>1
<1>16. LastOf(m) = w
 <2>1. e.items # <<>> /\ Len(e.items) = N BY <1>3, <1>5, <1>12
 <2> QED BY <1>3, <1>13, <2>1 DEF LastOf, UpperEnd, Last
<1>17. Promise(contents, p, n[1], w, d) BY <1>3, <1>16
<1>18. Upto(contents, p, b, d, EMPTY)
 <2>1. n \in DOMAIN contents /\ e = contents[n] /\ N >= 2 /\ c = contents[b]
  BY <1>1, <1>3, <1>5, <1>8, <1>12
 <2>2. PICK rt : rt = root OBVIOUS
 <2>3. TreeInv(contents, rt) /\ OrderInv(contents, p, rt) /\ N = Len(e.items) /\ Full(contents[b]) /\ v < UpperEnd(contents[b])
  BY <1>1, <1>3, <1>15, <2>1, <2>2
 <2>4. b \in DOMAIN contents BY <1>1
 <2> QED BY <1>12, <1>13, <1>17, <2>1, <2>3, <2>4, NoneBetween
<1> QED BY <1>4, <1>7, <1>18

LEMMA PushRightStops ==
 ASSUME NEW p, Ordered(p), NEW t \in Threads, NEW m, m = my[t], NEW key, key = call[t].key, NEW b, NEW c, NEW k,
        AtPush(t, p, m, key, "adjust", b, c, k), b = m.push, ~(c.items = <<>> \/ Last(c.items) <= m.pushBarrier),
        UNCHANGED shared, UNCHANGED call, GoTo(t, "adjust"), UNCHANGED my
 PROVE  MultiwayOrder'
<1>1. /\ TreeInv(contents, root) /\ OrderInv(contents, p, root) /\ MultiwayInv /\ CallsSound(contents, p)
      /\ Sound(contents, p, "push", m, key) /\ At("push", m) = "adjust" /\ LocalInv(contents, "push", m, call[t])
 BY DEF AtPush, Mine, Ordered
<1>2. At("adjust", m) = "adjust" BY DEF At
<1>3. Sound(contents, p, "adjust", m, key) BY <1>1, <1>2 DEF Sound
<1>4. PICK ct, n, w : ct = call[t] /\ n = m.node /\ w = LastOf(m) OBVIOUS
<1>5. LocalInv(contents, "adjust", m, ct)
 <2>1. Placed(contents, "adjust", m, ct) BY <1>1, <1>2, <1>4 DEF LocalInv, Placed, AtAdjust
 <2>2. Typed(DOMAIN contents, "adjust", m, ct) BY <1>1, <1>4 DEF LocalInv, Typed, Labels
 <2> QED BY <2>1, <2>2 DEF LocalInv
<1>6. ASSUME DropsLast(contents, "adjust", m, key), NEW f \in DOMAIN contents, NEW d, Lt(p, n, f), Leads(contents[f], w, d)
      PROVE  Upto(contents, p, Effective("adjust", m)[2], d, EMPTY)
 <2>1. n \in DOMAIN contents /\ n[1] # 0
  <3>1. Sound(contents, p, "adjust", m, ct.key) BY <1>3, <1>4
  <3> QED BY <1>1, <1>4, <1>5, <3>1, DropsLastIs
 <2>2. f[1] = n[1] BY <1>6 DEF Lt
 <2>3. PICK D, l, g : D = DOMAIN contents /\ l = f[1] /\ g = contents[f] OBVIOUS
 <2>4. D \in SUBSET Names /\ l \in Nat /\ l # 0 /\ Shape(D, l, g) /\ Promise(contents, p, l, w, d)
  BY <1>1, <1>6, <2>1, <2>2, <2>3, OrderRows
 <2>5. d \in D BY <1>6, <2>3, <2>4, LeadsIn
 <2>6. d \in DOMAIN contents /\ Promise(contents, p, m.node[1], LastOf(m), d)
  BY <1>4, <2>2, <2>3, <2>4, <2>5
 <2> QED BY <1>6, <2>6, PushedNone
<1>7. TwinsKeep(contents, p, "adjust", m, key) BY <1>4, <1>6 DEF TwinsKeep
<1>8. ASSUME NEW u \in Threads \ {t}
      PROVE  SlidesKeep(contents, p, "adjust", m, key, At(pc[u], my[u]), my[u])
 <2>1. PICK l, mu, cu, z : l = pc[u] /\ mu = my[u] /\ cu = call[u] /\ z = At(pc[u], my[u]) OBVIOUS
 <2>2. ASSUME DropsLast(contents, "adjust", m, key), z \in Sliding, Lt(p, n, Target(z, mu)), LastOf(mu) = w
       PROVE  Upto(contents, p, Effective("adjust", m)[2], LastChildOf(mu), EMPTY)
  <3>1. LocalInv(contents, l, mu, cu) /\ Sound(contents, p, l, mu, cu.key) /\ CarriesWell(contents, p, z, mu)
   BY <1>1, <2>1 DEF MultiwayInv, AllLocalInv, CallsSound
  <3>2. l # "idle" BY <2>1, <2>2 DEF At, Sliding
  <3>3. PICK rt : rt = root OBVIOUS
  <3>4. SlidesAt(contents, p, At(l, mu), mu) BY <1>1, <2>1, <2>2, <3>1, <3>2, <3>3, SlidesHere
  <3>5. LastChildOf(mu) \in DOMAIN contents BY <3>4 DEF SlidesAt
  <3>6. n \in DOMAIN contents /\ contents[n] = m.edit
   <4>1. Sound(contents, p, "adjust", m, ct.key) BY <1>3, <1>4
   <4>2. n \in DOMAIN contents BY <1>1, <1>4, <1>5, <4>1, DropsLastIs
   <4> QED BY <1>4, <2>2, <4>2 DEF DropsLast
  <3>7. EndsBefore(contents, p, Target(z, mu), w) BY <1>4, <2>2, <3>6 DEF EndsBefore, LastOf
  <3>8. Promise(contents, p, Target(z, mu)[1], w, LastChildOf(mu))
   BY <2>2, <3>1, <3>7 DEF CarriesWell, Carries
  <3>9. Target(z, mu)[1] = n[1] BY <2>2 DEF Lt
  <3>10. Promise(contents, p, m.node[1], LastOf(m), LastChildOf(mu)) BY <1>4, <3>8, <3>9
  <3> QED BY <2>2, <3>5, <3>10, PushedNone
 <2> QED BY <1>4, <2>1, <2>2 DEF SlidesKeep
<1>9. PairsHold(contents, p, t, "adjust", m, key)
 <2>1. ASSUME NEW u \in Threads \ {t} PROVE SlidesKeep(contents, p, pc[u], my[u], call[u].key, At("adjust", m), m)
  BY <1>2 DEF SlidesKeep, Sliding
 <2> QED BY <1>8, <2>1 DEF PairsHold
<1>10. Holding(contents, p, "adjust", m, key)
 <2>1. CarriesWell(contents, p, At("adjust", m), m) BY <1>2 DEF CarriesWell, Sliding
 <2> QED BY <1>3, <1>7, <2>1 DEF Holding
<1>11. pc' = [pc EXCEPT ![t] = "adjust"] /\ my' = [my EXCEPT ![t] = m]
 BY <1>1, UnchangedAsExcept DEF GoTo, MultiwayInv, OthersInv
<1>12. Moves(t, "adjust", m, call[t]) BY <1>1, <1>11, SameCallMoves
<1> QED BY <1>1, <1>9, <1>10, <1>12, SameStep

(* PushRight keeps the order. *)
LEMMA PushRightOrders ==
 ASSUME NEW p, Ordered(p), NEW t \in Threads, PushRight(t)
 PROVE  MultiwayOrder'
<1>1. PICK m, key, l, b, c, k : m = my[t] /\ key = call[t].key /\ l = m.then /\ b = m.push /\ c = contents[b] /\ k = c.link
 OBVIOUS
<1>2. pc[t] = "push" /\ UNCHANGED shared /\ UNCHANGED call BY Zenon DEF PushRight, history
<1>3. AtPush(t, p, m, key, l, b, c, k) /\ MultiwayInv BY <1>1, <1>2, AtPushHere DEF Ordered
<1>4. /\ Sound(contents, p, "push", m, key) /\ At("push", m) = l /\ l \in {"link", "sibling", "nephew", "adjust"}
      /\ Ends(c) /\ m.pushBarrier \in Int /\ m \in LocalsSet
 BY <1>3 DEF AtPush, Mine
<1>5. CASE c.items = <<>> \/ Last(c.items) <= m.pushBarrier
 <2>1. k # NoNode /\ k \in DOMAIN contents /\ k \in Names BY <1>3, <1>5 DEF AtPush
 <2>2. UpperEnd(c) <= EMPTY \/ UpperEnd(c) <= m.pushBarrier
  <3>1. CASE c.items = <<>> BY <1>4, <3>1 DEF Ends, UpperEnd
  <3>2. CASE c.items # <<>> BY <1>5, <3>2 DEF UpperEnd
  <3> QED BY <3>1, <3>2
 <2>3. l \in {"link", "sibling"} => UpperEnd(c) <= m.pushBarrier BY <1>4, <2>2 DEF Sound, PushesWell
 <2>4. PICK v : v = PushNext(m, k) OBVIOUS
 <2>5. SameCall(v, m) /\ v.push = k /\ v.pushBarrier = m.pushBarrier /\ v.then = m.then
  BY <1>4, <2>1, <2>4, PushNextIs
 <2>6. Become(t, v) /\ UNCHANGED pc BY <1>1, <1>5, <2>4 DEF PushRight, PushNext
 <2>7. pc' = [pc EXCEPT ![t] = "push"] /\ my' = [my EXCEPT ![t] = v]
  BY <1>2, <1>3, <2>6, UnchangedAsExcept DEF Become, MultiwayInv, OthersInv
 <2>8. At("push", v) = l BY <1>1, <2>5 DEF At
 <2>9. CASE l = "link"
  <3>1. Sound(contents, p, "push", v, key) BY <1>1, <1>3, <2>1, <2>3, <2>5, <2>9, LinkPushesOn
  <3>2. Goes(t, contents, p) BY <1>1, <1>2, <1>3, <2>6, <2>8, <2>9, <3>1, SoundBecomes DEF Sliding
  <3> QED BY <1>2, <3>2, QuietGoes
 <2>10. CASE l = "sibling"
  <3>1. AtPush(t, p, m, key, "sibling", b, c, k) /\ UpperEnd(c) <= m.pushBarrier
   BY <1>3, <2>3, <2>10
  <3>2. m = my[t] /\ key = call[t].key /\ k = c.link /\ b = m.push BY <1>1
  <3>3. PushesTo(t, m, key, b, c, k, v) BY <1>2, <2>1, <2>5, <2>7, <3>2, Zenon DEF PushesTo
  <3> QED BY <1>2, <3>1, <3>3, SiblingPushesOn
 <2>11. CASE l = "nephew"
  <3>1. AtPush(t, p, m, key, "nephew", b, c, k) BY <1>3, <2>11
  <3>2. m = my[t] /\ key = call[t].key /\ k = c.link /\ b = m.push BY <1>1
  <3>3. Passes(c, m) BY <2>2 DEF Passes
  <3>4. PushesTo(t, m, key, b, c, k, v) BY <1>2, <2>1, <2>5, <2>7, <3>2, Zenon DEF PushesTo
  <3> QED BY <1>2, <3>1, <3>3, <3>4, NephewPushesOn
 <2>12. CASE l = "adjust"
  <3>1. Sound(contents, p, "push", v, key) BY <1>1, <1>3, <2>1, <2>2, <2>5, <2>12, AdjustPushesOn
  <3>2. Goes(t, contents, p) BY <1>1, <1>2, <1>3, <2>6, <2>8, <2>12, <3>1, SoundBecomes DEF Sliding
  <3> QED BY <1>2, <3>2, QuietGoes
 <2> QED BY <1>4, <2>9, <2>10, <2>11, <2>12
<1>6. CASE ~(c.items = <<>> \/ Last(c.items) <= m.pushBarrier)
 <2>1. GoTo(t, l) /\ UNCHANGED my BY <1>1, <1>6 DEF PushRight
 <2>2. l # "adjust" => Sound(contents, p, l, m, key) /\ At(l, m) = l BY <1>4 DEF Sound, At
 <2>3. CASE l = "adjust" BY <1>1, <1>2, <1>3, <1>6, <2>1, <2>3, PushRightStops
 <2>4. CASE l = "link"
  <3>1. Sound(contents, p, l, my[t], call[t].key) /\ At(l, my[t]) \notin Sliding /\ l \notin {"adjust", "shift"}
   BY <1>1, <2>2, <2>4 DEF Sliding
  <3>2. Goes(t, contents, p) BY <1>3, <2>1, <3>1, SoundGoes
  <3> QED BY <1>2, <3>2, QuietGoes
 <2>5. CASE l \in {"sibling", "nephew"}
  <3>1. PICK x : x = l OBVIOUS
  <3>2. x \notin {"adjust", "shift"} /\ l = At(x, m) /\ l = At(pc[t], m) /\ GoTo(t, x) /\ Sound(contents, p, x, m, call[t].key)
   BY <1>1, <1>2, <1>4, <2>1, <2>2, <2>5, <3>1
  <3> QED BY <1>1, <1>2, <2>1, <3>2, SlidingStays
 <2> QED BY <1>4, <2>3, <2>4, <2>5
<1> QED BY <1>5, <1>6

-----------------------------------------------------------------------------
(* A call that may slide the last item of its node over. *)
SlideSound(t, p, m, key) ==
    /\ Mine(t, p, m, key) /\ At(pc[t], m) = pc[t] /\ Sound(contents, p, pc[t], m, key)
    /\ CleansWell(contents, p, m, key) /\ DescendsWell(contents, p, m, key)
    /\ SlidesWell(contents, p, pc[t], m) /\ Slides(DOMAIN contents, m, call[t])
    /\ m.node \in DOMAIN contents /\ m.node[1] # 0 /\ m.node[1] \in Nat
    /\ HasPlace(DOMAIN contents, m.node[1], m.edit, key) /\ m.edit.link # NoNode /\ Ends(m.edit)
    /\ ChildFor(m.cts, key) \in DOMAIN contents /\ LocalInv(contents, pc[t], m, call[t])

LEMMA SlideSoundHere ==
 ASSUME NEW p, Ordered(p), NEW t \in Threads,
        pc[t] \in {"sibling", "nephew", "shiftNephew", "slide", "unslide"},
        NEW m, m = my[t], NEW key, key = call[t].key
 PROVE  SlideSound(t, p, m, key)
<1>1. PICK l, c, rt : l = pc[t] /\ c = call[t] /\ rt = root OBVIOUS
<1>2. Mine(t, p, m, key) /\ MultiwayInv BY MineHere DEF Ordered
<1>3. At(l, m) = l /\ l # "idle" /\ l \in {"sibling", "nephew", "shiftNephew", "slide", "unslide"}
 BY <1>1 DEF At
<1>4. TreeInv(contents, rt) /\ LocalInv(contents, l, m, c) /\ Sound(contents, p, l, m, key)
 BY <1>1, <1>2 DEF MultiwayInv, AllLocalInv, Mine
<1>5. /\ m.node \in DOMAIN contents /\ m.node[1] # 0 /\ m.node[1] \in Nat /\ Ends(m.edit)
      /\ HasPlace(DOMAIN contents, m.node[1], m.edit, c.key) /\ m.edit.link # NoNode
      /\ ChildFor(m.cts, c.key) \in DOMAIN contents
 BY <1>3, <1>4, SlideNodes
<1>6. CleansWell(contents, p, m, key) /\ SlidesWell(contents, p, l, m) BY <1>3, <1>4 DEF Sound
<1>7. DescendsWell(contents, p, m, key) BY <1>6 DEF CleansWell
<1>8. Slides(DOMAIN contents, m, c)
 <2>1. Placed(contents, l, m, c) BY <1>4 DEF LocalInv
 <2>2. AtSlide(contents, DOMAIN contents, l, m, c) BY <1>3, <2>1 DEF Placed
 <2> QED BY <2>2 DEF AtSlide
<1> QED BY <1>1, <1>2, <1>3, <1>4, <1>5, <1>6, <1>7, <1>8 DEF SlideSound

(* It does not: a remove goes on with the children. *)
LEMMA NoSlideGoes ==
 ASSUME NEW p, Ordered(p), NEW t \in Threads, NEW m, m = my[t], NEW key, key = call[t].key,
        SlideSound(t, p, m, key), NoSlide(t)
 PROVE  Goes(t, contents, p)
<1>1. PICK rt, n, D : rt = root /\ n = m.node /\ D = DOMAIN contents OBVIOUS
<1>2. /\ Mine(t, p, m, key) /\ CleansWell(contents, p, m, key) /\ DescendsWell(contents, p, m, key)
      /\ SlidesWell(contents, p, pc[t], m) /\ Slides(D, m, call[t]) /\ n \in D /\ n[1] # 0 /\ n[1] \in Nat
      /\ HasPlace(D, n[1], m.edit, key) /\ ChildFor(m.cts, key) \in D
 BY <1>1 DEF SlideSound
<1>3. /\ TreeInv(contents, rt) /\ OrderInv(contents, p, rt) /\ m \in LocalsSet /\ key \in Keys /\ D \in SUBSET Names
      /\ OnWay(contents, p, m, key) /\ Going(D, m, call[t]) /\ EMPTY \in Int
 BY <1>1, <1>2 DEF Mine
<1>4. CASE call[t].op = "remove"
 <2>1. PICK v : v = [m EXCEPT !.sibling = NoSearch] OBVIOUS
 <2>2. Adjust(t, v) BY <1>4, <2>1 DEF NoSlide, Removing
 <2>3. NoSearch \in SearchSet BY <1>3, EmptyIsTyped
 <2>4. /\ v \in LocalsSet /\ v.height = m.height /\ v.node = n /\ v.cts = m.cts
       /\ v.barrier = m.barrier /\ v.results = m.results /\ v.edit = m.edit /\ v.adjusted = m.adjusted
  BY <1>1, <1>3, <2>1, <2>3 DEF LocalsSet
 <2>5. v.adjusted = <<>> BY <1>2, <1>3, <1>4, <2>4, SlidesAs
 <2>6. OnWay(contents, p, v, key) /\ CleansWell(contents, p, v, key)
  BY <1>1, <1>2, <1>3, <2>4 DEF OnWay, CleansWell, DescendsWell
 <2>7. Len(v.adjusted) < Len(Adjusting(v.edit, key))
  <3>1. PICK a, c : a = v.adjusted /\ c = m.edit OBVIOUS
  <3>2. Len(a) < Len(Adjusting(c, key)) BY <1>2, <1>3, <2>5, <3>1, AdjustsSome
  <3> QED BY <2>4, <3>1, <3>2
 <2>8. AdjustedSoFar(contents, p, v, key)
  <3>1. m.edit.stamp <= contents[n].stamp BY <1>1, <1>2 DEF SlidesWell
  <3>2. Len(v.adjusted) = 0 BY <2>5
  <3> QED BY <2>4, <3>1, <3>2 DEF AdjustedSoFar
 <2> QED BY <1>1, <1>2, <1>3, <2>2, <2>4, <2>6, <2>7, <2>8, AdjustGoes
<1>5. CASE call[t].op # "remove"
 <2>1. SamaritanReturns(t, m.cts, m.cts) BY <1>5 DEF NoSlide, Removing
 <2>2. Safe(contents, p, contents, p) BY <1>3, SameIsGood DEF Good
 <2>3. Low(contents, p, ChildFor(m.cts, key), key - 1) BY <1>2 DEF DescendsWell
 <2>4. PICK c : c = m.cts OBVIOUS
 <2>5. SamaritanReturns(t, c, c) /\ ChildFor(c, key) \in DOMAIN contents /\ m.node \in DOMAIN contents
       /\ Low(contents, p, ChildFor(c, key), key - 1)
  BY <1>1, <1>2, <2>1, <2>3, <2>4
 <2> QED BY <1>2, <2>2, <2>5, SamaritanBack
<1> QED BY <1>4, <1>5

LEMMA SlideReturnsGoes ==
 ASSUME NEW p, NEW t \in Threads, NEW m, m = my[t], NEW key, key = call[t].key,
        SlideSound(t, p, m, key), NEW c, SlideReturns(t, c), NEW cts2, NEW p2, Safe(contents, p, cts2, p2)
 PROVE  Goes(t, cts2, p2)
<1>1. /\ Mine(t, p, m, key) /\ DescendsWell(contents, p, m, key) /\ ChildFor(m.cts, key) \in DOMAIN contents
      /\ m.node \in DOMAIN contents
 BY DEF SlideSound
<1>2. CASE Down(t) BY <1>1, <1>2, DownGoes
<1>3. CASE SamaritanReturns(t, m.cts, c)
 <2>1. PICK d : d = m.cts OBVIOUS
 <2>2. Low(contents, p, ChildFor(d, key), key - 1) /\ ChildFor(d, key) \in DOMAIN contents /\ SamaritanReturns(t, d, c)
  BY <1>1, <1>3, <2>1 DEF DescendsWell
 <2> QED BY <1>1, <2>2, SamaritanBack
<1> QED BY <1>2, <1>3 DEF SlideReturns

(* The comparison of contents with those that a call works on. *)
LEMMA SlideReturnsQuiet ==
 ASSUME NEW p, Ordered(p), NEW t \in Threads, NEW m, m = my[t], NEW key, key = call[t].key,
        SlideSound(t, p, m, key), NEW c, SlideReturns(t, c), UNCHANGED shared, UNCHANGED call
 PROVE  MultiwayOrder'
<1>1. PICK rt : rt = root OBVIOUS
<1>2. TreeInv(contents, rt) /\ OrderInv(contents, p, rt) BY <1>1 DEF SlideSound, Mine
<1>3. Safe(contents, p, contents, p) BY <1>2, SameIsGood DEF Good
<1>4. Goes(t, contents, p) BY <1>3, SlideReturnsGoes
<1> QED BY <1>4, QuietGoes

LEMMA ReadSiblingOrders ==
 ASSUME NEW p, Ordered(p), NEW t \in Threads, ReadSibling(t)
 PROVE  MultiwayOrder'
<1>1. PICK m, key, n, s, c, w : m = my[t] /\ key = call[t].key /\ n = m.node /\ s = m.push /\ c = contents[s] /\ w = LastOf(m)
 OBVIOUS
<1>2. pc[t] = "sibling" /\ UNCHANGED <<shared, history, bounds>> BY DEF ReadSibling
<1>3. SlideSound(t, p, m, key) BY <1>1, <1>2, SlideSoundHere
<1>4. PICK D : D = DOMAIN contents OBVIOUS
<1>5. /\ Mine(t, p, m, key) /\ CleansWell(contents, p, m, key) /\ SlidesWell(contents, p, "sibling", m)
      /\ n \in D /\ n[1] # 0 /\ n[1] \in Nat /\ At("sibling", m) = "sibling" /\ Slides(D, m, call[t])
      /\ HasPlace(D, n[1], m.edit, key) /\ m.edit.link # NoNode /\ LocalInv(contents, "sibling", m, call[t])
 BY <1>1, <1>2, <1>3, <1>4 DEF SlideSound
<1>6. /\ TreeInv(contents, root) /\ OrderInv(contents, p, root) /\ m \in LocalsSet /\ OnWay(contents, p, m, key)
      /\ D \in SUBSET Names /\ EMPTY \in Int /\ Going(D, m, call[t]) /\ key \in Keys
 BY <1>4, <1>5 DEF Mine
<1>7. MultiwayInv BY DEF Ordered
<1>8. s \in D /\ s[1] = n[1] BY <1>1, <1>2, <1>4, <1>7, AtSlideFacts DEF On
<1>9. Shape(D, n[1], c) /\ s \in Names BY <1>1, <1>4, <1>6, <1>8, NodeRead
<1>10. Last(m.edit.items) = w /\ w \in Int
 <2>1. m.edit.items # <<>> /\ Last(m.edit.items) \in Keys BY <1>5, <1>6, LastItemFacts
 <2> QED BY <1>1, <2>1 DEF LastOf, UpperEnd, MultiwayAssumption
<1>11. CASE c.children # <<>>
 <2>1. PICK v, a, e : v = [m EXCEPT !.sibling = Search(s, c)] /\ a = c.children[1] /\ e = LowEnd(c, w)
  OBVIOUS
 <2>2. PushRightFrom(t, v, a, e, "nephew")
  BY <1>1, <1>10, <1>11, <2>1 DEF ReadSibling, LastItem, LowEnd, First
 <2>3. Search(s, c) \in SearchSet /\ Search(s, c).node = s /\ Search(s, c).cts = c
  BY <1>9 DEF Search, SearchSet, NodeOrNone, Shape
 <2>4. /\ v \in LocalsSet /\ v.sibling = Search(s, c) /\ v.node = n /\ v.height = m.height
       /\ v.results = m.results /\ v.barrier = m.barrier /\ v.cts = m.cts /\ v.edit = m.edit
  BY <1>1, <1>6, <2>1, <2>3 DEF LocalsSet
 <2>5. a \in D /\ a \in Names
  <3>1. /\ Len(c.children) = Len(c.items) /\ Len(c.items) \in Nat /\ c.children \in Seq(Names)
        /\ \A i \in 1 .. Len(c.items) : On(D, c.children[i], n[1] - 1)
   BY <1>5, <1>6, <1>9, ShapeFacts
  <3>2. Len(c.items) # 0 BY <1>11, <3>1
  <3> QED BY <1>6, <2>1, <3>1, <3>2 DEF On
 <2>6. e \in Int BY <1>6, <1>10, <2>1 DEF LowEnd
 <2>7. PICK x : PushedOn(t, v, a, e, "nephew", x) BY <2>2, <2>4, <2>5, <2>6, PushedFrom DEF Labels
 <2>8. /\ x.push = a /\ x.pushBarrier = e /\ x.then = "nephew" /\ x.edit = m.edit /\ x.node = n
       /\ x.height = m.height /\ x.barrier = m.barrier /\ x.cts = m.cts /\ x.results = m.results
       /\ x.sibling.node = s /\ x.sibling.cts = c
  BY <2>3, <2>4, <2>7 DEF PushedOn, SameCall
 <2>9. /\ At("push", x) = "nephew" /\ Target("nephew", x) = s /\ LastOf(x) = w /\ LastChildOf(x) = LastChildOf(m)
       /\ Target("sibling", m) = s
  BY <1>1, <2>8 DEF At, Target, LastOf, LastChildOf
 <2>10. SlidesWell(contents, p, "nephew", x)
  <3>1. Lt(p, n, s) /\ Between(contents, p, s, w) /\ m.edit.stamp <= contents[n].stamp
   BY <1>1, <1>5, <2>9 DEF SlidesWell
  <3>2. Le(p, a, a) /\ Upto(contents, p, a, a, e) BY <1>4, <1>6, <2>5, RowFacts, OrderRows DEF Upto
  <3>3. Holds(c, w) => Covered(contents, p, n, w) BY <1>1, <1>4, <1>8, <3>1 DEF Covered
  <3> QED BY <2>1, <2>8, <2>9, <3>1, <3>2, <3>3 DEF SlidesWell
 <2>11. Sound(contents, p, "push", x, key)
  <3>1. OnWay(contents, p, x, key) /\ CleansWell(contents, p, x, key)
   BY <1>1, <1>5, <1>6, <2>8 DEF OnWay, CleansWell, DescendsWell
  <3>2. PushesWell("nephew", x, key) BY <2>1, <2>8, <2>9 DEF PushesWell
  <3> QED BY <2>9, <2>10, <3>1, <3>2 DEF Sound
 <2>12. CarriesWell(contents, p, "sibling", m)
        /\ \A u \in Threads : SlidesKeep(contents, p, pc[u], my[u], call[u].key, "sibling", m)
  BY <1>1, <1>2, <1>5 DEF Ordered, CallsSound
 <2>13. CarriesWell(contents, p, "nephew", x) BY <1>1, <2>9, <2>12 DEF CarriesWell, Sliding
 <2>14. \A u \in Threads \ {t} : SlidesKeep(contents, p, pc[u], my[u], call[u].key, "nephew", x)
  BY <1>1, <2>9, <2>12 DEF SlidesKeep, Sliding
 <2>15. pc' = [pc EXCEPT ![t] = "push"] /\ my' = [my EXCEPT ![t] = x] BY <2>7 DEF PushedOn
 <2> QED BY <1>1, <1>2, <2>9, <2>11, <2>13, <2>14, <2>15, SlidingStep DEF history
<1>12. CASE c.children = <<>> /\ NoSlide(t)
 BY <1>1, <1>2, <1>3, <1>12, NoSlideGoes, QuietGoes DEF history
<1>13. CASE c.children = <<>> /\ ~Removing(t) /\ GoTo(t, "linkRead") /\ UNCHANGED my
 <2>1. m.height # 0
  <3>1. Walks(D, m, key) BY <1>1, <1>6, <1>5, <1>13, SlidesAs DEF Removing
  <3> QED BY <1>6, <3>1 DEF Walks, LocalsSet
 <2>2. LinksWell(contents, p, "linkRead", m, key) BY <1>5, <2>1 DEF LinksWell, CleansWell
 <2>3. Sound(contents, p, "linkRead", m, key) BY <1>6, <2>2 DEF Sound, At
 <2>4. At("linkRead", m) \notin Sliding BY DEF At, Sliding
 <2>5. Goes(t, contents, p) BY <1>1, <1>7, <1>13, <2>3, <2>4, SoundGoes
 <2> QED BY <1>2, <2>5, QuietGoes DEF history
<1> QED BY <1>1, <1>11, <1>12, <1>13 DEF ReadSibling

LEMMA NephewOrders ==
 ASSUME NEW p, Ordered(p), NEW t \in Threads, Nephew(t)
 PROVE  MultiwayOrder'
<1>1. PICK m, key : m = my[t] /\ key = call[t].key OBVIOUS
<1>2. pc[t] = "nephew" /\ UNCHANGED <<shared, history, bounds>> BY DEF Nephew
<1>3. SlideSound(t, p, m, key) BY <1>1, <1>2, SlideSoundHere
<1>4. CleansWell(contents, p, m, key) /\ SlidesWell(contents, p, "nephew", m) /\ OnWay(contents, p, m, key) /\ MultiwayInv
 BY <1>1, <1>2, <1>3 DEF SlideSound, Mine, Ordered
<1>5. Target("nephew", m) = Target("slide", m) /\ Target("shiftNephew", m) = Target("slide", m)
 BY DEF Target
<1>6. CASE GoTo(t, "slide") /\ UNCHANGED my
 <2>1. SlidesWell(contents, p, "slide", m) BY <1>4, <1>5 DEF SlidesWell
 <2>2. Sound(contents, p, "slide", m, key) BY <1>4, <2>1 DEF Sound, At
 <2>3. CarriesWell(contents, p, "nephew", m)
       /\ \A u \in Threads : SlidesKeep(contents, p, pc[u], my[u], call[u].key, "nephew", m)
  BY <1>1, <1>2 DEF Ordered, CallsSound, At
 <2>4. CarriesWell(contents, p, "slide", m)
       /\ \A u \in Threads \ {t} : SlidesKeep(contents, p, pc[u], my[u], call[u].key, "slide", m)
  BY <1>5, <2>3 DEF CarriesWell, SlidesKeep, Sliding
 <2>5. pc' = [pc EXCEPT ![t] = "slide"] /\ my' = [my EXCEPT ![t] = m]
  BY <1>1, <1>4, <1>6, UnchangedAsExcept DEF GoTo, MultiwayInv, OthersInv
 <2>6. At("slide", m) = "slide" BY DEF At
 <2> QED BY <1>1, <1>2, <2>2, <2>4, <2>5, <2>6, SlidingStep DEF history
<1>7. CASE GoTo(t, "shiftNephew") /\ UNCHANGED my
 <2>1. SlidesWell(contents, p, "shiftNephew", m) BY <1>4, <1>5 DEF SlidesWell
 <2>2. Sound(contents, p, "shiftNephew", m, key) BY <1>4, <2>1 DEF Sound, At
 <2>3. At("shiftNephew", m) \notin Sliding BY DEF At, Sliding
 <2>4. Goes(t, contents, p) BY <1>1, <1>4, <1>7, <2>2, <2>3, SoundGoes
 <2> QED BY <1>2, <2>4, QuietGoes DEF history
<1>8. CASE NoSlide(t) BY <1>1, <1>2, <1>3, <1>8, NoSlideGoes, QuietGoes DEF history
<1> QED BY <1>6, <1>7, <1>8 DEF Nephew

(* What is known of the sibling. *)
SiblingSound(t, p, m, q, c, w, d) ==
    /\ TreeInv(contents, root) /\ OrderInv(contents, p, root) /\ q \in DOMAIN contents /\ q[1] # 0 /\ q[1] = m.node[1]
    /\ q[1] \in Nat /\ Shape(DOMAIN contents, q[1], c) /\ Full(c) /\ c.children[1] \in DOMAIN contents
    /\ Lt(p, m.node, q) /\ Between(contents, p, q, w)
    /\ w \in Keys /\ w \in Int /\ Last(m.edit.items) = w /\ d \in DOMAIN contents /\ d \in Names /\ d = Last(m.edit.children)
    /\ Target("slide", m) = q /\ DOMAIN contents \in SUBSET Names
    /\ m.node \in DOMAIN contents /\ m.edit.stamp <= contents[m.node].stamp

LEMMA SiblingSoundHere ==
 ASSUME NEW p, Ordered(p), NEW t \in Threads, pc[t] \in {"nephew", "shiftNephew", "slide"},
        NEW m, m = my[t], NEW key, key = call[t].key,
        NEW q, q = m.sibling.node, NEW c, c = m.sibling.cts, NEW w, w = LastOf(m), NEW d, d = LastChildOf(m)
 PROVE  SiblingSound(t, p, m, q, c, w, d)
<1>1. SlideSound(t, p, m, key) /\ MultiwayInv BY SlideSoundHere DEF Ordered
<1>2. PICK D, n, l : D = DOMAIN contents /\ n = m.node /\ l = n[1] OBVIOUS
<1>3. /\ SlidesWell(contents, p, pc[t], m) /\ n \in D /\ l # 0 /\ l \in Nat /\ HasPlace(D, l, m.edit, key)
      /\ m.edit.link # NoNode /\ TreeInv(contents, root) /\ OrderInv(contents, p, root) /\ D \in SUBSET Names /\ key \in Keys
 BY <1>1, <1>2 DEF SlideSound, Mine
<1>4. SiblingRead(D, m) BY <1>1, <1>2, AtSlideFacts
<1>5. l >= 1 BY <1>3
<1>6. /\ Shape(D, l, c) /\ Len(c.items) \in Nat /\ Len(c.items) >= 1
      /\ \A i \in 1 .. Len(c.items) : On(D, c.children[i], l - 1)
      /\ On(D, q, l)
 BY <1>2, <1>3, <1>4, <1>5, SiblingIs
<1>7. q \in D /\ q[1] = l /\ Full(c) /\ c.children[1] \in D BY <1>6 DEF On, Full
<1>8. w \in Keys /\ w \in Int /\ Last(m.edit.items) = w
 <2>1. m.edit.items # <<>> /\ Last(m.edit.items) \in Keys BY <1>3, LastItemFacts
 <2> QED BY <2>1 DEF LastOf, UpperEnd, MultiwayAssumption
<1>9. d \in D /\ d \in Names /\ d = Last(m.edit.children)
 <2>1. On(D, Last(m.edit.children), l - 1) BY <1>3, LastItemFacts
 <2> QED BY <1>3, <2>1 DEF On, LastChildOf
<1>10. Target(pc[t], m) = q /\ Target("slide", m) = q BY DEF Target
<1>11. Lt(p, n, q) /\ Between(contents, p, q, w) /\ m.edit.stamp <= contents[n].stamp
 BY <1>2, <1>3, <1>10 DEF SlidesWell
<1> QED BY <1>2, <1>3, <1>6, <1>7, <1>8, <1>9, <1>10, <1>11 DEF SiblingSound

LEMMA ShiftNephewOrders ==
 ASSUME NEW p, Ordered(p), NEW t \in Threads, ShiftNephew(t), MultiwayInv'
 PROVE  MultiwayOrder'
<1>1. PICK m, key, q, c, w : m = my[t] /\ key = call[t].key /\ q = m.sibling.node /\ c = m.sibling.cts /\ w = LastOf(m)
 OBVIOUS
<1>2. PICK a, b, new, rt, d : /\ a = c.children[1] /\ b = m.push /\ new = WithChildren(c, ReplaceAt(c.children, 1, b))
                              /\ rt = root /\ d = LastChildOf(m)
 OBVIOUS
<1>3. /\ pc[t] = "shiftNephew" /\ SamaritanReturns(t, m.cts, m.cts)
      /\ IF CanReplace(q, c) THEN Replace(t, q, c, new, {"children"}) ELSE UNCHANGED <<shared, history, bounds>>
 BY <1>1, <1>2 DEF ShiftNephew
<1>4. SlideSound(t, p, m, key) /\ SiblingSound(t, p, m, q, c, w, d)
 BY <1>1, <1>2, <1>3, SlideSoundHere, SiblingSoundHere
<1>5. PICK f : f = m.cts OBVIOUS
<1>6. /\ Mine(t, p, m, key) /\ m.node \in DOMAIN contents /\ ChildFor(f, key) \in DOMAIN contents
      /\ Low(contents, p, ChildFor(f, key), key - 1) /\ SamaritanReturns(t, f, f)
      /\ SlidesWell(contents, p, "shiftNephew", m) /\ LocalInv(contents, "shiftNephew", m, call[t])
      /\ At("shiftNephew", m) = "shiftNephew"
 BY <1>3, <1>4, <1>5 DEF SlideSound, DescendsWell
<1>7. /\ TreeInv(contents, rt) /\ OrderInv(contents, p, rt) /\ q \in DOMAIN contents /\ q[1] # 0 /\ Full(c)
      /\ w \in Int /\ Between(contents, p, q, w) /\ a \in DOMAIN contents
 BY <1>2, <1>4 DEF SiblingSound
<1>8. CASE CanReplace(q, c)
 <2>1. PICK cts2 : Replaced(q, new, cts2) BY <1>3, <1>7, <1>8, ReplacedIs
 <2>2. b \in DOMAIN contents
  <3>1. PICK z, ct : z = "shiftNephew" /\ ct = call[t] OBVIOUS
  <3>2. z # "idle" /\ LocalInv(contents, z, m, ct) /\ At(z, m) \in {"sibling", "nephew", "shiftNephew", "slide", "unslide"}
        /\ At(z, m) \in {"nephew", "shiftNephew"}
   BY <1>6, <3>1
  <3> QED BY <1>2, <1>7, <3>2, SlideNodes
 <2>3. Le(p, a, b) /\ Upto(contents, p, a, b, LowEnd(c, w)) BY <1>1, <1>2, <1>6 DEF SlidesWell
 <2>4. OneNode(contents, cts2, q, new) /\ TreeInv(cts2, rt) /\ c = contents[q]
  BY <1>2, <1>8, <2>1 DEF Replaced, CanReplace
 <2>5. Good(contents, p, cts2, p, rt) BY <1>2, <1>7, <2>2, <2>3, <2>4, NephewGood
 <2>6. Goes(t, cts2, p)
  <3>1. Safe(contents, p, cts2, p) BY <2>5 DEF Good
  <3> QED BY <1>1, <1>6, <3>1, SamaritanBack
 <2>7. contents' = cts2 /\ root' = rt /\ UNCHANGED call BY <1>2, <2>1 DEF Replaced
 <2> QED BY <2>5, <2>6, <2>7, GoodGoes
<1>9. CASE ~CanReplace(q, c)
 <2>1. Safe(contents, p, contents, p) BY <1>7, SameIsGood DEF Good
 <2>2. Goes(t, contents, p) BY <1>1, <1>6, <2>1, SamaritanBack
 <2> QED BY <1>3, <1>9, <2>2, QuietGoes DEF history
<1> QED BY <1>8, <1>9

LEMMA SlideNeedlessOrders ==
 ASSUME NEW p, Ordered(p), NEW t \in Threads, SlideNeedless(t)
 PROVE  MultiwayOrder'
<1>1. PICK m, key, q, c, w, d : /\ m = my[t] /\ key = call[t].key /\ q = m.sibling.node /\ c = m.sibling.cts
                                /\ w = LastOf(m) /\ d = LastChildOf(m)
 OBVIOUS
<1>2. pc[t] = "slide" /\ UNCHANGED <<shared, history, bounds>> BY DEF SlideNeedless
<1>3. SlideSound(t, p, m, key) /\ SiblingSound(t, p, m, q, c, w, d)
 BY <1>1, <1>2, SlideSoundHere, SiblingSoundHere
<1>4. LastItem(t) = w BY <1>1, <1>3 DEF SiblingSound, LastItem
<1>5. IF Found(c, w) THEN GoTo(t, "unslide") /\ UNCHANGED my ELSE SlideReturns(t, m.cts)
 BY <1>1, <1>4 DEF SlideNeedless
<1>6. /\ CleansWell(contents, p, m, key) /\ SlidesWell(contents, p, "slide", m) /\ OnWay(contents, p, m, key) /\ MultiwayInv
 BY <1>1, <1>2, <1>3 DEF SlideSound, Mine, Ordered
<1>7. CASE Found(c, w)
 <2>1. Holds(c, w)
  <3>1. w \in Int /\ Shape(DOMAIN contents, q[1], c) /\ q[1] \in Nat /\ DOMAIN contents \in SUBSET Names
   BY <1>3 DEF SiblingSound
  <3>2. c.items \in Seq(Item) /\ ItemsOK(c) BY <3>1, ShapeFacts
  <3> QED BY <1>7, <3>1, <3>2, FoundFacts DEF Holds
 <2>2. contents[m.node] = m.edit => Covered(contents, p, m.node, w)
  BY <1>1, <1>6, <2>1 DEF SlidesWell
 <2>3. SlidesWell(contents, p, "unslide", m) BY <1>1, <1>6, <2>2 DEF SlidesWell
 <2>4. Sound(contents, p, "unslide", m, key) BY <1>6, <2>3 DEF Sound, At
 <2>5. At("unslide", m) \notin Sliding BY DEF At, Sliding
 <2>6. Goes(t, contents, p) BY <1>1, <1>5, <1>6, <1>7, <2>4, <2>5, SoundGoes
 <2> QED BY <1>2, <2>6, QuietGoes DEF history
<1>8. CASE ~Found(c, w) BY <1>1, <1>2, <1>3, <1>5, <1>8, SlideReturnsQuiet DEF history
<1> QED BY <1>7, <1>8

LEMMA UnslideOrders ==
 ASSUME NEW p, Ordered(p), NEW t \in Threads, Unslide(t), MultiwayInv'
 PROVE  MultiwayOrder'
<1>1. PICK m, key, n, c, k : m = my[t] /\ key = call[t].key /\ n = m.node /\ c = m.edit /\ k = Len(c.items)
 OBVIOUS
<1>2. PICK new, v, rt : new = Removed(c, k) /\ v = c.items[k] /\ rt = root OBVIOUS
<1>3. /\ pc[t] = "unslide"
      /\ IF CanReplace(n, c)
         THEN Replace(t, n, c, new, {"keys", "children"}) /\ SlideReturns(t, new)
         ELSE SlideReturns(t, c) /\ UNCHANGED <<shared, history, bounds>>
 BY <1>1, <1>2 DEF Unslide
<1>4. SlideSound(t, p, m, key) BY <1>1, <1>3, SlideSoundHere
<1>5. /\ Mine(t, p, m, key) /\ SlidesWell(contents, p, "unslide", m) /\ n \in DOMAIN contents /\ n[1] # 0 /\ n[1] \in Nat
      /\ HasPlace(DOMAIN contents, n[1], c, key) /\ c.link # NoNode
 BY <1>1, <1>3, <1>4 DEF SlideSound
<1>6. TreeInv(contents, rt) /\ OrderInv(contents, p, rt) /\ DOMAIN contents \in SUBSET Names /\ key \in Keys
 BY <1>2, <1>5 DEF Mine
<1>7. /\ c.items # <<>> /\ k \in 1 .. Len(c.items) /\ Last(c.items) = v
 <2>1. PICK D, l : D = DOMAIN contents /\ l = n[1] OBVIOUS
 <2>2. HasPlace(D, l, c, key) /\ D \in SUBSET Names /\ l \in Nat /\ l # 0 BY <1>5, <1>6, <2>1
 <2>3. c.items # <<>> /\ Len(c.items) \in Nat /\ Len(c.items) >= 1 /\ Last(c.items) = c.items[Len(c.items)]
  BY <1>5, <1>6, <2>2, LastItemFacts
 <2> QED BY <1>1, <1>2, <2>3
<1>8. CASE CanReplace(n, c)
 <2>1. PICK cts2 : Replaced(n, new, cts2) BY <1>3, <1>5, <1>8, ReplacedIs
 <2>2. OneNode(contents, cts2, n, new) /\ TreeInv(cts2, rt) /\ c = contents[n]
  BY <1>2, <1>8, <2>1 DEF Replaced, CanReplace
 <2>3. Covered(contents, p, n, v) BY <1>1, <1>5, <1>7, <2>2 DEF SlidesWell, LastOf, UpperEnd
 <2>4. Good(contents, p, cts2, p, rt) BY <1>2, <1>5, <1>6, <1>7, <2>2, <2>3, TakenGood
 <2>5. Goes(t, cts2, p)
  <3>1. Safe(contents, p, cts2, p) BY <2>4 DEF Good
  <3> QED BY <1>1, <1>3, <1>4, <1>8, <3>1, SlideReturnsGoes
 <2>6. contents' = cts2 /\ root' = rt /\ UNCHANGED call BY <1>2, <2>1 DEF Replaced
 <2> QED BY <2>4, <2>5, <2>6, GoodGoes
<1>9. CASE ~CanReplace(n, c) BY <1>1, <1>3, <1>4, <1>9, SlideReturnsQuiet DEF history
<1> QED BY <1>8, <1>9

(* What the slid item leads to now, if a call drops what is before it. *)
LEMMA SlideTwins ==
 ASSUME NEW cts, NEW p, NEW rt, TreeInv(cts, rt), OrderInv(cts, p, rt),
        NEW q \in DOMAIN cts, NEW c, c = cts[q], NEW new, NEW cts2, OneNode(cts, cts2, q, new), Safe(cts, p, cts2, p),
        NEW w, NEW d \in DOMAIN cts, LeadsAlso(c, new, w, d),
        NEW mu, Target("slide", mu) = q, LastOf(mu) = w, LastChildOf(mu) = d,
        NEW pcl, NEW m, NEW cl, LocalInv(cts, pcl, m, cl), Sound(cts, p, pcl, m, cl.key),
        TwinsKeep(cts, p, pcl, m, cl.key), SlidesKeep(cts, p, pcl, m, cl.key, "slide", mu)
 PROVE  TwinsKeep(cts2, p, pcl, m, cl.key)
<1>1. PICK n, v, e : n = m.node /\ v = LastOf(m) /\ e = Effective(pcl, m)[2] OBVIOUS
<1>2. ASSUME DropsLast(cts, pcl, m, cl.key), NEW f \in DOMAIN cts2, NEW x, Lt(p, n, f), Leads(cts2[f], v, x)
      PROVE  x \in DOMAIN cts /\ (LeadsFrom(cts, p, n, v, x) \/ Upto(cts, p, e, x, EMPTY))
 <2>1. pcl \in {"adjust", "shift"} BY <1>2 DEF DropsLast
 <2>2. n[1] # 0 /\ f \in DOMAIN cts /\ f[1] = n[1] /\ Numbered(cts, p)
  <3>1. m.node[1] # 0 BY <2>1, DropsLastIs
  <3> QED BY <1>1, <1>2, <3>1 DEF OneNode, Lt, OrderInv
 <2>3. CASE Leads(cts[f], v, x)
  <3>1. DOMAIN cts \in SUBSET Names /\ f[1] \in Nat /\ Shape(DOMAIN cts, f[1], cts[f])
   BY <2>2, OrderRows
  <3>2. x \in DOMAIN cts BY <2>2, <2>3, <3>1, LeadsIn
  <3> QED BY <1>2, <2>2, <2>3, <3>2, LeadsHere
 <2>4. CASE ~Leads(cts[f], v, x)
  <3>1. f = q /\ v = w /\ x = d BY <1>2, <2>2, <2>4 DEF OneNode, LeadsAlso
  <3>2. "slide" \in Sliding /\ Lt(p, m.node, Target("slide", mu)) /\ LastOf(mu) = LastOf(m)
   BY <1>1, <1>2, <3>1 DEF Sliding
  <3> QED BY <1>1, <1>2, <3>1, <3>2 DEF SlidesKeep
 <2> QED BY <2>3, <2>4
<1>3. DropsLast(cts, pcl, m, cl.key) /\ cts2[m.node] = cts[m.node] =>
          \A f \in DOMAIN cts2 : \A x : Lt(p, m.node, f) /\ Leads(cts2[f], LastOf(m), x) =>
               /\ x \in DOMAIN cts
               /\ LeadsFrom(cts, p, m.node, LastOf(m), x)
                       \/ Upto(cts, p, Effective(pcl, m)[2], x, EMPTY)
 BY <1>1, <1>2
<1> QED BY <1>3, TwinsStay

LEMMA SlideOrders ==
 ASSUME NEW p, Ordered(p), NEW t \in Threads, Slide(t), MultiwayInv'
 PROVE  MultiwayOrder'
<1>1. PICK m, key, q, c, w, d : /\ m = my[t] /\ key = call[t].key /\ q = m.sibling.node /\ c = m.sibling.cts
                                /\ w = LastOf(m) /\ d = LastChildOf(m)
 OBVIOUS
<1>2. PICK new, rt : new = Added(c, 1, w, d, 1) /\ rt = root OBVIOUS
<1>3. pc[t] = "slide" BY DEF Slide
<1>4. SlideSound(t, p, m, key) /\ SiblingSound(t, p, m, q, c, w, d)
 BY <1>1, <1>3, SlideSoundHere, SiblingSoundHere
<1>5. LastItem(t) = w /\ Last(m.edit.children) = d BY <1>1, <1>4 DEF SiblingSound, LastItem
<1>6. /\ Index(c, w) = 1 /\ ~Found(c, w)
      /\ IF CanReplace(q, c)
         THEN Replace(t, q, c, new, {"keys", "children"}) /\ GoTo(t, "unslide") /\ UNCHANGED my
         ELSE SlideReturns(t, m.cts) /\ UNCHANGED <<shared, history, bounds>>
 BY <1>1, <1>2, <1>5 DEF Slide
<1>7. /\ TreeInv(contents, rt) /\ OrderInv(contents, p, rt) /\ q \in DOMAIN contents /\ q[1] # 0 /\ q[1] \in Nat
      /\ Shape(DOMAIN contents, q[1], c) /\ Full(c) /\ Lt(p, m.node, q) /\ Between(contents, p, q, w)
      /\ w \in Keys /\ d \in DOMAIN contents /\ DOMAIN contents \in SUBSET Names /\ Target("slide", m) = q
 BY <1>2, <1>4 DEF SiblingSound
<1>8. CASE CanReplace(q, c)
 <2>1. PICK cts2 : Replaced(q, new, cts2) BY <1>6, <1>7, <1>8, ReplacedIs
 <2>2. OneNode(contents, cts2, q, new) /\ TreeInv(cts2, rt) /\ c = contents[q]
  BY <1>2, <1>8, <2>1 DEF Replaced, CanReplace
 <2>3. Carries(contents, p, q, w, d) /\ HasPlace(DOMAIN contents, q[1], c, w)
  <3>1. At("slide", m) = "slide" /\ CarriesWell(contents, p, At("slide", m), m) /\ "slide" \in Sliding
   BY <1>1, <1>3 DEF Ordered, CallsSound, At, Sliding
  <3> QED BY <1>1, <1>6, <1>7, <3>1 DEF CarriesWell, HasPlace, Beyond, Full
 <2>4. /\ OrderInv(cts2, p, rt) /\ Safe(contents, p, cts2, p) /\ HasStays(contents, cts2)
       /\ LeadsAlso(c, new, w, d) /\ Holds(new, w)
  BY <1>2, <1>6, <1>7, <2>2, <2>3, SlideGood
 <2>5. contents' = cts2 /\ root' = rt /\ UNCHANGED call BY <1>2, <2>1 DEF Replaced
 <2>6. ASSUME NEW u \in Threads \ {t}
       PROVE  Holding(cts2, p, pc[u], my[u], call[u].key)
  <3>1. PICK z, mu, cu : z = pc[u] /\ mu = my[u] /\ cu = call[u] OBVIOUS
  <3>2. /\ LocalInv(contents, z, mu, cu) /\ Sound(contents, p, z, mu, cu.key)
        /\ CarriesWell(contents, p, At(z, mu), mu) /\ TwinsKeep(contents, p, z, mu, cu.key)
        /\ SlidesKeep(contents, p, z, mu, cu.key, At("slide", m), m) /\ At("slide", m) = "slide"
   BY <1>1, <1>3, <3>1 DEF Ordered, CallsSound, MultiwayInv, AllLocalInv, At
  <3>3. CASE z = "idle"
   <4>1. Sound(cts2, p, z, mu, cu.key) /\ CarriesWell(cts2, p, At(z, mu), mu) /\ TwinsKeep(cts2, p, z, mu, cu.key)
    <5>1. mu = NoLocals BY <3>2, <3>3 DEF LocalInv, Typed
    <5> QED BY <3>3, <5>1, IdleHolds DEF Holding
   <4> QED BY <3>1, <4>1 DEF Holding
  <3>4. CASE z # "idle"
   <4>1. Sound(cts2, p, z, mu, cu.key) BY <1>7, <2>4, <3>2, <3>4, SoundStays
   <4>2. CarriesWell(cts2, p, At(z, mu), mu) BY <1>7, <2>4, <3>2, <3>4, CarriesWellStays
   <4>3. TwinsKeep(cts2, p, z, mu, cu.key) BY <1>1, <1>7, <2>2, <2>4, <3>2, SlideTwins
   <4> QED BY <3>1, <4>1, <4>2, <4>3 DEF Holding
  <3> QED BY <3>3, <3>4
 <2>7. Sound(cts2, p, "unslide", m, key)
  <3>1. PICK z, cl : z = "slide" /\ cl = call[t] OBVIOUS
  <3>2. LocalInv(contents, z, m, cl) /\ Sound(contents, p, z, m, cl.key) /\ z # "idle"
   BY <1>1, <1>3, <1>4, <3>1 DEF SlideSound
  <3>3. Sound(cts2, p, z, m, cl.key) BY <1>7, <2>4, <3>2, SoundStays
  <3>4. OnWay(cts2, p, m, key) /\ CleansWell(cts2, p, m, key) /\ SlidesWell(cts2, p, "slide", m)
   BY <1>1, <3>1, <3>3 DEF Sound, At
  <3>5. Covered(cts2, p, m.node, w) BY <1>7, <2>2, <2>4 DEF Covered, OneNode
  <3>6. SlidesWell(cts2, p, "unslide", m) BY <1>1, <3>4, <3>5 DEF SlidesWell
  <3> QED BY <3>4, <3>6 DEF Sound, At
 <2>8. Alone(cts2, p, "unslide", m, key) BY <2>7, SoundAlone DEF At, Sliding
 <2>9. PairsHold(cts2, p, t, "unslide", m, key) /\ Holding(cts2, p, "unslide", m, key)
  BY <2>8, AlonePairs DEF Alone
 <2>10. Moves(t, "unslide", m, call[t])
  <3>1. pc' = [pc EXCEPT ![t] = "unslide"] BY <1>6, <1>8 DEF GoTo
  <3>2. my' = [my EXCEPT ![t] = m]
   BY <1>1, <1>6, <1>8, UnchangedAsExcept DEF Ordered, MultiwayInv, OthersInv
  <3> QED BY <2>5, <3>1, <3>2, SameCallMoves DEF Ordered
 <2>11. PICK cl : cl = call[t] /\ cl.key = key BY <1>1
 <2>12. /\ OrderInv(contents', p, root') /\ Safe(contents, p, contents', p) /\ MultiwayInv /\ CallsSound(contents, p)
        /\ \A u \in Threads \ {t} : Holding(contents', p, pc[u], my[u], call[u].key)
        /\ Moves(t, "unslide", m, cl) /\ Holding(contents', p, "unslide", m, cl.key)
        /\ PairsHold(contents', p, t, "unslide", m, cl.key)
  BY <2>4, <2>5, <2>6, <2>9, <2>10, <2>11 DEF Ordered
 <2> QED BY <2>12, StepHolds
<1>9. CASE ~CanReplace(q, c) BY <1>1, <1>4, <1>6, <1>9, SlideReturnsQuiet DEF history
<1> QED BY <1>8, <1>9

(* What a call that adjusts its node relies on. *)
AdjustSound(t, p, m, key) ==
    /\ Mine(t, p, m, key) /\ LocalInv(contents, pc[t], m, call[t]) /\ Sound(contents, p, pc[t], m, key)
    /\ CleansWell(contents, p, m, key) /\ DescendsWell(contents, p, m, key)
    /\ m.node \in DOMAIN contents /\ m.node[1] # 0 /\ m.node[1] \in Nat /\ ChildFor(m.cts, key) \in DOMAIN contents
    /\ HasPlace(DOMAIN contents, m.node[1], m.edit, key) /\ m.adjusted \in Seq(Names)
    /\ AdjustsWell(contents, p, pc[t], m, key) /\ BarrierHolds(contents, p, m.node, m.barrier)

LEMMA AdjustSoundHere ==
 ASSUME NEW p, Ordered(p), NEW t \in Threads, pc[t] \in {"adjust", "shift"},
        NEW m, m = my[t], NEW key, key = call[t].key
 PROVE  AdjustSound(t, p, m, key)
<1>1. Mine(t, p, m, key) /\ LocalInv(contents, pc[t], m, call[t]) /\ TreeInv(contents, root) /\ At(pc[t], m) = pc[t]
 BY MineHere DEF Mine, Ordered, MultiwayInv, AllLocalInv, At
<1>2. Sound(contents, p, pc[t], m, key) /\ m.adjusted \in Seq(Names) BY <1>1 DEF Mine, LocalsSet
<1>3. CleansWell(contents, p, m, key) /\ AdjustsWell(contents, p, pc[t], m, key)
 BY <1>1, <1>2 DEF Sound
<1>4. PICK z, ct, rt, a : z = pc[t] /\ ct = call[t] /\ rt = root /\ a = Effective(At(z, m), m)
 OBVIOUS
<1>5. LocalInv(contents, z, m, ct) /\ TreeInv(contents, rt) /\ z # "idle" /\ At(z, m) \in {"adjust", "shift"}
 BY <1>1, <1>4
<1>6. /\ m.node \in DOMAIN contents /\ m.node[1] # 0 /\ m.node[1] \in Nat
      /\ ChildFor(m.cts, ct.key) \in DOMAIN contents /\ HasPlace(DOMAIN contents, m.node[1], m.edit, ct.key)
 BY <1>4, <1>5, AdjustNodes
<1>7. m.height = 0
 <2>1. AtAdjust(DOMAIN contents, z, m, ct) BY <1>5 DEF LocalInv, Placed
 <2> QED BY <1>6, <2>1 DEF AtAdjust, Adjusts, Removes, Visits
<1> QED BY <1>1, <1>2, <1>3, <1>4, <1>6, <1>7 DEF AdjustSound, CleansWell

(* The call has all that it puts in with one step now. *)
ShiftingAs(v, m, a) ==
    /\ v.adjusted = a /\ v.node = m.node /\ v.edit = m.edit /\ v.barrier = m.barrier /\ v.cts = m.cts
    /\ v.height = m.height /\ v.level = m.level /\ v.results = m.results /\ v.push = m.push /\ v \in LocalsSet

LEMMA ShiftEnters ==
 ASSUME NEW p, Ordered(p), NEW t \in Threads, pc[t] = "adjust", NEW m, m = my[t], NEW key, key = call[t].key,
        AdjustSound(t, p, m, key), NEW a, a = Effective("adjust", m), NEW v, ShiftingAs(v, m, a),
        UNCHANGED shared, UNCHANGED call, GoTo(t, "shift"), Become(t, v)
 PROVE  MultiwayOrder'
<1>1. /\ AdjustsWell(contents, p, "adjust", m, key) /\ CleansWell(contents, p, m, key) /\ OnWay(contents, p, m, key)
      /\ TwinsKeep(contents, p, "adjust", m, key) /\ MultiwayInv /\ OrderInv(contents, p, root) /\ CallsSound(contents, p)
 BY DEF AdjustSound, Mine, Ordered, CallsSound
<1>2. Effective("shift", v) = a /\ At("shift", v) = "shift" BY DEF Effective, ShiftingAs, At
<1>3. OnWay(contents, p, v, key) /\ CleansWell(contents, p, v, key)
 BY <1>1 DEF ShiftingAs, OnWay, CleansWell, DescendsWell
<1>4. AdjustsWell(contents, p, "shift", v, key)
 <2>1. \A q \in 1 .. Len(a) : PushedWell(contents, p, m, key, q, a[q]) BY <1>1 DEF AdjustsWell
 <2>2. \A q \in 1 .. Len(a) : PushedWell(contents, p, v, key, q, a[q])
  BY <2>1, Zenon DEF PushedWell, ShiftingAs
 <2> QED BY <1>1, <1>2, <2>2 DEF AdjustsWell, ShiftingAs
<1>5. Sound(contents, p, "shift", v, key) BY <1>2, <1>3, <1>4 DEF Sound
<1>6. DropsLast(contents, "shift", v, key) => DropsLast(contents, "adjust", m, key)
 BY <1>2 DEF DropsLast, ShiftingAs
<1>7. LastOf(v) = LastOf(m) /\ v.node = m.node BY DEF LastOf, ShiftingAs
<1>8. TwinsKeep(contents, p, "shift", v, key) BY <1>1, <1>2, <1>6, <1>7 DEF TwinsKeep
<1>9. Holding(contents, p, "shift", v, key) BY <1>2, <1>5, <1>8 DEF Holding, CarriesWell, Sliding
<1>10. PairsHold(contents, p, t, "shift", v, key)
 <2>1. ASSUME NEW u \in Threads \ {t}
       PROVE  SlidesKeep(contents, p, "shift", v, key, At(pc[u], my[u]), my[u])
  <3>1. SlidesKeep(contents, p, "adjust", m, key, At(pc[u], my[u]), my[u]) BY <1>1 DEF CallsSound
  <3> QED BY <1>2, <1>6, <1>7, <3>1 DEF SlidesKeep
 <2>2. \A u \in Threads \ {t} : SlidesKeep(contents, p, pc[u], my[u], call[u].key, At("shift", v), v)
  BY <1>2 DEF SlidesKeep, Sliding
 <2> QED BY <2>1, <2>2 DEF PairsHold
<1>11. pc' = [pc EXCEPT ![t] = "shift"] /\ my' = [my EXCEPT ![t] = v] BY DEF GoTo, Become
<1>12. Moves(t, "shift", v, call[t]) BY <1>1, <1>11, SameCallMoves
<1> QED BY <1>1, <1>9, <1>10, <1>12, SameStep

LEMMA AdjustNextOrders ==
 ASSUME NEW p, Ordered(p), NEW t \in Threads, AdjustNext(t)
 PROVE  MultiwayOrder'
<1>1. PICK m, key, a, k : m = my[t] /\ key = call[t].key /\ a = Append(m.adjusted, m.push) /\ k = Len(Adjusting(m.edit, key))
 OBVIOUS
<1>2. PICK v : v = [m EXCEPT !.adjusted = a] OBVIOUS
<1>3. pc[t] = "adjust" /\ UNCHANGED <<shared, history, bounds>> /\ UNCHANGED call
 BY DEF AdjustNext, history
<1>4. AdjustSound(t, p, m, key) BY <1>1, <1>3, AdjustSoundHere
<1>5. /\ m \in LocalsSet /\ TreeInv(contents, root) /\ OrderInv(contents, p, root) /\ key \in Keys
      /\ OnWay(contents, p, m, key)
      /\ CleansWell(contents, p, m, key) /\ AdjustsWell(contents, p, "adjust", m, key) /\ m.node \in DOMAIN contents
      /\ m.node[1] # 0 /\ HasPlace(DOMAIN contents, m.node[1], m.edit, key) /\ m.adjusted \in Seq(Names)
 BY <1>3, <1>4 DEF AdjustSound, Mine
<1>6. a = Effective("adjust", m) BY <1>1 DEF Effective
<1>7. a \in Seq(Names)
 <2>1. PICK z, ct, rt : z = "adjust" /\ ct = call[t] /\ rt = root OBVIOUS
 <2>2. LocalInv(contents, z, m, ct) /\ TreeInv(contents, rt) /\ z # "idle" /\ At(z, m) \in {"adjust", "shift"}
       /\ a = Effective(At(z, m), m)
  BY <1>3, <1>4, <1>5, <1>6, <2>1 DEF AdjustSound, At
 <2> QED BY <2>2, AdjustNodes
<1>8. ShiftingAs(v, m, a) BY <1>2, <1>5, <1>7 DEF LocalsSet, ShiftingAs
<1>9. AdjustedSoFar(contents, p, v, key)
 <2>1. \A q \in 1 .. Len(a) : PushedWell(contents, p, m, key, q, a[q]) BY <1>5, <1>6 DEF AdjustsWell
 <2>2. \A q \in 1 .. Len(a) : PushedWell(contents, p, v, key, q, a[q])
  BY <1>8, <2>1, Zenon DEF PushedWell, ShiftingAs
 <2> QED BY <1>5, <1>8, <2>2 DEF AdjustsWell, ShiftingAs, AdjustedSoFar
<1>10. CASE Len(a) < k
 <2>1. Adjust(t, v) BY <1>1, <1>2, <1>8, <1>10 DEF AdjustNext, Key, ShiftingAs
 <2>2. OnWay(contents, p, v, key) /\ CleansWell(contents, p, v, key)
  BY <1>5, <1>8 DEF ShiftingAs, OnWay, CleansWell, DescendsWell
 <2>3. PICK n, rt : n = v.node /\ rt = root OBVIOUS
 <2>4. /\ TreeInv(contents, rt) /\ OrderInv(contents, p, rt) /\ n \in DOMAIN contents /\ n[1] # 0 /\ v \in LocalsSet
       /\ HasPlace(DOMAIN contents, n[1], v.edit, key) /\ Len(v.adjusted) < Len(Adjusting(v.edit, key))
  BY <1>1, <1>5, <1>8, <1>10, <2>3 DEF ShiftingAs
 <2>5. Goes(t, contents, p) BY <1>1, <1>5, <1>9, <2>1, <2>2, <2>3, <2>4, AdjustGoes
 <2> QED BY <1>3, <2>5, QuietGoes
<1>11. CASE ~(Len(a) < k) /\ Down(t)
 <2>1. Safe(contents, p, contents, p) BY <1>5, SameIsGood DEF Good
 <2>2. Mine(t, p, m, key) /\ ChildFor(m.cts, key) \in DOMAIN contents /\ DescendsWell(contents, p, m, key)
  BY <1>4 DEF AdjustSound
 <2>3. Goes(t, contents, p) BY <1>1, <1>11, <2>1, <2>2, DownGoes
 <2> QED BY <1>3, <2>3, QuietGoes
<1>12. CASE ~(Len(a) < k) /\ GoTo(t, "shift") /\ Become(t, v)
 BY <1>1, <1>3, <1>4, <1>6, <1>8, <1>12, ShiftEnters
<1>13. Len(a) < k \/ Down(t) \/ (GoTo(t, "shift") /\ Become(t, v))
 BY <1>1, <1>2, <1>8 DEF AdjustNext, Key, ShiftingAs
<1> QED BY <1>10, <1>11, <1>12, <1>13

(* The node n, that drops the item i: w1 is the next one, and leads to e.  *)
DropsTo(cts, n, c, i, w1, e) ==
    /\ n \in DOMAIN cts /\ n[1] # 0 /\ n[1] \in Nat /\ c = cts[n] /\ i \in Nat /\ i > 1 /\ i < Len(c.items)
    /\ w1 = c.items[i + 1] /\ e \in DOMAIN cts /\ e[1] = n[1] - 1

LEMMA DropsBefore ==
 ASSUME NEW cts, NEW p, NEW rt, TreeInv(cts, rt), OrderInv(cts, p, rt),
        NEW n, NEW c, NEW i, NEW w1, NEW e, DropsTo(cts, n, c, i, w1, e),
        NEW q \in DOMAIN cts, q[1] = n[1], EndsBefore(cts, p, q, w1)
 PROVE  Lt(p, n, q) /\ i + 1 = Len(c.items) /\ UpperEnd(c) = w1
<1>1. PICK x \in DOMAIN cts : Lt(p, x, q) /\ UpperEnd(cts[x]) = w1 BY DEF EndsBefore
<1>2. PICK N, h, s, D, l : N = Len(c.items) /\ h = i + 1 /\ s = c.items /\ D = DOMAIN cts /\ l = n[1]
 OBVIOUS
<1>3. /\ n \in D /\ l \in Nat /\ c = cts[n] /\ i \in Nat /\ i > 1 /\ i < N /\ w1 = s[h]
      /\ D \in SUBSET Names /\ Shape(D, l, c) /\ Numbered(cts, p) /\ AllEnd(cts) /\ ItemsLead(cts, p)
 BY <1>2, OrderRows DEF DropsTo, OrderInv
<1>4. /\ N \in Nat /\ \A k \in 1 .. N : s[k] \in Item /\ s[k] \in Int
      /\ \A k, j \in 1 .. N : k < j => s[k] < s[j]
 BY <1>2, <1>3, ShapeFacts
<1>5. h \in 1 .. N /\ 1 \in 1 .. N /\ N \in 1 .. N /\ 1 < h /\ (h < N \/ h = N)
 BY ONLY <1>2, <1>3, <1>4
<1>6. s[1] < s[h] /\ (h # N => s[h] < s[N]) /\ s[N] \in Int /\ s[1] \in Int /\ s[h] \in Int
 BY <1>4, <1>5
<1>7. s # <<>> /\ First(c) = s[1] BY <1>2, <1>3, <1>4 DEF First
<1>8. UpperEnd(c) = s[N] BY <1>2, <1>7 DEF UpperEnd, Last
<1>9. Full(c) /\ Full(cts[x])
 <2>1. EMPTY < w1
  <3>1. Ends(c) /\ Full(c) BY <1>2, <1>3, <1>7 DEF AllEnd, Full
  <3>2. EMPTY < First(c) /\ EMPTY \in Int BY <3>1 DEF Ends
  <3> QED BY <1>3, <1>6, <1>7, <3>2
 <2>2. Ends(cts[x]) BY <1>3 DEF AllEnd
 <2> QED BY <1>1, <1>2, <1>7, <2>1, <2>2 DEF Ends, Full
<1>10. x[1] = n[1] BY <1>1 DEF Lt
<1>11. x = n \/ Lt(p, x, n) \/ Lt(p, n, x) BY <1>2, <1>3, <1>10, RowFacts
<1>12. CASE x = n
 <2>1. s[N] = s[h] BY <1>1, <1>3, <1>8, <1>12
 <2> QED BY <1>1, <1>2, <1>3, <1>6, <1>8, <1>12, <2>1
<1>13. CASE Lt(p, x, n)
 <2>1. UpperEnd(cts[x]) <= First(c) BY <1>2, <1>3, <1>9, <1>13, ItemsAscend
 <2> QED BY <1>1, <1>3, <1>6, <1>7, <2>1
<1>14. CASE Lt(p, n, x)
 <2>1. UpperEnd(c) <= UpperEnd(cts[x]) BY <1>2, <1>3, <1>9, <1>14, ItemsAscend
 <2>2. s[N] <= s[h] BY <1>1, <1>3, <1>8, <2>1
 <2>3. h = N BY <1>6, <2>2
 <2>4. Lt(p, n, q) BY <1>1, <1>2, <1>3, <1>14, RowFacts
 <2> QED BY <1>2, <1>3, <1>8, <2>3, <2>4
<1> QED BY <1>11, <1>12, <1>13, <1>14

(* What slides over may still go where it goes. *)
LEMMA DropCarries ==
 ASSUME NEW cts, NEW p, NEW rt, TreeInv(cts, rt), OrderInv(cts, p, rt),
        NEW n, NEW c, NEW i, NEW w1, NEW e, DropsTo(cts, n, c, i, w1, e),
        NEW cts2, DOMAIN cts2 = DOMAIN cts, DropDone(cts, p, cts2, rt, n[1], w1, e),
        NEW pcl, NEW m, NEW cl, LocalInv(cts, pcl, m, cl), pcl # "idle", Sound(cts, p, pcl, m, cl.key),
        NEW z, z = At(pcl, m), CarriesWell(cts, p, z, m),
        z \in Sliding /\ i + 1 = Len(c.items) /\ Lt(p, n, Target(z, m)) /\ LastOf(m) = UpperEnd(c)
             => Upto(cts, p, e, LastChildOf(m), EMPTY)
 PROVE  CarriesWell(cts2, p, z, m)
<1>1. SUFFICES ASSUME z \in Sliding PROVE Carries(cts2, p, Target(z, m), LastOf(m), LastChildOf(m))
 BY DEF CarriesWell
<1>2. PICK q, v, d, l : q = Target(z, m) /\ v = LastOf(m) /\ d = LastChildOf(m) /\ l = n[1] OBVIOUS
<1>3. /\ q \in DOMAIN cts /\ q[1] # 0 /\ v \in Int /\ d \in DOMAIN cts /\ Between(cts, p, q, v)
      /\ m.node \in DOMAIN cts /\ Lt(p, m.node, q)
 BY <1>1, <1>2, SlidingNodes
<1>4. /\ Safe(cts, p, cts2, p) /\ PromisesBut(cts, cts2, p, l, w1) /\ Promise(cts2, p, l, w1, e)
      /\ Moved(cts, p, cts2, p) /\ AllEnd(cts) /\ AllEnd(cts2) /\ Numbered(cts2, p)
 BY <1>2, SafeFacts DEF DropDone
<1>5. SUFFICES ASSUME EndsBefore(cts2, p, q, v) PROVE Promise(cts2, p, q[1], v, d)
 BY <1>2 DEF Carries
<1>6. EndsBefore(cts, p, q, v) BY <1>3, <1>4, <1>5, EndsBeforeStays DEF Between
<1>7. Promise(cts, p, q[1], v, d) BY <1>1, <1>2, <1>6 DEF CarriesWell, Carries
<1>8. Has(cts, q[1], v)
 <2>1. PICK x \in DOMAIN cts : Lt(p, x, q) /\ UpperEnd(cts[x]) = v BY <1>6 DEF EndsBefore
 <2>2. EMPTY < v BY <1>3 DEF Between
 <2>3. Ends(cts[x]) BY <1>4 DEF AllEnd
 <2>4. Holds(cts[x], v) BY <2>1, <2>2, <2>3 DEF Ends
 <2> QED BY <2>1, <2>4 DEF Has, Lt
<1>9. CASE ~(q[1] = l /\ v = w1)
 <2>1. q[1] = l => Has(cts, q[1], v) /\ v # w1 BY <1>8, <1>9
 <2> QED BY <1>3, <1>4, <1>7, <2>1 DEF PromisesBut
<1>10. CASE q[1] = l /\ v = w1
 <2>1. Lt(p, n, q) /\ i + 1 = Len(c.items) /\ UpperEnd(c) = w1
  BY <1>2, <1>3, <1>6, <1>10, DropsBefore
 <2>2. Upto(cts, p, e, d, EMPTY) BY <1>1, <1>2, <1>10, <2>1
 <2>3. e \in DOMAIN cts2 /\ d \in DOMAIN cts2 /\ e[1] = l - 1 BY <1>2, <1>3 DEF DropsTo
 <2>4. d[1] = l - 1
  <3>1. PICK D, g : D = DOMAIN cts /\ g = m.node[1] OBVIOUS
  <3>2. z \in {"sibling", "nephew", "shiftNephew", "slide", "unslide"} BY <1>1 DEF Sliding
  <3>3. g # 0 /\ g \in Nat /\ HasPlace(D, g, m.edit, cl.key) /\ m.edit.link # NoNode
   BY <3>1, <3>2, SlideNodes
  <3>4. D \in SUBSET Names /\ cl.key \in Keys /\ g = l BY <1>3, <1>10, <3>1, CallOf DEF Lt
  <3>5. On(D, Last(m.edit.children), g - 1) BY <3>3, <3>4, LastItemFacts
  <3> QED BY <1>2, <3>4, <3>5 DEF On, LastChildOf
 <2>5. Upto(cts2, p, e, d, EMPTY)
  <3>1. e \in DOMAIN cts /\ EMPTY \in Int BY <1>3, <1>4 DEF DropsTo, AllEnd, Ends
  <3> QED BY <1>3, <1>4, <2>2, <3>1, UptoStays
 <2>6. \A x \in DOMAIN cts2 : Le(p, e, x) /\ Lt(p, x, d) => Bounded(cts2, l, UpperEnd(cts2[x]), w1)
  BY <2>5 DEF Upto, Bounded
 <2>7. Promise(cts2, p, l, w1, d)
  <3>1. e[1] = d[1] BY <2>3, <2>4
  <3> QED BY <1>4, <2>3, <2>6, <3>1, PromiseFrom
 <2> QED BY <1>10, <2>7
<1> QED BY <1>9, <1>10

(* The node gets what a call has pushed. *)
Shifts(t, p, m, key, n, c, a, b) ==
    /\ AdjustSound(t, p, m, key) /\ n = m.node /\ c = m.edit /\ a = m.adjusted /\ b = m.barrier
    /\ a \in Seq(Names) /\ Len(a) = Len(Adjusting(c, key)) /\ \A q \in 1 .. Len(a) : a[q] \in DOMAIN contents
    /\ Pushed(contents, p, c, key, b, a) /\ b \in Int
    /\ TreeInv(contents, root) /\ OrderInv(contents, p, root) /\ n \in DOMAIN contents /\ n[1] # 0 /\ n[1] \in Nat
    /\ BarrierHolds(contents, p, n, b) /\ key \in Keys /\ HasPlace(DOMAIN contents, n[1], c, key)
    /\ m \in LocalsSet /\ OnWay(contents, p, m, key) /\ CleansWell(contents, p, m, key)

LEMMA ShiftsHere ==
 ASSUME NEW p, Ordered(p), NEW t \in Threads, pc[t] = "shift", NEW m, m = my[t], NEW key, key = call[t].key,
        NEW n, n = m.node, NEW c, c = m.edit, NEW a, a = m.adjusted, NEW b, b = m.barrier
 PROVE  Shifts(t, p, m, key, n, c, a, b)
<1>1. AdjustSound(t, p, m, key) BY AdjustSoundHere
<1>2. PICK z, ct, rt, D : z = pc[t] /\ ct = call[t] /\ rt = root /\ D = DOMAIN contents OBVIOUS
<1>3. /\ LocalInv(contents, z, m, ct) /\ TreeInv(contents, rt) /\ z # "idle" /\ At(z, m) \in {"adjust", "shift"}
      /\ a = Effective(At(z, m), m) /\ At(z, m) = "shift" /\ m \in LocalsSet
 BY <1>1, <1>2 DEF AdjustSound, Mine, At, Effective
<1>4. /\ a \in Seq(Names) /\ Len(a) = Len(Adjusting(m.edit, ct.key)) /\ Len(a) \in Nat
      /\ \A q \in 1 .. Len(a) :
               /\ a[q] \in DOMAIN contents
               /\ Adjusting(m.edit, ct.key)[q] \in 1 .. Len(m.edit.items)
               /\ m.edit.children[Adjusting(m.edit, ct.key)[q]] \in DOMAIN contents
 BY <1>3, AdjustNodes
<1>5. \A q \in 1 .. Len(a) : PushedWell(contents, p, m, key, q, a[q])
 BY <1>1, <1>2, <1>3 DEF AdjustSound, AdjustsWell, Effective, At
<1>6. Pushed(contents, p, c, key, b, a)
 <2>1. ASSUME NEW q \in 1 .. Len(a)
       PROVE  \E j \in 1 .. Len(c.items) :
                 /\ j = Adjusting(c, key)[q] /\ a[q] \in DOMAIN contents /\ c.children[j] \in DOMAIN contents
                 /\ Le(p, c.children[j], a[q]) /\ Upto(contents, p, c.children[j], a[q], BarrierOf(c, j, b))
  <3>1. PICK j : j = Adjusting(c, key)[q] OBVIOUS
  <3>2. j \in 1 .. Len(c.items) /\ a[q] \in DOMAIN contents /\ c.children[j] \in DOMAIN contents
   BY <1>2, <1>4, <3>1
  <3>3. Le(p, c.children[j], a[q]) /\ Upto(contents, p, c.children[j], a[q], BarrierOf(c, j, b))
   BY <1>5, <3>1 DEF PushedWell
  <3>4. /\ j = Adjusting(c, key)[q] /\ a[q] \in DOMAIN contents /\ c.children[j] \in DOMAIN contents
        /\ Le(p, c.children[j], a[q]) /\ Upto(contents, p, c.children[j], a[q], BarrierOf(c, j, b))
   BY <3>1, <3>2, <3>3, Zenon
  <3> QED BY <3>2, <3>4, Zenon
 <2> QED BY <2>1 DEF Pushed
<1>7. b \in Int BY <1>3 DEF LocalsSet
<1> QED BY <1>1, <1>2, <1>4, <1>6, <1>7 DEF Shifts, AdjustSound, Mine

(* The other calls, when the node has dropped an item. *)
DropsNow(t, p, m, key, n, c, a, rt, i, w1, e, cts2) ==
    /\ pc[t] = "shift" /\ m = my[t] /\ key = call[t].key /\ n = m.node /\ c = m.edit /\ c = contents[n]
    /\ a = m.adjusted /\ Dropping(c, key, a) /\ rt = root /\ i = Index(c, key) /\ e = a[2]
    /\ DropsTo(contents, n, c, i, w1, e) /\ DOMAIN cts2 = DOMAIN contents
    /\ DropDone(contents, p, cts2, rt, n[1], w1, e)

LEMMA DropHolds ==
 ASSUME NEW p, Ordered(p), NEW t \in Threads, NEW m, NEW key, NEW n, NEW c, NEW a, NEW rt, NEW i, NEW w1, NEW e,
        NEW cts2, DropsNow(t, p, m, key, n, c, a, rt, i, w1, e, cts2), NEW u \in Threads \ {t}
 PROVE  Holding(cts2, p, pc[u], my[u], call[u].key)
<1>6. /\ pc[t] = "shift" /\ m = my[t] /\ key = call[t].key /\ n = m.node /\ c = m.edit /\ c = contents[n]
      /\ a = m.adjusted /\ Dropping(c, key, a) /\ rt = root /\ i = Index(c, key) /\ e = a[2]
      /\ DropsTo(contents, n, c, i, w1, e) /\ DOMAIN cts2 = DOMAIN contents
      /\ DropDone(contents, p, cts2, rt, n[1], w1, e)
 BY DEF DropsNow
<1>1. PICK l, mu, cu, z : l = pc[u] /\ mu = my[u] /\ cu = call[u] /\ z = At(pc[u], my[u]) OBVIOUS
<1>2. /\ LocalInv(contents, l, mu, cu) /\ Sound(contents, p, l, mu, cu.key) /\ TreeInv(contents, rt)
      /\ CarriesWell(contents, p, z, mu) /\ TwinsKeep(contents, p, l, mu, cu.key) /\ OrderInv(contents, p, rt)
      /\ SlidesKeep(contents, p, "shift", m, key, z, mu)
 BY <1>1, <1>6 DEF Ordered, CallsSound, MultiwayInv, AllLocalInv
<1>3. Safe(contents, p, cts2, p) /\ TwinsOK(contents, p, cts2, p) BY <1>6 DEF DropDone
<1>4. CASE l = "idle"
 <2>1. mu = NoLocals BY <1>2, <1>4 DEF LocalInv, Typed
 <2> QED BY <1>1, <1>4, <2>1, IdleHolds
<1>5. CASE l # "idle"
 <2>1. Sound(cts2, p, l, mu, cu.key) BY <1>2, <1>3, <1>5, SoundStays
 <2>2. TwinsKeep(cts2, p, l, mu, cu.key) BY <1>2, <1>3, GoodTwins
 <2>3. z \in Sliding /\ i + 1 = Len(c.items) /\ Lt(p, n, Target(z, mu)) /\ LastOf(mu) = UpperEnd(c)
             => Upto(contents, p, e, LastChildOf(mu), EMPTY)
  <3>1. i + 1 = Len(c.items) => DropsLast(contents, "shift", m, key)
   BY <1>6 DEF DropsLast, Dropping, Effective
  <3>2. Effective("shift", m)[2] = e BY <1>6 DEF Effective
  <3> QED BY <1>2, <1>6, <3>1, <3>2 DEF SlidesKeep, LastOf
 <2>4. CarriesWell(cts2, p, z, mu) BY <1>1, <1>2, <1>5, <1>6, <2>3, DropCarries
 <2> QED BY <1>1, <2>1, <2>2, <2>4 DEF Holding
<1> QED BY <1>4, <1>5

LEMMA ShiftOrders ==
 ASSUME NEW p, Ordered(p), NEW t \in Threads, Shift(t), MultiwayInv'
 PROVE  MultiwayOrder'
<1>1. PICK m, key, n, c, a : m = my[t] /\ key = call[t].key /\ n = m.node /\ c = m.edit /\ a = m.adjusted
 OBVIOUS
<1>2. PICK new, parts, b, rt : /\ new = Adjusted(c, key, a) /\ b = m.barrier /\ rt = root
                               /\ parts = IF Dropping(c, key, a) THEN {"keys", "children"} ELSE {"children"}
 OBVIOUS
<1>3. /\ pc[t] = "shift"
      /\ IF CanReplace(n, c) THEN Replace(t, n, c, new, parts) /\ Down(t)
         ELSE GoTo(t, "cleanAgain") /\ UNCHANGED <<my, shared, history, bounds>>
 BY <1>1, <1>2 DEF Shift, Key
<1>4. Shifts(t, p, m, key, n, c, a, b) BY <1>1, <1>2, <1>3, ShiftsHere
<1>5. /\ TreeInv(contents, rt) /\ OrderInv(contents, p, rt) /\ n \in DOMAIN contents /\ n[1] # 0 /\ n[1] \in Nat
      /\ b \in Int /\ BarrierHolds(contents, p, n, b) /\ key \in Keys /\ HasPlace(DOMAIN contents, n[1], c, key)
      /\ a \in Seq(Names) /\ Len(a) = Len(Adjusting(c, key)) /\ Pushed(contents, p, c, key, b, a)
      /\ OnWay(contents, p, m, key) /\ CleansWell(contents, p, m, key)
 BY <1>2, <1>4 DEF Shifts
<1>6. Mine(t, p, m, key) /\ ChildFor(m.cts, key) \in DOMAIN contents /\ DescendsWell(contents, p, m, key)
 BY <1>4 DEF Shifts, AdjustSound
<1>7. CASE CanReplace(n, c)
 <2>1. PICK cts2 : Replaced(n, new, cts2) BY <1>3, <1>5, <1>7, ReplacedIs
 <2>2. OneNode(contents, cts2, n, new) /\ TreeInv(cts2, rt) /\ c = contents[n]
  BY <1>2, <1>7, <2>1 DEF Replaced, CanReplace
 <2>3. contents' = cts2 /\ root' = rt /\ UNCHANGED call BY <1>2, <2>1 DEF Replaced
 <2>4. CASE ~Dropping(c, key, a)
  <3>1. Good(contents, p, cts2, p, rt) BY <1>2, <1>5, <2>2, <2>4, AdjustGood
  <3>2. Safe(contents, p, cts2, p) BY <3>1 DEF Good
  <3>3. Goes(t, cts2, p) BY <1>1, <1>3, <1>6, <1>7, <3>2, DownGoes
  <3> QED BY <2>3, <3>1, <3>3, GoodGoes
 <2>5. CASE Dropping(c, key, a)
  <3>1. PICK i, e : i = Index(c, key) /\ e = a[2] OBVIOUS
  <3>2. PICK w1 : w1 = c.items[i + 1] OBVIOUS
  <3>3. Drops(contents, p, n, c, i, e)
   <4>1. i + 1 = Len(c.items) => DropsLast(contents, "shift", m, key)
    BY <1>1, <2>2, <2>5, <3>1 DEF DropsLast, Dropping, Effective
   <4>2. Effective("shift", m)[2] = e /\ LastOf(m) = UpperEnd(c) BY <1>1, <3>1 DEF Effective, LastOf
   <4>3. TwinsKeep(contents, p, "shift", m, key) BY <1>1, <1>3 DEF Ordered, CallsSound
   <4> QED BY <1>1, <4>1, <4>2, <4>3 DEF Drops, TwinsKeep
  <3>4. DropDone(contents, p, cts2, rt, n[1], w1, e)
   BY <1>2, <1>5, <2>2, <2>5, <3>1, <3>2, <3>3, DropGood
  <3>5. OrderInv(cts2, p, rt) /\ Safe(contents, p, cts2, p) /\ DOMAIN cts2 = DOMAIN contents
   BY <2>2, <3>4 DEF DropDone, OneNode
  <3>6. DropsTo(contents, n, c, i, w1, e)
   <4>1. PICK D, l : D = DOMAIN contents /\ l = n[1] OBVIOUS
   <4>2. D \in SUBSET Names /\ l \in Nat /\ l # 0 /\ HasPlace(D, l, c, key) BY <1>5, <4>1, NodeRead
   <4>3. DroppedAs(c, new, key, a, i) BY ONLY <4>2, <1>2, <1>5, <2>5, <3>1, AdjustedDrops
   <4>4. i > 1 /\ i < Len(c.items) /\ i \in Nat /\ Len(a) = 2 BY <4>3 DEF DroppedAs
   <4>5. e \in D /\ e[1] = l - 1
    <5>1. \A q \in 1 .. Len(my[t].adjusted) : On(D, my[t].adjusted[q], my[t].node[1] - 1)
     BY <1>3, <4>1, AtAdjustFacts DEF Ordered
    <5>2. On(D, a[2], l - 1) BY <1>1, <4>1, <4>4, <5>1
    <5> QED BY <3>1, <5>2 DEF On
   <4> QED BY <1>5, <2>2, <3>2, <4>1, <4>4, <4>5 DEF DropsTo
  <3>7. ASSUME NEW u \in Threads \ {t}
        PROVE  Holding(cts2, p, pc[u], my[u], call[u].key)
   <4>1. DropsNow(t, p, m, key, n, c, a, rt, i, w1, e, cts2)
    BY <1>1, <1>2, <1>3, <2>2, <2>5, <3>1, <3>4, <3>5, <3>6 DEF DropsNow
   <4> QED BY <4>1, DropHolds
  <3>8. Goes(t, cts2, p) BY <1>1, <1>3, <1>6, <1>7, <3>5, DownGoes
  <3>9. PICK l, x : pc' = [pc EXCEPT ![t] = l] /\ my' = [my EXCEPT ![t] = x] /\ Alone(cts2, p, l, x, call[t].key)
   BY <3>8 DEF Goes
  <3>10. PICK cl : cl = call[t] OBVIOUS
  <3>11. Moves(t, l, x, cl) BY <2>3, <3>9, <3>10, SameCallMoves DEF Ordered
  <3>12. PairsHold(cts2, p, t, l, x, cl.key) /\ Holding(cts2, p, l, x, cl.key)
   BY <3>9, <3>10, AlonePairs DEF Alone
  <3>13. /\ OrderInv(contents', p, root') /\ Safe(contents, p, contents', p) /\ MultiwayInv /\ CallsSound(contents, p)
         /\ \A u \in Threads \ {t} : Holding(contents', p, pc[u], my[u], call[u].key)
         /\ Holding(contents', p, l, x, cl.key) /\ PairsHold(contents', p, t, l, x, cl.key)
   BY <2>3, <3>5, <3>7, <3>12 DEF Ordered
  <3> QED BY <3>11, <3>13, StepHolds
 <2> QED BY <2>4, <2>5
<1>8. CASE ~CanReplace(n, c)
 <2>1. GoTo(t, "cleanAgain") /\ UNCHANGED my /\ UNCHANGED shared /\ UNCHANGED call
  BY <1>3, <1>8 DEF history
 <2>2. Sound(contents, p, "cleanAgain", m, key) /\ At("cleanAgain", m) \notin Sliding
  BY <1>5 DEF Sound, At, Sliding
 <2>3. Goes(t, contents, p) BY <1>1, <2>1, <2>2, SoundGoes DEF Ordered
 <2> QED BY <2>1, <2>3, QuietGoes
<1> QED BY <1>7, <1>8

LEMMA CleanAgainOrders ==
 ASSUME NEW p, Ordered(p), NEW t \in Threads, CleanAgain(t)
 PROVE  MultiwayOrder'
<1>1. PICK m, key, n, c : m = my[t] /\ key = call[t].key /\ n = m.node /\ c = contents[n] OBVIOUS
<1>2. /\ pc[t] = "cleanAgain" /\ UNCHANGED <<shared, history, bounds>> /\ UNCHANGED call
      /\ IF Beyond(c, key) THEN Down(t) ELSE CleanNode(t, CleaningAgain(my[t], c))
 BY <1>1, Zenon DEF CleanAgain, Key, CleaningAgain, history
<1>3. Mine(t, p, m, key) /\ LocalInv(contents, "cleanAgain", m, call[t])
 BY <1>1, <1>2, MineHere DEF Ordered, MultiwayInv, AllLocalInv
<1>4. /\ TreeInv(contents, root) /\ OrderInv(contents, p, root) /\ m \in LocalsSet /\ key \in Keys
      /\ OnWay(contents, p, m, key) /\ Sound(contents, p, "cleanAgain", m, key)
 BY <1>2, <1>3 DEF Mine
<1>5. CleansWell(contents, p, m, key) /\ DescendsWell(contents, p, m, key)
 BY <1>4 DEF Sound, At, CleansWell
<1>6. n \in DOMAIN contents /\ n[1] # 0 /\ ChildFor(m.cts, key) \in DOMAIN contents
 <2>1. PICK ct, rt : ct = call[t] /\ rt = root OBVIOUS
 <2> QED BY <1>1, <1>3, <1>4, <2>1, CleanNodes
<1>7. CASE Beyond(c, key)
 <2>1. Safe(contents, p, contents, p) BY <1>4, SameIsGood DEF Good
 <2>2. Goes(t, contents, p) BY <1>1, <1>2, <1>3, <1>5, <1>6, <1>7, <2>1, DownGoes
 <2> QED BY <1>2, <2>2, QuietGoes
<1>8. CASE ~Beyond(c, key)
 <2>1. PICK v : v = CleaningAgain(m, c) OBVIOUS
 <2>2. /\ v \in LocalsSet /\ v.edit = c /\ v.node = n /\ v.height = m.height /\ v.results = m.results
       /\ v.barrier = m.barrier /\ v.cts = m.cts /\ v.adjusted = <<>>
  <3>1. PICK f : f = [m EXCEPT !.edit = c] OBVIOUS
  <3>2. PICK g : g = [f EXCEPT !.adjusted = <<>>] OBVIOUS
  <3>3. PICK h : h = [g EXCEPT !.sibling = NoSearch] OBVIOUS
  <3>4. NoSearch \in SearchSet /\ <<>> \in Seq(Names) /\ c \in ContentsSet
   <4>1. Shape(DOMAIN contents, n[1], c) BY <1>1, <1>4, <1>6, NodeRead
   <4> QED BY <4>1, EmptyIsTyped DEF Shape
  <3>5. h = v BY <1>4, <2>1, <3>1, <3>2, <3>3, <3>4 DEF CleaningAgain, LocalsSet
  <3>6. /\ f \in LocalsSet /\ f.edit = c /\ f.node = n /\ f.height = m.height /\ f.results = m.results
        /\ f.barrier = m.barrier /\ f.cts = m.cts
   BY <1>1, <1>4, <3>1, <3>4 DEF LocalsSet
  <3>7. /\ g \in LocalsSet /\ g.edit = c /\ g.node = n /\ g.height = m.height /\ g.results = m.results
        /\ g.barrier = m.barrier /\ g.cts = m.cts /\ g.adjusted = <<>>
   BY <3>2, <3>4, <3>6 DEF LocalsSet
  <3>8. /\ h \in LocalsSet /\ h.edit = c /\ h.node = n /\ h.height = m.height /\ h.results = m.results
        /\ h.barrier = m.barrier /\ h.cts = m.cts /\ h.adjusted = <<>>
   BY <3>3, <3>4, <3>7 DEF LocalsSet
  <3> QED BY <3>5, <3>8
 <2>3. CleanNode(t, v) BY <1>1, <1>2, <1>8, <2>1
 <2>4. HasPlace(DOMAIN contents, n[1], c, key) BY <1>1, <1>4, <1>6, <1>8, NodeRead DEF HasPlace
 <2>5. OnWay(contents, p, v, key) /\ CleansWell(contents, p, v, key)
  BY <1>1, <1>4, <1>5, <2>2 DEF OnWay, CleansWell, DescendsWell
 <2> QED BY <1>1, <1>2, <1>4, <1>6, <2>2, <2>3, <2>4, <2>5, CleanNodeOrders
<1> QED BY <1>7, <1>8

-----------------------------------------------------------------------------
LEMMA StartsInOrder ==
 ASSUME Init
 PROVE  MultiwayOrder
<1>1. PICK n, c, rt : n = <<0, 1>> /\ c = Contents(<<INF>>, NoChildren, NoNode) /\ rt = root OBVIOUS
<1>2. contents = [x \in {n} |-> c] /\ rt = [node |-> n, height |-> 0] BY <1>1 DEF Init
<1>3. DOMAIN contents = {n} /\ contents[n] = c /\ n[1] = 0 /\ rt.node = n /\ rt.height = 0
 BY <1>1, <1>2
<1>4. c.link = NoNode BY <1>1 DEF Contents
<1>5. PICK p : p = [x \in {n} |-> 0] OBVIOUS
<1>6. p \in [DOMAIN contents -> Nat] /\ \A x, y \in DOMAIN contents : x = y /\ ~Lt(p, x, y)
 BY <1>3, <1>5 DEF Lt
<1>7. Numbered(contents, p) /\ LinksLead(contents, p) /\ ItemsLead(contents, p)
 BY <1>3, <1>4, <1>6 DEF Numbered, LinksLead, ItemsLead
<1>8. ChildrenLead(contents, p) /\ RootLeads(contents, p, rt)
 BY <1>3, <1>6 DEF ChildrenLead, RootLeads
<1>9. OrderInv(contents, p, root) BY <1>1, <1>7, <1>8 DEF OrderInv
<1>10. CallsSound(contents, p)
 <2>1. ASSUME NEW t \in Threads
       PROVE  Holding(contents, p, pc[t], my[t], call[t].key) /\ pc[t] = "idle"
  <3>1. pc[t] = "idle" /\ my[t] = NoLocals BY DEF Init
  <3> QED BY <3>1, IdleHolds
 <2>2. \A t, u \in Threads : SlidesKeep(contents, p, pc[t], my[t], call[t].key, At(pc[u], my[u]), my[u])
  BY <2>1 DEF SlidesKeep, DropsLast
 <2> QED BY <2>1, <2>2 DEF CallsSound, Holding
<1> QED BY <1>9, <1>10 DEF MultiwayOrder

LEMMA NextOrders ==
 ASSUME MultiwayInv, MultiwayOrder, Next
 PROVE  MultiwayOrder'
<1>1. PICK t \in Threads : (\E c \in Abstract!SetCalls, h \in AllHeights : Start(t, c, h)) \/ Step(t)
 BY DEF Next
<1>2. PICK p : Ordered(p) BY DEF Ordered, MultiwayOrder
<1>3. MultiwayInv' BY NextKeeps DEF Kept
<1>4. CASE \E c \in Abstract!SetCalls, h \in AllHeights : Start(t, c, h) BY <1>2, <1>4, StartOrders
<1>5. CASE Traversing(t)
 BY <1>2, <1>3, <1>5, ReadRootOrders, GrowReadOrders, GrowOrders, ScanOrders, PushRightOrders,
    VisitBeyondOrders, VisitInnerOrders, VisitLeafOrders, WalkOrders DEF Traversing
<1>6. CASE Cleaning(t)
 BY <1>2, <1>3, <1>6, KeepLinkOrders, CleanLinkOrders, LinkReadOrders, ReadSiblingOrders,
    NephewOrders, ShiftNephewOrders, SlideNeedlessOrders, SlideOrders, UnslideOrders,
    AdjustNextOrders, ShiftOrders, CleanAgainOrders DEF Cleaning
<1>7. CASE Updating(t)
 BY <1>2, <1>3, <1>7, MoveForwardOrders, InsertOrders, RemoveItemOrders, DoneOrders, FailsOrders DEF Updating
<1>8. CASE Indexing(t)
 BY <1>2, <1>3, <1>8, IndexNothingOrders, SplitOneLevelOrders, InsertOneLevelOrders, FailsOrders DEF Indexing
<1> QED BY <1>1, <1>4, <1>5, <1>6, <1>7, <1>8 DEF Step

LEMMA StutterOrders ==
 ASSUME MultiwayOrder, UNCHANGED vars
 PROVE  MultiwayOrder'
<1>1. contents' = contents /\ root' = root /\ pc' = pc /\ my' = my /\ call' = call
 BY DEF vars, shared, history, bounds
<1> QED BY <1>1 DEF MultiwayOrder, CallsSound

(* The inductive invariant: where the items, links and children of         *)
(* MultiwaySearchTree.hpp are on their levels, and what the call of each   *)
(* thread relies on where it is.                                           *)
THEOREM OrderInvariant ==
    Spec => []MultiwayOrder
<1>1. Init => MultiwayOrder BY MultiwayAssumption, StartsInOrder
<1>2. MultiwayInv /\ MultiwayOrder /\ [Next]_vars => MultiwayOrder'
 BY MultiwayAssumption, NextOrders, StutterOrders
<1> QED BY <1>1, <1>2, MultiwayInvariant, PTL DEF Spec

(* What holds of the items s and the link k of the node n. *)
LevelOK(n, s, k) ==
    /\ \A i, j \in DOMAIN s : i < j => s[i] < s[j]
    /\ k = NoNode <=> s # <<>> /\ Last(s) = INF
    /\ k # NoNode /\ s # <<>> => \A i \in DOMAIN contents[k].items :
            IF n[1] = 0 THEN contents[k].items[i] > Last(s)
                        ELSE contents[k].items[i] >= Last(s)

LEMMA LevelsByOrder ==
 ASSUME MultiwayInv, MultiwayOrder
 PROVE  LevelsAreOrdered
<1>1. PICK p : OrderInv(contents, p, root) BY DEF MultiwayOrder
<1>2. PICK rt : rt = root OBVIOUS
<1>3. TreeInv(contents, rt) /\ OrderInv(contents, p, rt) BY <1>1, <1>2 DEF MultiwayInv
<1>4. ASSUME NEW n \in Nodes, NEW s, NEW k, s = contents[n].items, k = contents[n].link
      PROVE  LevelOK(n, s, k)
 <2>1. PICK c, D, l : c = contents[n] /\ D = Nodes /\ l = n[1] OBVIOUS
 <2>2. /\ Shape(D, l, c) /\ D \in SUBSET Names /\ l \in Nat /\ n \in DOMAIN contents /\ Numbered(contents, p)
       /\ AllEnd(contents) /\ ItemsLead(contents, p)
  BY <1>3, <2>1, OrderRows DEF Nodes, OrderInv
 <2>3. /\ s \in Seq(Item) /\ \A i, j \in 1 .. Len(s) : i < j => s[i] < s[j]
       /\ k = NoNode <=> s # <<>> /\ Last(s) = INF
  BY <1>4, <2>1, <2>2, ShapeFacts
 <2>4. ASSUME k # NoNode, s # <<>>, NEW i \in DOMAIN contents[k].items
       PROVE  IF l = 0 THEN contents[k].items[i] > Last(s) ELSE contents[k].items[i] >= Last(s)
  <3>1. PICK b, f : b = contents[k] /\ f = b.items OBVIOUS
  <3>2. Linked(contents, p, n, k) BY <1>3, <1>4, <2>2, <2>4, LinkFacts
  <3>3. k \in DOMAIN contents /\ Lt(p, n, k) /\ k[1] = l BY <2>1, <3>2 DEF Linked
  <3>4. Shape(D, l, b) BY <1>3, <2>1, <3>1, <3>3, OrderRows DEF Nodes
  <3>5. f \in Seq(Item) /\ (\A j \in 1 .. Len(f) : f[j] \in Int) /\ \A j, g \in 1 .. Len(f) : j < g => f[j] < f[g]
   BY <2>2, <3>1, <3>4, ShapeFacts
  <3>6. i \in 1 .. Len(f) /\ Len(f) \in Nat /\ f # <<>> /\ 1 \in 1 .. Len(f) BY <2>4, <3>1, <3>5
  <3>7. Full(b) /\ First(b) = f[1] /\ f[1] <= f[i] /\ f[1] \in Int /\ f[i] \in Int
   BY <3>1, <3>5, <3>6 DEF Full, First
  <3>8. UpperEnd(c) = Last(s) /\ Full(c) BY <1>4, <2>1, <2>4 DEF UpperEnd, Full
  <3>9. UpperEnd(c) <= First(b) /\ (l = 0 => UpperEnd(c) < First(b)) /\ UpperEnd(c) \in Int
   BY <2>1, <2>2, <3>1, <3>3, <3>7, <3>8 DEF ItemsLead, AllEnd, Ends
  <3>10. PICK e, g : e = Last(s) /\ g = f[i] OBVIOUS
  <3>11. e <= f[1] /\ f[1] <= g /\ e \in Int /\ g \in Int /\ f[1] \in Int /\ (l = 0 => e < f[1])
   BY <3>7, <3>8, <3>9, <3>10
  <3>12. IF l = 0 THEN g > e ELSE g >= e BY ONLY <3>11
  <3> QED BY <3>1, <3>10, <3>12
 <2>5. ASSUME k # NoNode, s # <<>>, NEW i \in DOMAIN contents[k].items
       PROVE  IF n[1] = 0 THEN contents[k].items[i] > Last(s) ELSE contents[k].items[i] >= Last(s)
  BY <2>1, <2>4, <2>5
 <2>6. \A i, j \in DOMAIN s : i < j => s[i] < s[j] BY <2>3
 <2>7. k = NoNode <=> s # <<>> /\ Last(s) = INF BY <2>3
 <2> QED BY <2>5, <2>6, <2>7, Zenon DEF LevelOK
<1>5. SUFFICES ASSUME NEW n \in Nodes
               PROVE  LET items == contents[n].items
                          link == contents[n].link
                      IN  /\ \A i, j \in DOMAIN items : i < j => items[i] < items[j]
                          /\ link = NoNode <=> items # <<>> /\ Last(items) = INF
                          /\ link # NoNode /\ items # <<>> => \A i \in DOMAIN contents[link].items :
                                  IF n[1] = 0 THEN contents[link].items[i] > Last(items)
                                              ELSE contents[link].items[i] >= Last(items)
 BY Zenon DEF LevelsAreOrdered
<1>6. PICK s, k : s = contents[n].items /\ k = contents[n].link OBVIOUS
<1>7. LevelOK(n, s, k) BY <1>4, <1>6
<1> QED BY <1>6, <1>7 DEF LevelOK

(* The items of a node ascend, and those of the node that it links to are  *)
(* above them: what a search in MultiwaySearchTree.hpp compares with.      *)
THEOREM LevelsStayOrdered ==
    Spec => []LevelsAreOrdered
<1>1. MultiwayInv /\ MultiwayOrder => LevelsAreOrdered
 BY MultiwayAssumption, LevelsByOrder
<1> QED BY <1>1, OrderInvariant, MultiwayInvariant, PTL

-----------------------------------------------------------------------------
(* The set: a key is in it when a leaf has it, and it can only be in the   *)
(* first leaf that does not end before it.                                 *)
LEMMA KeysAre ==
 ASSUME NEW cts, NEW rt, TreeInv(cts, rt), NEW k
 PROVE  k \in KeysIn(cts) <=> k \in Keys /\ Has(cts, 0, k)
<1>1. ASSUME NEW n \in DOMAIN cts
      PROVE  (IsLeaf(cts[n]) <=> n[1] = 0) /\ (k \in ToSet(cts[n].items) <=> Holds(cts[n], k))
 <2>1. PICK D, l, c : D = DOMAIN cts /\ l = n[1] /\ c = cts[n] OBVIOUS
 <2>2. D \in SUBSET Names /\ l \in Nat /\ Shape(D, l, c) BY <2>1, NodeRead
 <2>3. (IsLeaf(c) <=> l = 0) /\ c.items \in Seq(Item)
  BY ONLY <2>2, ShapeFacts, MultiwayAssumption
 <2>4. k \in ToSet(c.items) <=> Holds(c, k) BY <2>3 DEF ToSet, Holds
 <2> QED BY <2>1, <2>3, <2>4
<1> QED BY <1>1 DEF KeysIn, Has

LEMMA SameKeys ==
 ASSUME NEW cts, NEW rt, TreeInv(cts, rt), NEW cts2, NEW rt2, TreeInv(cts2, rt2),
        \A k \in Keys : Has(cts2, 0, k) <=> Has(cts, 0, k)
 PROVE  KeysIn(cts2) = KeysIn(cts)
<1>1. KeysIn(cts2) \subseteq Keys /\ KeysIn(cts) \subseteq Keys BY DEF KeysIn
<1>2. \A k \in Keys : k \in KeysIn(cts2) <=> k \in KeysIn(cts) BY KeysAre
<1> QED BY <1>1, <1>2

LEMMA InnerKeys ==
 ASSUME NEW cts, NEW rt, TreeInv(cts, rt), NEW cts2, TreeInv(cts2, rt),
        NEW n, NEW new, OneNode(cts, cts2, n, new), n[1] # 0
 PROVE  KeysIn(cts2) = KeysIn(cts)
<1>1. \A k : Has(cts2, 0, k) <=> Has(cts, 0, k) BY DEF Has, OneNode
<1> QED BY <1>1, SameKeys

LEMMA KeptKeys ==
 ASSUME NEW cts, NEW rt, TreeInv(cts, rt), NEW cts2, TreeInv(cts2, rt),
        NEW n, NEW new, OneNode(cts, cts2, n, new), \A w : Holds(new, w) <=> Holds(cts[n], w)
 PROVE  KeysIn(cts2) = KeysIn(cts)
<1>1. \A x \in DOMAIN cts : \A w : Holds(cts2[x], w) <=> Holds(cts[x], w) BY DEF OneNode
<1>2. DOMAIN cts2 = DOMAIN cts BY DEF OneNode
<1>3. \A k : Has(cts2, 0, k) <=> Has(cts, 0, k) BY <1>1, <1>2 DEF Has
<1> QED BY <1>3, SameKeys

OnlyHere(cts, n, key) == \A x \in DOMAIN cts : x[1] = 0 /\ Holds(cts[x], key) => x = n

LEMMA KeyHere ==
 ASSUME NEW cts, NEW p, NEW rt, TreeInv(cts, rt), OrderInv(cts, p, rt), NEW key \in Keys,
        NEW n \in DOMAIN cts, n[1] = 0, Low(cts, p, n, key - 1), ~Beyond(cts[n], key)
 PROVE  OnlyHere(cts, n, key) /\ (key \in KeysIn(cts) <=> Found(cts[n], key))
<1>1. AllEnd(cts) /\ Rows(cts, p) /\ ItemsLead(cts, p) /\ Numbered(cts, p) /\ key \in Int
 BY TreeEnds DEF OrderInv, Rows
<1>2. PICK D, l, c : D = DOMAIN cts /\ l = n[1] /\ c = cts[n] OBVIOUS
<1>3. D \in SUBSET Names /\ l \in Nat /\ Shape(D, l, c) /\ Ends(c)
 BY <1>1, <1>2, NodeRead DEF AllEnd
<1>4. c.items \in Seq(Item) /\ ItemsOK(c) BY ONLY <1>3, ShapeFacts, MultiwayAssumption
<1>5. c.items # <<>> /\ ~(Last(c.items) < key) BY <1>1, <1>2, <1>4, BeyondFacts
<1>6. Full(c) /\ UpperEnd(c) \in Int /\ key <= UpperEnd(c)
 <2>1. Full(c) /\ UpperEnd(c) = Last(c.items) /\ UpperEnd(c) \in Int
  BY <1>3, <1>5 DEF Full, UpperEnd, Ends
 <2> QED BY <1>1, <1>5, <2>1
<1>7. ASSUME NEW x \in DOMAIN cts, x[1] = 0, Holds(cts[x], key)
      PROVE  x = n
 <2>1. Ends(cts[x]) /\ Full(cts[x]) /\ First(cts[x]) \in Int /\ First(cts[x]) <= key /\ key <= UpperEnd(cts[x])
       /\ UpperEnd(cts[x]) \in Int
  BY <1>1, <1>7 DEF AllEnd, Ends
 <2>2. ~Lt(p, x, n)
  <3> SUFFICES ASSUME Lt(p, x, n) PROVE FALSE OBVIOUS
  <3>1. UpperEnd(cts[x]) <= key - 1 BY DEF Low
  <3> QED BY ONLY <1>1, <2>1, <3>1
 <2>3. ~Lt(p, n, x)
  <3> SUFFICES ASSUME Lt(p, n, x) PROVE FALSE OBVIOUS
  <3>1. UpperEnd(c) < First(cts[x]) BY <1>1, <1>2, <1>6, <1>7, <2>1 DEF ItemsLead
  <3> QED BY ONLY <1>1, <1>6, <2>1, <3>1
 <2> QED BY <1>1, <1>7, <2>2, <2>3, RowFacts
<1>8. OnlyHere(cts, n, key) BY <1>7 DEF OnlyHere
<1>9. Found(c, key) <=> Holds(c, key) BY <1>1, <1>4, FoundFacts DEF Holds
<1>10. Has(cts, 0, key) <=> Holds(c, key) BY <1>2, <1>7 DEF Has
<1>11. key \in KeysIn(cts) <=> Has(cts, 0, key) BY KeysAre
<1> QED BY <1>2, <1>8, <1>9, <1>10, <1>11

-----------------------------------------------------------------------------
(* What a call may answer, where it is: what is right now it may answer,   *)
(* unless it has changed the set; then it is on its way to return true.    *)
Late == {"split", "raise", "done"}
Answered(l, m, c, a, S) ==
    /\ ~Abstract!Applied(c, a) => Abstract!Observed(c, S) \subseteq a
    /\ At(l, m) \in Late => TRUE \in a
    /\ At(l, m) \notin Late => ~Abstract!Applied(c, a)
    /\ l = "insert" /\ Found(m.cts, c.key) => FALSE \in a
    /\ l = "remove" /\ ~Found(m.cts, c.key) => FALSE \in a
    /\ l = "scan" => c.op = "contains"
AnswersHold == \A t \in Threads : Answered(pc[t], my[t], call[t], answers[t], KeysIn(contents))

Refines == [Abstract!SetNext]_(Abstract!setVars)
Answers == AnswersHold' /\ Refines

LEMMA RefinesAs ==
    /\ \A t \in Threads : \A c \in Abstract!SetCalls : Abstract!SetInvoke(t, c) => Refines
    /\ \A t \in Threads : \A r \in BOOLEAN : Abstract!SetReturn(t, r) => Refines
    /\ \A t \in Threads : Abstract!SetAdd(t) \/ Abstract!SetRemove(t) => Refines
    /\ KeysIn(contents') = KeysIn(contents) /\ UNCHANGED history => Refines
 BY DEF Refines, Abstract!SetNext, Abstract!setVars, history

(* Only t moves. *)
Steps(t) == \A u \in Threads \ {t} : pc'[u] = pc[u] /\ my'[u] = my[u]

LEMMA StepsAs ==
 ASSUME MultiwayInv, NEW t \in Threads, NEW l, GoTo(t, l), NEW m, Become(t, m)
 PROVE  Steps(t) /\ pc'[t] = l /\ my'[t] = m
<1>1. pc \in [Threads -> Labels] /\ my \in [Threads -> LocalsSet] BY DEF MultiwayInv, OthersInv
<1> QED BY <1>1 DEF Steps, GoTo, Become

LEMMA StepsStill ==
 ASSUME MultiwayInv, NEW t \in Threads, NEW l, GoTo(t, l), UNCHANGED my
 PROVE  Steps(t) /\ pc'[t] = l /\ my'[t] = my[t]
<1>1. pc \in [Threads -> Labels] BY DEF MultiwayInv, OthersInv
<1> QED BY <1>1 DEF Steps, GoTo

LEMMA StepsHere ==
 ASSUME MultiwayInv, NEW t \in Threads, UNCHANGED pc, NEW m, Become(t, m)
 PROVE  Steps(t) /\ pc'[t] = pc[t] /\ my'[t] = m
<1>1. my \in [Threads -> LocalsSet] BY DEF MultiwayInv, OthersInv
<1> QED BY <1>1 DEF Steps, Become

(* The set stays, and t answers as before or goes on to what it may answer.*)
LEMMA SameSet ==
 ASSUME AnswersHold, NEW t \in Threads, Steps(t), UNCHANGED history, KeysIn(contents') = KeysIn(contents),
        Answered(pc'[t], my'[t], call[t], answers[t], KeysIn(contents))
 PROVE  Answers
<1>1. call' = call /\ answers' = answers BY DEF history
<1>2. ASSUME NEW u \in Threads
      PROVE  Answered(pc'[u], my'[u], call'[u], answers'[u], KeysIn(contents'))
 <2>1. CASE u = t BY <1>1, <2>1
 <2>2. CASE u # t
  <3>1. Answered(pc[u], my[u], call[u], answers[u], KeysIn(contents)) BY DEF AnswersHold
  <3> QED BY <1>1, <2>2, <3>1 DEF Steps
 <2> QED BY <2>1, <2>2
<1>3. AnswersHold' BY <1>2 DEF AnswersHold
<1> QED BY <1>3, RefinesAs DEF Answers

Settled == {"idle", "scan", "insert", "remove", "forward"} \cup Late
Wanders(t) == Steps(t) /\ pc'[t] \notin Settled

LEMMA EarlyStays ==
 ASSUME MultiwayInv, AnswersHold, MultiwayInv', NEW t \in Threads, Wanders(t),
        UNCHANGED history, KeysIn(contents') = KeysIn(contents), pc[t] \notin Settled
 PROVE  Answers
<1>1. Answered(pc[t], my[t], call[t], answers[t], KeysIn(contents)) /\ Steps(t) /\ pc'[t] \notin Settled
 BY DEF AnswersHold, Wanders
<1>2. At(pc[t], my[t]) \notin Late
 <2>1. LocalInv(contents, pc[t], my[t], call[t]) BY DEF MultiwayInv, AllLocalInv
 <2> QED BY <2>1 DEF LocalInv, Placed, Late, At, Settled
<1>3. pc'[t] = "push" => my'[t].then \notin Late
 <2>1. LocalInv(contents', pc'[t], my'[t], call'[t]) BY DEF MultiwayInv, AllLocalInv
 <2> QED BY <2>1 DEF LocalInv, Placed, Late
<1>4. At(pc'[t], my'[t]) \notin Late BY <1>1, <1>3 DEF At, Settled
<1>5. Answered(pc'[t], my'[t], call[t], answers[t], KeysIn(contents))
 BY <1>1, <1>2, <1>4 DEF Answered, Settled
<1> QED BY <1>1, <1>5, SameSet

-----------------------------------------------------------------------------
(* Where a traversal leads. *)
LEMMA GoOnWanders ==
 ASSUME MultiwayInv, NEW t \in Threads, NEW n, NEW b, GoOn(t, "visit", n, b)
 PROVE  Wanders(t)
<1>1. PICK m : GoTo(t, "visit") /\ Become(t, m) BY Zenon DEF GoOn
<1> QED BY <1>1, StepsAs DEF Wanders, Settled, Late

LEMMA PushWanders ==
 ASSUME MultiwayInv, NEW t \in Threads, NEW v, NEW n, NEW b, NEW then, PushRightFrom(t, v, n, b, then)
 PROVE  Wanders(t)
<1>1. PICK m : GoTo(t, "push") /\ Become(t, m) BY Zenon DEF PushRightFrom
<1> QED BY <1>1, StepsAs DEF Wanders, Settled, Late

LEMMA SamaritanWanders ==
 ASSUME MultiwayInv, NEW t \in Threads, NEW from, NEW c, SamaritanReturns(t, from, c)
 PROVE  Wanders(t)
<1>1. PICK m : GoTo(t, "walk") /\ Become(t, m) BY Zenon DEF SamaritanReturns
<1> QED BY <1>1, StepsAs DEF Wanders, Settled, Late

LEMMA StillWanders ==
 ASSUME MultiwayInv, NEW t \in Threads, NEW l, GoTo(t, l), l \notin Settled, UNCHANGED my
 PROVE  Wanders(t)
 BY StepsStill DEF Wanders

LEMMA AdjustWanders ==
 ASSUME MultiwayInv, NEW t \in Threads, NEW v, Adjust(t, v)
 PROVE  Wanders(t)
 BY PushWanders DEF Adjust

LEMMA CleanNodeWanders ==
 ASSUME MultiwayInv, NEW t \in Threads, NEW v, CleanNode(t, v)
 PROVE  Wanders(t)
 BY PushWanders, AdjustWanders DEF CleanNode

LEMMA DownWanders ==
 ASSUME MultiwayInv, NEW t \in Threads, Down(t)
 PROVE  Wanders(t)
 BY GoOnWanders DEF Down

LEMMA LinkCleanedWanders ==
 ASSUME MultiwayInv, NEW t \in Threads, NEW c, LinkCleaned(t, c)
 PROVE  Wanders(t)
 BY GoOnWanders, SamaritanWanders DEF LinkCleaned

LEMMA SlideReturnsWanders ==
 ASSUME MultiwayInv, NEW t \in Threads, NEW c, SlideReturns(t, c)
 PROVE  Wanders(t)
 BY DownWanders, SamaritanWanders DEF SlideReturns

LEMMA NoSlideWanders ==
 ASSUME MultiwayInv, NEW t \in Threads, NoSlide(t)
 PROVE  Wanders(t)
 BY AdjustWanders, SamaritanWanders DEF NoSlide

Walked(t) == Wanders(t) /\ pc[t] \notin Settled /\ UNCHANGED <<shared, history, bounds>>

LEMMA WalkedAnswers ==
 ASSUME MultiwayInv, AnswersHold, MultiwayInv', NEW t \in Threads, Walked(t)
 PROVE  Answers
<1>1. contents' = contents /\ UNCHANGED history BY DEF Walked, shared
<1>2. KeysIn(contents') = KeysIn(contents) BY <1>1
<1> QED BY <1>1, <1>2, EarlyStays DEF Walked

LEMMA ScansAnswers ==
 ASSUME MultiwayInv, AnswersHold, NEW t \in Threads, NEW n, NEW b, GoOn(t, "scan", n, b),
        pc[t] \in {"root", "scan"}, call[t].op = "contains", UNCHANGED <<shared, history, bounds>>
 PROVE  Answers
<1>1. PICK m : GoTo(t, "scan") /\ Become(t, m) BY Zenon DEF GoOn
<1>2. Steps(t) /\ pc'[t] = "scan" /\ contents' = contents /\ UNCHANGED history
 BY <1>1, StepsAs DEF shared
<1>3. Answered(pc[t], my[t], call[t], answers[t], KeysIn(contents)) BY DEF AnswersHold
<1>4. Answered(pc'[t], my'[t], call[t], answers[t], KeysIn(contents))
 BY <1>2, <1>3 DEF Answered, At, Late
<1>5. KeysIn(contents') = KeysIn(contents) BY <1>2
<1> QED BY <1>2, <1>4, <1>5, SameSet

LEMMA ReadRootAnswers ==
 ASSUME MultiwayInv, AnswersHold, MultiwayInv', NEW t \in Threads, ReadRoot(t)
 PROVE  Answers
<1>1. PICK v : v = [my[t] EXCEPT !.node = root.node, !.level = root.height] OBVIOUS
<1>2. /\ pc[t] = "root" /\ UNCHANGED <<shared, history, bounds>>
      /\ \/ GoOn(t, "scan", root.node, EMPTY) /\ call[t].op = "contains"
         \/ GoOn(t, "visit", root.node, EMPTY)
         \/ GoTo(t, "growRead") /\ UNCHANGED my
         \/ GoTo(t, "walk") /\ Become(t, v)
 BY <1>1, Zenon DEF ReadRoot
<1>3. CASE GoOn(t, "scan", root.node, EMPTY) /\ call[t].op = "contains" BY <1>2, <1>3, ScansAnswers
<1>4. CASE GoOn(t, "visit", root.node, EMPTY)
 <2>1. Walked(t) BY <1>2, <1>4, GoOnWanders DEF Walked, Settled, Late
 <2> QED BY <2>1, WalkedAnswers
<1>5. CASE GoTo(t, "growRead") /\ UNCHANGED my
 <2>1. Walked(t) BY <1>2, <1>5, StillWanders DEF Walked, Settled, Late
 <2> QED BY <2>1, WalkedAnswers
<1>6. CASE GoTo(t, "walk") /\ Become(t, v)
 <2>1. Walked(t) BY <1>2, <1>6, StepsAs DEF Walked, Settled, Late, Wanders
 <2> QED BY <2>1, WalkedAnswers
<1> QED BY <1>2, <1>3, <1>4, <1>5, <1>6

LEMMA GrowReadWalks ==
 ASSUME MultiwayInv, NEW t \in Threads, GrowRead(t)
 PROVE  Walked(t)
<1>1. PICK v, l : /\ v = [my[t] EXCEPT !.node = root.node, !.level = root.height]
                  /\ l = IF root.height < Height(t) THEN "grow" ELSE "walk"
 OBVIOUS
<1>2. pc[t] = "growRead" /\ GoTo(t, l) /\ Become(t, v) /\ UNCHANGED <<shared, history, bounds>>
 BY <1>1, Zenon DEF GrowRead
<1> QED BY <1>1, <1>2, StepsAs DEF Walked, Settled, Late, Wanders

LEMMA PushRightWalks ==
 ASSUME MultiwayInv, NEW t \in Threads, PushRight(t)
 PROVE  Walked(t)
<1>1. PICK v, b : /\ v = [my[t] EXCEPT !.push = contents[my[t].push].link]
                  /\ b <=> \/ contents[my[t].push].items = <<>>
                           \/ Last(contents[my[t].push].items) <= my[t].pushBarrier
 OBVIOUS
<1>2. /\ pc[t] = "push" /\ UNCHANGED <<shared, history, bounds>>
      /\ \/ Become(t, v) /\ UNCHANGED pc
         \/ GoTo(t, my[t].then) /\ UNCHANGED my
 BY <1>1, Zenon DEF PushRight
<1>3. my[t].then \in {"link", "sibling", "nephew", "adjust"}
 <2>1. LocalInv(contents, pc[t], my[t], call[t]) BY DEF MultiwayInv, AllLocalInv
 <2> QED BY <1>2, <2>1 DEF LocalInv, Placed
<1>4. CASE Become(t, v) /\ UNCHANGED pc BY <1>2, <1>4, StepsHere DEF Walked, Settled, Late, Wanders
<1>5. CASE GoTo(t, my[t].then) /\ UNCHANGED my
 BY <1>2, <1>3, <1>5, StillWanders DEF Walked, Settled, Late
<1> QED BY <1>2, <1>4, <1>5

LEMMA VisitBeyondWalks ==
 ASSUME MultiwayInv, NEW t \in Threads, VisitBeyond(t)
 PROVE  Walked(t)
<1>1. PICK c : c = contents[my[t].node] OBVIOUS
<1>2. /\ pc[t] = "visit" /\ PushRightFrom(t, PastNode(my[t], c), c.link, EMPTY, "link")
      /\ UNCHANGED <<shared, history, bounds>>
 BY <1>1, Zenon DEF VisitBeyond, PastNode
<1> QED BY <1>2, PushWanders DEF Walked, Settled, Late

LEMMA VisitInnerWalks ==
 ASSUME MultiwayInv, NEW t \in Threads, VisitInner(t)
 PROVE  Walked(t)
<1>1. PICK c : c = contents[my[t].node] OBVIOUS
<1>2. /\ pc[t] = "visit" /\ UNCHANGED <<shared, history, bounds>>
      /\ CleanNode(t, Entering(my[t], c)) \/ GoOn(t, "visit", ChildFor(c, Key(t)), EMPTY)
 BY <1>1, Zenon DEF VisitInner, Entering
<1> QED BY <1>2, CleanNodeWanders, GoOnWanders DEF Walked, Settled, Late

LEMMA KeepLinkWalks ==
 ASSUME MultiwayInv, NEW t \in Threads, KeepLink(t)
 PROVE  Walked(t)
<1>1. pc[t] = "link" /\ LinkCleaned(t, my[t].edit) /\ UNCHANGED <<shared, history, bounds>>
 BY DEF KeepLink
<1> QED BY <1>1, LinkCleanedWanders DEF Walked, Settled, Late

LEMMA LinkReadWalks ==
 ASSUME MultiwayInv, NEW t \in Threads, LinkRead(t)
 PROVE  Walked(t)
<1>1. PICK c, v : c = contents[my[t].node] /\ v = [my[t] EXCEPT !.edit = c] OBVIOUS
<1>2. pc[t] = "linkRead" /\ PushRightFrom(t, v, c.link, EMPTY, "link") /\ UNCHANGED <<shared, history, bounds>>
 BY <1>1, Zenon DEF LinkRead
<1> QED BY <1>2, PushWanders DEF Walked, Settled, Late

LEMMA ReadSiblingWalks ==
 ASSUME MultiwayInv, NEW t \in Threads, ReadSibling(t)
 PROVE  Walked(t)
<1>1. PICK s, c : s = my[t].push /\ c = contents[s] OBVIOUS
<1>2. PICK v, b : /\ v = [my[t] EXCEPT !.sibling = Search(s, c)]
                  /\ b = IF c.items[1] > LastItem(t) THEN LastItem(t) ELSE EMPTY
 OBVIOUS
<1>3. /\ pc[t] = "sibling" /\ UNCHANGED <<shared, history, bounds>>
      /\ \/ PushRightFrom(t, v, c.children[1], b, "nephew")
         \/ NoSlide(t)
         \/ GoTo(t, "linkRead") /\ UNCHANGED my
 BY <1>1, <1>2, Zenon DEF ReadSibling
<1>4. CASE GoTo(t, "linkRead") /\ UNCHANGED my BY <1>3, <1>4, StillWanders DEF Walked, Settled, Late
<1> QED BY <1>3, <1>4, PushWanders, NoSlideWanders DEF Walked, Settled, Late

LEMMA NephewWalks ==
 ASSUME MultiwayInv, NEW t \in Threads, Nephew(t)
 PROVE  Walked(t)
<1>1. /\ pc[t] = "nephew" /\ UNCHANGED <<shared, history, bounds>>
      /\ \/ GoTo(t, "slide") /\ UNCHANGED my
         \/ GoTo(t, "shiftNephew") /\ UNCHANGED my
         \/ NoSlide(t)
 BY Zenon DEF Nephew
<1>2. CASE GoTo(t, "slide") /\ UNCHANGED my BY <1>1, <1>2, StillWanders DEF Walked, Settled, Late
<1>3. CASE GoTo(t, "shiftNephew") /\ UNCHANGED my
 BY <1>1, <1>3, StillWanders DEF Walked, Settled, Late
<1> QED BY <1>1, <1>2, <1>3, NoSlideWanders DEF Walked, Settled, Late

LEMMA SlideNeedlessWalks ==
 ASSUME MultiwayInv, NEW t \in Threads, SlideNeedless(t)
 PROVE  Walked(t)
<1>1. /\ pc[t] = "slide" /\ UNCHANGED <<shared, history, bounds>>
      /\ (GoTo(t, "unslide") /\ UNCHANGED my) \/ SlideReturns(t, my[t].cts)
 BY Zenon DEF SlideNeedless
<1>2. CASE GoTo(t, "unslide") /\ UNCHANGED my BY <1>1, <1>2, StillWanders DEF Walked, Settled, Late
<1> QED BY <1>1, <1>2, SlideReturnsWanders DEF Walked, Settled, Late

LEMMA AdjustNextWalks ==
 ASSUME MultiwayInv, NEW t \in Threads, AdjustNext(t)
 PROVE  Walked(t)
<1>1. PICK v : v = [my[t] EXCEPT !.adjusted = Append(@, my[t].push)] OBVIOUS
<1>2. /\ pc[t] = "adjust" /\ UNCHANGED <<shared, history, bounds>>
      /\ Adjust(t, v) \/ Down(t) \/ (GoTo(t, "shift") /\ Become(t, v))
 BY <1>1, Zenon DEF AdjustNext
<1>3. CASE GoTo(t, "shift") /\ Become(t, v)
 BY <1>2, <1>3, StepsAs DEF Walked, Settled, Late, Wanders
<1> QED BY <1>2, <1>3, AdjustWanders, DownWanders DEF Walked, Settled, Late

LEMMA CleanAgainWalks ==
 ASSUME MultiwayInv, NEW t \in Threads, CleanAgain(t)
 PROVE  Walked(t)
<1>1. PICK c : c = contents[my[t].node] OBVIOUS
<1>2. /\ pc[t] = "cleanAgain" /\ UNCHANGED <<shared, history, bounds>>
      /\ Down(t) \/ CleanNode(t, CleaningAgain(my[t], c))
 BY <1>1, Zenon DEF CleanAgain, CleaningAgain
<1> QED BY <1>2, DownWanders, CleanNodeWanders DEF Walked, Settled, Late

-----------------------------------------------------------------------------
(* Contents are replaced, and the set stays. *)
LEMMA ReplacedQuietly ==
 ASSUME NEW t, NEW cts, NEW n, NEW c, NEW new, NEW parts, ReplaceIn(cts, t, n, c, new, parts),
        KeysIn(contents') = KeysIn(contents)
 PROVE  UNCHANGED history
<1>1. PICK cts2 : cts2 = [cts EXCEPT ![n] = new] OBVIOUS
<1>2. /\ contents' = cts2 /\ UNCHANGED <<call, result, bounds>>
      /\ KeysIn(cts2) = KeysIn(contents) => UNCHANGED answers
 BY <1>1, Zenon DEF ReplaceIn
<1> QED BY <1>2 DEF history

LEMMA CleanedAnswers ==
 ASSUME MultiwayInv, AnswersHold, MultiwayInv', NEW t \in Threads, Wanders(t), pc[t] \notin Settled,
        NEW n \in DOMAIN contents, NEW c, NEW new, NEW parts, Replace(t, n, c, new, parts),
        n[1] # 0 \/ \A w : Holds(new, w) <=> Holds(contents[n], w)
 PROVE  Answers
<1>1. PICK cts2 : Replaced(n, new, cts2) BY ReplacedIs
<1>2. TreeInv(contents, root) /\ contents' = cts2 /\ OneNode(contents, cts2, n, new) /\ TreeInv(cts2, root)
 BY <1>1 DEF MultiwayInv, Replaced
<1>3. KeysIn(contents') = KeysIn(contents)
 <2>1. PICK cts, rt : cts = contents /\ rt = root OBVIOUS
 <2>2. KeysIn(cts2) = KeysIn(cts) BY <1>2, <2>1, InnerKeys, KeptKeys
 <2> QED BY <1>2, <2>1, <2>2
<1>4. UNCHANGED history BY <1>3, ReplacedQuietly DEF Replace
<1> QED BY <1>3, <1>4, EarlyStays

LEMMA CleanLinkAnswers ==
 ASSUME MultiwayInv, AnswersHold, MultiwayInv', NEW t \in Threads, CleanLink(t)
 PROVE  Answers
<1>1. PICK m, n, c, new : m = my[t] /\ n = m.node /\ c = m.edit /\ new = WithLink(c, m.push) OBVIOUS
<1>2. /\ pc[t] = "link"
      /\ \/ CanReplace(n, c) /\ Replace(t, n, c, new, {}) /\ LinkCleaned(t, new)
         \/ GoTo(t, "linkRead") /\ UNCHANGED <<my, shared, history, bounds>>
 BY <1>1 DEF CleanLink
<1>3. CASE CanReplace(n, c) /\ Replace(t, n, c, new, {}) /\ LinkCleaned(t, new)
 <2>1. PICK D, l : D = DOMAIN contents /\ l = n[1] OBVIOUS
 <2>2. n \in D /\ l \in Nat /\ Shape(D, l, c) /\ D \in SUBSET Names BY <1>1, <1>2, <2>1, AtLinkFacts
 <2>3. new.items = c.items BY <1>1, <2>2, LinkedIs
 <2>4. c = contents[n] /\ \A w : Holds(new, w) <=> Holds(c, w) BY <1>3, <2>3 DEF CanReplace, Holds
 <2>5. Wanders(t) /\ pc[t] \notin Settled BY <1>2, <1>3, LinkCleanedWanders DEF Settled, Late
 <2> QED BY <1>3, <2>1, <2>2, <2>4, <2>5, CleanedAnswers
<1>4. CASE GoTo(t, "linkRead") /\ UNCHANGED <<my, shared, history, bounds>>
 <2>1. Walked(t) BY <1>2, <1>4, StillWanders DEF Walked, Settled, Late
 <2> QED BY <2>1, WalkedAnswers
<1> QED BY <1>2, <1>3, <1>4

(* The node and its sibling are inner nodes. *)
LEMMA SlidesInside ==
 ASSUME MultiwayInv, NEW t \in Threads, pc[t] \in {"shiftNephew", "slide", "unslide"},
        NEW m, m = my[t], NEW D, D = DOMAIN contents
 PROVE  m.node \in D /\ m.node[1] # 0 /\ m.sibling.node \in D /\ m.sibling.node[1] # 0
<1>1. PICK n : n = m.node OBVIOUS
<1>2. n \in D /\ n[1] \in Nat /\ n[1] >= 1 /\ SiblingRead(D, m) BY <1>1, AtSlideFacts
<1> QED BY <1>1, <1>2 DEF SiblingRead, On

LEMMA ShiftNephewAnswers ==
 ASSUME MultiwayInv, AnswersHold, MultiwayInv', NEW t \in Threads, ShiftNephew(t)
 PROVE  Answers
<1>1. PICK m, n, c, new : /\ m = my[t] /\ n = m.sibling.node /\ c = m.sibling.cts
                          /\ new = WithChildren(c, ReplaceAt(c.children, 1, m.push))
 OBVIOUS
<1>2. /\ pc[t] = "shiftNephew" /\ SamaritanReturns(t, m.cts, m.cts)
      /\ Replace(t, n, c, new, {"children"}) \/ UNCHANGED <<shared, history, bounds>>
 BY <1>1 DEF ShiftNephew
<1>3. Wanders(t) /\ pc[t] \notin Settled BY <1>2, SamaritanWanders DEF Settled, Late
<1>4. n \in DOMAIN contents /\ n[1] # 0 BY <1>1, <1>2, SlidesInside
<1>5. CASE Replace(t, n, c, new, {"children"}) BY <1>3, <1>4, <1>5, CleanedAnswers
<1>6. CASE UNCHANGED <<shared, history, bounds>> BY <1>3, <1>6, WalkedAnswers DEF Walked
<1> QED BY <1>2, <1>5, <1>6

LEMMA SlideAnswers ==
 ASSUME MultiwayInv, AnswersHold, MultiwayInv', NEW t \in Threads, Slide(t)
 PROVE  Answers
<1>1. PICK m, n, c, new : /\ m = my[t] /\ n = m.sibling.node /\ c = m.sibling.cts
                          /\ new = Added(c, 1, LastItem(t), Last(m.edit.children), 1)
 OBVIOUS
<1>2. /\ pc[t] = "slide"
      /\ \/ Replace(t, n, c, new, {"keys", "children"}) /\ GoTo(t, "unslide") /\ UNCHANGED my
         \/ SlideReturns(t, m.cts) /\ UNCHANGED <<shared, history, bounds>>
 BY <1>1 DEF Slide
<1>3. n \in DOMAIN contents /\ n[1] # 0 /\ pc[t] \notin Settled
 BY <1>1, <1>2, SlidesInside DEF Settled, Late
<1>4. CASE Replace(t, n, c, new, {"keys", "children"}) /\ GoTo(t, "unslide") /\ UNCHANGED my
 <2>1. Wanders(t) BY <1>4, StillWanders DEF Settled, Late
 <2> QED BY <1>3, <1>4, <2>1, CleanedAnswers
<1>5. CASE SlideReturns(t, m.cts) /\ UNCHANGED <<shared, history, bounds>>
 BY <1>3, <1>5, SlideReturnsWanders, WalkedAnswers DEF Walked
<1> QED BY <1>2, <1>4, <1>5

LEMMA UnslideAnswers ==
 ASSUME MultiwayInv, AnswersHold, MultiwayInv', NEW t \in Threads, Unslide(t)
 PROVE  Answers
<1>1. PICK m, n, c, new : /\ m = my[t] /\ n = m.node /\ c = m.edit
                          /\ new = Removed(c, Len(c.items))
 OBVIOUS
<1>2. /\ pc[t] = "unslide"
      /\ \/ Replace(t, n, c, new, {"keys", "children"}) /\ SlideReturns(t, new)
         \/ SlideReturns(t, c) /\ UNCHANGED <<shared, history, bounds>>
 BY <1>1 DEF Unslide
<1>3. n \in DOMAIN contents /\ n[1] # 0 /\ Wanders(t) /\ pc[t] \notin Settled
 BY <1>1, <1>2, SlidesInside, SlideReturnsWanders DEF Settled, Late
<1>4. CASE Replace(t, n, c, new, {"keys", "children"}) BY <1>3, <1>4, CleanedAnswers
<1>5. CASE UNCHANGED <<shared, history, bounds>> BY <1>3, <1>5, WalkedAnswers DEF Walked
<1> QED BY <1>2, <1>4, <1>5

LEMMA ShiftAnswers ==
 ASSUME MultiwayInv, AnswersHold, MultiwayInv', NEW t \in Threads, Shift(t)
 PROVE  Answers
<1>1. PICK m, n, c : m = my[t] /\ n = m.node /\ c = m.edit OBVIOUS
<1>2. PICK new, parts : /\ new = Adjusted(c, Key(t), m.adjusted)
                        /\ parts = IF Dropping(c, Key(t), m.adjusted) THEN {"keys", "children"} ELSE {"children"}
 OBVIOUS
<1>3. /\ pc[t] = "shift"
      /\ \/ Replace(t, n, c, new, parts) /\ Down(t)
         \/ GoTo(t, "cleanAgain") /\ UNCHANGED <<my, shared, history, bounds>>
 BY <1>1, <1>2 DEF Shift
<1>4. n \in DOMAIN contents /\ n[1] # 0 /\ pc[t] \notin Settled
 BY <1>1, <1>3, AtAdjustFacts DEF Settled, Late
<1>5. CASE Replace(t, n, c, new, parts) /\ Down(t) BY <1>4, <1>5, DownWanders, CleanedAnswers
<1>6. CASE GoTo(t, "cleanAgain") /\ UNCHANGED <<my, shared, history, bounds>>
 <2>1. Walked(t) BY <1>3, <1>6, StillWanders DEF Walked, Settled, Late
 <2> QED BY <2>1, WalkedAnswers
<1> QED BY <1>3, <1>5, <1>6

(* A node that is added above the root is an inner one. *)
LEMMA GrowAnswers ==
 ASSUME MultiwayInv, AnswersHold, MultiwayInv', NEW t \in Threads, Grow(t)
 PROVE  Answers
<1>1. PICK n, l, new : n = my[t].node /\ l = my[t].level /\ new = NewName(l + 1) OBVIOUS
<1>2. PICK c, cts2 : c = Contents(<<INF>>, <<n>>, NoNode) /\ cts2 = Adding(contents, new, c) OBVIOUS
<1>3. /\ pc[t] = "grow" /\ GoTo(t, "growRead") /\ UNCHANGED <<my, history, bounds>>
      /\ contents' = cts2 \/ UNCHANGED shared
 BY <1>1, <1>2 DEF Grow
<1>4. Wanders(t) /\ pc[t] \notin Settled BY <1>3, StillWanders DEF Settled, Late
<1>5. CASE UNCHANGED shared BY <1>3, <1>4, <1>5, WalkedAnswers DEF Walked
<1>6. CASE contents' = cts2
 <2>1. TreeInv(contents, root) /\ TreeInv(cts2, root') BY <1>6 DEF MultiwayInv
 <2>2. l \in Nat
  <3>1. LocalInv(contents, pc[t], my[t], call[t]) BY DEF MultiwayInv, AllLocalInv
  <3> QED BY <1>1, <3>1 DEF LocalInv, Typed, LocalsSet
 <2>3. new \notin DOMAIN contents /\ new[1] # 0
  <3>1. PICK k : k = l + 1 OBVIOUS
  <3>2. k \in Nat /\ k # 0 /\ DOMAIN contents \in SUBSET Names /\ IsFiniteSet(DOMAIN contents)
   BY <2>1, <2>2, <3>1 DEF TreeInv
  <3> QED BY <1>1, <3>1, <3>2, NewNamesAreNew
 <2>4. DOMAIN cts2 = DOMAIN contents \cup {new} /\ \A x \in DOMAIN contents : cts2[x] = contents[x]
  BY <1>2, <2>3 DEF Adding
 <2>5. \A k : Has(cts2, 0, k) <=> Has(contents, 0, k) BY <2>3, <2>4 DEF Has
 <2>6. KeysIn(cts2) = KeysIn(contents)
  <3>1. PICK cts, rt, rt2 : cts = contents /\ rt = root /\ rt2 = root' OBVIOUS
  <3> QED BY <2>1, <2>5, <3>1, SameKeys
 <2> QED BY <1>3, <1>4, <1>6, <2>6, EarlyStays
<1> QED BY <1>3, <1>5, <1>6

-----------------------------------------------------------------------------
(* An update goes on after it has changed the set, or tries again. *)
Continues(t) ==
    /\ Steps(t) /\ pc'[t] \notin {"insert", "remove", "scan"}
    /\ At(pc'[t], my'[t]) \in Late <=> At(pc[t], my[t]) \in Late

LEMMA ContinuesAnswers ==
 ASSUME AnswersHold, NEW t \in Threads, Continues(t), UNCHANGED history, KeysIn(contents') = KeysIn(contents)
 PROVE  Answers
<1>1. Answered(pc[t], my[t], call[t], answers[t], KeysIn(contents)) BY DEF AnswersHold
<1>2. Answered(pc'[t], my'[t], call[t], answers[t], KeysIn(contents))
 BY <1>1 DEF Answered, Continues
<1> QED BY <1>2, SameSet DEF Continues

LEMMA ForwardAnswers ==
 ASSUME MultiwayInv, AnswersHold, NEW t \in Threads, NEW then \in {"insert", "remove", "split", "raise"},
        pc[t] = then, Forward(t, then)
 PROVE  Answers
<1>1. PICK v : v = Forwarded(my[t], then) OBVIOUS
<1>2. GoTo(t, "forward") /\ Become(t, v) /\ UNCHANGED <<shared, history, bounds>>
 BY <1>1, Zenon DEF Forward, Forwarded
<1>3. my[t] \in LocalsSet BY DEF MultiwayInv, OthersInv
<1>4. v.then = then BY <1>1, <1>3, EmptyIsTyped DEF Forwarded, LocalsSet
<1>5. Steps(t) /\ pc'[t] = "forward" /\ my'[t] = v BY <1>2, StepsAs
<1>6. Continues(t) BY <1>4, <1>5 DEF Continues, At, Late
<1>7. KeysIn(contents') = KeysIn(contents) /\ UNCHANGED history BY <1>2 DEF shared
<1> QED BY <1>6, <1>7, ContinuesAnswers

LEMMA FailsAnswers ==
 ASSUME MultiwayInv, AnswersHold, NEW t \in Threads,
        InsertFails(t) \/ RemoveFails(t) \/ SplitFails(t) \/ RaiseFails(t)
 PROVE  Answers
<1>1. CASE InsertFails(t) BY <1>1, ForwardAnswers DEF InsertFails
<1>2. CASE RemoveFails(t) BY <1>2, ForwardAnswers DEF RemoveFails
<1>3. CASE SplitFails(t) BY <1>3, ForwardAnswers DEF SplitFails
<1>4. CASE RaiseFails(t) BY <1>4, ForwardAnswers DEF RaiseFails
<1> QED BY <1>1, <1>2, <1>3, <1>4

LEMMA LevelDoneIsLate ==
 ASSUME MultiwayInv, NEW t \in Threads, pc[t] \in {"split", "raise"}, NEW r, LevelDone(t, r)
 PROVE  Continues(t)
<1>1. PICK m : (GoTo(t, "done") \/ GoTo(t, "split")) /\ Become(t, m) BY Zenon DEF LevelDone
<1>2. CASE GoTo(t, "done") BY <1>1, <1>2, StepsAs DEF Continues, At, Late
<1>3. CASE GoTo(t, "split") BY <1>1, <1>3, StepsAs DEF Continues, At, Late
<1> QED BY <1>1, <1>2, <1>3

LEMMA IndexNothingAnswers ==
 ASSUME MultiwayInv, AnswersHold, NEW t \in Threads, SplitNothing(t) \/ RaiseNothing(t)
 PROVE  Answers
<1>1. PICK r : r = my[t].results OBVIOUS
<1>2. pc[t] \in {"split", "raise"} /\ LevelDone(t, r) /\ UNCHANGED <<shared, history, bounds>>
 BY <1>1 DEF SplitNothing, RaiseNothing
<1>3. KeysIn(contents') = KeysIn(contents) /\ UNCHANGED history BY <1>2 DEF shared
<1> QED BY <1>2, <1>3, LevelDoneIsLate, ContinuesAnswers

LEMMA InsertOneLevelAnswers ==
 ASSUME MultiwayInv, AnswersHold, MultiwayInv', NEW t \in Threads, InsertOneLevel(t)
 PROVE  Answers
<1>1. PICK m, n, c : m = my[t] /\ n = m.node /\ c = m.cts OBVIOUS
<1>2. PICK new, r : /\ new = Added(c, Index(c, Key(t)), Key(t), m.right, Index(c, Key(t)) + 1)
                    /\ r = [m.results EXCEPT ![m.level + 1] = Search(n, new)]
 OBVIOUS
<1>3. pc[t] = "raise" /\ Replace(t, n, c, new, {"keys", "children"}) /\ LevelDone(t, r)
 BY <1>1, <1>2, Zenon DEF InsertOneLevel
<1>4. n \in DOMAIN contents /\ n[1] # 0 BY <1>1, <1>3, AtIndexFacts
<1>5. PICK cts2 : Replaced(n, new, cts2) BY <1>3, <1>4, ReplacedIs
<1>6. TreeInv(contents, root) /\ contents' = cts2 /\ OneNode(contents, cts2, n, new) /\ TreeInv(cts2, root)
 BY <1>5 DEF MultiwayInv, Replaced
<1>7. KeysIn(contents') = KeysIn(contents)
 <2>1. PICK cts, rt : cts = contents /\ rt = root OBVIOUS
 <2>2. KeysIn(cts2) = KeysIn(cts) BY <1>4, <1>6, <2>1, InnerKeys
 <2> QED BY <1>6, <2>1, <2>2
<1>8. UNCHANGED history BY <1>3, <1>7, ReplacedQuietly DEF Replace
<1> QED BY <1>3, <1>7, <1>8, LevelDoneIsLate, ContinuesAnswers

(* The two parts of a leaf hold what it has held. *)
LEMMA SplitKeepsKeys ==
 ASSUME NEW cts, NEW rt, TreeInv(cts, rt), NEW cts2, TreeInv(cts2, rt),
        NEW n, NEW right, NEW i, NEW v, SplitAt(cts, cts2, n, right, i, v)
 PROVE  KeysIn(cts2) = KeysIn(cts)
<1>1. PICK D, l, c : D = DOMAIN cts /\ l = n[1] /\ c = cts[n] OBVIOUS
<1>2. PICK a, b : a = LeftPart(c, i, right) /\ b = RightPart(c, i) OBVIOUS
<1>3. /\ n \in D /\ i \in 1 .. Len(c.items) - 1 /\ v = c.items[i] /\ right \notin D /\ right[1] = l
      /\ DOMAIN cts2 = D \cup {right} /\ cts2[n] = a /\ cts2[right] = b
      /\ \A x \in D \ {n} : cts2[x] = cts[x]
 BY <1>1, <1>2 DEF SplitAt
<1>4. D \in SUBSET Names /\ l \in Nat /\ Shape(D, l, c) BY <1>1, <1>3, NodeRead
<1>5. LeftAs(l, c, v, right, a) /\ RightAs(l, c, v, b) BY <1>2, <1>3, <1>4, LeftHolds, RightHolds
<1>6. v \in Int /\ \A w : Holds(c, w) => w \in Int
 <2>1. Len(c.items) \in Nat /\ \A j \in 1 .. Len(c.items) : c.items[j] \in Int
  BY ONLY <1>4, ShapeFacts, MultiwayAssumption
 <2> QED BY <1>3, <2>1 DEF Holds
<1>7. \A w : Holds(c, w) <=> Holds(a, w) \/ Holds(b, w) BY <1>5, <1>6 DEF LeftAs, RightAs
<1>8. \A k : Has(cts2, 0, k) <=> Has(cts, 0, k)
 <2>1. ASSUME NEW k, Has(cts2, 0, k) PROVE Has(cts, 0, k)
  <3>1. PICK x \in DOMAIN cts2 : x[1] = 0 /\ Holds(cts2[x], k) BY <2>1 DEF Has
  <3>2. CASE x \in {n, right} BY <1>1, <1>3, <1>7, <3>1, <3>2 DEF Has
  <3>3. CASE x \notin {n, right} BY <1>1, <1>3, <3>1, <3>3 DEF Has
  <3> QED BY <3>2, <3>3
 <2>2. ASSUME NEW k, Has(cts, 0, k) PROVE Has(cts2, 0, k)
  <3>1. PICK x \in D : x[1] = 0 /\ Holds(cts[x], k) BY <1>1, <2>2 DEF Has
  <3>2. CASE x = n BY <1>1, <1>3, <1>7, <3>1, <3>2 DEF Has
  <3>3. CASE x # n BY <1>1, <1>3, <3>1, <3>3 DEF Has
  <3> QED BY <3>2, <3>3
 <2> QED BY <2>1, <2>2
<1> QED BY <1>8, SameKeys

LEMMA SplitOneLevelAnswers ==
 ASSUME MultiwayInv, AnswersHold, MultiwayInv', NEW t \in Threads, SplitOneLevel(t)
 PROVE  Answers
<1>1. PICK m, key, n, c : m = my[t] /\ key = call[t].key /\ n = m.node /\ c = m.cts OBVIOUS
<1>2. PICK i, l, rt, D : i = Index(c, key) /\ l = m.level /\ rt = root /\ D = DOMAIN contents
 OBVIOUS
<1>3. PICK right, up : right = NewName(l) /\ up = m.results[l + 1] OBVIOUS
<1>4. PICK part, new : part = RightPart(c, i) /\ new = LeftPart(c, i, right) OBVIOUS
<1>5. PICK cts, cts2 : cts = Adding(contents, right, part) /\ cts2 = [cts EXCEPT ![n] = new] OBVIOUS
<1>6. PICK v : v = SplitLocals(m, up, right) OBVIOUS
<1>7. /\ pc[t] = "split" /\ ~Unsplittable(c, key) /\ CanReplace(n, c)
      /\ ReplaceIn(cts, t, n, c, new, {"keys", "children"}) /\ GoTo(t, "raise") /\ Become(t, v)
 BY <1>1, <1>2, <1>3, <1>4, <1>5, <1>6, Zenon DEF SplitOneLevel, Key, SplitLocals
<1>8. contents' = cts2 /\ root' = rt BY <1>2, <1>5, <1>7, Zenon DEF ReplaceIn
<1>9. /\ TreeInv(contents, rt) /\ key \in Keys /\ n \in D /\ n[1] = l /\ Shape(D, l, c) /\ l \in Nat
 BY <1>1, <1>2, <1>7, AtIndexFacts
<1>10. D \in SUBSET Names /\ IsFiniteSet(D) /\ TreeInv(cts2, rt)
 BY <1>2, <1>8, <1>9 DEF TreeInv, MultiwayInv
<1>11. i \in 1 .. Len(c.items) - 1 BY <1>2, <1>7, <1>9, <1>10, SplittableFacts
<1>12. right \notin D /\ right \in Names /\ right[1] = n[1]
 BY <1>2, <1>3, <1>9, <1>10, NewNamesAreNew
<1>13. /\ DOMAIN cts2 = D \cup {right} /\ cts2[n] = new /\ cts2[right] = part
       /\ \A x \in D \ {n} : cts2[x] = contents[x]
 <2>1. DOMAIN cts = D \cup {right} /\ cts[right] = part /\ \A x \in D : cts[x] = contents[x]
  BY <1>2, <1>5, <1>12 DEF Adding
 <2>2. cts = [x \in D \cup {right} |-> cts[x]] BY <1>2, <1>5 DEF Adding
 <2> QED BY <1>5, <1>9, <1>12, <2>1, <2>2
<1>14. SplitAt(contents, cts2, n, right, i, c.items[i])
 <2>1. c = contents[n] BY <1>7 DEF CanReplace
 <2> QED BY <1>2, <1>4, <1>9, <1>11, <1>12, <1>13, <2>1 DEF SplitAt
<1>15. KeysIn(contents') = KeysIn(contents)
 <2>1. PICK x : x = contents OBVIOUS
 <2>2. KeysIn(cts2) = KeysIn(x) BY <1>9, <1>10, <1>14, <2>1, SplitKeepsKeys
 <2> QED BY <1>8, <2>1, <2>2
<1>16. UNCHANGED history BY <1>7, <1>15, ReplacedQuietly
<1>17. Continues(t) BY <1>7, StepsAs DEF Continues, At, Late
<1> QED BY <1>15, <1>16, <1>17, ContinuesAnswers

-----------------------------------------------------------------------------
(* What a call finds at the leaf is so at this moment. *)
LEMMA LeafIsRight ==
 ASSUME NEW p, Ordered(p), NEW t \in Threads, pc[t] # "idle", pc[t] # "done",
        NEW n, n = my[t].node, n \in DOMAIN contents, n[1] = 0, NEW key, key = call[t].key,
        ~Beyond(contents[n], key)
 PROVE  /\ OnlyHere(contents, n, key) /\ (key \in KeysIn(contents) <=> Found(contents[n], key))
        /\ key \in Keys
<1>1. PICK m : m = my[t] OBVIOUS
<1>2. Mine(t, p, m, key) BY <1>1, MineHere
<1>3. PICK cts, rt : cts = contents /\ rt = root OBVIOUS
<1>4. TreeInv(cts, rt) /\ OrderInv(cts, p, rt) /\ key \in Keys BY <1>2, <1>3 DEF Mine
<1>5. n # NoNode BY <1>3, <1>4, NodeRead
<1>6. Low(cts, p, n, key - 1) BY <1>1, <1>2, <1>3, <1>5 DEF Mine
<1> QED BY <1>3, <1>4, <1>6, KeyHere

LEMMA LeafReadAnswers ==
 ASSUME MultiwayInv, AnswersHold, MultiwayInv', NEW t \in Threads, Steps(t), UNCHANGED <<shared, history>>,
        At(pc[t], my[t]) \notin Late, pc'[t] \in {"insert", "remove"}, NEW key, key = call[t].key,
        key \in KeysIn(contents) <=> Found(my'[t].cts, key)
 PROVE  Answers
<1>1. call' = call /\ KeysIn(contents') = KeysIn(contents) /\ UNCHANGED history
 BY DEF shared, history
<1>2. PICK l, m, c, a, S : l = pc'[t] /\ m = my'[t] /\ c = call[t] /\ a = answers[t] /\ S = KeysIn(contents)
 OBVIOUS
<1>3. c.op = IF l = "insert" THEN "add" ELSE "remove"
 <2>1. LocalInv(contents', l, m, c) BY <1>1, <1>2 DEF MultiwayInv, AllLocalInv
 <2>2. At(l, m) = l BY <1>2 DEF At
 <2> QED BY <1>2, <2>1, <2>2 DEF LocalInv, Placed, AtLeaf
<1>4. ~Abstract!Applied(c, a) /\ Abstract!Observed(c, S) \subseteq a
 <2>1. Answered(pc[t], my[t], c, a, S) BY <1>2 DEF AnswersHold
 <2> QED BY <2>1 DEF Answered
<1>5. Answered(l, m, c, a, S)
 <2>1. At(l, m) \notin Late /\ l \in {"insert", "remove"} BY <1>2 DEF At, Late
 <2>2. CASE l = "insert"
  <3>1. Found(m.cts, c.key) => Abstract!Observed(c, S) = {FALSE}
   BY <1>2, <1>3, <2>2 DEF Abstract!Observed
  <3> QED BY <1>4, <2>1, <2>2, <3>1 DEF Answered
 <2>3. CASE l = "remove"
  <3>1. ~Found(m.cts, c.key) => Abstract!Observed(c, S) = {FALSE}
   BY <1>2, <1>3, <2>3 DEF Abstract!Observed
  <3> QED BY <1>4, <2>1, <2>3, <3>1 DEF Answered
 <2> QED BY <2>1, <2>2, <2>3
<1> QED BY <1>1, <1>2, <1>5, SameSet

LEMMA VisitLeafAnswers ==
 ASSUME NEW p, Ordered(p), AnswersHold, MultiwayInv', NEW t \in Threads, VisitLeaf(t)
 PROVE  Answers
<1>1. PICK m, key, n, c : m = my[t] /\ key = call[t].key /\ n = m.node /\ c = contents[n] OBVIOUS
<1>2. PICK l, o : l = (IF Removing(t) THEN "remove" ELSE "insert") /\ o = Outer(t) OBVIOUS
<1>3. PICK v : v = AtTheLeaf(o, n, c) OBVIOUS
<1>4. /\ pc[t] = "visit" /\ ~Beyond(c, key) /\ IsLeaf(c) /\ UNCHANGED <<shared, history, bounds>>
      /\ GoTo(t, l) /\ Become(t, v)
 BY <1>1, <1>2, <1>3, Zenon DEF VisitLeaf, AtTheLeaf, Key
<1>5. Mine(t, p, m, key) /\ MultiwayInv BY <1>1, <1>4, MineHere DEF Ordered
<1>6. TreeInv(contents, root) /\ m \in LocalsSet /\ n \in DOMAIN contents
 BY <1>1, <1>4, <1>5 DEF Mine, Placed
<1>7. n[1] = 0 /\ c \in ContentsSet /\ n \in Names
 BY <1>1, <1>4, <1>6, NodeRead, ShapeFacts DEF Shape
<1>8. o \in LocalsSet BY <1>1, <1>2, <1>6, OuterIs
<1>9. v.cts = c BY <1>3, <1>7, <1>8 DEF AtTheLeaf, LocalsSet, NodeOrNone
<1>10. Steps(t) /\ pc'[t] = l /\ my'[t] = v BY <1>4, <1>5, StepsAs
<1>11. key \in KeysIn(contents) <=> Found(c, key) BY <1>1, <1>4, <1>6, <1>7, LeafIsRight
<1>12. At(pc[t], my[t]) \notin Late /\ l \in {"insert", "remove"} BY <1>2, <1>4 DEF At, Late
<1>13. UNCHANGED <<shared, history>> BY <1>4
<1> QED BY <1>1, <1>5, <1>9, <1>10, <1>11, <1>12, <1>13, LeafReadAnswers

LEMMA MoveForwardAnswers ==
 ASSUME NEW p, Ordered(p), AnswersHold, MultiwayInv', NEW t \in Threads, MoveForward(t)
 PROVE  Answers
<1>1. PICK m, key, n, c, l : m = my[t] /\ key = call[t].key /\ n = m.node /\ c = contents[n] /\ l = m.then
 OBVIOUS
<1>2. pc[t] = "forward" /\ UNCHANGED <<shared, history, bounds>> BY DEF MoveForward
<1>3. Mine(t, p, m, key) /\ MultiwayInv BY <1>1, <1>2, MineHere DEF Ordered
<1>4. m \in LocalsSet /\ TreeInv(contents, root) /\ Placed(contents, "forward", m, call[t])
 BY <1>2, <1>3 DEF Mine
<1>5. l \in {"insert", "remove", "split", "raise"} /\ At("forward", m) = l
 BY <1>1, <1>4 DEF Placed, At
<1>6. n \in DOMAIN contents /\ (l \in {"insert", "remove"} => n[1] = 0)
 <2>1. CASE l \in {"insert", "remove"} BY <1>1, <1>4, <1>5, <2>1 DEF Placed, AtLeaf, On
 <2>2. CASE l \in {"split", "raise"} BY <1>1, <1>4, <1>5, <2>2 DEF Placed, AtIndex, On
 <2> QED BY <1>5, <2>1, <2>2
<1>7. KeysIn(contents') = KeysIn(contents) /\ UNCHANGED history /\ UNCHANGED <<shared, history>>
 BY <1>2 DEF shared
<1>8. CASE Beyond(c, key)
 <2>1. PICK v : v = [m EXCEPT !.node = c.link] OBVIOUS
 <2>2. Become(t, v) /\ UNCHANGED pc BY <1>1, <1>8, <2>1 DEF MoveForward, Key
 <2>3. v.then = m.then BY <1>4, <2>1 DEF LocalsSet
 <2>4. Steps(t) /\ pc'[t] = "forward" /\ my'[t] = v BY <1>2, <1>3, <2>2, StepsHere
 <2>5. Continues(t) BY <1>1, <1>2, <2>3, <2>4 DEF Continues, At
 <2> QED BY <1>7, <2>5, ContinuesAnswers
<1>9. CASE ~Beyond(c, key)
 <2>1. PICK v : v = Resumed(m, c) OBVIOUS
 <2>2. GoTo(t, l) /\ Become(t, v) BY <1>1, <1>9, <2>1, Zenon DEF MoveForward, Key, Resumed
 <2>3. Steps(t) /\ pc'[t] = l /\ my'[t] = v BY <1>3, <2>2, StepsAs
 <2>4. CASE l \in {"split", "raise"}
  <3>1. Continues(t) BY <1>1, <1>2, <1>5, <2>3, <2>4 DEF Continues, At, Late
  <3> QED BY <1>7, <3>1, ContinuesAnswers
 <2>5. CASE l \in {"insert", "remove"}
  <3>1. c \in ContentsSet BY <1>1, <1>4, <1>6, NodeRead DEF Shape
  <3>2. v.cts = c BY <1>4, <2>1, <3>1 DEF LocalsSet, Resumed
  <3>3. key \in KeysIn(contents) <=> Found(c, key) BY <1>1, <1>2, <1>6, <1>9, <2>5, LeafIsRight
  <3>4. At(pc[t], my[t]) \notin Late BY <1>1, <1>2, <1>5, <2>5 DEF Late
  <3> QED BY <1>1, <1>3, <1>7, <2>3, <2>5, <3>2, <3>3, <3>4, LeafReadAnswers
 <2> QED BY <1>5, <2>4, <2>5
<1> QED BY <1>8, <1>9

LEMMA WalkAnswers ==
 ASSUME NEW p, Ordered(p), AnswersHold, MultiwayInv', NEW t \in Threads, Walk(t)
 PROVE  Answers
<1>1. PICK m, key, n, c : m = my[t] /\ key = call[t].key /\ n = m.node /\ c = contents[n] OBVIOUS
<1>2. PICK v, a, w : v = [m EXCEPT !.node = c.link] /\ a = [m EXCEPT !.cts = c] /\ w = [a EXCEPT !.edit = c]
 OBVIOUS
<1>3. MultiwayInv /\ pc[t] = "walk" /\ UNCHANGED <<shared, history, bounds>> BY DEF Walk, Ordered
<1>4. Mine(t, p, m, key) BY <1>1, <1>3, MineHere
<1>5. /\ TreeInv(contents, root) /\ m \in LocalsSet /\ n \in DOMAIN contents /\ n[1] = m.level
 BY <1>1, <1>3, <1>4 DEF Mine, Placed
<1>6. c \in ContentsSet BY <1>1, <1>5, NodeRead DEF Shape
<1>7. pc[t] \notin Settled /\ At(pc[t], my[t]) \notin Late /\ UNCHANGED <<shared, history>>
 BY <1>3 DEF Settled, Late, At
<1>8. CASE Beyond(c, key)
 <2>1. Become(t, v) /\ UNCHANGED pc BY <1>1, <1>2, <1>8 DEF Walk, Key
 <2> QED BY <1>3, <1>7, <2>1, StepsHere, WalkedAnswers DEF Walked, Wanders
<1>9. CASE ~Beyond(c, key) /\ m.level = 0
 <2>1. GoTo(t, "insert") /\ Become(t, a) BY <1>1, <1>2, <1>9 DEF Walk, Key
 <2>2. Steps(t) /\ pc'[t] = "insert" /\ my'[t] = a BY <1>3, <2>1, StepsAs
 <2>3. a.cts = c BY <1>2, <1>5, <1>6 DEF LocalsSet
 <2>4. key \in KeysIn(contents) <=> Found(c, key) BY <1>1, <1>3, <1>5, <1>9, LeafIsRight
 <2> QED BY <1>1, <1>3, <1>7, <2>2, <2>3, <2>4, LeafReadAnswers
<1>10. CASE ~Beyond(c, key) /\ m.level # 0 /\ c.link = NoNode
 <2>1. SamaritanReturns(t, c, c) BY <1>1, <1>10 DEF Walk, Key
 <2> QED BY <1>3, <1>7, <2>1, SamaritanWanders, WalkedAnswers DEF Walked
<1>11. CASE ~Beyond(c, key) /\ m.level # 0 /\ c.link # NoNode
 <2>1. PICK x : x = [m EXCEPT !.cts = c, !.edit = c] OBVIOUS
 <2>2. PushRightFrom(t, x, c.link, EMPTY, "sibling") BY <1>1, <1>11, <2>1, Zenon DEF Walk, Key
 <2> QED BY <1>3, <1>7, <2>2, PushWanders, WalkedAnswers DEF Walked
<1> QED BY <1>8, <1>9, <1>10, <1>11

-----------------------------------------------------------------------------
(* A key is added or removed. *)
LEMMA KeyAdded ==
 ASSUME NEW cts, NEW rt, TreeInv(cts, rt), NEW cts2, TreeInv(cts2, rt), NEW key \in Keys,
        NEW n, n[1] = 0, NEW new, OneNode(cts, cts2, n, new), AddedHas(cts[n], key, new)
 PROVE  KeysIn(cts2) = KeysIn(cts) \cup {key}
<1>1. \A w : Holds(new, w) <=> Holds(cts[n], w) \/ w = key BY DEF AddedHas
<1>2. \A k : Has(cts2, 0, k) <=> Has(cts, 0, k) \/ k = key BY <1>1 DEF Has, OneNode
<1>3. KeysIn(cts2) \subseteq Keys /\ KeysIn(cts) \subseteq Keys BY DEF KeysIn
<1>4. \A k \in Keys : k \in KeysIn(cts2) <=> k \in KeysIn(cts) \/ k = key BY <1>2, KeysAre
<1> QED BY <1>3, <1>4

LEMMA KeyRemoved ==
 ASSUME NEW cts, NEW rt, TreeInv(cts, rt), NEW cts2, TreeInv(cts2, rt), NEW key \in Keys,
        NEW n, n[1] = 0, NEW new, OneNode(cts, cts2, n, new), LosesItem(cts[n], new, key),
        OnlyHere(cts, n, key)
 PROVE  KeysIn(cts2) = KeysIn(cts) \ {key}
<1>1. \A w : Holds(new, w) <=> Holds(cts[n], w) /\ w # key BY DEF LosesItem
<1>2. \A k : Has(cts2, 0, k) <=> Has(cts, 0, k) /\ k # key
 <2>1. ASSUME NEW k, Has(cts2, 0, k) PROVE Has(cts, 0, k) /\ k # key
  <3>1. PICK x \in DOMAIN cts : x[1] = 0 /\ Holds(cts2[x], k) BY <2>1 DEF Has, OneNode
  <3>2. CASE x = n BY <1>1, <3>1, <3>2 DEF Has, OneNode
  <3>3. CASE x # n BY <3>1, <3>3 DEF Has, OneNode, OnlyHere
  <3> QED BY <3>2, <3>3
 <2>2. ASSUME NEW k, Has(cts, 0, k), k # key PROVE Has(cts2, 0, k) BY <1>1, <2>2 DEF Has, OneNode
 <2> QED BY <2>1, <2>2
<1>3. KeysIn(cts2) \subseteq Keys /\ KeysIn(cts) \subseteq Keys BY DEF KeysIn
<1>4. \A k \in Keys : k \in KeysIn(cts2) <=> k \in KeysIn(cts) /\ k # key BY <1>2, KeysAre
<1> QED BY <1>3, <1>4

(* The other calls may answer what is right now too. *)
LEMMA OthersAnswer ==
 ASSUME NEW l, NEW m, NEW c, c \in Abstract!SetCalls \cup {NoCall}, NEW a, NEW S, NEW S2, NEW a2,
        Answered(l, m, c, a, S),
        a2 = IF Abstract!Applied(c, a) THEN a ELSE a \cup Abstract!Observed(c, S2)
 PROVE  Answered(l, m, c, a2, S2)
<1>1. a \subseteq a2 OBVIOUS
<1>2. c.op # "contains" => TRUE \notin Abstract!Observed(c, S2) BY DEF Abstract!Observed
<1>3. Abstract!Applied(c, a) <=> Abstract!Applied(c, a2) BY <1>1, <1>2 DEF Abstract!Applied
<1>4. ~Abstract!Applied(c, a2) => Abstract!Observed(c, S2) \subseteq a2 BY <1>3
<1> QED BY <1>1, <1>3, <1>4 DEF Answered

LEMMA ChangeAnswers ==
 ASSUME MultiwayInv, AnswersHold, NEW t \in Threads, Steps(t), pc'[t] \in Late,
        call[t].op # "contains", UNCHANGED call,
        answers' = Abstract!AnswersAfter(t, KeysIn(contents'))
 PROVE  AnswersHold'
<1>1. PICK S2 : S2 = KeysIn(contents') OBVIOUS
<1>2. call \in [Threads -> Abstract!SetCalls \cup {NoCall}]
 BY DEF MultiwayInv, OthersInv, Abstract!SetTypeOK, NoCall
<1>3. ASSUME NEW u \in Threads
      PROVE  Answered(pc'[u], my'[u], call[u], answers'[u], S2)
 <2>1. CASE u = t
  <3>1. answers'[u] = {TRUE} BY <1>1, <2>1 DEF Abstract!AnswersAfter
  <3>2. pc'[u] \in Late /\ At(pc'[u], my'[u]) = pc'[u] /\ pc'[u] \notin {"scan", "insert", "remove"}
   BY <2>1 DEF At, Late
  <3> QED BY <2>1, <3>1, <3>2 DEF Answered, Abstract!Applied
 <2>2. CASE u # t
  <3>1. answers'[u] = IF Abstract!Applied(call[u], answers[u]) THEN answers[u]
                      ELSE answers[u] \cup Abstract!Observed(call[u], S2)
   BY <1>1, <2>2 DEF Abstract!AnswersAfter
  <3>2. Answered(pc[u], my[u], call[u], answers[u], KeysIn(contents)) BY DEF AnswersHold
  <3>3. Answered(pc[u], my[u], call[u], answers'[u], S2) BY <1>2, <3>1, <3>2, OthersAnswer
  <3> QED BY <2>2, <3>3 DEF Steps
 <2> QED BY <2>1, <2>2
<1> QED BY <1>1, <1>3 DEF AnswersHold

LEMMA ReplacedLoudly ==
 ASSUME NEW t, NEW n, NEW c, NEW new, NEW parts, Replace(t, n, c, new, parts),
        KeysIn(contents') # KeysIn(contents)
 PROVE  answers' = Abstract!AnswersAfter(t, KeysIn(contents')) /\ UNCHANGED <<call, result>>
<1>1. PICK cts2 : cts2 = [contents EXCEPT ![n] = new] OBVIOUS
<1>2. /\ contents' = cts2 /\ UNCHANGED <<call, result, bounds>>
      /\ KeysIn(cts2) # KeysIn(contents) => answers' = Abstract!AnswersAfter(t, KeysIn(cts2))
 BY <1>1, Zenon DEF Replace, ReplaceIn
<1> QED BY <1>2

LEMMA InsertAnswers ==
 ASSUME NEW p, Ordered(p), AnswersHold, MultiwayInv', NEW t \in Threads, Insert(t)
 PROVE  Answers
<1>1. PICK m, key, n, c : m = my[t] /\ key = call[t].key /\ n = m.node /\ c = m.cts OBVIOUS
<1>2. PICK new, l : /\ new = Added(c, Index(c, key), key, NoNode, 1)
                    /\ l = IF m.height = 0 THEN "done" ELSE "split"
 OBVIOUS
<1>3. PICK v : v = [m EXCEPT !.cts = new] OBVIOUS
<1>4. /\ pc[t] = "insert" /\ ~Found(c, key) /\ CanReplace(n, c)
      /\ Replace(t, n, c, new, {"keys", "children"}) /\ GoTo(t, l) /\ Become(t, v)
 BY <1>1, <1>2, <1>3 DEF Insert, Key
<1>5. MultiwayInv /\ c = contents[n] BY <1>4 DEF Ordered, CanReplace
<1>5a. MultiwayInv BY <1>5
<1>6. PICK D : D = DOMAIN contents OBVIOUS
<1>7. /\ TreeInv(contents, root) /\ key \in Keys /\ n \in D /\ n[1] = 0
      /\ HasPlace(D, 0, c, key) /\ D \in SUBSET Names /\ call[t].op = "add"
 <2>1. /\ TreeInv(contents, root) /\ key \in Keys /\ n \in D /\ n[1] = 0
       /\ HasPlace(D, 0, c, key) /\ D \in SUBSET Names
  BY <1>1, <1>4, <1>5a, <1>6, AtLeafFacts
 <2>2. call[t].op = IF pc[t] = "insert" THEN "add" ELSE "remove" BY <1>4, <1>5, AtLeafFacts
 <2> QED BY <1>4, <2>1, <2>2
<1>8. AddedHas(c, key, new) BY <1>2, <1>4, <1>7, AddedHolds
<1>9. PICK cts2 : Replaced(n, new, cts2) BY <1>4, <1>6, <1>7, ReplacedIs
<1>10. contents' = cts2 /\ OneNode(contents, cts2, n, new) /\ TreeInv(cts2, root)
 BY <1>9 DEF Replaced
<1>11. key \notin KeysIn(contents) BY <1>1, <1>4, <1>5, <1>6, <1>7, LeafIsRight DEF HasPlace
<1>12. KeysIn(contents') = KeysIn(contents) \cup {key}
 <2>1. PICK cts, rt : cts = contents /\ rt = root OBVIOUS
 <2>2. KeysIn(cts2) = KeysIn(cts) \cup {key} BY <1>5, <1>7, <1>8, <1>10, <2>1, KeyAdded
 <2> QED BY <1>10, <2>1, <2>2
<1>13. answers' = Abstract!AnswersAfter(t, KeysIn(contents')) /\ UNCHANGED <<call, result>>
 BY <1>4, <1>11, <1>12, ReplacedLoudly
<1>14. Steps(t) /\ pc'[t] \in Late BY <1>2, <1>4, <1>5, StepsAs DEF Late
<1>15. ~Abstract!Applied(call[t], answers[t])
 <2>1. Answered("insert", m, call[t], answers[t], KeysIn(contents)) BY <1>1, <1>4 DEF AnswersHold
 <2> QED BY <2>1 DEF Answered, At, Late
<1>16. Abstract!SetAdd(t) BY <1>1, <1>7, <1>11, <1>12, <1>13, <1>15 DEF Abstract!SetAdd
<1>17. AnswersHold' BY <1>5, <1>7, <1>13, <1>14, ChangeAnswers
<1> QED BY <1>16, <1>17, RefinesAs DEF Answers

LEMMA RemoveItemAnswers ==
 ASSUME NEW p, Ordered(p), AnswersHold, MultiwayInv', NEW t \in Threads, RemoveItem(t)
 PROVE  Answers
<1>1. PICK m, key, n, c : m = my[t] /\ key = call[t].key /\ n = m.node /\ c = m.cts OBVIOUS
<1>2. PICK i, new : i = Index(c, key) /\ new = Removed(c, i) OBVIOUS
<1>3. /\ pc[t] = "remove" /\ Found(c, key) /\ CanReplace(n, c)
      /\ Replace(t, n, c, new, {"keys", "children"}) /\ GoTo(t, "done") /\ Become(t, NoLocals)
 BY <1>1, <1>2 DEF RemoveItem, Key
<1>4. MultiwayInv /\ c = contents[n] BY <1>3 DEF Ordered, CanReplace
<1>4a. MultiwayInv BY <1>4
<1>5. PICK D, l : D = DOMAIN contents /\ l = 0 OBVIOUS
<1>6. /\ TreeInv(contents, root) /\ key \in Keys /\ n \in D /\ n[1] = 0
      /\ HasPlace(D, l, c, key) /\ D \in SUBSET Names /\ call[t].op = "remove"
 <2>1. /\ TreeInv(contents, root) /\ key \in Keys /\ n \in D /\ n[1] = 0
       /\ HasPlace(D, l, c, key) /\ D \in SUBSET Names
  BY <1>1, <1>3, <1>4a, <1>5, AtLeafFacts
 <2>2. call[t].op = IF pc[t] = "insert" THEN "add" ELSE "remove" BY <1>3, <1>4, AtLeafFacts
 <2> QED BY <1>3, <2>1, <2>2
<1>7. i \in 1 .. Len(c.items) /\ c.items[i] = key
 BY <1>2, <1>3, <1>5, <1>6, FoundIsNotLast DEF HasPlace, Found
<1>8. LosesItem(c, new, key) BY <1>2, <1>5, <1>6, <1>7, RemovedHolds DEF HasPlace
<1>9. PICK cts2 : Replaced(n, new, cts2) BY <1>3, <1>5, <1>6, ReplacedIs
<1>10. contents' = cts2 /\ OneNode(contents, cts2, n, new) /\ TreeInv(cts2, root)
 BY <1>9 DEF Replaced
<1>11. key \in KeysIn(contents) /\ OnlyHere(contents, n, key)
 BY <1>1, <1>3, <1>4, <1>5, <1>6, LeafIsRight DEF HasPlace
<1>12. KeysIn(contents') = KeysIn(contents) \ {key}
 <2>1. PICK cts, rt : cts = contents /\ rt = root OBVIOUS
 <2>2. KeysIn(cts2) = KeysIn(cts) \ {key} BY <1>4, <1>6, <1>8, <1>10, <1>11, <2>1, KeyRemoved
 <2> QED BY <1>10, <2>1, <2>2
<1>13. answers' = Abstract!AnswersAfter(t, KeysIn(contents')) /\ UNCHANGED <<call, result>>
 BY <1>3, <1>11, <1>12, ReplacedLoudly
<1>14. Steps(t) /\ pc'[t] \in Late BY <1>3, <1>4, StepsAs DEF Late
<1>15. ~Abstract!Applied(call[t], answers[t])
 <2>1. Answered("remove", m, call[t], answers[t], KeysIn(contents)) BY <1>1, <1>3 DEF AnswersHold
 <2> QED BY <2>1 DEF Answered, At, Late
<1>16. Abstract!SetRemove(t) BY <1>1, <1>6, <1>11, <1>12, <1>13, <1>15 DEF Abstract!SetRemove
<1>17. AnswersHold' BY <1>4, <1>6, <1>13, <1>14, ChangeAnswers
<1> QED BY <1>16, <1>17, RefinesAs DEF Answers

-----------------------------------------------------------------------------
(* Calls return and start. *)
LEMMA ReturnKeepsKeys ==
 ASSUME NEW p, Ordered(p), MultiwayInv', NEW t, NEW r, Return(t, r)
 PROVE  KeysIn(contents') = KeysIn(contents)
<1>1. CASE contents' = contents BY <1>1
<1>2. CASE contents' = Forget(contents) /\ root' = root
 <2>1. PICK cts, rt, cts2 : cts = contents /\ rt = root /\ cts2 = contents' OBVIOUS
 <2>2. TreeInv(cts, rt) /\ OrderInv(cts, p, rt) /\ TreeInv(cts2, rt)
  BY <1>2, <2>1 DEF Ordered, MultiwayInv
 <2>3. Remembers(cts, cts2, rt) BY <1>2, <2>1, <2>2, ForgetIs
 <2>4. PICK R : R = DOMAIN cts2 OBVIOUS
 <2>5. /\ R \subseteq DOMAIN cts /\ rt.node \in R /\ Closed(cts, R)
       /\ \A x \in R : cts2[x].items = cts[x].items
  BY <2>3, <2>4 DEF Remembers
 <2>6. LevelReached(cts, R, 0)
  <3>1. \A l \in 0 .. rt.height : LevelReached(cts, R, l) BY <2>2, <2>5, AllReached
  <3>2. rt.height \in Nat BY <2>2, NodeRead DEF TreeInv
  <3> QED BY <3>1, <3>2
 <2>7. \A x \in R : \A w : Holds(cts2[x], w) <=> Holds(cts[x], w) BY <2>5 DEF Holds
 <2>8. AllEnd(cts) BY <2>2, TreeEnds
 <2>9. ASSUME NEW k, Has(cts, 0, k) PROVE Has(cts2, 0, k)
  <3>1. PICK x \in DOMAIN cts : x[1] = 0 /\ Holds(cts[x], k) BY <2>9 DEF Has
  <3>2. Full(cts[x]) BY <2>8, <3>1 DEF AllEnd, Ends
  <3>3. x \in R BY <2>6, <3>1, <3>2 DEF LevelReached
  <3> QED BY <2>4, <2>7, <3>1, <3>3 DEF Has
 <2>10. \A k : Has(cts2, 0, k) <=> Has(cts, 0, k) BY <2>4, <2>5, <2>7, <2>9 DEF Has
 <2>11. KeysIn(cts2) = KeysIn(cts) BY <2>2, <2>10, SameKeys
 <2> QED BY <2>1, <2>11
<1> QED BY <1>1, <1>2, Zenon DEF Return, shared

LEMMA NoCallAnswers ==
    \A m, S : Answered("idle", m, NoCall, {}, S)
 BY DEF Answered, At, Late, NoCall, Abstract!NoCall, Abstract!Applied, Abstract!Observed

LEMMA ReturnAnswers ==
 ASSUME NEW p, Ordered(p), AnswersHold, MultiwayInv', NEW t \in Threads, NEW r \in BOOLEAN, Return(t, r),
        pc[t] # "idle", r \in answers[t]
 PROVE  Answers
<1>1. /\ GoTo(t, "idle") /\ Become(t, NoLocals) /\ call' = [call EXCEPT ![t] = NoCall]
      /\ answers' = [answers EXCEPT ![t] = {}] /\ result' = [result EXCEPT ![t] = {r}]
 BY Zenon DEF Return
<1>2. MultiwayInv BY DEF Ordered
<1>3. /\ call \in [Threads -> Abstract!SetCalls \cup {NoCall}] /\ answers \in [Threads -> SUBSET BOOLEAN]
      /\ LocalInv(contents, pc[t], my[t], call[t])
 BY <1>2 DEF MultiwayInv, AllLocalInv, OthersInv, Abstract!SetTypeOK, NoCall
<1>4. Steps(t) /\ pc'[t] = "idle" /\ my'[t] = NoLocals BY <1>1, <1>2, StepsAs
<1>5. KeysIn(contents') = KeysIn(contents) BY ReturnKeepsKeys
<1>6. call[t] # NoCall
 <2>1. call[t] \in Abstract!SetCalls BY <1>3 DEF LocalInv, Typed
 <2> QED BY <2>1 DEF Abstract!SetCalls, NoCall, Abstract!NoCall
<1>7. Abstract!SetReturn(t, r) BY <1>1, <1>5, <1>6 DEF Abstract!SetReturn, NoCall
<1>8. ASSUME NEW u \in Threads
      PROVE  Answered(pc'[u], my'[u], call'[u], answers'[u], KeysIn(contents'))
 <2>1. CASE u = t BY <1>1, <1>3, <1>4, <2>1, NoCallAnswers
 <2>2. CASE u # t
  <3>1. Answered(pc[u], my[u], call[u], answers[u], KeysIn(contents)) BY DEF AnswersHold
  <3> QED BY <1>1, <1>3, <1>4, <1>5, <2>2, <3>1 DEF Steps
 <2> QED BY <2>1, <2>2
<1>9. AnswersHold' BY <1>8 DEF AnswersHold
<1> QED BY <1>7, <1>9, RefinesAs DEF Answers

LEMMA DoneAnswers ==
 ASSUME NEW p, Ordered(p), AnswersHold, MultiwayInv', NEW t \in Threads,
        Done(t) \/ AddFindsKey(t) \/ RemoveMissesKey(t)
 PROVE  Answers
<1>1. Answered(pc[t], my[t], call[t], answers[t], KeysIn(contents)) BY DEF AnswersHold
<1>2. CASE Done(t)
 <2>1. pc[t] = "done" /\ Return(t, TRUE) BY <1>2 DEF Done
 <2>2. TRUE \in answers[t] BY <1>1, <2>1 DEF Answered, At, Late
 <2> QED BY <2>1, <2>2, ReturnAnswers
<1>3. CASE AddFindsKey(t)
 <2>1. pc[t] = "insert" /\ Found(my[t].cts, call[t].key) /\ Return(t, FALSE)
  BY <1>3 DEF AddFindsKey, Key
 <2>2. FALSE \in answers[t] BY <1>1, <2>1 DEF Answered
 <2> QED BY <2>1, <2>2, ReturnAnswers
<1>4. CASE RemoveMissesKey(t)
 <2>1. pc[t] = "remove" /\ ~Found(my[t].cts, call[t].key) /\ Return(t, FALSE)
  BY <1>4 DEF RemoveMissesKey, Key
 <2>2. FALSE \in answers[t] BY <1>1, <2>1 DEF Answered
 <2> QED BY <2>1, <2>2, ReturnAnswers
<1> QED BY <1>2, <1>3, <1>4

(* A contains may answer what is right now. *)
LEMMA ContainsSees ==
 ASSUME NEW c, c.op = "contains", NEW S, NEW r \in BOOLEAN, r <=> c.key \in S
 PROVE  r \in Abstract!Observed(c, S)
 BY DEF Abstract!Observed

LEMMA ScanAnswers ==
 ASSUME NEW p, Ordered(p), AnswersHold, MultiwayInv', NEW t \in Threads, Scan(t)
 PROVE  Answers
<1>1. PICK m, key, n, c : m = my[t] /\ key = call[t].key /\ n = m.node /\ c = contents[n] OBVIOUS
<1>2. pc[t] = "scan" BY DEF Scan
<1>3. Mine(t, p, m, key) /\ MultiwayInv BY <1>1, <1>2, MineHere DEF Ordered
<1>4. TreeInv(contents, root) /\ n \in DOMAIN contents BY <1>1, <1>2, <1>3 DEF Mine, Placed
<1>5. Answered("scan", m, call[t], answers[t], KeysIn(contents)) BY <1>1, <1>2 DEF AnswersHold
<1>6. call[t].op = "contains" /\ Abstract!Observed(call[t], KeysIn(contents)) \subseteq answers[t]
 BY <1>5 DEF Answered, Abstract!Applied
<1>7. CASE Beyond(c, key)
 <2>1. GoOn(t, "scan", c.link, EMPTY) /\ UNCHANGED <<shared, history, bounds>>
  BY <1>1, <1>7 DEF Scan, Key
 <2> QED BY <1>2, <1>3, <1>6, <2>1, ScansAnswers
<1>8. CASE ~Beyond(c, key) /\ ~IsLeaf(c)
 <2>1. GoOn(t, "scan", ChildFor(c, key), EMPTY) /\ UNCHANGED <<shared, history, bounds>>
  BY <1>1, <1>8 DEF Scan, Key
 <2> QED BY <1>2, <1>3, <1>6, <2>1, ScansAnswers
<1>9. CASE ~Beyond(c, key) /\ IsLeaf(c)
 <2>1. Return(t, Found(c, key)) BY <1>1, <1>9 DEF Scan, Key
 <2>2. n[1] = 0 BY <1>1, <1>4, <1>9, NodeRead, ShapeFacts
 <2>3. key \in KeysIn(contents) <=> Found(c, key) BY <1>1, <1>2, <1>4, <1>9, <2>2, LeafIsRight
 <2>4. PICK r : r = Found(c, key) OBVIOUS
 <2>5. r \in BOOLEAN BY <2>4 DEF Found
 <2>6. r \in answers[t]
  <3>1. PICK cl, S : cl = call[t] /\ S = KeysIn(contents) OBVIOUS
  <3>2. cl.op = "contains" /\ (r <=> cl.key \in S) BY <1>1, <1>6, <2>3, <2>4, <3>1
  <3>3. r \in Abstract!Observed(cl, S) BY ONLY <2>5, <3>2, ContainsSees
  <3> QED BY <1>6, <3>1, <3>3
 <2> QED BY <1>2, <2>1, <2>4, <2>5, <2>6, ReturnAnswers
<1> QED BY <1>7, <1>8, <1>9

LEMMA StartAnswers ==
 ASSUME MultiwayInv, AnswersHold, NEW t \in Threads, NEW c \in Abstract!SetCalls, NEW height, Start(t, c, height)
 PROVE  Answers
<1>1. PICK m : m = StartLocals(height) OBVIOUS
<1>2. /\ pc[t] = "idle" /\ GoTo(t, "root") /\ Become(t, m) /\ call' = [call EXCEPT ![t] = c]
      /\ answers' = [answers EXCEPT ![t] = Abstract!Observed(c, KeysIn(contents))]
      /\ result' = [result EXCEPT ![t] = Abstract!NoResult]
      /\ contents' = contents
 BY <1>1, Zenon DEF Start, StartLocals, shared
<1>3. /\ call \in [Threads -> Abstract!SetCalls \cup {NoCall}] /\ answers \in [Threads -> SUBSET BOOLEAN]
      /\ LocalInv(contents, pc[t], my[t], call[t])
 BY DEF MultiwayInv, AllLocalInv, OthersInv, Abstract!SetTypeOK, NoCall
<1>4. Steps(t) /\ pc'[t] = "root" /\ my'[t] = m BY <1>2, StepsAs
<1>5. call[t] = NoCall BY <1>2, <1>3 DEF LocalInv, Typed
<1>6. KeysIn(contents') = KeysIn(contents) BY <1>2
<1>7. Abstract!SetInvoke(t, c) BY <1>2, <1>5, <1>6 DEF Abstract!SetInvoke, NoCall
<1>8. Answered("root", m, c, Abstract!Observed(c, KeysIn(contents)), KeysIn(contents))
 <2>1. PICK S : S = KeysIn(contents) OBVIOUS
 <2>2. c.op # "contains" => TRUE \notin Abstract!Observed(c, S) BY DEF Abstract!Observed
 <2>3. Answered("root", m, c, Abstract!Observed(c, S), S)
  BY <2>2 DEF Answered, At, Late, Abstract!Applied
 <2> QED BY <2>1, <2>3
<1>9. ASSUME NEW u \in Threads
      PROVE  Answered(pc'[u], my'[u], call'[u], answers'[u], KeysIn(contents'))
 <2>1. CASE u = t BY <1>2, <1>3, <1>4, <1>6, <1>8, <2>1
 <2>2. CASE u # t
  <3>1. Answered(pc[u], my[u], call[u], answers[u], KeysIn(contents)) BY DEF AnswersHold
  <3> QED BY <1>2, <1>3, <1>4, <1>6, <2>2, <3>1 DEF Steps
 <2> QED BY <2>1, <2>2
<1>10. AnswersHold' BY <1>9 DEF AnswersHold
<1> QED BY <1>7, <1>10, RefinesAs DEF Answers

LEMMA StartsEmpty ==
 ASSUME Init
 PROVE  AnswersHold /\ Abstract!SetInit
<1>1. TreeInv(contents, root) BY InitHolds DEF MultiwayInv
<1>2. PICK cts, rt : cts = contents /\ rt = root OBVIOUS
<1>3. \A x \in DOMAIN cts : cts[x].items = <<INF>> BY <1>2 DEF Init, Contents
<1>4. \A k : Has(cts, 0, k) => k = INF BY <1>3 DEF Has, Holds
<1>5. \A k : k \in KeysIn(cts) => k \in Keys /\ Has(cts, 0, k) BY <1>1, <1>2, KeysAre
<1>6. \A k \in Keys : k # INF BY MultiwayAssumption DEF MultiwayAssumption
<1>7. KeysIn(contents) = {} BY <1>2, <1>4, <1>5, <1>6
<1>8. AnswersHold BY NoCallAnswers DEF AnswersHold, Init
<1>9. Abstract!SetInit BY <1>7 DEF Abstract!SetInit, Init, NoCall
<1> QED BY <1>8, <1>9

LEMMA NextAnswers ==
 ASSUME MultiwayInv, MultiwayOrder, AnswersHold, Next
 PROVE  Answers
<1>1. PICK t \in Threads : (\E c \in Abstract!SetCalls, h \in AllHeights : Start(t, c, h)) \/ Step(t)
 BY DEF Next
<1>2. PICK p : Ordered(p) BY DEF Ordered, MultiwayOrder
<1>3. MultiwayInv' BY NextKeeps DEF Kept
<1>4. CASE \E c \in Abstract!SetCalls, h \in AllHeights : Start(t, c, h) BY <1>4, StartAnswers
<1>5. CASE Traversing(t)
 <2>1. CASE GrowRead(t) \/ PushRight(t) \/ VisitBeyond(t) \/ VisitInner(t)
  BY <1>3, <2>1, GrowReadWalks, PushRightWalks, VisitBeyondWalks, VisitInnerWalks, WalkedAnswers
 <2>2. CASE ReadRoot(t) \/ Grow(t) \/ Scan(t) \/ VisitLeaf(t) \/ Walk(t)
  BY <1>2, <1>3, <2>2, ReadRootAnswers, GrowAnswers, ScanAnswers, VisitLeafAnswers, WalkAnswers
 <2> QED BY <1>5, <2>1, <2>2 DEF Traversing
<1>6. CASE Cleaning(t)
 <2>1. CASE \/ KeepLink(t) \/ LinkRead(t) \/ ReadSibling(t) \/ Nephew(t)
            \/ SlideNeedless(t) \/ AdjustNext(t) \/ CleanAgain(t)
  BY <1>3, <2>1, KeepLinkWalks, LinkReadWalks, ReadSiblingWalks, NephewWalks, SlideNeedlessWalks,
     AdjustNextWalks, CleanAgainWalks, WalkedAnswers
 <2>2. CASE CleanLink(t) \/ ShiftNephew(t) \/ Slide(t) \/ Unslide(t) \/ Shift(t)
  BY <1>3, <2>2, CleanLinkAnswers, ShiftNephewAnswers, SlideAnswers, UnslideAnswers, ShiftAnswers
 <2> QED BY <1>6, <2>1, <2>2 DEF Cleaning
<1>7. CASE Updating(t)
 BY <1>2, <1>3, <1>7, MoveForwardAnswers, InsertAnswers, RemoveItemAnswers, DoneAnswers, FailsAnswers DEF Updating
<1>8. CASE Indexing(t)
 BY <1>3, <1>8, IndexNothingAnswers, SplitOneLevelAnswers, InsertOneLevelAnswers, FailsAnswers DEF Indexing
<1> QED BY <1>1, <1>4, <1>5, <1>6, <1>7, <1>8 DEF Step

LEMMA StutterAnswers ==
 ASSUME AnswersHold, UNCHANGED vars
 PROVE  Answers
<1>1. contents' = contents /\ pc' = pc /\ my' = my /\ UNCHANGED history /\ call' = call /\ answers' = answers
 BY DEF vars, shared, history, bounds
<1>2. AnswersHold' BY <1>1 DEF AnswersHold
<1>3. KeysIn(contents') = KeysIn(contents) BY <1>1
<1> QED BY <1>1, <1>2, <1>3, RefinesAs DEF Answers

(* The calls of add, remove and contains of MultiwaySearchTree.hpp are     *)
(* linearizable, however many threads split, slide and clean at the same   *)
(* time: every step is one of the set or leaves the set alone.             *)
THEOREM TreeIsLinearizableSet ==
    Spec => ImplementsSet
<1>1. Init => AnswersHold /\ Abstract!SetInit BY MultiwayAssumption, StartsEmpty
<1>2. MultiwayInv /\ MultiwayOrder /\ AnswersHold /\ [Next]_vars
          => AnswersHold' /\ [Abstract!SetNext]_(Abstract!setVars)
 <2>1. MultiwayInv /\ MultiwayOrder /\ AnswersHold /\ [Next]_vars => Answers
  BY MultiwayAssumption, NextAnswers, StutterAnswers
 <2> QED BY <2>1 DEF Answers, Refines
<1> QED BY <1>1, <1>2, MultiwayInvariant, OrderInvariant, PTL DEF Spec, ImplementsSet, Abstract!SetSpec

-----------------------------------------------------------------------------
(* The search for a key from a node goes right to the first node that does *)
(* not end before the key, and from there down.                            *)
Onward(cts, key, f, n) ==
    IF Beyond(cts[n], key) THEN f[cts[n].link]
    ELSE IF IsLeaf(cts[n]) THEN n ELSE f[ChildFor(cts[n], key)]
Below(cts, l) == {n \in DOMAIN cts : n[1] < l}
Searches(cts, key, S, f) == f = [n \in S |-> Onward(cts, key, f, n)]
StopsAt(cts, p, key, n, y) ==
    /\ y \in DOMAIN cts /\ Le(p, n, y) /\ ~Beyond(cts[y], key)
    /\ \A x \in DOMAIN cts : Le(p, n, x) /\ ~Beyond(cts[x], key) => Le(p, y, x)
Stop(cts, p, key, n) == CHOOSE y : StopsAt(cts, p, key, n, y)

LEMMA BeyondIs ==
 ASSUME NEW cts, NEW rt, TreeInv(cts, rt), NEW key \in Keys, NEW n \in DOMAIN cts
 PROVE  /\ key \in Int /\ UpperEnd(cts[n]) \in Int
        /\ Beyond(cts[n], key) <=> UpperEnd(cts[n]) < key
        /\ ~Beyond(cts[n], key) => Full(cts[n])
<1>1. PICK D, l, c : D = DOMAIN cts /\ l = n[1] /\ c = cts[n] OBVIOUS
<1>2. key \in Int /\ EMPTY < key /\ D \in SUBSET Names /\ l \in Nat /\ Shape(D, l, c)
 BY <1>1, NodeRead DEF MultiwayAssumption
<1>3. Beyond(c, key) <=> (c.items = <<>> \/ Last(c.items) < key) BY <1>2, ShapeFacts, BeyondFacts
<1>4. UpperEnd(c) \in Int /\ (c.items # <<>> => UpperEnd(c) = Last(c.items)) /\ (c.items = <<>> => UpperEnd(c) = EMPTY)
 BY <1>2, UpperEndOf
<1> QED BY <1>1, <1>2, <1>3, <1>4 DEF Full

LEMMA OnwardIn ==
 ASSUME NEW cts, NEW rt, TreeInv(cts, rt), NEW key \in Keys, NEW n \in DOMAIN cts
 PROVE  /\ Beyond(cts[n], key) => /\ cts[n].link # NoNode /\ cts[n].link \in DOMAIN cts
                                  /\ cts[n].link[1] = n[1]
        /\ ~Beyond(cts[n], key) /\ ~IsLeaf(cts[n]) =>
             /\ ChildFor(cts[n], key) \in DOMAIN cts /\ ChildFor(cts[n], key)[1] = n[1] - 1
        /\ IsLeaf(cts[n]) <=> n[1] = 0
<1>1. PICK D, l, c : D = DOMAIN cts /\ l = n[1] /\ c = cts[n] OBVIOUS
<1>2. key \in Int /\ D \in SUBSET Names /\ l \in Nat /\ Shape(D, l, c)
 BY <1>1, NodeRead DEF MultiwayAssumption
<1>3. IsLeaf(c) <=> l = 0 BY <1>2, ShapeFacts
<1>4. Beyond(c, key) => c.link # NoNode /\ c.link \in D /\ c.link[1] = l
 BY <1>1, <1>2, BeyondHasLink, LinkIn
<1>5. ASSUME ~Beyond(c, key), l # 0
      PROVE  ChildFor(c, key) \in D /\ ChildFor(c, key)[1] = l - 1
 <2>1. Index(c, key) \in 1 .. Len(c.items) BY <1>2, <1>5, ShapeFacts, BeyondFacts
 <2>2. On(D, c.children[Index(c, key)], l - 1) BY <1>2, <1>5, <2>1, ShapeFacts
 <2> QED BY <2>2 DEF On, ChildFor
<1> QED BY <1>1, <1>3, <1>4, <1>5

LEMMA StopIs ==
 ASSUME NEW cts, NEW p, NEW rt, TreeInv(cts, rt), OrderInv(cts, p, rt), NEW key \in Keys, NEW n \in DOMAIN cts
 PROVE  StopsAt(cts, p, key, n, Stop(cts, p, key, n))
<1>1. PICK S : S = {y \in DOMAIN cts : Le(p, n, y) /\ ~Beyond(cts[y], key)} OBVIOUS
<1>2. Numbered(cts, p) /\ \A x \in DOMAIN cts : p[x] \in Nat BY DEF OrderInv, Numbered
<1>3. S # {}
 <2>1. PICK y \in DOMAIN cts : Le(p, n, y) /\ Full(cts[y]) /\ UpperEnd(cts[y]) = INF BY LevelEnds
 <2>2. ~Beyond(cts[y], key)
  <3>1. key \in Int /\ INF \in Int /\ key < INF BY DEF MultiwayAssumption
  <3> QED BY <2>1, <3>1, BeyondIs
 <2> QED BY <1>1, <2>1, <2>2
<1>4. PICK y \in S : \A x \in S : p[y] <= p[x] BY <1>1, <1>2, <1>3, Lowest
<1>5. StopsAt(cts, p, key, n, y) BY <1>1, <1>4 DEF StopsAt, Le
<1> QED BY <1>5 DEF Stop

LEMMA StopOnce ==
 ASSUME NEW cts, NEW p, NEW rt, TreeInv(cts, rt), OrderInv(cts, p, rt), NEW key \in Keys, NEW n \in DOMAIN cts,
        NEW y, StopsAt(cts, p, key, n, y)
 PROVE  Stop(cts, p, key, n) = y
<1>1. PICK z : z = Stop(cts, p, key, n) OBVIOUS
<1>2. StopsAt(cts, p, key, n, z) /\ Numbered(cts, p) BY <1>1, StopIs DEF OrderInv
<1>3. y \in DOMAIN cts /\ z \in DOMAIN cts /\ Le(p, y, z) /\ Le(p, z, y) BY <1>2 DEF StopsAt
<1>4. y = z BY <1>2, <1>3, RowFacts
<1> QED BY <1>1, <1>4

LEMMA StopMoves ==
 ASSUME NEW cts, NEW p, NEW rt, TreeInv(cts, rt), OrderInv(cts, p, rt), NEW key \in Keys, NEW n \in DOMAIN cts
 PROVE  Stop(cts, p, key, n) = IF Beyond(cts[n], key) THEN Stop(cts, p, key, cts[n].link) ELSE n
<1>1. Numbered(cts, p) BY DEF OrderInv
<1>2. CASE ~Beyond(cts[n], key)
 <2>1. StopsAt(cts, p, key, n, n) BY <1>1, <1>2, RowFacts DEF StopsAt
 <2> QED BY <1>2, <2>1, StopOnce
<1>3. CASE Beyond(cts[n], key)
 <2>1. PICK y, k : StopsAt(cts, p, key, n, y) /\ k = cts[n].link BY StopIs
 <2>2. k # NoNode /\ k \in DOMAIN cts /\ LinkOn(cts, p, n, k) BY <1>3, <2>1, OnwardIn, OrderRows
 <2>3. Lt(p, n, k) /\ \A x \in DOMAIN cts : Lt(p, n, x) /\ Lt(p, x, k) => ~Full(cts[x])
  BY <2>2 DEF LinkOn
 <2>4. y \in DOMAIN cts /\ Le(p, n, y) /\ ~Beyond(cts[y], key) /\ Full(cts[y])
  BY <2>1, BeyondIs DEF StopsAt
 <2>5. Lt(p, n, y) BY <1>1, <1>3, <2>4, RowFacts
 <2>6. Le(p, k, y)
  <3>1. ~Lt(p, y, k) BY <2>3, <2>4, <2>5
  <3>2. y[1] = k[1] BY <2>3, <2>5 DEF Lt
  <3> QED BY <1>1, <2>2, <2>4, <3>1, <3>2, RowFacts
 <2>7. ASSUME NEW x \in DOMAIN cts, Le(p, k, x), ~Beyond(cts[x], key)
       PROVE  Le(p, y, x)
  <3>1. Le(p, n, x) BY <1>1, <2>2, <2>3, <2>7, RowFacts
  <3> QED BY <2>1, <2>7, <3>1 DEF StopsAt
 <2>8. StopsAt(cts, p, key, k, y) BY <2>4, <2>6, <2>7 DEF StopsAt
 <2>9. Stop(cts, p, key, n) = y /\ Stop(cts, p, key, k) = y BY <2>1, <2>2, <2>8, StopOnce
 <2> QED BY <1>3, <2>1, <2>9
<1> QED BY <1>2, <1>3

(* A search ends wherever it begins: by induction on the levels. *)
SearchesBelow(cts, key, l) == \E f : Searches(cts, key, Below(cts, l), f)

LEMMA SearchesAbove ==
 ASSUME NEW cts, NEW p, NEW rt, TreeInv(cts, rt), OrderInv(cts, p, rt), NEW key \in Keys,
        NEW l \in Nat, SearchesBelow(cts, key, l), NEW h, h = l + 1
 PROVE  SearchesBelow(cts, key, h)
<1>1. PICK f : Searches(cts, key, Below(cts, l), f) BY DEF SearchesBelow
<1>2. PICK A, B : A = Below(cts, l) /\ B = Below(cts, h) OBVIOUS
<1>3. PICK s : s = [n \in DOMAIN cts |-> Stop(cts, p, key, n)] OBVIOUS
<1>4. PICK g : g = [n \in B |-> IF n \in A THEN f[n]
                                ELSE IF IsLeaf(cts[s[n]]) THEN s[n] ELSE f[ChildFor(cts[s[n]], key)]]
 OBVIOUS
<1>5. \A n \in DOMAIN cts : n[1] \in Nat BY OrderRows
<1>6. /\ A \subseteq B /\ \A n \in A : n \in DOMAIN cts /\ n[1] < l
      /\ \A n \in B : n \in DOMAIN cts /\ (n \notin A => n[1] = l)
      /\ \A n \in DOMAIN cts : (n[1] < l => n \in A) /\ (n[1] = l => n \in B /\ n \notin A)
 BY <1>2, <1>5 DEF Below
<1>7. ASSUME NEW n \in B
      PROVE  g[n] = Onward(cts, key, g, n)
 <2>1. /\ Beyond(cts[n], key) => cts[n].link \in DOMAIN cts /\ cts[n].link[1] = n[1]
       /\ ~Beyond(cts[n], key) /\ ~IsLeaf(cts[n]) =>
             /\ ChildFor(cts[n], key) \in DOMAIN cts /\ ChildFor(cts[n], key)[1] = n[1] - 1
       /\ n \in DOMAIN cts /\ n[1] \in Nat
  BY <1>5, <1>6, OnwardIn
 <2>2. CASE n \in A
  <3>1. g[n] = f[n] /\ f[n] = Onward(cts, key, f, n) BY <1>1, <1>2, <1>4, <2>2 DEF Searches
  <3>2. Beyond(cts[n], key) => cts[n].link \in A BY <1>6, <2>1, <2>2
  <3>3. ~Beyond(cts[n], key) /\ ~IsLeaf(cts[n]) => ChildFor(cts[n], key) \in A
   <4>1. PICK d : d = ChildFor(cts[n], key) OBVIOUS
   <4>2. ~Beyond(cts[n], key) /\ ~IsLeaf(cts[n]) => d[1] < l BY <1>6, <2>1, <2>2, <4>1
   <4> QED BY <1>6, <2>1, <4>1, <4>2
  <3>4. \A x \in A : g[x] = f[x] BY <1>4, <1>6
  <3> QED BY <3>1, <3>2, <3>3, <3>4 DEF Onward
 <2>3. CASE n \notin A
  <3>1. n[1] = l /\ s[n] = IF Beyond(cts[n], key) THEN s[cts[n].link] ELSE n
   BY <1>3, <1>6, <2>1, <2>3, StopMoves
  <3>2. g[n] = IF IsLeaf(cts[s[n]]) THEN s[n] ELSE f[ChildFor(cts[s[n]], key)] BY <1>4, <2>3
  <3>3. CASE Beyond(cts[n], key)
   <4>1. PICK k : k = cts[n].link OBVIOUS
   <4>2. k \in B /\ k \notin A BY <1>6, <2>1, <3>1, <3>3, <4>1
   <4>3. g[k] = IF IsLeaf(cts[s[k]]) THEN s[k] ELSE f[ChildFor(cts[s[k]], key)] BY <1>4, <4>2
   <4>4. s[n] = s[k] BY <3>1, <3>3, <4>1
   <4>5. g[n] = g[k] BY ONLY <3>2, <4>3, <4>4
   <4> QED BY <3>3, <4>1, <4>5 DEF Onward
  <3>4. CASE ~Beyond(cts[n], key)
   <4>1. PICK d : d = ChildFor(cts[n], key) OBVIOUS
   <4>2. g[n] = IF IsLeaf(cts[n]) THEN n ELSE f[d] BY <3>1, <3>2, <3>4, <4>1
   <4>3. ~IsLeaf(cts[n]) => d \in A
    <5>1. ~IsLeaf(cts[n]) => d \in DOMAIN cts /\ d[1] < l BY <2>1, <3>1, <3>4, <4>1
    <5> QED BY <1>6, <5>1
   <4>4. \A x \in A : g[x] = f[x] BY <1>4, <1>6
   <4> QED BY <3>4, <4>1, <4>2, <4>3, <4>4 DEF Onward
  <3> QED BY <3>3, <3>4
 <2> QED BY <2>2, <2>3
<1>8. Searches(cts, key, B, g)
 <2>1. g = [n \in B |-> g[n]] BY <1>4
 <2> QED BY <1>7, <2>1 DEF Searches
<1> QED BY <1>2, <1>8 DEF SearchesBelow

LEMMA SearchesEverywhere ==
 ASSUME NEW cts, NEW p, NEW rt, TreeInv(cts, rt), OrderInv(cts, p, rt), NEW key \in Keys
 PROVE  \E f : Searches(cts, key, DOMAIN cts, f)
<1>1. PICK T : T = {l \in Nat : ~SearchesBelow(cts, key, l)} OBVIOUS
<1>2. \A n \in DOMAIN cts : n[1] \in Nat /\ n[1] <= rt.height BY OrderRows DEF OrderInv, RootLeads
<1>3. rt.height \in Nat BY NodeRead DEF TreeInv
<1>4. T = {}
 <2> SUFFICES ASSUME T # {}
              PROVE  FALSE
  OBVIOUS
 <2>1. T \subseteq Nat BY <1>1
 <2>2. PICK h \in T : \A j \in T : h <= j BY <2>1, LowestNatural
 <2>3. h \in Nat /\ ~SearchesBelow(cts, key, h) BY <1>1
 <2>4. CASE h = 0
  <3>1. Below(cts, 0) = {} BY <1>2 DEF Below
  <3>2. PICK f : f = [n \in {} |-> n] OBVIOUS
  <3>3. Searches(cts, key, {}, f) BY <3>2 DEF Searches
  <3> QED BY <2>3, <2>4, <3>1, <3>3 DEF SearchesBelow
 <2>5. CASE h # 0
  <3>1. PICK l : l = h - 1 OBVIOUS
  <3>2. l \in Nat /\ h = l + 1 /\ ~(h <= l) BY <2>3, <2>5, <3>1
  <3>3. SearchesBelow(cts, key, l) BY <1>1, <2>2, <3>2
  <3> QED BY <2>3, <3>2, <3>3, SearchesAbove
 <2> QED BY <2>4, <2>5
<1>5. PICK h : h = rt.height + 1 OBVIOUS
<1>6. h \in Nat /\ \A n \in DOMAIN cts : n[1] < h BY <1>2, <1>3, <1>5
<1>7. SearchesBelow(cts, key, h) BY <1>1, <1>4, <1>6
<1>8. Below(cts, h) = DOMAIN cts BY <1>6 DEF Below
<1> QED BY <1>7, <1>8 DEF SearchesBelow

(* Where the key belongs: no other leaf on the way to it does not end *)
(* before it.                                                          *)
EndsAt(cts, p, key, n) ==
    n \in DOMAIN cts /\ n[1] = 0 /\ ~Beyond(cts[n], key) /\ Low(cts, p, n, key - 1)

LEMMA LowLeads ==
 ASSUME NEW cts, NEW p, NEW rt, TreeInv(cts, rt), OrderInv(cts, p, rt), NEW key \in Keys,
        NEW f, Searches(cts, key, DOMAIN cts, f), NEW n \in DOMAIN cts, Low(cts, p, n, key - 1)
 PROVE  EndsAt(cts, p, key, f[n])
<1>1. PICK T : T = {x \in DOMAIN cts : Low(cts, p, x, key - 1) /\ ~EndsAt(cts, p, key, f[x])}
 OBVIOUS
<1>2. Numbered(cts, p) /\ \A x \in DOMAIN cts : p[x] \in Nat /\ x[1] \in Nat
 BY OrderRows DEF OrderInv, Numbered
<1>3. T = {}
 <2> SUFFICES ASSUME T # {}
              PROVE  FALSE
  OBVIOUS
 <2>1. PICK lv : lv = [x \in T |-> x[1]] OBVIOUS
 <2>2. \A x \in T : lv[x] \in Nat BY <1>1, <1>2, <2>1
 <2>3. PICK z \in T : \A y \in T : lv[z] <= lv[y] BY <2>2, Lowest
 <2>4. PICK S : S = {x \in T : x[1] = z[1]} OBVIOUS
 <2>5. IsFiniteSet(S) /\ z \in S /\ S \subseteq DOMAIN cts /\ \A x \in S : p[x] \in Nat
  <3>1. S \subseteq DOMAIN cts /\ z \in S BY <1>1, <2>4
  <3> QED BY <1>2, <3>1, FS_Subset DEF TreeInv
 <2>6. PICK x \in S : \A y \in S : p[y] <= p[x] BY <2>5, Highest
 <2>7. x \in T /\ x[1] = z[1] /\ x \in DOMAIN cts /\ Low(cts, p, x, key - 1) /\ ~EndsAt(cts, p, key, f[x])
  BY <1>1, <2>4
 <2>8. f[x] = Onward(cts, key, f, x) BY <2>7 DEF Searches
 <2>9. CASE Beyond(cts[x], key)
  <3>1. PICK k : k = cts[x].link OBVIOUS
  <3>2. k # NoNode /\ k \in DOMAIN cts /\ k[1] = x[1] /\ Low(cts, p, k, key - 1) /\ LinkOn(cts, p, x, k)
   BY <2>7, <2>9, <3>1, BeyondLow, OrderRows
  <3>3. p[x] < p[k] /\ f[x] = f[k] BY <2>8, <2>9, <3>1, <3>2 DEF LinkOn, Lt, Onward
  <3>4. k \in S BY <1>1, <2>4, <2>7, <3>2, <3>3
  <3>5. p[k] <= p[x] /\ p[k] \in Nat /\ p[x] \in Nat BY <1>2, <2>6, <2>7, <3>2, <3>4
  <3> QED BY <3>3, <3>5
 <2>10. CASE ~Beyond(cts[x], key) /\ x[1] # 0
  <3>1. PICK d : d = ChildFor(cts[x], key) OBVIOUS
  <3>2. d \in DOMAIN cts /\ d[1] = x[1] - 1 /\ ~IsLeaf(cts[x]) BY <2>7, <2>10, <3>1, OnwardIn
  <3>3. Low(cts, p, d, key - 1) /\ f[x] = f[d] BY <2>7, <2>8, <2>10, <3>1, <3>2, ChildLow DEF Onward
  <3>4. d \in T BY <1>1, <2>7, <3>2, <3>3
  <3>5. x[1] <= d[1] /\ x[1] \in Nat /\ d[1] \in Nat BY <1>2, <2>1, <2>3, <2>7, <3>2, <3>4
  <3> QED BY <3>2, <3>5
 <2>11. CASE ~Beyond(cts[x], key) /\ x[1] = 0
  <3>1. f[x] = x BY <2>7, <2>8, <2>11, OnwardIn DEF Onward
  <3> QED BY <2>7, <2>11, <3>1 DEF EndsAt
 <2> QED BY <2>9, <2>10, <2>11
<1> QED BY <1>1, <1>3

LEMMA EndsIsLeafOf ==
 ASSUME NEW p, TreeInv(contents, root), OrderInv(contents, p, root), NEW key \in Keys,
        NEW n, EndsAt(contents, p, key, n)
 PROVE  LeafOf(key) = n
<1>1. PICK cts : cts = contents OBVIOUS
<1>2. Numbered(cts, p) /\ TreeInv(cts, root) /\ OrderInv(cts, p, root) /\ EndsAt(cts, p, key, n) /\ AllEnd(cts)
 BY <1>1, OrderRows DEF OrderInv
<1>3. n \in DOMAIN cts /\ n[1] = 0 /\ ~Beyond(cts[n], key) /\ Low(cts, p, n, key - 1)
 BY <1>2 DEF EndsAt
<1>4. \A m \in DOMAIN cts : IsLeaf(cts[m]) <=> m[1] = 0 BY <1>2, OnwardIn
<1>5. \A m \in DOMAIN cts : Full(cts[m]) => UpperEnd(cts[m]) = Last(cts[m].items)
 BY DEF Full, UpperEnd
<1>6. ASSUME NEW m \in DOMAIN cts, m # n, IsLeaf(cts[m]), ~Beyond(cts[m], key)
      PROVE  Last(cts[n].items) < Last(cts[m].items)
 <2>1. m[1] = 0 /\ Full(cts[m]) /\ Full(cts[n]) BY <1>2, <1>3, <1>4, <1>6, BeyondIs
 <2>2. Lt(p, m, n) \/ Lt(p, n, m) BY <1>2, <1>3, <1>6, <2>1, RowFacts
 <2>3. CASE Lt(p, m, n)
  <3>1. PICK u : u = UpperEnd(cts[m]) OBVIOUS
  <3>2. u <= key - 1 /\ u \in Int /\ key \in Int /\ ~(u < key)
   BY <1>2, <1>3, <1>6, <2>3, <3>1, BeyondIs DEF Low
  <3> QED BY ONLY <3>2
 <2>4. CASE Lt(p, n, m)
  <3>1. UpperEnd(cts[n]) < First(cts[m]) BY <1>2, <1>3, <2>1, <2>4 DEF OrderInv, ItemsLead
  <3>2. First(cts[m]) <= UpperEnd(cts[m]) /\ First(cts[m]) \in Int /\ UpperEnd(cts[m]) \in Int
        /\ UpperEnd(cts[n]) \in Int
   BY <1>2, <1>3, <2>1 DEF AllEnd, Ends
  <3>3. UpperEnd(cts[n]) < UpperEnd(cts[m]) BY <3>1, <3>2
  <3> QED BY <1>3, <1>5, <2>1, <3>3
 <2> QED BY <2>2, <2>3, <2>4
<1>7. \A m \in DOMAIN cts : IsLeaf(cts[m]) /\ ~Beyond(cts[m], key) => Last(cts[m].items) \in Int
 <2> SUFFICES ASSUME NEW m \in DOMAIN cts, ~Beyond(cts[m], key)
              PROVE  Last(cts[m].items) \in Int
  OBVIOUS
 <2>1. Full(cts[m]) /\ UpperEnd(cts[m]) \in Int BY <1>2, BeyondIs
 <2> QED BY <1>5, <2>1
<1>8. ASSUME NEW y \in DOMAIN cts, IsLeaf(cts[y]), ~Beyond(cts[y], key),
             \A m \in DOMAIN cts \ {y} :
                  IsLeaf(cts[m]) /\ ~Beyond(cts[m], key) => Last(cts[y].items) < Last(cts[m].items)
      PROVE  y = n
 <2> SUFFICES ASSUME y # n
              PROVE  FALSE
  OBVIOUS
 <2>1. IsLeaf(cts[n]) BY <1>3, <1>4
 <2>2. PICK a, b : a = Last(cts[n].items) /\ b = Last(cts[y].items) OBVIOUS
 <2>3. a < b /\ b < a /\ a \in Int /\ b \in Int BY <1>3, <1>6, <1>7, <1>8, <2>1, <2>2
 <2> QED BY ONLY <2>3
<1>9. IsLeaf(cts[n]) /\ \A m \in DOMAIN cts \ {n} :
          IsLeaf(cts[m]) /\ ~Beyond(cts[m], key) => Last(cts[n].items) < Last(cts[m].items)
 BY <1>3, <1>4, <1>6
<1> QED BY <1>1, <1>3, <1>8, <1>9 DEF LeafOf, Nodes

LEMMA SearchIsOnward ==
 ASSUME NEW key
 PROVE  EndOfSearch(key) = CHOOSE f : Searches(contents, key, Nodes, f)
 BY DEF EndOfSearch, Searches, Onward

LEMMA SearchEnds ==
 ASSUME NEW p, TreeInv(contents, root), OrderInv(contents, p, root), NEW key \in Keys,
        NEW n \in DOMAIN contents, Low(contents, p, n, key - 1)
 PROVE  EndOfSearch(key)[n] = LeafOf(key)
<1>1. PICK f : f = EndOfSearch(key) OBVIOUS
<1>2. Searches(contents, key, DOMAIN contents, f)
 BY <1>1, SearchesEverywhere, SearchIsOnward DEF Nodes
<1>3. EndsAt(contents, p, key, f[n]) BY <1>2, LowLeads
<1> QED BY <1>1, <1>3, EndsIsLeafOf

LEMMA OrderLeads ==
 ASSUME MultiwayInv, MultiwayOrder
 PROVE  PathsLead
<1>1. PICK p : OrderInv(contents, p, root) /\ CallsSound(contents, p) BY DEF MultiwayOrder
<1>2. TreeInv(contents, root) BY DEF MultiwayInv
<1>3. ASSUME NEW k \in Keys
      PROVE  EndOfSearch(k)[root.node] = LeafOf(k)
 <2>1. root.node \in DOMAIN contents BY <1>2 DEF TreeInv
 <2>2. Low(contents, p, root.node, k - 1) BY <1>1, RootIsLow
 <2> QED BY <1>1, <1>2, <2>1, <2>2, SearchEnds
<1>4. ASSUME NEW t \in Threads, my[t].node # NoNode
      PROVE  EndOfSearch(Key(t))[my[t].node] = LeafOf(Key(t))
 <2>1. PICK m, c, l : m = my[t] /\ c = call[t] /\ l = pc[t] OBVIOUS
 <2>2. LocalInv(contents, l, m, c) /\ Sound(contents, p, l, m, c.key)
  BY <1>1, <2>1 DEF MultiwayInv, AllLocalInv, CallsSound
 <2>3. l # "idle" BY <1>4, <2>1, <2>2 DEF LocalInv, Typed, NoLocals
 <2>4. c.key \in Keys /\ m.node \in DOMAIN contents BY <1>2, <1>4, <2>1, <2>2, <2>3, CallOf
 <2>5. Low(contents, p, m.node, c.key - 1) BY <1>4, <2>1, <2>2 DEF Sound, OnWay
 <2> QED BY <1>1, <1>2, <2>1, <2>4, <2>5, SearchEnds DEF Key
<1> QED BY <1>3, <1>4 DEF PathsLead

(* The search for a key, from the root or from where search, traverseLeaf, *)
(* traverseNonLeaf and moveForward are on their way to it, ends at the one *)
(* leaf where the key belongs, whatever splits and cleaning are under way. *)
THEOREM PathsLeadToLeaf ==
    Spec => []PathsLead
<1>1. MultiwayInv /\ MultiwayOrder => PathsLead BY MultiwayAssumption, OrderLeads
<1> QED BY <1>1, MultiwayInvariant, OrderInvariant, PTL

=============================================================================
