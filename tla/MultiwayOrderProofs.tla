------------------------ MODULE MultiwayOrderProofs -------------------------
(***************************************************************************)
(* How the items of MultiwaySearchTree lie: the rows of the levels, what a *)
(* change of the contents of one node or a split keeps of them, and what   *)
(* the calls that are somewhere else rely on; then the steps that change   *)
(* nothing.  MultiwaySetProofs goes on with those that do.                 *)
(***************************************************************************)
EXTENDS MultiwaySearchTreeProofs

USE MultiwayAssumption

-----------------------------------------------------------------------------
(* The order of the tree.  The nodes of a level lie in a row, in which p   *)
(* numbers them, also those that no link leads to any more.                *)
Lt(p, x, n) == x[1] = n[1] /\ p[x] < p[n]
Le(p, x, n) == x[1] = n[1] /\ p[x] <= p[n]
Full(c) == c.items # <<>>
First(c) == c.items[1]
Holds(c, w) == \E i \in 1 .. Len(c.items) : c.items[i] = w
Leads(c, w, d) == \E i \in 1 .. Len(c.items) : c.items[i] = w /\ c.children[i] = d
Has(cts, l, w) == \E n \in DOMAIN cts : n[1] = l /\ Holds(cts[n], w)

(* Before n, and from a up to b, no node ends after v.                     *)
Low(cts, p, n, v) == \A x \in DOMAIN cts : Lt(p, x, n) => UpperEnd(cts[x]) <= v
Upto(cts, p, a, b, v) == \A x \in DOMAIN cts : Le(p, a, x) /\ Lt(p, x, b) => UpperEnd(cts[x]) <= v

(* d may be the child for v: what ends before d is not above the items of  *)
(* level l that are smaller than v.                                        *)
Bounded(cts, l, u, v) == u <= EMPTY \/ \E w \in Item : Has(cts, l, w) /\ w < v /\ u <= w
Promise(cts, p, l, v, d) ==
    \A x \in DOMAIN cts : Lt(p, x, d) => Bounded(cts, l, UpperEnd(cts[x]), v)

Numbered(cts, p) ==
    /\ p \in [DOMAIN cts -> Nat]
    /\ \A x, n \in DOMAIN cts : x[1] = n[1] /\ p[x] = p[n] => x = n
LinksLead(cts, p) ==
    \A n \in DOMAIN cts :
        /\ cts[n].link = NoNode => \A x \in DOMAIN cts : ~Lt(p, n, x)
        /\ cts[n].link # NoNode =>
            /\ Lt(p, n, cts[n].link)
            /\ \A x \in DOMAIN cts : Lt(p, n, x) /\ Lt(p, x, cts[n].link) => ~Full(cts[x])
ItemsLead(cts, p) ==
    \A x, n \in DOMAIN cts : Lt(p, x, n) /\ Full(cts[x]) /\ Full(cts[n]) =>
        /\ UpperEnd(cts[x]) <= First(cts[n])
        /\ n[1] = 0 => UpperEnd(cts[x]) < First(cts[n])
ChildrenLead(cts, p) ==
    \A n \in DOMAIN cts : n[1] # 0 =>
        \A w, d : Leads(cts[n], w, d) => Promise(cts, p, n[1], w, d)
RootLeads(cts, p, rt) ==
    \A x \in DOMAIN cts : ~Lt(p, x, rt.node) /\ x[1] <= rt.height
OrderInv(cts, p, rt) ==
    Numbered(cts, p) /\ LinksLead(cts, p) /\ ItemsLead(cts, p) /\ ChildrenLead(cts, p) /\ RootLeads(cts, p, rt)

(* What is before q, or up to n, ends with v or before it; and v is an     *)
(* item of the level, or one of the others begins with v or before it.     *)
Between(cts, p, q, v) ==
    /\ EMPTY < v /\ Low(cts, p, q, v)
    /\ \/ Has(cts, q[1], v)
       \/ \E y \in DOMAIN cts : Le(p, q, y) /\ Full(cts[y]) /\ First(cts[y]) <= v
After(cts, p, n, v) ==
    /\ EMPTY < v /\ Low(cts, p, n, v) /\ UpperEnd(cts[n]) <= v
    /\ \/ Has(cts, n[1], v)
       \/ \E y \in DOMAIN cts : Lt(p, n, y) /\ Full(cts[y]) /\ First(cts[y]) <= v

(* The last item v of a node before q may go to q together with d.         *)
EndsBefore(cts, p, q, v) == \E x \in DOMAIN cts : Lt(p, x, q) /\ UpperEnd(cts[x]) = v
Carries(cts, p, q, v, d) == EndsBefore(cts, p, q, v) => Promise(cts, p, q[1], v, d)
Covered(cts, p, n, v) == \E x \in DOMAIN cts : Lt(p, n, x) /\ Holds(cts[x], v)

LowEnd(c, v) == IF First(c) > v THEN v ELSE EMPTY
Sliding == {"sibling", "nephew", "slide"}
Target(l, m) == IF l = "sibling" THEN m.push ELSE m.sibling.node
LastOf(m) == UpperEnd(m.edit)
LastChildOf(m) == Last(m.edit.children)

(* What a call relies on where it is.                                      *)
OnWay(cts, p, m, key) ==
    /\ m.node # NoNode => Low(cts, p, m.node, key - 1)
    /\ \A i \in DOMAIN m.results : m.results[i].node # NoNode =>
            m.results[i].node \in DOMAIN cts /\ Low(cts, p, m.results[i].node, key - 1)
BarrierHolds(cts, p, q, b) == b # EMPTY /\ q[1] # 0 => Between(cts, p, q, b)
BarrierAfter(cts, p, n, b) == b # EMPTY /\ n[1] # 0 => After(cts, p, n, b)
DescendsWell(cts, p, m, key) == Low(cts, p, ChildFor(m.cts, key), key - 1)
LinksWell(cts, p, l, m, key) ==
    /\ m.height = 0 => UpperEnd(cts[m.node]) < key
    /\ m.height # 0 => DescendsWell(cts, p, m, key)
    /\ l = "link" =>
        /\ Lt(p, m.node, m.edit.link) /\ Le(p, m.edit.link, m.push) /\ Upto(cts, p, m.edit.link, m.push, EMPTY)
        /\ m.height = 0 => Low(cts, p, m.edit.link, key - 1) /\ BarrierHolds(cts, p, m.edit.link, m.barrier)
    /\ l = "linkRead" /\ m.height = 0 => BarrierAfter(cts, p, m.node, m.barrier)
SlidesWell(cts, p, l, m) ==
    /\ l # "unslide" => Lt(p, m.node, Target(l, m)) /\ Between(cts, p, Target(l, m), LastOf(m))
    /\ l \in {"nephew", "shiftNephew"} =>
            /\ Le(p, m.sibling.cts.children[1], m.push)
            /\ Upto(cts, p, m.sibling.cts.children[1], m.push, LowEnd(m.sibling.cts, LastOf(m)))
    /\ m.edit.stamp <= cts[m.node].stamp
    /\ (l \in {"nephew", "slide"} /\ Holds(m.sibling.cts, LastOf(m))) \/ l = "unslide" =>
            (cts[m.node] = m.edit => Covered(cts, p, m.node, LastOf(m)))
Effective(l, m) == IF l = "adjust" THEN Append(m.adjusted, m.push) ELSE m.adjusted
PushedWell(cts, p, m, key, q, e) ==
    LET j == Adjusting(m.edit, key)[q]
    IN  Le(p, m.edit.children[j], e) /\ Upto(cts, p, m.edit.children[j], e, BarrierOf(m.edit, j, m.barrier))
AdjustsWell(cts, p, l, m, key) ==
    /\ \A q \in 1 .. Len(Effective(l, m)) : PushedWell(cts, p, m, key, q, Effective(l, m)[q])
    /\ m.edit.stamp <= cts[m.node].stamp
CleansWell(cts, p, m, key) ==
    DescendsWell(cts, p, m, key) /\ (m.height = 0 => BarrierHolds(cts, p, m.node, m.barrier))
PushesWell(l, m, key) ==
    /\ l \in {"link", "sibling"} => m.pushBarrier = EMPTY
    /\ l = "nephew" => m.pushBarrier = LowEnd(m.sibling.cts, LastOf(m))
    /\ l = "adjust" => m.pushBarrier = BarrierOf(m.edit, Adjusting(m.edit, key)[Len(m.adjusted) + 1], m.barrier)

Sound(cts, p, pcl, m, key) ==
    LET l == At(pcl, m)
    IN  /\ OnWay(cts, p, m, key)
        /\ l = "visit" /\ m.height = 0 => BarrierHolds(cts, p, m.node, m.barrier)
        /\ l \in {"link", "linkRead"} => LinksWell(cts, p, l, m, key)
        /\ l \in {"sibling", "nephew", "shiftNephew", "slide", "unslide"} =>
                CleansWell(cts, p, m, key) /\ SlidesWell(cts, p, l, m)
        /\ l \in {"adjust", "shift"} =>
                CleansWell(cts, p, m, key) /\ AdjustsWell(cts, p, l, m, key)
        /\ l = "cleanAgain" => CleansWell(cts, p, m, key)
        /\ l = "raise" => Low(cts, p, m.right, key)
        /\ pcl = "push" => PushesWell(l, m, key)

(* What slides over, while others change the children.                     *)
CarriesWell(cts, p, l, m) ==
    l \in Sliding => Carries(cts, p, Target(l, m), LastOf(m), LastChildOf(m))

(* The node drops its last but one item: the children for the last item,   *)
(* wherever it has slid, are not below nodes that the dropped one covered. *)
DropsLast(cts, pcl, m, key) ==
    /\ pcl \in {"adjust", "shift"} /\ cts[m.node] = m.edit
    /\ Len(m.edit.items) > 2 /\ Index(m.edit, key) + 1 = Len(m.edit.items)
    /\ Len(Effective(pcl, m)) = 2
TwinsKeep(cts, p, pcl, m, key) ==
    DropsLast(cts, pcl, m, key) =>
        \A f \in DOMAIN cts : \A d : Lt(p, m.node, f) /\ Leads(cts[f], LastOf(m), d)
            => Upto(cts, p, Effective(pcl, m)[2], d, EMPTY)
SlidesKeep(cts, p, pcl, m, key, lu, mu) ==
    DropsLast(cts, pcl, m, key) /\ lu \in Sliding
        /\ Lt(p, m.node, Target(lu, mu)) /\ LastOf(mu) = LastOf(m)
            => Upto(cts, p, Effective(pcl, m)[2], LastChildOf(mu), EMPTY)

CallsSound(cts, p) ==
    \A t \in Threads :
        /\ Sound(cts, p, pc[t], my[t], call[t].key)
        /\ CarriesWell(cts, p, At(pc[t], my[t]), my[t])
        /\ TwinsKeep(cts, p, pc[t], my[t], call[t].key)
        /\ \A u \in Threads : SlidesKeep(cts, p, pc[t], my[t], call[t].key, At(pc[u], my[u]), my[u])

MultiwayOrder == \E p : OrderInv(contents, p, root) /\ CallsSound(contents, p)

-----------------------------------------------------------------------------
(* The ends of the contents of a node. *)
Ends(c) ==
    /\ UpperEnd(c) \in Int /\ EMPTY <= UpperEnd(c) /\ EMPTY \in Int /\ c.stamp \in Nat
    /\ Full(c) <=> EMPTY < UpperEnd(c)
    /\ Full(c) => /\ First(c) \in Item /\ First(c) \in Int
                  /\ First(c) <= UpperEnd(c) /\ EMPTY < First(c)
                  /\ UpperEnd(c) \in Item /\ Holds(c, First(c)) /\ Holds(c, UpperEnd(c))
    /\ \A w : Holds(c, w) => /\ Full(c) /\ w \in Item /\ w \in Int /\ EMPTY < w
                            /\ First(c) <= w /\ w <= UpperEnd(c)

LEMMA EndFacts ==
 ASSUME NEW D \in SUBSET Names, NEW l \in Nat, NEW c, Shape(D, l, c)
 PROVE  Ends(c)
<1>1. /\ c.items \in Seq(Item) /\ Len(c.items) \in Nat /\ (c.items = <<>> <=> Len(c.items) = 0)
      /\ \A i \in 1 .. Len(c.items) : c.items[i] \in Item /\ c.items[i] \in Int
      /\ \A i, j \in 1 .. Len(c.items) : i < j => c.items[i] < c.items[j]
 BY ShapeFacts
<1>2. EMPTY \in Int /\ (\A w \in Item : EMPTY < w) /\ c.stamp \in Nat
 <2>1. c.stamp \in Nat BY ShapeFacts
 <2> QED BY <2>1 DEF MultiwayAssumption, Item
<1>3. CASE c.items = <<>>
 <2>1. UpperEnd(c) = EMPTY /\ ~Full(c) BY <1>3 DEF UpperEnd, Full
 <2>2. \A w : ~Holds(c, w) BY <1>1, <1>3 DEF Holds
 <2> QED BY <1>2, <2>1, <2>2 DEF Ends
<1>4. CASE c.items # <<>>
 <2>1. PICK k : k = Len(c.items) OBVIOUS
 <2>2. k \in 1 .. Len(c.items) /\ 1 \in 1 .. Len(c.items) /\ k \in Nat BY <1>1, <1>4, <2>1
 <2>3. UpperEnd(c) = c.items[k] /\ Full(c) /\ First(c) = c.items[1]
  BY <1>4, <2>1 DEF UpperEnd, Full, First, Last
 <2>4. \A i \in 1 .. Len(c.items) : c.items[1] <= c.items[i] /\ c.items[i] <= c.items[k]
  <3>1. TAKE i \in 1 .. Len(c.items)
  <3>2. 1 = i \/ 1 < i OBVIOUS
  <3>3. i = k \/ i < k BY <2>1, <2>2
  <3>4. c.items[1] \in Int /\ c.items[i] \in Int /\ c.items[k] \in Int BY <1>1, <2>2
  <3>5. 1 < i => c.items[1] < c.items[i] BY <1>1, <2>2
  <3>6. i < k => c.items[i] < c.items[k] BY <1>1, <2>2
  <3>7. c.items[1] <= c.items[i] BY <3>2, <3>4, <3>5
  <3>8. c.items[i] <= c.items[k] BY <3>3, <3>4, <3>6
  <3> QED BY <3>7, <3>8
 <2>5. Holds(c, c.items[1]) /\ Holds(c, c.items[k]) BY <2>2 DEF Holds
 <2>6. \A w : Holds(c, w) => w \in Item /\ w \in Int /\ EMPTY < w /\ c.items[1] <= w /\ w <= c.items[k]
  BY <1>1, <1>2, <2>4 DEF Holds
 <2>7. c.items[1] \in Item /\ c.items[1] \in Int /\ c.items[k] \in Item /\ c.items[k] \in Int
       /\ EMPTY < c.items[1] /\ EMPTY < c.items[k] /\ c.items[1] <= c.items[k]
  BY <1>1, <1>2, <2>2, <2>4
 <2>8. EMPTY <= c.items[k] BY <1>2, <2>7
 <2> QED BY <1>2, <2>3, <2>5, <2>6, <2>7, <2>8 DEF Ends
<1> QED BY <1>3, <1>4

AllEnd(cts) == \A x \in DOMAIN cts : Ends(cts[x])

LEMMA TreeEnds ==
 ASSUME NEW cts, NEW rt, TreeInv(cts, rt)
 PROVE  AllEnd(cts)
<1> SUFFICES ASSUME NEW x \in DOMAIN cts PROVE Ends(cts[x]) BY DEF AllEnd
<1>1. DOMAIN cts \in SUBSET Names /\ x[1] \in Nat /\ Shape(DOMAIN cts, x[1], cts[x]) BY NodeRead
<1> QED BY <1>1, EndFacts

-----------------------------------------------------------------------------
(* The row of a level. *)
LEMMA RowFacts ==
 ASSUME NEW cts, NEW p, Numbered(cts, p), NEW x \in DOMAIN cts, NEW y \in DOMAIN cts
 PROVE  /\ ~Lt(p, x, x) /\ Le(p, x, x)
        /\ Lt(p, x, y) => x[1] = y[1] /\ Le(p, x, y) /\ ~Le(p, y, x)
        /\ Le(p, x, y) => x[1] = y[1] /\ (x = y \/ Lt(p, x, y))
        /\ x[1] = y[1] => Lt(p, x, y) \/ Le(p, y, x)
        /\ \A z \in DOMAIN cts : /\ Lt(p, x, y) /\ Lt(p, y, z) => Lt(p, x, z)
                                 /\ Lt(p, x, y) /\ Le(p, y, z) => Lt(p, x, z)
                                 /\ Le(p, x, y) /\ Lt(p, y, z) => Lt(p, x, z)
                                 /\ Le(p, x, y) /\ Le(p, y, z) => Le(p, x, z)
<1>1. p[x] \in Int /\ p[y] \in Int /\ \A z \in DOMAIN cts : p[z] \in Int BY DEF Numbered
<1>2. x[1] = y[1] /\ p[x] = p[y] => x = y BY DEF Numbered
<1> QED BY <1>1, <1>2 DEF Lt, Le

(* The items of a level ascend. *)
LEMMA ItemsAscend ==
 ASSUME NEW cts, NEW p, Numbered(cts, p), ItemsLead(cts, p), AllEnd(cts),
        NEW x \in DOMAIN cts, NEW y \in DOMAIN cts, Lt(p, x, y), Full(cts[y])
 PROVE  /\ UpperEnd(cts[x]) <= First(cts[y]) /\ UpperEnd(cts[x]) <= UpperEnd(cts[y])
        /\ \A w : Holds(cts[y], w) => UpperEnd(cts[x]) <= w
        /\ Full(cts[x]) => /\ First(cts[x]) <= First(cts[y])
                           /\ x[1] = 0 => UpperEnd(cts[x]) < First(cts[y])
<1>1. Ends(cts[x]) /\ Ends(cts[y]) BY DEF AllEnd
<1>2. UpperEnd(cts[x]) <= First(cts[y])
 <2>1. CASE Full(cts[x]) BY <2>1 DEF ItemsLead
 <2>2. CASE ~Full(cts[x]) BY <1>1, <2>2 DEF Ends
 <2> QED BY <2>1, <2>2
<1>3. Full(cts[x]) /\ x[1] = 0 => UpperEnd(cts[x]) < First(cts[y]) BY DEF ItemsLead, Lt
<1> QED BY <1>1, <1>2, <1>3 DEF Ends

-----------------------------------------------------------------------------
(* What a step may do to a level: nodes end where they ended or before,    *)
(* and a new node stands behind the one that it was split from.            *)
Moved(cts, p, cts2, p2) ==
    /\ DOMAIN cts \subseteq DOMAIN cts2
    /\ \A x, n \in DOMAIN cts : /\ Lt(p2, x, n) <=> Lt(p, x, n)
                                /\ Le(p2, x, n) <=> Le(p, x, n)
    /\ \A x \in DOMAIN cts : UpperEnd(cts2[x]) <= UpperEnd(cts[x])
    /\ \A x \in DOMAIN cts2, n \in DOMAIN cts : Lt(p2, x, n) =>
        \E y \in DOMAIN cts : /\ Lt(p, y, n) /\ UpperEnd(cts2[x]) <= UpperEnd(cts[y])
                              /\ \A a \in DOMAIN cts : Le(p2, a, x) => Le(p, a, y)

Rows(cts, p) == Numbered(cts, p) /\ AllEnd(cts)

LEMMA LowStays ==
 ASSUME NEW cts, NEW p, NEW cts2, NEW p2, Moved(cts, p, cts2, p2), AllEnd(cts), AllEnd(cts2),
        NEW n \in DOMAIN cts, NEW v \in Int, Low(cts, p, n, v)
 PROVE  Low(cts2, p2, n, v)
<1> SUFFICES ASSUME NEW x \in DOMAIN cts2, Lt(p2, x, n) PROVE UpperEnd(cts2[x]) <= v BY DEF Low
<1>1. PICK y \in DOMAIN cts : Lt(p, y, n) /\ UpperEnd(cts2[x]) <= UpperEnd(cts[y]) BY DEF Moved
<1>2. UpperEnd(cts[y]) <= v BY <1>1 DEF Low
<1>3. UpperEnd(cts2[x]) \in Int /\ UpperEnd(cts[y]) \in Int BY DEF AllEnd, Ends
<1> QED BY <1>1, <1>2, <1>3

LEMMA UptoStays ==
 ASSUME NEW cts, NEW p, NEW cts2, NEW p2, Moved(cts, p, cts2, p2), AllEnd(cts), AllEnd(cts2),
        NEW a \in DOMAIN cts, NEW b \in DOMAIN cts, NEW v \in Int, Upto(cts, p, a, b, v)
 PROVE  Upto(cts2, p2, a, b, v)
<1> SUFFICES ASSUME NEW x \in DOMAIN cts2, Le(p2, a, x), Lt(p2, x, b) PROVE UpperEnd(cts2[x]) <= v
 BY DEF Upto
<1>1. PICK y \in DOMAIN cts : Lt(p, y, b) /\ UpperEnd(cts2[x]) <= UpperEnd(cts[y]) /\ Le(p, a, y)
 BY DEF Moved
<1>2. UpperEnd(cts[y]) <= v BY <1>1 DEF Upto
<1>3. UpperEnd(cts2[x]) \in Int /\ UpperEnd(cts[y]) \in Int BY DEF AllEnd, Ends
<1> QED BY <1>1, <1>2, <1>3

(* Items of an inner level stay; so does what they bound. *)
HasStays(cts, cts2) == \A l, w : l # 0 /\ Has(cts, l, w) => Has(cts2, l, w)

LEMMA BoundedStays ==
 ASSUME NEW cts, NEW cts2, HasStays(cts, cts2), NEW l, l # 0, NEW u \in Int, NEW u2 \in Int, u2 <= u,
        Item \subseteq Int, EMPTY \in Int, NEW v, Bounded(cts, l, u, v)
 PROVE  Bounded(cts2, l, u2, v)
<1>1. CASE u <= EMPTY BY <1>1 DEF Bounded
<1>2. CASE \E w \in Item : Has(cts, l, w) /\ w < v /\ u <= w
 <2>1. PICK w \in Item : Has(cts, l, w) /\ w < v /\ u <= w BY <1>2
 <2>2. Has(cts2, l, w) /\ w \in Int BY <2>1 DEF HasStays
 <2>3. u2 <= w BY <2>1, <2>2
 <2> QED BY <2>1, <2>2, <2>3 DEF Bounded
<1> QED BY <1>1, <1>2 DEF Bounded

LEMMA PromiseStays ==
 ASSUME NEW cts, NEW p, NEW cts2, NEW p2,
        Moved(cts, p, cts2, p2), AllEnd(cts), AllEnd(cts2), HasStays(cts, cts2),
        NEW l, l # 0, NEW v, NEW d \in DOMAIN cts, Promise(cts, p, l, v, d)
 PROVE  Promise(cts2, p2, l, v, d)
<1> SUFFICES ASSUME NEW x \in DOMAIN cts2, Lt(p2, x, d) PROVE Bounded(cts2, l, UpperEnd(cts2[x]), v)
 BY DEF Promise
<1>1. PICK y \in DOMAIN cts : Lt(p, y, d) /\ UpperEnd(cts2[x]) <= UpperEnd(cts[y]) BY DEF Moved
<1>2. Bounded(cts, l, UpperEnd(cts[y]), v) BY <1>1 DEF Promise
<1>3. UpperEnd(cts2[x]) \in Int /\ UpperEnd(cts[y]) \in Int /\ EMPTY \in Int BY DEF AllEnd, Ends
<1>4. Item \subseteq Int BY ItemsAreIntegers
<1> QED BY <1>1, <1>2, <1>3, <1>4, BoundedStays

(* What a call elsewhere may rely on, whatever a step does.                *)
FirstsStay(cts, cts2, p2) ==
    \A y \in DOMAIN cts : y[1] # 0 /\ Full(cts[y]) =>
        \E z \in DOMAIN cts2 : Le(p2, y, z) /\ Full(cts2[z]) /\ First(cts2[z]) <= First(cts[y])
Straddles(cts, l, w) ==
    \E y \in DOMAIN cts : y[1] = l /\ Full(cts[y]) /\ First(cts[y]) <= w /\ w < UpperEnd(cts[y])
ItemsStay(cts, cts2) ==
    \A l, w : l # 0 /\ Has(cts, l, w) => Has(cts2, l, w) \/ Straddles(cts2, l, w)
CoveredStays(cts, p, cts2, p2) ==
    \A n \in DOMAIN cts : n[1] # 0 /\ cts2[n] = cts[n] /\ Covered(cts, p, n, UpperEnd(cts[n]))
        => Covered(cts2, p2, n, UpperEnd(cts[n]))
StampsGrow(cts, cts2) ==
    \A n \in DOMAIN cts : cts2[n] = cts[n] \/ cts[n].stamp < cts2[n].stamp
Safe(cts, p, cts2, p2) ==
    /\ Moved(cts, p, cts2, p2) /\ Rows(cts, p) /\ Rows(cts2, p2)
    /\ FirstsStay(cts, cts2, p2) /\ ItemsStay(cts, cts2)
    /\ CoveredStays(cts, p, cts2, p2) /\ StampsGrow(cts, cts2)

LEMMA BetweenStays ==
 ASSUME NEW cts, NEW p, NEW cts2, NEW p2, Safe(cts, p, cts2, p2),
        NEW q \in DOMAIN cts, q[1] # 0, NEW v \in Int, Between(cts, p, q, v)
 PROVE  Between(cts2, p2, q, v)
<1>1. Moved(cts, p, cts2, p2) /\ AllEnd(cts) /\ AllEnd(cts2) /\ Numbered(cts2, p2) /\ EMPTY < v
      /\ q \in DOMAIN cts2
 BY DEF Safe, Rows, Between, Moved
<1>2. Low(cts2, p2, q, v) BY <1>1, LowStays DEF Between
<1>3. CASE Has(cts, q[1], v)
 <2>1. CASE Has(cts2, q[1], v) BY <1>1, <1>2, <2>1 DEF Between
 <2>2. CASE Straddles(cts2, q[1], v)
  <3>1. PICK y \in DOMAIN cts2 : y[1] = q[1] /\ Full(cts2[y]) /\ First(cts2[y]) <= v /\ v < UpperEnd(cts2[y])
   BY <2>2 DEF Straddles
  <3>2. ~Lt(p2, y, q)
   <4>1. Lt(p2, y, q) => UpperEnd(cts2[y]) <= v BY <1>2 DEF Low
   <4>2. UpperEnd(cts2[y]) \in Int BY <1>1 DEF AllEnd, Ends
   <4> QED BY <3>1, <4>1, <4>2
  <3>3. Le(p2, q, y) BY <1>1, <3>1, <3>2, RowFacts
  <3> QED BY <1>1, <1>2, <3>1, <3>3 DEF Between
 <2> QED BY <1>3, <2>1, <2>2 DEF Safe, ItemsStay
<1>4. CASE \E y \in DOMAIN cts : Le(p, q, y) /\ Full(cts[y]) /\ First(cts[y]) <= v
 <2>1. PICK y \in DOMAIN cts : Le(p, q, y) /\ Full(cts[y]) /\ First(cts[y]) <= v BY <1>4
 <2>2. y[1] # 0 /\ Le(p2, q, y) /\ y \in DOMAIN cts2 BY <1>1, <2>1 DEF Le, Moved
 <2>3. PICK z \in DOMAIN cts2 : Le(p2, y, z) /\ Full(cts2[z]) /\ First(cts2[z]) <= First(cts[y])
  BY <2>1, <2>2 DEF Safe, FirstsStay
 <2>4. Le(p2, q, z) BY <1>1, <2>2, <2>3, RowFacts
 <2>5. First(cts2[z]) \in Int /\ First(cts[y]) \in Int BY <1>1, <2>1, <2>3 DEF AllEnd, Ends
 <2>6. First(cts2[z]) <= v BY <2>1, <2>3, <2>5
 <2> QED BY <1>1, <1>2, <2>3, <2>4, <2>6 DEF Between
<1> QED BY <1>3, <1>4 DEF Between

LEMMA AfterStays ==
 ASSUME NEW cts, NEW p, NEW cts2, NEW p2, Safe(cts, p, cts2, p2),
        NEW q \in DOMAIN cts, q[1] # 0, NEW v \in Int, After(cts, p, q, v)
 PROVE  After(cts2, p2, q, v)
<1>1. Moved(cts, p, cts2, p2) /\ AllEnd(cts) /\ AllEnd(cts2) /\ Numbered(cts2, p2) /\ EMPTY < v
      /\ q \in DOMAIN cts2
 BY DEF Safe, Rows, After, Moved
<1>2. Low(cts2, p2, q, v) BY <1>1, LowStays DEF After
<1>5. UpperEnd(cts2[q]) <= v /\ UpperEnd(cts2[q]) \in Int
 <2>1. UpperEnd(cts2[q]) <= UpperEnd(cts[q]) /\ UpperEnd(cts[q]) <= v BY <1>1 DEF Moved, After
 <2>2. UpperEnd(cts2[q]) \in Int /\ UpperEnd(cts[q]) \in Int BY <1>1 DEF AllEnd, Ends
 <2> QED BY <2>1, <2>2
<1>3. CASE Has(cts, q[1], v)
 <2>1. CASE Has(cts2, q[1], v) BY <1>1, <1>2, <1>5, <2>1 DEF After
 <2>2. CASE Straddles(cts2, q[1], v)
  <3>1. PICK y \in DOMAIN cts2 : y[1] = q[1] /\ Full(cts2[y]) /\ First(cts2[y]) <= v /\ v < UpperEnd(cts2[y])
   BY <2>2 DEF Straddles
  <3>2. ~Lt(p2, y, q) /\ y # q
   <4>1. Lt(p2, y, q) => UpperEnd(cts2[y]) <= v BY <1>2 DEF Low
   <4>2. UpperEnd(cts2[y]) \in Int BY <1>1 DEF AllEnd, Ends
   <4> QED BY <1>5, <3>1, <4>1, <4>2
  <3>3. Lt(p2, q, y) BY <1>1, <3>1, <3>2, RowFacts
  <3> QED BY <1>1, <1>2, <1>5, <3>1, <3>3 DEF After
 <2> QED BY <1>3, <2>1, <2>2 DEF Safe, ItemsStay
<1>4. CASE \E y \in DOMAIN cts : Lt(p, q, y) /\ Full(cts[y]) /\ First(cts[y]) <= v
 <2>1. PICK y \in DOMAIN cts : Lt(p, q, y) /\ Full(cts[y]) /\ First(cts[y]) <= v BY <1>4
 <2>2. y[1] # 0 /\ Lt(p2, q, y) /\ y \in DOMAIN cts2 BY <1>1, <2>1 DEF Lt, Moved
 <2>3. PICK z \in DOMAIN cts2 : Le(p2, y, z) /\ Full(cts2[z]) /\ First(cts2[z]) <= First(cts[y])
  BY <2>1, <2>2 DEF Safe, FirstsStay
 <2>4. Lt(p2, q, z) BY <1>1, <2>2, <2>3, RowFacts
 <2>5. First(cts2[z]) \in Int /\ First(cts[y]) \in Int BY <1>1, <2>1, <2>3 DEF AllEnd, Ends
 <2>6. First(cts2[z]) <= v BY <2>1, <2>3, <2>5
 <2> QED BY <1>1, <1>2, <1>5, <2>3, <2>4, <2>6 DEF After
<1> QED BY <1>3, <1>4 DEF After

-----------------------------------------------------------------------------
(* A call elsewhere goes on relying on what it relied on.                  *)
LEMMA SafeFacts ==
 ASSUME NEW cts, NEW p, NEW cts2, NEW p2, Safe(cts, p, cts2, p2)
 PROVE  /\ DOMAIN cts \subseteq DOMAIN cts2 /\ Numbered(cts, p) /\ Numbered(cts2, p2)
        /\ AllEnd(cts) /\ AllEnd(cts2) /\ Moved(cts, p, cts2, p2)
        /\ \A x, n \in DOMAIN cts : /\ Lt(p, x, n) => Lt(p2, x, n)
                                    /\ Le(p, x, n) => Le(p2, x, n)
        /\ \A n \in DOMAIN cts, v \in Int : Low(cts, p, n, v) => Low(cts2, p2, n, v)
        /\ \A a, b \in DOMAIN cts, v \in Int : Upto(cts, p, a, b, v) => Upto(cts2, p2, a, b, v)
        /\ \A q \in DOMAIN cts, v \in Int : q[1] # 0 /\ Between(cts, p, q, v) => Between(cts2, p2, q, v)
        /\ \A q \in DOMAIN cts, v \in Int : q[1] # 0 /\ After(cts, p, q, v) => After(cts2, p2, q, v)
        /\ \A q \in DOMAIN cts, v \in Int : BarrierHolds(cts, p, q, v) => BarrierHolds(cts2, p2, q, v)
        /\ \A q \in DOMAIN cts, v \in Int : BarrierAfter(cts, p, q, v) => BarrierAfter(cts2, p2, q, v)
        /\ \A x \in DOMAIN cts : /\ UpperEnd(cts2[x]) <= UpperEnd(cts[x])
                                 /\ UpperEnd(cts2[x]) \in Int /\ UpperEnd(cts[x]) \in Int
<1>1. DOMAIN cts \subseteq DOMAIN cts2 /\ Numbered(cts, p) /\ Numbered(cts2, p2)
      /\ AllEnd(cts) /\ AllEnd(cts2) /\ Moved(cts, p, cts2, p2)
 BY DEF Safe, Rows, Moved
<1>2. \A x, n \in DOMAIN cts : /\ Lt(p, x, n) => Lt(p2, x, n)
                               /\ Le(p, x, n) => Le(p2, x, n)
 BY DEF Safe, Moved
<1>3. \A n \in DOMAIN cts, v \in Int : Low(cts, p, n, v) => Low(cts2, p2, n, v) BY <1>1, LowStays
<1>4. \A a, b \in DOMAIN cts, v \in Int : Upto(cts, p, a, b, v) => Upto(cts2, p2, a, b, v)
 BY <1>1, UptoStays
<1>5. \A q \in DOMAIN cts, v \in Int : q[1] # 0 /\ Between(cts, p, q, v) => Between(cts2, p2, q, v)
 BY BetweenStays
<1>6. \A q \in DOMAIN cts, v \in Int : q[1] # 0 /\ After(cts, p, q, v) => After(cts2, p2, q, v)
 BY AfterStays
<1>7. \A q \in DOMAIN cts, v \in Int : BarrierHolds(cts, p, q, v) => BarrierHolds(cts2, p2, q, v)
 BY <1>5 DEF BarrierHolds
<1>8. \A q \in DOMAIN cts, v \in Int : BarrierAfter(cts, p, q, v) => BarrierAfter(cts2, p2, q, v)
 BY <1>6 DEF BarrierAfter
<1>9. \A x \in DOMAIN cts : UpperEnd(cts2[x]) <= UpperEnd(cts[x]) BY DEF Safe, Moved
<1>10. \A x \in DOMAIN cts : UpperEnd(cts2[x]) \in Int /\ UpperEnd(cts[x]) \in Int
 BY <1>1 DEF AllEnd, Ends
<1> QED BY <1>1, <1>2, <1>3, <1>4, <1>5, <1>6, <1>7, <1>8, <1>9, <1>10

LEMMA OnWayStays ==
 ASSUME NEW cts, NEW p, NEW cts2, NEW p2, Safe(cts, p, cts2, p2),
        NEW m, m.node \in DOMAIN cts \cup {NoNode}, NEW key \in Int, OnWay(cts, p, m, key)
 PROVE  OnWay(cts2, p2, m, key)
<1>1. key - 1 \in Int OBVIOUS
<1>2. m.node # NoNode => Low(cts2, p2, m.node, key - 1) BY <1>1, SafeFacts DEF OnWay
<1>3. ASSUME NEW i \in DOMAIN m.results, m.results[i].node # NoNode
      PROVE  m.results[i].node \in DOMAIN cts2 /\ Low(cts2, p2, m.results[i].node, key - 1)
 <2>1. m.results[i].node \in DOMAIN cts /\ Low(cts, p, m.results[i].node, key - 1) BY <1>3 DEF OnWay
 <2> QED BY <1>1, <2>1, SafeFacts
<1> QED BY <1>2, <1>3 DEF OnWay

LEMMA CleansStays ==
 ASSUME NEW cts, NEW p, NEW cts2, NEW p2, Safe(cts, p, cts2, p2),
        NEW m, m.node \in DOMAIN cts, NEW key \in Int, ChildFor(m.cts, key) \in DOMAIN cts,
        m.barrier \in Int
 PROVE  /\ DescendsWell(cts, p, m, key) => DescendsWell(cts2, p2, m, key)
        /\ CleansWell(cts, p, m, key) => CleansWell(cts2, p2, m, key)
<1>1. key - 1 \in Int OBVIOUS
<1>2. DescendsWell(cts, p, m, key) => DescendsWell(cts2, p2, m, key)
 BY <1>1, SafeFacts DEF DescendsWell
<1>3. BarrierHolds(cts, p, m.node, m.barrier) => BarrierHolds(cts2, p2, m.node, m.barrier)
 BY SafeFacts
<1> QED BY <1>2, <1>3 DEF CleansWell

LEMMA LinksStays ==
 ASSUME NEW cts, NEW p, NEW cts2, NEW p2, Safe(cts, p, cts2, p2),
        NEW m, m.node \in DOMAIN cts, NEW key \in Int, m.barrier \in Int,
        m.height # 0 => ChildFor(m.cts, key) \in DOMAIN cts,
        NEW l, l = "link" => m.edit.link \in DOMAIN cts /\ m.push \in DOMAIN cts,
        LinksWell(cts, p, l, m, key)
 PROVE  LinksWell(cts2, p2, l, m, key)
<1>1. key - 1 \in Int /\ EMPTY \in Int BY DEF MultiwayAssumption
<1>2. m.height = 0 => UpperEnd(cts2[m.node]) < key
 <2>1. UpperEnd(cts2[m.node]) <= UpperEnd(cts[m.node])
       /\ UpperEnd(cts2[m.node]) \in Int /\ UpperEnd(cts[m.node]) \in Int
  BY SafeFacts
 <2>2. m.height = 0 => UpperEnd(cts[m.node]) < key BY DEF LinksWell
 <2> QED BY <2>1, <2>2
<1>3. m.height # 0 => DescendsWell(cts2, p2, m, key) BY CleansStays DEF LinksWell
<1>4. ASSUME l = "link"
      PROVE  /\ Lt(p2, m.node, m.edit.link) /\ Le(p2, m.edit.link, m.push)
             /\ Upto(cts2, p2, m.edit.link, m.push, EMPTY)
             /\ m.height = 0 => /\ Low(cts2, p2, m.edit.link, key - 1)
                                /\ BarrierHolds(cts2, p2, m.edit.link, m.barrier)
 BY <1>1, <1>4, SafeFacts DEF LinksWell
<1>5. l = "linkRead" /\ m.height = 0 => BarrierAfter(cts2, p2, m.node, m.barrier)
 BY SafeFacts DEF LinksWell
<1> QED BY <1>2, <1>3, <1>4, <1>5 DEF LinksWell

LEMMA StampsStay ==
 ASSUME NEW cts, NEW p, NEW cts2, NEW p2, Safe(cts, p, cts2, p2), NEW n \in DOMAIN cts,
        NEW e, e.stamp \in Nat, e.stamp <= cts[n].stamp
 PROVE  /\ e.stamp <= cts2[n].stamp
        /\ cts2[n] = e => cts[n] = e /\ cts2[n] = cts[n]
<1>1. cts2[n] = cts[n] \/ cts[n].stamp < cts2[n].stamp BY DEF Safe, StampsGrow
<1>2. n \in DOMAIN cts2 BY DEF Safe, Moved
<1>3. cts[n].stamp \in Nat /\ cts2[n].stamp \in Nat BY <1>2 DEF Safe, Rows, AllEnd, Ends
<1>4. e.stamp <= cts2[n].stamp BY <1>1, <1>3
<1>5. ASSUME cts2[n] = e PROVE cts2[n] = cts[n]
 <2>1. cts2[n].stamp = e.stamp BY <1>5
 <2> QED BY <1>1, <1>3, <2>1
<1> QED BY <1>4, <1>5

LEMMA SlidesStays ==
 ASSUME NEW cts, NEW p, NEW cts2, NEW p2, Safe(cts, p, cts2, p2),
        NEW m, m.node \in DOMAIN cts, m.node[1] # 0, Ends(m.edit),
        NEW l, l # "unslide" => Target(l, m) \in DOMAIN cts,
        l \in {"nephew", "shiftNephew"} => m.sibling.cts.children[1] \in DOMAIN cts /\ m.push \in DOMAIN cts,
        SlidesWell(cts, p, l, m)
 PROVE  SlidesWell(cts2, p2, l, m)
<1>1. EMPTY \in Int /\ LastOf(m) \in Int /\ m.edit.stamp \in Nat
 BY DEF MultiwayAssumption, Ends, LastOf
<1>2. l # "unslide" => Lt(p2, m.node, Target(l, m)) /\ Between(cts2, p2, Target(l, m), LastOf(m))
 <2>1. HAVE l # "unslide"
 <2>2. Lt(p, m.node, Target(l, m)) /\ Between(cts, p, Target(l, m), LastOf(m))
  BY <2>1 DEF SlidesWell
 <2>3. Target(l, m)[1] # 0 BY <2>2 DEF Lt
 <2> QED BY <1>1, <2>1, <2>2, <2>3, SafeFacts
<1>3. l \in {"nephew", "shiftNephew"} =>
          /\ Le(p2, m.sibling.cts.children[1], m.push)
          /\ Upto(cts2, p2, m.sibling.cts.children[1], m.push, LowEnd(m.sibling.cts, LastOf(m)))
 <2>1. LowEnd(m.sibling.cts, LastOf(m)) \in Int BY <1>1 DEF LowEnd
 <2>2. HAVE l \in {"nephew", "shiftNephew"}
 <2>3. /\ Le(p, m.sibling.cts.children[1], m.push)
       /\ Upto(cts, p, m.sibling.cts.children[1], m.push, LowEnd(m.sibling.cts, LastOf(m)))
  BY <2>2 DEF SlidesWell
 <2> QED BY <2>1, <2>2, <2>3, SafeFacts
<1>4. m.edit.stamp <= cts[m.node].stamp BY DEF SlidesWell
<1>5. m.edit.stamp <= cts2[m.node].stamp /\ (cts2[m.node] = m.edit => cts[m.node] = m.edit /\ cts2[m.node] = cts[m.node])
 BY <1>1, <1>4, StampsStay
<1>6. cts[m.node] = m.edit /\ cts2[m.node] = cts[m.node] /\ Covered(cts, p, m.node, LastOf(m))
          => Covered(cts2, p2, m.node, LastOf(m))
 BY DEF Safe, CoveredStays, LastOf
<1>7. (l \in {"nephew", "slide"} /\ Holds(m.sibling.cts, LastOf(m))) \/ l = "unslide" =>
          (cts2[m.node] = m.edit => Covered(cts2, p2, m.node, LastOf(m)))
 BY <1>5, <1>6 DEF SlidesWell
<1> QED BY <1>2, <1>3, <1>5, <1>7 DEF SlidesWell

LEMMA AdjustsStays ==
 ASSUME NEW cts, NEW p, NEW cts2, NEW p2, Safe(cts, p, cts2, p2),
        NEW m, m.node \in DOMAIN cts, Ends(m.edit), NEW key, NEW l,
        \A q \in 1 .. Len(Effective(l, m)) :
             /\ Effective(l, m)[q] \in DOMAIN cts
             /\ m.edit.children[Adjusting(m.edit, key)[q]] \in DOMAIN cts
             /\ BarrierOf(m.edit, Adjusting(m.edit, key)[q], m.barrier) \in Int,
        AdjustsWell(cts, p, l, m, key)
 PROVE  AdjustsWell(cts2, p2, l, m, key)
<1>1. m.edit.stamp \in Nat BY DEF Ends
<1>2. m.edit.stamp <= cts2[m.node].stamp BY <1>1, StampsStay DEF AdjustsWell
<1>3. ASSUME NEW q \in 1 .. Len(Effective(l, m)) PROVE PushedWell(cts2, p2, m, key, q, Effective(l, m)[q])
 <2>1. PICK e : e = Effective(l, m)[q] OBVIOUS
 <2>2. PICK j : j = Adjusting(m.edit, key)[q] OBVIOUS
 <2>3. Le(p, m.edit.children[j], e) /\ Upto(cts, p, m.edit.children[j], e, BarrierOf(m.edit, j, m.barrier))
  BY <2>1, <2>2 DEF AdjustsWell, PushedWell
 <2>4. e \in DOMAIN cts /\ m.edit.children[j] \in DOMAIN cts /\ BarrierOf(m.edit, j, m.barrier) \in Int
  BY <2>1, <2>2
 <2>5. Le(p2, m.edit.children[j], e) /\ Upto(cts2, p2, m.edit.children[j], e, BarrierOf(m.edit, j, m.barrier))
  BY <2>3, <2>4, SafeFacts
 <2> QED BY <2>1, <2>2, <2>5 DEF PushedWell
<1> QED BY <1>2, <1>3 DEF AdjustsWell

-----------------------------------------------------------------------------
(* The nodes that a call works with, seen through pushRight and moveForward.*)
LEMMA CallOf ==
 ASSUME NEW cts, NEW rt, TreeInv(cts, rt), NEW l, NEW m, NEW c, LocalInv(cts, l, m, c), l # "idle"
 PROVE  /\ DOMAIN cts \in SUBSET Names /\ m \in LocalsSet /\ c \in Abstract!SetCalls
        /\ {m.node, m.push, m.right} \subseteq DOMAIN cts \cup {NoNode}
        /\ c.key \in Keys /\ c.key \in Int /\ EMPTY < c.key /\ m.barrier \in Int
        /\ Placed(cts, l, m, c)
<1>1. Typed(DOMAIN cts, l, m, c) /\ Placed(cts, l, m, c) /\ DOMAIN cts \in SUBSET Names
 BY DEF LocalInv, TreeInv
<1>2. m \in LocalsSet /\ c \in Abstract!SetCalls /\ {m.node, m.push, m.right} \subseteq DOMAIN cts \cup {NoNode}
 BY <1>1 DEF Typed
<1>3. c.key \in Keys BY <1>2 DEF Abstract!SetCalls
<1>4. PICK k : k = c.key OBVIOUS
<1>5. k \in Int /\ EMPTY < k BY <1>3, <1>4 DEF MultiwayAssumption
<1>6. m.barrier \in Int BY <1>2 DEF LocalsSet
<1> QED BY <1>1, <1>2, <1>3, <1>4, <1>5, <1>6

LEMMA LinkNodes ==
 ASSUME NEW cts, NEW rt, TreeInv(cts, rt), NEW l, NEW m, NEW c,
        LocalInv(cts, l, m, c), At(l, m) \in {"link", "linkRead"}, l # "idle"
 PROVE  /\ m.node \in DOMAIN cts
        /\ m.height # 0 => ChildFor(m.cts, c.key) \in DOMAIN cts
        /\ At(l, m) = "link" => m.edit.link \in DOMAIN cts /\ m.push \in DOMAIN cts
<1>1. PICK D : D = DOMAIN cts OBVIOUS
<1>2. AtLink(cts, D, l, m, c) /\ D \in SUBSET Names /\ c.key \in Keys /\ m \in LocalsSet
 BY <1>1, CallOf DEF Placed
<1>3. m.node \in D BY <1>2 DEF AtLink
<1>4. m.height # 0 => ChildFor(m.cts, c.key) \in D
 <2>1. HAVE m.height # 0
 <2>2. m.level \in Nat BY <1>2 DEF LocalsSet
 <2>3. HasPlace(D, m.level, m.cts, c.key) /\ m.level # 0
  BY <1>2, <2>1, <2>2 DEF AtLink, Visits, Walks
 <2>4. On(D, ChildFor(m.cts, c.key), m.level - 1) BY <1>2, <2>2, <2>3, ChildIsOn
 <2> QED BY <2>4 DEF On
<1>5. At(l, m) = "link" => m.edit.link \in D /\ m.push \in D
 <2>1. HAVE At(l, m) = "link"
 <2>2. Shape(D, m.node[1], m.edit) /\ m.edit.link # NoNode /\ On(D, m.push, m.node[1])
  BY <1>2, <2>1 DEF AtLink
 <2> QED BY <2>2 DEF Shape, LinkOK, On
<1> QED BY <1>1, <1>3, <1>4, <1>5

LEMMA PlaceOnInner ==
 ASSUME NEW D \in SUBSET Names, NEW m \in LocalsSet, NEW c, c.key \in Keys,
        OnInner(D, m), Walks(D, m, c.key) \/ Removes(D, m, c)
 PROVE  /\ m.node \in D /\ m.node[1] \in Nat /\ m.node[1] # 0
        /\ HasPlace(D, m.node[1], m.cts, c.key)
        /\ On(D, ChildFor(m.cts, c.key), m.node[1] - 1)
<1>1. m.node \in D /\ m.node[1] \in Nat /\ m.node[1] # 0 BY DEF OnInner, Names
<1>2. HasPlace(D, m.node[1], m.cts, c.key) BY DEF Walks, Removes
<1> QED BY <1>1, <1>2, ChildIsOn

LEMMA SlideNodes ==
 ASSUME NEW cts, NEW rt, TreeInv(cts, rt), NEW l, NEW m, NEW c,
        LocalInv(cts, l, m, c), At(l, m) \in {"sibling", "nephew", "shiftNephew", "slide", "unslide"},
        l # "idle"
 PROVE  /\ m.node \in DOMAIN cts /\ m.node[1] # 0 /\ m.node[1] \in Nat /\ Ends(m.edit)
        /\ HasPlace(DOMAIN cts, m.node[1], m.edit, c.key) /\ m.edit.link # NoNode
        /\ ChildFor(m.cts, c.key) \in DOMAIN cts
        /\ Target(At(l, m), m) \in DOMAIN cts
        /\ At(l, m) # "sibling" => SiblingRead(DOMAIN cts, m) /\ m.sibling.node \in DOMAIN cts
        /\ At(l, m) # "sibling" => m.sibling.cts.children[1] \in DOMAIN cts
        /\ At(l, m) \in {"nephew", "shiftNephew"} => m.push \in DOMAIN cts
<1>1. PICK D : D = DOMAIN cts OBVIOUS
<1>2. AtSlide(cts, D, l, m, c) /\ D \in SUBSET Names /\ c.key \in Keys /\ m \in LocalsSet
 BY <1>1, CallOf DEF Placed
<1>3. Slides(D, m, c) BY <1>2 DEF AtSlide
<1>4. OnInner(D, m) /\ (Walks(D, m, c.key) \/ Removes(D, m, c)) /\ HasPlace(D, m.node[1], m.edit, c.key)
      /\ m.edit.link # NoNode
 BY <1>3 DEF Slides
<1>5. m.node \in D /\ m.node[1] # 0 /\ m.node[1] \in Nat /\ On(D, ChildFor(m.cts, c.key), m.node[1] - 1)
 BY <1>2, <1>4, PlaceOnInner
<1>6. Ends(m.edit) BY <1>2, <1>4, <1>5, EndFacts DEF HasPlace
<1>7. ASSUME At(l, m) # "sibling"
      PROVE  SiblingRead(D, m) /\ m.sibling.node \in D /\ m.sibling.cts.children[1] \in D
 <2>1. SiblingRead(D, m) BY <1>2, <1>7 DEF AtSlide
 <2>2. PICK s : s = m.sibling.cts OBVIOUS
 <2>3. m.node[1] >= 1 BY <1>5
 <2>4. /\ Len(s.items) \in Nat /\ Len(s.items) >= 1
       /\ \A i \in 1 .. Len(s.items) : On(D, s.children[i], m.node[1] - 1)
       /\ On(D, m.sibling.node, m.node[1])
  BY <1>2, <1>5, <2>1, <2>2, <2>3, SiblingIs
 <2>5. On(D, s.children[1], m.node[1] - 1) BY <2>4
 <2> QED BY <2>1, <2>2, <2>4, <2>5 DEF On
<1>8. At(l, m) = "sibling" => m.push \in D BY <1>2 DEF AtSlide, On
<1>9. At(l, m) \in {"nephew", "shiftNephew"} => m.push \in D BY <1>2 DEF AtSlide, On
<1>10. Target(At(l, m), m) \in D BY <1>7, <1>8 DEF Target
<1> QED BY <1>1, <1>4, <1>5, <1>6, <1>7, <1>9, <1>10 DEF On

LEMMA AdjustNodes ==
 ASSUME NEW cts, NEW rt, TreeInv(cts, rt), NEW l, NEW m, NEW c,
        LocalInv(cts, l, m, c), At(l, m) \in {"adjust", "shift"}, l # "idle",
        NEW a, a = Effective(At(l, m), m)
 PROVE  /\ m.node \in DOMAIN cts /\ m.node[1] # 0 /\ m.node[1] \in Nat /\ Ends(m.edit)
        /\ ChildFor(m.cts, c.key) \in DOMAIN cts /\ HasPlace(DOMAIN cts, m.node[1], m.edit, c.key)
        /\ a \in Seq(Names) /\ Len(a) <= Len(Adjusting(m.edit, c.key)) /\ Len(a) \in Nat
        /\ Len(Adjusting(m.edit, c.key)) \in 1 .. 2
        /\ At(l, m) = "shift" => Len(a) = Len(Adjusting(m.edit, c.key))
        /\ \A q \in 1 .. Len(a) :
             /\ a[q] \in DOMAIN cts
             /\ Adjusting(m.edit, c.key)[q] \in 1 .. Len(m.edit.items)
             /\ m.edit.children[Adjusting(m.edit, c.key)[q]] \in DOMAIN cts
             /\ BarrierOf(m.edit, Adjusting(m.edit, c.key)[q], m.barrier) \in Int
<1>1. PICK D : D = DOMAIN cts OBVIOUS
<1>2. PICK k : k = Len(Adjusting(m.edit, c.key)) OBVIOUS
<1>3. AtAdjust(D, l, m, c) /\ D \in SUBSET Names /\ c.key \in Keys /\ m \in LocalsSet /\ m.barrier \in Int
 BY <1>1, CallOf DEF Placed
<1>4. Adjusts(D, m, c) BY <1>3 DEF AtAdjust
<1>5. OnInner(D, m) /\ Removes(D, m, c) /\ HasPlace(D, m.node[1], m.edit, c.key) BY <1>4 DEF Adjusts
<1>6. m.node \in D /\ m.node[1] # 0 /\ m.node[1] \in Nat /\ On(D, ChildFor(m.cts, c.key), m.node[1] - 1)
 BY <1>3, <1>5, PlaceOnInner
<1>7. Ends(m.edit) /\ Shape(D, m.node[1], m.edit) BY <1>3, <1>5, <1>6, EndFacts DEF HasPlace
<1>8. k \in 1 .. 2 /\ \A q \in 1 .. k : Adjusting(m.edit, c.key)[q] \in 1 .. Len(m.edit.items)
 <2>1. PICK key : key = c.key OBVIOUS
 <2>2. PICK e : e = m.edit OBVIOUS
 <2>3. PICK ll : ll = m.node[1] OBVIOUS
 <2>4. ll \in Nat /\ key \in Keys /\ HasPlace(D, ll, e, key) /\ D \in SUBSET Names
  BY <1>3, <1>5, <1>6, <2>1, <2>2, <2>3
 <2>5. /\ Len(Adjusting(e, key)) \in 1 .. 2
       /\ \A q \in 1 .. Len(Adjusting(e, key)) : Adjusting(e, key)[q] \in 1 .. Len(e.items)
  BY <2>4, AdjustingFacts
 <2> QED BY <1>2, <2>1, <2>2, <2>5
<1>9. m.adjusted \in Seq(Names) /\ \A q \in 1 .. Len(m.adjusted) : m.adjusted[q] \in D
 BY <1>3, <1>4 DEF LocalsSet, Adjusts, On
<1>10. /\ a \in Seq(Names) /\ Len(a) <= k /\ Len(a) \in Nat
       /\ At(l, m) = "shift" => Len(a) = k
       /\ \A q \in 1 .. Len(a) : a[q] \in D
 <2>1. CASE At(l, m) = "adjust"
  <3>1. Len(m.adjusted) < k /\ m.push \in D BY <1>2, <1>3, <2>1 DEF AtAdjust, On
  <3>2. PICK s, e : s = m.adjusted /\ e = m.push OBVIOUS
  <3>3. a = Append(s, e) /\ s \in Seq(Names) /\ e \in Names /\ e \in D /\ \A q \in 1 .. Len(s) : s[q] \in D
   BY <1>3, <1>9, <2>1, <3>1, <3>2 DEF Effective
  <3>4. a \in Seq(Names) /\ Len(a) = Len(s) + 1 /\ \A q \in 1 .. Len(a) : a[q] \in D BY <3>3
  <3>5. Len(s) \in Nat /\ Len(s) < k BY <3>1, <3>2, <3>3
  <3>6. Len(s) + 1 <= k BY <1>8, <3>5
  <3> QED BY <2>1, <3>4, <3>5, <3>6
 <2>2. CASE At(l, m) = "shift"
  <3>1. Len(m.adjusted) = k /\ a = m.adjusted BY <1>2, <1>3, <2>2 DEF AtAdjust, Effective
  <3> QED BY <1>8, <1>9, <3>1
 <2> QED BY <2>1, <2>2
<1>11. ASSUME NEW q \in 1 .. Len(a)
       PROVE  /\ Adjusting(m.edit, c.key)[q] \in 1 .. Len(m.edit.items)
              /\ m.edit.children[Adjusting(m.edit, c.key)[q]] \in D
              /\ BarrierOf(m.edit, Adjusting(m.edit, c.key)[q], m.barrier) \in Int
 <2>1. PICK e : e = m.edit OBVIOUS
 <2>2. PICK j : j = Adjusting(m.edit, c.key)[q] OBVIOUS
 <2>3. q \in 1 .. k BY <1>8, <1>10
 <2>4. j \in 1 .. Len(e.items) BY <1>8, <2>1, <2>2, <2>3
 <2>5. /\ Len(e.items) \in Nat /\ \A i \in 1 .. Len(e.items) : e.items[i] \in Int
       /\ \A i \in 1 .. Len(e.items) : On(D, e.children[i], m.node[1] - 1)
  BY <1>3, <1>6, <1>7, <2>1, ShapeFacts
 <2>6. e.children[j] \in D BY <2>4, <2>5 DEF On
 <2>7. BarrierOf(e, j, m.barrier) \in Int
  <3>1. EMPTY \in Int BY <1>7 DEF Ends
  <3>2. j > 1 => j - 1 \in 1 .. Len(e.items) BY <2>4, <2>5
  <3> QED BY <1>3, <2>4, <2>5, <3>1, <3>2 DEF BarrierOf
 <2> QED BY <2>1, <2>2, <2>4, <2>6, <2>7
<1> QED BY <1>1, <1>2, <1>5, <1>6, <1>7, <1>8, <1>10, <1>11 DEF On

LEMMA CleanNodes ==
 ASSUME NEW cts, NEW rt, TreeInv(cts, rt), NEW m, NEW c, LocalInv(cts, "cleanAgain", m, c)
 PROVE  m.node \in DOMAIN cts /\ ChildFor(m.cts, c.key) \in DOMAIN cts /\ m.node[1] # 0
<1>1. PICK D : D = DOMAIN cts OBVIOUS
<1>2. /\ D \in SUBSET Names /\ c.key \in Keys /\ m \in LocalsSet
      /\ OnInner(D, m) /\ Removes(D, m, c)
 BY <1>1, CallOf DEF Placed
<1> QED BY <1>1, <1>2, PlaceOnInner DEF On

LEMMA SoundStays ==
 ASSUME NEW cts, NEW p, NEW cts2, NEW p2, Safe(cts, p, cts2, p2),
        NEW rt, TreeInv(cts, rt), NEW pcl, NEW m, NEW c, LocalInv(cts, pcl, m, c), pcl # "idle",
        Sound(cts, p, pcl, m, c.key)
 PROVE  Sound(cts2, p2, pcl, m, c.key)
<1>1. PICK l : l = At(pcl, m) OBVIOUS
<1>2. PICK key : key = c.key OBVIOUS
<1>3. /\ DOMAIN cts \in SUBSET Names /\ m \in LocalsSet /\ m.barrier \in Int /\ key \in Int
      /\ {m.node, m.push, m.right} \subseteq DOMAIN cts \cup {NoNode} /\ Placed(cts, pcl, m, c)
 BY <1>2, CallOf
<1>4. OnWay(cts2, p2, m, key)
 <2>1. OnWay(cts, p, m, key) BY <1>2 DEF Sound
 <2>2. m.node \in DOMAIN cts \cup {NoNode} BY <1>3
 <2> QED BY <1>3, <2>1, <2>2, OnWayStays
<1>5. l = "visit" /\ m.height = 0 => BarrierHolds(cts2, p2, m.node, m.barrier)
 <2>1. HAVE l = "visit" /\ m.height = 0
 <2>2. BarrierHolds(cts, p, m.node, m.barrier) BY <1>1, <2>1 DEF Sound
 <2>3. pcl = "visit" BY <1>1, <1>3, <2>1 DEF Placed, At
 <2>4. m.node \in DOMAIN cts BY <1>3, <2>3 DEF Placed
 <2> QED BY <1>3, <2>2, <2>4, SafeFacts
<1>6. l \in {"link", "linkRead"} => LinksWell(cts2, p2, l, m, key)
 <2>1. HAVE l \in {"link", "linkRead"}
 <2>2. LinksWell(cts, p, l, m, key) BY <1>1, <1>2, <2>1 DEF Sound
 <2>3. /\ m.node \in DOMAIN cts
       /\ m.height # 0 => ChildFor(m.cts, key) \in DOMAIN cts
       /\ l = "link" => m.edit.link \in DOMAIN cts /\ m.push \in DOMAIN cts
  BY <1>1, <1>2, <2>1, LinkNodes
 <2> QED BY <1>3, <2>2, <2>3, LinksStays
<1>7. l \in {"sibling", "nephew", "shiftNephew", "slide", "unslide"} =>
          CleansWell(cts2, p2, m, key) /\ SlidesWell(cts2, p2, l, m)
 <2>1. HAVE l \in {"sibling", "nephew", "shiftNephew", "slide", "unslide"}
 <2>2. CleansWell(cts, p, m, key) /\ SlidesWell(cts, p, l, m) BY <1>1, <1>2, <2>1 DEF Sound
 <2>3. /\ m.node \in DOMAIN cts /\ m.node[1] # 0 /\ Ends(m.edit)
       /\ ChildFor(m.cts, key) \in DOMAIN cts /\ Target(l, m) \in DOMAIN cts
       /\ l # "sibling" => m.sibling.cts.children[1] \in DOMAIN cts
       /\ l \in {"nephew", "shiftNephew"} => m.push \in DOMAIN cts
  BY <1>1, <1>2, <2>1, SlideNodes
 <2>4. CleansWell(cts2, p2, m, key) BY <1>3, <2>2, <2>3, CleansStays
 <2>5. SlidesWell(cts2, p2, l, m) BY <2>2, <2>3, SlidesStays
 <2> QED BY <2>4, <2>5
<1>8. l \in {"adjust", "shift"} => CleansWell(cts2, p2, m, key) /\ AdjustsWell(cts2, p2, l, m, key)
 <2>1. HAVE l \in {"adjust", "shift"}
 <2>2. CleansWell(cts, p, m, key) /\ AdjustsWell(cts, p, l, m, key) BY <1>1, <1>2, <2>1 DEF Sound
 <2>3. /\ m.node \in DOMAIN cts /\ Ends(m.edit)
       /\ ChildFor(m.cts, key) \in DOMAIN cts
       /\ \A q \in 1 .. Len(Effective(l, m)) :
             /\ Effective(l, m)[q] \in DOMAIN cts
             /\ m.edit.children[Adjusting(m.edit, key)[q]] \in DOMAIN cts
             /\ BarrierOf(m.edit, Adjusting(m.edit, key)[q], m.barrier) \in Int
  BY <1>1, <1>2, <2>1, AdjustNodes
 <2>4. CleansWell(cts2, p2, m, key) BY <1>3, <2>2, <2>3, CleansStays
 <2>5. AdjustsWell(cts2, p2, l, m, key) BY <2>2, <2>3, AdjustsStays
 <2> QED BY <2>4, <2>5
<1>9. l = "cleanAgain" => CleansWell(cts2, p2, m, key)
 <2>1. HAVE l = "cleanAgain"
 <2>2. pcl = "cleanAgain" BY <1>1, <1>3, <2>1 DEF Placed, At
 <2>3. m.node \in DOMAIN cts /\ ChildFor(m.cts, key) \in DOMAIN cts BY <1>2, <2>2, CleanNodes
 <2>4. CleansWell(cts, p, m, key) BY <1>1, <1>2, <2>1 DEF Sound
 <2> QED BY <1>3, <2>3, <2>4, CleansStays
<1>10. l = "raise" => Low(cts2, p2, m.right, key)
 <2>1. HAVE l = "raise"
 <2>2. Low(cts, p, m.right, key) BY <1>1, <1>2, <2>1 DEF Sound
 <2>3. m.right \in DOMAIN cts BY <1>1, <1>3, <2>1 DEF Placed, AtIndex, On
 <2> QED BY <1>3, <2>2, <2>3, SafeFacts
<1>11. pcl = "push" => PushesWell(l, m, key) BY <1>1, <1>2 DEF Sound
<1> QED BY <1>1, <1>2, <1>4, <1>5, <1>6, <1>7, <1>8, <1>9, <1>10, <1>11 DEF Sound

-----------------------------------------------------------------------------
(* What slides over, and the node that drops an item.                      *)
LEMMA EndsBeforeStays ==
 ASSUME NEW cts, NEW p, NEW cts2, NEW p2, Moved(cts, p, cts2, p2), AllEnd(cts),
        NEW q \in DOMAIN cts, NEW v \in Int, Low(cts, p, q, v), EndsBefore(cts2, p2, q, v)
 PROVE  EndsBefore(cts, p, q, v)
<1>1. PICK x \in DOMAIN cts2 : Lt(p2, x, q) /\ UpperEnd(cts2[x]) = v BY DEF EndsBefore
<1>2. PICK y \in DOMAIN cts : Lt(p, y, q) /\ UpperEnd(cts2[x]) <= UpperEnd(cts[y]) BY <1>1 DEF Moved
<1>3. UpperEnd(cts[y]) <= v /\ UpperEnd(cts[y]) \in Int BY <1>2 DEF Low, AllEnd, Ends
<1>4. UpperEnd(cts[y]) = v BY <1>1, <1>2, <1>3
<1> QED BY <1>2, <1>4 DEF EndsBefore

LEMMA CarriesStay ==
 ASSUME NEW cts, NEW p, NEW cts2, NEW p2, Safe(cts, p, cts2, p2),
        HasStays(cts, cts2), NEW q \in DOMAIN cts, q[1] # 0, NEW v \in Int, NEW d \in DOMAIN cts,
        Between(cts, p, q, v), Carries(cts, p, q, v, d)
 PROVE  Carries(cts2, p2, q, v, d)
<1> SUFFICES ASSUME EndsBefore(cts2, p2, q, v) PROVE Promise(cts2, p2, q[1], v, d) BY DEF Carries
<1>1. Moved(cts, p, cts2, p2) /\ AllEnd(cts) /\ AllEnd(cts2) BY SafeFacts
<1>2. Low(cts, p, q, v) BY DEF Between
<1>3. Promise(cts, p, q[1], v, d) BY <1>1, <1>2, EndsBeforeStays DEF Carries
<1> QED BY <1>1, <1>3, PromiseStays

LEMMA SlidingNodes ==
 ASSUME NEW cts, NEW p, NEW rt, TreeInv(cts, rt), NEW pcl, NEW m, NEW c,
        LocalInv(cts, pcl, m, c), pcl # "idle", At(pcl, m) \in Sliding, Sound(cts, p, pcl, m, c.key)
 PROVE  /\ Target(At(pcl, m), m) \in DOMAIN cts /\ Target(At(pcl, m), m)[1] # 0
        /\ LastOf(m) \in Int /\ LastChildOf(m) \in DOMAIN cts
        /\ Between(cts, p, Target(At(pcl, m), m), LastOf(m))
        /\ m.node \in DOMAIN cts /\ Lt(p, m.node, Target(At(pcl, m), m))
        /\ m.edit.items # <<>> /\ Len(m.edit.items) \in Nat /\ Len(m.edit.items) >= 1
        /\ LastChildOf(m) = m.edit.children[Len(m.edit.items)]
<1>1. PICK D : D = DOMAIN cts OBVIOUS
<1>2. At(pcl, m) \in {"sibling", "nephew", "shiftNephew", "slide", "unslide"} /\ At(pcl, m) # "unslide"
 BY DEF Sliding
<1>3. /\ m.node \in D /\ m.node[1] # 0 /\ m.node[1] \in Nat /\ Ends(m.edit)
      /\ HasPlace(D, m.node[1], m.edit, c.key) /\ m.edit.link # NoNode /\ Target(At(pcl, m), m) \in D
 BY <1>1, <1>2, SlideNodes
<1>4. Lt(p, m.node, Target(At(pcl, m), m)) /\ Between(cts, p, Target(At(pcl, m), m), LastOf(m))
 BY <1>2 DEF Sound, SlidesWell
<1>5. Target(At(pcl, m), m)[1] # 0 BY <1>3, <1>4 DEF Lt
<1>6. LastOf(m) \in Int BY <1>3 DEF LastOf, Ends
<1>7. D \in SUBSET Names /\ c.key \in Keys BY <1>1, CallOf
<1>8. PICK e : e = m.edit OBVIOUS
<1>9. /\ e.items # <<>> /\ Len(e.items) \in Nat /\ Len(e.items) >= 1
      /\ On(D, Last(e.children), m.node[1] - 1)
 BY <1>3, <1>7, <1>8, LastItemFacts
<1>10. Len(e.children) = Len(e.items) BY <1>3, <1>8 DEF HasPlace, Shape, ChildrenOK
<1>11. LastChildOf(m) \in D /\ LastChildOf(m) = e.children[Len(e.items)]
 BY <1>8, <1>9, <1>10 DEF LastChildOf, On, Last
<1> QED BY <1>1, <1>3, <1>4, <1>5, <1>6, <1>8, <1>9, <1>11

LEMMA CarriesWellStays ==
 ASSUME NEW cts, NEW p, NEW cts2, NEW p2, Safe(cts, p, cts2, p2),
        HasStays(cts, cts2), NEW rt, TreeInv(cts, rt), NEW pcl, NEW m, NEW c,
        LocalInv(cts, pcl, m, c), pcl # "idle",
        Sound(cts, p, pcl, m, c.key), CarriesWell(cts, p, At(pcl, m), m)
 PROVE  CarriesWell(cts2, p2, At(pcl, m), m)
<1> SUFFICES ASSUME At(pcl, m) \in Sliding
             PROVE  Carries(cts2, p2, Target(At(pcl, m), m), LastOf(m), LastChildOf(m))
 BY DEF CarriesWell
<1>1. Carries(cts, p, Target(At(pcl, m), m), LastOf(m), LastChildOf(m)) BY DEF CarriesWell
<1>2. /\ Target(At(pcl, m), m) \in DOMAIN cts /\ Target(At(pcl, m), m)[1] # 0
      /\ LastOf(m) \in Int /\ LastChildOf(m) \in DOMAIN cts
      /\ Between(cts, p, Target(At(pcl, m), m), LastOf(m))
 BY SlidingNodes
<1> QED BY <1>1, <1>2, CarriesStay

(* The node that drops its last but one item has not changed.              *)
LEMMA DropsLastIs ==
 ASSUME NEW cts, NEW p, NEW rt, TreeInv(cts, rt), NEW pcl, NEW m, NEW c,
        LocalInv(cts, pcl, m, c), Sound(cts, p, pcl, m, c.key), pcl \in {"adjust", "shift"}
 PROVE  /\ m.node \in DOMAIN cts /\ m.node[1] # 0 /\ Ends(m.edit)
        /\ m.edit.stamp \in Nat /\ m.edit.stamp <= cts[m.node].stamp
        /\ Len(Effective(pcl, m)) = 2 => Effective(pcl, m)[2] \in DOMAIN cts
<1>1. At(pcl, m) = pcl BY DEF At
<1>2. PICK a : a = Effective(At(pcl, m), m) OBVIOUS
<1>3. /\ m.node \in DOMAIN cts /\ m.node[1] # 0 /\ Ends(m.edit)
      /\ \A q \in 1 .. Len(a) : a[q] \in DOMAIN cts
 BY <1>1, <1>2, AdjustNodes
<1>4. m.edit.stamp <= cts[m.node].stamp BY <1>1 DEF Sound, AdjustsWell
<1>5. m.edit.stamp \in Nat BY <1>3 DEF Ends
<1> QED BY <1>1, <1>2, <1>3, <1>4, <1>5

LEMMA DropsLastStays ==
 ASSUME NEW cts, NEW p, NEW cts2, NEW p2, Safe(cts, p, cts2, p2),
        NEW rt, TreeInv(cts, rt), NEW pcl, NEW m, NEW c,
        LocalInv(cts, pcl, m, c), Sound(cts, p, pcl, m, c.key), DropsLast(cts2, pcl, m, c.key)
 PROVE  /\ DropsLast(cts, pcl, m, c.key) /\ cts2[m.node] = cts[m.node] /\ cts[m.node] = m.edit
        /\ m.node \in DOMAIN cts /\ m.node[1] # 0 /\ Effective(pcl, m)[2] \in DOMAIN cts
<1>1. pcl \in {"adjust", "shift"} /\ cts2[m.node] = m.edit /\ Len(Effective(pcl, m)) = 2
 BY DEF DropsLast
<1>2. /\ m.node \in DOMAIN cts /\ m.node[1] # 0
      /\ m.edit.stamp \in Nat /\ m.edit.stamp <= cts[m.node].stamp
      /\ Effective(pcl, m)[2] \in DOMAIN cts
 BY <1>1, DropsLastIs
<1>3. cts[m.node] = m.edit /\ cts2[m.node] = cts[m.node] BY <1>1, <1>2, StampsStay
<1> QED BY <1>2, <1>3 DEF DropsLast

LEMMA SlidesKeepStays ==
 ASSUME NEW cts, NEW p, NEW cts2, NEW p2, Safe(cts, p, cts2, p2),
        NEW rt, TreeInv(cts, rt), NEW pcl, NEW m, NEW c,
        LocalInv(cts, pcl, m, c), Sound(cts, p, pcl, m, c.key),
        NEW pcu, NEW mu, NEW cu, LocalInv(cts, pcu, mu, cu), pcu # "idle", Sound(cts, p, pcu, mu, cu.key),
        SlidesKeep(cts, p, pcl, m, c.key, At(pcu, mu), mu)
 PROVE  SlidesKeep(cts2, p2, pcl, m, c.key, At(pcu, mu), mu)
<1> SUFFICES ASSUME DropsLast(cts2, pcl, m, c.key), At(pcu, mu) \in Sliding,
                    Lt(p2, m.node, Target(At(pcu, mu), mu)), LastOf(mu) = LastOf(m)
             PROVE  Upto(cts2, p2, Effective(pcl, m)[2], LastChildOf(mu), EMPTY)
 BY DEF SlidesKeep
<1>1. /\ DropsLast(cts, pcl, m, c.key) /\ m.node \in DOMAIN cts
      /\ Effective(pcl, m)[2] \in DOMAIN cts
 BY DropsLastStays
<1>2. Target(At(pcu, mu), mu) \in DOMAIN cts /\ LastChildOf(mu) \in DOMAIN cts BY SlidingNodes
<1>3. Lt(p, m.node, Target(At(pcu, mu), mu)) BY <1>1, <1>2 DEF Safe, Moved
<1>4. Upto(cts, p, Effective(pcl, m)[2], LastChildOf(mu), EMPTY) BY <1>1, <1>3 DEF SlidesKeep
<1>5. EMPTY \in Int BY DEF MultiwayAssumption
<1> QED BY <1>1, <1>2, <1>4, <1>5, SafeFacts

(* The children for an item that nodes to the right of n lead to, in the   *)
(* new tree: such children of the old tree, or what e is not beyond.       *)
LEMMA UptoJoin ==
 ASSUME NEW cts, NEW p, Numbered(cts, p), NEW a \in DOMAIN cts, NEW b \in DOMAIN cts, NEW d \in DOMAIN cts,
        NEW v, Upto(cts, p, a, b, v), Upto(cts, p, b, d, v), b[1] = d[1] \/ a[1] = b[1]
 PROVE  Upto(cts, p, a, d, v)
<1> SUFFICES ASSUME NEW x \in DOMAIN cts, Le(p, a, x), Lt(p, x, d) PROVE UpperEnd(cts[x]) <= v
 BY DEF Upto
<1>1. x[1] = b[1] BY DEF Le, Lt
<1>2. CASE Lt(p, x, b) BY <1>2 DEF Upto
<1>3. CASE Le(p, b, x) BY <1>3 DEF Upto
<1> QED BY <1>1, <1>2, <1>3, RowFacts

LeadsFrom(cts, p, n, v, d) ==
    \E f \in DOMAIN cts, b \in DOMAIN cts :
        Lt(p, n, f) /\ Leads(cts[f], v, b) /\ b[1] = d[1] /\ Upto(cts, p, b, d, EMPTY)

LEMMA TwinsStay ==
 ASSUME NEW cts, NEW p, NEW cts2, NEW p2, Safe(cts, p, cts2, p2),
        NEW rt, TreeInv(cts, rt), NEW pcl, NEW m, NEW c,
        LocalInv(cts, pcl, m, c), Sound(cts, p, pcl, m, c.key), TwinsKeep(cts, p, pcl, m, c.key),
        DropsLast(cts, pcl, m, c.key) /\ cts2[m.node] = cts[m.node] =>
            \A f \in DOMAIN cts2 : \A d : Lt(p2, m.node, f) /\ Leads(cts2[f], LastOf(m), d) =>
                 /\ d \in DOMAIN cts
                 /\ LeadsFrom(cts, p, m.node, LastOf(m), d)
                         \/ Upto(cts, p, Effective(pcl, m)[2], d, EMPTY)
 PROVE  TwinsKeep(cts2, p2, pcl, m, c.key)
<1> SUFFICES ASSUME DropsLast(cts2, pcl, m, c.key),
                    NEW f \in DOMAIN cts2, NEW d, Lt(p2, m.node, f), Leads(cts2[f], LastOf(m), d)
             PROVE  Upto(cts2, p2, Effective(pcl, m)[2], d, EMPTY)
 BY DEF TwinsKeep
<1>1. /\ DropsLast(cts, pcl, m, c.key) /\ m.node \in DOMAIN cts /\ cts2[m.node] = cts[m.node]
      /\ Effective(pcl, m)[2] \in DOMAIN cts
 BY DropsLastStays
<1>2. d \in DOMAIN cts /\ (LeadsFrom(cts, p, m.node, LastOf(m), d)
                              \/ Upto(cts, p, Effective(pcl, m)[2], d, EMPTY))
 BY <1>1
<1>3. Upto(cts, p, Effective(pcl, m)[2], d, EMPTY)
 <2>1. SUFFICES ASSUME LeadsFrom(cts, p, m.node, LastOf(m), d)
                PROVE  Upto(cts, p, Effective(pcl, m)[2], d, EMPTY)
  BY <1>2
 <2>2. PICK g \in DOMAIN cts, b \in DOMAIN cts :
             Lt(p, m.node, g) /\ Leads(cts[g], LastOf(m), b) /\ b[1] = d[1] /\ Upto(cts, p, b, d, EMPTY)
  BY <2>1 DEF LeadsFrom
 <2>3. Upto(cts, p, Effective(pcl, m)[2], b, EMPTY) BY <1>1, <2>2 DEF TwinsKeep
 <2>4. Numbered(cts, p) BY SafeFacts
 <2> QED BY <1>1, <1>2, <2>2, <2>3, <2>4, UptoJoin
<1>4. EMPTY \in Int BY DEF MultiwayAssumption
<1> QED BY <1>1, <1>2, <1>3, <1>4, SafeFacts

-----------------------------------------------------------------------------
(* One node changes.                                                       *)
OneNode(cts, cts2, n, new) ==
    /\ n \in DOMAIN cts /\ DOMAIN cts2 = DOMAIN cts /\ cts2[n] = new
    /\ \A x \in DOMAIN cts \ {n} : cts2[x] = cts[x]

LEMMA OneNodeIs ==
 ASSUME NEW cts, NEW n \in DOMAIN cts, NEW new
 PROVE  OneNode(cts, [cts EXCEPT ![n] = new], n, new)
 BY DEF OneNode

LEMMA OneNodeMoves ==
 ASSUME NEW cts, NEW p, NEW cts2, NEW n, NEW new, OneNode(cts, cts2, n, new), Rows(cts, p), AllEnd(cts2),
        UpperEnd(new) <= UpperEnd(cts[n])
 PROVE  Moved(cts, p, cts2, p) /\ Rows(cts2, p)
        /\ \A x \in DOMAIN cts : UpperEnd(cts2[x]) <= UpperEnd(cts[x])
<1>1. DOMAIN cts2 = DOMAIN cts /\ AllEnd(cts) /\ Numbered(cts, p) BY DEF OneNode, Rows
<1>2. \A x \in DOMAIN cts : UpperEnd(cts2[x]) <= UpperEnd(cts[x])
 <2>1. TAKE x \in DOMAIN cts
 <2>2. UpperEnd(cts[x]) \in Int BY <1>1 DEF AllEnd, Ends
 <2> QED BY <2>2 DEF OneNode
<1>3. Rows(cts2, p) BY <1>1 DEF Rows, Numbered
<1>4. ASSUME NEW x \in DOMAIN cts2, NEW a \in DOMAIN cts, Lt(p, x, a)
      PROVE  \E y \in DOMAIN cts : /\ Lt(p, y, a) /\ UpperEnd(cts2[x]) <= UpperEnd(cts[y])
                                   /\ \A b \in DOMAIN cts : Le(p, b, x) => Le(p, b, y)
 BY <1>1, <1>2, <1>4
<1> QED BY <1>1, <1>2, <1>3, <1>4 DEF Moved

LEMMA LeadsIn ==
 ASSUME NEW D \in SUBSET Names, NEW l \in Nat, l # 0, NEW c, Shape(D, l, c),
        NEW w, NEW d, Leads(c, w, d)
 PROVE  d \in D /\ d[1] = l - 1 /\ w \in Item /\ w \in Int /\ Holds(c, w)
<1>1. PICK i \in 1 .. Len(c.items) : c.items[i] = w /\ c.children[i] = d BY DEF Leads
<1>2. On(D, c.children[i], l - 1) /\ c.items[i] \in Item /\ c.items[i] \in Int BY ShapeFacts
<1> QED BY <1>1, <1>2 DEF On, Holds

(* A level stays in order when one of its nodes changes.                   *)
KeepsPromises(cts, p, cts2, n) ==
    \A x \in DOMAIN cts \ {n} : x[1] # 0 =>
        \A w, d : Leads(cts[x], w, d) => Promise(cts2, p, x[1], w, d)

LEMMA PromisesKept ==
 ASSUME NEW cts, NEW p, NEW rt, TreeInv(cts, rt), OrderInv(cts, p, rt),
        NEW cts2, NEW p2, Moved(cts, p, cts2, p2), AllEnd(cts2), HasStays(cts, cts2),
        NEW x \in DOMAIN cts, x[1] # 0, NEW w, NEW d, Leads(cts[x], w, d)
 PROVE  Promise(cts2, p2, x[1], w, d)
<1>1. Promise(cts, p, x[1], w, d) /\ AllEnd(cts) BY TreeEnds DEF OrderInv, ChildrenLead
<1>2. DOMAIN cts \in SUBSET Names /\ x[1] \in Nat /\ Shape(DOMAIN cts, x[1], cts[x]) BY NodeRead
<1>3. d \in DOMAIN cts BY <1>2, LeadsIn
<1> QED BY <1>1, <1>3, PromiseStays

LEMMA OneNodeOrder ==
 ASSUME NEW cts, NEW p, NEW rt, TreeInv(cts, rt), OrderInv(cts, p, rt),
        NEW cts2, NEW n, NEW new, OneNode(cts, cts2, n, new), TreeInv(cts2, rt),
        UpperEnd(new) <= UpperEnd(cts[n]), KeepsPromises(cts, p, cts2, n),
        new.link = NoNode => \A x \in DOMAIN cts : ~Lt(p, n, x),
        new.link # NoNode =>
             /\ Lt(p, n, new.link)
             /\ \A x \in DOMAIN cts : Lt(p, n, x) /\ Lt(p, x, new.link) => ~Full(cts[x]),
        \A x \in DOMAIN cts : Lt(p, x, n) /\ Full(cts[x]) /\ Full(new) =>
             /\ UpperEnd(cts[x]) <= First(new)
             /\ n[1] = 0 => UpperEnd(cts[x]) < First(new),
        n[1] # 0 => \A w, d : Leads(new, w, d) => Promise(cts2, p, n[1], w, d)
 PROVE  OrderInv(cts2, p, rt)
<1>1. AllEnd(cts) /\ AllEnd(cts2) /\ Rows(cts, p) BY TreeEnds DEF OrderInv, Rows
<1>2. Moved(cts, p, cts2, p) /\ Rows(cts2, p) /\ \A x \in DOMAIN cts : UpperEnd(cts2[x]) <= UpperEnd(cts[x])
 BY <1>1, OneNodeMoves
<1>3. n \in DOMAIN cts /\ DOMAIN cts2 = DOMAIN cts /\ cts2[n] = new /\ \A x \in DOMAIN cts \ {n} : cts2[x] = cts[x]
 BY DEF OneNode
<1>4. \A x \in DOMAIN cts : Full(cts2[x]) => Full(cts[x])
 <2>1. TAKE x \in DOMAIN cts
 <2>2. Ends(cts[x]) /\ Ends(cts2[x]) BY <1>1, <1>3 DEF AllEnd
 <2> QED BY <1>2, <2>2 DEF Ends
<1>5. LinksLead(cts2, p)
 <2>1. LinksLead(cts, p) BY DEF OrderInv
 <2>2. \A x \in DOMAIN cts \ {n} :
         /\ cts2[x].link = NoNode => \A y \in DOMAIN cts : ~Lt(p, x, y)
         /\ cts2[x].link # NoNode => /\ Lt(p, x, cts2[x].link)
                                     /\ \A y \in DOMAIN cts : Lt(p, x, y) /\ Lt(p, y, cts2[x].link) => ~Full(cts2[y])
  BY <1>3, <1>4, <2>1 DEF LinksLead
 <2>3. /\ cts2[n].link = NoNode => \A y \in DOMAIN cts : ~Lt(p, n, y)
       /\ cts2[n].link # NoNode => /\ Lt(p, n, cts2[n].link)
                                   /\ \A y \in DOMAIN cts : Lt(p, n, y) /\ Lt(p, y, cts2[n].link) => ~Full(cts2[y])
  BY <1>3, <1>4
 <2> QED BY <1>3, <2>2, <2>3 DEF LinksLead
<1>6. ItemsLead(cts2, p)
 <2> SUFFICES ASSUME NEW x \in DOMAIN cts, NEW y \in DOMAIN cts, Lt(p, x, y), Full(cts2[x]), Full(cts2[y])
              PROVE  /\ UpperEnd(cts2[x]) <= First(cts2[y])
                     /\ y[1] = 0 => UpperEnd(cts2[x]) < First(cts2[y])
  BY <1>3 DEF ItemsLead
 <2>1. Full(cts[x]) /\ Full(cts[y]) BY <1>4
 <2>2. UpperEnd(cts[x]) <= First(cts2[y]) /\ (y[1] = 0 => UpperEnd(cts[x]) < First(cts2[y]))
  <3>1. CASE y = n BY <1>3, <2>1, <3>1
  <3>2. CASE y # n
   <4>1. cts2[y] = cts[y] BY <1>3, <3>2
   <4>2. ItemsLead(cts, p) BY DEF OrderInv
   <4> QED BY <2>1, <4>1, <4>2 DEF ItemsLead
  <3> QED BY <3>1, <3>2
 <2>3. UpperEnd(cts2[x]) <= UpperEnd(cts[x]) BY <1>2
 <2>4. UpperEnd(cts[x]) \in Int /\ UpperEnd(cts2[x]) \in Int /\ First(cts2[y]) \in Int
  BY <1>1, <1>3 DEF AllEnd, Ends
 <2> QED BY <2>2, <2>3, <2>4
<1>7. ChildrenLead(cts2, p)
 <2> SUFFICES ASSUME NEW x \in DOMAIN cts, x[1] # 0, NEW w, NEW d, Leads(cts2[x], w, d)
              PROVE  Promise(cts2, p, x[1], w, d)
  BY <1>3 DEF ChildrenLead
 <2>1. CASE x = n BY <1>3, <2>1
 <2>2. CASE x # n
  <3>1. Leads(cts[x], w, d) BY <1>3, <2>2
  <3> QED BY <2>2, <3>1 DEF KeepsPromises
 <2> QED BY <2>1, <2>2
<1>8. RootLeads(cts2, p, rt) BY <1>3 DEF OrderInv, RootLeads
<1> QED BY <1>2, <1>5, <1>6, <1>7, <1>8 DEF OrderInv, Rows

(* The node keeps its items, or is a leaf.                                 *)
ItemsKept(n, c, new) ==
    /\ UpperEnd(new) <= UpperEnd(c) /\ c.stamp < new.stamp
    /\ n[1] # 0 => \A w : Holds(c, w) => Holds(new, w)

LEMMA KeptIsSafe ==
 ASSUME NEW cts, NEW p, NEW cts2, NEW n, NEW new, OneNode(cts, cts2, n, new),
        Rows(cts, p), AllEnd(cts2), ItemsKept(n, cts[n], new)
 PROVE  Safe(cts, p, cts2, p) /\ HasStays(cts, cts2)
<1>1. Moved(cts, p, cts2, p) /\ Rows(cts2, p) BY OneNodeMoves DEF ItemsKept
<1>2. n \in DOMAIN cts /\ DOMAIN cts2 = DOMAIN cts /\ cts2[n] = new /\ \A x \in DOMAIN cts \ {n} : cts2[x] = cts[x]
 BY DEF OneNode
<1>3. \A x \in DOMAIN cts : x[1] # 0 => \A w : Holds(cts[x], w) => Holds(cts2[x], w)
 BY <1>2 DEF ItemsKept
<1>4. HasStays(cts, cts2) BY <1>2, <1>3 DEF HasStays, Has
<1>5. FirstsStay(cts, cts2, p)
 <2> SUFFICES ASSUME NEW y \in DOMAIN cts, y[1] # 0, Full(cts[y])
              PROVE  Le(p, y, y) /\ Full(cts2[y]) /\ First(cts2[y]) <= First(cts[y])
  BY <1>2 DEF FirstsStay
 <2>1. Ends(cts[y]) /\ Ends(cts2[y]) /\ Numbered(cts, p) BY <1>2 DEF Rows, AllEnd
 <2>2. Holds(cts2[y], First(cts[y])) BY <1>3, <2>1 DEF Ends
 <2> QED BY <2>1, <2>2, RowFacts DEF Ends
<1>6. ItemsStay(cts, cts2) BY <1>4 DEF HasStays, ItemsStay
<1>7. CoveredStays(cts, p, cts2, p) BY <1>2, <1>3 DEF CoveredStays, Covered, Lt
<1>8. StampsGrow(cts, cts2) BY <1>2 DEF StampsGrow, ItemsKept
<1> QED BY <1>1, <1>4, <1>5, <1>6, <1>7, <1>8 DEF Safe

-----------------------------------------------------------------------------
(* What the array helpers make of the items and the children.              *)
AddedAs(c, i, key, child, k, new) ==
    /\ new.items = InsertAt(c.items, i, key) /\ new.link = c.link /\ new.stamp = c.stamp + 1
    /\ new.children = IF IsLeaf(c) THEN NoChildren ELSE InsertAt(c.children, k, child)
    /\ i \in 1 .. Len(c.items) /\ Len(new.items) = Len(c.items) + 1 /\ Len(c.items) \in Nat
    /\ \A j \in 1 .. Len(c.items) + 1 :
            new.items[j] = IF j < i THEN c.items[j] ELSE IF j = i THEN key ELSE c.items[j - 1]
    /\ \A j \in 1 .. Len(c.items) : c.items[j] \in Int /\ (j < i <=> c.items[j] < key) /\ c.items[j] # key

LEMMA AddedItems ==
 ASSUME NEW D \in SUBSET Names, NEW l \in Nat, NEW c, NEW key \in Keys,
        HasPlace(D, l, c, key), ~Found(c, key), NEW child, NEW i, i = Index(c, key), NEW k,
        NEW new, new = Added(c, i, key, child, k)
 PROVE  AddedAs(c, i, key, child, k, new)
<1>1. Shape(D, l, c) /\ ~Beyond(c, key) /\ key \in Item /\ key \in Int
 BY DEF HasPlace, Item, MultiwayAssumption
<1>2. /\ c \in ContentsSet /\ c.items \in Seq(Item) /\ ItemsOK(c) /\ Len(c.items) \in Nat
      /\ \A j \in 1 .. Len(c.items) : c.items[j] \in Int
 BY <1>1, ShapeFacts
<1>3. i \in 1 .. Len(c.items) BY <1>1, <1>2, BeyondFacts
<1>4. \A j \in 1 .. Len(c.items) : (j < i <=> c.items[j] < key) BY <1>1, <1>2, IndexFacts
<1>5. \A j \in 1 .. Len(c.items) : c.items[j] # key BY <1>1, <1>2, FoundFacts
<1>6. PICK ch : ch = IF IsLeaf(c) THEN NoChildren ELSE InsertAt(c.children, k, child) OBVIOUS
<1>7. PICK s : s = InsertAt(c.items, i, key) OBVIOUS
<1>8. new = Made(s, ch, c.link, c.stamp + 1, c.stamp + 1, c.stamp + 1)
 BY <1>2, <1>6, <1>7, NewContentsAre DEF Added
<1>9. new.items = s /\ new.link = c.link /\ new.stamp = c.stamp + 1 /\ new.children = ch
 BY <1>8 DEF Made
<1>10. i \in 1 .. Len(c.items) + 1 BY <1>2, <1>3
<1>11. /\ Len(s) = Len(c.items) + 1
       /\ \A j \in 1 .. Len(c.items) + 1 :
              s[j] = IF j < i THEN c.items[j] ELSE IF j = i THEN key ELSE c.items[j - 1]
 <2>1. PICK d : d = c.items OBVIOUS
 <2>2. d \in Seq(Item) /\ i \in 1 .. Len(d) + 1 /\ s = InsertAt(d, i, key)
  BY <1>2, <1>7, <1>10, <2>1
 <2>3. /\ Len(s) = Len(d) + 1
       /\ \A j \in 1 .. Len(d) + 1 : s[j] = IF j < i THEN d[j] ELSE IF j = i THEN key ELSE d[j - 1]
  BY <1>1, <2>2, InsertAtFacts
 <2> QED BY <2>1, <2>3
<1> QED BY <1>2, <1>3, <1>4, <1>5, <1>6, <1>7, <1>9, <1>11 DEF AddedAs

AddedHas(c, key, new) ==
    /\ \A w : Holds(new, w) <=> Holds(c, w) \/ w = key
    /\ Full(c) /\ Full(new) /\ First(new) = (IF key < First(c) THEN key ELSE First(c)) /\ key \in Int
    /\ new.link = c.link /\ c.stamp < new.stamp

LEMMA AddedHolds ==
 ASSUME NEW D \in SUBSET Names, NEW l \in Nat, NEW c, NEW key \in Keys,
        HasPlace(D, l, c, key), ~Found(c, key), NEW child, NEW k,
        NEW new, new = Added(c, Index(c, key), key, child, k)
 PROVE  AddedHas(c, key, new)
<1>1. PICK i : i = Index(c, key) OBVIOUS
<1>11. new = Added(c, i, key, child, k) BY <1>1
<1>2. /\ new.link = c.link /\ new.stamp = c.stamp + 1
      /\ i \in 1 .. Len(c.items) /\ Len(new.items) = Len(c.items) + 1 /\ Len(c.items) \in Nat
      /\ \A j \in 1 .. Len(c.items) + 1 :
              new.items[j] = IF j < i THEN c.items[j] ELSE IF j = i THEN key ELSE c.items[j - 1]
      /\ \A j \in 1 .. Len(c.items) : c.items[j] \in Int /\ (j < i <=> c.items[j] < key) /\ c.items[j] # key
 <2>1. AddedAs(c, i, key, child, k, new) BY <1>1, <1>11, AddedItems
 <2> QED BY <2>1 DEF AddedAs
<1>3. \A w : Holds(new, w) => Holds(c, w) \/ w = key
 <2> SUFFICES ASSUME NEW w, Holds(new, w), w # key PROVE Holds(c, w) OBVIOUS
 <2>1. PICK j \in 1 .. Len(c.items) + 1 : new.items[j] = w BY <1>2 DEF Holds
 <2>2. CASE j < i
  <3>1. j \in 1 .. Len(c.items) /\ c.items[j] = w BY <1>2, <2>1, <2>2
  <3> QED BY <3>1 DEF Holds
 <2>3. CASE j > i
  <3>1. j - 1 \in 1 .. Len(c.items) /\ c.items[j - 1] = w BY <1>2, <2>1, <2>3
  <3> QED BY <3>1 DEF Holds
 <2>4. j # i BY <1>2, <2>1
 <2> QED BY <1>2, <2>2, <2>3, <2>4
<1>4. \A w : Holds(c, w) => Holds(new, w)
 <2> SUFFICES ASSUME NEW w, Holds(c, w) PROVE Holds(new, w) OBVIOUS
 <2>1. PICK j \in 1 .. Len(c.items) : c.items[j] = w BY DEF Holds
 <2>2. CASE j < i
  <3>1. j \in 1 .. Len(new.items) /\ new.items[j] = w BY <1>2, <2>1, <2>2
  <3> QED BY <3>1 DEF Holds
 <2>3. CASE j >= i
  <3>1. j + 1 \in 1 .. Len(new.items) /\ new.items[j + 1] = c.items[j + 1 - 1] /\ j + 1 - 1 = j
   BY <1>2, <2>1, <2>3
  <3> QED BY <2>1, <3>1 DEF Holds
 <2> QED BY <1>2, <2>2, <2>3
<1>5. Holds(new, key)
 <2>1. i \in 1 .. Len(new.items) /\ new.items[i] = key BY <1>2
 <2> QED BY <2>1 DEF Holds
<1>6. Full(c) /\ Full(new)
 <2>1. c.items # <<>> /\ new.items # <<>>
  <3>1. Len(c.items) # 0 /\ Len(new.items) # 0 BY <1>2
  <3> QED BY <3>1
 <2> QED BY <2>1 DEF Full
<1>7. key \in Int BY DEF MultiwayAssumption
<1>8. First(new) = (IF key < First(c) THEN key ELSE First(c))
 <2>1. 1 \in 1 .. Len(c.items) /\ 1 \in 1 .. Len(c.items) + 1 BY <1>2
 <2>2. new.items[1] = IF 1 < i THEN c.items[1] ELSE IF 1 = i THEN key ELSE c.items[1 - 1]
  BY <1>2, <2>1
 <2>3. c.items[1] \in Int /\ (1 < i <=> c.items[1] < key) /\ c.items[1] # key BY <1>2, <2>1
 <2> QED BY <1>2, <1>7, <2>2, <2>3 DEF First
<1>9. c.stamp \in Nat BY ShapeFacts DEF HasPlace
<1>10. c.stamp < new.stamp BY <1>2, <1>9
<1> QED BY <1>2, <1>3, <1>4, <1>5, <1>6, <1>7, <1>8, <1>10 DEF AddedHas

LEMMA ChildrenInserted ==
 ASSUME NEW d \in Seq(Names), NEW k \in 1 .. Len(d) + 1, NEW child \in Names
 PROVE  \A j \in 1 .. Len(d) + 1 :
         InsertAt(d, k, child)[j] = IF j < k THEN d[j] ELSE IF j = k THEN child ELSE d[j - 1]
 BY ONLY d \in Seq(Names), k \in 1 .. Len(d) + 1, child \in Names, InsertAtFacts

LEMMA SlidInLeads ==
 ASSUME NEW D \in SUBSET Names, NEW l \in Nat, l # 0, NEW c, NEW key \in Keys,
        HasPlace(D, l, c, key), ~Found(c, key), Index(c, key) = 1, NEW child \in Names,
        NEW new, new = Added(c, 1, key, child, 1)
 PROVE  \A w, d : Leads(new, w, d) => Leads(c, w, d) \/ (w = key /\ d = child)
<1>1. /\ new.children = IF IsLeaf(c) THEN NoChildren ELSE InsertAt(c.children, 1, child)
      /\ Len(new.items) = Len(c.items) + 1 /\ Len(c.items) \in Nat
      /\ \A j \in 1 .. Len(c.items) + 1 :
              new.items[j] = IF j < 1 THEN c.items[j] ELSE IF j = 1 THEN key ELSE c.items[j - 1]
 <2>1. PICK i, k : i = 1 /\ k = 1 OBVIOUS
 <2>2. i = Index(c, key) /\ new = Added(c, i, key, child, k) BY <2>1
 <2>3. /\ new.children = IF IsLeaf(c) THEN NoChildren ELSE InsertAt(c.children, k, child)
       /\ Len(new.items) = Len(c.items) + 1 /\ Len(c.items) \in Nat
       /\ \A j \in 1 .. Len(c.items) + 1 :
             new.items[j] = IF j < i THEN c.items[j] ELSE IF j = i THEN key ELSE c.items[j - 1]
  <3>1. AddedAs(c, i, key, child, k, new) BY <2>2, AddedItems
  <3> QED BY <3>1 DEF AddedAs
 <2> QED BY <2>1, <2>3
<1>2. ~IsLeaf(c) /\ c.children \in Seq(Names) /\ Len(c.children) = Len(c.items)
 BY ShapeFacts DEF HasPlace
<1>3. 1 \in 1 .. Len(c.children) + 1 BY <1>1, <1>2
<1>4. \A j \in 1 .. Len(c.items) + 1 :
              new.children[j] = IF j < 1 THEN c.children[j] ELSE IF j = 1 THEN child ELSE c.children[j - 1]
 <2>1. PICK d, k : d = c.children /\ k = 1 OBVIOUS
 <2>2. d \in Seq(Names) /\ k \in 1 .. Len(d) + 1 BY <1>2, <1>3, <2>1
 <2>3. \A j \in 1 .. Len(d) + 1 :
         InsertAt(d, k, child)[j] = IF j < k THEN d[j] ELSE IF j = k THEN child ELSE d[j - 1]
  BY ONLY <2>2, child \in Names, ChildrenInserted
 <2>4. new.children = InsertAt(d, k, child) /\ Len(d) = Len(c.items) BY <1>1, <1>2, <2>1
 <2> QED BY <2>1, <2>3, <2>4
<1> SUFFICES ASSUME NEW w, NEW d, Leads(new, w, d) PROVE Leads(c, w, d) \/ (w = key /\ d = child)
 OBVIOUS
<1>5. PICK j \in 1 .. Len(c.items) + 1 : new.items[j] = w /\ new.children[j] = d BY <1>1 DEF Leads
<1>6. CASE j = 1 BY <1>1, <1>4, <1>5, <1>6
<1>7. CASE j # 1
 <2>1. j - 1 \in 1 .. Len(c.items) /\ ~(j < 1) BY <1>1, <1>7
 <2>2. new.items[j] = c.items[j - 1] /\ new.children[j] = c.children[j - 1]
  BY <1>1, <1>4, <1>7, <2>1
 <2> QED BY <1>5, <2>1, <2>2 DEF Leads
<1> QED BY <1>6, <1>7

LEMMA RaisedLeads ==
 ASSUME NEW D \in SUBSET Names, NEW l \in Nat, l # 0, NEW c, NEW key \in Keys,
        HasPlace(D, l, c, key), ~Found(c, key), NEW i, i = Index(c, key), NEW child \in Names,
        NEW new, new = Added(c, i, key, child, i + 1)
 PROVE  \A w, d : Leads(new, w, d) =>
             \/ Leads(c, w, d) /\ w # c.items[i]
             \/ w = key /\ Leads(c, c.items[i], d)
             \/ w = c.items[i] /\ d = child
<1>1. /\ new.children = IF IsLeaf(c) THEN NoChildren ELSE InsertAt(c.children, i + 1, child)
      /\ i \in 1 .. Len(c.items) /\ Len(new.items) = Len(c.items) + 1 /\ Len(c.items) \in Nat
      /\ \A j \in 1 .. Len(c.items) + 1 :
              new.items[j] = IF j < i THEN c.items[j] ELSE IF j = i THEN key ELSE c.items[j - 1]
 <2>1. PICK k : k = i + 1 OBVIOUS
 <2>2. new = Added(c, i, key, child, k) BY <2>1
 <2>3. /\ new.children = IF IsLeaf(c) THEN NoChildren ELSE InsertAt(c.children, k, child)
       /\ i \in 1 .. Len(c.items) /\ Len(new.items) = Len(c.items) + 1 /\ Len(c.items) \in Nat
       /\ \A j \in 1 .. Len(c.items) + 1 :
             new.items[j] = IF j < i THEN c.items[j] ELSE IF j = i THEN key ELSE c.items[j - 1]
  <3>1. AddedAs(c, i, key, child, k, new) BY <2>2, AddedItems
  <3> QED BY <3>1 DEF AddedAs
 <2> QED BY <2>1, <2>3
<1>2. ~IsLeaf(c) /\ c.children \in Seq(Names) /\ Len(c.children) = Len(c.items)
      /\ \A g, j \in 1 .. Len(c.items) : c.items[g] \in Int /\ (g < j => c.items[g] < c.items[j])
 BY ShapeFacts DEF HasPlace
<1>3. i + 1 \in 1 .. Len(c.children) + 1 BY <1>1, <1>2
<1>4. \A j \in 1 .. Len(c.items) + 1 :
              new.children[j] = IF j < i + 1 THEN c.children[j] ELSE IF j = i + 1 THEN child ELSE c.children[j - 1]
 <2>1. PICK d, k : d = c.children /\ k = i + 1 OBVIOUS
 <2>2. d \in Seq(Names) /\ k \in 1 .. Len(d) + 1 BY <1>2, <1>3, <2>1
 <2>3. \A j \in 1 .. Len(d) + 1 :
         InsertAt(d, k, child)[j] = IF j < k THEN d[j] ELSE IF j = k THEN child ELSE d[j - 1]
  BY <2>2, InsertAtFacts
 <2>4. new.children = InsertAt(d, k, child) /\ Len(d) = Len(c.items) BY <1>1, <1>2, <2>1
 <2> QED BY <2>1, <2>3, <2>4
<1> SUFFICES ASSUME NEW w, NEW d, Leads(new, w, d)
             PROVE  \/ Leads(c, w, d) /\ w # c.items[i]
                    \/ w = key /\ Leads(c, c.items[i], d)
                    \/ w = c.items[i] /\ d = child
 OBVIOUS
<1>5. PICK j \in 1 .. Len(c.items) + 1 : new.items[j] = w /\ new.children[j] = d BY <1>1 DEF Leads
<1>6. CASE j < i
 <2>1. j \in 1 .. Len(c.items) /\ new.items[j] = c.items[j] /\ new.children[j] = c.children[j]
  BY <1>1, <1>4, <1>6
 <2>2. c.items[j] # c.items[i] BY <1>1, <1>2, <1>6, <2>1
 <2> QED BY <1>5, <2>1, <2>2 DEF Leads
<1>7. CASE j = i
 <2>1. new.items[j] = key /\ new.children[j] = c.children[i] BY <1>1, <1>4, <1>7
 <2> QED BY <1>1, <1>5, <2>1 DEF Leads
<1>8. CASE j = i + 1
 <2>1. ~(j < i) /\ j # i /\ ~(j < i + 1) /\ j - 1 = i BY <1>1, <1>8
 <2>2. new.items[j] = c.items[j - 1] /\ new.children[j] = child BY <1>1, <1>4, <1>8, <2>1
 <2> QED BY <1>5, <2>1, <2>2
<1>9. CASE j > i + 1
 <2>1. ~(j < i) /\ j # i /\ ~(j < i + 1) /\ j # i + 1 /\ j - 1 \in 1 .. Len(c.items) /\ i < j - 1
  BY <1>1, <1>9
 <2>2. new.items[j] = c.items[j - 1] /\ new.children[j] = c.children[j - 1] BY <1>1, <1>4, <2>1
 <2>3. c.items[j - 1] # c.items[i] BY <1>1, <1>2, <2>1
 <2> QED BY <1>5, <2>1, <2>2, <2>3 DEF Leads
<1> QED BY <1>1, <1>6, <1>7, <1>8, <1>9

(* Another link; other children. *)
LEMMA LinkedIs ==
 ASSUME NEW D \in SUBSET Names, NEW l \in Nat, NEW c, Shape(D, l, c),
        NEW link, NEW new, new = WithLink(c, link)
 PROVE  new.items = c.items /\ new.children = c.children /\ new.link = link /\ c.stamp < new.stamp
<1>1. c \in ContentsSet /\ c.stamp \in Nat BY ShapeFacts
<1>2. new = Made(c.items, c.children, link, c.stamp + 1, c.keysOf, c.childrenOf)
 BY <1>1, NewContentsAre
<1> QED BY <1>1, <1>2 DEF Made

LEMMA RechildedIs ==
 ASSUME NEW D \in SUBSET Names, NEW l \in Nat, NEW c, Shape(D, l, c),
        NEW ch, NEW new, new = WithChildren(c, ch)
 PROVE  new.items = c.items /\ new.children = ch /\ new.link = c.link /\ c.stamp < new.stamp
<1>1. c \in ContentsSet /\ c.stamp \in Nat BY ShapeFacts
<1>2. new = Made(c.items, ch, c.link, c.stamp + 1, c.keysOf, c.stamp + 1) BY <1>1, NewContentsAre
<1> QED BY <1>1, <1>2 DEF Made

LEMMA ReitemedIs ==
 ASSUME NEW D \in SUBSET Names, NEW l \in Nat, NEW c, Shape(D, l, c),
        NEW s, NEW ch, NEW new, new = WithItems(c, s, ch)
 PROVE  new.items = s /\ new.children = ch /\ new.link = c.link /\ c.stamp < new.stamp
<1>1. c \in ContentsSet /\ c.stamp \in Nat BY ShapeFacts
<1>2. new = Made(s, ch, c.link, c.stamp + 1, c.stamp + 1, c.stamp + 1) BY <1>1, NewContentsAre
<1> QED BY <1>1, <1>2 DEF Made

LEMMA ChildReplaced ==
 ASSUME NEW d \in Seq(Names), NEW i \in 1 .. Len(d), NEW child \in Names
 PROVE  \A j \in 1 .. Len(d) : ReplaceAt(d, i, child)[j] = IF j = i THEN child ELSE d[j]
<1>1. DOMAIN d = 1 .. Len(d) OBVIOUS
<1> QED BY ONLY <1>1, Zenon DEF ReplaceAt

LEMMA OneRemoved ==
 ASSUME NEW S, NEW s \in Seq(S), NEW i \in 1 .. Len(s), NEW r, r = RemoveAt(s, i)
 PROVE  Len(r) = Len(s) - 1 /\ \A j \in 1 .. Len(s) - 1 : r[j] = IF j < i THEN s[j] ELSE s[j + 1]
 BY ONLY s \in Seq(S), i \in 1 .. Len(s), r = RemoveAt(s, i), RemoveAtFacts

(* A child becomes another one; an item is taken out. *)
LeadsAlso(c, new, v, child) == \A w, d : Leads(new, w, d) => Leads(c, w, d) \/ (w = v /\ d = child)
LeadsLess(c, new, v) == \A w, d : Leads(new, w, d) => Leads(c, w, d) /\ w # v
LosesItem(c, new, v) == \A w : Holds(new, w) <=> Holds(c, w) /\ w # v

LEMMA ReplacedLeads ==
 ASSUME NEW D \in SUBSET Names, NEW l \in Nat, l # 0, NEW c, Shape(D, l, c),
        NEW i \in 1 .. Len(c.items), NEW v, v = c.items[i],
        NEW child \in Names, NEW ch, ch = ReplaceAt(c.children, i, child),
        NEW new, new = WithChildren(c, ch)
 PROVE  LeadsAlso(c, new, v, child)
<1>1. new.items = c.items /\ new.children = ch BY RechildedIs
<1>2. c.children \in Seq(Names) /\ Len(c.children) = Len(c.items) BY ShapeFacts
<1>3. PICK d0 : d0 = c.children OBVIOUS
<1>4. d0 \in Seq(Names) /\ i \in 1 .. Len(d0) /\ ch = ReplaceAt(d0, i, child) BY <1>2, <1>3
<1>5. \A j \in 1 .. Len(d0) : ch[j] = IF j = i THEN child ELSE d0[j]
 BY ONLY <1>4, child \in Names, ChildReplaced
<1> QED BY <1>1, <1>2, <1>3, <1>5 DEF Leads, LeadsAlso

LEMMA RemovedHolds ==
 ASSUME NEW D \in SUBSET Names, NEW l \in Nat, NEW c, Shape(D, l, c),
        NEW i \in 1 .. Len(c.items), NEW v, v = c.items[i], NEW new, new = Removed(c, i)
 PROVE  /\ LosesItem(c, new, v) /\ (l # 0 => LeadsLess(c, new, v))
        /\ new.link = c.link /\ c.stamp < new.stamp
<1>1. PICK s, ch : s = RemoveAt(c.items, i) /\ ch = IF IsLeaf(c) THEN NoChildren ELSE RemoveAt(c.children, i)
 OBVIOUS
<1>2. new = WithItems(c, s, ch) BY <1>1 DEF Removed
<1>3. new.items = s /\ new.children = ch /\ new.link = c.link /\ c.stamp < new.stamp
 BY <1>2, ReitemedIs
<1>4. /\ c.items \in Seq(Item) /\ Len(c.items) \in Nat
      /\ \A j \in 1 .. Len(c.items) : c.items[j] \in Int
      /\ \A g, j \in 1 .. Len(c.items) : g < j => c.items[g] < c.items[j]
      /\ IsLeaf(c) <=> l = 0
      /\ l # 0 => c.children \in Seq(Names) /\ Len(c.children) = Len(c.items)
 BY ShapeFacts
<1>5. PICK s0, d0 : s0 = c.items /\ d0 = c.children OBVIOUS
<1>6. Len(s) = Len(s0) - 1 /\ \A j \in 1 .. Len(s0) - 1 : s[j] = IF j < i THEN s0[j] ELSE s0[j + 1]
 <2>1. s0 \in Seq(Item) /\ i \in 1 .. Len(s0) /\ s = RemoveAt(s0, i) BY <1>1, <1>4, <1>5
 <2> QED BY ONLY <2>1, OneRemoved
<1>7. l # 0 => \A j \in 1 .. Len(s0) - 1 : ch[j] = IF j < i THEN d0[j] ELSE d0[j + 1]
 <2>1. HAVE l # 0
 <2>2. d0 \in Seq(Names) /\ i \in 1 .. Len(d0) /\ ch = RemoveAt(d0, i) /\ Len(d0) = Len(s0)
  BY <1>1, <1>4, <1>5, <2>1
 <2>3. \A j \in 1 .. Len(d0) - 1 : ch[j] = IF j < i THEN d0[j] ELSE d0[j + 1]
  BY ONLY <2>2, OneRemoved
 <2> QED BY <2>2, <2>3
<1>8. \A j \in 1 .. Len(s0) : j # i => s0[j] # s0[i]
 <2>1. TAKE j \in 1 .. Len(s0)
 <2>2. HAVE j # i
 <2>3. j < i \/ i < j BY <2>2
 <2>4. s0[j] \in Int /\ s0[i] \in Int /\ (j < i => s0[j] < s0[i]) /\ (i < j => s0[i] < s0[j])
  BY <1>4, <1>5
 <2> QED BY <2>3, <2>4
<1>9. ASSUME NEW w, Holds(new, w) PROVE Holds(c, w) /\ w # c.items[i]
 <2>1. PICK j \in 1 .. Len(s0) - 1 : s[j] = w BY <1>3, <1>6, <1>9 DEF Holds
 <2>2. PICK g : g = IF j < i THEN j ELSE j + 1 OBVIOUS
 <2>3. g \in 1 .. Len(s0) /\ g # i /\ s0[g] = w BY <1>4, <1>5, <1>6, <2>1, <2>2
 <2> QED BY <1>5, <1>8, <2>3 DEF Holds
<1>10. ASSUME NEW w, Holds(c, w), w # c.items[i] PROVE Holds(new, w)
 <2>1. PICK g \in 1 .. Len(s0) : s0[g] = w BY <1>5, <1>10 DEF Holds
 <2>2. g # i BY <1>5, <1>10, <2>1
 <2>5. Len(s0) \in Nat /\ i \in 1 .. Len(s0) BY <1>4, <1>5
 <2>3. CASE g < i
  <3>1. g \in 1 .. Len(s0) - 1 /\ s[g] = w BY <1>6, <2>1, <2>3, <2>5
  <3> QED BY <1>3, <1>6, <3>1 DEF Holds
 <2>4. CASE g > i
  <3>1. g - 1 \in 1 .. Len(s0) - 1 /\ ~(g - 1 < i) /\ g - 1 + 1 = g BY <2>1, <2>4, <2>5
  <3>2. s[g - 1] = w BY <1>6, <2>1, <3>1
  <3> QED BY <1>3, <1>6, <3>1, <3>2 DEF Holds
 <2> QED BY <2>1, <2>2, <2>3, <2>4, <2>5
<1>11. ASSUME l # 0, NEW w, NEW d, Leads(new, w, d) PROVE Leads(c, w, d) /\ w # c.items[i]
 <2>1. PICK j \in 1 .. Len(s0) - 1 : s[j] = w /\ ch[j] = d BY <1>3, <1>6, <1>11 DEF Leads
 <2>2. PICK g : g = IF j < i THEN j ELSE j + 1 OBVIOUS
 <2>3. g \in 1 .. Len(s0) /\ g # i /\ s0[g] = w /\ d0[g] = d
  BY <1>4, <1>5, <1>6, <1>7, <1>11, <2>1, <2>2
 <2> QED BY <1>5, <1>8, <2>3 DEF Leads
<1>12. LosesItem(c, new, v) BY <1>9, <1>10 DEF LosesItem
<1>13. l # 0 => LeadsLess(c, new, v) BY <1>11 DEF LeadsLess
<1> QED BY <1>3, <1>12, <1>13

(* cleanNode: the children that were pushed to the right. *)
AdjustingAs(c, key, n, i, ix) ==
    /\ n = Len(c.items) /\ i = Index(c, key) /\ ix = Adjusting(c, key)
    /\ n \in Nat /\ n >= 1 /\ i \in 1 .. n
    /\ Len(ix) \in 1 .. 2 /\ \A q \in 1 .. Len(ix) : ix[q] \in 1 .. n
    /\ n <= 2 => Len(ix) = n /\ \A q \in 1 .. n : ix[q] = q
    /\ n > 2 => ix[1] = i
    /\ n > 2 /\ Len(ix) = 2 => i > 1 /\ i < n /\ ix[2] = i + 1

LEMMA AdjustingIs ==
 ASSUME NEW D \in SUBSET Names, NEW l \in Nat, NEW c, NEW key \in Keys, HasPlace(D, l, c, key)
 PROVE  AdjustingAs(c, key, Len(c.items), Index(c, key), Adjusting(c, key))
<1>1. Shape(D, l, c) /\ ~Beyond(c, key) /\ key \in Int BY DEF HasPlace, MultiwayAssumption
<1>2. PICK s : s = c.items OBVIOUS
<1>3. PICK i : i = Index(c, key) OBVIOUS
<1>4. s \in Seq(Item) /\ Len(s) \in Nat /\ i \in 1 .. Len(s)
 BY <1>1, <1>2, <1>3, ShapeFacts, BeyondFacts
<1>5. Adjusting(c, key) = CASE Len(s) <= 2 -> [j \in 1 .. Len(s) |-> j]
                            [] Len(s) > 2 /\ i \in {1, Len(s)} -> <<i>>
                            [] OTHER -> <<i, i + 1>>
 BY <1>2, <1>3 DEF Adjusting
<1>6. PICK ix : ix = Adjusting(c, key) OBVIOUS
<1>7. Len(s) >= 1 BY <1>4
<1>8. CASE Len(s) <= 2
 <2>1. ix = [j \in 1 .. Len(s) |-> j] BY <1>5, <1>6, <1>8
 <2>2. Len(ix) = Len(s) /\ \A q \in 1 .. Len(s) : ix[q] = q BY <1>4, <2>1
 <2>3. Len(ix) \in 1 .. 2 /\ ~(Len(s) > 2) BY <1>4, <1>7, <1>8, <2>2
 <2> QED BY <1>2, <1>3, <1>4, <1>6, <1>7, <2>2, <2>3 DEF AdjustingAs
<1>9. CASE Len(s) > 2 /\ i \in {1, Len(s)}
 <2>1. ix = <<i>> BY <1>4, <1>5, <1>6, <1>9
 <2>2. Len(ix) = 1 /\ ix[1] = i /\ ~(Len(s) <= 2) BY <1>4, <1>9, <2>1
 <2> QED BY <1>2, <1>3, <1>4, <1>6, <1>7, <1>9, <2>2 DEF AdjustingAs
<1>10. CASE Len(s) > 2 /\ i \notin {1, Len(s)}
 <2>1. ix = <<i, i + 1>> BY <1>4, <1>5, <1>6, <1>10
 <2>2. Len(ix) = 2 /\ ix[1] = i /\ ix[2] = i + 1 /\ i > 1 /\ i < Len(s) /\ i + 1 \in 1 .. Len(s)
          /\ ~(Len(s) <= 2)
  BY <1>4, <1>10, <2>1
 <2>3. \A q \in 1 .. 2 : ix[q] \in 1 .. Len(s) BY <1>4, <2>2
 <2> QED BY <1>2, <1>3, <1>4, <1>6, <1>7, <1>10, <2>2, <2>3 DEF AdjustingAs
<1> QED BY <1>4, <1>8, <1>9, <1>10

LeadsPushed(c, new, key, a) ==
    \A w, d : Leads(new, w, d) =>
        Leads(c, w, d) \/ \E q \in 1 .. Len(a) : w = c.items[Adjusting(c, key)[q]] /\ d = a[q]
DroppedAs(c, new, key, a, i) ==
    /\ i > 1 /\ i < Len(c.items) /\ i \in 1 .. Len(c.items) /\ i + 1 \in 1 .. Len(c.items)
    /\ Len(c.items) > 2 /\ Len(c.items) \in Nat /\ Len(a) = 2 /\ a[1] = a[2]
    /\ Adjusting(c, key)[1] = i /\ Adjusting(c, key)[2] = i + 1
    /\ new.link = c.link /\ c.stamp < new.stamp
    /\ \A w : Holds(new, w) <=> Holds(c, w) /\ w # c.items[i]
    /\ \A w, d : Leads(new, w, d) =>
         \/ Leads(c, w, d) /\ w # c.items[i] /\ w # c.items[i + 1]
         \/ w = c.items[i + 1] /\ d = a[2]

LEMMA AdjustedLeads ==
 ASSUME NEW D \in SUBSET Names, NEW l \in Nat, l # 0, NEW c, NEW key \in Keys,
        HasPlace(D, l, c, key), NEW a \in Seq(Names), Len(a) = Len(Adjusting(c, key)),
        ~Dropping(c, key, a), NEW new, new = Adjusted(c, key, a)
 PROVE  /\ new.items = c.items /\ new.link = c.link /\ c.stamp < new.stamp
        /\ LeadsPushed(c, new, key, a)
<1>1. PICK n, i, ix : n = Len(c.items) /\ i = Index(c, key) /\ ix = Adjusting(c, key) OBVIOUS
<1>2. AdjustingAs(c, key, n, i, ix) BY <1>1, AdjustingIs
<1>3. PICK ch : ch = IF n <= 2 THEN a ELSE ReplaceAt(c.children, i, a[1]) OBVIOUS
<1>4. new = WithChildren(c, ch) BY <1>1, <1>3 DEF Adjusted
<1>5. Shape(D, l, c) BY DEF HasPlace
<1>6. new.items = c.items /\ new.children = ch /\ new.link = c.link /\ c.stamp < new.stamp
 BY <1>4, <1>5, RechildedIs
<1>7. CASE n <= 2
 <2>1. Len(a) = n /\ (\A q \in 1 .. n : ix[q] = q) /\ ch = a
  BY <1>1, <1>2, <1>3, <1>7 DEF AdjustingAs
 <2> QED BY <1>1, <1>6, <2>1 DEF Leads, LeadsPushed
<1>8. CASE n > 2
 <2>1. n \in Nat /\ i \in 1 .. n /\ ix[1] = i /\ Len(a) \in 1 .. 2
  BY <1>1, <1>2, <1>8 DEF AdjustingAs
 <2>2. ch = ReplaceAt(c.children, i, a[1]) BY <1>3, <1>8, <2>1
 <2>3. PICK child : child = a[1] OBVIOUS
 <2>4. child \in Names /\ 1 \in 1 .. Len(a) BY <2>1, <2>3
 <2>5. i \in 1 .. Len(c.items) /\ ch = ReplaceAt(c.children, i, child) BY <1>1, <2>1, <2>2, <2>3
 <2>6. PICK v : v = c.items[i] OBVIOUS
 <2>7. LeadsAlso(c, new, v, child) BY <1>4, <1>5, <2>4, <2>5, <2>6, ReplacedLeads
 <2> QED BY <1>1, <1>6, <2>1, <2>3, <2>4, <2>6, <2>7 DEF LeadsAlso, LeadsPushed
<1>9. n <= 2 \/ n > 2 BY <1>2 DEF AdjustingAs
<1> QED BY <1>7, <1>8, <1>9

LEMMA AdjustedDrops ==
 ASSUME NEW D \in SUBSET Names, NEW l \in Nat, l # 0, NEW c, NEW key \in Keys,
        HasPlace(D, l, c, key), NEW a \in Seq(Names), Len(a) = Len(Adjusting(c, key)),
        Dropping(c, key, a), NEW new, new = Adjusted(c, key, a), NEW i, i = Index(c, key)
 PROVE  DroppedAs(c, new, key, a, i)
<1>1. PICK n, ix : n = Len(c.items) /\ ix = Adjusting(c, key) OBVIOUS
<1>2. AdjustingAs(c, key, n, i, ix) BY <1>1, AdjustingIs
<1>3. n > 2 /\ Len(a) = 2 /\ a[1] = a[2] BY <1>1 DEF Dropping
<1>4. n \in Nat /\ i > 1 /\ i < n /\ i \in 1 .. n /\ ix[1] = i /\ ix[2] = i + 1 /\ i + 1 \in 1 .. n
 BY <1>1, <1>2, <1>3 DEF AdjustingAs
<1>5. PICK s, d1 : s = RemoveAt(c.items, i) /\ d1 = ReplaceAt(c.children, i, a[1]) OBVIOUS
<1>6. PICK ch : ch = RemoveAt(d1, i + 1) OBVIOUS
<1>7. new = WithItems(c, s, ch)
 <2>1. ~(Len(c.items) <= 2) BY <1>1, <1>3, <1>4
 <2> QED BY <1>5, <1>6, <2>1 DEF Adjusted
<1>8. Shape(D, l, c) BY DEF HasPlace
<1>9. new.items = s /\ new.children = ch /\ new.link = c.link /\ c.stamp < new.stamp
 BY <1>7, <1>8, ReitemedIs
<1>10. \A w : Holds(new, w) <=> Holds(c, w) /\ w # c.items[i]
 <2>1. PICK r : r = Removed(c, i) OBVIOUS
 <2>2. i \in 1 .. Len(c.items) BY <1>1, <1>4
 <2>7. PICK v : v = c.items[i] OBVIOUS
 <2>3. LosesItem(c, r, v) BY <1>8, <2>1, <2>2, <2>7, RemovedHolds
 <2>4. PICK ch2 : r = WithItems(c, s, ch2) BY <1>5, <2>1 DEF Removed
 <2>5. r.items = s BY <1>8, <2>4, ReitemedIs
 <2>6. r.items = new.items BY <1>9, <2>5
 <2> QED BY <2>3, <2>6, <2>7 DEF Holds, LosesItem
<1>11. /\ c.items \in Seq(Item) /\ c.children \in Seq(Names) /\ Len(c.children) = n
       /\ \A g, j \in 1 .. n : g < j => c.items[g] < c.items[j]
       /\ \A j \in 1 .. n : c.items[j] \in Int
 BY <1>1, <1>8, ShapeFacts
<1>12. PICK s0, d0, e : s0 = c.items /\ d0 = c.children /\ e = a[1] OBVIOUS
<1>13. Len(s) = n - 1 /\ \A j \in 1 .. n - 1 : s[j] = IF j < i THEN s0[j] ELSE s0[j + 1]
 <2>1. s0 \in Seq(Item) /\ i \in 1 .. Len(s0) /\ s = RemoveAt(s0, i) /\ Len(s0) = n
  BY <1>1, <1>4, <1>5, <1>11, <1>12
 <2>2. Len(s) = Len(s0) - 1 /\ \A j \in 1 .. Len(s0) - 1 : s[j] = IF j < i THEN s0[j] ELSE s0[j + 1]
  BY ONLY <2>1, OneRemoved
 <2> QED BY <2>1, <2>2
<1>14. e \in Names
 <2>1. 1 \in 1 .. Len(a) BY <1>3
 <2> QED BY <1>12, <2>1
<1>15. d1 \in Seq(Names) /\ Len(d1) = n /\ \A j \in 1 .. n : d1[j] = IF j = i THEN e ELSE d0[j]
 <2>1. d0 \in Seq(Names) /\ i \in 1 .. Len(d0) /\ d1 = ReplaceAt(d0, i, e) /\ Len(d0) = n
  BY <1>4, <1>5, <1>11, <1>12
 <2>2. \A j \in 1 .. Len(d0) : d1[j] = IF j = i THEN e ELSE d0[j] BY ONLY <1>14, <2>1, ChildReplaced
 <2>3. d1 \in Seq(Names) /\ Len(d1) = Len(d0) BY ONLY <1>14, <2>1, ReplaceAtFacts
 <2> QED BY <2>1, <2>2, <2>3
<1>16. \A j \in 1 .. n - 1 : ch[j] = IF j < i + 1 THEN d1[j] ELSE d1[j + 1]
 <2>1. PICK k : k = i + 1 OBVIOUS
 <2>2. d1 \in Seq(Names) /\ k \in 1 .. Len(d1) /\ ch = RemoveAt(d1, k) /\ Len(d1) = n
  BY <1>4, <1>6, <1>15, <2>1
 <2>3. \A j \in 1 .. Len(d1) - 1 : ch[j] = IF j < k THEN d1[j] ELSE d1[j + 1]
  BY ONLY <2>2, OneRemoved
 <2> QED BY <2>1, <2>2, <2>3
<1>17. ASSUME NEW w, NEW d, Leads(new, w, d)
       PROVE  \/ Leads(c, w, d) /\ w # c.items[i] /\ w # c.items[i + 1]
              \/ w = c.items[i + 1] /\ d = a[2]
 <2>1. PICK j \in 1 .. n - 1 : s[j] = w /\ ch[j] = d BY <1>9, <1>13, <1>17 DEF Leads
 <2>2. CASE j < i
  <3>1. j \in 1 .. n /\ j # i /\ j < i + 1 /\ w = s0[j] /\ d = d0[j]
   BY <1>4, <1>13, <1>15, <1>16, <2>1, <2>2
  <3>2. s0[j] < s0[i] /\ s0[j] < s0[i + 1] /\ s0[j] \in Int /\ s0[i] \in Int /\ s0[i + 1] \in Int
   BY <1>4, <1>11, <1>12, <2>2, <3>1
  <3>3. s0[j] # s0[i] /\ s0[j] # s0[i + 1] BY <3>2
  <3> QED BY <1>1, <1>12, <3>1, <3>3 DEF Leads
 <2>3. CASE j = i
  <3>1. w = s0[i + 1] /\ d = e BY <1>4, <1>13, <1>15, <1>16, <2>1, <2>3
  <3> QED BY <1>3, <1>12, <3>1
 <2>4. CASE j > i
  <3>1. j + 1 \in 1 .. n /\ j + 1 # i /\ ~(j < i) /\ ~(j < i + 1) /\ i < j + 1 /\ i + 1 < j + 1
   BY <1>4, <2>1, <2>4
  <3>2. w = s0[j + 1] /\ d = d0[j + 1] BY <1>13, <1>15, <1>16, <2>1, <3>1
  <3>3. s0[i] < s0[j + 1] /\ s0[i + 1] < s0[j + 1] /\ s0[j + 1] \in Int /\ s0[i] \in Int /\ s0[i + 1] \in Int
   BY <1>4, <1>11, <1>12, <3>1
  <3>4. s0[j + 1] # s0[i] /\ s0[j + 1] # s0[i + 1] BY <3>3
  <3> QED BY <1>1, <1>12, <3>1, <3>2, <3>4 DEF Leads
 <2> QED BY <1>4, <2>1, <2>2, <2>3, <2>4
<1> QED BY <1>1, <1>3, <1>4, <1>9, <1>10, <1>17 DEF DroppedAs

(* The parts of a node that is split after an item. *)
LeftAs(l, c, v, right, new) ==
    /\ \A w : Holds(new, w) <=> Holds(c, w) /\ w <= v
    /\ l # 0 => \A w, d : Leads(new, w, d) => Leads(c, w, d)
    /\ new.link = right /\ c.stamp < new.stamp
RightAs(l, c, v, new) ==
    /\ \A w : Holds(new, w) <=> Holds(c, w) /\ v < w
    /\ l # 0 => \A w, d : Leads(new, w, d) => Leads(c, w, d)
    /\ new.link = c.link

LEMMA LeftHolds ==
 ASSUME NEW D \in SUBSET Names, NEW l \in Nat, NEW c, Shape(D, l, c),
        NEW i \in 1 .. Len(c.items) - 1, NEW v, v = c.items[i],
        NEW right, NEW new, new = LeftPart(c, i, right)
 PROVE  LeftAs(l, c, v, right, new)
<1>1. PICK s, ch : s = SubSeq(c.items, 1, i) /\ ch = IF IsLeaf(c) THEN NoChildren ELSE SubSeq(c.children, 1, i)
 OBVIOUS
<1>2. PICK b : b = WithItems(c, s, ch) OBVIOUS
<1>3. new = [b EXCEPT !.link = right] BY <1>1, <1>2 DEF LeftPart
<1>4. b.items = s /\ b.children = ch /\ c.stamp < b.stamp BY <1>2, ReitemedIs
<1>5. new.items = s /\ new.children = ch /\ new.link = right /\ c.stamp < new.stamp
 <2>1. b = Made(s, ch, c.link, c.stamp + 1, c.stamp + 1, c.stamp + 1)
  BY <1>2, NewContentsAre, ShapeFacts
 <2> QED BY <1>3, <1>4, <2>1 DEF Made
<1>6. /\ c.items \in Seq(Item) /\ Len(c.items) \in Nat
      /\ \A j \in 1 .. Len(c.items) : c.items[j] \in Int
      /\ \A g, j \in 1 .. Len(c.items) : g < j => c.items[g] < c.items[j]
      /\ IsLeaf(c) <=> l = 0
      /\ l # 0 => c.children \in Seq(Names) /\ Len(c.children) = Len(c.items)
 BY ShapeFacts
<1>7. PICK s0, d0 : s0 = c.items /\ d0 = c.children OBVIOUS
<1>8. Len(s) = i /\ \A j \in 1 .. i : s[j] = s0[j]
 <2>1. s0 \in Seq(Item) /\ i \in 0 .. Len(s0) /\ s = SubSeq(s0, 1, i) BY <1>1, <1>6, <1>7
 <2> QED BY ONLY <2>1, PartFacts
<1>9. l # 0 => \A j \in 1 .. i : ch[j] = d0[j]
 <2>1. HAVE l # 0
 <2>2. d0 \in Seq(Names) /\ i \in 0 .. Len(d0) /\ ch = SubSeq(d0, 1, i) BY <1>1, <1>6, <1>7, <2>1
 <2> QED BY ONLY <2>2, PartFacts
<1>13. /\ s0 \in Seq(Item) /\ Len(s0) \in Nat /\ i \in 1 .. Len(s0) /\ i \in Int /\ v = s0[i] /\ i < Len(s0)
       /\ \A j \in 1 .. Len(s0) : s0[j] \in Int
       /\ \A g, j \in 1 .. Len(s0) : g < j => s0[g] < s0[j]
 BY <1>6, <1>7
<1>10. \A j \in 1 .. Len(s0) : j <= i <=> s0[j] <= v
 <2>1. TAKE j \in 1 .. Len(s0)
 <2>2. s0[j] \in Int /\ v \in Int /\ (i < j => v < s0[j]) /\ (j < i => s0[j] < v) /\ (j = i => s0[j] = v)
  BY <1>13
 <2> QED BY <1>13, <2>2
<1>14. /\ \A w : Holds(c, w) <=> \E j \in 1 .. Len(s0) : s0[j] = w
       /\ \A w : Holds(new, w) <=> \E j \in 1 .. i : s[j] = w
 BY <1>5, <1>7, <1>8 DEF Holds
<1>11. \A w : Holds(new, w) <=> Holds(c, w) /\ w <= v
 <2>1. \A j \in 1 .. i : j \in 1 .. Len(s0) /\ j <= i BY <1>13
 <2>2. \A j \in 1 .. Len(s0) : j <= i => j \in 1 .. i BY <1>13
 <2> QED BY ONLY <1>8, <1>10, <1>14, <2>1, <2>2
<1>12. l # 0 => \A w, d : Leads(new, w, d) => Leads(c, w, d)
 BY <1>5, <1>6, <1>7, <1>8, <1>9 DEF Leads
<1> QED BY <1>5, <1>11, <1>12 DEF LeftAs

LEMMA RightHolds ==
 ASSUME NEW D \in SUBSET Names, NEW l \in Nat, NEW c, Shape(D, l, c),
        NEW i \in 1 .. Len(c.items) - 1, NEW v, v = c.items[i], NEW new, new = RightPart(c, i)
 PROVE  RightAs(l, c, v, new)
<1>1. /\ c.items \in Seq(Item) /\ Len(c.items) \in Nat
      /\ \A j \in 1 .. Len(c.items) : c.items[j] \in Int
      /\ \A g, j \in 1 .. Len(c.items) : g < j => c.items[g] < c.items[j]
      /\ IsLeaf(c) <=> l = 0
      /\ l # 0 => c.children \in Seq(Names) /\ Len(c.children) = Len(c.items)
 BY ShapeFacts
<1>2. PICK s0, d0 : s0 = c.items /\ d0 = c.children OBVIOUS
<1>3. PICK s, ch : /\ s = SubSeq(s0, i + 1, Len(s0))
                   /\ ch = IF l = 0 THEN NoChildren ELSE SubSeq(d0, i + 1, Len(d0))
 OBVIOUS
<1>4. new.items = s /\ new.children = ch /\ new.link = c.link
 BY <1>1, <1>2, <1>3 DEF RightPart, Contents
<1>5. Len(s) = Len(s0) - i /\ \A j \in 1 .. Len(s0) - i : s[j] = s0[i + j]
 <2>1. s0 \in Seq(Item) /\ i \in 0 .. Len(s0) BY <1>1, <1>2
 <2> QED BY ONLY <1>3, <2>1, PartFacts
<1>6. l # 0 => \A j \in 1 .. Len(s0) - i : ch[j] = d0[i + j]
 <2>1. HAVE l # 0
 <2>2. d0 \in Seq(Names) /\ i \in 0 .. Len(d0) /\ Len(d0) = Len(s0) /\ ch = SubSeq(d0, i + 1, Len(d0))
  BY <1>1, <1>2, <1>3, <2>1
 <2>3. \A j \in 1 .. Len(d0) - i : ch[j] = d0[i + j] BY ONLY <2>2, PartFacts
 <2> QED BY <2>2, <2>3
<1>12. /\ Len(s0) \in Nat /\ i \in 1 .. Len(s0) /\ i \in Int /\ v = s0[i] /\ i < Len(s0)
       /\ \A j \in 1 .. Len(s0) : s0[j] \in Int
       /\ \A g, j \in 1 .. Len(s0) : g < j => s0[g] < s0[j]
 BY <1>1, <1>2
<1>7. \A j \in 1 .. Len(s0) : i < j <=> s0[i] < s0[j]
 <2>1. TAKE j \in 1 .. Len(s0)
 <2>2. s0[j] \in Int /\ v \in Int /\ (i < j => v < s0[j]) /\ (j < i => s0[j] < v) /\ (j = i => s0[j] = v)
  BY <1>12
 <2> QED BY <1>12, <2>2
<1>8. \A j \in 1 .. Len(s0) - i : i + j \in 1 .. Len(s0) /\ i < i + j BY <1>12
<1>14. /\ \A w : Holds(c, w) <=> \E j \in 1 .. Len(s0) : s0[j] = w
       /\ \A w : Holds(new, w) <=> \E j \in 1 .. Len(s0) - i : s[j] = w
 BY <1>2, <1>4, <1>5 DEF Holds
<1>9. \A w : Holds(new, w) => Holds(c, w) /\ v < w
 <2>1. SUFFICES ASSUME NEW w, Holds(new, w) PROVE Holds(c, w) /\ v < w OBVIOUS
 <2>2. PICK j \in 1 .. Len(s0) - i : s[j] = w BY <1>14, <2>1
 <2>3. i + j \in 1 .. Len(s0) /\ i < i + j /\ s0[i + j] = w BY <1>5, <1>8, <2>2
 <2> QED BY <1>7, <1>12, <1>14, <2>3
<1>10. ASSUME NEW w, Holds(c, w), v < w PROVE Holds(new, w)
 <2>1. PICK g \in 1 .. Len(s0) : s0[g] = w BY <1>2, <1>10 DEF Holds
 <2>2. i < g BY <1>2, <1>7, <1>10, <2>1
 <2>3. g - i \in 1 .. Len(s0) - i /\ i + (g - i) = g BY <1>1, <1>2, <2>1, <2>2
 <2>4. s[g - i] = w BY <1>5, <2>1, <2>3
 <2> QED BY <1>4, <1>5, <2>3, <2>4 DEF Holds
<1>11. l # 0 => \A w, d : Leads(new, w, d) => Leads(c, w, d)
 <2>1. SUFFICES ASSUME l # 0, NEW w, NEW d, Leads(new, w, d) PROVE Leads(c, w, d) OBVIOUS
 <2>2. PICK j \in 1 .. Len(s0) - i : s[j] = w /\ ch[j] = d BY <1>4, <1>5, <2>1 DEF Leads
 <2>3. i + j \in 1 .. Len(s0) /\ s0[i + j] = w /\ d0[i + j] = d BY <1>5, <1>6, <1>8, <2>1, <2>2
 <2> QED BY <1>2, <2>3 DEF Leads
<1> QED BY <1>4, <1>9, <1>10, <1>11 DEF RightAs

-----------------------------------------------------------------------------
(* A change of the tree that the calls that are somewhere else go through. *)
TwinsOK(cts, p, cts2, p2) ==
    \A n \in DOMAIN cts : n[1] # 0 /\ cts2[n] = cts[n] =>
        \A f \in DOMAIN cts2 : \A d : Lt(p2, n, f) /\ Leads(cts2[f], UpperEnd(cts[n]), d) =>
            d \in DOMAIN cts /\ LeadsFrom(cts, p, n, UpperEnd(cts[n]), d)
Good(cts, p, cts2, p2, rt2) ==
    OrderInv(cts2, p2, rt2) /\ Safe(cts, p, cts2, p2) /\ HasStays(cts, cts2) /\ TwinsOK(cts, p, cts2, p2)
LinkOn(cts, p, n, link) ==
    /\ link = NoNode => \A x \in DOMAIN cts : ~Lt(p, n, x)
    /\ link # NoNode => /\ Lt(p, n, link)
                        /\ \A x \in DOMAIN cts : Lt(p, n, x) /\ Lt(p, x, link) => ~Full(cts[x])
GoesFirst(cts, p, n, new) ==
    \A x \in DOMAIN cts : Lt(p, x, n) /\ Full(cts[x]) /\ Full(new) =>
         /\ UpperEnd(cts[x]) <= First(new)
         /\ n[1] = 0 => UpperEnd(cts[x]) < First(new)

LEMMA OrderRows ==
 ASSUME NEW cts, NEW p, NEW rt, TreeInv(cts, rt), OrderInv(cts, p, rt)
 PROVE  /\ Rows(cts, p) /\ Numbered(cts, p) /\ AllEnd(cts) /\ DOMAIN cts \in SUBSET Names
        /\ \A n \in DOMAIN cts : /\ n[1] \in Nat /\ Shape(DOMAIN cts, n[1], cts[n]) /\ Ends(cts[n])
                                 /\ LinkOn(cts, p, n, cts[n].link)
                                 /\ GoesFirst(cts, p, n, cts[n])
                                 /\ n[1] # 0 => \A w, d : Leads(cts[n], w, d) => Promise(cts, p, n[1], w, d)
<1>1. AllEnd(cts) /\ Numbered(cts, p) BY TreeEnds DEF OrderInv
<1>2. DOMAIN cts \in SUBSET Names /\ \A n \in DOMAIN cts : Shape(DOMAIN cts, n[1], cts[n])
 BY DEF TreeInv
<1>3. \A n \in DOMAIN cts : n[1] \in Nat BY <1>2 DEF Names
<1>4. \A n \in DOMAIN cts : LinkOn(cts, p, n, cts[n].link) BY DEF OrderInv, LinksLead, LinkOn
<1>5. \A n \in DOMAIN cts : GoesFirst(cts, p, n, cts[n])
 <2>1. ItemsLead(cts, p) BY DEF OrderInv
 <2>2. \A x, n \in DOMAIN cts : Lt(p, x, n) => (n[1] = 0 <=> x[1] = 0) BY DEF Lt
 <2> QED BY <2>1, <2>2 DEF ItemsLead, GoesFirst
<1>6. \A n \in DOMAIN cts : n[1] # 0 => \A w, d : Leads(cts[n], w, d) => Promise(cts, p, n[1], w, d)
 BY DEF OrderInv, ChildrenLead
<1> QED BY <1>1, <1>2, <1>3, <1>4, <1>5, <1>6 DEF Rows, AllEnd

LEMMA KeptOrder ==
 ASSUME NEW cts, NEW p, NEW rt, TreeInv(cts, rt), OrderInv(cts, p, rt),
        NEW cts2, NEW n, NEW new, OneNode(cts, cts2, n, new), TreeInv(cts2, rt),
        ItemsKept(n, cts[n], new), LinkOn(cts, p, n, new.link), GoesFirst(cts, p, n, new),
        n[1] # 0 => \A w, d : Leads(new, w, d) => Leads(cts[n], w, d) \/ Promise(cts2, p, n[1], w, d)
 PROVE  OrderInv(cts2, p, rt) /\ Safe(cts, p, cts2, p) /\ HasStays(cts, cts2)
<1>1. Rows(cts, p) /\ AllEnd(cts2) /\ AllEnd(cts) /\ n \in DOMAIN cts
 BY OrderRows, TreeEnds DEF OneNode
<1>2. Safe(cts, p, cts2, p) /\ HasStays(cts, cts2) BY <1>1, KeptIsSafe
<1>3. Moved(cts, p, cts2, p) BY <1>2 DEF Safe
<1>4. n[1] # 0 => \A w, d : Leads(new, w, d) => Promise(cts2, p, n[1], w, d)
 <2>1. SUFFICES ASSUME n[1] # 0, NEW w, NEW d, Leads(new, w, d), Leads(cts[n], w, d)
                PROVE  Promise(cts2, p, n[1], w, d)
  OBVIOUS
 <2>2. Promise(cts, p, n[1], w, d) /\ d \in DOMAIN cts BY <1>1, <2>1, OrderRows, LeadsIn
 <2> QED BY <1>1, <1>2, <1>3, <2>1, <2>2, PromiseStays
<1>5. UpperEnd(new) <= UpperEnd(cts[n]) BY DEF ItemsKept
<1>6. KeepsPromises(cts, p, cts2, n) BY <1>1, <1>2, <1>3, PromisesKept DEF KeepsPromises
<1> QED BY <1>2, <1>4, <1>5, <1>6, OneNodeOrder DEF LinkOn, GoesFirst

LEMMA LeadsHere ==
 ASSUME NEW cts, NEW p, NEW x, NEW f \in DOMAIN cts, NEW w, NEW d \in DOMAIN cts,
        Lt(p, x, f), Leads(cts[f], w, d), Numbered(cts, p)
 PROVE  LeadsFrom(cts, p, x, w, d)
<1>1. Upto(cts, p, d, d, EMPTY) BY RowFacts DEF Upto
<1> QED BY <1>1 DEF LeadsFrom

LEMMA OneNodeTwins ==
 ASSUME NEW cts, NEW p, NEW rt, TreeInv(cts, rt), OrderInv(cts, p, rt),
        NEW cts2, NEW n, NEW new, OneNode(cts, cts2, n, new), TreeInv(cts2, rt),
        n[1] # 0 => \A w, d : Leads(new, w, d) =>
             Leads(cts[n], w, d)
                 \/ \A x \in DOMAIN cts : Lt(p, x, n) /\ UpperEnd(cts[x]) = w => LeadsFrom(cts, p, x, w, d)
 PROVE  TwinsOK(cts, p, cts2, p)
<1>1. SUFFICES ASSUME NEW x \in DOMAIN cts, x[1] # 0, NEW f \in DOMAIN cts2, NEW d, Lt(p, x, f),
                      Leads(cts2[f], UpperEnd(cts[x]), d)
               PROVE  d \in DOMAIN cts /\ LeadsFrom(cts, p, x, UpperEnd(cts[x]), d)
 BY DEF TwinsOK
<1>2. DOMAIN cts2 = DOMAIN cts /\ f \in DOMAIN cts /\ n \in DOMAIN cts /\ cts2[n] = new /\ (f # n => cts2[f] = cts[f])
 BY <1>1 DEF OneNode
<1>3. f[1] # 0 /\ f[1] \in Nat /\ Numbered(cts, p) BY <1>1, <1>2, OrderRows DEF Lt
<1>4. d \in DOMAIN cts
 <2>1. DOMAIN cts2 \in SUBSET Names /\ Shape(DOMAIN cts2, f[1], cts2[f]) BY <1>1 DEF TreeInv
 <2> QED BY <1>1, <1>2, <1>3, <2>1, LeadsIn
<1>5. Leads(cts[f], UpperEnd(cts[x]), d) => LeadsFrom(cts, p, x, UpperEnd(cts[x]), d)
 BY <1>1, <1>2, <1>3, <1>4, LeadsHere
<1>6. CASE f # n BY <1>1, <1>2, <1>4, <1>5, <1>6
<1>7. CASE f = n BY <1>1, <1>2, <1>3, <1>4, <1>5, <1>7
<1> QED BY <1>6, <1>7

LEMMA LinkPushed ==
 ASSUME NEW cts, NEW p, NEW rt, TreeInv(cts, rt), OrderInv(cts, p, rt), NEW n \in DOMAIN cts,
        NEW a \in DOMAIN cts, a = cts[n].link, NEW b \in DOMAIN cts, Le(p, a, b), Upto(cts, p, a, b, EMPTY)
 PROVE  LinkOn(cts, p, n, b)
<1>1. LinkOn(cts, p, n, a) /\ Numbered(cts, p) /\ AllEnd(cts) /\ a # NoNode /\ b # NoNode
 BY OrderRows DEF Names, NoNode
<1>2. Lt(p, n, a) /\ \A x \in DOMAIN cts : Lt(p, n, x) /\ Lt(p, x, a) => ~Full(cts[x])
 BY <1>1 DEF LinkOn
<1>3. Lt(p, n, b) BY <1>1, <1>2, RowFacts
<1>4. ASSUME NEW x \in DOMAIN cts, Lt(p, n, x), Lt(p, x, b) PROVE ~Full(cts[x])
 <2>1. x[1] = a[1] BY <1>2, <1>4 DEF Lt
 <2>2. CASE Lt(p, x, a) BY <1>2, <1>4, <2>2
 <2>3. CASE Le(p, a, x)
  <3>1. UpperEnd(cts[x]) <= EMPTY /\ Ends(cts[x]) BY <1>1, <1>4, <2>3 DEF Upto, AllEnd
  <3> QED BY <3>1 DEF Ends
 <2> QED BY <1>1, <2>1, <2>2, <2>3, RowFacts
<1> QED BY <1>1, <1>3, <1>4 DEF LinkOn

LEMMA HasIt ==
 ASSUME NEW cts, NEW p, NEW rt, TreeInv(cts, rt), OrderInv(cts, p, rt), NEW q \in DOMAIN cts,
        NEW v \in Int, Between(cts, p, q, v), Full(cts[q]), v < First(cts[q])
 PROVE  Has(cts, q[1], v) /\ EndsBefore(cts, p, q, v)
<1>1. Numbered(cts, p) /\ AllEnd(cts) /\ ItemsLead(cts, p) BY OrderRows DEF OrderInv
<1>2. \A y \in DOMAIN cts : Le(p, q, y) /\ Full(cts[y]) => First(cts[q]) <= First(cts[y])
 <2>1. TAKE y \in DOMAIN cts
 <2>2. HAVE Le(p, q, y) /\ Full(cts[y])
 <2>3. Ends(cts[y]) /\ Ends(cts[q]) BY <1>1 DEF AllEnd
 <2>4. y = q \/ Lt(p, q, y) BY <1>1, <2>2, RowFacts
 <2>5. Lt(p, q, y) => First(cts[q]) <= First(cts[y]) BY <1>1, <2>2, ItemsAscend
 <2> QED BY <2>3, <2>4, <2>5 DEF Ends
<1>3. Has(cts, q[1], v)
 <2>1. SUFFICES ASSUME NEW y \in DOMAIN cts, Le(p, q, y), Full(cts[y]), First(cts[y]) <= v PROVE FALSE
  BY DEF Between
 <2>2. First(cts[q]) <= First(cts[y]) /\ Ends(cts[y]) /\ Ends(cts[q]) BY <1>1, <1>2, <2>1 DEF AllEnd
 <2> QED BY <2>1, <2>2 DEF Ends
<1>4. PICK z \in DOMAIN cts : z[1] = q[1] /\ Holds(cts[z], v) BY <1>3 DEF Has
<1>5. Full(cts[z]) /\ First(cts[z]) <= v /\ v <= UpperEnd(cts[z]) /\ First(cts[z]) \in Int /\ UpperEnd(cts[z]) \in Int
      /\ First(cts[q]) \in Int
 BY <1>1, <1>4 DEF AllEnd, Ends
<1>6. ~Le(p, q, z) BY <1>2, <1>5
<1>7. Lt(p, z, q) BY <1>1, <1>4, <1>6, RowFacts
<1>8. UpperEnd(cts[z]) <= v BY <1>7 DEF Between, Low
<1> QED BY <1>3, <1>5, <1>7, <1>8 DEF EndsBefore

LEMMA PushedPromise ==
 ASSUME NEW cts, NEW p, NEW rt, TreeInv(cts, rt), OrderInv(cts, p, rt), NEW l, l # 0, NEW w,
        NEW a \in DOMAIN cts, NEW b \in DOMAIN cts, a[1] = b[1], Promise(cts, p, l, w, a),
        NEW e \in Int, Upto(cts, p, a, b, e), Bounded(cts, l, e, w)
 PROVE  Promise(cts, p, l, w, b)
<1>1. Numbered(cts, p) /\ AllEnd(cts) BY OrderRows
<1>2. HasStays(cts, cts) BY DEF HasStays
<1>3. SUFFICES ASSUME NEW x \in DOMAIN cts, Lt(p, x, b) PROVE Bounded(cts, l, UpperEnd(cts[x]), w)
 BY DEF Promise
<1>4. x[1] = a[1] /\ UpperEnd(cts[x]) \in Int /\ EMPTY \in Int BY <1>1, <1>3 DEF Lt, AllEnd, Ends
<1>5. CASE Lt(p, x, a) BY <1>5 DEF Promise
<1>6. CASE Le(p, a, x)
 <2>1. UpperEnd(cts[x]) <= e BY <1>3, <1>6 DEF Upto
 <2> QED BY <1>2, <1>4, <2>1, BoundedStays, ItemsAreIntegers
<1> QED BY <1>1, <1>4, <1>5, <1>6, RowFacts

LEMMA SameItemsGood ==
 ASSUME NEW cts, NEW p, NEW rt, TreeInv(cts, rt), OrderInv(cts, p, rt),
        NEW cts2, NEW n, NEW new, OneNode(cts, cts2, n, new), TreeInv(cts2, rt),
        new.items = cts[n].items, cts[n].stamp < new.stamp, LinkOn(cts, p, n, new.link),
        n[1] # 0 => \A w, d : Leads(new, w, d) =>
             \/ Leads(cts[n], w, d)
             \/ /\ d \in DOMAIN cts /\ Promise(cts, p, n[1], w, d)
                /\ \A x \in DOMAIN cts : Lt(p, x, n) /\ UpperEnd(cts[x]) = w => LeadsFrom(cts, p, x, w, d)
 PROVE  Good(cts, p, cts2, p, rt)
<1>1. n \in DOMAIN cts /\ Rows(cts, p) /\ AllEnd(cts) /\ AllEnd(cts2) /\ GoesFirst(cts, p, n, cts[n]) /\ Ends(cts[n])
 BY OrderRows, TreeEnds DEF OneNode
<1>2. ItemsKept(n, cts[n], new) /\ GoesFirst(cts, p, n, new)
 <2>1. UpperEnd(new) = UpperEnd(cts[n]) /\ First(new) = First(cts[n]) /\ (Full(new) <=> Full(cts[n]))
  BY DEF UpperEnd, First, Full
 <2>2. \A w : Holds(cts[n], w) => Holds(new, w) BY DEF Holds
 <2>3. UpperEnd(new) <= UpperEnd(cts[n]) BY <1>1, <2>1 DEF Ends
 <2> QED BY <1>1, <2>1, <2>2, <2>3 DEF ItemsKept, GoesFirst
<1>3. Safe(cts, p, cts2, p) /\ HasStays(cts, cts2) /\ Moved(cts, p, cts2, p)
 BY <1>1, <1>2, KeptIsSafe DEF Safe
<1>4. n[1] # 0 => \A w, d : Leads(new, w, d) => Leads(cts[n], w, d) \/ Promise(cts2, p, n[1], w, d)
 BY <1>1, <1>3, PromiseStays
<1>5. OrderInv(cts2, p, rt) BY <1>2, <1>4, KeptOrder
<1>6. TwinsOK(cts, p, cts2, p) BY OneNodeTwins
<1> QED BY <1>3, <1>5, <1>6 DEF Good

(* cleanLink *)
LEMMA CleanLinkGood ==
 ASSUME NEW cts, NEW p, NEW rt, TreeInv(cts, rt), OrderInv(cts, p, rt),
        NEW n \in DOMAIN cts, NEW c, c = cts[n], NEW b, NEW new, new = WithLink(c, b),
        NEW cts2, OneNode(cts, cts2, n, new), TreeInv(cts2, rt),
        c.link \in DOMAIN cts, b \in DOMAIN cts, Le(p, c.link, b), Upto(cts, p, c.link, b, EMPTY)
 PROVE  Good(cts, p, cts2, p, rt)
<1>1. Shape(DOMAIN cts, n[1], c) /\ n[1] \in Nat /\ DOMAIN cts \in SUBSET Names BY OrderRows
<1>2. new.items = c.items /\ new.children = c.children /\ new.link = b /\ c.stamp < new.stamp
 BY <1>1, LinkedIs
<1>3. LinkOn(cts, p, n, new.link)
 <2>1. PICK a \in DOMAIN cts : a = c.link OBVIOUS
 <2> QED BY <1>2, <2>1, LinkPushed
<1>4. \A w, d : Leads(new, w, d) => Leads(c, w, d) BY <1>2 DEF Leads
<1> QED BY <1>2, <1>3, <1>4, SameItemsGood

(* shiftChild, for the samaritan: the first child of q is pushed right. *)
LEMMA NephewGood ==
 ASSUME NEW cts, NEW p, NEW rt, TreeInv(cts, rt), OrderInv(cts, p, rt),
        NEW q \in DOMAIN cts, q[1] # 0, NEW c, c = cts[q], Full(c), NEW v \in Int, Between(cts, p, q, v),
        NEW a \in DOMAIN cts, a = c.children[1], NEW b \in DOMAIN cts,
        Le(p, a, b), Upto(cts, p, a, b, LowEnd(c, v)),
        NEW new, new = WithChildren(c, ReplaceAt(c.children, 1, b)),
        NEW cts2, OneNode(cts, cts2, q, new), TreeInv(cts2, rt)
 PROVE  Good(cts, p, cts2, p, rt)
<1>1. Shape(DOMAIN cts, q[1], c) /\ q[1] \in Nat /\ DOMAIN cts \in SUBSET Names /\ Ends(c) /\ b \in Names
      /\ Numbered(cts, p) /\ AllEnd(cts)
 BY OrderRows
<1>2. c.items # <<>> /\ Len(c.items) \in Nat /\ Len(c.items) # 0 BY <1>1, ShapeFacts DEF Full
<1>3. PICK one \in 1 .. Len(c.items) : one = 1 BY <1>2
<1>4. PICK ch : ch = ReplaceAt(c.children, one, b) OBVIOUS
<1>5. new = WithChildren(c, ch) BY <1>3, <1>4
<1>6. new.items = c.items /\ new.children = ch /\ new.link = c.link /\ c.stamp < new.stamp
 BY <1>1, <1>5, RechildedIs
<1>7. LeadsAlso(c, new, First(c), b)
 <2>1. First(c) = c.items[one] BY <1>3 DEF First
 <2> QED BY <1>1, <1>4, <1>5, <2>1, ReplacedLeads
<1>8. Leads(c, First(c), a) BY <1>3 DEF Leads, First
<1>9. First(c) \in Int /\ EMPTY \in Int /\ LowEnd(c, v) \in Int BY <1>1 DEF Ends, LowEnd
<1>10. a[1] = b[1] BY DEF Le
<1>11. Bounded(cts, q[1], LowEnd(c, v), First(c))
 <2>1. CASE v < First(c)
  <3>1. Has(cts, q[1], v) BY <2>1, HasIt
  <3>2. v \in Item
   <4>1. PICK z \in DOMAIN cts : Holds(cts[z], v) BY <3>1 DEF Has
   <4> QED BY <1>1, <4>1 DEF AllEnd, Ends
  <3>3. LowEnd(c, v) <= v BY <1>9, <2>1 DEF LowEnd
  <3> QED BY <2>1, <3>1, <3>2, <3>3 DEF Bounded
 <2>2. CASE ~(v < First(c))
  <3>1. LowEnd(c, v) = EMPTY BY <1>9, <2>2 DEF LowEnd
  <3> QED BY <1>9, <3>1 DEF Bounded
 <2> QED BY <2>1, <2>2
<1>12. Promise(cts, p, q[1], First(c), b)
 <2>1. Promise(cts, p, q[1], First(c), a) BY <1>8, OrderRows
 <2> QED BY <1>9, <1>10, <1>11, <2>1, PushedPromise
<1>13. ASSUME NEW x \in DOMAIN cts, Lt(p, x, q), UpperEnd(cts[x]) = First(c)
       PROVE  LeadsFrom(cts, p, x, First(c), b)
 <2>1. First(c) <= v BY <1>13 DEF Between, Low
 <2>2. LowEnd(c, v) = EMPTY BY <1>9, <2>1 DEF LowEnd
 <2> QED BY <1>8, <1>10, <1>13, <2>2 DEF LeadsFrom
<1>14. ASSUME NEW w, NEW d, Leads(new, w, d)
       PROVE  \/ Leads(c, w, d)
              \/ /\ d \in DOMAIN cts /\ Promise(cts, p, q[1], w, d)
                 /\ \A x \in DOMAIN cts : Lt(p, x, q) /\ UpperEnd(cts[x]) = w => LeadsFrom(cts, p, x, w, d)
 <2>1. Leads(c, w, d) \/ (w = First(c) /\ d = b) BY <1>7, <1>14 DEF LeadsAlso
 <2> QED BY <1>12, <1>13, <2>1
<1>15. LinkOn(cts, p, q, new.link) BY <1>6, OrderRows
<1> QED BY <1>6, <1>14, <1>15, SameItemsGood

(* cleanNode: the children are pushed right, up to what the item before    *)
(* them says.                                                              *)
BarrierFits(cts, p, n, c, j, e) ==
    /\ e \in Int /\ Bounded(cts, n[1], e, c.items[j])
    /\ \A x \in DOMAIN cts : Lt(p, x, n) /\ UpperEnd(cts[x]) = c.items[j] => e = EMPTY
    /\ j > 1 => \E k \in 1 .. Len(c.items) : k = j - 1 /\ e = c.items[k]

LEMMA BarrierFitsHere ==
 ASSUME NEW cts, NEW p, NEW rt, TreeInv(cts, rt), OrderInv(cts, p, rt),
        NEW n \in DOMAIN cts, n[1] # 0, NEW c, c = cts[n], NEW b \in Int, BarrierHolds(cts, p, n, b),
        NEW j \in 1 .. Len(c.items)
 PROVE  BarrierFits(cts, p, n, c, j, BarrierOf(c, j, b))
<1>9. Shape(DOMAIN cts, n[1], c) /\ n[1] \in Nat /\ DOMAIN cts \in SUBSET Names /\ Ends(c)
      /\ AllEnd(cts) /\ GoesFirst(cts, p, n, c)
 BY OrderRows
<1>1. Shape(DOMAIN cts, n[1], c) /\ n[1] \in Nat /\ DOMAIN cts \in SUBSET Names /\ Ends(c) /\ EMPTY \in Int
      /\ AllEnd(cts) /\ GoesFirst(cts, p, n, c)
 BY <1>9 DEF Ends
<1>2. PICK s : s = c.items OBVIOUS
<1>8. /\ Len(s) \in Nat /\ j \in 1 .. Len(s)
      /\ \A i \in 1 .. Len(s) : s[i] \in Item /\ s[i] \in Int
      /\ \A i, k \in 1 .. Len(s) : i < k => s[i] < s[k]
 BY <1>1, <1>2, ShapeFacts
<1>12. 1 \in 1 .. Len(s) BY ONLY <1>8
<1>3. /\ Len(s) \in Nat /\ j \in 1 .. Len(s) /\ 1 \in 1 .. Len(s)
      /\ \A i \in 1 .. Len(s) : s[i] \in Item /\ s[i] \in Int
      /\ \A i, k \in 1 .. Len(s) : i < k => s[i] < s[k]
 BY ONLY <1>8, <1>12
<1>4. Full(c) /\ First(c) = s[1] /\ \A k \in 1 .. Len(s) : Has(cts, n[1], s[k])
 <2>1. \A k \in 1 .. Len(s) : Holds(c, s[k]) BY <1>2 DEF Holds
 <2>2. Full(c) BY <1>1, <1>3, <2>1 DEF Ends
 <2> QED BY <1>2, <2>1, <2>2 DEF Has, First
<1>5. \A x \in DOMAIN cts : Lt(p, x, n) => UpperEnd(cts[x]) <= s[1] /\ UpperEnd(cts[x]) \in Int
 <2>1. TAKE x \in DOMAIN cts
 <2>2. Ends(cts[x]) /\ EMPTY < s[1] BY <1>1, <1>4 DEF AllEnd, Ends
 <2> QED BY <1>1, <1>3, <1>4, <2>2 DEF GoesFirst, Ends
<1>6. CASE j > 1
 <2>1. PICK k \in 1 .. Len(s) : k = j - 1 BY <1>3, <1>6
 <2>2. BarrierOf(c, j, b) = s[k] BY <1>2, <1>6, <2>1 DEF BarrierOf
 <2>3. s[k] \in Item /\ s[k] \in Int /\ s[k] < s[j] /\ s[1] <= s[k] /\ s[j] \in Int /\ s[1] \in Int
  <3>1. k < j /\ (k = 1 \/ 1 < k) BY <1>3, <2>1
  <3> QED BY <1>3, <3>1
 <2>6. PICK v, w : v = s[k] /\ w = s[j] OBVIOUS
 <2>7. v \in Item /\ v \in Int /\ v < w /\ Has(cts, n[1], v) /\ v <= v BY <1>4, <2>3, <2>6
 <2>8. Bounded(cts, n[1], v, w) BY <2>7 DEF Bounded
 <2>4. Bounded(cts, n[1], s[k], s[j]) BY <2>6, <2>8
 <2>5. \A x \in DOMAIN cts : Lt(p, x, n) => UpperEnd(cts[x]) # s[j]
  <3>1. TAKE x \in DOMAIN cts
  <3>2. HAVE Lt(p, x, n)
  <3>3. UpperEnd(cts[x]) <= s[1] /\ UpperEnd(cts[x]) \in Int BY <1>5, <3>2
  <3> QED BY ONLY <2>3, <3>3
 <2> QED BY <1>2, <1>6, <2>1, <2>2, <2>3, <2>4, <2>5 DEF BarrierFits
<1>7. CASE j = 1
 <2>1. BarrierOf(c, j, b) = IF s[1] <= b THEN EMPTY ELSE b BY <1>2, <1>7 DEF BarrierOf
 <2>2. CASE s[1] <= b \/ b = EMPTY
  <3>1. BarrierOf(c, j, b) = EMPTY BY <2>1, <2>2
  <3>2. Bounded(cts, n[1], EMPTY, c.items[j]) BY <1>1 DEF Bounded
  <3> QED BY <1>1, <1>7, <3>1, <3>2 DEF BarrierFits
 <2>3. CASE ~(s[1] <= b) /\ b # EMPTY
  <3>1. BarrierOf(c, j, b) = b /\ b < s[1] BY <1>3, <2>1, <2>3
  <3>2. Between(cts, p, n, b) BY <2>3 DEF BarrierHolds
  <3>3. Has(cts, n[1], b) BY <1>4, <3>1, <3>2, HasIt
  <3>4. b \in Item
   <4>1. PICK z \in DOMAIN cts : Holds(cts[z], b) BY <3>3 DEF Has
   <4> QED BY <1>1, <4>1 DEF AllEnd, Ends
  <3>5. Bounded(cts, n[1], b, s[1]) BY <3>1, <3>3, <3>4 DEF Bounded
  <3>6. \A x \in DOMAIN cts : Lt(p, x, n) => UpperEnd(cts[x]) # s[1]
   <4>1. \A x \in DOMAIN cts : Lt(p, x, n) => UpperEnd(cts[x]) <= b BY <3>2 DEF Between, Low
   <4> QED BY <1>3, <1>5, <3>1, <4>1
  <3> QED BY <1>2, <1>7, <3>1, <3>5, <3>6 DEF BarrierFits
 <2> QED BY <2>2, <2>3
<1> QED BY <1>3, <1>6, <1>7

(* The children that pushRight has found. *)
Pushed(cts, p, c, key, b, a) ==
    \A q \in 1 .. Len(a) : \E j \in 1 .. Len(c.items) :
        /\ j = Adjusting(c, key)[q] /\ a[q] \in DOMAIN cts /\ c.children[j] \in DOMAIN cts
        /\ Le(p, c.children[j], a[q]) /\ Upto(cts, p, c.children[j], a[q], BarrierOf(c, j, b))

LEMMA PushedLeads ==
 ASSUME NEW cts, NEW p, NEW rt, TreeInv(cts, rt), OrderInv(cts, p, rt),
        NEW n \in DOMAIN cts, n[1] # 0, NEW c, c = cts[n], NEW b \in Int, BarrierHolds(cts, p, n, b),
        NEW j \in 1 .. Len(c.items), NEW d \in DOMAIN cts, c.children[j] \in DOMAIN cts,
        Le(p, c.children[j], d), Upto(cts, p, c.children[j], d, BarrierOf(c, j, b))
 PROVE  /\ Promise(cts, p, n[1], c.items[j], d)
        /\ \A x \in DOMAIN cts : Lt(p, x, n) /\ UpperEnd(cts[x]) = c.items[j] => LeadsFrom(cts, p, x, c.items[j], d)
<1>1. BarrierFits(cts, p, n, c, j, BarrierOf(c, j, b)) BY BarrierFitsHere
<1>2. PICK e \in Int : e = BarrierOf(c, j, b) BY <1>1 DEF BarrierFits
<1>3. PICK a \in DOMAIN cts : a = c.children[j] OBVIOUS
<1>4. PICK w : w = c.items[j] OBVIOUS
<1>5. Leads(c, w, a) /\ a[1] = d[1] /\ Upto(cts, p, a, d, e) /\ Bounded(cts, n[1], e, w)
 BY <1>1, <1>2, <1>3, <1>4 DEF Leads, Le, BarrierFits
<1>6. Promise(cts, p, n[1], w, a) BY <1>5, OrderRows
<1>7. Promise(cts, p, n[1], w, d) BY <1>5, <1>6, PushedPromise
<1>8. ASSUME NEW x \in DOMAIN cts, Lt(p, x, n), UpperEnd(cts[x]) = w PROVE LeadsFrom(cts, p, x, w, d)
 <2>1. e = EMPTY BY <1>1, <1>2, <1>4, <1>8 DEF BarrierFits
 <2> QED BY <1>5, <1>8, <2>1 DEF LeadsFrom
<1> QED BY <1>4, <1>7, <1>8

LEMMA AdjustGood ==
 ASSUME NEW cts, NEW p, NEW rt, TreeInv(cts, rt), OrderInv(cts, p, rt),
        NEW n \in DOMAIN cts, n[1] # 0, NEW c, c = cts[n], NEW b \in Int, BarrierHolds(cts, p, n, b),
        NEW key \in Keys, HasPlace(DOMAIN cts, n[1], c, key),
        NEW a \in Seq(Names), Len(a) = Len(Adjusting(c, key)), Pushed(cts, p, c, key, b, a),
        ~Dropping(c, key, a), NEW new, new = Adjusted(c, key, a),
        NEW cts2, OneNode(cts, cts2, n, new), TreeInv(cts2, rt)
 PROVE  Good(cts, p, cts2, p, rt)
<1>1. n[1] \in Nat /\ DOMAIN cts \in SUBSET Names BY OrderRows
<1>2. /\ new.items = c.items /\ new.link = c.link /\ c.stamp < new.stamp
      /\ \A w, d : Leads(new, w, d) =>
           Leads(c, w, d) \/ \E q \in 1 .. Len(a) : w = c.items[Adjusting(c, key)[q]] /\ d = a[q]
 <2>1. PICK D, l : D = DOMAIN cts /\ l = n[1] OBVIOUS
 <2>2. D \in SUBSET Names /\ l \in Nat /\ l # 0 /\ HasPlace(D, l, c, key) BY <1>1, <2>1
 <2>3. new.items = c.items /\ new.link = c.link /\ c.stamp < new.stamp /\ LeadsPushed(c, new, key, a)
  BY ONLY <2>2, key \in Keys, a \in Seq(Names), Len(a) = Len(Adjusting(c, key)), ~Dropping(c, key,
     a), new = Adjusted(c, key, a), AdjustedLeads
 <2> QED BY <2>3 DEF LeadsPushed
<1>3. ASSUME NEW w, NEW d, Leads(new, w, d)
      PROVE  \/ Leads(c, w, d)
             \/ /\ d \in DOMAIN cts /\ Promise(cts, p, n[1], w, d)
                /\ \A x \in DOMAIN cts : Lt(p, x, n) /\ UpperEnd(cts[x]) = w => LeadsFrom(cts, p, x, w, d)
 <2>1. SUFFICES ASSUME NEW q \in 1 .. Len(a), w = c.items[Adjusting(c, key)[q]], d = a[q]
                PROVE  /\ d \in DOMAIN cts /\ Promise(cts, p, n[1], w, d)
                       /\ \A x \in DOMAIN cts : Lt(p, x, n) /\ UpperEnd(cts[x]) = w => LeadsFrom(cts, p, x, w, d)
  BY <1>2, <1>3
 <2>2. PICK j \in 1 .. Len(c.items) :
             /\ j = Adjusting(c, key)[q] /\ a[q] \in DOMAIN cts /\ c.children[j] \in DOMAIN cts
             /\ Le(p, c.children[j], a[q]) /\ Upto(cts, p, c.children[j], a[q], BarrierOf(c, j, b))
  BY DEF Pushed
 <2>3. w = c.items[j] /\ d \in DOMAIN cts /\ Le(p, c.children[j], d)
       /\ Upto(cts, p, c.children[j], d, BarrierOf(c, j, b))
  BY <2>1, <2>2
 <2> QED BY <2>2, <2>3, PushedLeads
<1>4. LinkOn(cts, p, n, new.link) BY <1>2, OrderRows
<1> QED BY <1>2, <1>3, <1>4, SameItemsGood

(* cleanNodeN drops one of two items that lead to the same child.          *)
Drops(cts, p, n, c, i, e) ==
    i + 1 = Len(c.items) =>
        \A f \in DOMAIN cts : \A d : Lt(p, n, f) /\ Leads(cts[f], UpperEnd(c), d) => Upto(cts, p, e, d, EMPTY)
HasButOne(cts, cts2, l0, v) == \A l, w : Has(cts, l, w) /\ (l # l0 \/ w # v) => Has(cts2, l, w)
PromisesBut(cts, cts2, p, l0, v) ==
    \A l : l # 0 => \A w \in Int, d \in DOMAIN cts :
        Promise(cts, p, l, w, d) /\ (l = l0 => Has(cts, l, w) /\ w # v) => Promise(cts2, p, l, w, d)

(* The items w of the level above v are w1, or above it.                   *)
LEMMA DropPromises ==
 ASSUME NEW cts, NEW p, NEW cts2, DOMAIN cts2 = DOMAIN cts, Moved(cts, p, cts2, p), AllEnd(cts), AllEnd(cts2),
        NEW l0, NEW v \in Item, NEW w1 \in Item, v < w1, HasButOne(cts, cts2, l0, v), Has(cts, l0, w1),
        \A w : Has(cts, l0, w) => w <= v \/ w1 <= w
 PROVE  PromisesBut(cts, cts2, p, l0, w1)
<1>1. SUFFICES ASSUME NEW l, l # 0, NEW w \in Int, NEW d \in DOMAIN cts, Promise(cts, p, l, w, d),
                      l = l0 => Has(cts, l, w) /\ w # w1, NEW x \in DOMAIN cts2, Lt(p, x, d)
               PROVE  Bounded(cts2, l, UpperEnd(cts2[x]), w)
 BY DEF PromisesBut, Promise
<1>2. Bounded(cts, l, UpperEnd(cts[x]), w) BY <1>1 DEF Promise
<1>3. UpperEnd(cts2[x]) \in Int /\ UpperEnd(cts[x]) \in Int /\ UpperEnd(cts2[x]) <= UpperEnd(cts[x]) /\ EMPTY \in Int
      /\ v \in Int /\ w1 \in Int
 BY <1>1, ItemsAreIntegers DEF AllEnd, Ends, Moved
<1>4. CASE UpperEnd(cts[x]) <= EMPTY BY <1>3, <1>4 DEF Bounded
<1>5. CASE ~(UpperEnd(cts[x]) <= EMPTY)
 <2>1. PICK u \in Item : Has(cts, l, u) /\ u < w /\ UpperEnd(cts[x]) <= u BY <1>2, <1>5 DEF Bounded
 <2>2. u \in Int BY ItemsAreIntegers
 <2>3. CASE l # l0 \/ u # v
  <3>1. Has(cts2, l, u) BY <2>1, <2>3 DEF HasButOne
  <3> QED BY <1>3, <2>1, <2>2, <3>1 DEF Bounded
 <2>4. CASE l = l0 /\ u = v
  <3>1. w1 < w BY <1>1, <1>3, <2>1, <2>2, <2>4
  <3>2. Has(cts2, l, w1) BY <1>3, <2>4 DEF HasButOne
  <3>3. UpperEnd(cts2[x]) <= w1 BY <1>3, <2>1, <2>2, <2>4
  <3> QED BY <3>1, <3>2, <3>3 DEF Bounded
 <2> QED BY <2>3, <2>4
<1> QED BY <1>4, <1>5

DropAt(cts, n, c, i, s) ==
    /\ n \in DOMAIN cts /\ n[1] # 0 /\ n[1] \in Nat /\ c = cts[n] /\ s = c.items /\ Ends(c)
    /\ Len(s) \in Nat /\ i \in 2 .. Len(s) - 1
    /\ \A k \in 1 .. Len(s) : s[k] \in Item /\ s[k] \in Int /\ Has(cts, n[1], s[k]) /\ Holds(c, s[k])
    /\ \A k, j \in 1 .. Len(s) : k < j => s[k] < s[j]
    /\ First(c) = s[1] /\ UpperEnd(c) = s[Len(s)] /\ Full(c)

LEMMA DropNeighbors ==
 ASSUME NEW cts, NEW p, NEW rt, TreeInv(cts, rt), OrderInv(cts, p, rt),
        NEW n, NEW c, NEW i, NEW s, DropAt(cts, n, c, i, s),
        NEW f \in DOMAIN cts, f[1] = n[1], f # n, NEW w, Holds(cts[f], w)
 PROVE  /\ w \in Int /\ (Lt(p, f, n) \/ Lt(p, n, f))
        /\ Lt(p, f, n) => w <= s[1]
        /\ Lt(p, n, f) => s[Len(s)] <= w
<1>1. Numbered(cts, p) /\ AllEnd(cts) /\ ItemsLead(cts, p) BY OrderRows DEF OrderInv
<1>2. n \in DOMAIN cts /\ c = cts[n] /\ First(c) = s[1] /\ UpperEnd(c) = s[Len(s)] /\ Full(c) /\ Ends(c)
 BY DEF DropAt
<1>3. Ends(cts[f]) /\ w \in Int /\ Full(cts[f]) /\ w <= UpperEnd(cts[f]) /\ First(cts[f]) <= w
 BY <1>1 DEF AllEnd, Ends
<1>4. Lt(p, f, n) \/ Lt(p, n, f) BY <1>1, <1>2, RowFacts
<1>5. ASSUME Lt(p, f, n) PROVE w <= s[1]
 <2>1. UpperEnd(cts[f]) <= First(c) BY <1>1, <1>2, <1>5, ItemsAscend
 <2> QED BY <1>2, <1>3, <2>1 DEF Ends
<1>6. ASSUME Lt(p, n, f) PROVE s[Len(s)] <= w
 <2>1. UpperEnd(c) <= First(cts[f]) BY <1>1, <1>2, <1>3, <1>6, ItemsAscend
 <2> QED BY <1>2, <1>3, <2>1 DEF Ends
<1> QED BY <1>3, <1>4, <1>5, <1>6

DropDone(cts, p, cts2, rt, l, w1, e) ==
    /\ OrderInv(cts2, p, rt) /\ Safe(cts, p, cts2, p) /\ TwinsOK(cts, p, cts2, p)
    /\ PromisesBut(cts, cts2, p, l, w1) /\ Promise(cts2, p, l, w1, e)

(* An x before d, in the other parts. *)
LEMMA PromiseFrom ==
 ASSUME NEW cts, NEW p, NEW l, NEW w, NEW a, NEW d, Numbered(cts, p),
        a \in DOMAIN cts, d \in DOMAIN cts, a[1] = d[1],
        Promise(cts, p, l, w, a), \A x \in DOMAIN cts : Le(p, a, x) /\ Lt(p, x, d) => Bounded(cts, l, UpperEnd(cts[x]), w)
 PROVE  Promise(cts, p, l, w, d)
<1>1. SUFFICES ASSUME NEW x \in DOMAIN cts, Lt(p, x, d) PROVE Bounded(cts, l, UpperEnd(cts[x]), w)
 BY DEF Promise
<1>2. x[1] = a[1] BY <1>1 DEF Lt
<1>3. Lt(p, x, a) \/ Le(p, a, x) BY <1>2, RowFacts
<1> QED BY <1>1, <1>3 DEF Promise

LEMMA DropGood ==
 ASSUME NEW cts, NEW p, NEW rt, TreeInv(cts, rt), OrderInv(cts, p, rt),
        NEW n \in DOMAIN cts, n[1] # 0, NEW c, c = cts[n], NEW b \in Int, BarrierHolds(cts, p, n, b),
        NEW key \in Keys, HasPlace(DOMAIN cts, n[1], c, key),
        NEW a \in Seq(Names), Len(a) = Len(Adjusting(c, key)), Pushed(cts, p, c, key, b, a),
        Dropping(c, key, a), NEW new, new = Adjusted(c, key, a),
        NEW i, i = Index(c, key), NEW e, e = a[2], Drops(cts, p, n, c, i, e),
        NEW cts2, OneNode(cts, cts2, n, new), TreeInv(cts2, rt)
 PROVE  DropDone(cts, p, cts2, rt, n[1], c.items[i + 1], e)
<1>1. n[1] \in Nat /\ DOMAIN cts \in SUBSET Names /\ Rows(cts, p) /\ Numbered(cts, p) /\ AllEnd(cts)
      /\ Shape(DOMAIN cts, n[1], c) /\ Ends(c) /\ LinkOn(cts, p, n, c.link) /\ GoesFirst(cts, p, n, c)
 BY OrderRows
<1>2. AllEnd(cts2) /\ DOMAIN cts2 = DOMAIN cts /\ cts2[n] = new /\ \A x \in DOMAIN cts \ {n} : cts2[x] = cts[x]
 BY TreeEnds DEF OneNode
<1>3. DroppedAs(c, new, key, a, i)
 <2>1. PICK D, l : D = DOMAIN cts /\ l = n[1] OBVIOUS
 <2>2. D \in SUBSET Names /\ l \in Nat /\ l # 0 /\ HasPlace(D, l, c, key) BY <1>1, <2>1
 <2> QED BY ONLY <2>2, key \in Keys, a \in Seq(Names), Len(a) = Len(Adjusting(c, key)),
                 Dropping(c, key, a), new = Adjusted(c, key, a), i = Index(c, key), AdjustedDrops
<1>4. PICK s : s = c.items OBVIOUS
<1>5. PICK v, w1, w0, w2, w3, g, h, N :
          /\ g = i - 1 /\ h = i + 1 /\ N = Len(s)
          /\ v = s[i] /\ w1 = s[h] /\ w0 = s[g] /\ w2 = s[1] /\ w3 = s[N]
 OBVIOUS
<1>6. /\ Len(s) \in Nat /\ i \in 2 .. Len(s) - 1 /\ i \in 1 .. Len(s) /\ i + 1 \in 1 .. Len(s) /\ i - 1 \in 1 .. Len(s)
      /\ 1 \in 1 .. Len(s) /\ Len(s) \in 1 .. Len(s) /\ i > 1 /\ i < Len(s)
 BY <1>3, <1>4 DEF DroppedAs
<1>7. /\ new.link = c.link /\ c.stamp < new.stamp /\ \A w : Holds(new, w) <=> Holds(c, w) /\ w # v
      /\ \A w, d : Leads(new, w, d) => (Leads(c, w, d) /\ w # v /\ w # w1) \/ (w = w1 /\ d = e)
 BY <1>3, <1>4, <1>5 DEF DroppedAs
<1>8. DropAt(cts, n, c, i, s)
 <2>1. /\ \A k \in 1 .. Len(s) : s[k] \in Item /\ s[k] \in Int
       /\ \A k, j \in 1 .. Len(s) : k < j => s[k] < s[j]
  BY <1>1, <1>4, ShapeFacts
 <2>2. \A k \in 1 .. Len(s) : Holds(c, s[k]) BY <1>4 DEF Holds
 <2>3. \A k \in 1 .. Len(s) : Has(cts, n[1], s[k]) BY <2>2 DEF Has
 <2>4. First(c) = s[1] /\ s # <<>> BY <1>4, <1>6 DEF First
 <2>5. UpperEnd(c) = s[Len(s)] /\ Full(c) BY <1>4, <2>4 DEF UpperEnd, Full, Last
 <2> QED BY <1>1, <1>4, <1>6, <2>1, <2>2, <2>3, <2>4, <2>5 DEF DropAt
<1>9. /\ v \in Item /\ w1 \in Item /\ w0 \in Item /\ v \in Int /\ w1 \in Int /\ w0 \in Int /\ w0 < v /\ v < w1
      /\ s[1] \in Int /\ s[Len(s)] \in Int /\ s[1] <= w0 /\ w1 <= s[Len(s)] /\ (i + 1 # Len(s) => w1 < s[Len(s)])
      /\ Holds(c, v) /\ Holds(c, w1) /\ Holds(c, w0) /\ Has(cts, n[1], w1)
 <2>1. /\ g < i /\ i < h /\ (1 = g \/ 1 < g) /\ (h = N \/ h < N) /\ (h # N => h < N)
       /\ g \in 1 .. N /\ h \in 1 .. N /\ i \in 1 .. N /\ 1 \in 1 .. N /\ N \in 1 .. N
  BY ONLY <1>5, <1>6
 <2>2. \A k, j \in 1 .. N : k < j => s[k] < s[j] BY <1>5, <1>8 DEF DropAt
 <2>3. \A k \in 1 .. N : s[k] \in Item /\ s[k] \in Int /\ Has(cts, n[1], s[k]) /\ Holds(c, s[k])
  BY <1>5, <1>8 DEF DropAt
 <2>4. /\ v \in Item /\ w1 \in Item /\ w0 \in Item /\ v \in Int /\ w1 \in Int /\ w0 \in Int /\ w2 \in Int /\ w3 \in Int
       /\ Holds(c, v) /\ Holds(c, w1) /\ Holds(c, w0) /\ Has(cts, n[1], w1)
  BY ONLY <1>5, <2>1, <2>3
 <2>5. w0 < v /\ v < w1 /\ (1 < g => w2 < w0) /\ (h < N => w1 < w3) BY ONLY <1>5, <2>1, <2>2
 <2>6. w2 <= w0 /\ w1 <= w3 BY ONLY <1>5, <2>1, <2>4, <2>5
 <2>7. i + 1 # Len(s) => w1 < w3 BY ONLY <1>5, <2>1, <2>5
 <2>8. s[1] = w2 /\ s[Len(s)] = w3 BY <1>5
 <2> QED BY ONLY <2>4, <2>5, <2>6, <2>7, <2>8
<1>10. First(c) = s[1] /\ UpperEnd(c) = s[Len(s)] /\ Full(c) BY <1>8 DEF DropAt
<1>11. \A f \in DOMAIN cts : f[1] = n[1] /\ f # n => \A w : Holds(cts[f], w) =>
          /\ w \in Int /\ (Lt(p, f, n) \/ Lt(p, n, f))
          /\ Lt(p, f, n) => w <= s[1]
          /\ Lt(p, n, f) => s[Len(s)] <= w
 BY <1>8, DropNeighbors
<1>12. \A w : Holds(c, w) => w \in Int /\ (w <= v \/ w1 <= w) /\ s[1] <= w /\ w <= s[Len(s)]
 <2>1. SUFFICES ASSUME NEW k \in 1 .. Len(s)
                PROVE  s[k] \in Int /\ (s[k] <= v \/ w1 <= s[k]) /\ s[1] <= s[k] /\ s[k] <= s[Len(s)]
  BY <1>4 DEF Holds
 <2>2. /\ (k < i \/ k = i \/ k = h \/ h < k) /\ (1 = k \/ 1 < k) /\ (k = N \/ k < N) /\ k \in 1 .. N
       /\ h \in 1 .. N /\ i \in 1 .. N /\ 1 \in 1 .. N /\ N \in 1 .. N
  BY ONLY <1>5, <1>6, k \in 1 .. Len(s)
 <2>3. \A y, j \in 1 .. N : y < j => s[y] < s[j] BY <1>5, <1>8 DEF DropAt
 <2>4. \A j \in 1 .. N : s[j] \in Int BY <1>5, <1>8 DEF DropAt
 <2>6. PICK u : u = s[k] OBVIOUS
 <2>5. /\ k < i => u < v
       /\ h < k => w1 < u
       /\ 1 < k => w2 < u
       /\ k < N => u < w3
       /\ k = i => u = v
       /\ k = h => u = w1
       /\ k = 1 => u = w2
       /\ k = N => u = w3
       /\ u \in Int
  BY ONLY <1>5, <2>2, <2>3, <2>4, <2>6
 <2>7. v \in Int /\ w1 \in Int /\ w2 \in Int /\ w3 \in Int /\ s[1] = w2 /\ s[Len(s)] = w3
  BY <1>5, <1>9
 <2> QED BY ONLY <2>2, <2>5, <2>6, <2>7
<1>13. Ends(new) /\ Full(new) /\ First(new) = s[1] /\ UpperEnd(new) = s[Len(s)]
 <2>1. Ends(new) BY <1>2 DEF AllEnd
 <2>6. Holds(c, s[1]) /\ Holds(c, s[Len(s)]) BY <1>1, <1>10 DEF Ends
 <2>7. s[1] # v /\ s[Len(s)] # v
  <3>1. PICK y, z : y = s[1] /\ z = s[Len(s)] OBVIOUS
  <3>2. y \in Int /\ z \in Int /\ y <= w0 /\ w0 < v /\ v < w1 /\ w1 <= z /\ v \in Int /\ w0 \in Int /\ w1 \in Int
   BY <1>9, <3>1
  <3>3. y # v /\ z # v BY ONLY <3>2
  <3> QED BY <3>1, <3>3
 <2>2. Holds(new, s[1]) /\ Holds(new, s[Len(s)]) BY <1>7, <2>6, <2>7
 <2>3. Full(new) /\ First(new) <= s[1] /\ s[Len(s)] <= UpperEnd(new) /\ Holds(new, First(new)) /\ Holds(new, UpperEnd(new))
  BY <2>1, <2>2 DEF Ends
 <2>4. Holds(c, First(new)) /\ Holds(c, UpperEnd(new)) BY <1>7, <2>3
 <2>5. s[1] <= First(new) /\ UpperEnd(new) <= s[Len(s)] /\ First(new) \in Int /\ UpperEnd(new) \in Int
  BY <1>12, <2>4
 <2>8. PICK y, z : y = s[1] /\ z = s[Len(s)] OBVIOUS
 <2>9. y \in Int /\ z \in Int /\ First(new) <= y /\ y <= First(new) /\ z <= UpperEnd(new) /\ UpperEnd(new) <= z
       /\ First(new) \in Int /\ UpperEnd(new) \in Int
  BY <1>9, <2>3, <2>5, <2>8
 <2>10. First(new) = y /\ UpperEnd(new) = z BY ONLY <2>9
 <2> QED BY <2>1, <2>3, <2>8, <2>10
<1>14. UpperEnd(new) <= UpperEnd(cts[n]) /\ Moved(cts, p, cts2, p) /\ Rows(cts2, p)
 <2>1. UpperEnd(new) <= UpperEnd(cts[n]) BY <1>9, <1>10, <1>13
 <2> QED BY <1>1, <1>2, <2>1, OneNodeMoves
<1>15. HasButOne(cts, cts2, n[1], v)
 <2>1. SUFFICES ASSUME NEW l, NEW w, NEW x \in DOMAIN cts, x[1] = l, Holds(cts[x], w), l # n[1] \/ w # v
                PROVE  Has(cts2, l, w)
  BY DEF HasButOne, Has
 <2>2. Holds(cts2[x], w) BY <1>2, <1>7, <2>1
 <2> QED BY <1>2, <2>1, <2>2 DEF Has
<1>16. \A w : Has(cts, n[1], w) => w <= v \/ w1 <= w
 <2>1. SUFFICES ASSUME NEW w, NEW x \in DOMAIN cts, x[1] = n[1], Holds(cts[x], w) PROVE w <= v \/ w1 <= w
  BY DEF Has
 <2>2. CASE x = n BY <1>12, <2>1, <2>2
 <2>3. CASE x # n
  <3>1. w \in Int /\ (w <= s[1] \/ s[Len(s)] <= w) BY <1>11, <2>1, <2>3
  <3>2. PICK y, z : y = s[1] /\ z = s[Len(s)] OBVIOUS
  <3>3. y \in Int /\ z \in Int /\ y <= w0 /\ w0 < v /\ w1 <= z /\ v \in Int /\ w0 \in Int /\ w1 \in Int
        /\ (w <= y \/ z <= w)
   BY <1>9, <3>1, <3>2
  <3> QED BY ONLY <3>1, <3>3
 <2> QED BY <2>2, <2>3
<1>17. PromisesBut(cts, cts2, p, n[1], w1)
 <2>1. PICK l : l = n[1] OBVIOUS
 <2>2. HasButOne(cts, cts2, l, v) /\ Has(cts, l, w1) /\ \A w : Has(cts, l, w) => w <= v \/ w1 <= w
  BY <1>9, <1>15, <1>16, <2>1
 <2>3. PromisesBut(cts, cts2, p, l, w1) BY ONLY <2>2, <1>1, <1>2, <1>9, <1>14, DropPromises
 <2> QED BY <2>1, <2>3
<1>18. PICK ch \in DOMAIN cts : ch = c.children[i] /\ Le(p, ch, e) /\ Upto(cts, p, ch, e, w0) /\ Leads(c, v, ch) /\ e \in DOMAIN cts
 <2>1. Len(a) = 2 /\ a[1] = a[2] /\ Adjusting(c, key)[1] = i BY <1>3 DEF DroppedAs
 <2>2. PICK j \in 1 .. Len(c.items) :
             /\ j = Adjusting(c, key)[1] /\ a[1] \in DOMAIN cts /\ c.children[j] \in DOMAIN cts
             /\ Le(p, c.children[j], a[1]) /\ Upto(cts, p, c.children[j], a[1], BarrierOf(c, j, b))
  BY <2>1 DEF Pushed
 <2>3. j = i /\ a[1] = e BY <2>1, <2>2
 <2>4. BarrierOf(c, i, b) = w0 BY <1>4, <1>5, <1>6 DEF BarrierOf
 <2>5. Leads(c, v, c.children[i]) BY <1>4, <1>5, <1>6 DEF Leads
 <2> QED BY <2>2, <2>3, <2>4, <2>5
<1>19. Numbered(cts2, p) /\ \A x \in DOMAIN cts :
            /\ UpperEnd(cts2[x]) <= UpperEnd(cts[x])
            /\ UpperEnd(cts2[x]) \in Int /\ UpperEnd(cts[x]) \in Int /\ EMPTY \in Int
 <2>1. \A x \in DOMAIN cts : Ends(cts2[x]) /\ Ends(cts[x]) BY <1>1, <1>2 DEF AllEnd
 <2>2. \A x \in DOMAIN cts : UpperEnd(cts2[x]) <= UpperEnd(cts[x]) BY <1>14 DEF Moved
 <2> QED BY <1>14, <2>1, <2>2 DEF Ends, Rows
<1>20. Promise(cts2, p, n[1], w1, ch)
 <2>1. Promise(cts, p, n[1], v, ch) BY <1>18, OrderRows
 <2>2. SUFFICES ASSUME NEW x \in DOMAIN cts, Lt(p, x, ch) PROVE Bounded(cts2, n[1], UpperEnd(cts2[x]), w1)
  BY <1>2 DEF Promise
 <2>3. Bounded(cts, n[1], UpperEnd(cts[x]), v) BY <2>1, <2>2 DEF Promise
 <2>4. UpperEnd(cts2[x]) <= UpperEnd(cts[x]) /\ UpperEnd(cts2[x]) \in Int /\ UpperEnd(cts[x]) \in Int /\ EMPTY \in Int
  BY <1>19
 <2>5. CASE UpperEnd(cts[x]) <= EMPTY BY <2>4, <2>5 DEF Bounded
 <2>6. CASE ~(UpperEnd(cts[x]) <= EMPTY)
  <3>1. PICK u \in Item : Has(cts, n[1], u) /\ u < v /\ UpperEnd(cts[x]) <= u
   BY <2>3, <2>6 DEF Bounded
  <3>2. u \in Int BY ItemsAreIntegers
  <3>5. v \in Int /\ w1 \in Int /\ v < w1 BY <1>9
  <3>3. u < w1 /\ u # v /\ UpperEnd(cts2[x]) <= u BY ONLY <3>5, <2>4, <3>1, <3>2
  <3>4. Has(cts2, n[1], u) BY <1>15, <3>1, <3>3 DEF HasButOne
  <3> QED BY <3>3, <3>4 DEF Bounded
 <2> QED BY <2>5, <2>6
<1>21. Promise(cts2, p, n[1], w1, e)
 <2>1. Has(cts2, n[1], w0)
  <3>1. Has(cts, n[1], w0) /\ w0 # v BY <1>1, <1>9 DEF Has
  <3> QED BY <1>15, <3>1 DEF HasButOne
 <2>2. ASSUME NEW x \in DOMAIN cts, Le(p, ch, x), Lt(p, x, e) PROVE Bounded(cts2, n[1], UpperEnd(cts2[x]), w1)
  <3>1. UpperEnd(cts[x]) <= w0 BY <1>18, <2>2 DEF Upto
  <3>3. v \in Int /\ w1 \in Int /\ v < w1 /\ w0 \in Int /\ w0 < v BY <1>9
  <3>4. UpperEnd(cts2[x]) <= UpperEnd(cts[x]) /\ UpperEnd(cts2[x]) \in Int /\ UpperEnd(cts[x]) \in Int
   BY <1>19
  <3>2. UpperEnd(cts2[x]) <= w0 /\ w0 < w1 BY ONLY <3>1, <3>3, <3>4
  <3> QED BY <1>9, <2>1, <3>2 DEF Bounded
 <2>3. ch[1] = e[1] BY <1>18 DEF Le
 <2> QED BY <1>2, <1>18, <1>19, <1>20, <2>2, <2>3, PromiseFrom
<1>22. KeepsPromises(cts, p, cts2, n)
 <2>1. SUFFICES ASSUME NEW x \in DOMAIN cts, x # n, x[1] # 0, NEW w, NEW d, Leads(cts[x], w, d)
                PROVE  Promise(cts2, p, x[1], w, d)
  BY DEF KeepsPromises
 <2>2. Shape(DOMAIN cts, x[1], cts[x]) /\ x[1] \in Nat /\ Promise(cts, p, x[1], w, d)
  BY <2>1, OrderRows
 <2>3. d \in DOMAIN cts /\ d[1] = x[1] - 1 /\ w \in Int /\ Holds(cts[x], w)
  BY <1>1, <2>1, <2>2, LeadsIn
 <2>4. CASE x[1] # n[1] \/ w # w1
  <3>1. Has(cts, x[1], w) BY <2>3 DEF Has
  <3> QED BY <1>17, <2>1, <2>2, <2>3, <2>4, <3>1 DEF PromisesBut
 <2>5. CASE x[1] = n[1] /\ w = w1
  <3>1. /\ Lt(p, x, n) \/ Lt(p, n, x)
        /\ Lt(p, x, n) => w <= s[1]
        /\ Lt(p, n, x) => s[Len(s)] <= w
   BY <1>11, <2>1, <2>3, <2>5
  <3>2. Lt(p, n, x) /\ s[Len(s)] <= w1
   <4>1. PICK y : y = s[1] OBVIOUS
   <4>2. ~(w1 <= y) BY ONLY <1>9, <4>1
   <4> QED BY <2>5, <3>1, <4>1, <4>2
  <3>3. i + 1 = Len(s) /\ UpperEnd(c) = w
   <4>1. PICK y : y = s[Len(s)] OBVIOUS
   <4>2. y \in Int /\ (i + 1 # Len(s) => w1 < y) /\ w1 \in Int /\ y <= w1 /\ w1 <= y
    BY <1>9, <3>2, <4>1
   <4>3. i + 1 = Len(s) /\ y = w1 BY ONLY <4>2
   <4> QED BY <1>10, <2>5, <4>1, <4>3
  <3>4. Upto(cts, p, e, d, EMPTY) BY <1>4, <2>1, <3>2, <3>3 DEF Drops
  <3>5. ASSUME NEW y \in DOMAIN cts, Le(p, e, y), Lt(p, y, d) PROVE Bounded(cts2, n[1], UpperEnd(cts2[y]), w1)
   <4>1. UpperEnd(cts[y]) <= EMPTY BY <3>4, <3>5 DEF Upto
   <4>2. UpperEnd(cts2[y]) <= EMPTY BY ONLY <1>19, <4>1, y \in DOMAIN cts
   <4> QED BY <4>2 DEF Bounded
  <3>6. e[1] = d[1]
   <4>2. ch[1] = e[1] BY <1>18 DEF Le
   <4>1. ch[1] = n[1] - 1 /\ ch[1] = e[1] BY <1>1, <1>18, <4>2, LeadsIn
   <4> QED BY <2>3, <2>5, <4>1
  <3> QED BY <1>2, <1>18, <1>19, <1>21, <2>3, <2>5, <3>5, <3>6, PromiseFrom
 <2> QED BY <2>4, <2>5
<1>23. OrderInv(cts2, p, rt)
 <2>1. ASSUME NEW w, NEW d, Leads(new, w, d) PROVE Promise(cts2, p, n[1], w, d)
  <3>1. CASE Leads(c, w, d) /\ w # w1
   <4>1. Promise(cts, p, n[1], w, d) BY <3>1, OrderRows
   <4>2. d \in DOMAIN cts /\ w \in Int /\ Has(cts, n[1], w) BY <1>1, <3>1, LeadsIn DEF Has
   <4> QED BY <1>17, <3>1, <4>1, <4>2 DEF PromisesBut
  <3> QED BY <1>7, <1>21, <2>1, <3>1
 <2>2. GoesFirst(cts, p, n, new) BY <1>1, <1>10, <1>13 DEF GoesFirst
 <2>3. LinkOn(cts, p, n, new.link) BY <1>1, <1>7
 <2> QED BY <1>14, <1>22, <2>1, <2>2, <2>3, OneNodeOrder DEF LinkOn, GoesFirst
<1>24. \A x \in DOMAIN cts : x # n /\ x[1] = n[1] /\ Full(cts[x]) => UpperEnd(cts[x]) # v /\ (Lt(p, x, n) => UpperEnd(cts[x]) # w1)
 <2>1. SUFFICES ASSUME NEW x \in DOMAIN cts, x # n, x[1] = n[1], Full(cts[x])
                PROVE  UpperEnd(cts[x]) # v /\ (Lt(p, x, n) => UpperEnd(cts[x]) # w1)
  OBVIOUS
 <2>2. Holds(cts[x], UpperEnd(cts[x])) BY <1>1, <2>1 DEF AllEnd, Ends
 <2>3. PICK u, y, z : u = UpperEnd(cts[x]) /\ y = s[1] /\ z = s[Len(s)] OBVIOUS
 <2>4. u \in Int /\ (Lt(p, x, n) \/ Lt(p, n, x)) /\ (Lt(p, x, n) => u <= y) /\ (Lt(p, n, x) => z <= u)
  BY <1>11, <2>1, <2>2, <2>3
 <2>5. y \in Int /\ z \in Int /\ y <= w0 /\ w0 < v /\ v < w1 /\ w1 <= z /\ v \in Int /\ w0 \in Int /\ w1 \in Int
  BY <1>9, <2>3
 <2>6. u # v /\ (Lt(p, x, n) => u # w1) BY ONLY <2>4, <2>5
 <2> QED BY <2>3, <2>6
<1>25. Safe(cts, p, cts2, p)
 <2>1. FirstsStay(cts, cts2, p)
  <3>1. SUFFICES ASSUME NEW y \in DOMAIN cts, y[1] # 0, Full(cts[y])
                 PROVE  Le(p, y, y) /\ Full(cts2[y]) /\ First(cts2[y]) <= First(cts[y])
   BY <1>2 DEF FirstsStay
  <3>2. Full(cts2[y]) /\ First(cts2[y]) = First(cts[y]) BY <1>2, <1>10, <1>13, <3>1
  <3>3. First(cts[y]) \in Int BY <1>1, <3>1 DEF AllEnd, Ends
  <3> QED BY <1>1, <3>2, <3>3, RowFacts
 <2>2. ItemsStay(cts, cts2)
  <3>1. SUFFICES ASSUME NEW l, NEW w, l # 0, Has(cts, l, w), ~Has(cts2, l, w) PROVE Straddles(cts2, l, w)
   BY DEF ItemsStay
  <3>2. l = n[1] /\ w = v BY <1>15, <3>1 DEF HasButOne
  <3>3. PICK y, z : y = s[1] /\ z = s[Len(s)] OBVIOUS
  <3>4. y \in Int /\ z \in Int /\ y <= w0 /\ w0 < v /\ v < w1 /\ w1 <= z /\ v \in Int /\ w0 \in Int /\ w1 \in Int
   BY <1>9, <3>3
  <3>5. y <= v /\ v < z BY ONLY <3>4
  <3>6. cts2[n] = new /\ Full(cts2[n]) /\ First(cts2[n]) <= v /\ v < UpperEnd(cts2[n]) /\ n \in DOMAIN cts2
   BY <1>2, <1>13, <3>3, <3>5
  <3> QED BY <3>2, <3>6 DEF Straddles
 <2>3. CoveredStays(cts, p, cts2, p)
  <3>1. SUFFICES ASSUME NEW x \in DOMAIN cts, x[1] # 0, cts2[x] = cts[x], NEW y \in DOMAIN cts, Lt(p, x, y),
                        Holds(cts[y], UpperEnd(cts[x]))
                 PROVE  Holds(cts2[y], UpperEnd(cts[x]))
   BY <1>2 DEF CoveredStays, Covered
  <3>2. CASE y # n BY <1>2, <3>1, <3>2
  <3>3. CASE y = n
   <4>1. x # n /\ x[1] = n[1] BY <1>1, <3>1, <3>3, RowFacts DEF Lt
   <4>2. Full(cts[x])
    <5>1. UpperEnd(cts[x]) \in Int /\ EMPTY < UpperEnd(cts[x]) BY <1>1, <3>1 DEF AllEnd, Ends
    <5> QED BY <1>1, <5>1 DEF AllEnd, Ends
   <4>3. UpperEnd(cts[x]) # v BY <1>24, <4>1, <4>2
   <4> QED BY <1>2, <1>7, <3>1, <3>3, <4>3
  <3> QED BY <3>2, <3>3
 <2>4. StampsGrow(cts, cts2) BY <1>2, <1>7 DEF StampsGrow
 <2> QED BY <1>1, <1>14, <2>1, <2>2, <2>3, <2>4 DEF Safe
<1>26. TwinsOK(cts, p, cts2, p)
 <2>1. ASSUME NEW w, NEW d, Leads(new, w, d)
       PROVE  Leads(c, w, d) \/ \A x \in DOMAIN cts : Lt(p, x, n) /\ UpperEnd(cts[x]) = w => LeadsFrom(cts, p, x, w, d)
  <3>1. SUFFICES ASSUME w = w1, NEW x \in DOMAIN cts, Lt(p, x, n), UpperEnd(cts[x]) = w PROVE FALSE
   BY <1>7, <2>1
  <3>2. x # n /\ x[1] = n[1] BY <1>1, <3>1, RowFacts DEF Lt
  <3>3. Full(cts[x])
   <4>1. EMPTY < w1 BY <1>1, <1>9 DEF Ends
   <4> QED BY <1>1, <3>1, <4>1 DEF AllEnd, Ends
  <3> QED BY <1>24, <3>1, <3>2, <3>3
 <2> QED BY <2>1, OneNodeTwins
<1>27. w1 = c.items[i + 1] BY <1>4, <1>5
<1> QED BY <1>17, <1>21, <1>23, <1>25, <1>26, <1>27 DEF DropDone

-----------------------------------------------------------------------------
(* An item more. *)
LEMMA AddedKept ==
 ASSUME NEW cts, NEW p, NEW rt, TreeInv(cts, rt), OrderInv(cts, p, rt),
        NEW n \in DOMAIN cts, NEW c, c = cts[n], NEW key \in Keys,
        HasPlace(DOMAIN cts, n[1], c, key), ~Found(c, key), NEW child, NEW k,
        NEW new, new = Added(c, Index(c, key), key, child, k),
        NEW cts2, OneNode(cts, cts2, n, new), TreeInv(cts2, rt),
        NEW e \in Int, Low(cts, p, n, e), e <= key, n[1] = 0 => e < key
 PROVE  /\ ItemsKept(n, c, new) /\ GoesFirst(cts, p, n, new) /\ LinkOn(cts, p, n, new.link)
        /\ Safe(cts, p, cts2, p) /\ HasStays(cts, cts2) /\ Moved(cts, p, cts2, p) /\ AllEnd(cts2)
        /\ AddedAs(c, Index(c, key), key, child, k, new) /\ Holds(new, key) /\ key \in Int
<1>1. n[1] \in Nat /\ DOMAIN cts \in SUBSET Names /\ Rows(cts, p) /\ AllEnd(cts) /\ Shape(DOMAIN cts, n[1], c) /\ Ends(c)
      /\ GoesFirst(cts, p, n, c) /\ LinkOn(cts, p, n, c.link)
 BY OrderRows
<1>2. AllEnd(cts2) /\ Ends(new) /\ DOMAIN cts2 = DOMAIN cts BY TreeEnds DEF OneNode, AllEnd
<1>3. /\ \A w : Holds(new, w) <=> Holds(c, w) \/ w = key
      /\ Full(c) /\ Full(new) /\ First(new) = (IF key < First(c) THEN key ELSE First(c)) /\ key \in Int
      /\ new.link = c.link /\ c.stamp < new.stamp
 <2>1. PICK D, l : D = DOMAIN cts /\ l = n[1] OBVIOUS
 <2>2. D \in SUBSET Names /\ l \in Nat /\ HasPlace(D, l, c, key) BY <1>1, <2>1
 <2>3. AddedHas(c, key, new)
  BY ONLY <2>2, key \in Keys, ~Found(c, key), new = Added(c, Index(c, key), key, child, k), AddedHolds
 <2> QED BY <2>3 DEF AddedHas
<1>4. AddedAs(c, Index(c, key), key, child, k, new) BY <1>1, AddedItems
<1>5. key <= UpperEnd(c)
 <2>1. PICK i : i = Index(c, key) OBVIOUS
 <2>2. i \in 1 .. Len(c.items) /\ c.items[i] >= key
  BY <1>1, <1>3, <2>1, BeyondFacts, ShapeFacts DEF HasPlace
 <2>3. Holds(c, c.items[i]) BY <2>2 DEF Holds
 <2>4. PICK w : w = c.items[i] OBVIOUS
 <2>5. w \in Int /\ w <= UpperEnd(c) /\ UpperEnd(c) \in Int BY <1>1, <2>3, <2>4 DEF Ends
 <2> QED BY <1>3, <2>2, <2>4, <2>5
<1>6. UpperEnd(new) <= UpperEnd(c)
 <2>1. Holds(new, UpperEnd(new)) BY <1>2, <1>3 DEF Ends
 <2>2. Holds(c, UpperEnd(new)) \/ UpperEnd(new) = key BY <1>3, <2>1
 <2> QED BY <1>1, <1>5, <2>2 DEF Ends
<1>7. ItemsKept(n, c, new) BY <1>3, <1>6 DEF ItemsKept
<1>8. GoesFirst(cts, p, n, new)
 <2>1. SUFFICES ASSUME NEW x \in DOMAIN cts, Lt(p, x, n), Full(cts[x])
                PROVE  /\ UpperEnd(cts[x]) <= First(new)
                       /\ n[1] = 0 => UpperEnd(cts[x]) < First(new)
  BY DEF GoesFirst
 <2>2. UpperEnd(cts[x]) <= e BY <2>1 DEF Low
 <2>3. UpperEnd(cts[x]) <= First(c) /\ (n[1] = 0 => UpperEnd(cts[x]) < First(c))
  BY <1>1, <1>3, <2>1 DEF GoesFirst
 <2>4. UpperEnd(cts[x]) \in Int /\ First(c) \in Int BY <1>1, <1>3 DEF AllEnd, Ends
 <2> QED BY <1>3, <2>2, <2>3, <2>4
<1>9. Safe(cts, p, cts2, p) /\ HasStays(cts, cts2) BY <1>1, <1>2, <1>7, KeptIsSafe
<1>10. Moved(cts, p, cts2, p) BY <1>9 DEF Safe
<1> QED BY <1>1, <1>2, <1>3, <1>4, <1>7, <1>8, <1>9, <1>10

(* insertLeafLevel *)
LEMMA InsertGood ==
 ASSUME NEW cts, NEW p, NEW rt, TreeInv(cts, rt), OrderInv(cts, p, rt),
        NEW n \in DOMAIN cts, n[1] = 0, NEW c, c = cts[n], NEW key \in Keys,
        HasPlace(DOMAIN cts, 0, c, key), ~Found(c, key), Low(cts, p, n, key - 1),
        NEW new, new = Added(c, Index(c, key), key, NoNode, 1),
        NEW cts2, OneNode(cts, cts2, n, new), TreeInv(cts2, rt)
 PROVE  Good(cts, p, cts2, p, rt)
<1>1. key \in Int BY DEF MultiwayAssumption
<1>2. PICK e \in Int : e = key - 1 BY <1>1
<1>3. e <= key /\ e < key /\ Low(cts, p, n, e) BY <1>1, <1>2
<1>4. /\ ItemsKept(n, c, new) /\ GoesFirst(cts, p, n, new) /\ LinkOn(cts, p, n, new.link)
      /\ Safe(cts, p, cts2, p) /\ HasStays(cts, cts2)
 BY <1>3, AddedKept
<1>5. OrderInv(cts2, p, rt) BY <1>4, KeptOrder
<1>6. TwinsOK(cts, p, cts2, p) BY OneNodeTwins
<1> QED BY <1>4, <1>5, <1>6 DEF Good

(* slideToNeighbor *)
LEMMA SlideGood ==
 ASSUME NEW cts, NEW p, NEW rt, TreeInv(cts, rt), OrderInv(cts, p, rt),
        NEW q \in DOMAIN cts, q[1] # 0, NEW c, c = cts[q], NEW v \in Keys,
        HasPlace(DOMAIN cts, q[1], c, v), ~Found(c, v), Index(c, v) = 1,
        Between(cts, p, q, v), NEW d \in DOMAIN cts, Carries(cts, p, q, v, d),
        NEW new, new = Added(c, 1, v, d, 1), NEW cts2, OneNode(cts, cts2, q, new), TreeInv(cts2, rt)
 PROVE  /\ OrderInv(cts2, p, rt) /\ Safe(cts, p, cts2, p) /\ HasStays(cts, cts2)
        /\ LeadsAlso(c, new, v, d) /\ Holds(new, v)
<1>1. v \in Int /\ q[1] \in Nat /\ DOMAIN cts \in SUBSET Names /\ d \in Names /\ Low(cts, p, q, v)
 BY OrderRows DEF MultiwayAssumption, Between
<1>2. /\ ItemsKept(q, c, new) /\ GoesFirst(cts, p, q, new) /\ LinkOn(cts, p, q, new.link)
      /\ Safe(cts, p, cts2, p) /\ HasStays(cts, cts2) /\ Moved(cts, p, cts2, p) /\ AllEnd(cts2)
      /\ AddedAs(c, Index(c, v), v, d, 1, new) /\ Holds(new, v)
 <2>1. new = Added(c, Index(c, v), v, d, 1) /\ v <= v BY <1>1
 <2> QED BY <1>1, <2>1, AddedKept
<1>3. \A w, x : Leads(new, w, x) => Leads(c, w, x) \/ (w = v /\ x = d) BY <1>1, SlidInLeads
<1>4. Full(c) /\ v < First(c)
 <2>1. 1 \in 1 .. Len(c.items) /\ \A j \in 1 .. Len(c.items) : c.items[j] \in Int /\ (j < 1 <=> c.items[j] < v) /\ c.items[j] # v
  BY <1>2 DEF AddedAs
 <2>2. Holds(c, c.items[1]) BY <2>1 DEF Holds
 <2>3. Ends(c) BY OrderRows
 <2>4. PICK w : w = c.items[1] OBVIOUS
 <2>5. w \in Int /\ ~(w < v) /\ w # v BY <2>1, <2>4
 <2>6. v < w BY <1>1, <2>5
 <2> QED BY <2>2, <2>3, <2>4, <2>6 DEF Ends, First
<1>5. Promise(cts2, p, q[1], v, d)
 <2>1. EndsBefore(cts, p, q, v) BY <1>1, <1>4, HasIt
 <2>2. Promise(cts, p, q[1], v, d) /\ AllEnd(cts) BY <2>1, OrderRows DEF Carries
 <2> QED BY <1>2, <2>2, PromiseStays
<1>6. OrderInv(cts2, p, rt) BY <1>2, <1>3, <1>5, KeptOrder
<1> QED BY <1>2, <1>3, <1>6 DEF LeadsAlso

(* insertOneLevel *)
LEMMA RaiseGood ==
 ASSUME NEW cts, NEW p, NEW rt, TreeInv(cts, rt), OrderInv(cts, p, rt),
        NEW n \in DOMAIN cts, n[1] # 0, NEW c, c = cts[n], NEW key \in Keys,
        HasPlace(DOMAIN cts, n[1], c, key), ~Found(c, key), Low(cts, p, n, key - 1),
        NEW right \in DOMAIN cts, Low(cts, p, right, key), NEW i, i = Index(c, key),
        NEW new, new = Added(c, i, key, right, i + 1),
        NEW cts2, OneNode(cts, cts2, n, new), TreeInv(cts2, rt)
 PROVE  Good(cts, p, cts2, p, rt)
<1>1. key \in Int /\ n[1] \in Nat /\ DOMAIN cts \in SUBSET Names /\ right \in Names /\ Shape(DOMAIN cts, n[1], c) /\ Ends(c)
      /\ Numbered(cts, p) /\ AllEnd(cts) /\ ItemsLead(cts, p)
 BY OrderRows DEF MultiwayAssumption, OrderInv
<1>2. PICK e \in Int : e = key - 1 BY <1>1
<1>3. e <= key /\ e < key /\ Low(cts, p, n, e) BY <1>1, <1>2
<1>4. /\ ItemsKept(n, c, new) /\ GoesFirst(cts, p, n, new) /\ LinkOn(cts, p, n, new.link)
      /\ Safe(cts, p, cts2, p) /\ HasStays(cts, cts2) /\ Moved(cts, p, cts2, p) /\ AllEnd(cts2)
      /\ AddedAs(c, i, key, right, i + 1, new) /\ Holds(new, key)
 BY <1>3, AddedKept
<1>5. PICK v : v = c.items[i] OBVIOUS
<1>6. i \in 1 .. Len(c.items) /\ v \in Int /\ key < v /\ v \in Item
      /\ \A w : Holds(c, w) => w \in Int /\ (w < key \/ v <= w)
 <2>1. i \in 1 .. Len(c.items) /\ Len(c.items) \in Nat
       /\ \A j \in 1 .. Len(c.items) : c.items[j] \in Int /\ (j < i <=> c.items[j] < key) /\ c.items[j] # key
  BY <1>4 DEF AddedAs
 <2>2. v \in Int /\ ~(v < key) /\ v # key BY <1>5, <2>1
 <2>3. \A j, k \in 1 .. Len(c.items) : j < k => c.items[j] < c.items[k] BY <1>1, ShapeFacts
 <2>4. ASSUME NEW w, Holds(c, w) PROVE w \in Int /\ (w < key \/ v <= w)
  <3>1. PICK j \in 1 .. Len(c.items) : c.items[j] = w BY <2>4 DEF Holds
  <3>2. w \in Int /\ (j < i => w < key) /\ (i < j => v < w) /\ (j = i => w = v)
   BY <1>5, <2>1, <2>3, <3>1
  <3>3. j < i \/ i < j \/ j = i BY <2>1, <3>1
  <3> QED BY <2>2, <3>2, <3>3
 <2>5. Holds(c, v) BY <1>5, <2>1 DEF Holds
 <2> QED BY <1>1, <2>1, <2>2, <2>4, <2>5 DEF Ends
<1>7. \A w, d : Leads(new, w, d) =>
              \/ Leads(c, w, d) /\ w # v
              \/ w = key /\ Leads(c, v, d)
              \/ w = v /\ d = right
 BY <1>1, <1>5, RaisedLeads
<1>8. \A w : Has(cts, n[1], w) /\ w < v => w < key
 <2>1. SUFFICES ASSUME NEW w, NEW y \in DOMAIN cts, y[1] = n[1], Holds(cts[y], w), w < v PROVE w < key
  BY DEF Has
 <2>2. w \in Int /\ Ends(cts[y]) /\ Full(cts[y]) /\ First(cts[y]) <= w /\ w <= UpperEnd(cts[y])
       /\ First(cts[y]) \in Int /\ UpperEnd(cts[y]) \in Int
  BY <1>1, <2>1 DEF AllEnd, Ends
 <2>3. CASE y = n BY <1>6, <2>1, <2>2, <2>3
 <2>4. CASE Lt(p, y, n)
  <3>1. UpperEnd(cts[y]) <= e BY <1>3, <2>4 DEF Low
  <3> QED BY <1>1, <1>3, <2>2, <3>1
 <2>5. CASE Lt(p, n, y)
  <3>1. UpperEnd(c) <= First(cts[y]) BY <1>1, <2>2, <2>5, ItemsAscend
  <3>2. Holds(c, v) BY <1>5, <1>6 DEF Holds
  <3>3. v <= UpperEnd(c) /\ UpperEnd(c) \in Int BY <1>1, <3>2 DEF Ends
  <3> QED BY <1>6, <2>1, <2>2, <3>1, <3>3
 <2> QED BY <1>1, <2>1, <2>3, <2>4, <2>5, RowFacts
<1>9. ASSUME NEW d, Leads(c, v, d) PROVE Promise(cts2, p, n[1], key, d)
 <2>1. d \in DOMAIN cts /\ Promise(cts, p, n[1], v, d) BY <1>1, <1>9, LeadsIn, OrderRows
 <2>2. Promise(cts, p, n[1], key, d) BY <1>8, <2>1 DEF Promise, Bounded
 <2> QED BY <1>1, <1>4, <2>1, <2>2, PromiseStays
<1>10. Promise(cts2, p, n[1], v, right)
 <2>1. Low(cts2, p, right, key) BY <1>1, <1>4, LowStays
 <2>2. Has(cts2, n[1], key) /\ key \in Item BY <1>4 DEF Has, OneNode, Item
 <2> QED BY <1>6, <2>1, <2>2 DEF Promise, Bounded, Low
<1>11. ASSUME NEW w, NEW d, Leads(new, w, d)
       PROVE  /\ Leads(c, w, d) \/ Promise(cts2, p, n[1], w, d)
              /\ Leads(c, w, d) \/ \A x \in DOMAIN cts : Lt(p, x, n) /\ UpperEnd(cts[x]) = w => LeadsFrom(cts, p, x, w, d)
 <2>1. CASE Leads(c, w, d) BY <2>1
 <2>2. CASE ~Leads(c, w, d)
  <3>1. (w = key /\ Leads(c, v, d)) \/ (w = v /\ d = right) BY <1>7, <1>11, <2>2
  <3>2. Promise(cts2, p, n[1], w, d) BY <1>9, <1>10, <3>1
  <3>3. ASSUME NEW x \in DOMAIN cts, Lt(p, x, n), UpperEnd(cts[x]) = w PROVE FALSE
   <4>1. w <= e BY <1>3, <3>3 DEF Low
   <4> QED BY <1>1, <1>3, <1>6, <3>1, <4>1
  <3> QED BY <3>2, <3>3
 <2> QED BY <2>1, <2>2
<1>12. OrderInv(cts2, p, rt) BY <1>4, <1>11, KeptOrder
<1>13. TwinsOK(cts, p, cts2, p) BY <1>11, OneNodeTwins
<1> QED BY <1>4, <1>12, <1>13 DEF Good

(* removeFromNode, and deleteSlidedKey when the item is to the right. *)
LEMMA TakenGood ==
 ASSUME NEW cts, NEW p, NEW rt, TreeInv(cts, rt), OrderInv(cts, p, rt),
        NEW n \in DOMAIN cts, NEW c, c = cts[n], NEW i \in 1 .. Len(c.items), NEW v, v = c.items[i],
        n[1] # 0 => Covered(cts, p, n, v), NEW new, new = Removed(c, i),
        NEW cts2, OneNode(cts, cts2, n, new), TreeInv(cts2, rt)
 PROVE  Good(cts, p, cts2, p, rt)
<1>1. n[1] \in Nat /\ DOMAIN cts \in SUBSET Names /\ Rows(cts, p) /\ AllEnd(cts) /\ Shape(DOMAIN cts, n[1], c) /\ Ends(c)
      /\ GoesFirst(cts, p, n, c) /\ LinkOn(cts, p, n, c.link) /\ Numbered(cts, p)
 BY OrderRows
<1>2. AllEnd(cts2) /\ Ends(new) /\ DOMAIN cts2 = DOMAIN cts /\ cts2[n] = new /\ \A x \in DOMAIN cts \ {n} : cts2[x] = cts[x]
 BY TreeEnds DEF OneNode, AllEnd
<1>3. LosesItem(c, new, v) /\ (n[1] # 0 => LeadsLess(c, new, v)) /\ new.link = c.link /\ c.stamp < new.stamp
 BY <1>1, RemovedHolds
<1>4. \A w : Holds(new, w) <=> Holds(c, w) /\ w # v BY <1>3 DEF LosesItem
<1>5. /\ UpperEnd(new) <= UpperEnd(c)
      /\ Full(new) => First(c) <= First(new) /\ First(new) \in Int /\ First(c) \in Int
 <2>1. CASE Full(new)
  <3>1. Holds(new, UpperEnd(new)) /\ Holds(new, First(new)) BY <1>2, <2>1 DEF Ends
  <3>2. Holds(c, UpperEnd(new)) /\ Holds(c, First(new)) BY <1>4, <3>1
  <3> QED BY <1>1, <3>2 DEF Ends
 <2>2. CASE ~Full(new)
  <3>1. UpperEnd(new) <= EMPTY /\ UpperEnd(new) \in Int /\ EMPTY \in Int BY <1>2, <2>2 DEF Ends
  <3>2. EMPTY <= UpperEnd(c) /\ UpperEnd(c) \in Int BY <1>1 DEF Ends
  <3> QED BY <2>2, <3>1, <3>2
 <2> QED BY <2>1, <2>2
<1>6. GoesFirst(cts, p, n, new)
 <2>1. SUFFICES ASSUME NEW x \in DOMAIN cts, Lt(p, x, n), Full(cts[x]), Full(new)
                PROVE  /\ UpperEnd(cts[x]) <= First(new)
                       /\ n[1] = 0 => UpperEnd(cts[x]) < First(new)
  BY DEF GoesFirst
 <2>2. Full(c)
  <3>1. Holds(new, First(new)) BY <1>2, <2>1 DEF Ends
  <3>2. Holds(c, First(new)) BY <1>4, <3>1
  <3> QED BY <1>1, <3>2 DEF Ends
 <2>3. UpperEnd(cts[x]) <= First(c) /\ (n[1] = 0 => UpperEnd(cts[x]) < First(c))
  BY <1>1, <2>1, <2>2 DEF GoesFirst
 <2>4. UpperEnd(cts[x]) \in Int BY <1>1 DEF AllEnd, Ends
 <2> QED BY <1>5, <2>1, <2>3, <2>4
<1>7. n[1] # 0 => \E y \in DOMAIN cts : Lt(p, n, y) /\ Holds(cts[y], v) /\ cts2[y] = cts[y] /\ y[1] = n[1]
 <2>1. HAVE n[1] # 0
 <2>2. PICK y \in DOMAIN cts : Lt(p, n, y) /\ Holds(cts[y], v) BY <2>1 DEF Covered
 <2>3. y # n /\ y[1] = n[1] BY <1>1, <2>2, RowFacts DEF Lt
 <2> QED BY <1>2, <2>2, <2>3
<1>8. HasStays(cts, cts2)
 <2>1. SUFFICES ASSUME NEW l, NEW w, l # 0, NEW x \in DOMAIN cts, x[1] = l, Holds(cts[x], w) PROVE Has(cts2, l, w)
  BY DEF HasStays, Has
 <2>2. CASE x = n /\ w = v
  <3>1. PICK y \in DOMAIN cts : Lt(p, n, y) /\ Holds(cts[y], v) /\ cts2[y] = cts[y] /\ y[1] = n[1]
   BY <1>7, <2>1, <2>2
  <3> QED BY <1>2, <2>1, <2>2, <3>1 DEF Has
 <2>3. CASE ~(x = n /\ w = v)
  <3>1. Holds(cts2[x], w) BY <1>2, <1>4, <2>1, <2>3
  <3> QED BY <1>2, <2>1, <3>1 DEF Has
 <2> QED BY <2>2, <2>3
<1>9. Moved(cts, p, cts2, p) /\ Rows(cts2, p) BY <1>1, <1>2, <1>5, OneNodeMoves
<1>10. Safe(cts, p, cts2, p)
 <2>1. FirstsStay(cts, cts2, p)
  <3>1. SUFFICES ASSUME NEW y \in DOMAIN cts, y[1] # 0, Full(cts[y])
                 PROVE  \E z \in DOMAIN cts : Le(p, y, z) /\ Full(cts2[z]) /\ First(cts2[z]) <= First(cts[y])
   BY <1>2 DEF FirstsStay
  <3>2. Le(p, y, y) /\ First(cts[y]) \in Int /\ Ends(cts[y]) /\ Holds(cts[y], First(cts[y]))
   BY <1>1, <3>1, RowFacts DEF AllEnd, Ends
  <3>3. CASE y # n
   <4>1. First(cts2[y]) <= First(cts[y]) /\ Full(cts2[y]) BY <1>2, <3>1, <3>2, <3>3
   <4> QED BY <3>2, <4>1
  <3>4. CASE y = n /\ First(c) # v
   <4>1. Holds(new, First(c)) BY <1>4, <3>2, <3>4
   <4>2. Full(new) /\ First(new) <= First(c) BY <1>2, <4>1 DEF Ends
   <4> QED BY <1>2, <3>2, <3>4, <4>2
  <3>5. CASE y = n /\ First(c) = v
   <4>1. PICK z \in DOMAIN cts : Lt(p, n, z) /\ Holds(cts[z], v) /\ cts2[z] = cts[z] /\ z[1] = n[1]
    BY <1>7, <3>1, <3>5
   <4>2. Full(cts[z]) /\ First(cts[z]) <= v /\ Le(p, n, z) BY <1>1, <4>1, RowFacts DEF AllEnd, Ends
   <4> QED BY <3>5, <4>1, <4>2
  <3> QED BY <3>3, <3>4, <3>5
 <2>2. ItemsStay(cts, cts2) BY <1>8 DEF ItemsStay, HasStays
 <2>3. CoveredStays(cts, p, cts2, p)
  <3>1. SUFFICES ASSUME NEW x \in DOMAIN cts, x[1] # 0, cts2[x] = cts[x], NEW y \in DOMAIN cts, Lt(p, x, y),
                        Holds(cts[y], UpperEnd(cts[x]))
                 PROVE  \E z \in DOMAIN cts : Lt(p, x, z) /\ Holds(cts2[z], UpperEnd(cts[x]))
   BY <1>2 DEF CoveredStays, Covered
  <3>2. CASE y # n \/ UpperEnd(cts[x]) # v BY <1>2, <1>4, <3>1, <3>2
  <3>3. CASE y = n /\ UpperEnd(cts[x]) = v
   <4>1. PICK z \in DOMAIN cts : Lt(p, n, z) /\ Holds(cts[z], v) /\ cts2[z] = cts[z] /\ z[1] = n[1]
    BY <1>7, <3>1, <3>3 DEF Lt
   <4>2. Lt(p, x, z) BY <1>1, <3>1, <3>3, <4>1, RowFacts
   <4> QED BY <3>3, <4>1, <4>2
  <3> QED BY <3>2, <3>3
 <2>4. StampsGrow(cts, cts2) BY <1>2, <1>3 DEF StampsGrow
 <2> QED BY <1>1, <1>9, <2>1, <2>2, <2>3, <2>4 DEF Safe
<1>11. ASSUME n[1] # 0, NEW w, NEW d, Leads(new, w, d) PROVE Leads(c, w, d) /\ Promise(cts2, p, n[1], w, d)
 <2>1. Leads(c, w, d) BY <1>3, <1>11 DEF LeadsLess
 <2> QED BY <1>2, <1>8, <1>9, <1>11, <2>1, PromisesKept
<1>12. KeepsPromises(cts, p, cts2, n) BY <1>2, <1>8, <1>9, PromisesKept DEF KeepsPromises
<1>13. LinkOn(cts, p, n, new.link) BY <1>1, <1>3
<1>14. OrderInv(cts2, p, rt) BY <1>5, <1>6, <1>11, <1>12, <1>13, OneNodeOrder DEF LinkOn, GoesFirst
<1>15. TwinsOK(cts, p, cts2, p) BY <1>11, OneNodeTwins
<1> QED BY <1>8, <1>10, <1>14, <1>15 DEF Good

-----------------------------------------------------------------------------
(* splitOneLevel: right comes directly after n in the row.                 *)
Doubled(p, n, right, D) == [x \in D \cup {right} |-> IF x = right THEN 2 * p[n] + 1 ELSE 2 * p[x]]
NextTo(p, p2, n, right, D) ==
    /\ \A x, y \in D : /\ Lt(p2, x, y) <=> Lt(p, x, y)
                       /\ Le(p2, x, y) <=> Le(p, x, y)
    /\ \A x \in D : /\ Lt(p2, right, x) <=> Lt(p, n, x)
                    /\ Le(p2, right, x) <=> Lt(p, n, x)
                    /\ Lt(p2, x, right) <=> Le(p, x, n)
                    /\ Le(p2, x, right) <=> Le(p, x, n)
    /\ ~Lt(p2, right, right)

NewRow(p, p2, n, right, D) ==
    /\ NextTo(p, p2, n, right, D) /\ p2 \in [D \cup {right} -> Nat]
    /\ \A x, y \in D \cup {right} : x[1] = y[1] /\ p2[x] = p2[y] => x = y

LEMMA DoubledRow ==
 ASSUME NEW cts, NEW p, Numbered(cts, p), NEW n \in DOMAIN cts, NEW right, right \notin DOMAIN cts, right[1] = n[1],
        NEW p2, p2 = Doubled(p, n, right, DOMAIN cts)
 PROVE  NewRow(p, p2, n, right, DOMAIN cts)
<1>1. PICK D : D = DOMAIN cts OBVIOUS
<1>2. p \in [D -> Nat] /\ \A x, y \in D : x[1] = y[1] /\ p[x] = p[y] => x = y BY <1>1 DEF Numbered
<1>3. p2[right] = 2 * p[n] + 1 /\ \A x \in D : p2[x] = 2 * p[x] BY <1>1 DEF Doubled
<1>4. p2 = [x \in D \cup {right} |-> p2[x]] BY <1>1 DEF Doubled
<1>5. \A x \in D : p[x] \in Nat /\ p2[x] \in Nat BY <1>2, <1>3
<1>6. p[n] \in Nat /\ p2[right] \in Nat /\ n \in D BY <1>1, <1>3, <1>5
<1>7. \A x, y \in D : (p2[x] < p2[y] <=> p[x] < p[y]) /\ (p2[x] <= p2[y] <=> p[x] <= p[y]) /\ (p2[x] = p2[y] <=> p[x] = p[y])
 BY ONLY <1>3, <1>5
<1>8. \A x \in D : /\ p2[right] < p2[x] <=> p[n] < p[x]
                   /\ p2[right] <= p2[x] <=> p[n] < p[x]
                   /\ p2[x] < p2[right] <=> p[x] <= p[n]
                   /\ p2[x] <= p2[right] <=> p[x] <= p[n]
                   /\ p2[x] # p2[right]
 BY ONLY <1>3, <1>5, <1>6
<1>9. NextTo(p, p2, n, right, D)
 <2>1. ~Lt(p2, right, right) BY <1>6 DEF Lt
 <2>2. \A x \in D : /\ Lt(p2, right, x) <=> Lt(p, n, x)
                    /\ Le(p2, right, x) <=> Lt(p, n, x)
                    /\ Lt(p2, x, right) <=> Le(p, x, n)
                    /\ Le(p2, x, right) <=> Le(p, x, n)
  BY <1>8 DEF Lt, Le
 <2>3. \A x, y \in D : /\ Lt(p2, x, y) <=> Lt(p, x, y)
                       /\ Le(p2, x, y) <=> Le(p, x, y)
  BY <1>7 DEF Lt, Le
 <2> QED BY <2>1, <2>2, <2>3 DEF NextTo
<1>10. p2 \in [D \cup {right} -> Nat] BY <1>4, <1>5, <1>6
<1>11. \A x, y \in D \cup {right} : x[1] = y[1] /\ p2[x] = p2[y] => x = y BY <1>2, <1>7, <1>8
<1> QED BY <1>1, <1>9, <1>10, <1>11 DEF NewRow

(* What the parts are, for the nodes around them. *)
Parted(c, v, left, rc, right) ==
    /\ v \in Int /\ EMPTY < v /\ Ends(left) /\ Ends(rc) /\ Ends(c) /\ Full(c) /\ Full(left) /\ Full(rc)
    /\ UpperEnd(left) = v /\ UpperEnd(rc) = UpperEnd(c) /\ First(left) = First(c) /\ v < First(rc)
    /\ First(c) <= v /\ v <= UpperEnd(c) /\ First(rc) \in Int
    /\ left.link = right /\ rc.link = c.link /\ c.stamp < left.stamp
    /\ \A w : Holds(c, w) <=> Holds(left, w) \/ Holds(rc, w)

PartsLead(l, c, left, rc) ==
    l # 0 => \A w, d : Leads(left, w, d) \/ Leads(rc, w, d) => Leads(c, w, d)

LEMMA PartsAre ==
 ASSUME NEW D \in SUBSET Names, NEW l \in Nat, NEW c, Shape(D, l, c),
        NEW i \in 1 .. Len(c.items) - 1, NEW v, v = c.items[i], NEW right,
        NEW left, left = LeftPart(c, i, right), NEW rc, rc = RightPart(c, i), Ends(left), Ends(rc)
 PROVE  Parted(c, v, left, rc, right) /\ PartsLead(l, c, left, rc)
<1>1. /\ \A w : Holds(left, w) <=> Holds(c, w) /\ w <= v
      /\ l # 0 => \A w, d : Leads(left, w, d) => Leads(c, w, d)
      /\ left.link = right /\ c.stamp < left.stamp
 <2>1. LeftAs(l, c, v, right, left) BY LeftHolds
 <2> QED BY <2>1 DEF LeftAs
<1>2. /\ \A w : Holds(rc, w) <=> Holds(c, w) /\ v < w
      /\ l # 0 => \A w, d : Leads(rc, w, d) => Leads(c, w, d)
      /\ rc.link = c.link
 <2>1. RightAs(l, c, v, rc) BY RightHolds
 <2> QED BY <2>1 DEF RightAs
<1>3. Ends(c) BY EndFacts
<1>4. Holds(c, v) /\ \E w : Holds(c, w) /\ v < w
 <2>1. /\ Len(c.items) \in Nat
       /\ \A j, k \in 1 .. Len(c.items) : j < k => c.items[j] < c.items[k]
  BY ShapeFacts
 <2>2. PICK N : N = Len(c.items) OBVIOUS
 <2>3. i \in 1 .. N /\ N \in 1 .. N /\ i < N BY <2>1, <2>2
 <2>4. v < c.items[N] /\ Holds(c, c.items[N]) /\ Holds(c, v) BY <2>1, <2>2, <2>3 DEF Holds
 <2> QED BY <2>4
<1>5. v \in Int /\ EMPTY < v /\ Full(c) /\ First(c) <= v /\ v <= UpperEnd(c) /\ v < UpperEnd(c)
      /\ First(c) \in Int /\ UpperEnd(c) \in Int /\ Holds(c, First(c)) /\ Holds(c, UpperEnd(c))
 <2>1. PICK w : Holds(c, w) /\ v < w BY <1>4
 <2>2. Full(c) /\ v \in Int /\ EMPTY < v /\ First(c) <= v /\ v <= UpperEnd(c) BY <1>3, <1>4 DEF Ends
 <2>3. w \in Int /\ w <= UpperEnd(c) BY <1>3, <2>1 DEF Ends
 <2>4. First(c) \in Int /\ UpperEnd(c) \in Int /\ Holds(c, First(c)) /\ Holds(c, UpperEnd(c))
  BY <1>3, <2>2 DEF Ends
 <2>5. v < UpperEnd(c) BY ONLY <2>1, <2>2, <2>3, <2>4
 <2> QED BY <2>2, <2>4, <2>5
<1>6. Holds(left, v) /\ Holds(left, First(c)) /\ Holds(rc, UpperEnd(c)) BY <1>1, <1>2, <1>4, <1>5
<1>7. Full(left) /\ Full(rc) /\ First(left) \in Int /\ First(rc) \in Int /\ UpperEnd(left) \in Int /\ UpperEnd(rc) \in Int
      /\ Holds(left, First(left)) /\ Holds(left, UpperEnd(left)) /\ Holds(rc, First(rc)) /\ Holds(rc, UpperEnd(rc))
      /\ First(left) <= First(c) /\ v <= UpperEnd(left) /\ UpperEnd(c) <= UpperEnd(rc)
 BY <1>6 DEF Ends
<1>8. Holds(c, First(left)) /\ UpperEnd(left) <= v /\ v < First(rc) /\ Holds(c, UpperEnd(rc))
 BY <1>1, <1>2, <1>7
<1>9. First(c) <= First(left) /\ UpperEnd(rc) <= UpperEnd(c) BY <1>3, <1>8 DEF Ends
<1>10. UpperEnd(left) = v /\ UpperEnd(rc) = UpperEnd(c) /\ First(left) = First(c)
 BY ONLY <1>5, <1>7, <1>8, <1>9
<1>11. \A w : Holds(c, w) <=> Holds(left, w) \/ Holds(rc, w)
 <2>1. \A w : Holds(c, w) => w \in Int BY <1>3 DEF Ends
 <2> QED BY <1>1, <1>2, <1>5, <2>1
<1>12. Parted(c, v, left, rc, right) BY <1>1, <1>2, <1>3, <1>5, <1>7, <1>8, <1>10, <1>11 DEF Parted
<1> QED BY <1>1, <1>2, <1>12 DEF PartsLead

(* A node is split: the new node comes next to it in the row. *)
SplitAs(cts, p, cts2, p2, n, right, v) ==
    /\ n \in DOMAIN cts /\ right \notin DOMAIN cts /\ right[1] = n[1] /\ right # NoNode
    /\ DOMAIN cts2 = DOMAIN cts \cup {right} /\ \A x \in DOMAIN cts \ {n} : cts2[x] = cts[x]
    /\ Parted(cts[n], v, cts2[n], cts2[right], right) /\ NextTo(p, p2, n, right, DOMAIN cts)
    /\ Rows(cts, p) /\ Rows(cts2, p2)
    /\ n[1] # 0 => \A w, d : Leads(cts2[n], w, d) \/ Leads(cts2[right], w, d) => Leads(cts[n], w, d)

LEMMA SplitEnds ==
 ASSUME NEW cts, NEW p, NEW cts2, NEW p2, NEW n, NEW right, NEW v, SplitAs(cts, p, cts2, p2, n, right, v)
 PROVE  \A x \in DOMAIN cts : /\ UpperEnd(cts2[x]) <= UpperEnd(cts[x]) /\ UpperEnd(cts[x]) \in Int
                              /\ UpperEnd(cts2[x]) \in Int /\ (Full(cts2[x]) <=> Full(cts[x]))
                              /\ First(cts2[x]) = First(cts[x]) /\ (x # n => cts2[x] = cts[x])
<1> TAKE x \in DOMAIN cts
<1>1. Ends(cts[x]) BY DEF SplitAs, Rows, AllEnd
<1>2. CASE x = n BY <1>1, <1>2 DEF SplitAs, Parted, Ends
<1>3. CASE x # n
 <2>1. cts2[x] = cts[x] BY <1>3 DEF SplitAs
 <2>2. UpperEnd(cts[x]) \in Int BY <1>1 DEF Ends
 <2> QED BY <2>1, <2>2, <1>3
<1> QED BY <1>2, <1>3

LEMMA SplitMoves ==
 ASSUME NEW cts, NEW p, NEW cts2, NEW p2, NEW n, NEW right, NEW v, SplitAs(cts, p, cts2, p2, n, right, v)
 PROVE  Moved(cts, p, cts2, p2) /\ HasStays(cts, cts2)
<1>1. /\ n \in DOMAIN cts /\ right \notin DOMAIN cts /\ right[1] = n[1]
      /\ DOMAIN cts2 = DOMAIN cts \cup {right} /\ \A x \in DOMAIN cts \ {n} : cts2[x] = cts[x]
      /\ UpperEnd(cts2[right]) = UpperEnd(cts[n])
      /\ \A w : Holds(cts[n], w) <=> Holds(cts2[n], w) \/ Holds(cts2[right], w)
 BY DEF SplitAs, Parted
<1>2. NextTo(p, p2, n, right, DOMAIN cts) BY DEF SplitAs
<1>3. \A x \in DOMAIN cts : UpperEnd(cts2[x]) <= UpperEnd(cts[x]) /\ UpperEnd(cts[x]) \in Int
 BY SplitEnds
<1>4. ASSUME NEW x \in DOMAIN cts2, NEW m \in DOMAIN cts, Lt(p2, x, m)
      PROVE  \E y \in DOMAIN cts : /\ Lt(p, y, m) /\ UpperEnd(cts2[x]) <= UpperEnd(cts[y])
                                   /\ \A a \in DOMAIN cts : Le(p2, a, x) => Le(p, a, y)
 <2>1. CASE x \in DOMAIN cts
  <3>1. Lt(p, x, m) /\ UpperEnd(cts2[x]) <= UpperEnd(cts[x]) BY <1>2, <1>3, <1>4, <2>1 DEF NextTo
  <3>2. \A a \in DOMAIN cts : Le(p2, a, x) => Le(p, a, x) BY <1>2, <2>1 DEF NextTo
  <3> QED BY <2>1, <3>1, <3>2
 <2>2. CASE x = right
  <3>1. Lt(p, n, m) /\ UpperEnd(cts2[right]) <= UpperEnd(cts[n])
   BY <1>1, <1>2, <1>3, <1>4, <2>2 DEF NextTo
  <3>2. \A a \in DOMAIN cts : Le(p2, a, right) => Le(p, a, n) BY <1>2 DEF NextTo
  <3> QED BY <1>1, <2>2, <3>1, <3>2
 <2> QED BY <1>1, <2>1, <2>2
<1>5. Moved(cts, p, cts2, p2)
 <2>1. \A x, y \in DOMAIN cts : (Lt(p2, x, y) <=> Lt(p, x, y)) /\ (Le(p2, x, y) <=> Le(p, x, y))
  BY <1>2 DEF NextTo
 <2> QED BY <1>1, <1>3, <1>4, <2>1 DEF Moved
<1>6. HasStays(cts, cts2)
 <2> SUFFICES ASSUME NEW l, NEW w, Has(cts, l, w)
              PROVE  Has(cts2, l, w)
  BY DEF HasStays
 <2>1. PICK f \in DOMAIN cts : f[1] = l /\ Holds(cts[f], w) BY DEF Has
 <2>2. CASE f # n BY <1>1, <2>1, <2>2 DEF Has
 <2>3. CASE f = n /\ Holds(cts2[n], w) BY <1>1, <2>1, <2>3 DEF Has
 <2>4. CASE f = n /\ Holds(cts2[right], w) BY <1>1, <2>1, <2>4 DEF Has
 <2> QED BY <1>1, <2>1, <2>2, <2>3, <2>4
<1> QED BY <1>5, <1>6

LEMMA SplitSafe ==
 ASSUME NEW cts, NEW p, NEW cts2, NEW p2, NEW n, NEW right, NEW v, SplitAs(cts, p, cts2, p2, n, right, v)
 PROVE  Safe(cts, p, cts2, p2)
<1>1. Moved(cts, p, cts2, p2) /\ HasStays(cts, cts2) /\ Rows(cts, p) /\ Rows(cts2, p2)
 BY SplitMoves DEF SplitAs
<1>2. \A x \in DOMAIN cts : Full(cts[x]) => Full(cts2[x]) /\ First(cts2[x]) = First(cts[x])
 BY SplitEnds
<1>3. FirstsStay(cts, cts2, p2)
 <2> SUFFICES ASSUME NEW y \in DOMAIN cts, Full(cts[y])
              PROVE  \E z \in DOMAIN cts2 : Le(p2, y, z) /\ Full(cts2[z]) /\ First(cts2[z]) <= First(cts[y])
  BY DEF FirstsStay
 <2>1. y \in DOMAIN cts2 BY DEF SplitAs
 <2>2. Le(p2, y, y) BY <1>1, <2>1, RowFacts DEF Rows
 <2>3. First(cts[y]) \in Int BY <1>1 DEF Rows, AllEnd, Ends
 <2>4. Full(cts2[y]) /\ First(cts2[y]) <= First(cts[y]) BY <1>2, <2>3
 <2> QED BY <2>1, <2>2, <2>4
<1>4. ItemsStay(cts, cts2) BY <1>1 DEF HasStays, ItemsStay
<1>5. CoveredStays(cts, p, cts2, p2)
 <2> SUFFICES ASSUME NEW m \in DOMAIN cts, NEW u, Covered(cts, p, m, u)
              PROVE  Covered(cts2, p2, m, u)
  BY DEF CoveredStays
 <2>1. PICK x \in DOMAIN cts : Lt(p, m, x) /\ Holds(cts[x], u) BY DEF Covered
 <2>2. Lt(p2, m, x) /\ x \in DOMAIN cts2 BY <2>1 DEF SplitAs, NextTo
 <2>3. CASE x # n
  <3>1. Holds(cts2[x], u) BY <2>1, <2>3 DEF SplitAs
  <3> QED BY <2>2, <3>1 DEF Covered
 <2>4. CASE x = n
  <3>1. Le(p, m, n) /\ n \in DOMAIN cts /\ right \in DOMAIN cts2
   BY <1>1, <2>1, <2>4, RowFacts DEF Rows, SplitAs
  <3>2. Lt(p2, m, right) BY <3>1 DEF SplitAs, NextTo
  <3>3. Holds(cts2[n], u) \/ Holds(cts2[right], u) BY <2>1, <2>4 DEF SplitAs, Parted
  <3> QED BY <2>2, <2>4, <3>1, <3>2, <3>3 DEF Covered
 <2> QED BY <2>3, <2>4
<1>6. StampsGrow(cts, cts2) BY DEF StampsGrow, SplitAs, Parted
<1> QED BY <1>1, <1>3, <1>4, <1>5, <1>6 DEF Safe

LEMMA SplitLinks ==
 ASSUME NEW cts, NEW p, NEW rt, TreeInv(cts, rt), OrderInv(cts, p, rt),
        NEW cts2, NEW p2, NEW n, NEW right, NEW v, SplitAs(cts, p, cts2, p2, n, right, v)
 PROVE  \A x \in DOMAIN cts2 : LinkOn(cts2, p2, x, cts2[x].link)
<1>1. NextTo(p, p2, n, right, DOMAIN cts) /\ DOMAIN cts2 = DOMAIN cts \cup {right} /\ right # NoNode
      /\ n \in DOMAIN cts /\ Full(cts[n]) /\ Numbered(cts, p) /\ right[1] = n[1]
      /\ cts2[n].link = right /\ cts2[right].link = cts[n].link /\ right \notin DOMAIN cts
 BY DEF SplitAs, Parted, Rows
<1>2. \A x \in DOMAIN cts : (Full(cts2[x]) <=> Full(cts[x])) /\ (x # n => cts2[x] = cts[x])
 BY SplitEnds
<1>3. \A x \in DOMAIN cts : LinkOn(cts, p, x, cts[x].link) BY OrderRows
<1>4. ~Lt(p, n, n) /\ Le(p, n, n) /\ \A x \in DOMAIN cts : Le(p, x, n) => x = n \/ Lt(p, x, n)
 BY <1>1, RowFacts
<1>5. LinkOn(cts2, p2, n, right)
 <2>1. Lt(p2, n, right) /\ ~Lt(p2, right, right) BY <1>1, <1>4 DEF NextTo
 <2>2. \A y \in DOMAIN cts : ~(Lt(p2, n, y) /\ Lt(p2, y, right))
  <3> SUFFICES ASSUME NEW y \in DOMAIN cts, Lt(p2, n, y), Lt(p2, y, right)
               PROVE  FALSE
   OBVIOUS
  <3>1. Lt(p, n, y) /\ Le(p, y, n) BY <1>1 DEF NextTo
  <3> QED BY <1>1, <3>1, RowFacts
 <2> QED BY <1>1, <2>1, <2>2 DEF LinkOn
<1>6. LinkOn(cts2, p2, right, cts[n].link)
 <2>1. LinkOn(cts, p, n, cts[n].link) BY <1>1, <1>3
 <2>2. PICK k : k = cts[n].link OBVIOUS
 <2>3. CASE k = NoNode
  <3>1. \A y \in DOMAIN cts2 : ~Lt(p2, right, y) BY <1>1, <2>1, <2>2, <2>3 DEF NextTo, LinkOn
  <3> QED BY <2>2, <2>3, <3>1 DEF LinkOn
 <2>4. CASE k # NoNode
  <3>1. k \in DOMAIN cts BY <1>1, <2>2, <2>4, NodeRead, ShapeFacts DEF On
  <3>2. Lt(p2, right, k) BY <1>1, <2>1, <2>2, <2>4, <3>1 DEF NextTo, LinkOn
  <3>3. ASSUME NEW y \in DOMAIN cts2, Lt(p2, right, y), Lt(p2, y, k)
        PROVE  ~Full(cts2[y])
   <4>1. y \in DOMAIN cts BY <1>1, <3>3 DEF NextTo
   <4>2. Lt(p, n, y) /\ Lt(p, y, k) BY <1>1, <3>1, <3>3, <4>1 DEF NextTo
   <4>3. ~Full(cts[y]) BY <2>1, <2>2, <2>4, <4>1, <4>2 DEF LinkOn
   <4> QED BY <1>2, <4>1, <4>3
  <3> QED BY <2>2, <2>4, <3>2, <3>3 DEF LinkOn
 <2> QED BY <2>3, <2>4
<1>7. ASSUME NEW x \in DOMAIN cts, x # n
      PROVE  LinkOn(cts2, p2, x, cts2[x].link)
 <2>1. PICK k : k = cts[x].link OBVIOUS
 <2>2. cts2[x].link = k BY <1>2, <1>7, <2>1
 <2>3. LinkOn(cts, p, x, k) BY <1>3, <2>1
 <2>4. CASE k = NoNode
  <3>1. \A y \in DOMAIN cts : ~Lt(p2, x, y) BY <1>1, <2>3, <2>4 DEF NextTo, LinkOn
  <3>2. ~Lt(p2, x, right)
   <4>1. ~Le(p, x, n) BY <1>1, <1>4, <1>7, <2>3, <2>4 DEF LinkOn
   <4> QED BY <1>1, <4>1 DEF NextTo
  <3> QED BY <1>1, <2>2, <2>4, <3>1, <3>2 DEF LinkOn
 <2>5. CASE k # NoNode
  <3>1. k \in DOMAIN cts BY <2>1, <2>5, NodeRead, ShapeFacts DEF On
  <3>2. Lt(p2, x, k) BY <1>1, <2>3, <2>5, <3>1 DEF NextTo, LinkOn
  <3>3. ASSUME NEW y \in DOMAIN cts, Lt(p2, x, y), Lt(p2, y, k)
        PROVE  ~Full(cts2[y])
   <4>1. Lt(p, x, y) /\ Lt(p, y, k) BY <1>1, <3>1, <3>3 DEF NextTo
   <4>2. ~Full(cts[y]) BY <2>3, <2>5, <4>1 DEF LinkOn
   <4> QED BY <1>2, <4>2
  <3>4. ~(Lt(p2, x, right) /\ Lt(p2, right, k))
   <4> SUFFICES ASSUME Lt(p2, x, right), Lt(p2, right, k)
                PROVE  FALSE
    OBVIOUS
   <4>1. Le(p, x, n) /\ Lt(p, n, k) BY <1>1, <3>1 DEF NextTo
   <4>2. Lt(p, x, n) BY <1>4, <1>7, <4>1
   <4> QED BY <1>1, <2>3, <2>5, <4>1, <4>2 DEF LinkOn
  <3> QED BY <1>1, <2>2, <2>5, <3>2, <3>3, <3>4 DEF LinkOn
 <2> QED BY <2>4, <2>5
<1> QED BY <1>1, <1>5, <1>6, <1>7

LEMMA SplitItems ==
 ASSUME NEW cts, NEW p, NEW rt, TreeInv(cts, rt), OrderInv(cts, p, rt),
        NEW cts2, NEW p2, NEW n, NEW right, NEW v, SplitAs(cts, p, cts2, p2, n, right, v)
 PROVE  ItemsLead(cts2, p2) /\ Low(cts2, p2, right, v)
<1>1. NextTo(p, p2, n, right, DOMAIN cts) /\ DOMAIN cts2 = DOMAIN cts \cup {right}
      /\ n \in DOMAIN cts /\ Full(cts[n]) /\ Numbered(cts, p) /\ right[1] = n[1] /\ right \notin DOMAIN cts
 BY DEF SplitAs, Parted, Rows
<1>2. \A x \in DOMAIN cts : /\ UpperEnd(cts2[x]) <= UpperEnd(cts[x]) /\ UpperEnd(cts[x]) \in Int
                            /\ UpperEnd(cts2[x]) \in Int /\ (Full(cts2[x]) <=> Full(cts[x]))
                            /\ First(cts2[x]) = First(cts[x]) /\ (x # n => cts2[x] = cts[x])
 BY SplitEnds
<1>3. /\ v \in Int /\ UpperEnd(cts2[n]) = v /\ UpperEnd(cts2[right]) = UpperEnd(cts[n])
      /\ v < First(cts2[right]) /\ First(cts2[right]) \in Int /\ First(cts[n]) <= v /\ First(cts[n]) \in Int
 BY DEF SplitAs, Parted, Ends
<1>4. \A x, y \in DOMAIN cts : Lt(p, x, y) /\ Full(cts[x]) /\ Full(cts[y]) =>
          /\ UpperEnd(cts[x]) <= First(cts[y])
          /\ y[1] = 0 => UpperEnd(cts[x]) < First(cts[y])
 BY DEF OrderInv, ItemsLead
<1>5. \A y \in DOMAIN cts : Full(cts[y]) => First(cts[y]) \in Int
 <2>1. AllEnd(cts) BY TreeEnds
 <2> QED BY <2>1 DEF AllEnd, Ends
<1>6. ASSUME NEW x \in DOMAIN cts, NEW y \in DOMAIN cts, Lt(p2, x, y), Full(cts2[x]), Full(cts2[y])
      PROVE  /\ UpperEnd(cts2[x]) <= First(cts2[y])
             /\ y[1] = 0 => UpperEnd(cts2[x]) < First(cts2[y])
 <2>1. Lt(p, x, y) /\ Full(cts[x]) /\ Full(cts[y]) BY <1>1, <1>2, <1>6 DEF NextTo
 <2>2. UpperEnd(cts[x]) <= First(cts[y]) /\ (y[1] = 0 => UpperEnd(cts[x]) < First(cts[y]))
  BY <1>4, <2>1
 <2>3. UpperEnd(cts2[x]) <= UpperEnd(cts[x]) /\ UpperEnd(cts[x]) \in Int /\ UpperEnd(cts2[x]) \in Int
       /\ First(cts2[y]) = First(cts[y]) /\ First(cts[y]) \in Int
  BY <1>2, <1>5, <2>1
 <2> QED BY ONLY <2>2, <2>3
<1>7. ASSUME NEW y \in DOMAIN cts, Lt(p2, right, y), Full(cts2[y])
      PROVE  /\ UpperEnd(cts2[right]) <= First(cts2[y])
             /\ y[1] = 0 => UpperEnd(cts2[right]) < First(cts2[y])
 <2>1. Lt(p, n, y) /\ Full(cts[y]) BY <1>1, <1>2, <1>7 DEF NextTo
 <2> QED BY <1>1, <1>2, <1>3, <1>4, <2>1
<1>8. ASSUME NEW x \in DOMAIN cts, Lt(p2, x, right)
      PROVE  UpperEnd(cts2[x]) <= v
 <2>1. CASE x = n BY <1>3, <2>1
 <2>2. CASE x # n
  <3>1. Le(p, x, n) BY <1>1, <1>8 DEF NextTo
  <3>2. Lt(p, x, n) BY <1>1, <2>2, <3>1, RowFacts
  <3>3. AllEnd(cts) /\ ItemsLead(cts, p) BY TreeEnds DEF OrderInv
  <3>4. UpperEnd(cts[x]) <= First(cts[n]) BY <1>1, <3>2, <3>3, ItemsAscend
  <3> QED BY <1>2, <1>3, <3>4
 <2> QED BY <2>1, <2>2
<1>9. ~Lt(p2, right, right) BY <1>1 DEF NextTo
<1>10. Low(cts2, p2, right, v) BY <1>1, <1>8, <1>9 DEF Low
<1>11. \A x \in DOMAIN cts : Lt(p2, x, right) => /\ UpperEnd(cts2[x]) <= First(cts2[right])
                                                 /\ right[1] = 0 => UpperEnd(cts2[x]) < First(cts2[right])
 BY <1>2, <1>3, <1>8
<1> QED BY <1>1, <1>6, <1>7, <1>9, <1>10, <1>11 DEF ItemsLead

LEMMA SplitTwins ==
 ASSUME NEW cts, NEW p, NEW rt, TreeInv(cts, rt), OrderInv(cts, p, rt),
        NEW cts2, NEW p2, NEW n, NEW right, NEW v, SplitAs(cts, p, cts2, p2, n, right, v)
 PROVE  TwinsOK(cts, p, cts2, p2)
<1> SUFFICES ASSUME NEW m \in DOMAIN cts, m[1] # 0, cts2[m] = cts[m], NEW f \in DOMAIN cts2, NEW d,
                    Lt(p2, m, f), Leads(cts2[f], UpperEnd(cts[m]), d)
             PROVE  d \in DOMAIN cts /\ LeadsFrom(cts, p, m, UpperEnd(cts[m]), d)
 BY DEF TwinsOK
<1>1. NextTo(p, p2, n, right, DOMAIN cts) /\ DOMAIN cts2 = DOMAIN cts \cup {right}
      /\ n \in DOMAIN cts /\ Numbered(cts, p) /\ right[1] = n[1] /\ right \notin DOMAIN cts
      /\ cts[n].stamp < cts2[n].stamp /\ cts[n].stamp \in Int
 BY DEF SplitAs, Parted, Rows, Ends
<1>2. n[1] # 0 => \A w, b : Leads(cts2[n], w, b) \/ Leads(cts2[right], w, b) => Leads(cts[n], w, b)
 BY DEF SplitAs
<1>3. \E g \in DOMAIN cts : Lt(p, m, g) /\ Leads(cts[g], UpperEnd(cts[m]), d)
 <2>1. CASE f = right
  <3>1. Le(p, m, n) /\ m # n BY <1>1, <2>1 DEF NextTo
  <3>2. Lt(p, m, n) /\ m[1] = n[1] BY <1>1, <3>1, RowFacts
  <3> QED BY <1>1, <1>2, <2>1, <3>2
 <2>2. CASE f = n
  <3>1. Lt(p, m, n) BY <1>1, <2>2 DEF NextTo
  <3>2. m[1] = n[1] BY <3>1 DEF Lt
  <3> QED BY <1>1, <1>2, <2>2, <3>1, <3>2
 <2>3. CASE f \in DOMAIN cts \ {n}
  <3>1. Lt(p, m, f) /\ cts2[f] = cts[f] BY <1>1, <2>3 DEF NextTo, SplitAs
  <3> QED BY <2>3, <3>1
 <2> QED BY <1>1, <2>1, <2>2, <2>3
<1>4. PICK g \in DOMAIN cts : Lt(p, m, g) /\ Leads(cts[g], UpperEnd(cts[m]), d) BY <1>3
<1>5. d \in DOMAIN cts
 <2>1. g[1] # 0 /\ g[1] \in Nat /\ Shape(DOMAIN cts, g[1], cts[g]) /\ DOMAIN cts \in SUBSET Names
  BY <1>4, OrderRows DEF Lt
 <2> QED BY <1>4, <2>1, LeadsIn
<1> QED BY <1>1, <1>4, <1>5, LeadsHere

LEMMA SplitOrder ==
 ASSUME NEW cts, NEW p, NEW rt, TreeInv(cts, rt), OrderInv(cts, p, rt),
        NEW cts2, NEW p2, NEW n, NEW right, NEW v, SplitAs(cts, p, cts2, p2, n, right, v)
 PROVE  OrderInv(cts2, p2, rt)
<1>1. NextTo(p, p2, n, right, DOMAIN cts) /\ DOMAIN cts2 = DOMAIN cts \cup {right}
      /\ n \in DOMAIN cts /\ right[1] = n[1] /\ right \notin DOMAIN cts
      /\ \A x \in DOMAIN cts \ {n} : cts2[x] = cts[x]
 BY DEF SplitAs
<1>2. Moved(cts, p, cts2, p2) /\ HasStays(cts, cts2) /\ AllEnd(cts2) /\ Numbered(cts2, p2)
 BY SplitMoves DEF SplitAs, Rows
<1>3. LinksLead(cts2, p2) BY SplitLinks DEF LinksLead, LinkOn
<1>4. ItemsLead(cts2, p2) BY SplitItems
<1>5. \A x \in DOMAIN cts : x[1] # 0 => \A w, d : Leads(cts[x], w, d) => Promise(cts2, p2, x[1], w, d)
 BY <1>2, PromisesKept
<1>6. n[1] # 0 => \A w, d : Leads(cts2[n], w, d) \/ Leads(cts2[right], w, d) => Leads(cts[n], w, d)
 BY DEF SplitAs
<1>7. ChildrenLead(cts2, p2)
 <2> SUFFICES ASSUME NEW x \in DOMAIN cts2, x[1] # 0, NEW w, NEW d, Leads(cts2[x], w, d)
              PROVE  Promise(cts2, p2, x[1], w, d)
  BY DEF ChildrenLead
 <2>1. CASE x = right
  <3>1. n[1] # 0 /\ Leads(cts[n], w, d) BY <1>1, <1>6, <2>1
  <3> QED BY <1>1, <1>5, <2>1, <3>1
 <2>2. CASE x = n BY <1>1, <1>5, <1>6, <2>2
 <2>3. CASE x \in DOMAIN cts \ {n} BY <1>1, <1>5, <2>3
 <2> QED BY <1>1, <2>1, <2>2, <2>3
<1>8. RootLeads(cts2, p2, rt)
 <2>1. rt.node \in DOMAIN cts /\ \A x \in DOMAIN cts : ~Lt(p, x, rt.node) /\ x[1] <= rt.height
  BY DEF OrderInv, RootLeads, TreeInv
 <2> QED BY <1>1, <2>1 DEF RootLeads, NextTo
<1> QED BY <1>2, <1>3, <1>4, <1>7, <1>8 DEF OrderInv

SplitAt(cts, cts2, n, right, i, v) ==
    /\ n \in DOMAIN cts /\ i \in 1 .. Len(cts[n].items) - 1 /\ v = cts[n].items[i]
    /\ right \in Names /\ right \notin DOMAIN cts /\ right[1] = n[1]
    /\ DOMAIN cts2 = DOMAIN cts \cup {right}
    /\ cts2[n] = LeftPart(cts[n], i, right) /\ cts2[right] = RightPart(cts[n], i)
    /\ \A x \in DOMAIN cts \ {n} : cts2[x] = cts[x]
SplitDone(cts, p, cts2, rt, right, v) == \E p2 : Good(cts, p, cts2, p2, rt) /\ Low(cts2, p2, right, v)

LEMMA SplitGood ==
 ASSUME NEW cts, NEW p, NEW rt, TreeInv(cts, rt), OrderInv(cts, p, rt),
        NEW cts2, TreeInv(cts2, rt), NEW n, NEW right, NEW i, NEW v, SplitAt(cts, cts2, n, right, i, v)
 PROVE  SplitDone(cts, p, cts2, rt, right, v)
<1> PICK c : c = cts[n] OBVIOUS
<1>0. /\ n \in DOMAIN cts /\ i \in 1 .. Len(c.items) - 1 /\ v = c.items[i]
      /\ right \in Names /\ right \notin DOMAIN cts /\ right[1] = n[1]
      /\ DOMAIN cts2 = DOMAIN cts \cup {right}
      /\ cts2[n] = LeftPart(c, i, right) /\ cts2[right] = RightPart(c, i)
      /\ \A x \in DOMAIN cts \ {n} : cts2[x] = cts[x]
 BY DEF SplitAt
<1> USE <1>0
<1>1. Rows(cts, p) /\ Numbered(cts, p) /\ DOMAIN cts \in SUBSET Names
      /\ n[1] \in Nat /\ Shape(DOMAIN cts, n[1], c)
 BY OrderRows
<1>2. PICK p2 : p2 = Doubled(p, n, right, DOMAIN cts) OBVIOUS
<1>3. /\ NextTo(p, p2, n, right, DOMAIN cts)
      /\ p2 \in [DOMAIN cts \cup {right} -> Nat]
      /\ \A x, y \in DOMAIN cts \cup {right} : x[1] = y[1] /\ p2[x] = p2[y] => x = y
 <2>1. NewRow(p, p2, n, right, DOMAIN cts) BY <1>1, <1>2, DoubledRow
 <2> QED BY <2>1 DEF NewRow
<1>4. AllEnd(cts2) BY TreeEnds
<1>5. Rows(cts2, p2) BY <1>3, <1>4 DEF Rows, Numbered
<1>6. PICK D, l : D = DOMAIN cts /\ l = n[1] OBVIOUS
<1>7. Ends(cts2[n]) /\ Ends(cts2[right]) BY <1>4 DEF AllEnd
<1>8. /\ Parted(c, v, cts2[n], cts2[right], right)
      /\ n[1] # 0 => \A w, d : Leads(cts2[n], w, d) \/ Leads(cts2[right], w, d) => Leads(c, w, d)
 <2>1. PICK left, rc : left = cts2[n] /\ rc = cts2[right] OBVIOUS
 <2>2. Parted(c, v, left, rc, right) /\ PartsLead(l, c, left, rc)
  BY <1>1, <1>6, <1>7, <2>1, PartsAre
 <2> QED BY <1>6, <2>1, <2>2 DEF PartsLead
<1>9. right # NoNode BY NodeRead
<1>10. SplitAs(cts, p, cts2, p2, n, right, v) BY <1>1, <1>3, <1>5, <1>8, <1>9 DEF SplitAs
<1>11. OrderInv(cts2, p2, rt) BY <1>10, SplitOrder
<1>12. Safe(cts, p, cts2, p2) /\ HasStays(cts, cts2) /\ TwinsOK(cts, p, cts2, p2) /\ Low(cts2, p2, right, v)
 BY <1>10, SplitSafe, SplitMoves, SplitTwins, SplitItems
<1>13. Good(cts, p, cts2, p2, rt) BY <1>11, <1>12 DEF Good
<1> QED BY <1>12, <1>13 DEF SplitDone

-----------------------------------------------------------------------------
LEMMA LinkIn ==
 ASSUME NEW cts, NEW rt, TreeInv(cts, rt), NEW n \in DOMAIN cts, cts[n].link # NoNode
 PROVE  cts[n].link \in DOMAIN cts /\ cts[n].link[1] = n[1] /\ cts[n].link \in Names
<1>1. n[1] \in Nat /\ Shape(DOMAIN cts, n[1], cts[n]) /\ DOMAIN cts \in SUBSET Names BY NodeRead
<1>2. PICK D, l, c : D = DOMAIN cts /\ l = n[1] /\ c = cts[n] OBVIOUS
<1>3. On(D, c.link, l) BY <1>1, <1>2, ShapeFacts
<1> QED BY <1>1, <1>2, <1>3 DEF On

(* A level more: a node that is alone in it. *)
Higher(p, new) == [x \in DOMAIN p \cup {new} |-> IF x = new THEN 0 ELSE p[x]]
GrownAs(cts, p, rt, cts2, p2, new, rt2) ==
    /\ rt.node \in DOMAIN cts /\ new \notin DOMAIN cts /\ new \in Names /\ new[1] = rt.height + 1
    /\ rt2 = [node |-> new, height |-> rt.height + 1] /\ rt.height \in Nat
    /\ DOMAIN cts2 = DOMAIN cts \cup {new} /\ (\A x \in DOMAIN cts : cts2[x] = cts[x])
    /\ cts2[new] = Contents(<<INF>>, <<rt.node>>, NoNode)
    /\ \A x, y \in DOMAIN cts : /\ Lt(p2, x, y) <=> Lt(p, x, y)
                                /\ Le(p2, x, y) <=> Le(p, x, y)
    /\ \A x \in DOMAIN cts2 : ~Lt(p2, x, new) /\ ~Lt(p2, new, x)
    /\ Rows(cts, p) /\ Rows(cts2, p2)

LEMMA HigherRow ==
 ASSUME NEW cts, NEW p, NEW rt, TreeInv(cts, rt), OrderInv(cts, p, rt),
        NEW new \in Names, new[1] = rt.height + 1, new \notin DOMAIN cts,
        NEW rt2, rt2 = [node |-> new, height |-> rt.height + 1],
        NEW cts2, TreeInv(cts2, rt2), DOMAIN cts2 = DOMAIN cts \cup {new},
        \A x \in DOMAIN cts : cts2[x] = cts[x],
        cts2[new] = Contents(<<INF>>, <<rt.node>>, NoNode)
 PROVE  GrownAs(cts, p, rt, cts2, Higher(p, new), new, rt2)
<1>1. PICK p2 : p2 = Higher(p, new) OBVIOUS
<1>2. Numbered(cts, p) /\ Rows(cts, p) /\ rt.node \in DOMAIN cts /\ rt.height = rt.node[1]
 BY OrderRows DEF TreeInv
<1>3. DOMAIN p = DOMAIN cts /\ (\A x \in DOMAIN cts : p[x] \in Nat) BY <1>2 DEF Numbered
<1>4. /\ p2 \in [DOMAIN cts2 -> Nat] /\ p2[new] = 0
      /\ \A x \in DOMAIN cts : p2[x] = p[x]
 BY <1>1, <1>3 DEF Higher
<1>5. rt.height \in Nat /\ \A x \in DOMAIN cts : x[1] # new[1]
 <2>1. rt.height \in Nat BY <1>2, NodeRead
 <2>2. \A x \in DOMAIN cts : x[1] <= rt.height /\ x[1] \in Nat BY NodeRead DEF OrderInv, RootLeads
 <2> QED BY <2>1, <2>2
<1>6. \A x, y \in DOMAIN cts : (Lt(p2, x, y) <=> Lt(p, x, y)) /\ (Le(p2, x, y) <=> Le(p, x, y))
 BY <1>4 DEF Lt, Le
<1>7. \A x \in DOMAIN cts2 : ~Lt(p2, x, new) /\ ~Lt(p2, new, x) BY <1>4, <1>5 DEF Lt
<1>8. Rows(cts2, p2)
 <2>1. \A x, y \in DOMAIN cts2 : x[1] = y[1] /\ p2[x] = p2[y] => x = y
  BY <1>2, <1>4, <1>5 DEF Numbered
 <2> QED BY <1>4, <2>1, TreeEnds DEF Rows, Numbered
<1>9. GrownAs(cts, p, rt, cts2, p2, new, rt2) BY <1>2, <1>5, <1>6, <1>7, <1>8 DEF GrownAs
<1> QED BY <1>1, <1>9

LEMMA GrownSafe ==
 ASSUME NEW cts, NEW p, NEW rt, NEW cts2, NEW p2, NEW new, NEW rt2, GrownAs(cts, p, rt, cts2, p2, new, rt2)
 PROVE  Safe(cts, p, cts2, p2) /\ HasStays(cts, cts2)
<1>1. /\ DOMAIN cts2 = DOMAIN cts \cup {new} /\ \A x \in DOMAIN cts : cts2[x] = cts[x]
      /\ \A x, y \in DOMAIN cts : (Lt(p2, x, y) <=> Lt(p, x, y)) /\ (Le(p2, x, y) <=> Le(p, x, y))
      /\ \A x \in DOMAIN cts2 : ~Lt(p2, x, new) /\ ~Lt(p2, new, x)
      /\ Rows(cts, p) /\ Rows(cts2, p2)
 BY DEF GrownAs
<1>2. \A x \in DOMAIN cts : UpperEnd(cts[x]) \in Int /\ (Full(cts[x]) => First(cts[x]) \in Int) /\ Le(p2, x, x)
 BY <1>1, RowFacts DEF Rows, AllEnd, Ends
<1>3. Moved(cts, p, cts2, p2)
 <2>1. \A x \in DOMAIN cts2, n \in DOMAIN cts : Lt(p2, x, n) =>
         \E y \in DOMAIN cts : /\ Lt(p, y, n) /\ UpperEnd(cts2[x]) <= UpperEnd(cts[y])
                               /\ \A a \in DOMAIN cts : Le(p2, a, x) => Le(p, a, y)
  <3> SUFFICES ASSUME NEW x \in DOMAIN cts2, NEW n \in DOMAIN cts, Lt(p2, x, n)
               PROVE  \E y \in DOMAIN cts : /\ Lt(p, y, n) /\ UpperEnd(cts2[x]) <= UpperEnd(cts[y])
                                            /\ \A a \in DOMAIN cts : Le(p2, a, x) => Le(p, a, y)
   OBVIOUS
  <3>1. x \in DOMAIN cts BY <1>1
  <3> QED BY <1>1, <1>2, <3>1
 <2> QED BY <1>1, <1>2, <2>1 DEF Moved
<1>4. HasStays(cts, cts2) BY <1>1 DEF HasStays, Has
<1>5. FirstsStay(cts, cts2, p2) BY <1>1, <1>2 DEF FirstsStay
<1>6. ItemsStay(cts, cts2) BY <1>4 DEF ItemsStay, HasStays
<1>7. CoveredStays(cts, p, cts2, p2) BY <1>1 DEF CoveredStays, Covered
<1>8. StampsGrow(cts, cts2) BY <1>1 DEF StampsGrow
<1> QED BY <1>1, <1>3, <1>4, <1>5, <1>6, <1>7, <1>8 DEF Safe

LEMMA GrowGood ==
 ASSUME NEW cts, NEW p, NEW rt, TreeInv(cts, rt), OrderInv(cts, p, rt),
        NEW new \in Names, new[1] = rt.height + 1, new \notin DOMAIN cts,
        NEW rt2, rt2 = [node |-> new, height |-> rt.height + 1],
        NEW cts2, TreeInv(cts2, rt2), DOMAIN cts2 = DOMAIN cts \cup {new},
        \A x \in DOMAIN cts : cts2[x] = cts[x],
        cts2[new] = Contents(<<INF>>, <<rt.node>>, NoNode)
 PROVE  \E p2 : Good(cts, p, cts2, p2, rt2)
<1>1. PICK p2 : GrownAs(cts, p, rt, cts2, p2, new, rt2) BY HigherRow
<1>2. Safe(cts, p, cts2, p2) /\ HasStays(cts, cts2) BY <1>1, GrownSafe
<1>3. /\ Lt(p2, new, new) = FALSE
      /\ \A x, y \in DOMAIN cts : (Lt(p2, x, y) <=> Lt(p, x, y))
      /\ \A x \in DOMAIN cts2 : ~Lt(p2, x, new) /\ ~Lt(p2, new, x)
      /\ Numbered(cts2, p2) /\ rt.node \in DOMAIN cts /\ rt.height \in Nat
      /\ Numbered(cts, p)
 BY <1>1 DEF GrownAs, Rows, Lt
<1>4. cts2[new].items = <<INF>> /\ cts2[new].children = <<rt.node>> /\ cts2[new].link = NoNode
 BY DEF Contents
<1>5. LinksLead(cts2, p2)
 <2>1. \A x \in DOMAIN cts : cts2[x].link # NoNode => cts2[x].link \in DOMAIN cts BY LinkIn
 <2>2. ASSUME NEW x \in DOMAIN cts
       PROVE  /\ cts2[x].link = NoNode => \A y \in DOMAIN cts2 : ~Lt(p2, x, y)
              /\ cts2[x].link # NoNode =>
                  /\ Lt(p2, x, cts2[x].link)
                  /\ \A y \in DOMAIN cts2 : Lt(p2, x, y) /\ Lt(p2, y, cts2[x].link) => ~Full(cts2[y])
  BY <1>3, <2>1 DEF OrderInv, LinksLead
 <2> QED BY <1>3, <1>4, <2>2 DEF LinksLead
<1>6. ItemsLead(cts2, p2)
 <2>1. ASSUME NEW x \in DOMAIN cts2, NEW y \in DOMAIN cts2, Lt(p2, x, y), Full(cts2[x]), Full(cts2[y])
       PROVE  UpperEnd(cts2[x]) <= First(cts2[y]) /\ (y[1] = 0 => UpperEnd(cts2[x]) < First(cts2[y]))
  <3>1. x \in DOMAIN cts /\ y \in DOMAIN cts BY <1>3, <2>1
  <3>2. cts2[x] = cts[x] /\ cts2[y] = cts[y] /\ Lt(p, x, y) BY <1>3, <2>1, <3>1
  <3> QED BY <2>1, <3>1, <3>2 DEF OrderInv, ItemsLead
 <2> QED BY <2>1 DEF ItemsLead
<1>7. ChildrenLead(cts2, p2)
 <2> SUFFICES ASSUME NEW x \in DOMAIN cts2, x[1] # 0, NEW w, NEW d, Leads(cts2[x], w, d)
              PROVE  Promise(cts2, p2, x[1], w, d)
  BY DEF ChildrenLead
 <2>1. CASE x = new
  <3>1. d = rt.node BY <1>4, <2>1 DEF Leads
  <3>2. \A y \in DOMAIN cts2 : ~Lt(p2, y, d) BY <1>3, <3>1 DEF OrderInv, RootLeads
  <3> QED BY <3>2 DEF Promise
 <2>2. CASE x \in DOMAIN cts
  <3>1. Leads(cts[x], w, d) BY <2>2
  <3>2. AllEnd(cts2) /\ Moved(cts, p, cts2, p2) BY <1>2, TreeEnds DEF Safe
  <3> QED BY <1>2, <2>2, <3>1, <3>2, PromisesKept
 <2> QED BY <2>1, <2>2
<1>8. RootLeads(cts2, p2, rt2)
 <2>1. \A x \in DOMAIN cts : x[1] <= rt.height /\ x[1] \in Nat BY NodeRead DEF OrderInv, RootLeads
 <2>2. \A x \in DOMAIN cts2 : x[1] <= rt.height + 1 BY <1>3, <2>1
 <2> QED BY <1>3, <2>2 DEF RootLeads
<1>9. TwinsOK(cts, p, cts2, p2)
 <2> SUFFICES ASSUME NEW m \in DOMAIN cts, m[1] # 0, NEW f \in DOMAIN cts2, NEW d,
                     Lt(p2, m, f), Leads(cts2[f], UpperEnd(cts[m]), d)
              PROVE  d \in DOMAIN cts /\ LeadsFrom(cts, p, m, UpperEnd(cts[m]), d)
  BY DEF TwinsOK
 <2>1. f \in DOMAIN cts BY <1>3
 <2>2. Lt(p, m, f) /\ Leads(cts[f], UpperEnd(cts[m]), d) BY <1>3, <2>1
 <2>3. f[1] # 0 /\ f[1] \in Nat /\ Shape(DOMAIN cts, f[1], cts[f]) /\ DOMAIN cts \in SUBSET Names
  BY <2>1, <2>2, OrderRows DEF Lt
 <2>4. d \in DOMAIN cts BY <2>2, <2>3, LeadsIn
 <2> QED BY <1>3, <2>1, <2>2, <2>4, LeadsHere
<1>10. OrderInv(cts2, p2, rt2) BY <1>3, <1>5, <1>6, <1>7, <1>8 DEF OrderInv
<1> QED BY <1>2, <1>9, <1>10 DEF Good

-----------------------------------------------------------------------------
(* Every node with an item is reached from the root: by links along its    *)
(* level from the first child of the first such node above.                *)
LEMMA Lowest ==
 ASSUME NEW S, S # {}, NEW f, \A x \in S : f[x] \in Nat
 PROVE  \E x \in S : \A y \in S : f[x] <= f[y]
<1>1. PICK T : T = {f[x] : x \in S} OBVIOUS
<1>2. T \subseteq Nat /\ T # {} BY <1>1
<1>3. Min(T) \in T /\ \A y \in T : Min(T) <= y BY <1>2, LowestNatural
<1> QED BY <1>1, <1>3

LEMMA Highest ==
 ASSUME NEW S, IsFiniteSet(S), S # {}, NEW f, \A x \in S : f[x] \in Nat
 PROVE  \E x \in S : \A y \in S : f[y] <= f[x]
<1>1. PICK g : g = [x \in S |-> Cardinality({y \in S : f[x] < f[y]})] OBVIOUS
<1>2. \A x \in S : IsFiniteSet({y \in S : f[x] < f[y]}) /\ g[x] \in Nat
 <2> TAKE x \in S
 <2>1. PICK U : U = {y \in S : f[x] < f[y]} OBVIOUS
 <2>2. IsFiniteSet(U) BY <2>1, FS_Subset
 <2>3. Cardinality(U) \in Nat BY <2>2, FS_CardinalityType
 <2> QED BY <1>1, <2>1, <2>2, <2>3
<1>3. PICK x \in S : \A y \in S : g[x] <= g[y] BY <1>2, Lowest
<1>4. ASSUME NEW y \in S, ~(f[y] <= f[x])
      PROVE  FALSE
 <2>1. PICK U, V : U = {z \in S : f[x] < f[z]} /\ V = {z \in S : f[y] < f[z]} OBVIOUS
 <2>2. f[x] \in Nat /\ f[y] \in Nat /\ f[x] < f[y] BY <1>4
 <2>3. V \subseteq U BY <2>1, <2>2
 <2>4. y \in U /\ y \notin V BY <2>1, <2>2
 <2>5. IsFiniteSet(U) /\ g[x] = Cardinality(U) /\ g[y] = Cardinality(V) /\ g[x] \in Nat /\ g[y] \in Nat
  BY <1>1, <1>2, <2>1
 <2>6. Cardinality(V) <= Cardinality(U) /\ (Cardinality(U) = Cardinality(V) => U = V)
  BY <2>3, <2>5, FS_Subset
 <2>7. g[x] <= g[y] BY <1>3
 <2> QED BY <2>4, <2>5, <2>6, <2>7
<1> QED BY <1>3, <1>4

LEMMA LevelEnds ==
 ASSUME NEW cts, NEW p, NEW rt, TreeInv(cts, rt), OrderInv(cts, p, rt), NEW n \in DOMAIN cts
 PROVE  \E y \in DOMAIN cts : y[1] = n[1] /\ Le(p, n, y) /\ Full(cts[y]) /\ UpperEnd(cts[y]) = INF
<1>1. PICK S : S = {y \in DOMAIN cts : y[1] = n[1]} OBVIOUS
<1>2. IsFiniteSet(S) /\ n \in S /\ S \subseteq DOMAIN cts BY <1>1, FS_Subset DEF TreeInv
<1>3. Numbered(cts, p) /\ \A x \in DOMAIN cts : p[x] \in Nat BY DEF OrderInv, Numbered
<1>4. PICK y \in S : \A x \in S : p[x] <= p[y] BY <1>2, <1>3, Highest
<1>5. y \in DOMAIN cts /\ y[1] = n[1] /\ Le(p, n, y) BY <1>1, <1>2, <1>4 DEF Le
<1>6. cts[y].link = NoNode
 <2> SUFFICES ASSUME cts[y].link # NoNode
              PROVE  FALSE
  OBVIOUS
 <2>1. PICK k : k = cts[y].link OBVIOUS
 <2>2. k \in DOMAIN cts /\ k[1] = y[1] BY <1>5, <2>1, LinkIn
 <2>3. p[y] < p[k] BY <1>5, <2>1 DEF OrderInv, LinksLead, Lt
 <2>4. k \in S BY <1>1, <1>5, <2>2
 <2>5. p[k] <= p[y] /\ p[k] \in Nat /\ p[y] \in Nat BY <1>3, <1>4, <1>5, <2>2, <2>4
 <2> QED BY <2>3, <2>5
<1>7. PICK D, l, c : D = DOMAIN cts /\ l = y[1] /\ c = cts[y] OBVIOUS
<1>8. l \in Nat /\ Shape(D, l, c) /\ D \in SUBSET Names BY <1>5, <1>7, NodeRead
<1>9. c.items # <<>> /\ Last(c.items) = INF /\ UpperEnd(c) = Last(c.items)
 BY <1>6, <1>7, <1>8, ShapeFacts, UpperEndOf
<1> QED BY <1>5, <1>7, <1>9 DEF Full

LEMMA LevelBegins ==
 ASSUME NEW cts, NEW p, NEW rt, TreeInv(cts, rt), OrderInv(cts, p, rt),
        NEW n \in DOMAIN cts, Full(cts[n])
 PROVE  \E g \in DOMAIN cts : /\ g[1] = n[1] /\ Full(cts[g])
                              /\ \A y \in DOMAIN cts : y[1] = n[1] /\ Full(cts[y]) => Le(p, g, y)
<1>1. PICK S : S = {y \in DOMAIN cts : y[1] = n[1] /\ Full(cts[y])} OBVIOUS
<1>2. n \in S /\ \A x \in S : p[x] \in Nat BY <1>1 DEF OrderInv, Numbered
<1>3. PICK g \in S : \A y \in S : p[g] <= p[y] BY <1>2, Lowest
<1> QED BY <1>1, <1>3 DEF Le

LEMMA RowReached ==
 ASSUME NEW cts, NEW p, NEW rt, TreeInv(cts, rt), OrderInv(cts, p, rt),
        NEW R, R \subseteq DOMAIN cts, Closed(cts, R),
        NEW z \in R, NEW y \in DOMAIN cts, Full(cts[y]), Le(p, z, y)
 PROVE  y \in R
<1>1. PICK T : T = {x \in R : Le(p, x, y)} OBVIOUS
<1>2. IsFiniteSet(T) /\ z \in T /\ T \subseteq DOMAIN cts BY <1>1, FS_Subset DEF TreeInv
<1>3. Numbered(cts, p) /\ \A x \in DOMAIN cts : p[x] \in Nat BY DEF OrderInv, Numbered
<1>4. PICK x \in T : \A u \in T : p[u] <= p[x] BY <1>2, <1>3, Highest
<1>5. x \in R /\ x \in DOMAIN cts /\ Le(p, x, y) BY <1>1
<1>6. CASE x = y BY <1>5, <1>6
<1>7. CASE x # y
 <2>1. Lt(p, x, y) /\ x[1] = y[1] BY <1>3, <1>5, <1>7, RowFacts
 <2>2. PICK k : k = cts[x].link OBVIOUS
 <2>3. LinkOn(cts, p, x, k) BY <1>5, <2>2, OrderRows
 <2>4. k # NoNode /\ Lt(p, x, k) BY <2>1, <2>3 DEF LinkOn
 <2>5. k \in R /\ k \in DOMAIN cts BY <1>5, <2>2, <2>4 DEF Closed
 <2>6. ~Lt(p, y, k) BY <2>1, <2>3, <2>4 DEF LinkOn
 <2>7. Le(p, k, y)
  <3>1. k[1] = y[1] BY <2>1, <2>4 DEF Lt
  <3> QED BY <1>3, <2>5, <2>6, <3>1, RowFacts
 <2>8. p[k] <= p[x] /\ p[k] \in Nat /\ p[x] \in Nat BY <1>1, <1>3, <1>4, <1>5, <2>5, <2>7
 <2> QED BY <2>4, <2>8 DEF Lt
<1> QED BY <1>6, <1>7

LEMMA ChildBegins ==
 ASSUME NEW cts, NEW p, NEW rt, TreeInv(cts, rt), OrderInv(cts, p, rt),
        NEW g \in DOMAIN cts, g[1] # 0, Full(cts[g]),
        \A y \in DOMAIN cts : y[1] = g[1] /\ Full(cts[y]) => Le(p, g, y),
        NEW d, d = cts[g].children[1]
 PROVE  /\ d \in ToSet(cts[g].children) /\ d # NoNode /\ d \in DOMAIN cts /\ d[1] = g[1] - 1
        /\ \A y \in DOMAIN cts : y[1] = d[1] /\ Full(cts[y]) => Le(p, d, y)
<1>1. PICK D, l, c : D = DOMAIN cts /\ l = g[1] /\ c = cts[g] OBVIOUS
<1>2. l \in Nat /\ Shape(D, l, c) /\ D \in SUBSET Names /\ Numbered(cts, p) /\ AllEnd(cts) /\ ItemsLead(cts, p)
 BY <1>1, OrderRows DEF OrderInv
<1>3. /\ Len(c.items) \in Nat /\ Len(c.items) # 0 /\ c.children \in Seq(Names) /\ Len(c.children) = Len(c.items)
      /\ \A i \in 1 .. Len(c.items) : On(D, c.children[i], l - 1)
 BY <1>1, <1>2, ShapeFacts DEF Full
<1>4. 1 \in 1 .. Len(c.items) BY <1>3
<1>5. d \in D /\ d[1] = l - 1 /\ d \in Names /\ Leads(c, First(c), d) /\ d \in ToSet(c.children)
 BY <1>1, <1>2, <1>3, <1>4 DEF On, Leads, First, ToSet
<1>6. d # NoNode BY <1>1, <1>5, NodeRead
<1>7. Promise(cts, p, l, First(c), d) BY <1>1, <1>5 DEF OrderInv, ChildrenLead
<1>8. ASSUME NEW y \in DOMAIN cts, y[1] = d[1], Full(cts[y])
      PROVE  Le(p, d, y)
 <2> SUFFICES ASSUME Lt(p, y, d)
              PROVE  FALSE
  BY <1>1, <1>2, <1>5, <1>8, RowFacts
 <2>1. Bounded(cts, l, UpperEnd(cts[y]), First(c)) BY <1>7 DEF Promise
 <2>2. EMPTY < UpperEnd(cts[y]) /\ UpperEnd(cts[y]) \in Int /\ EMPTY \in Int
  BY <1>2, <1>8 DEF AllEnd, Ends
 <2>3. PICK w \in Item : Has(cts, l, w) /\ w < First(c) BY <2>1, <2>2 DEF Bounded
 <2>4. PICK f \in DOMAIN cts : f[1] = l /\ Holds(cts[f], w) BY <2>3 DEF Has
 <2>5. Full(cts[f]) /\ First(cts[f]) <= w /\ First(cts[f]) \in Int /\ w \in Int /\ First(c) \in Int
  BY <1>1, <1>2, <2>4 DEF AllEnd, Ends
 <2>6. Le(p, g, f) BY <1>1, <2>4, <2>5
 <2>7. First(c) <= First(cts[f])
  <3>1. CASE f = g BY <1>1, <2>5, <3>1
  <3>2. CASE f # g
   <4>1. Lt(p, g, f) BY <1>2, <2>6, <3>2, RowFacts
   <4> QED BY <1>1, <1>2, <2>5, <4>1, ItemsAscend
  <3> QED BY <3>1, <3>2
 <2> QED BY <2>3, <2>5, <2>7
<1> QED BY <1>1, <1>5, <1>6, <1>8

LevelReached(cts, R, l) ==
    /\ \E y \in DOMAIN cts : y[1] = l /\ Full(cts[y])
    /\ \A y \in DOMAIN cts : y[1] = l /\ Full(cts[y]) => y \in R

LEMMA AllReached ==
 ASSUME NEW cts, NEW p, NEW rt, TreeInv(cts, rt), OrderInv(cts, p, rt),
        NEW R, R \subseteq DOMAIN cts, Closed(cts, R), rt.node \in R
 PROVE  \A l \in 0 .. rt.height : LevelReached(cts, R, l)
<1>1. rt.height \in Nat /\ rt.node \in DOMAIN cts /\ rt.node[1] = rt.height /\ Numbered(cts, p)
 BY NodeRead DEF TreeInv, OrderInv
<1>2. PICK T : T = {k \in 0 .. rt.height : ~LevelReached(cts, R, rt.height - k)} OBVIOUS
<1>3. CASE T = {}
 <2> SUFFICES ASSUME NEW l \in 0 .. rt.height
              PROVE  LevelReached(cts, R, l)
  OBVIOUS
 <2>1. PICK k : k = rt.height - l OBVIOUS
 <2>2. k \in 0 .. rt.height /\ rt.height - k = l BY <1>1, <2>1
 <2> QED BY <1>2, <1>3, <2>2
<1>4. CASE T # {}
 <2>1. T \subseteq Nat BY <1>1, <1>2
 <2>2. PICK k \in T : \A j \in T : k <= j BY <1>4, <2>1, LowestNatural
 <2>3. k \in 0 .. rt.height /\ k \in Nat BY <1>1, <1>2
 <2>4. PICK l : l = rt.height - k OBVIOUS
 <2>5. ~LevelReached(cts, R, l) /\ l \in Nat BY <1>1, <1>2, <2>3, <2>4
 <2>6. CASE k = 0
  <3>1. l = rt.height BY <1>1, <2>4, <2>6
  <3>2. \E y \in DOMAIN cts : y[1] = l /\ Full(cts[y]) BY <1>1, <3>1, LevelEnds
  <3>3. ASSUME NEW y \in DOMAIN cts, y[1] = l, Full(cts[y])
        PROVE  y \in R
   <4>1. ~Lt(p, y, rt.node) BY DEF OrderInv, RootLeads
   <4>2. Le(p, rt.node, y) BY <1>1, <3>1, <3>3, <4>1, RowFacts
   <4> QED BY <3>3, <4>2, RowReached
  <3> QED BY <2>5, <3>2, <3>3 DEF LevelReached
 <2>7. CASE k # 0
  <3>1. PICK j, h : j = k - 1 /\ h = l + 1 OBVIOUS
  <3>2. j \in 0 .. rt.height /\ ~(k <= j) /\ rt.height - j = h /\ h # 0 /\ h - 1 = l
   BY <1>1, <2>3, <2>4, <2>5, <2>7, <3>1
  <3>3. LevelReached(cts, R, h) BY <1>2, <2>2, <3>2
  <3>4. PICK n \in DOMAIN cts : n[1] = h /\ Full(cts[n]) BY <3>3 DEF LevelReached
  <3>5. PICK g \in DOMAIN cts : /\ g[1] = h /\ Full(cts[g])
                                /\ \A y \in DOMAIN cts : y[1] = h /\ Full(cts[y]) => Le(p, g, y)
   BY <3>4, LevelBegins
  <3>6. PICK d : d = cts[g].children[1] OBVIOUS
  <3>7. /\ d \in ToSet(cts[g].children) /\ d # NoNode /\ d \in DOMAIN cts /\ d[1] = g[1] - 1
        /\ \A y \in DOMAIN cts : y[1] = d[1] /\ Full(cts[y]) => Le(p, d, y)
   BY <3>2, <3>5, <3>6, ChildBegins
  <3>8. g \in R BY <3>3, <3>5 DEF LevelReached
  <3>9. d \in R /\ d[1] = l BY <3>2, <3>5, <3>7, <3>8 DEF Closed
  <3>10. \A y \in DOMAIN cts : y[1] = l /\ Full(cts[y]) => y \in R BY <3>7, <3>9, RowReached
  <3>11. \E y \in DOMAIN cts : y[1] = l /\ Full(cts[y]) BY <3>7, <3>9, LevelEnds
  <3> QED BY <2>5, <3>10, <3>11 DEF LevelReached
 <2> QED BY <2>6, <2>7
<1> QED BY <1>3, <1>4

(* What the model forgets has no items. *)
LEMMA ForgetOrder ==
 ASSUME NEW cts, NEW p, NEW rt, TreeInv(cts, rt), OrderInv(cts, p, rt),
        NEW R, R \subseteq DOMAIN cts, Closed(cts, R), rt.node \in R, NEW cts2, DOMAIN cts2 = R,
        \A n \in R : /\ cts2[n].items = cts[n].items /\ cts2[n].children = cts[n].children
                     /\ cts2[n].link = cts[n].link
 PROVE  \E p2 : OrderInv(cts2, p2, rt)
<1>1. PICK p2 : p2 = [x \in R |-> p[x]] OBVIOUS
<1>2. \A x, y \in R : Lt(p2, x, y) <=> Lt(p, x, y) BY <1>1 DEF Lt
<1>3. \A x \in R : /\ x \in DOMAIN cts /\ cts2[x].link = cts[x].link
                   /\ (Full(cts2[x]) <=> Full(cts[x])) /\ First(cts2[x]) = First(cts[x])
                   /\ UpperEnd(cts2[x]) = UpperEnd(cts[x])
                   /\ (\A w : Holds(cts2[x], w) <=> Holds(cts[x], w))
                   /\ (\A w, d : Leads(cts2[x], w, d) <=> Leads(cts[x], w, d))
 BY DEF Full, First, UpperEnd, Holds, Leads
<1>4. Numbered(cts2, p2) BY <1>1 DEF Numbered, OrderInv
<1>5. \A x \in R : cts[x].link # NoNode => cts[x].link \in R BY DEF Closed
<1>6. LinksLead(cts2, p2)
 <2>1. ASSUME NEW n \in R
       PROVE  /\ cts[n].link = NoNode => \A x \in R : ~Lt(p2, n, x)
              /\ cts[n].link # NoNode =>
                 /\ Lt(p2, n, cts[n].link)
                 /\ \A x \in R : Lt(p2, n, x) /\ Lt(p2, x, cts[n].link) => ~Full(cts2[x])
  <3>1. PICK k : k = cts[n].link OBVIOUS
  <3>2. LinkOn(cts, p, n, k) BY <1>3, <3>1, OrderRows
  <3>3. k = NoNode => \A x \in R : ~Lt(p2, n, x) BY <1>2, <1>3, <3>2 DEF LinkOn
  <3>4. ASSUME k # NoNode
        PROVE  Lt(p2, n, k) /\ \A x \in R : Lt(p2, n, x) /\ Lt(p2, x, k) => ~Full(cts2[x])
   <4>1. k \in R BY <1>5, <3>1, <3>4
   <4> QED BY <1>2, <1>3, <3>2, <3>4, <4>1 DEF LinkOn
  <3> QED BY <3>1, <3>3, <3>4
 <2> QED BY <1>3, <2>1 DEF LinksLead
<1>7. ItemsLead(cts2, p2) BY <1>2, <1>3 DEF OrderInv, ItemsLead
<1>8. RootLeads(cts2, p2, rt) BY <1>2, <1>3 DEF OrderInv, RootLeads
<1>9. \A l, w : Has(cts, l, w) => Has(cts2, l, w)
 <2> SUFFICES ASSUME NEW l, NEW w, Has(cts, l, w)
              PROVE  Has(cts2, l, w)
  OBVIOUS
 <2>1. PICK f \in DOMAIN cts : f[1] = l /\ Holds(cts[f], w) BY DEF Has
 <2>2. Full(cts[f]) /\ f[1] \in Nat /\ f[1] <= rt.height /\ rt.height \in Nat
  BY <2>1, TreeEnds, NodeRead DEF AllEnd, Ends, OrderInv, RootLeads, TreeInv
 <2>3. l \in 0 .. rt.height BY <2>1, <2>2
 <2>4. f \in R BY <2>1, <2>2, <2>3, AllReached DEF LevelReached
 <2> QED BY <1>3, <2>1, <2>4 DEF Has
<1>10. ChildrenLead(cts2, p2)
 <2> SUFFICES ASSUME NEW n \in R, n[1] # 0, NEW w, NEW d, Leads(cts2[n], w, d)
              PROVE  Promise(cts2, p2, n[1], w, d)
  BY DEF ChildrenLead
 <2>1. n \in DOMAIN cts /\ Leads(cts[n], w, d) BY <1>3
 <2>2. Promise(cts, p, n[1], w, d) BY <2>1 DEF OrderInv, ChildrenLead
 <2>3. d \in R
  <3>1. PICK D, l, c : D = DOMAIN cts /\ l = n[1] /\ c = cts[n] OBVIOUS
  <3>2. l \in Nat /\ Shape(D, l, c) /\ D \in SUBSET Names /\ l # 0 BY <2>1, <3>1, NodeRead
  <3>3. d \in D BY <2>1, <3>1, <3>2, LeadsIn
  <3>4. d # NoNode BY <3>1, <3>3, NodeRead
  <3>5. c.children \in Seq(Names) /\ Len(c.children) = Len(c.items)
   BY ONLY <3>2, ShapeFacts, MultiwayAssumption
  <3>6. d \in ToSet(c.children) BY <2>1, <3>1, <3>5 DEF Leads, ToSet
  <3> QED BY <3>1, <3>4, <3>6 DEF Closed
 <2>4. ASSUME NEW x \in R, Lt(p2, x, d)
       PROVE  Bounded(cts2, n[1], UpperEnd(cts2[x]), w)
  <3>1. Bounded(cts, n[1], UpperEnd(cts[x]), w) BY <1>2, <1>3, <2>2, <2>3, <2>4 DEF Promise
  <3> QED BY <1>3, <1>9, <3>1 DEF Bounded
 <2> QED BY <2>4 DEF Promise
<1> QED BY <1>4, <1>6, <1>7, <1>8, <1>10 DEF OrderInv

-----------------------------------------------------------------------------
(* A step of one call, and what the others rely on. *)
Holding(cts, p, l, m, key) ==
    Sound(cts, p, l, m, key) /\ CarriesWell(cts, p, At(l, m), m) /\ TwinsKeep(cts, p, l, m, key)

LEMMA IdleHolds ==
 ASSUME NEW cts, NEW p, NEW key
 PROVE  Holding(cts, p, "idle", NoLocals, key)
<1>1. NoLocals.node = NoNode /\ NoLocals.results = <<>> /\ At("idle", NoLocals) = "idle"
 BY DEF NoLocals, At
<1>2. OnWay(cts, p, NoLocals, key)
 <2>1. DOMAIN NoLocals.results = {} BY <1>1
 <2> QED BY <1>1, <2>1 DEF OnWay
<1> QED BY <1>1, <1>2 DEF Holding, Sound, CarriesWell, TwinsKeep, DropsLast, Sliding

LEMMA SameIsGood ==
 ASSUME NEW cts, NEW p, NEW rt, TreeInv(cts, rt), OrderInv(cts, p, rt)
 PROVE  Good(cts, p, cts, p, rt)
<1>1. Rows(cts, p) /\ Numbered(cts, p) BY OrderRows
<1>2. \A x \in DOMAIN cts : UpperEnd(cts[x]) \in Int /\ (Full(cts[x]) => First(cts[x]) \in Int) /\ Le(p, x, x)
 BY <1>1, RowFacts DEF Rows, AllEnd, Ends
<1>3. Moved(cts, p, cts, p) BY <1>2 DEF Moved
<1>4. HasStays(cts, cts) /\ ItemsStay(cts, cts) /\ CoveredStays(cts, p, cts, p) /\ StampsGrow(cts, cts)
 BY DEF HasStays, ItemsStay, CoveredStays, StampsGrow
<1>5. FirstsStay(cts, cts, p) BY <1>2 DEF FirstsStay
<1>6. TwinsOK(cts, p, cts, p)
 <2> SUFFICES ASSUME NEW m \in DOMAIN cts, m[1] # 0, NEW f \in DOMAIN cts, NEW d,
                     Lt(p, m, f), Leads(cts[f], UpperEnd(cts[m]), d)
              PROVE  d \in DOMAIN cts /\ LeadsFrom(cts, p, m, UpperEnd(cts[m]), d)
  BY DEF TwinsOK
 <2>1. f[1] # 0 /\ f[1] \in Nat /\ Shape(DOMAIN cts, f[1], cts[f]) /\ DOMAIN cts \in SUBSET Names
  BY OrderRows DEF Lt
 <2>2. d \in DOMAIN cts BY <2>1, LeadsIn
 <2> QED BY <1>1, <2>2, LeadsHere
<1> QED BY <1>1, <1>3, <1>4, <1>5, <1>6 DEF Good, Safe

LEMMA GoodTwins ==
 ASSUME NEW cts, NEW p, NEW cts2, NEW p2, Safe(cts, p, cts2, p2), TwinsOK(cts, p, cts2, p2),
        NEW rt, TreeInv(cts, rt), NEW pcl, NEW m, NEW c, LocalInv(cts, pcl, m, c),
        Sound(cts, p, pcl, m, c.key), TwinsKeep(cts, p, pcl, m, c.key)
 PROVE  TwinsKeep(cts2, p2, pcl, m, c.key)
<1>1. ASSUME DropsLast(cts, pcl, m, c.key), cts2[m.node] = cts[m.node],
             NEW f \in DOMAIN cts2, NEW d, Lt(p2, m.node, f), Leads(cts2[f], LastOf(m), d)
      PROVE  d \in DOMAIN cts /\ LeadsFrom(cts, p, m.node, LastOf(m), d)
 <2>1. pcl \in {"adjust", "shift"} /\ cts[m.node] = m.edit BY <1>1 DEF DropsLast
 <2>2. m.node \in DOMAIN cts /\ m.node[1] # 0 BY <2>1, DropsLastIs
 <2>3. LastOf(m) = UpperEnd(cts[m.node]) BY <2>1 DEF LastOf
 <2> QED BY <1>1, <2>2, <2>3 DEF TwinsOK
<1> QED BY <1>1, TwinsStay

LEMMA GoodHolds ==
 ASSUME NEW cts, NEW p, NEW cts2, NEW p2, NEW rt2, Good(cts, p, cts2, p2, rt2),
        NEW rt, TreeInv(cts, rt), NEW pcl, NEW m, NEW c, LocalInv(cts, pcl, m, c),
        Holding(cts, p, pcl, m, c.key)
 PROVE  Holding(cts2, p2, pcl, m, c.key)
<1>1. Safe(cts, p, cts2, p2) /\ HasStays(cts, cts2) /\ TwinsOK(cts, p, cts2, p2) BY DEF Good
<1>2. Sound(cts, p, pcl, m, c.key) /\ CarriesWell(cts, p, At(pcl, m), m) /\ TwinsKeep(cts, p, pcl, m, c.key)
 BY DEF Holding
<1>3. CASE pcl = "idle"
 <2>1. m = NoLocals BY <1>3 DEF LocalInv, Typed
 <2> QED BY <1>3, <2>1, IdleHolds
<1>4. CASE pcl # "idle"
 <2>1. Sound(cts2, p2, pcl, m, c.key) BY <1>1, <1>2, <1>4, SoundStays
 <2>2. CarriesWell(cts2, p2, At(pcl, m), m) BY <1>1, <1>2, <1>4, CarriesWellStays
 <2>3. TwinsKeep(cts2, p2, pcl, m, c.key) BY <1>1, <1>2, GoodTwins
 <2> QED BY <2>1, <2>2, <2>3 DEF Holding
<1> QED BY <1>3, <1>4

Moves(t, l, m, c) ==
    /\ pc' = [pc EXCEPT ![t] = l] /\ my' = [my EXCEPT ![t] = m] /\ call' = [call EXCEPT ![t] = c]
PairsHold(cts, p, t, l, m, key) ==
    \A u \in Threads \ {t} :
        /\ SlidesKeep(cts, p, l, m, key, At(pc[u], my[u]), my[u])
        /\ SlidesKeep(cts, p, pc[u], my[u], call[u].key, At(l, m), m)

LEMMA StepHolds ==
 ASSUME MultiwayInv, NEW p, CallsSound(contents, p), NEW t \in Threads,
        NEW p2, OrderInv(contents', p2, root'), Safe(contents, p, contents', p2),
        \A u \in Threads \ {t} : Holding(contents', p2, pc[u], my[u], call[u].key),
        NEW l, NEW m, NEW c, Moves(t, l, m, c), Holding(contents', p2, l, m, c.key),
        PairsHold(contents', p2, t, l, m, c.key)
 PROVE  MultiwayOrder'
<1>1. TreeInv(contents, root) /\ \A u \in Threads : LocalInv(contents, pc[u], my[u], call[u])
 BY DEF MultiwayInv, AllLocalInv
<1>2. DOMAIN pc = Threads /\ DOMAIN my = Threads /\ DOMAIN call = Threads
 BY DEF MultiwayInv, OthersInv, Abstract!SetTypeOK
<1>3. /\ \A u \in Threads \ {t} : pc'[u] = pc[u] /\ my'[u] = my[u] /\ call'[u] = call[u]
      /\ pc'[t] = l /\ my'[t] = m /\ call'[t] = c
 BY <1>2 DEF Moves
<1>4. \A u \in Threads : Sound(contents, p, pc[u], my[u], call[u].key) BY DEF CallsSound
<1>5. ASSUME NEW u \in Threads, NEW w \in Threads
      PROVE  SlidesKeep(contents', p2, pc'[u], my'[u], call'[u].key, At(pc'[w], my'[w]), my'[w])
 <2>1. CASE u = t /\ w = t
  <3>1. ~(l \in {"adjust", "shift"} /\ At(l, m) \in Sliding) BY DEF At, Sliding
  <3> QED BY <1>3, <2>1, <3>1 DEF SlidesKeep, DropsLast
 <2>2. CASE u = t /\ w # t BY <1>3, <2>2 DEF PairsHold
 <2>3. CASE u # t /\ w = t BY <1>3, <2>3 DEF PairsHold
 <2>4. CASE u # t /\ w # t
  <3>1. SlidesKeep(contents, p, pc[u], my[u], call[u].key, At(pc[w], my[w]), my[w])
   BY DEF CallsSound
  <3>2. CASE pc[w] = "idle"
   <4>1. At(pc[w], my[w]) \notin Sliding BY <3>2 DEF At, Sliding
   <4> QED BY <1>3, <2>4, <4>1 DEF SlidesKeep
  <3>3. CASE pc[w] # "idle"
   <4>1. SlidesKeep(contents', p2, pc[u], my[u], call[u].key, At(pc[w], my[w]), my[w])
    BY <1>1, <1>4, <3>1, <3>3, SlidesKeepStays
   <4> QED BY <1>3, <2>4, <4>1
  <3> QED BY <3>2, <3>3
 <2> QED BY <2>1, <2>2, <2>3, <2>4
<1>6. ASSUME NEW u \in Threads
      PROVE  Holding(contents', p2, pc'[u], my'[u], call'[u].key)
 BY <1>3
<1>7. CallsSound(contents, p2)' BY <1>5, <1>6 DEF CallsSound, Holding
<1> QED BY <1>7 DEF MultiwayOrder

(* Where a call relies on nothing that others wait for. *)
Base == {"idle", "root", "growRead", "grow", "scan", "visit", "walk", "insert", "remove", "split", "raise", "done"}
Alone(cts, p, l, m, key) ==
    Holding(cts, p, l, m, key) /\ l \notin {"adjust", "shift"} /\ At(l, m) \notin Sliding

LEMMA AlonePairs ==
 ASSUME NEW cts, NEW p, NEW l, NEW m, NEW key, Alone(cts, p, l, m, key), NEW t
 PROVE  PairsHold(cts, p, t, l, m, key)
 BY DEF Alone, PairsHold, SlidesKeep, DropsLast

LEMMA BaseAlone ==
 ASSUME NEW cts, NEW p, NEW l, NEW m, NEW key, l # "push", At(l, m) \in Base, OnWay(cts, p, m, key),
        At(l, m) = "visit" /\ m.height = 0 => BarrierHolds(cts, p, m.node, m.barrier),
        At(l, m) = "raise" => Low(cts, p, m.right, key)
 PROVE  Alone(cts, p, l, m, key)
<1>1. l \notin {"adjust", "shift"} /\ At(l, m) \notin Sliding BY DEF At, Base, Sliding
<1>2. CarriesWell(cts, p, At(l, m), m) /\ TwinsKeep(cts, p, l, m, key)
 BY <1>1 DEF CarriesWell, TwinsKeep, DropsLast
<1>3. PICK a : a = At(l, m) OBVIOUS
<1>4. /\ a \notin {"link", "linkRead"} /\ a \notin {"sibling", "nephew", "shiftNephew", "slide", "unslide"}
      /\ a \notin {"adjust", "shift"} /\ a # "cleanAgain"
 BY <1>3 DEF Base
<1>5. Sound(cts, p, l, m, key) BY <1>3, <1>4 DEF Sound
<1> QED BY <1>1, <1>2, <1>5 DEF Alone, Holding

LEMMA GoodStep ==
 ASSUME MultiwayInv, NEW p, CallsSound(contents, p), NEW t \in Threads,
        NEW p2, Good(contents, p, contents', p2, root'),
        NEW l, NEW m, NEW c, Moves(t, l, m, c), Alone(contents', p2, l, m, c.key)
 PROVE  MultiwayOrder'
<1>1. TreeInv(contents, root) /\ \A u \in Threads : LocalInv(contents, pc[u], my[u], call[u])
 BY DEF MultiwayInv, AllLocalInv
<1>2. OrderInv(contents', p2, root') /\ Safe(contents, p, contents', p2) BY DEF Good
<1>3. ASSUME NEW u \in Threads \ {t}
      PROVE  Holding(contents', p2, pc[u], my[u], call[u].key)
 <2>1. Holding(contents, p, pc[u], my[u], call[u].key) BY DEF CallsSound, Holding
 <2> QED BY <1>1, <2>1, GoodHolds
<1>4. Holding(contents', p2, l, m, c.key) /\ PairsHold(contents', p2, t, l, m, c.key)
 BY AlonePairs DEF Alone
<1> QED BY <1>2, <1>3, <1>4, StepHolds

LEMMA SameStep ==
 ASSUME MultiwayInv, NEW p, OrderInv(contents, p, root), CallsSound(contents, p), NEW t \in Threads,
        UNCHANGED shared, NEW l, NEW m, NEW c, Moves(t, l, m, c),
        Holding(contents, p, l, m, c.key), PairsHold(contents, p, t, l, m, c.key)
 PROVE  MultiwayOrder'
<1>1. TreeInv(contents, root) /\ \A u \in Threads : LocalInv(contents, pc[u], my[u], call[u])
 BY DEF MultiwayInv, AllLocalInv
<1>2. contents' = contents /\ root' = root BY DEF shared
<1>3. Good(contents, p, contents, p, root) BY <1>1, SameIsGood
<1>4. \A u \in Threads \ {t} : Holding(contents, p, pc[u], my[u], call[u].key)
 BY DEF CallsSound, Holding
<1>5. OrderInv(contents', p, root') /\ Safe(contents, p, contents', p) BY <1>2, <1>3 DEF Good
<1>6. /\ \A u \in Threads \ {t} : Holding(contents', p, pc[u], my[u], call[u].key)
      /\ Holding(contents', p, l, m, c.key) /\ PairsHold(contents', p, t, l, m, c.key)
 BY <1>2, <1>4
<1> QED BY <1>5, <1>6, StepHolds

LEMMA QuietMove ==
 ASSUME MultiwayInv, NEW p, OrderInv(contents, p, root), CallsSound(contents, p), NEW t \in Threads,
        UNCHANGED shared, NEW l, NEW m, NEW c, Moves(t, l, m, c), Alone(contents, p, l, m, c.key)
 PROVE  MultiwayOrder'
<1>1. Holding(contents, p, l, m, c.key) /\ PairsHold(contents, p, t, l, m, c.key)
 BY AlonePairs DEF Alone
<1> QED BY <1>1, SameStep

(* The search goes on where the key may be. *)
LEMMA ChildLow ==
 ASSUME NEW cts, NEW p, NEW rt, TreeInv(cts, rt), OrderInv(cts, p, rt), NEW key \in Keys,
        NEW n \in DOMAIN cts, n[1] # 0, Low(cts, p, n, key - 1), NEW c, c = cts[n], ~Beyond(c, key)
 PROVE  Low(cts, p, ChildFor(c, key), key - 1)
<1>1. PICK D, l : D = DOMAIN cts /\ l = n[1] OBVIOUS
<1>2. l \in Nat /\ Shape(D, l, c) /\ D \in SUBSET Names /\ Numbered(cts, p) /\ AllEnd(cts)
      /\ ItemsLead(cts, p) /\ Ends(c)
 BY <1>1, OrderRows DEF OrderInv
<1>3. key \in Int /\ EMPTY < key /\ EMPTY \in Int OBVIOUS
<1>4. PICK i : i = Index(c, key) OBVIOUS
<1>5. /\ c.items \in Seq(Item) /\ ItemsOK(c) /\ Len(c.items) \in Nat
      /\ \A j \in 1 .. Len(c.items) : c.items[j] \in Int
      /\ \A j, k \in 1 .. Len(c.items) : j < k => c.items[j] < c.items[k]
 BY <1>2, ShapeFacts
<1>6. /\ i \in 1 .. Len(c.items)
      /\ \A j \in 1 .. Len(c.items) : j < i <=> c.items[j] < key
 BY <1>3, <1>4, <1>5, IndexFacts, BeyondFacts
<1>7. PICK w, d : w = c.items[i] /\ d = c.children[i] OBVIOUS
<1>8. Leads(c, w, d) /\ Holds(c, w) /\ ChildFor(c, key) = d /\ w \in Int
 BY <1>4, <1>5, <1>6, <1>7 DEF Leads, Holds, ChildFor
<1>9. Promise(cts, p, l, w, d) BY <1>1, <1>8 DEF OrderInv, ChildrenLead
<1>10. ASSUME NEW x \in DOMAIN cts, Lt(p, x, d)
       PROVE  UpperEnd(cts[x]) <= key - 1
 <2>1. UpperEnd(cts[x]) \in Int BY <1>2 DEF AllEnd, Ends
 <2>2. Bounded(cts, l, UpperEnd(cts[x]), w) BY <1>9, <1>10 DEF Promise
 <2>3. CASE UpperEnd(cts[x]) <= EMPTY BY <1>3, <2>1, <2>3
 <2>4. CASE ~(UpperEnd(cts[x]) <= EMPTY)
  <3>1. PICK e \in Item : Has(cts, l, e) /\ e < w /\ UpperEnd(cts[x]) <= e BY <2>2, <2>4 DEF Bounded
  <3>2. PICK f \in DOMAIN cts : f[1] = l /\ Holds(cts[f], e) BY <3>1 DEF Has
  <3>3. e \in Int /\ Full(cts[f]) /\ e <= UpperEnd(cts[f]) /\ UpperEnd(cts[f]) \in Int
   BY <1>2, <3>2 DEF AllEnd, Ends
  <3>4. e <= key - 1
   <4>1. CASE f = n
    <5>1. PICK j \in 1 .. Len(c.items) : c.items[j] = e BY <3>2, <4>1 DEF Holds
    <5>2. ~(i < j) /\ j # i
     <6>1. i < j => w < e BY <1>5, <1>6, <1>7, <5>1
     <6>2. i = j => w = e BY <1>7, <5>1
     <6> QED BY ONLY <1>8, <3>1, <3>3, <6>1, <6>2
    <5>3. i \in Int /\ j \in Int BY <1>5, <1>6
    <5>4. j < i BY ONLY <5>2, <5>3
    <5>5. e < key BY <1>6, <5>1, <5>4
    <5> QED BY ONLY <1>3, <3>3, <5>5
   <4>2. CASE Lt(p, f, n)
    <5>1. UpperEnd(cts[f]) <= key - 1 BY <4>2 DEF Low
    <5> QED BY ONLY <1>3, <3>3, <5>1
   <4>3. CASE Lt(p, n, f)
    <5>1. UpperEnd(c) <= e BY <1>2, <3>2, <3>3, <4>3, ItemsAscend
    <5>2. w <= UpperEnd(c) /\ UpperEnd(c) \in Int BY <1>2, <1>8 DEF Ends
    <5> QED BY ONLY <1>8, <3>1, <3>3, <5>1, <5>2
   <4> QED BY <1>1, <1>2, <3>2, <4>1, <4>2, <4>3, RowFacts
  <3> QED BY ONLY <1>3, <2>1, <3>1, <3>3, <3>4
 <2> QED BY <2>3, <2>4
<1> QED BY <1>8, <1>10 DEF Low

LEMMA LinkLow ==
 ASSUME NEW cts, NEW p, NEW rt, TreeInv(cts, rt), OrderInv(cts, p, rt), NEW v \in Int, EMPTY <= v,
        NEW n \in DOMAIN cts, Low(cts, p, n, v), UpperEnd(cts[n]) <= v, NEW k, k = cts[n].link, k # NoNode
 PROVE  Low(cts, p, k, v)
<1>1. k \in DOMAIN cts /\ k[1] = n[1] /\ Numbered(cts, p) /\ AllEnd(cts) /\ LinkOn(cts, p, n, k)
 BY LinkIn, OrderRows
<1>2. ASSUME NEW x \in DOMAIN cts, Lt(p, x, k)
      PROVE  UpperEnd(cts[x]) <= v
 <2>1. x[1] = n[1] BY <1>1, <1>2 DEF Lt
 <2>2. CASE Lt(p, x, n) BY <2>2 DEF Low
 <2>3. CASE x = n BY <2>3
 <2>4. CASE Lt(p, n, x)
  <3>1. ~Full(cts[x]) BY <1>1, <1>2, <2>4 DEF LinkOn
  <3>2. UpperEnd(cts[x]) <= EMPTY /\ UpperEnd(cts[x]) \in Int /\ EMPTY \in Int
   BY <1>1, <3>1 DEF AllEnd, Ends
  <3> QED BY ONLY <3>2, v \in Int, EMPTY <= v
 <2> QED BY <1>1, <2>1, <2>2, <2>3, <2>4, RowFacts
<1> QED BY <1>2 DEF Low

-----------------------------------------------------------------------------
(* Where the steps lead. *)
ResultsLow(cts, p, r, key) ==
    \A i \in DOMAIN r : r[i].node # NoNode => r[i].node \in DOMAIN cts /\ Low(cts, p, r[i].node, key - 1)
Goes(t, cts, p) ==
    \E l, m : /\ pc' = [pc EXCEPT ![t] = l] /\ my' = [my EXCEPT ![t] = m]
              /\ Alone(cts, p, l, m, call[t].key)

LEMMA GoOnGoes ==
 ASSUME NEW cts, NEW p, NEW t \in Threads, my[t] \in LocalsSet, NEW label \in {"visit", "scan"},
        NEW node \in Names, NEW barrier \in Int, GoOn(t, label, node, barrier),
        ResultsLow(cts, p, my[t].results, call[t].key), Low(cts, p, node, call[t].key - 1),
        label = "visit" /\ my[t].height = 0 => BarrierHolds(cts, p, node, barrier)
 PROVE  Goes(t, cts, p)
<1>1. PICK o : o = Outer(t) OBVIOUS
<1>2. o \in LocalsSet /\ o.height = my[t].height /\ o.results = my[t].results BY <1>1, OuterIs
<1>3. PICK m : m = [o EXCEPT !.node = node, !.barrier = barrier] OBVIOUS
<1>4. m.node = node /\ m.barrier = barrier /\ m.height = my[t].height /\ m.results = my[t].results
 <2>1. m.node = node /\ m.barrier = barrier /\ m.height = o.height /\ m.results = o.results
  BY <1>2, <1>3 DEF LocalsSet
 <2> QED BY <1>2, <2>1
<1>5. pc' = [pc EXCEPT ![t] = label] /\ my' = [my EXCEPT ![t] = m]
 BY <1>1, <1>3 DEF GoOn, GoTo, Become
<1>6. OnWay(cts, p, m, call[t].key) BY <1>4 DEF OnWay, ResultsLow
<1>7. label # "push" /\ At(label, m) = label /\ label \in Base BY DEF At, Base
<1>8. Alone(cts, p, label, m, call[t].key) BY <1>4, <1>6, <1>7, BaseAlone
<1> QED BY <1>5, <1>8 DEF Goes

LEMMA SamaritanGoes ==
 ASSUME NEW cts, NEW p, NEW t \in Threads, my[t] \in LocalsSet, NEW from, NEW c, SamaritanReturns(t, from, c),
        my[t].results \in [0 .. my[t].height -> SearchSet], my[t].level \in Nat,
        OnWay(cts, p, my[t], call[t].key), my[t].node \in DOMAIN cts, my[t].node # NoNode,
        ChildFor(from, call[t].key) \in Names, Low(cts, p, ChildFor(from, call[t].key), call[t].key - 1)
 PROVE  Goes(t, cts, p)
<1>1. PICK o, v, key : o = Outer(t) /\ v = my[t] /\ key = call[t].key OBVIOUS
<1>2. o \in LocalsSet /\ o.height = v.height /\ o.results = v.results /\ v \in LocalsSet
 BY <1>1, OuterIs
<1>3. PICK child, level : child = ChildFor(from, key) /\ level = v.level OBVIOUS
<1>4. PICK s : s = Search(v.node, c) OBVIOUS
<1>5. PICK r : r = IF level <= v.height THEN [v.results EXCEPT ![level] = s] ELSE v.results OBVIOUS
<1>6. PICK a : a = [o EXCEPT !.node = child] OBVIOUS
<1>7. a \in LocalsSet /\ a.node = child
 <2>1. child \in NodeOrNone BY <1>1, <1>3 DEF NodeOrNone
 <2> QED BY <1>2, <1>6, <2>1 DEF LocalsSet
<1>8. PICK b, k : b = [a EXCEPT !.level = k] /\ k = level - 1 OBVIOUS
<1>9. b.node = child BY <1>7, <1>8 DEF LocalsSet
<1>10. PICK m : m = [b EXCEPT !.results = r] OBVIOUS
<1>11. m.node = child /\ m.results = r
 <2>1. DOMAIN a = DOMAIN NoLocals /\ DOMAIN NoLocals = DOMAIN b
  BY <1>7, <1>8 DEF LocalsSet, NoLocals
 <2> QED BY <1>7, <1>8, <1>9, <1>10, <2>1 DEF LocalsSet
<1>12. pc' = [pc EXCEPT ![t] = "walk"] /\ my' = [my EXCEPT ![t] = m]
 <2>1. m = [o EXCEPT !.node = child, !.level = level - 1, !.results = r] BY <1>6, <1>8, <1>10
 <2>2. r = IF level <= v.height THEN [o.results EXCEPT ![level] = s] ELSE o.results BY <1>2, <1>5
 <2> QED BY <1>1, <1>3, <1>4, <2>1, <2>2 DEF SamaritanReturns, GoTo, Become, Key, Height
<1>13. ResultsLow(cts, p, r, key)
 <2>1. ResultsLow(cts, p, v.results, key) /\ Low(cts, p, v.node, key - 1) /\ v.node \in DOMAIN cts
  BY <1>1 DEF OnWay, ResultsLow
 <2>2. s.node = v.node BY <1>4 DEF Search
 <2>3. PICK w : w = v.results OBVIOUS
 <2>4. \A i \in DOMAIN r : i \in DOMAIN w /\ (r[i] = s \/ r[i] = w[i]) BY <1>5, <2>3
 <2> QED BY <2>1, <2>2, <2>3, <2>4 DEF ResultsLow
<1>14. OnWay(cts, p, m, key) BY <1>1, <1>3, <1>11, <1>13 DEF OnWay, ResultsLow
<1>15. At("walk", m) = "walk" /\ "walk" \in Base BY DEF At, Base
<1>16. Alone(cts, p, "walk", m, key) BY <1>14, <1>15, BaseAlone
<1> QED BY <1>1, <1>12, <1>16 DEF Goes

LEMMA NowhereAlone ==
 ASSUME NEW cts, NEW p, NEW l \in {"idle", "done"}, NEW key
 PROVE  Alone(cts, p, l, NoLocals, key)
<1>1. NoLocals.node = NoNode /\ NoLocals.results = <<>> /\ At(l, NoLocals) = l /\ l \in Base
 BY DEF NoLocals, At, Base
<1>2. OnWay(cts, p, NoLocals, key)
 <2>1. DOMAIN NoLocals.results = {} BY <1>1
 <2> QED BY <1>1, <2>1 DEF OnWay
<1> QED BY <1>1, <1>2, BaseAlone

LEMMA LevelDoneGoes ==
 ASSUME NEW cts, NEW p, NEW t \in Threads, my[t] \in LocalsSet, NEW h, h = my[t].height, h \in Nat,
        NEW level \in Nat, level = my[t].level, level < h,
        NEW r \in [0 .. h -> SearchSet], LevelDone(t, r), ResultsLow(cts, p, r, call[t].key)
 PROVE  Goes(t, cts, p)
<1>1. CASE level + 1 = h
 <2>1. pc' = [pc EXCEPT ![t] = "done"] /\ my' = [my EXCEPT ![t] = NoLocals]
  BY <1>1 DEF LevelDone, GoTo, Become
 <2> QED BY <2>1, NowhereAlone DEF Goes
<1>2. CASE level + 1 # h
 <2>1. PICK g, s : g = level + 1 /\ s = r[g] OBVIOUS
 <2>2. g \in 0 .. h /\ g \in Nat BY <2>1
 <2>3. s \in SearchSet BY <2>1, <2>2
 <2>4. PICK o : o = Outer(t) OBVIOUS
 <2>5. o \in LocalsSet BY <2>4, OuterIs
 <2>6. PICK a, b, d, m : /\ a = [o EXCEPT !.level = g] /\ b = [a EXCEPT !.results = r]
                         /\ d = [b EXCEPT !.node = s.node] /\ m = [d EXCEPT !.cts = s.cts]
  OBVIOUS
 <2>7. a \in LocalsSet BY <2>2, <2>5, <2>6 DEF LocalsSet
 <2>8. b \in LocalsSet /\ b.results = r
  <3>1. r \in {<<>>} \cup UNION {[0 .. k -> SearchSet] : k \in Nat} BY ResultsTyped
  <3> QED BY <2>6, <2>7, <3>1 DEF LocalsSet
 <2>9. d \in LocalsSet /\ d.results = r /\ d.node = s.node
  <3>1. s.node \in NodeOrNone BY <2>3 DEF SearchSet
  <3> QED BY <2>6, <2>8, <3>1 DEF LocalsSet
 <2>10. m.results = r /\ m.node = s.node BY <2>6, <2>9 DEF LocalsSet
 <2>11. pc' = [pc EXCEPT ![t] = "split"] /\ my' = [my EXCEPT ![t] = m]
  <3>1. m = [o EXCEPT !.level = level + 1, !.results = r, !.node = s.node, !.cts = s.cts]
   BY <2>1, <2>6
  <3> QED BY <1>2, <2>1, <2>4, <3>1 DEF LevelDone, GoTo, Become
 <2>12. OnWay(cts, p, m, call[t].key) BY <2>1, <2>2, <2>10 DEF OnWay, ResultsLow
 <2>13. At("split", m) = "split" /\ "split" \in Base BY DEF At, Base
 <2>14. Alone(cts, p, "split", m, call[t].key) BY <2>12, <2>13, BaseAlone
 <2> QED BY <2>11, <2>14 DEF Goes
<1> QED BY <1>1, <1>2

-----------------------------------------------------------------------------
(* The steps, one by one. *)
Ordered(p) == MultiwayInv /\ OrderInv(contents, p, root) /\ CallsSound(contents, p)
Mine(t, p, m, key) ==
    /\ TreeInv(contents, root) /\ OrderInv(contents, p, root) /\ DOMAIN contents \in SUBSET Names
    /\ m \in LocalsSet /\ m.results \in [0 .. m.height -> SearchSet]
    /\ m.height \in Nat /\ m.level \in Nat /\ m.barrier \in Int
    /\ key \in Keys /\ key \in Int /\ key - 1 \in Int /\ EMPTY < key /\ EMPTY <= key - 1 /\ EMPTY \in Int
    /\ OnWay(contents, p, m, key) /\ ResultsLow(contents, p, m.results, key)
    /\ m.node # NoNode => Low(contents, p, m.node, key - 1)
    /\ Sound(contents, p, pc[t], m, key)
    /\ Going(DOMAIN contents, m, call[t]) /\ Placed(contents, pc[t], m, call[t])

LEMMA MineHere ==
 ASSUME NEW p, Ordered(p), NEW t \in Threads, pc[t] # "idle", pc[t] # "done",
        NEW m, m = my[t], NEW key, key = call[t].key
 PROVE  Mine(t, p, m, key)
<1>1. MultiwayInv /\ OrderInv(contents, p, root) /\ CallsSound(contents, p) BY DEF Ordered
<1>2. /\ Going(DOMAIN contents, m, call[t]) /\ Placed(contents, pc[t], m, call[t])
      /\ key \in Keys /\ key \in Int /\ EMPTY \in Int /\ EMPTY < key /\ TreeInv(contents, root)
 BY <1>1, CallFacts
<1>3. DOMAIN contents \in SUBSET Names /\ m \in LocalsSet /\ m.results \in [0 .. m.height -> SearchSet]
 BY <1>2 DEF Going
<1>4. m.height \in Nat /\ m.level \in Nat /\ m.barrier \in Int BY <1>3 DEF LocalsSet
<1>5. key - 1 \in Int /\ EMPTY <= key - 1 BY ONLY <1>2
<1>6. Sound(contents, p, pc[t], m, key) BY <1>1 DEF CallsSound
<1>7. OnWay(contents, p, m, key) BY <1>6 DEF Sound
<1>8. ResultsLow(contents, p, m.results, key) /\ (m.node # NoNode => Low(contents, p, m.node, key - 1))
 BY <1>7 DEF OnWay, ResultsLow
<1> QED BY <1>1, <1>2, <1>3, <1>4, <1>5, <1>6, <1>7, <1>8 DEF Mine

LEMMA SameCallMoves ==
 ASSUME MultiwayInv, NEW t \in Threads, UNCHANGED call, NEW l, NEW m,
        pc' = [pc EXCEPT ![t] = l], my' = [my EXCEPT ![t] = m]
 PROVE  Moves(t, l, m, call[t])
<1>1. call \in [Threads -> Abstract!SetCalls \cup {Abstract!NoCall}]
 BY DEF MultiwayInv, OthersInv, Abstract!SetTypeOK
<1>2. call' = [call EXCEPT ![t] = call[t]] BY <1>1, UnchangedAsExcept
<1> QED BY <1>2 DEF Moves

LEMMA QuietGoes ==
 ASSUME NEW p, Ordered(p), NEW t \in Threads, UNCHANGED shared, UNCHANGED call, Goes(t, contents, p)
 PROVE  MultiwayOrder'
<1>1. MultiwayInv /\ OrderInv(contents, p, root) /\ CallsSound(contents, p) BY DEF Ordered
<1>2. PICK l, m : /\ pc' = [pc EXCEPT ![t] = l] /\ my' = [my EXCEPT ![t] = m]
                  /\ Alone(contents, p, l, m, call[t].key)
 BY DEF Goes
<1>3. Moves(t, l, m, call[t]) BY <1>1, <1>2, SameCallMoves
<1> QED BY <1>1, <1>2, <1>3, QuietMove

LEMMA GoodGoes ==
 ASSUME NEW p, Ordered(p), NEW t \in Threads, NEW p2, Good(contents, p, contents', p2, root'),
        UNCHANGED call, Goes(t, contents', p2)
 PROVE  MultiwayOrder'
<1>1. MultiwayInv /\ OrderInv(contents, p, root) /\ CallsSound(contents, p) BY DEF Ordered
<1>2. PICK l, m : /\ pc' = [pc EXCEPT ![t] = l] /\ my' = [my EXCEPT ![t] = m]
                  /\ Alone(contents', p2, l, m, call[t].key)
 BY DEF Goes
<1>3. Moves(t, l, m, call[t]) BY <1>1, <1>2, SameCallMoves
<1> QED BY <1>1, <1>2, <1>3, GoodStep

(* A call stays where it is, or goes where it relies on what is known. *)
LEMMA StaysGoes ==
 ASSUME NEW cts, NEW p, MultiwayInv, NEW t \in Threads, NEW l, GoTo(t, l), UNCHANGED my,
        l # "push", At(l, my[t]) \in Base, OnWay(cts, p, my[t], call[t].key),
        At(l, my[t]) = "visit" /\ my[t].height = 0 => BarrierHolds(cts, p, my[t].node, my[t].barrier),
        At(l, my[t]) = "raise" => Low(cts, p, my[t].right, call[t].key)
 PROVE  Goes(t, cts, p)
<1>1. my \in [Threads -> LocalsSet] BY DEF MultiwayInv, OthersInv
<1>2. my' = [my EXCEPT ![t] = my[t]] BY <1>1, UnchangedAsExcept
<1>3. Alone(cts, p, l, my[t], call[t].key) BY BaseAlone
<1> QED BY <1>2, <1>3 DEF Goes, GoTo

LEMMA BecomesGoes ==
 ASSUME NEW cts, NEW p, MultiwayInv, NEW t \in Threads, NEW m, Become(t, m), UNCHANGED pc,
        pc[t] # "push", At(pc[t], m) \in Base \ {"visit"}, OnWay(cts, p, m, call[t].key),
        At(pc[t], m) = "raise" => Low(cts, p, m.right, call[t].key)
 PROVE  Goes(t, cts, p)
<1>1. pc \in [Threads -> Labels] BY DEF MultiwayInv, OthersInv
<1>2. pc' = [pc EXCEPT ![t] = pc[t]] BY <1>1, UnchangedAsExcept
<1>3. Alone(cts, p, pc[t], m, call[t].key) BY BaseAlone
<1> QED BY <1>2, <1>3 DEF Goes, Become

LEMMA RootIsLow ==
 ASSUME NEW cts, NEW p, NEW rt, OrderInv(cts, p, rt), NEW v
 PROVE  Low(cts, p, rt.node, v)
 BY DEF OrderInv, RootLeads, Low

LEMMA AtRootGoes ==
 ASSUME NEW p, Ordered(p), NEW t \in Threads, pc[t] # "idle", pc[t] # "done",
        NEW l \in {"walk", "grow"}, GoTo(t, l), Become(t, AtRoot(t))
 PROVE  Goes(t, contents, p)
<1>1. PICK m, key : m = my[t] /\ key = call[t].key OBVIOUS
<1>2. Mine(t, p, m, key) BY <1>1, MineHere
<1>3. PICK n, h : n = root.node /\ h = root.height OBVIOUS
<1>4. n \in Names /\ n \in DOMAIN contents /\ h \in Nat /\ m \in LocalsSet /\ OrderInv(contents, p, root)
 BY <1>2, <1>3, NodeRead DEF Mine, TreeInv
<1>5. PICK v : v = [m EXCEPT !.node = n, !.level = h] OBVIOUS
<1>6. v.node = n /\ v.results = m.results BY <1>4, <1>5 DEF LocalsSet
<1>7. Low(contents, p, n, key - 1) BY <1>3, <1>4, RootIsLow
<1>8. OnWay(contents, p, v, key) BY <1>2, <1>4, <1>6, <1>7 DEF OnWay, Mine, ResultsLow
<1>9. At(l, v) = l /\ l \in Base /\ l # "push" /\ l # "visit" /\ l # "raise" BY DEF At, Base
<1>10. Alone(contents, p, l, v, key) BY <1>8, <1>9, BaseAlone
<1>11. pc' = [pc EXCEPT ![t] = l] /\ my' = [my EXCEPT ![t] = v]
 BY <1>1, <1>3, <1>5 DEF GoTo, Become, AtRoot
<1> QED BY <1>1, <1>10, <1>11 DEF Goes

LEMMA ReadRootOrders ==
 ASSUME NEW p, Ordered(p), NEW t \in Threads, ReadRoot(t)
 PROVE  MultiwayOrder'
<1>1. pc[t] = "root" /\ UNCHANGED <<shared, history, bounds>> BY DEF ReadRoot
<1>2. PICK m, key : m = my[t] /\ key = call[t].key OBVIOUS
<1>3. Mine(t, p, m, key) /\ MultiwayInv BY <1>1, <1>2, MineHere DEF Ordered
<1>4. UNCHANGED shared /\ UNCHANGED call BY <1>1 DEF history
<1>5. CASE m.height = 0
 <2>1. PICK label, n : label = (IF call[t].op = "contains" THEN "scan" ELSE "visit") /\ n = root.node
  OBVIOUS
 <2>2. GoOn(t, label, n, EMPTY) /\ label \in {"visit", "scan"}
  BY <1>2, <1>5, <2>1 DEF ReadRoot, Height
 <2>3. n \in Names /\ Low(contents, p, n, key - 1) BY <1>3, <2>1, RootIsLow DEF Mine, TreeInv
 <2>4. BarrierHolds(contents, p, n, EMPTY) /\ EMPTY \in Int BY <1>3 DEF BarrierHolds, Mine
 <2>5. m \in LocalsSet /\ ResultsLow(contents, p, m.results, key) BY <1>3 DEF Mine
 <2>6. Goes(t, contents, p) BY <1>2, <2>2, <2>3, <2>4, <2>5, GoOnGoes
 <2> QED BY <1>4, <2>6, QuietGoes
<1>6. CASE m.height # 0 /\ root.height < m.height
 <2>1. GoTo(t, "growRead") /\ UNCHANGED my BY <1>2, <1>6 DEF ReadRoot, Height
 <2>2. At("growRead", m) = "growRead" /\ "growRead" \in Base BY DEF At, Base
 <2>3. OnWay(contents, p, m, key) BY <1>3 DEF Mine
 <2>4. Goes(t, contents, p) BY <1>2, <1>3, <2>1, <2>2, <2>3, StaysGoes
 <2> QED BY <1>4, <2>4, QuietGoes
<1>7. CASE m.height # 0 /\ ~(root.height < m.height)
 <2>1. GoTo(t, "walk") /\ Become(t, AtRoot(t)) BY <1>2, <1>7 DEF ReadRoot, Height, AtRoot
 <2>2. Goes(t, contents, p) BY <1>1, <2>1, AtRootGoes
 <2> QED BY <1>4, <2>2, QuietGoes
<1> QED BY <1>5, <1>6, <1>7

LEMMA GrowReadOrders ==
 ASSUME NEW p, Ordered(p), NEW t \in Threads, GrowRead(t)
 PROVE  MultiwayOrder'
<1>1. pc[t] = "growRead" /\ UNCHANGED <<shared, history, bounds>> BY DEF GrowRead
<1>2. UNCHANGED shared /\ UNCHANGED call BY <1>1 DEF history
<1>3. PICK label : label = IF root.height < my[t].height THEN "grow" ELSE "walk" OBVIOUS
<1>4. label \in {"walk", "grow"} /\ GoTo(t, label) /\ Become(t, AtRoot(t))
 BY <1>3 DEF GrowRead, Height, AtRoot
<1>5. Goes(t, contents, p) BY <1>1, <1>4, AtRootGoes
<1> QED BY <1>2, <1>5, QuietGoes

LEMMA GrowOrders ==
 ASSUME NEW p, Ordered(p), NEW t \in Threads, Grow(t), MultiwayInv'
 PROVE  MultiwayOrder'
<1>1. PICK m, key, n, l, new : m = my[t] /\ key = call[t].key /\ n = m.node /\ l = m.level /\ new = NewName(l + 1)
 OBVIOUS
<1>2. PICK c, rt2, cts2 : /\ c = Contents(<<INF>>, <<n>>, NoNode) /\ rt2 = [node |-> new, height |-> l + 1]
                          /\ cts2 = Adding(contents, new, c)
 OBVIOUS
<1>3. /\ pc[t] = "grow" /\ GoTo(t, "growRead") /\ UNCHANGED <<my, history, bounds>>
      /\ IF root = [node |-> n, height |-> l] THEN contents' = cts2 /\ root' = rt2
         ELSE UNCHANGED shared
 BY <1>1, <1>2 DEF Grow
<1>4. Mine(t, p, m, key) /\ MultiwayInv /\ UNCHANGED call /\ UNCHANGED my
 BY <1>1, <1>3, MineHere DEF Ordered, history
<1>5. At("growRead", m) = "growRead" /\ "growRead" \in Base /\ OnWay(contents, p, m, key)
 BY <1>4 DEF At, Base, Mine
<1>6. CASE root # [node |-> n, height |-> l]
 <2>1. UNCHANGED shared BY <1>3, <1>6
 <2>2. Goes(t, contents, p) BY <1>1, <1>3, <1>4, <1>5, StaysGoes
 <2> QED BY <1>4, <2>1, <2>2, QuietGoes
<1>7. CASE root = [node |-> n, height |-> l]
 <2>1. contents' = cts2 /\ root' = rt2 /\ root.node = n /\ root.height = l BY <1>3, <1>7
 <2>2. TreeInv(contents, root) /\ OrderInv(contents, p, root) /\ l \in Nat /\ TreeInv(cts2, rt2)
  BY <1>1, <1>4, <2>1 DEF Mine, MultiwayInv
 <2>3. new \notin DOMAIN contents /\ new \in Names /\ new[1] = l + 1
  <3>1. PICK k : k = l + 1 OBVIOUS
  <3>2. k \in Nat /\ DOMAIN contents \in SUBSET Names /\ IsFiniteSet(DOMAIN contents)
   BY <2>2, <3>1 DEF TreeInv
  <3> QED BY <1>1, <3>1, <3>2, NewNamesAreNew
 <2>4. /\ DOMAIN cts2 = DOMAIN contents \cup {new} /\ cts2[new] = c
       /\ \A x \in DOMAIN contents : cts2[x] = contents[x]
  BY <1>2, <2>3 DEF Adding
 <2>5. PICK rt : rt = root OBVIOUS
 <2>6. \E p2 : Good(contents, p, cts2, p2, rt2) BY <1>2, <2>1, <2>2, <2>3, <2>4, <2>5, GrowGood
 <2>7. PICK p2 : Good(contents, p, cts2, p2, rt2) BY <2>6
 <2>8. OnWay(cts2, p2, m, key)
  <3>1. m.node \in DOMAIN contents \cup {NoNode} /\ key \in Int BY <1>4 DEF Mine, Going
  <3>2. Safe(contents, p, cts2, p2) BY <2>7 DEF Good
  <3> QED BY <1>5, <3>1, <3>2, OnWayStays
 <2>9. Goes(t, cts2, p2) BY <1>1, <1>3, <1>4, <1>5, <2>8, StaysGoes
 <2> QED BY <1>4, <2>1, <2>7, <2>9, GoodGoes
<1> QED BY <1>6, <1>7

LEMMA BeyondLow ==
 ASSUME NEW cts, NEW p, NEW rt, TreeInv(cts, rt), OrderInv(cts, p, rt), NEW key \in Keys,
        NEW n \in DOMAIN cts, Low(cts, p, n, key - 1), NEW c, c = cts[n], Beyond(c, key)
 PROVE  /\ UpperEnd(c) <= key - 1 /\ UpperEnd(c) < key /\ UpperEnd(c) \in Int
        /\ c.link # NoNode /\ c.link \in DOMAIN cts /\ c.link \in Names /\ c.link[1] = n[1]
        /\ Low(cts, p, c.link, key - 1)
<1>1. key \in Int /\ EMPTY < key /\ EMPTY \in Int OBVIOUS
<1>2. PICK D, l : D = DOMAIN cts /\ l = n[1] OBVIOUS
<1>3. D \in SUBSET Names /\ l \in Nat /\ Shape(D, l, c) BY <1>2, NodeRead
<1>4. c.link # NoNode BY <1>3, BeyondHasLink
<1>5. c.link \in DOMAIN cts /\ c.link \in Names /\ c.link[1] = n[1] BY <1>4, LinkIn
<1>6. c.items = <<>> \/ Last(c.items) < key BY <1>1, <1>3, ShapeFacts, BeyondFacts
<1>7. UpperEnd(c) \in Int /\ UpperEnd(c) < key
 <2>1. UpperEnd(c) \in Int /\ (c.items # <<>> => UpperEnd(c) = Last(c.items))
       /\ (c.items = <<>> => UpperEnd(c) = EMPTY)
  BY <1>3, UpperEndOf
 <2> QED BY <1>1, <1>6, <2>1
<1>8. UpperEnd(c) <= key - 1 /\ key - 1 \in Int /\ EMPTY <= key - 1 BY ONLY <1>1, <1>7
<1>9. PICK v, k : v = key - 1 /\ k = c.link OBVIOUS
<1>10. Low(cts, p, k, v) BY <1>4, <1>8, <1>9, LinkLow
<1> QED BY <1>4, <1>5, <1>7, <1>8, <1>9, <1>10

(* When the last call returns the nodes that can be reached are kept. *)
Remembers(cts, cts2, rt) ==
    /\ DOMAIN cts2 \subseteq DOMAIN cts /\ rt.node \in DOMAIN cts2 /\ Closed(cts, DOMAIN cts2)
    /\ \A n \in DOMAIN cts2 : /\ cts2[n].items = cts[n].items /\ cts2[n].children = cts[n].children
                               /\ cts2[n].link = cts[n].link

LEMMA ForgetIs ==
 ASSUME TreeInv(contents, root), NEW cts2, cts2 = Forget(contents)
 PROVE  Remembers(contents, cts2, root)
<1>1. PICK R : R = Reachable(contents) OBVIOUS
<1>2. R \subseteq DOMAIN contents /\ root.node \in R /\ Closed(contents, R)
 <2>1. PICK D : D = DOMAIN contents OBVIOUS
 <2>2. D \in SUBSET Names /\ IsFiniteSet(D) /\ root.node \in D BY <2>1 DEF TreeInv
 <2>3. Closed(contents, D)
  <3> SUFFICES ASSUME NEW n \in D
               PROVE  /\ contents[n].link # NoNode => contents[n].link \in D
                      /\ \A d \in ToSet(contents[n].children) : d # NoNode => d \in D
   BY DEF Closed
  <3>1. PICK c, l : c = contents[n] /\ l = n[1] OBVIOUS
  <3>2. Shape(D, l, c) /\ l \in Nat BY <2>1, <3>1, NodeRead
  <3>3. c.link # NoNode => c.link \in D BY <3>2 DEF Shape, LinkOK, On
  <3>4. ASSUME NEW d \in ToSet(c.children), d # NoNode PROVE d \in D
   <4>1. ChildrenOK(D, l, c) BY <3>2 DEF Shape
   <4>2. c.children \in Seq(Names \cup {NoNode}) BY <3>2 DEF Shape, ContentsSet
   <4>3. PICK i \in 1 .. Len(c.children) : d = c.children[i] BY <3>4, <4>2 DEF ToSet
   <4>4. l # 0 BY <3>4, <4>1, <4>3 DEF ChildrenOK, NoChildren
   <4> QED BY <4>1, <4>3, <4>4 DEF ChildrenOK, On
  <3> QED BY <3>1, <3>3, <3>4
 <2> QED BY <1>1, <2>1, <2>2, <2>3, ReachableIsClosed
<1>3. cts2 = [n \in R |-> Forgotten(contents[n])] BY <1>1, Zenon DEF Forget, Forgotten
<1>4. /\ DOMAIN cts2 = R
      /\ \A n \in R : /\ cts2[n].items = contents[n].items /\ cts2[n].children = contents[n].children
                      /\ cts2[n].link = contents[n].link
 <2>1. ASSUME NEW n \in R
       PROVE  /\ cts2[n].items = contents[n].items /\ cts2[n].children = contents[n].children
              /\ cts2[n].link = contents[n].link
  <3>1. PICK c, e : c = contents[n] /\ e = Forgotten(c) OBVIOUS
  <3>2. c \in ContentsSet BY <1>2, <3>1, NodeRead DEF Shape
  <3>3. e.items = c.items /\ e.children = c.children /\ e.link = c.link
   BY <3>1, <3>2 DEF ContentsSet, Forgotten
  <3> QED BY <1>3, <3>1, <3>3
 <2> QED BY <1>3, <2>1
<1> QED BY <1>2, <1>4 DEF Remembers

LEMMA ReturnOrders ==
 ASSUME NEW p, Ordered(p), NEW t \in Threads, NEW r, Return(t, r)
 PROVE  MultiwayOrder'
<1>1. MultiwayInv /\ OrderInv(contents, p, root) /\ CallsSound(contents, p) /\ TreeInv(contents, root)
 BY DEF Ordered, MultiwayInv
<1>2. /\ pc' = [pc EXCEPT ![t] = "idle"] /\ my' = [my EXCEPT ![t] = NoLocals]
      /\ call' = [call EXCEPT ![t] = NoCall]
 BY DEF Return, GoTo, Become
<1>3. CASE ~(\A u \in Threads \ {t} : pc[u] = "idle")
 <2>1. UNCHANGED shared BY <1>3, Zenon DEF Return
 <2>2. PICK c : c = NoCall OBVIOUS
 <2>3. Moves(t, "idle", NoLocals, c) BY <1>2, <2>2 DEF Moves
 <2>4. Alone(contents, p, "idle", NoLocals, c.key) BY NowhereAlone
 <2> QED BY <1>1, <2>1, <2>3, <2>4, QuietMove
<1>4. CASE \A u \in Threads \ {t} : pc[u] = "idle"
 <2>1. PICK cts2 : cts2 = Forget(contents) OBVIOUS
 <2>2. contents' = cts2 /\ root' = root BY <1>4, <2>1, Zenon DEF Return
 <2>3. PICK R : R = DOMAIN cts2 OBVIOUS
 <2>4. /\ R \subseteq DOMAIN contents /\ root.node \in R /\ Closed(contents, R) /\ DOMAIN cts2 = R
       /\ \A n \in R : /\ cts2[n].items = contents[n].items /\ cts2[n].children = contents[n].children
                       /\ cts2[n].link = contents[n].link
  BY <1>1, <2>1, <2>3, ForgetIs DEF Remembers
 <2>5. PICK p2 : OrderInv(cts2, p2, root)
  <3>1. PICK cts, rt : cts = contents /\ rt = root OBVIOUS
  <3> QED BY <1>1, <2>4, <3>1, ForgetOrder
 <2>6. \A u \in Threads : pc'[u] = "idle" /\ my'[u] = NoLocals
  <3>1. pc \in [Threads -> Labels] /\ my \in [Threads -> LocalsSet]
   BY <1>1 DEF MultiwayInv, OthersInv
  <3>2. ASSUME NEW u \in Threads \ {t} PROVE pc[u] = "idle" /\ my[u] = NoLocals
   <4>1. LocalInv(contents, pc[u], my[u], call[u]) BY <1>1 DEF MultiwayInv, AllLocalInv
   <4> QED BY <1>4, <4>1 DEF LocalInv, Typed
  <3> QED BY <1>2, <3>1, <3>2
 <2>7. \A u \in Threads : /\ Holding(cts2, p2, pc'[u], my'[u], call'[u].key)
                          /\ At(pc'[u], my'[u]) = "idle"
  BY <2>6, IdleHolds DEF At
 <2>8. CallsSound(contents, p2)' BY <2>2, <2>7 DEF CallsSound, Holding, SlidesKeep, Sliding
 <2> QED BY <2>2, <2>5, <2>8 DEF MultiwayOrder
<1> QED BY <1>3, <1>4

LEMMA DoneOrders ==
 ASSUME NEW p, Ordered(p), NEW t \in Threads, Done(t) \/ AddFindsKey(t) \/ RemoveMissesKey(t)
 PROVE  MultiwayOrder'
 BY ReturnOrders DEF Done, AddFindsKey, RemoveMissesKey

LEMMA ScanOrders ==
 ASSUME NEW p, Ordered(p), NEW t \in Threads, Scan(t)
 PROVE  MultiwayOrder'
<1>1. PICK m, key, n, c : m = my[t] /\ key = call[t].key /\ n = m.node /\ c = contents[n] OBVIOUS
<1>2. pc[t] = "scan" BY DEF Scan
<1>3. Mine(t, p, m, key) /\ MultiwayInv BY <1>1, <1>2, MineHere DEF Ordered
<1>4. /\ TreeInv(contents, root) /\ OrderInv(contents, p, root) /\ key \in Keys /\ m \in LocalsSet
      /\ n \in DOMAIN contents /\ ResultsLow(contents, p, m.results, key) /\ EMPTY \in Int
 BY <1>1, <1>2, <1>3 DEF Mine, Placed
<1>5. n[1] \in Nat /\ n # NoNode /\ Shape(DOMAIN contents, n[1], c) /\ DOMAIN contents \in SUBSET Names
 BY <1>1, <1>4, NodeRead
<1>6. Low(contents, p, n, key - 1) BY <1>1, <1>3, <1>5 DEF Mine
<1>7. CASE Beyond(c, key)
 <2>1. GoOn(t, "scan", c.link, EMPTY) /\ UNCHANGED <<shared, history, bounds>>
  BY <1>1, <1>7 DEF Scan, Key
 <2>2. c.link \in Names /\ Low(contents, p, c.link, key - 1) BY <1>1, <1>4, <1>6, <1>7, BeyondLow
 <2>3. Goes(t, contents, p) BY <1>1, <1>4, <2>1, <2>2, GoOnGoes
 <2> QED BY <2>1, <2>3, QuietGoes DEF history
<1>8. CASE ~Beyond(c, key) /\ ~IsLeaf(c)
 <2>1. GoOn(t, "scan", ChildFor(c, key), EMPTY) /\ UNCHANGED <<shared, history, bounds>>
  BY <1>1, <1>8 DEF Scan, Key
 <2>2. n[1] # 0 BY <1>5, <1>8, ShapeFacts
 <2>3. ChildFor(c, key) \in Names BY <1>4, <1>5, <1>8, <2>2, ChildIsOn DEF On, HasPlace
 <2>4. Low(contents, p, ChildFor(c, key), key - 1) BY <1>1, <1>4, <1>6, <1>8, <2>2, ChildLow
 <2>5. Goes(t, contents, p) BY <1>1, <1>4, <2>1, <2>3, <2>4, GoOnGoes
 <2> QED BY <2>1, <2>5, QuietGoes DEF history
<1>9. CASE ~Beyond(c, key) /\ IsLeaf(c)
 <2>1. Return(t, Found(c, key)) BY <1>1, <1>9 DEF Scan, Key
 <2> QED BY <2>1, ReturnOrders
<1> QED BY <1>7, <1>8, <1>9

LEMMA VisitLeafOrders ==
 ASSUME NEW p, Ordered(p), NEW t \in Threads, VisitLeaf(t)
 PROVE  MultiwayOrder'
<1>1. PICK m, key, n, c : m = my[t] /\ key = call[t].key /\ n = m.node /\ c = contents[n] OBVIOUS
<1>2. PICK l : l = IF Removing(t) THEN "remove" ELSE "insert" OBVIOUS
<1>3. /\ pc[t] = "visit" /\ UNCHANGED <<shared, history, bounds>>
      /\ GoTo(t, l) /\ Become(t, AtTheLeaf(Outer(t), n, c))
 BY <1>1, <1>2, Zenon DEF VisitLeaf, AtTheLeaf, Key
<1>4. Mine(t, p, m, key) /\ MultiwayInv BY <1>1, <1>3, MineHere DEF Ordered
<1>5. /\ TreeInv(contents, root) /\ m \in LocalsSet /\ n \in DOMAIN contents /\ OnWay(contents, p, m, key)
 BY <1>1, <1>3, <1>4 DEF Mine, Placed
<1>6. n \in Names /\ c \in ContentsSet BY <1>1, <1>5, NodeRead DEF Shape
<1>7. PICK o, v : o = Outer(t) /\ v = AtTheLeaf(o, n, c) OBVIOUS
<1>8. o \in LocalsSet /\ o.results = m.results BY <1>1, <1>5, <1>7, OuterIs
<1>9. v.node = n /\ v.results = m.results BY <1>6, <1>7, <1>8 DEF AtTheLeaf, LocalsSet, NodeOrNone
<1>10. OnWay(contents, p, v, key) BY <1>1, <1>5, <1>9 DEF OnWay
<1>11. l # "push" /\ At(l, v) = l /\ l \in Base /\ l # "visit" /\ l # "raise" BY <1>2 DEF At, Base
<1>12. Alone(contents, p, l, v, key) BY <1>10, <1>11, BaseAlone
<1>13. Goes(t, contents, p) BY <1>1, <1>3, <1>7, <1>12 DEF Goes, GoTo, Become
<1> QED BY <1>3, <1>13, QuietGoes DEF history

LEMMA ForwardOrders ==
 ASSUME NEW p, Ordered(p), NEW t \in Threads, NEW then \in {"insert", "remove", "split", "raise"},
        pc[t] = then, Forward(t, then)
 PROVE  MultiwayOrder'
<1>1. PICK m, key : m = my[t] /\ key = call[t].key OBVIOUS
<1>2. PICK v : v = Forwarded(m, then) OBVIOUS
<1>3. GoTo(t, "forward") /\ Become(t, v) /\ UNCHANGED <<shared, history, bounds>>
 BY <1>1, <1>2, Zenon DEF Forward, Forwarded
<1>4. Mine(t, p, m, key) /\ MultiwayInv BY <1>1, MineHere DEF Ordered
<1>5. m \in LocalsSet /\ OnWay(contents, p, m, key) /\ Sound(contents, p, then, m, key)
 BY <1>4 DEF Mine
<1>6. v.node = m.node /\ v.results = m.results /\ v.right = m.right /\ v.then = then
 BY <1>2, <1>5, EmptyIsTyped DEF Forwarded, LocalsSet
<1>7. OnWay(contents, p, v, key) BY <1>5, <1>6 DEF OnWay
<1>8. At("forward", v) = then /\ then \in Base /\ then # "visit" /\ At(then, m) = then
 BY <1>6 DEF At, Base
<1>9. then = "raise" => Low(contents, p, v.right, key) BY <1>5, <1>6, <1>8 DEF Sound
<1>10. Alone(contents, p, "forward", v, key) BY <1>7, <1>8, <1>9, BaseAlone
<1>11. Goes(t, contents, p) BY <1>1, <1>3, <1>10 DEF Goes, GoTo, Become
<1> QED BY <1>3, <1>11, QuietGoes DEF history

LEMMA FailsOrders ==
 ASSUME NEW p, Ordered(p), NEW t \in Threads,
        InsertFails(t) \/ RemoveFails(t) \/ SplitFails(t) \/ RaiseFails(t)
 PROVE  MultiwayOrder'
<1>1. CASE InsertFails(t) BY <1>1, ForwardOrders DEF InsertFails
<1>2. CASE RemoveFails(t) BY <1>2, ForwardOrders DEF RemoveFails
<1>3. CASE SplitFails(t) BY <1>3, ForwardOrders DEF SplitFails
<1>4. CASE RaiseFails(t) BY <1>4, ForwardOrders DEF RaiseFails
<1> QED BY <1>1, <1>2, <1>3, <1>4

LEMMA MoveForwardOrders ==
 ASSUME NEW p, Ordered(p), NEW t \in Threads, MoveForward(t)
 PROVE  MultiwayOrder'
<1>1. PICK m, key, n, c : m = my[t] /\ key = call[t].key /\ n = m.node /\ c = contents[n] OBVIOUS
<1>2. pc[t] = "forward" /\ UNCHANGED <<shared, history, bounds>> BY DEF MoveForward
<1>3. Mine(t, p, m, key) /\ MultiwayInv BY <1>1, <1>2, MineHere DEF Ordered
<1>4. /\ m \in LocalsSet /\ OnWay(contents, p, m, key) /\ Sound(contents, p, "forward", m, key)
      /\ TreeInv(contents, root) /\ OrderInv(contents, p, root) /\ key \in Keys
      /\ Placed(contents, "forward", m, call[t])
 BY <1>2, <1>3 DEF Mine
<1>5. PICK l : l = m.then OBVIOUS
<1>6. l \in {"insert", "remove", "split", "raise"} /\ At("forward", m) = l
 BY <1>4, <1>5 DEF Placed, At
<1>7. n \in DOMAIN contents
 <2>1. CASE l \in {"insert", "remove"} BY <1>1, <1>4, <1>6, <2>1 DEF Placed, AtLeaf, On
 <2>2. CASE l \in {"split", "raise"} BY <1>1, <1>4, <1>6, <2>2 DEF Placed, AtIndex, On
 <2> QED BY <1>6, <2>1, <2>2
<1>8. n # NoNode /\ c \in ContentsSet BY <1>1, <1>4, <1>7, NodeRead DEF Shape
<1>9. Low(contents, p, n, key - 1) BY <1>1, <1>4, <1>8 DEF OnWay
<1>10. l = "raise" => Low(contents, p, m.right, key) BY <1>4, <1>6 DEF Sound
<1>11. l \in Base /\ l # "push" /\ l # "visit" BY <1>6 DEF Base
<1>12. CASE Beyond(c, key)
 <2>1. PICK v : v = [m EXCEPT !.node = c.link] OBVIOUS
 <2>2. Become(t, v) /\ UNCHANGED pc BY <1>1, <1>12, <2>1 DEF MoveForward, Key
 <2>3. c.link \in Names /\ Low(contents, p, c.link, key - 1)
  BY <1>1, <1>4, <1>7, <1>9, <1>12, BeyondLow
 <2>4. v.node = c.link /\ v.results = m.results /\ v.right = m.right /\ v.then = m.then
  BY <1>4, <2>1, <2>3 DEF LocalsSet, NodeOrNone
 <2>5. OnWay(contents, p, v, key) BY <1>4, <2>3, <2>4 DEF OnWay
 <2>6. At("forward", v) = l BY <1>5, <2>4 DEF At
 <2>7. Goes(t, contents, p) BY <1>1, <1>2, <1>3, <1>10, <1>11, <2>2, <2>4, <2>5, <2>6, BecomesGoes
 <2> QED BY <1>2, <2>7, QuietGoes DEF history
<1>13. CASE ~Beyond(c, key)
 <2>1. PICK v : v = Resumed(m, c) OBVIOUS
 <2>2. GoTo(t, l) /\ Become(t, v) BY <1>1, <1>5, <1>13, <2>1, Zenon DEF MoveForward, Key, Resumed
 <2>3. v.node = n /\ v.results = m.results /\ v.right = m.right
  BY <1>1, <1>4, <1>8, <2>1 DEF LocalsSet, Resumed
 <2>4. OnWay(contents, p, v, key) BY <1>1, <1>4, <2>3 DEF OnWay
 <2>5. At(l, v) = l BY <1>6 DEF At
 <2>6. Alone(contents, p, l, v, key) BY <1>10, <1>11, <2>3, <2>4, <2>5, BaseAlone
 <2>7. Goes(t, contents, p) BY <1>1, <2>2, <2>6 DEF Goes, GoTo, Become
 <2> QED BY <1>2, <2>7, QuietGoes DEF history
<1> QED BY <1>12, <1>13

LEMMA StartOrders ==
 ASSUME NEW p, Ordered(p), NEW t \in Threads, NEW c, NEW height, Start(t, c, height)
 PROVE  MultiwayOrder'
<1>1. PICK m, key : m = StartLocals(height) /\ key = c.key OBVIOUS
<1>2. /\ pc' = [pc EXCEPT ![t] = "root"] /\ my' = [my EXCEPT ![t] = m]
      /\ call' = [call EXCEPT ![t] = c] /\ UNCHANGED shared
 BY <1>1, Zenon DEF Start, GoTo, Become, StartLocals
<1>3. Moves(t, "root", m, c) BY <1>2 DEF Moves
<1>4. m.node = NoNode /\ m.results = [i \in 0 .. height |-> NoSearch]
 BY <1>1 DEF StartLocals, NoLocals
<1>5. OnWay(contents, p, m, key) BY <1>4 DEF OnWay, NoSearch, Search
<1>6. At("root", m) = "root" /\ "root" \in Base BY DEF At, Base
<1>7. Alone(contents, p, "root", m, c.key) BY <1>1, <1>5, <1>6, BaseAlone
<1> QED BY <1>2, <1>3, <1>7, QuietMove DEF Ordered

(* A step that replaces the contents of one node. *)
Replaced(n, new, cts2) ==
    /\ contents' = cts2 /\ root' = root /\ UNCHANGED call
    /\ OneNode(contents, cts2, n, new) /\ TreeInv(cts2, root)

LEMMA ReplacedIs ==
 ASSUME NEW t, NEW n \in DOMAIN contents, NEW c, NEW new, NEW parts, Replace(t, n, c, new, parts), MultiwayInv'
 PROVE  \E cts2 : Replaced(n, new, cts2)
<1>1. PICK cts2 : cts2 = [contents EXCEPT ![n] = new] OBVIOUS
<1>2. contents' = cts2 /\ root' = root /\ UNCHANGED call BY <1>1, Zenon DEF Replace, ReplaceIn
<1>3. OneNode(contents, cts2, n, new) BY <1>1, OneNodeIs
<1>4. TreeInv(cts2, root) BY <1>2 DEF MultiwayInv
<1> QED BY <1>2, <1>3, <1>4 DEF Replaced

(* What a call relies on where it is stays when contents are replaced. *)
MineStill(m, key, cts2, p, p2) ==
    /\ OnWay(cts2, p2, m, key) /\ ResultsLow(cts2, p2, m.results, key)
    /\ \A n \in DOMAIN contents, v \in Int : Low(contents, p, n, v) => Low(cts2, p2, n, v)

LEMMA MineAfter ==
 ASSUME NEW p, NEW t, NEW m, NEW key, Mine(t, p, m, key), NEW cts2, NEW p2, Safe(contents, p, cts2, p2)
 PROVE  MineStill(m, key, cts2, p, p2)
<1>1. m.node \in DOMAIN contents \cup {NoNode} /\ key \in Int /\ OnWay(contents, p, m, key)
 BY DEF Mine, Going
<1>2. PICK cts : cts = contents OBVIOUS
<1>3. OnWay(cts2, p2, m, key) BY <1>1, OnWayStays
<1>4. ResultsLow(cts2, p2, m.results, key) BY <1>3 DEF OnWay, ResultsLow
<1>5. \A n \in DOMAIN contents, v \in Int : Low(contents, p, n, v) => Low(cts2, p2, n, v)
 BY <1>2, SafeFacts
<1> QED BY <1>3, <1>4, <1>5 DEF MineStill

LEMMA RemoveItemOrders ==
 ASSUME NEW p, Ordered(p), NEW t \in Threads, RemoveItem(t), MultiwayInv'
 PROVE  MultiwayOrder'
<1>1. PICK m, key, n, c : m = my[t] /\ key = call[t].key /\ n = m.node /\ c = m.cts OBVIOUS
<1>2. PICK i, v, new, rt : i = Index(c, key) /\ v = c.items[i] /\ new = Removed(c, i) /\ rt = root
 OBVIOUS
<1>3. /\ pc[t] = "remove" /\ Found(c, key) /\ CanReplace(n, c)
      /\ Replace(t, n, c, new, {"keys", "children"}) /\ GoTo(t, "done") /\ Become(t, NoLocals)
 BY <1>1, <1>2 DEF RemoveItem, Key
<1>4. PICK D, l : D = DOMAIN contents /\ l = 0 OBVIOUS
<1>5. MultiwayInv /\ OrderInv(contents, p, rt) BY <1>2 DEF Ordered
<1>6. /\ TreeInv(contents, rt) /\ key \in Keys /\ n \in D /\ n[1] = 0 /\ HasPlace(D, l, c, key) /\ D \in SUBSET Names
 BY <1>1, <1>2, <1>3, <1>4, <1>5, AtLeafFacts
<1>7. i \in 1 .. Len(c.items) BY <1>2, <1>3, <1>4, <1>6, FoundIsNotLast DEF HasPlace
<1>8. PICK cts2 : Replaced(n, new, cts2) BY <1>3, <1>4, <1>6, ReplacedIs
<1>9. Good(contents, p, cts2, p, rt)
 <2>1. OneNode(contents, cts2, n, new) /\ TreeInv(cts2, rt) /\ c = contents[n]
  BY <1>2, <1>3, <1>8 DEF Replaced, CanReplace
 <2> QED BY <1>2, <1>4, <1>5, <1>6, <1>7, <2>1, TakenGood
<1>10. Alone(cts2, p, "done", NoLocals, key) BY NowhereAlone
<1>11. Goes(t, cts2, p) BY <1>1, <1>3, <1>10 DEF Goes, GoTo, Become
<1>12. contents' = cts2 /\ root' = rt /\ UNCHANGED call BY <1>2, <1>8 DEF Replaced
<1> QED BY <1>9, <1>11, <1>12, GoodGoes

LEMMA InsertOrders ==
 ASSUME NEW p, Ordered(p), NEW t \in Threads, Insert(t), MultiwayInv'
 PROVE  MultiwayOrder'
<1>1. PICK m, key, n, c : m = my[t] /\ key = call[t].key /\ n = m.node /\ c = m.cts OBVIOUS
<1>2. PICK new, rt, label : /\ new = Added(c, Index(c, key), key, NoNode, 1) /\ rt = root
                            /\ label = IF m.height = 0 THEN "done" ELSE "split"
 OBVIOUS
<1>3. PICK v : v = [m EXCEPT !.cts = new] OBVIOUS
<1>4. /\ pc[t] = "insert" /\ ~Found(c, key) /\ CanReplace(n, c)
      /\ Replace(t, n, c, new, {"keys", "children"}) /\ GoTo(t, label) /\ Become(t, v)
 BY <1>1, <1>2, <1>3 DEF Insert, Key
<1>5. Mine(t, p, m, key) /\ MultiwayInv /\ OrderInv(contents, p, rt)
 BY <1>1, <1>2, <1>4, MineHere DEF Ordered
<1>6. /\ TreeInv(contents, rt) /\ key \in Keys /\ n \in DOMAIN contents /\ n[1] = 0
      /\ HasPlace(DOMAIN contents, 0, c, key)
 BY <1>1, <1>2, <1>4, <1>5, AtLeafFacts
<1>7. Low(contents, p, n, key - 1) /\ m \in LocalsSet BY <1>1, <1>5, <1>6, NodeRead DEF Mine
<1>8. PICK cts2 : Replaced(n, new, cts2) BY <1>4, <1>6, ReplacedIs
<1>9. Good(contents, p, cts2, p, rt)
 <2>1. OneNode(contents, cts2, n, new) /\ TreeInv(cts2, rt) /\ c = contents[n]
  BY <1>2, <1>4, <1>8 DEF Replaced, CanReplace
 <2> QED BY <1>2, <1>4, <1>5, <1>6, <1>7, <2>1, InsertGood
<1>10. OnWay(cts2, p, m, key)
 <2>1. Safe(contents, p, cts2, p) BY <1>9 DEF Good
 <2> QED BY <1>5, <2>1, MineAfter DEF MineStill
<1>11. v.node = m.node /\ v.results = m.results BY <1>3, <1>7 DEF LocalsSet
<1>12. OnWay(cts2, p, v, key) BY <1>10, <1>11 DEF OnWay
<1>13. label # "push" /\ At(label, v) = label /\ label \in Base /\ label # "visit" /\ label # "raise"
 BY <1>2 DEF At, Base
<1>14. Alone(cts2, p, label, v, key) BY <1>12, <1>13, BaseAlone
<1>15. Goes(t, cts2, p) BY <1>1, <1>4, <1>14 DEF Goes, GoTo, Become
<1>16. contents' = cts2 /\ root' = rt /\ UNCHANGED call BY <1>2, <1>8 DEF Replaced
<1> QED BY <1>9, <1>15, <1>16, GoodGoes

LEMMA IndexNothingOrders ==
 ASSUME NEW p, Ordered(p), NEW t \in Threads, SplitNothing(t) \/ RaiseNothing(t)
 PROVE  MultiwayOrder'
<1>1. PICK m, key, h, level : m = my[t] /\ key = call[t].key /\ h = m.height /\ level = m.level
 OBVIOUS
<1>2. pc[t] \in {"split", "raise"} /\ LevelDone(t, m.results) /\ UNCHANGED <<shared, history, bounds>>
 BY <1>1 DEF SplitNothing, RaiseNothing
<1>3. Mine(t, p, m, key) /\ MultiwayInv BY <1>1, <1>2, MineHere DEF Ordered
<1>4. level < h BY <1>1, <1>2, <1>3, AtIndexFacts
<1>5. m \in LocalsSet /\ h \in Nat /\ level \in Nat /\ m.results \in [0 .. h -> SearchSet]
      /\ ResultsLow(contents, p, m.results, key)
 BY <1>1, <1>3 DEF Mine
<1>6. Goes(t, contents, p) BY <1>1, <1>2, <1>4, <1>5, LevelDoneGoes
<1> QED BY <1>2, <1>6, QuietGoes DEF history

LEMMA InsertOneLevelOrders ==
 ASSUME NEW p, Ordered(p), NEW t \in Threads, InsertOneLevel(t), MultiwayInv'
 PROVE  MultiwayOrder'
<1>1. PICK m, key, n, c : m = my[t] /\ key = call[t].key /\ n = m.node /\ c = m.cts OBVIOUS
<1>2. PICK i, right, rt, h, level : i = Index(c, key) /\ right = m.right /\ rt = root
                                    /\ h = m.height /\ level = m.level
 OBVIOUS
<1>3. PICK new, up : new = Added(c, i, key, right, i + 1) /\ up = level + 1 OBVIOUS
<1>4. PICK s, r : s = Search(n, new) /\ r = [m.results EXCEPT ![up] = s] OBVIOUS
<1>5. /\ pc[t] = "raise" /\ ~Found(c, key) /\ ~Beyond(c, key) /\ CanReplace(n, c)
      /\ Replace(t, n, c, new, {"keys", "children"}) /\ LevelDone(t, r)
 BY <1>1, <1>2, <1>3, <1>4 DEF InsertOneLevel, Key
<1>6. Mine(t, p, m, key) /\ MultiwayInv /\ OrderInv(contents, p, rt)
 BY <1>1, <1>2, <1>5, MineHere DEF Ordered
<1>7. /\ TreeInv(contents, rt) /\ key \in Keys /\ level < h /\ n \in DOMAIN contents /\ Shape(DOMAIN contents, n[1], c)
      /\ n[1] = up /\ On(DOMAIN contents, right, level)
 BY <1>1, <1>2, <1>3, <1>5, <1>6, AtIndexFacts
<1>8. m \in LocalsSet /\ h \in Nat /\ level \in Nat /\ m.results \in [0 .. h -> SearchSet]
      /\ ResultsLow(contents, p, m.results, key) /\ key \in Int /\ key - 1 \in Int
 BY <1>1, <1>2, <1>6 DEF Mine
<1>9. n[1] # 0 /\ right \in DOMAIN contents /\ HasPlace(DOMAIN contents, n[1], c, key) /\ n # NoNode /\ n \in Names
 <2>1. n # NoNode /\ n \in Names BY <1>7, NodeRead
 <2> QED BY <1>3, <1>5, <1>7, <1>8, <2>1 DEF On, HasPlace
<1>10. Low(contents, p, n, key - 1) /\ Low(contents, p, right, key)
 <2>1. Sound(contents, p, "raise", m, key) BY <1>5, <1>6 DEF Mine
 <2> QED BY <1>1, <1>2, <1>6, <1>9, <2>1 DEF Mine, Sound, At
<1>11. PICK cts2 : Replaced(n, new, cts2) BY <1>5, <1>7, ReplacedIs
<1>12. Good(contents, p, cts2, p, rt)
 <2>1. OneNode(contents, cts2, n, new) /\ TreeInv(cts2, rt) /\ c = contents[n]
  BY <1>2, <1>5, <1>11 DEF Replaced, CanReplace
 <2> QED BY <1>2, <1>3, <1>5, <1>6, <1>7, <1>9, <1>10, <2>1, RaiseGood
<1>13. MineStill(m, key, cts2, p, p) /\ DOMAIN cts2 = DOMAIN contents
 <2>1. Safe(contents, p, cts2, p) BY <1>12 DEF Good
 <2> QED BY <1>6, <1>11, <2>1, MineAfter DEF Replaced, OneNode
<1>14. Low(cts2, p, n, key - 1)
 <2>1. PICK v : v = key - 1 OBVIOUS
 <2> QED BY <1>7, <1>8, <1>10, <1>13, <2>1 DEF MineStill
<1>15. s \in SearchSet /\ s.node = n
 <2>1. new \in ContentsSet
  <3>1. Shape(DOMAIN cts2, n[1], cts2[n]) BY <1>7, <1>11, <1>13, NodeRead DEF Replaced
  <3> QED BY <1>11, <3>1 DEF Replaced, OneNode, Shape
 <2> QED BY <1>4, <1>9, <2>1 DEF Search, SearchSet, NodeOrNone
<1>16. r \in [0 .. h -> SearchSet] /\ \A j \in DOMAIN r : r[j] = s \/ (j \in DOMAIN m.results /\ r[j] = m.results[j])
 BY <1>4, <1>8, <1>15
<1>17. ResultsLow(cts2, p, r, key) BY <1>7, <1>13, <1>14, <1>15, <1>16 DEF ResultsLow, MineStill
<1>18. Goes(t, cts2, p) BY <1>1, <1>2, <1>5, <1>7, <1>8, <1>16, <1>17, LevelDoneGoes
<1>19. contents' = cts2 /\ root' = rt /\ UNCHANGED call BY <1>2, <1>11 DEF Replaced
<1> QED BY <1>12, <1>18, <1>19, GoodGoes

LEMMA SplitOneLevelOrders ==
 ASSUME NEW p, Ordered(p), NEW t \in Threads, SplitOneLevel(t), MultiwayInv'
 PROVE  MultiwayOrder'
<1>1. PICK m, key, n, c : m = my[t] /\ key = call[t].key /\ n = m.node /\ c = m.cts OBVIOUS
<1>2. PICK i, l, rt, D : i = Index(c, key) /\ l = m.level /\ rt = root /\ D = DOMAIN contents
 OBVIOUS
<1>3. PICK right, up : right = NewName(l) /\ up = m.results[l + 1] OBVIOUS
<1>4. PICK part, new : part = RightPart(c, i) /\ new = LeftPart(c, i, right) OBVIOUS
<1>5. PICK cts, cts2 : cts = Adding(contents, right, part) /\ cts2 = [cts EXCEPT ![n] = new] OBVIOUS
<1>6. PICK v : v = SplitLocals(m, up, right) OBVIOUS
<1>7. /\ pc[t] = "split" /\ ~Unsplittable(c, key) /\ CanReplace(n, c)
      /\ ReplaceIn(cts, t, n, c, new, {"keys", "children"}) /\ GoTo(t, "raise") /\ Become(t, v)
 BY <1>1, <1>2, <1>3, <1>4, <1>5, <1>6, Zenon DEF SplitOneLevel, Key, SplitLocals
<1>8. contents' = cts2 /\ root' = rt /\ UNCHANGED call BY <1>2, <1>5, <1>7, Zenon DEF ReplaceIn
<1>9. Mine(t, p, m, key) /\ MultiwayInv /\ OrderInv(contents, p, rt)
 BY <1>1, <1>2, <1>7, MineHere DEF Ordered
<1>10. /\ TreeInv(contents, rt) /\ key \in Keys /\ l < m.height /\ n \in D /\ n[1] = l /\ Shape(D, l, c)
       /\ l \in Nat /\ m.height \in Nat /\ m.results \in [0 .. m.height -> SearchSet]
 BY <1>1, <1>2, <1>7, <1>9, AtIndexFacts
<1>11. D \in SUBSET Names /\ IsFiniteSet(D) BY <1>2, <1>10 DEF TreeInv
<1>12. i \in 1 .. Len(c.items) - 1 BY <1>2, <1>7, <1>10, <1>11, SplittableFacts
<1>13. c.items[i] = key BY <1>2, <1>7 DEF Unsplittable, Found
<1>14. right \notin D /\ right \in Names /\ right[1] = n[1]
 BY <1>2, <1>3, <1>10, <1>11, NewNamesAreNew
<1>15. /\ DOMAIN cts2 = D \cup {right} /\ cts2[n] = new /\ cts2[right] = part
       /\ \A x \in D \ {n} : cts2[x] = contents[x]
 <2>1. DOMAIN cts = D \cup {right} /\ cts[right] = part /\ \A x \in D : cts[x] = contents[x]
  BY <1>2, <1>5, <1>14 DEF Adding
 <2>2. cts = [x \in D \cup {right} |-> cts[x]] BY <1>2, <1>5 DEF Adding
 <2> QED BY <1>5, <1>10, <1>14, <2>1, <2>2
<1>16. TreeInv(cts2, rt) BY <1>8 DEF MultiwayInv
<1>17. PICK p2 : Good(contents, p, cts2, p2, rt) /\ Low(cts2, p2, right, key)
 <2>1. c = contents[n] BY <1>7 DEF CanReplace
 <2>2. /\ n \in DOMAIN contents /\ right \notin DOMAIN contents /\ DOMAIN cts2 = DOMAIN contents \cup {right}
       /\ \A x \in DOMAIN contents \ {n} : cts2[x] = contents[x]
       /\ cts2[n] = LeftPart(c, i, right) /\ cts2[right] = RightPart(c, i)
  BY <1>2, <1>4, <1>10, <1>14, <1>15
 <2>3. SplitAt(contents, cts2, n, right, i, key) BY <1>12, <1>13, <1>14, <2>1, <2>2 DEF SplitAt
 <2>4. SplitDone(contents, p, cts2, rt, right, key) BY <1>9, <1>10, <1>16, <2>3, SplitGood
 <2> QED BY <2>4 DEF SplitDone
<1>18. MineStill(m, key, cts2, p, p2)
 <2>1. Safe(contents, p, cts2, p2) BY <1>17 DEF Good
 <2> QED BY <1>9, <2>1, MineAfter
<1>19. up.node # NoNode => Low(cts2, p2, up.node, key - 1)
 <2>1. PICK k : k = l + 1 OBVIOUS
 <2>2. k \in 0 .. m.height BY <1>10, <2>1
 <2> QED BY <1>3, <1>10, <1>18, <2>1, <2>2 DEF MineStill, ResultsLow
<1>20. v.node = up.node /\ v.results = m.results /\ v.right = right
 <2>1. PICK a, b : a = [m EXCEPT !.node = up.node] /\ b = [a EXCEPT !.cts = up.cts] OBVIOUS
 <2>2. m \in LocalsSet /\ up.node \in NodeOrNone /\ up.cts \in ContentsSet
  <3>1. PICK k : k = l + 1 OBVIOUS
  <3>2. k \in 0 .. m.height BY <1>10, <3>1
  <3>3. up \in SearchSet BY <1>3, <1>10, <3>1, <3>2
  <3> QED BY <1>9, <3>3 DEF Mine, SearchSet
 <2>3. a \in LocalsSet /\ a.node = up.node /\ a.results = m.results BY <2>1, <2>2 DEF LocalsSet
 <2>4. b \in LocalsSet /\ b.node = up.node /\ b.results = m.results
  BY <2>1, <2>2, <2>3 DEF LocalsSet
 <2>5. v = [b EXCEPT !.right = right] BY <1>6, <2>1, <2>2 DEF SplitLocals, LocalsSet
 <2> QED BY <2>4, <2>5 DEF LocalsSet
<1>21. OnWay(cts2, p2, v, key) BY <1>18, <1>19, <1>20 DEF OnWay, MineStill, ResultsLow
<1>22. At("raise", v) = "raise" /\ "raise" \in Base BY DEF At, Base
<1>23. Alone(cts2, p2, "raise", v, key) BY <1>17, <1>20, <1>21, <1>22, BaseAlone
<1>24. Goes(t, cts2, p2) BY <1>1, <1>7, <1>23 DEF Goes, GoTo, Become
<1> QED BY <1>8, <1>17, <1>24, GoodGoes

(* traverseLeaf goes down to the child that it has read. *)
LEMMA DownGoes ==
 ASSUME NEW p, NEW t \in Threads, NEW m, NEW key, m = my[t], key = call[t].key, Mine(t, p, m, key), Down(t),
        NEW cts2, NEW p2, Safe(contents, p, cts2, p2),
        ChildFor(m.cts, key) \in DOMAIN contents, DescendsWell(contents, p, m, key)
 PROVE  Goes(t, cts2, p2)
<1>1. PICK d, v : d = ChildFor(m.cts, key) /\ v = key - 1 OBVIOUS
<1>2. GoOn(t, "visit", d, EMPTY) BY <1>1 DEF Down, Key
<1>3. MineStill(m, key, cts2, p, p2) BY MineAfter
<1>4. v \in Int /\ d \in DOMAIN contents /\ Low(contents, p, d, v) /\ d \in Names /\ m \in LocalsSet /\ EMPTY \in Int
 BY <1>1 DEF DescendsWell, Mine
<1>5. Low(cts2, p2, d, v) BY <1>3, <1>4 DEF MineStill
<1>6. BarrierHolds(cts2, p2, d, EMPTY) BY DEF BarrierHolds
<1>7. ResultsLow(cts2, p2, my[t].results, call[t].key) BY <1>3 DEF MineStill
<1> QED BY <1>1, <1>2, <1>4, <1>5, <1>6, <1>7, GoOnGoes

(* goodSamaritanCleanNeighbor returns. *)
LEMMA SamaritanBack ==
 ASSUME NEW p, NEW t \in Threads, NEW m, NEW key, m = my[t], key = call[t].key, Mine(t, p, m, key),
        NEW from, NEW c, SamaritanReturns(t, from, c), NEW cts2, NEW p2, Safe(contents, p, cts2, p2),
        m.node \in DOMAIN contents, ChildFor(from, key) \in DOMAIN contents,
        Low(contents, p, ChildFor(from, key), key - 1)
 PROVE  Goes(t, cts2, p2)
<1>1. PICK d, v : d = ChildFor(from, key) /\ v = key - 1 OBVIOUS
<1>2. MineStill(m, key, cts2, p, p2) BY MineAfter
<1>3. v \in Int /\ d \in Names /\ m \in LocalsSet /\ m.level \in Nat /\ m.results \in [0 .. m.height -> SearchSet]
 BY <1>1 DEF Mine
<1>4. Low(cts2, p2, d, v) BY <1>1, <1>2, <1>3 DEF MineStill
<1>5. OnWay(cts2, p2, my[t], call[t].key) BY <1>2 DEF MineStill
<1>6. m.node \in DOMAIN cts2 /\ m.node # NoNode
 <2>1. DOMAIN contents \subseteq DOMAIN cts2 BY SafeFacts
 <2>2. m.node # NoNode BY NodeRead DEF Mine
 <2> QED BY <2>1, <2>2
<1> QED BY <1>1, <1>3, <1>4, <1>5, <1>6, SamaritanGoes
=============================================================================
