---------------------- MODULE MultiwaySearchTreeProofs ----------------------
(***************************************************************************)
(* What MultiwaySearchTree keeps for any number of threads, keys and       *)
(* levels: every node has the shape of its level, whoever splits, cleans   *)
(* and slides in it, a node only gives up keys at its end, and contents    *)
(* that share their keys and children give each of them back once.         *)
(***************************************************************************)
EXTENDS MultiwaySearchTree, FiniteSetTheorems, SequenceTheorems, WellFoundedInduction, TLAPS

USE MultiwayAssumption

-----------------------------------------------------------------------------
(* Items ascend; a node of level l has a child of the level below for each *)
(* item, and a link to its level unless it ends with INF.  D is the set of *)
(* nodes.                                                                  *)
Names == Nat \X Nat
Item == Keys \cup {INF}
ContentsSet ==
    [items : Seq(Item), children : Seq(Names \cup {NoNode}), link : Names \cup {NoNode},
     stamp : Nat, keysOf : Nat, childrenOf : Nat]

Ascending(s) == \A i, j \in DOMAIN s : i < j => s[i] < s[j]
On(D, n, l) == n \in D /\ n[1] = l

ItemsOK(c) == Ascending(c.items)
StampsOK(c) == c.keysOf <= c.stamp /\ c.childrenOf <= c.stamp
ChildrenOK(D, l, c) ==
    IF l = 0 THEN c.children = NoChildren
    ELSE /\ Len(c.children) = Len(c.items)
         /\ \A i \in 1 .. Len(c.children) : On(D, c.children[i], l - 1)
LinkOK(D, l, c) ==
    /\ c.link = NoNode <=> c.items # <<>> /\ Last(c.items) = INF
    /\ c.link # NoNode => On(D, c.link, l)
Shape(D, l, c) ==
    c \in ContentsSet /\ ItemsOK(c) /\ StampsOK(c) /\ ChildrenOK(D, l, c) /\ LinkOK(D, l, c)

(* The key has its place in the contents. *)
HasPlace(D, l, c, key) == Shape(D, l, c) /\ ~Beyond(c, key)

-----------------------------------------------------------------------------
(* The array helpers. *)
LEMMA InsertAtFacts ==
 ASSUME NEW S, NEW s \in Seq(S), NEW i \in 1 .. Len(s) + 1, NEW e \in S
 PROVE  /\ InsertAt(s, i, e) \in Seq(S)
        /\ Len(InsertAt(s, i, e)) = Len(s) + 1
        /\ \A j \in 1 .. Len(s) + 1 :
             InsertAt(s, i, e)[j] = IF j < i THEN s[j] ELSE IF j = i THEN e ELSE s[j - 1]
<1>1. Len(s) \in Nat /\ i \in Nat /\ i - 1 \in Int /\ Len(s) \in Int OBVIOUS
<1>2. PICK a : a = SubSeq(s, 1, i - 1) OBVIOUS
<1>3. PICK b : b = SubSeq(s, i, Len(s)) OBVIOUS
<1>4. a \in Seq(S) /\ Len(a) = i - 1 /\ \A j \in 1 .. i - 1 : a[j] = s[j]
 BY <1>1, <1>2, SubSeqProperties
<1>5. b \in Seq(S) /\ Len(b) = Len(s) - i + 1 /\ \A j \in 1 .. Len(s) - i + 1 : b[j] = s[i + j - 1]
 BY <1>1, <1>3, SubSeqProperties
<1>6. PICK d : d = <<e>> OBVIOUS
<1>7. d \in Seq(S) /\ Len(d) = 1 /\ d[1] = e BY <1>6
<1>8. PICK x : x = a \o d OBVIOUS
<1>9. x \in Seq(S) /\ Len(x) = i /\ \A j \in 1 .. i : x[j] = IF j < i THEN s[j] ELSE e
 <2>1. x \in Seq(S) /\ Len(x) = Len(a) + Len(d)
       /\ \A j \in 1 .. Len(a) + Len(d) : x[j] = IF j <= Len(a) THEN a[j] ELSE d[j - Len(a)]
  BY <1>4, <1>7, <1>8, ConcatProperties
 <2>2. Len(x) = i BY <1>1, <1>4, <1>7, <2>1
 <2>3. ASSUME NEW j \in 1 .. i PROVE x[j] = IF j < i THEN s[j] ELSE e
  <3>1. CASE j < i
   <4>1. j \in 1 .. i - 1 /\ j \in 1 .. Len(a) + Len(d) /\ j <= Len(a) BY <1>1, <1>4, <1>7, <3>1
   <4> QED BY <1>4, <2>1, <3>1, <4>1
  <3>2. CASE j = i
   <4>1. x[j] = d[1] BY <1>1, <1>4, <1>7, <2>1, <3>2
   <4> QED BY <1>7, <3>2, <4>1
  <3> QED BY <1>1, <3>1, <3>2
 <2> QED BY <2>1, <2>2, <2>3
<1>10. PICK y : y = x \o b OBVIOUS
<1>11. y \in Seq(S) /\ Len(y) = Len(s) + 1
       /\ \A j \in 1 .. Len(s) + 1 : y[j] = IF j <= i THEN x[j] ELSE b[j - i]
 <2>1. y \in Seq(S) /\ Len(y) = Len(x) + Len(b)
       /\ \A j \in 1 .. Len(x) + Len(b) : y[j] = IF j <= Len(x) THEN x[j] ELSE b[j - Len(x)]
  BY <1>5, <1>9, <1>10, ConcatProperties
 <2>2. Len(x) + Len(b) = Len(s) + 1 BY <1>1, <1>5, <1>9
 <2> QED BY <1>9, <2>1, <2>2
<1>12. ASSUME NEW j \in 1 .. Len(s) + 1
       PROVE  y[j] = IF j < i THEN s[j] ELSE IF j = i THEN e ELSE s[j - 1]
 <2>1. CASE j <= i BY <1>1, <1>9, <1>11, <2>1
 <2>2. CASE j > i
  <3>1. y[j] = b[j - i] /\ j - i \in 1 .. Len(s) - i + 1 BY <1>1, <1>11, <2>2
  <3>2. b[j - i] = s[i + (j - i) - 1] BY <1>5, <3>1
  <3>3. i + (j - i) - 1 = j - 1 BY <1>1
  <3>4. y[j] = s[j - 1] BY <3>1, <3>2, <3>3, Zenon
  <3> QED BY <1>1, <2>2, <3>4
 <2> QED BY <1>1, <2>1, <2>2
<1>13. y = InsertAt(s, i, e) BY <1>2, <1>3, <1>6, <1>8, <1>10 DEF InsertAt
<1> QED BY <1>11, <1>12, <1>13

LEMMA RemoveAtFacts ==
 ASSUME NEW S, NEW s \in Seq(S), NEW i \in 1 .. Len(s)
 PROVE  /\ RemoveAt(s, i) \in Seq(S)
        /\ Len(RemoveAt(s, i)) = Len(s) - 1
        /\ \A j \in 1 .. Len(s) - 1 :
             RemoveAt(s, i)[j] = IF j < i THEN s[j] ELSE s[j + 1]
<1>1. Len(s) \in Nat /\ i \in Nat /\ i - 1 \in Int /\ i + 1 \in Int /\ Len(s) \in Int OBVIOUS
<1>2. PICK a : a = SubSeq(s, 1, i - 1) OBVIOUS
<1>3. PICK b : b = SubSeq(s, i + 1, Len(s)) OBVIOUS
<1>4. a \in Seq(S) /\ Len(a) = i - 1 /\ \A j \in 1 .. i - 1 : a[j] = s[j]
 BY <1>1, <1>2, SubSeqProperties
<1>5. b \in Seq(S) /\ Len(b) = Len(s) - i /\ \A j \in 1 .. Len(s) - i : b[j] = s[i + j]
 BY <1>1, <1>3, SubSeqProperties
<1>6. PICK y : y = a \o b OBVIOUS
<1>7. y \in Seq(S) /\ Len(y) = Len(s) - 1
      /\ \A j \in 1 .. Len(s) - 1 : y[j] = IF j <= i - 1 THEN a[j] ELSE b[j - (i - 1)]
 <2>1. y \in Seq(S) /\ Len(y) = Len(a) + Len(b)
       /\ \A j \in 1 .. Len(a) + Len(b) : y[j] = IF j <= Len(a) THEN a[j] ELSE b[j - Len(a)]
  BY <1>4, <1>5, <1>6, ConcatProperties, Zenon
 <2>2. Len(a) + Len(b) = Len(s) - 1 BY <1>1, <1>4, <1>5
 <2> QED BY <1>4, <2>1, <2>2
<1>8. ASSUME NEW j \in 1 .. Len(s) - 1
      PROVE  y[j] = IF j < i THEN s[j] ELSE s[j + 1]
 <2>1. CASE j < i BY <1>1, <1>4, <1>7, <2>1
 <2>2. CASE j >= i
  <3>1. y[j] = b[j - (i - 1)] /\ j - (i - 1) \in 1 .. Len(s) - i BY ONLY <1>1, <1>7, <2>2
  <3>2. b[j - (i - 1)] = s[i + (j - (i - 1))] BY <1>5, <3>1
  <3>3. i + (j - (i - 1)) = j + 1 BY <1>1
  <3> QED BY <1>1, <2>2, <3>1, <3>2, <3>3
 <2> QED BY <1>1, <2>1, <2>2
<1>9. y = RemoveAt(s, i) BY <1>2, <1>3, <1>6 DEF RemoveAt
<1> QED BY <1>7, <1>8, <1>9

LEMMA ReplaceAtFacts ==
 ASSUME NEW S, NEW s \in Seq(S), NEW i \in 1 .. Len(s), NEW e \in S
 PROVE  /\ ReplaceAt(s, i, e) \in Seq(S)
        /\ Len(ReplaceAt(s, i, e)) = Len(s)
        /\ \A j \in 1 .. Len(s) : ReplaceAt(s, i, e)[j] = IF j = i THEN e ELSE s[j]
 BY ExceptSeq DEF ReplaceAt

LEMMA PartFacts ==
 ASSUME NEW S, NEW s \in Seq(S), NEW i \in 0 .. Len(s)
 PROVE  /\ SubSeq(s, 1, i) \in Seq(S) /\ Len(SubSeq(s, 1, i)) = i
        /\ \A j \in 1 .. i : SubSeq(s, 1, i)[j] = s[j]
        /\ SubSeq(s, i + 1, Len(s)) \in Seq(S) /\ Len(SubSeq(s, i + 1, Len(s))) = Len(s) - i
        /\ \A j \in 1 .. Len(s) - i : SubSeq(s, i + 1, Len(s))[j] = s[i + j]
<1>1. Len(s) \in Nat /\ i \in Nat /\ 1 \in Int /\ i \in Int /\ i + 1 \in Int /\ Len(s) \in Int
 OBVIOUS
<1>2. \A j \in 1 .. i : s[j] \in S BY <1>1
<1>3. \A j \in i + 1 .. Len(s) : s[j] \in S BY <1>1
<1>4. PICK a : a = SubSeq(s, 1, i) OBVIOUS
<1>5. a \in Seq(S) /\ Len(a) = (IF 1 <= i THEN i - 1 + 1 ELSE 0) /\ \A j \in 1 .. i - 1 + 1 : a[j] = s[1 + j - 1]
 BY <1>1, <1>2, <1>4, SubSeqProperties
<1>6. PICK b : b = SubSeq(s, i + 1, Len(s)) OBVIOUS
<1>7. b \in Seq(S) /\ Len(b) = (IF i + 1 <= Len(s) THEN Len(s) - (i + 1) + 1 ELSE 0)
      /\ \A j \in 1 .. Len(s) - (i + 1) + 1 : b[j] = s[i + 1 + j - 1]
 BY <1>1, <1>3, <1>6, SubSeqProperties
<1>8. Len(a) = i /\ \A j \in 1 .. i : a[j] = s[j] BY <1>1, <1>5
<1>9. Len(b) = Len(s) - i /\ \A j \in 1 .. Len(s) - i : b[j] = s[i + j] BY <1>1, <1>7
<1> QED BY <1>4, <1>5, <1>6, <1>7, <1>8, <1>9

-----------------------------------------------------------------------------
(* search. *)
LEMMA LowestNatural ==
 ASSUME NEW T, T \subseteq Nat, T # {}
 PROVE  Min(T) \in T /\ \A y \in T : Min(T) <= y
<1> DEFINE less == {ss \in Nat \X Nat : ss[1] < ss[2]}
<1>1. PICK x \in T : \A y \in T : ~(<<y, x>> \in less)
 <2>1. IsWellFoundedOn(less, Nat) BY NatLessThanWellFounded, Zenon DEF OpToRel
 <2> HIDE DEF less
 <2> QED BY <2>1, WFMin
<1>2. \A y \in T : ~(y < x) BY <1>1
<1>3. \A y \in T : x =< y BY <1>2
<1> QED BY <1>3 DEF Min

LEMMA ItemsAreIntegers ==
    Item \subseteq Int
 BY DEF MultiwayAssumption, Item
LEMMA ItemsUpToINF ==
    INF \in Int /\ \A x \in Item : x <= INF
 BY DEF MultiwayAssumption, Item

(* The items before the index are below the key, and no others. *)
LEMMA IndexFacts ==
 ASSUME NEW c, c.items \in Seq(Item), ItemsOK(c), NEW key \in Int
 PROVE  /\ Index(c, key) \in 1 .. Len(c.items) + 1
        /\ \A j \in 1 .. Len(c.items) : j < Index(c, key) <=> c.items[j] < key
<1>1. PICK s : s = c.items OBVIOUS
<1>2. s \in Seq(Item) /\ Len(s) \in Nat /\ DOMAIN s = 1 .. Len(s) BY <1>1
<1>3. \A j \in 1 .. Len(s) : s[j] \in Int
 <2>1. \A j \in 1 .. Len(s) : s[j] \in Item BY <1>2
 <2> QED BY <2>1, ItemsAreIntegers
<1>4. \A i, j \in 1 .. Len(s) : i < j => s[i] < s[j] BY <1>1, <1>2 DEF ItemsOK, Ascending
<1>5. PICK T : T = {i \in 1 .. Len(s) + 1 : i = Len(s) + 1 \/ ~(s[i] < key)} OBVIOUS
<1>6. PICK m : m = Min(T) OBVIOUS
<1>7. m \in T /\ \A y \in T : m <= y
 <2>1. T \subseteq Nat /\ Len(s) + 1 \in T BY <1>2, <1>5
 <2> QED BY <1>6, <2>1, LowestNatural
<1>8. m \in 1 .. Len(s) + 1 BY <1>5, <1>7
<1>9. \A j \in 1 .. Len(s) : j < m <=> s[j] < key
 <2>1. TAKE j \in 1 .. Len(s)
 <2>2. CASE j < m
  <3>1. j \notin T BY <1>2, <1>7, <1>8, <2>2
  <3> QED BY <1>2, <1>5, <2>2, <3>1
 <2>3. CASE j >= m
  <3>1. m \in 1 .. Len(s) /\ ~(s[m] < key) BY <1>2, <1>5, <1>7, <1>8, <2>3
  <3>2. s[m] <= s[j]
   <4>1. m = j \/ m < j BY <1>8, <2>3
   <4>2. m < j => s[m] < s[j] BY <1>4, <3>1
   <4>3. s[m] \in Int /\ s[j] \in Int BY <1>3, <3>1
   <4> QED BY <4>1, <4>2, <4>3
  <3> QED BY <1>3, <2>3, <3>1, <3>2
 <2> QED BY <1>8, <2>2, <2>3
<1>10. {i \in DOMAIN s : s[i] < key} = 1 .. m - 1 BY <1>2, <1>8, <1>9
<1>11. Cardinality(1 .. m - 1) = m - 1
 <2>1. Cardinality(1 .. m - 1) = IF 1 > m - 1 THEN 0 ELSE m - 1 - 1 + 1
  BY <1>2, <1>8, 1 \in Int, m - 1 \in Int, FS_Interval
 <2> QED BY <1>2, <1>8, <2>1
<1>12. Index(c, key) = m
 <2>1. Index(c, key) = Cardinality({i \in DOMAIN s : s[i] < key}) + 1 BY <1>1 DEF Index
 <2>2. Index(c, key) = m - 1 + 1 BY <1>10, <1>11, <2>1
 <2> QED BY <1>2, <1>8, <2>2
<1> QED BY <1>1, <1>8, <1>9, <1>12

LEMMA BeyondFacts ==
 ASSUME NEW c, c.items \in Seq(Item), ItemsOK(c), NEW key \in Int
 PROVE  /\ Beyond(c, key) <=> (c.items = <<>> \/ Last(c.items) < key)
        /\ ~Beyond(c, key) => /\ Index(c, key) \in 1 .. Len(c.items)
                              /\ c.items[Index(c, key)] >= key
<1>1. PICK s : s = c.items OBVIOUS
<1>2. s \in Seq(Item) /\ Len(s) \in Nat /\ (s = <<>> <=> Len(s) = 0) BY <1>1
<1>3. PICK i : i = Index(c, key) OBVIOUS
<1>4. i \in 1 .. Len(s) + 1 /\ \A j \in 1 .. Len(s) : j < i <=> s[j] < key BY <1>1, <1>3, IndexFacts
<1>5. \A j \in 1 .. Len(s) : s[j] \in Int
 <2>1. \A j \in 1 .. Len(s) : s[j] \in Item BY <1>2
 <2> QED BY <2>1, ItemsAreIntegers
<1>6. Beyond(c, key) <=> i > Len(s) BY <1>1, <1>3 DEF Beyond
<1>7. Beyond(c, key) <=> (s = <<>> \/ s[Len(s)] < key) BY <1>2, <1>4, <1>6
<1>8. ~Beyond(c, key) => i \in 1 .. Len(s) /\ s[i] >= key BY <1>2, <1>4, <1>5, <1>6
<1> QED BY <1>1, <1>3, <1>7, <1>8 DEF Last

(* Found says whether the key is an item. *)
LEMMA FoundFacts ==
 ASSUME NEW c, c.items \in Seq(Item), ItemsOK(c), NEW key \in Int
 PROVE  Found(c, key) <=> \E i \in 1 .. Len(c.items) : c.items[i] = key
<1>1. PICK s : s = c.items OBVIOUS
<1>2. s \in Seq(Item) /\ Len(s) \in Nat BY <1>1
<1>3. PICK i : i = Index(c, key) OBVIOUS
<1>4. i \in 1 .. Len(s) + 1 /\ \A j \in 1 .. Len(s) : j < i <=> s[j] < key BY <1>1, <1>3, IndexFacts
<1>5. \A j \in 1 .. Len(s) : s[j] \in Int
 <2>1. \A j \in 1 .. Len(s) : s[j] \in Item BY <1>2
 <2> QED BY <2>1, ItemsAreIntegers
<1>6. Found(c, key) <=> ~(i > Len(s)) /\ s[i] = key BY <1>1, <1>3 DEF Found, Beyond
<1>7. \A j, k \in 1 .. Len(s) : j < k => s[j] < s[k]
 <2>1. DOMAIN s = 1 .. Len(s) BY <1>2
 <2> QED BY <1>1, <2>1 DEF ItemsOK, Ascending
<1>8. ASSUME NEW j \in 1 .. Len(s), s[j] = key PROVE ~(i > Len(s)) /\ s[i] = key
 <2>1. ~(j < i) BY <1>4, <1>5, <1>8
 <2>2. i \in 1 .. Len(s) /\ ~(s[i] < key) BY <1>2, <1>4, <2>1
 <2>3. i = j BY <1>2, <1>5, <1>7, <1>8, <2>1, <2>2
 <2> QED BY <1>8, <2>2, <2>3
<1>9. ~(i > Len(s)) /\ s[i] = key => \E j \in 1 .. Len(s) : s[j] = key BY <1>2, <1>4
<1> QED BY <1>1, <1>6, <1>8, <1>9

-----------------------------------------------------------------------------
(* The contents that the operators make. *)
Made(items, children, link, stamp, keysOf, childrenOf) ==
    [items |-> items, children |-> children, link |-> link,
     stamp |-> stamp, keysOf |-> keysOf, childrenOf |-> childrenOf]

LEMMA NewContentsAre ==
 ASSUME NEW c \in ContentsSet, NEW items, NEW children, NEW link
 PROVE  /\ WithLink(c, link) = Made(c.items, c.children, link, c.stamp + 1, c.keysOf, c.childrenOf)
        /\ WithChildren(c, children) =
             Made(c.items, children, c.link, c.stamp + 1, c.keysOf, c.stamp + 1)
        /\ WithItems(c, items, children) =
             Made(items, children, c.link, c.stamp + 1, c.stamp + 1, c.stamp + 1)
        /\ [WithItems(c, items, children) EXCEPT !.link = link] =
             Made(items, children, link, c.stamp + 1, c.stamp + 1, c.stamp + 1)
<1>1. c = Made(c.items, c.children, c.link, c.stamp, c.keysOf, c.childrenOf)
 BY DEF ContentsSet, Made
<1>2. Next_(c) = Made(c.items, c.children, c.link, c.stamp + 1, c.keysOf, c.childrenOf)
 BY ONLY <1>1 DEF Next_, Made
<1>3. WithLink(c, link) = Made(c.items, c.children, link, c.stamp + 1, c.keysOf, c.childrenOf)
 BY <1>2 DEF WithLink, Made
<1>4. ASSUME NEW ch
      PROVE  WithChildren(c, ch) = Made(c.items, ch, c.link, c.stamp + 1, c.keysOf, c.stamp + 1)
 <2>1. PICK m : m = [Next_(c) EXCEPT !.children = ch] OBVIOUS
 <2>2. m = Made(c.items, ch, c.link, c.stamp + 1, c.keysOf, c.childrenOf) BY <1>2, <2>1 DEF Made
 <2>3. [m EXCEPT !.childrenOf = c.stamp + 1] = Made(c.items, ch, c.link, c.stamp + 1, c.keysOf, c.stamp + 1)
  BY <2>2 DEF Made
 <2> QED BY <2>1, <2>3 DEF WithChildren
<1>5. WithItems(c, items, children) =
          Made(items, children, c.link, c.stamp + 1, c.stamp + 1, c.stamp + 1)
 <2>1. PICK m : m = [WithChildren(c, children) EXCEPT !.items = items] OBVIOUS
 <2>2. m = Made(items, children, c.link, c.stamp + 1, c.keysOf, c.stamp + 1) BY <1>4, <2>1 DEF Made
 <2>3. [m EXCEPT !.keysOf = c.stamp + 1] = Made(items, children, c.link, c.stamp + 1, c.stamp + 1, c.stamp + 1)
  BY <2>2 DEF Made
 <2> QED BY <2>1, <2>3 DEF WithItems
<1>6. [WithItems(c, items, children) EXCEPT !.link = link] =
          Made(items, children, link, c.stamp + 1, c.stamp + 1, c.stamp + 1)
 BY <1>5 DEF Made
<1> QED BY <1>3, <1>4, <1>5, <1>6

LEMMA MadeShape ==
 ASSUME NEW D \in SUBSET Names, NEW l \in Nat, NEW items \in Seq(Item), NEW children, NEW link,
        NEW stamp \in Nat, NEW keysOf \in 0 .. stamp, NEW childrenOf \in 0 .. stamp,
        Ascending(items),
        l = 0 => children = NoChildren,
        l # 0 => /\ children \in Seq(Names) /\ Len(children) = Len(items)
                 /\ \A i \in 1 .. Len(children) : On(D, children[i], l - 1),
        link = NoNode <=> items # <<>> /\ Last(items) = INF,
        link # NoNode => On(D, link, l)
 PROVE  Shape(D, l, Made(items, children, link, stamp, keysOf, childrenOf))
<1>1. PICK c : c = Made(items, children, link, stamp, keysOf, childrenOf) OBVIOUS
<1>2. c.items = items /\ c.children = children /\ c.link = link /\ c.stamp = stamp
      /\ c.keysOf = keysOf /\ c.childrenOf = childrenOf
 BY <1>1 DEF Made
<1>3. children \in Seq(Names \cup {NoNode})
 <2>1. CASE l = 0
  <3>1. <<NoNode>> \in Seq(Names \cup {NoNode})
   <4>1. PICK N : N = Names \cup {NoNode} OBVIOUS
   <4>2. NoNode \in N BY <4>1
   <4>3. <<NoNode>> \in Seq(N) BY <4>2
   <4> QED BY <4>1, <4>3
  <3> QED BY <2>1, <3>1 DEF NoChildren
 <2>2. CASE l # 0
  <3>1. children \in Seq(Names) /\ Names \subseteq Names \cup {NoNode} BY <2>2
  <3> QED BY <3>1, SeqMonotonic
 <2> QED BY <2>1, <2>2
<1>4. link \in Names \cup {NoNode} /\ keysOf \in Nat /\ childrenOf \in Nat BY DEF On
<1>5. c \in ContentsSet BY <1>1, <1>3, <1>4 DEF Made, ContentsSet
<1>6. ItemsOK(c) /\ StampsOK(c) /\ LinkOK(D, l, c) BY <1>2 DEF ItemsOK, StampsOK, LinkOK
<1>7. ChildrenOK(D, l, c) BY <1>2 DEF ChildrenOK
<1> QED BY <1>1, <1>5, <1>6, <1>7 DEF Shape

(* Contents, opened. *)
LEMMA ShapeFacts ==
 ASSUME NEW D \in SUBSET Names, NEW l \in Nat, NEW c, Shape(D, l, c)
 PROVE  /\ c \in ContentsSet /\ c.items \in Seq(Item) /\ ItemsOK(c)
        /\ Len(c.items) \in Nat /\ (c.items = <<>> <=> Len(c.items) = 0)
        /\ \A i \in 1 .. Len(c.items) : c.items[i] \in Item /\ c.items[i] \in Int
        /\ \A i, j \in 1 .. Len(c.items) : i < j => c.items[i] < c.items[j]
        /\ c.stamp \in Nat /\ c.keysOf \in 0 .. c.stamp /\ c.childrenOf \in 0 .. c.stamp
        /\ IsLeaf(c) <=> l = 0
        /\ l # 0 => /\ c.children \in Seq(Names) /\ Len(c.children) = Len(c.items)
                    /\ \A i \in 1 .. Len(c.items) : On(D, c.children[i], l - 1)
        /\ c.link = NoNode <=> c.items # <<>> /\ Last(c.items) = INF
        /\ c.link # NoNode => On(D, c.link, l)
<1>1. c \in ContentsSet /\ ItemsOK(c) /\ StampsOK(c) /\ ChildrenOK(D, l, c) /\ LinkOK(D, l, c)
 BY DEF Shape
<1>2. c.items \in Seq(Item) /\ c.children \in Seq(Names \cup {NoNode})
      /\ c.stamp \in Nat /\ c.keysOf \in Nat /\ c.childrenOf \in Nat
 BY <1>1 DEF ContentsSet
<1>3. PICK s : s = c.items OBVIOUS
<1>4. s \in Seq(Item) /\ Len(s) \in Nat /\ (s = <<>> <=> Len(s) = 0) /\ DOMAIN s = 1 .. Len(s)
 BY <1>2, <1>3
<1>5. \A i \in 1 .. Len(s) : s[i] \in Item /\ s[i] \in Int
 <2>1. \A i \in 1 .. Len(s) : s[i] \in Item BY <1>4
 <2> QED BY <2>1, ItemsAreIntegers
<1>6. \A i, j \in 1 .. Len(s) : i < j => s[i] < s[j] BY <1>1, <1>3, <1>4 DEF ItemsOK, Ascending
<1>7. c.keysOf \in 0 .. c.stamp /\ c.childrenOf \in 0 .. c.stamp BY <1>1, <1>2 DEF StampsOK
<1>8. PICK ch : ch = c.children OBVIOUS
<1>9. ASSUME l # 0
      PROVE  ch \in Seq(Names) /\ Len(ch) = Len(s) /\ \A i \in 1 .. Len(s) : On(D, ch[i], l - 1)
 <2>1. Len(ch) = Len(s) /\ \A i \in 1 .. Len(ch) : On(D, ch[i], l - 1)
  BY <1>1, <1>3, <1>8, <1>9 DEF ChildrenOK
 <2>2. ch \in Seq(Names \cup {NoNode}) /\ \A i \in 1 .. Len(ch) : ch[i] \in Names
  BY <1>2, <1>8, <2>1 DEF On
 <2>3. ch \in Seq(Names) BY <2>2
 <2> QED BY <2>1, <2>3
<1>10. IsLeaf(c) <=> l = 0
 <2>1. l = 0 => ch = NoChildren BY <1>1, <1>8 DEF ChildrenOK
 <2>2. l # 0 => ch # NoChildren
  <3>1. SUFFICES ASSUME l # 0, ch = <<NoNode>> PROVE FALSE BY DEF NoChildren
  <3>2. ch[1] = NoNode /\ Len(ch) = 1 BY <3>1
  <3>3. ch[1] \in Names BY <1>9, <3>1, <3>2
  <3> QED BY <3>2, <3>3 DEF NoNode, Names
 <2> QED BY <1>8, <2>1, <2>2 DEF IsLeaf
<1>11. (c.link = NoNode <=> c.items # <<>> /\ Last(c.items) = INF) /\ (c.link # NoNode => On(D, c.link, l))
 BY <1>1 DEF LinkOK
<1> QED BY <1>1, <1>2, <1>3, <1>4, <1>5, <1>6, <1>7, <1>8, <1>9, <1>10, <1>11

(* New contents are younger than the old ones, and so are those of their   *)
(* parts that are not shared.                                              *)
AgesWell(c, new, freed) ==
    /\ new.stamp = c.stamp + 1 /\ new.keysOf \in Nat /\ new.childrenOf \in Nat
    /\ new.keysOf >= c.keysOf /\ new.childrenOf >= c.childrenOf
    /\ "keys" \in freed => new.keysOf = c.stamp + 1
    /\ "children" \in freed => new.childrenOf = c.stamp + 1

LEMMA MadeAgesWell ==
 ASSUME NEW D, NEW l, NEW c, Shape(D, l, c), NEW items, NEW children, NEW link
 PROVE  /\ AgesWell(c, Made(items, children, link, c.stamp + 1, c.keysOf, c.childrenOf), {})
        /\ AgesWell(c, Made(items, children, link, c.stamp + 1, c.keysOf, c.stamp + 1), {"children"})
        /\ \A parts : AgesWell(c, Made(items, children, link, c.stamp + 1, c.stamp + 1, c.stamp + 1), parts)
<1>1. c.stamp \in Nat /\ c.keysOf \in Nat /\ c.childrenOf \in Nat
      /\ c.keysOf <= c.stamp /\ c.childrenOf <= c.stamp
 BY DEF Shape, StampsOK, ContentsSet
<1>2. PICK s, k, d : s = c.stamp /\ k = c.keysOf /\ d = c.childrenOf OBVIOUS
<1>3. s + 1 \in Nat /\ k <= s + 1 /\ d <= s + 1 /\ s + 1 >= k /\ s + 1 >= d /\ k >= k /\ d >= d
 BY <1>1, <1>2
<1>4. AgesWell(c, Made(items, children, link, s + 1, k, d), {})
 BY <1>1, <1>2, <1>3 DEF AgesWell, Made
<1>5. AgesWell(c, Made(items, children, link, s + 1, k, s + 1), {"children"})
 BY <1>1, <1>2, <1>3 DEF AgesWell, Made
<1>6. \A parts : AgesWell(c, Made(items, children, link, s + 1, s + 1, s + 1), parts)
 BY <1>1, <1>2, <1>3 DEF AgesWell, Made
<1> QED BY <1>2, <1>4, <1>5, <1>6

(* An item more. *)
LEMMA AscendingInsert ==
 ASSUME NEW s \in Seq(Int), \A p, q \in 1 .. Len(s) : p < q => s[p] < s[q],
        NEW key \in Int, NEW i \in 1 .. Len(s),
        \A j \in 1 .. Len(s) : (j < i <=> s[j] < key) /\ s[j] # key
 PROVE  Ascending(InsertAt(s, i, key)) /\ InsertAt(s, i, key) # <<>>
        /\ Last(InsertAt(s, i, key)) = Last(s)
<1>1. PICK r : r = InsertAt(s, i, key) OBVIOUS
<1>2. Len(s) \in Nat /\ i \in Nat /\ i <= Len(s) /\ i >= 1 OBVIOUS
<1>3. i \in 1 .. Len(s) + 1 BY <1>2
<1>4. /\ r \in Seq(Int) /\ Len(r) = Len(s) + 1
      /\ \A j \in 1 .. Len(s) + 1 : r[j] = IF j < i THEN s[j] ELSE IF j = i THEN key ELSE s[j - 1]
 <2>1. PICK T : T = Int OBVIOUS
 <2>2. s \in Seq(T) /\ key \in T BY <2>1
 <2>3. /\ InsertAt(s, i, key) \in Seq(T) /\ Len(InsertAt(s, i, key)) = Len(s) + 1
       /\ \A j \in 1 .. Len(s) + 1 :
             InsertAt(s, i, key)[j] = IF j < i THEN s[j] ELSE IF j = i THEN key ELSE s[j - 1]
  BY <1>3, <2>2, InsertAtFacts
 <2> QED BY <1>1, <2>1, <2>3
<1>5. \A j \in 1 .. Len(s) : s[j] \in Int OBVIOUS
<1>6. ASSUME NEW j \in 1 .. Len(s) + 1
      PROVE  /\ j < i => j \in 1 .. Len(s) /\ r[j] = s[j] /\ s[j] < key
             /\ j = i => r[j] = key
             /\ j > i => j - 1 \in 1 .. Len(s) /\ r[j] = s[j - 1] /\ key < s[j - 1]
 <2>1. j < i => j \in 1 .. Len(s) /\ r[j] = s[j] /\ s[j] < key BY <1>2, <1>4
 <2>2. j = i => r[j] = key BY <1>4
 <2>3. ASSUME j > i PROVE j - 1 \in 1 .. Len(s) /\ r[j] = s[j - 1] /\ key < s[j - 1]
  <3>1. j - 1 \in 1 .. Len(s) /\ ~(j - 1 < i) /\ ~(j < i) /\ j # i BY <1>2, <2>3
  <3>2. r[j] = s[j - 1] BY <1>4, <3>1, Zenon
  <3>3. ~(s[j - 1] < key) /\ s[j - 1] # key /\ s[j - 1] \in Int BY <1>5, <3>1
  <3> QED BY <3>1, <3>2, <3>3
 <2> QED BY <2>1, <2>2, <2>3
<1>7. ASSUME NEW p \in 1 .. Len(s) + 1, NEW q \in 1 .. Len(s) + 1, p < q
      PROVE  r[p] < r[q]
 <2>1. CASE q < i BY <1>2, <1>6, <1>7, <2>1
 <2>2. CASE q = i BY <1>2, <1>6, <1>7, <2>2
 <2>3. CASE q > i /\ p < i BY <1>2, <1>5, <1>6, <1>7, <2>3
 <2>4. CASE q > i /\ p = i BY <1>2, <1>5, <1>6, <1>7, <2>4
 <2>5. CASE q > i /\ p > i
  <3>1. p - 1 < q - 1 /\ p - 1 \in 1 .. Len(s) /\ q - 1 \in 1 .. Len(s) BY <1>2, <1>6, <1>7, <2>5
  <3> QED BY <1>6, <2>5, <3>1
 <2> QED BY <1>2, <2>1, <2>2, <2>3, <2>4, <2>5
<1>8. Ascending(r) BY <1>2, <1>4, <1>7 DEF Ascending
<1>9. r[Len(s) + 1] = s[Len(s) + 1 - 1] BY <1>2, <1>6
<1>10. Len(s) + 1 - 1 = Len(s) /\ r # <<>> BY <1>2, <1>4
<1>11. Last(r) = Last(s) BY <1>4, <1>9, <1>10, Zenon DEF Last
<1> QED BY <1>1, <1>8, <1>10, <1>11

LEMMA OnInsert ==
 ASSUME NEW D \in SUBSET Names, NEW l, NEW d \in Seq(Names), \A j \in 1 .. Len(d) : On(D, d[j], l),
        NEW child, On(D, child, l), NEW k \in 1 .. Len(d) + 1
 PROVE  /\ InsertAt(d, k, child) \in Seq(Names) /\ Len(InsertAt(d, k, child)) = Len(d) + 1
        /\ \A j \in 1 .. Len(d) + 1 : On(D, InsertAt(d, k, child)[j], l)
<1>1. PICK r : r = InsertAt(d, k, child) OBVIOUS
<1>2. child \in Names BY DEF On
<1>3. /\ r \in Seq(Names) /\ Len(r) = Len(d) + 1
      /\ \A j \in 1 .. Len(d) + 1 : r[j] = IF j < k THEN d[j] ELSE IF j = k THEN child ELSE d[j - 1]
 <2>1. PICK T : T = Names OBVIOUS
 <2>2. d \in Seq(T) /\ child \in T BY <1>2, <2>1
 <2>3. /\ InsertAt(d, k, child) \in Seq(T) /\ Len(InsertAt(d, k, child)) = Len(d) + 1
       /\ \A j \in 1 .. Len(d) + 1 :
             InsertAt(d, k, child)[j] = IF j < k THEN d[j] ELSE IF j = k THEN child ELSE d[j - 1]
  BY <2>2, InsertAtFacts
 <2> QED BY <1>1, <2>1, <2>3
<1>4. ASSUME NEW j \in 1 .. Len(d) + 1 PROVE On(D, r[j], l)
 <2>0. Len(d) \in Nat OBVIOUS
 <2>1. CASE j < k
  <3>1. r[j] = d[j] /\ j \in 1 .. Len(d) BY <1>3, <2>0, <2>1
  <3> QED BY <3>1
 <2>2. CASE j = k BY <1>3, <2>2
 <2>3. CASE j > k
  <3>1. r[j] = d[j - 1] /\ j - 1 \in 1 .. Len(d) BY <1>3, <2>0, <2>3
  <3> QED BY <3>1
 <2> QED BY <2>0, <2>1, <2>2, <2>3
<1> QED BY <1>1, <1>3, <1>4

(* How far to the right a node reaches. *)
LEMMA UpperEndOf ==
 ASSUME NEW D \in SUBSET Names, NEW l \in Nat, NEW c, Shape(D, l, c)
 PROVE  /\ UpperEnd(c) \in Int
        /\ c.items # <<>> => UpperEnd(c) = Last(c.items) /\ Last(c.items) \in Item
        /\ c.items = <<>> => UpperEnd(c) = EMPTY
<1>1. PICK s : s = c.items OBVIOUS
<1>2. s \in Seq(Item) /\ Len(s) \in Nat /\ (s = <<>> <=> Len(s) = 0) BY <1>1, ShapeFacts
<1>3. s # <<>> => Last(s) \in Item BY <1>2 DEF Last
<1> QED BY <1>1, <1>3, ItemsAreIntegers DEF UpperEnd, MultiwayAssumption

Fits(D, l, c, new, parts) ==
    /\ Shape(D, l, new) /\ UpperEnd(new) <= UpperEnd(c) /\ AgesWell(c, new, parts)
    /\ c.link # NoNode => new.link # NoNode

LEMMA AddedShape ==
 ASSUME NEW D \in SUBSET Names, NEW l \in Nat, NEW c, NEW key \in Keys,
        HasPlace(D, l, c, key), ~Found(c, key),
        NEW child, l # 0 => On(D, child, l - 1), NEW i, i = Index(c, key), NEW k, k = 1 \/ k = i + 1,
        NEW new, new = Added(c, i, key, child, k), NEW parts
 PROVE  Fits(D, l, c, new, parts)
<1>1. Shape(D, l, c) /\ ~Beyond(c, key) /\ key \in Int /\ key \in Item
 BY DEF HasPlace, MultiwayAssumption, Item
<1>2. PICK s : s = c.items OBVIOUS
<1>3. /\ c \in ContentsSet /\ s \in Seq(Item) /\ ItemsOK(c) /\ Len(s) \in Nat
      /\ \A j \in 1 .. Len(s) : s[j] \in Item /\ s[j] \in Int
      /\ \A p, q \in 1 .. Len(s) : p < q => s[p] < s[q]
      /\ c.stamp \in Nat /\ (IsLeaf(c) <=> l = 0)
      /\ l # 0 => /\ c.children \in Seq(Names) /\ Len(c.children) = Len(s)
                  /\ \A j \in 1 .. Len(s) : On(D, c.children[j], l - 1)
      /\ c.link = NoNode <=> s # <<>> /\ Last(s) = INF
      /\ c.link # NoNode => On(D, c.link, l)
 BY <1>1, <1>2, ShapeFacts
<1>5. i \in 1 .. Len(s) /\ (\A j \in 1 .. Len(s) : j < i <=> s[j] < key) /\ k \in 1 .. Len(s) + 1
 <2>1. i \in 1 .. Len(s) /\ \A j \in 1 .. Len(s) : j < i <=> s[j] < key
  <3>1. /\ Index(c, key) \in 1 .. Len(c.items)
        /\ \A j \in 1 .. Len(c.items) : j < Index(c, key) <=> c.items[j] < key
   BY <1>1, <1>2, <1>3, IndexFacts, BeyondFacts
  <3> QED BY <1>2, <3>1
 <2>2. PICK n : n = Len(s) OBVIOUS
 <2>3. n \in Nat BY <1>3, <2>2
 <2>4. i \in 1 .. n BY <2>1, <2>2
 <2>5. k \in 1 .. n + 1 BY <2>3, <2>4
 <2> QED BY <2>1, <2>2, <2>5
<1>6. \A j \in 1 .. Len(s) : s[j] # key BY <1>1, <1>2, <1>3, FoundFacts
<1>7. PICK r : r = InsertAt(s, i, key) OBVIOUS
<1>8. r \in Seq(Item) /\ Len(r) = Len(s) + 1
 <2>1. i \in 1 .. Len(s) + 1 BY <1>3, <1>5
 <2> QED BY <1>1, <1>3, <1>7, <2>1, InsertAtFacts
<1>9. Ascending(r) /\ r # <<>> /\ Last(r) = Last(s)
 <2>1. s \in Seq(Int) BY <1>3, ItemsAreIntegers, SeqMonotonic
 <2> QED BY <1>1, <1>3, <1>5, <1>6, <1>7, <2>1, AscendingInsert
<1>10. PICK ch : ch = IF l = 0 THEN NoChildren ELSE InsertAt(c.children, k, child) OBVIOUS
<1>11. Added(c, i, key, child, k) = Made(r, ch, c.link, c.stamp + 1, c.stamp + 1, c.stamp + 1)
 <2>1. Added(c, i, key, child, k) = WithItems(c, r, ch) BY <1>2, <1>3, <1>7, <1>10 DEF Added
 <2> QED BY <1>3, <2>1, NewContentsAre
<1>12. l # 0 => ch \in Seq(Names) /\ Len(ch) = Len(r) /\ \A j \in 1 .. Len(ch) : On(D, ch[j], l - 1)
 <2>1. SUFFICES ASSUME l # 0
                PROVE  ch \in Seq(Names) /\ Len(ch) = Len(r) /\ \A j \in 1 .. Len(ch) : On(D, ch[j], l - 1)
  OBVIOUS
 <2>2. PICK d : d = c.children OBVIOUS
 <2>3. d \in Seq(Names) /\ Len(d) = Len(s) /\ k \in 1 .. Len(d) + 1 /\ On(D, child, l - 1)
       /\ \A j \in 1 .. Len(d) : On(D, d[j], l - 1)
  BY <1>2, <1>3, <1>5, <2>1, <2>2
 <2>4. ch = InsertAt(d, k, child) BY <1>10, <2>1, <2>2
 <2>5. ch \in Seq(Names) /\ Len(ch) = Len(d) + 1 /\ \A j \in 1 .. Len(d) + 1 : On(D, ch[j], l - 1)
  BY <2>3, <2>4, OnInsert
 <2> QED BY <1>8, <2>3, <2>5
<1>13. l = 0 => ch = NoChildren BY <1>10
<1>14. Shape(D, l, Made(r, ch, c.link, c.stamp + 1, c.stamp + 1, c.stamp + 1))
 <2>1. s # <<>> BY <1>3, <1>5
 <2>2. c.link = NoNode <=> r # <<>> /\ Last(r) = INF BY <1>3, <1>9, <2>1
 <2>3. c.stamp + 1 \in Nat /\ c.stamp + 1 \in 0 .. c.stamp + 1 BY <1>3
 <2> QED BY <1>3, <1>8, <1>9, <1>12, <1>13, <2>2, <2>3, MadeShape
<1>15. new.items = r /\ new.link = c.link BY <1>11 DEF Made
<1>16. \A ps : AgesWell(c, new, ps) BY <1>1, <1>11, MadeAgesWell
<1>17. Shape(D, l, new) BY <1>11, <1>14
<1>18. UpperEnd(new) <= UpperEnd(c)
 <2>1. s # <<>> BY <1>3, <1>5
 <2>2. UpperEnd(new) = UpperEnd(c) BY <1>2, <1>9, <1>15, <2>1 DEF UpperEnd
 <2>3. UpperEnd(c) \in Int BY <1>1, UpperEndOf
 <2> QED BY <2>2, <2>3
<1> QED BY <1>15, <1>16, <1>17, <1>18 DEF Fits

LEMMA NextStamp ==
 ASSUME NEW n \in Nat
 PROVE  n + 1 \in Nat /\ n + 1 \in 0 .. n + 1
 OBVIOUS

(* An item less. *)
LEMMA AscendingRemove ==
 ASSUME NEW s \in Seq(Int), \A p, q \in 1 .. Len(s) : p < q => s[p] < s[q],
        NEW i \in 1 .. Len(s)
 PROVE  /\ Ascending(RemoveAt(s, i))
        /\ i # Len(s) => RemoveAt(s, i) # <<>> /\ Last(RemoveAt(s, i)) = Last(s)
        /\ i = Len(s) => RemoveAt(s, i) = <<>> \/ Last(RemoveAt(s, i)) < Last(s)
<1>1. PICK r : r = RemoveAt(s, i) OBVIOUS
<1>2. Len(s) \in Nat /\ i \in Nat /\ i <= Len(s) /\ i >= 1 OBVIOUS
<1>3. /\ r \in Seq(Int) /\ Len(r) = Len(s) - 1
      /\ \A j \in 1 .. Len(s) - 1 : r[j] = IF j < i THEN s[j] ELSE s[j + 1]
 <2>1. PICK T : T = Int OBVIOUS
 <2>2. s \in Seq(T) BY <2>1
 <2>3. /\ RemoveAt(s, i) \in Seq(T) /\ Len(RemoveAt(s, i)) = Len(s) - 1
       /\ \A j \in 1 .. Len(s) - 1 : RemoveAt(s, i)[j] = IF j < i THEN s[j] ELSE s[j + 1]
  BY <2>2, RemoveAtFacts
 <2> QED BY <1>1, <2>1, <2>3
<1>9. ASSUME NEW j \in 1 .. Len(s) - 1
      PROVE  /\ j < i => j \in 1 .. Len(s) /\ r[j] = s[j]
             /\ ~(j < i) => j + 1 \in 1 .. Len(s) /\ r[j] = s[j + 1]
 <2>1. j \in 1 .. Len(s) /\ j + 1 \in 1 .. Len(s) BY <1>2
 <2>2. r[j] = IF j < i THEN s[j] ELSE s[j + 1] BY <1>3
 <2> QED BY <2>1, <2>2
<1>5. ASSUME NEW p \in 1 .. Len(s) - 1, NEW q \in 1 .. Len(s) - 1, p < q
      PROVE  r[p] < r[q]
 <2>0. p \in Int /\ q \in Int BY <1>2
 <2>1. CASE q < i
  <3>1. r[p] = s[p] /\ r[q] = s[q] /\ p \in 1 .. Len(s) /\ q \in 1 .. Len(s)
   BY <1>2, <1>5, <1>9, <2>0, <2>1
  <3> QED BY <1>5, <3>1
 <2>2. CASE ~(q < i) /\ p < i
  <3>1. r[p] = s[p] /\ r[q] = s[q + 1] /\ p < q + 1 /\ p \in 1 .. Len(s) /\ q + 1 \in 1 .. Len(s)
   BY <1>2, <1>5, <1>9, <2>0, <2>2
  <3> QED BY <3>1
 <2>3. CASE ~(q < i) /\ ~(p < i)
  <3>1. r[p] = s[p + 1] /\ r[q] = s[q + 1] /\ p + 1 < q + 1
        /\ p + 1 \in 1 .. Len(s) /\ q + 1 \in 1 .. Len(s)
   BY <1>2, <1>5, <1>9, <2>0, <2>3
  <3> QED BY <3>1
 <2> QED BY <1>2, <1>5, <2>0, <2>1, <2>2, <2>3
<1>6. Ascending(r)
 <2>1. DOMAIN r = 1 .. Len(s) - 1 BY <1>2, <1>3
 <2> QED BY <1>5, <2>1 DEF Ascending
<1>7. ASSUME i # Len(s) PROVE r # <<>> /\ Last(r) = Last(s)
 <2>1. Len(s) - 1 \in 1 .. Len(s) - 1 /\ ~(Len(s) - 1 < i) /\ Len(s) - 1 + 1 = Len(s) BY <1>2, <1>7
 <2>2. r[Len(s) - 1] = s[Len(s)] /\ r # <<>> BY <1>2, <1>3, <2>1
 <2> QED BY <1>3, <2>2, Zenon DEF Last
<1>8. ASSUME i = Len(s), r # <<>> PROVE Last(r) < Last(s)
 <2>1. PICK j : j = Len(r) OBVIOUS
 <2>2. j \in 1 .. Len(s) - 1 /\ j < i BY <1>2, <1>3, <1>8, <2>1
 <2>3. j \in 1 .. Len(s) /\ r[j] = s[j] BY <1>9, <2>2
 <2>4. r[j] < s[Len(s)] BY <1>2, <1>8, <2>2, <2>3
 <2> QED BY <2>1, <2>4, Zenon DEF Last
<1> QED BY <1>1, <1>6, <1>7, <1>8

LEMMA OnRemove ==
 ASSUME NEW D \in SUBSET Names, NEW l, NEW d \in Seq(Names), \A j \in 1 .. Len(d) : On(D, d[j], l),
        NEW k \in 1 .. Len(d)
 PROVE  /\ RemoveAt(d, k) \in Seq(Names) /\ Len(RemoveAt(d, k)) = Len(d) - 1
        /\ \A j \in 1 .. Len(d) - 1 : On(D, RemoveAt(d, k)[j], l)
<1>1. PICK r : r = RemoveAt(d, k) OBVIOUS
<1>2. /\ r \in Seq(Names) /\ Len(r) = Len(d) - 1
      /\ \A j \in 1 .. Len(d) - 1 : r[j] = IF j < k THEN d[j] ELSE d[j + 1]
 <2>1. PICK T : T = Names OBVIOUS
 <2>2. d \in Seq(T) BY <2>1
 <2>3. /\ RemoveAt(d, k) \in Seq(T) /\ Len(RemoveAt(d, k)) = Len(d) - 1
       /\ \A j \in 1 .. Len(d) - 1 : RemoveAt(d, k)[j] = IF j < k THEN d[j] ELSE d[j + 1]
  BY <2>2, RemoveAtFacts
 <2> QED BY <1>1, <2>1, <2>3
<1>3. ASSUME NEW j \in 1 .. Len(d) - 1 PROVE On(D, r[j], l)
 <2>0. Len(d) \in Nat OBVIOUS
 <2>1. CASE j < k
  <3>1. r[j] = d[j] /\ j \in 1 .. Len(d) BY <1>2, <2>0, <2>1
  <3> QED BY <3>1
 <2>2. CASE j >= k
  <3>1. r[j] = d[j + 1] /\ j + 1 \in 1 .. Len(d) BY <1>2, <2>0, <2>2
  <3> QED BY <3>1
 <2> QED BY <2>0, <2>1, <2>2
<1> QED BY <1>1, <1>2, <1>3

LEMMA OnReplace ==
 ASSUME NEW D \in SUBSET Names, NEW l, NEW d \in Seq(Names), \A j \in 1 .. Len(d) : On(D, d[j], l),
        NEW child, On(D, child, l), NEW k \in 1 .. Len(d)
 PROVE  /\ ReplaceAt(d, k, child) \in Seq(Names) /\ Len(ReplaceAt(d, k, child)) = Len(d)
        /\ \A j \in 1 .. Len(d) : On(D, ReplaceAt(d, k, child)[j], l)
<1>1. PICK T : T = Names OBVIOUS
<1>2. d \in Seq(T) /\ child \in T BY <1>1 DEF On
<1>3. /\ ReplaceAt(d, k, child) \in Seq(T) /\ Len(ReplaceAt(d, k, child)) = Len(d)
      /\ \A j \in 1 .. Len(d) : ReplaceAt(d, k, child)[j] = IF j = k THEN child ELSE d[j]
 BY <1>2, ReplaceAtFacts
<1> QED BY <1>1, <1>3

LEMMA RemovedShape ==
 ASSUME NEW D \in SUBSET Names, NEW l \in Nat, NEW c, Shape(D, l, c),
        NEW i \in 1 .. Len(c.items), c.items[i] # INF
 PROVE  LET new == Removed(c, i)
        IN  /\ new = Made(RemoveAt(c.items, i), IF l = 0 THEN NoChildren ELSE RemoveAt(c.children, i),
                          c.link, c.stamp + 1, c.stamp + 1, c.stamp + 1)
            /\ Shape(D, l, new)
            /\ UpperEnd(new) <= UpperEnd(c)
<1>1. PICK s : s = c.items OBVIOUS
<1>2. /\ c \in ContentsSet /\ s \in Seq(Item) /\ Len(s) \in Nat /\ i \in 1 .. Len(s) /\ s[i] # INF
      /\ \A j \in 1 .. Len(s) : s[j] \in Item /\ s[j] \in Int
      /\ \A p, q \in 1 .. Len(s) : p < q => s[p] < s[q]
      /\ c.stamp \in Nat /\ (IsLeaf(c) <=> l = 0)
      /\ l # 0 => /\ c.children \in Seq(Names) /\ Len(c.children) = Len(s)
                  /\ \A j \in 1 .. Len(s) : On(D, c.children[j], l - 1)
      /\ c.link = NoNode <=> s # <<>> /\ Last(s) = INF
      /\ c.link # NoNode => On(D, c.link, l)
 BY <1>1, ShapeFacts
<1>3. PICK r : r = RemoveAt(s, i) OBVIOUS
<1>4. r \in Seq(Item) /\ Len(r) = Len(s) - 1 BY <1>2, <1>3, RemoveAtFacts
<1>5. /\ Ascending(r)
      /\ i # Len(s) => r # <<>> /\ Last(r) = Last(s)
      /\ i = Len(s) => r = <<>> \/ Last(r) < Last(s)
 <2>1. s \in Seq(Int) BY <1>2, ItemsAreIntegers, SeqMonotonic
 <2> QED BY <1>2, <1>3, <2>1, AscendingRemove
<1>6. PICK ch : ch = IF l = 0 THEN NoChildren ELSE RemoveAt(c.children, i) OBVIOUS
<1>7. Removed(c, i) = Made(r, ch, c.link, c.stamp + 1, c.stamp + 1, c.stamp + 1)
 <2>1. Removed(c, i) = WithItems(c, r, ch) BY <1>1, <1>2, <1>3, <1>6 DEF Removed
 <2> QED BY <1>2, <2>1, NewContentsAre
<1>8. l # 0 => ch \in Seq(Names) /\ Len(ch) = Len(r) /\ \A j \in 1 .. Len(ch) : On(D, ch[j], l - 1)
 <2>1. SUFFICES ASSUME l # 0
                PROVE  ch \in Seq(Names) /\ Len(ch) = Len(r) /\ \A j \in 1 .. Len(ch) : On(D, ch[j], l - 1)
  OBVIOUS
 <2>2. PICK d : d = c.children OBVIOUS
 <2>3. d \in Seq(Names) /\ Len(d) = Len(s) /\ i \in 1 .. Len(d) /\ \A j \in 1 .. Len(d) : On(D, d[j], l - 1)
  BY <1>2, <2>1, <2>2
 <2>4. ch = RemoveAt(d, i) BY <1>6, <2>1, <2>2
 <2>5. ch \in Seq(Names) /\ Len(ch) = Len(d) - 1 /\ \A j \in 1 .. Len(d) - 1 : On(D, ch[j], l - 1)
  BY <2>3, <2>4, OnRemove
 <2> QED BY <1>4, <2>3, <2>5
<1>9. s # <<>> /\ Last(s) \in Item /\ Last(s) \in Int /\ Last(s) <= INF /\ (i = Len(s) => Last(s) # INF)
 BY <1>2, ItemsAreIntegers, ItemsUpToINF DEF Last
<1>10. r # <<>> => Last(r) \in Item /\ Last(r) \in Int
 <2>1. r # <<>> => Len(r) \in 1 .. Len(r) /\ Len(r) \in 1 .. Len(s) - 1 BY <1>2, <1>4
 <2>2. r # <<>> => r[Len(r)] \in Item BY <1>4, <2>1
 <2> QED BY <2>2, ItemsAreIntegers, ItemsUpToINF DEF Last
<1>11. c.link = NoNode <=> r # <<>> /\ Last(r) = INF
 <2>1. CASE i # Len(s) BY <1>2, <1>5, <1>9, <2>1
 <2>2. CASE i = Len(s)
  <3>1. r # <<>> => Last(r) < Last(s) BY <1>5, <2>2
  <3>2. INF \in Int BY DEF MultiwayAssumption
  <3> QED BY <1>2, <1>9, <1>10, <2>2, <3>1, <3>2
 <2> QED BY <2>1, <2>2
<1>12. Shape(D, l, Made(r, ch, c.link, c.stamp + 1, c.stamp + 1, c.stamp + 1))
 <2>0. c.stamp \in Nat BY <1>2
 <2>1. c.stamp + 1 \in Nat /\ c.stamp + 1 \in 0 .. c.stamp + 1 BY <2>0, NextStamp
 <2>2. l = 0 => ch = NoChildren BY <1>6
 <2> QED BY <1>2, <1>4, <1>5, <1>8, <1>11, <2>1, <2>2, MadeShape
<1>13. UpperEnd(Made(r, ch, c.link, c.stamp + 1, c.stamp + 1, c.stamp + 1)) <= UpperEnd(c)
 <2>1. UpperEnd(c) = Last(s) BY <1>1, <1>9 DEF UpperEnd
 <2>2. UpperEnd(Made(r, ch, c.link, c.stamp + 1, c.stamp + 1, c.stamp + 1)) =
           IF r = <<>> THEN EMPTY ELSE Last(r)
  BY DEF UpperEnd, Made
 <2>3. CASE r = <<>>
  <3>1. i = Len(s) /\ Last(s) \in Keys BY <1>5, <1>9, <2>3 DEF Item
  <3>2. EMPTY \in Int /\ EMPTY < Last(s) BY <3>1 DEF MultiwayAssumption
  <3> QED BY <1>9, <2>1, <2>2, <2>3, <3>2
 <2>4. CASE r # <<>> BY <1>5, <1>9, <1>10, <2>1, <2>2, <2>4
 <2> QED BY <2>3, <2>4
<1> QED BY <1>1, <1>3, <1>6, <1>7, <1>12, <1>13

(* Another link; other children. *)
LEMMA WithLinkShape ==
 ASSUME NEW D \in SUBSET Names, NEW l \in Nat, NEW c, Shape(D, l, c),
        c.link # NoNode, NEW link, On(D, link, l)
 PROVE  LET new == WithLink(c, link)
        IN  /\ new = Made(c.items, c.children, link, c.stamp + 1, c.keysOf, c.childrenOf)
            /\ Shape(D, l, new)
            /\ UpperEnd(new) <= UpperEnd(c)
<1>1. c \in ContentsSet BY ShapeFacts
<1>2. WithLink(c, link) = Made(c.items, c.children, link, c.stamp + 1, c.keysOf, c.childrenOf)
 BY <1>1, NewContentsAre
<1>3. PICK new : new = WithLink(c, link) OBVIOUS
<1>4. /\ new.items = c.items /\ new.children = c.children /\ new.link = link
      /\ new.stamp = c.stamp + 1 /\ new.keysOf = c.keysOf /\ new.childrenOf = c.childrenOf
 BY <1>2, <1>3 DEF Made
<1>5. link \in Names /\ link # NoNode BY DEF On, Names, NoNode
<1>6. new \in ContentsSet BY <1>1, <1>2, <1>3, <1>5 DEF Made, ContentsSet
<1>7. ItemsOK(new) /\ StampsOK(new) /\ ChildrenOK(D, l, new) /\ LinkOK(D, l, new)
 <2>1. ItemsOK(c) /\ StampsOK(c) /\ ChildrenOK(D, l, c) /\ LinkOK(D, l, c) BY DEF Shape
 <2>2. ItemsOK(new) /\ ChildrenOK(D, l, new) BY <1>4, <2>1 DEF ItemsOK, ChildrenOK
 <2>3. c.stamp \in Nat /\ c.keysOf \in Nat /\ c.childrenOf \in Nat BY <1>1 DEF ContentsSet
 <2>4. StampsOK(new) BY <1>4, <2>1, <2>3 DEF StampsOK
 <2>5. LinkOK(D, l, new) BY <1>4, <1>5, <2>1 DEF LinkOK
 <2> QED BY <2>1, <2>2, <2>4, <2>5
<1>8. Shape(D, l, new) BY <1>6, <1>7 DEF Shape
<1>9. UpperEnd(new) = UpperEnd(c) /\ UpperEnd(c) \in Int BY <1>4, UpperEndOf DEF UpperEnd
<1> QED BY <1>2, <1>3, <1>8, <1>9

LEMMA WithChildrenShape ==
 ASSUME NEW D \in SUBSET Names, NEW l \in Nat, NEW c, Shape(D, l, c),
        l # 0, NEW ch \in Seq(Names), Len(ch) = Len(c.items),
        \A i \in 1 .. Len(c.items) : On(D, ch[i], l - 1)
 PROVE  LET new == WithChildren(c, ch)
        IN  /\ new = Made(c.items, ch, c.link, c.stamp + 1, c.keysOf, c.stamp + 1)
            /\ Shape(D, l, new)
            /\ UpperEnd(new) <= UpperEnd(c)
<1>1. /\ c \in ContentsSet /\ c.items \in Seq(Item) /\ ItemsOK(c)
      /\ c.stamp \in Nat /\ c.keysOf \in 0 .. c.stamp
      /\ c.link = NoNode <=> c.items # <<>> /\ Last(c.items) = INF
      /\ c.link # NoNode => On(D, c.link, l)
 BY ShapeFacts
<1>2. PICK new : new = WithChildren(c, ch) OBVIOUS
<1>3. new = Made(c.items, ch, c.link, c.stamp + 1, c.keysOf, c.stamp + 1)
 BY <1>1, <1>2, NewContentsAre
<1>4. Shape(D, l, new)
 <2>1. Ascending(c.items) BY <1>1 DEF ItemsOK
 <2>2. c.stamp + 1 \in Nat /\ c.stamp + 1 \in 0 .. c.stamp + 1 BY <1>1, NextStamp
 <2>3. c.keysOf \in 0 .. c.stamp + 1 BY <1>1
 <2> QED BY <1>1, <1>3, <2>1, <2>2, <2>3, MadeShape
<1>5. UpperEnd(new) = UpperEnd(c) /\ UpperEnd(c) \in Int BY <1>3, UpperEndOf DEF UpperEnd, Made
<1> QED BY <1>2, <1>3, <1>4, <1>5

(* cleanNode: which children are adjusted, and what becomes of the node. *)
Sizes(n, i, a) == n >= 1 /\ i \in 1 .. n /\ a \in 1 .. 2
                     /\ (n <= 2 => a = n)
                     /\ (n > 2 /\ a = 2 => i > 1 /\ i < n)

LEMMA AdjustingFacts ==
 ASSUME NEW D \in SUBSET Names, NEW l \in Nat, NEW c, NEW key \in Keys, HasPlace(D, l, c, key)
 PROVE  LET n == Len(c.items)
            i == Index(c, key)
            ix == Adjusting(c, key)
        IN  /\ Sizes(n, i, Len(ix))
            /\ n \in Nat /\ n >= 1 /\ i \in 1 .. n
            /\ Len(ix) \in 1 .. 2 /\ \A q \in 1 .. Len(ix) : ix[q] \in 1 .. n
            /\ n <= 2 => Len(ix) = n /\ \A q \in 1 .. n : ix[q] = q
            /\ n > 2 => ix[1] = i
            /\ n > 2 /\ Len(ix) = 2 => i > 1 /\ i < n /\ ix[2] = i + 1
<1>1. Shape(D, l, c) /\ ~Beyond(c, key) /\ key \in Int BY DEF HasPlace, MultiwayAssumption
<1>2. PICK s : s = c.items OBVIOUS
<1>3. PICK i : i = Index(c, key) OBVIOUS
<1>4. s \in Seq(Item) /\ Len(s) \in Nat /\ i \in 1 .. Len(s)
 BY <1>1, <1>2, <1>3, ShapeFacts, BeyondFacts
<1>5. Adjusting(c, key) = CASE Len(s) <= 2 -> [j \in 1 .. Len(s) |-> j]
                            [] Len(s) > 2 /\ i \in {1, Len(s)} -> <<i>>
                            [] OTHER -> <<i, i + 1>>
 BY <1>2, <1>3 DEF Adjusting
<1>6. PICK ix : ix = Adjusting(c, key) OBVIOUS
<1>7. Len(s) >= 1 BY <1>4
<1>8. CASE Len(s) <= 2
 <2>1. ix = [j \in 1 .. Len(s) |-> j] BY <1>5, <1>6, <1>8
 <2>2. Len(ix) = Len(s) /\ \A q \in 1 .. Len(s) : ix[q] = q BY <1>4, <2>1
 <2>3. Len(ix) \in 1 .. 2 BY <1>4, <1>7, <1>8, <2>2
 <2>4. \A q \in 1 .. Len(ix) : ix[q] \in 1 .. Len(s) BY <1>4, <2>2
 <2>5. ~(Len(s) > 2) BY <1>4, <1>8
 <2>6. Sizes(Len(s), i, Len(ix)) BY <1>4, <1>7, <1>8, <2>2, <2>3 DEF Sizes
 <2> QED BY <1>2, <1>3, <1>4, <1>6, <1>7, <2>2, <2>3, <2>4, <2>5, <2>6
<1>9. CASE Len(s) > 2 /\ i \in {1, Len(s)}
 <2>1. ix = <<i>> BY <1>4, <1>5, <1>6, <1>9
 <2>2. Sizes(Len(s), i, Len(ix)) BY <1>4, <1>7, <1>9, <2>1 DEF Sizes
 <2> QED BY <1>2, <1>3, <1>4, <1>6, <1>7, <1>9, <2>1, <2>2
<1>10. CASE Len(s) > 2 /\ i \notin {1, Len(s)}
 <2>1. ix = <<i, i + 1>> BY <1>4, <1>5, <1>6, <1>10
 <2>2. Len(ix) = 2 /\ ix[1] = i /\ ix[2] = i + 1 /\ i > 1 /\ i < Len(s) /\ i + 1 \in 1 .. Len(s)
  BY <1>4, <1>10, <2>1
 <2>3. \A q \in 1 .. 2 : ix[q] \in 1 .. Len(s) BY <1>4, <2>2
 <2>4. Sizes(Len(s), i, Len(ix)) BY <1>4, <1>7, <1>10, <2>2 DEF Sizes
 <2> QED BY <1>2, <1>3, <1>4, <1>6, <1>7, <1>10, <2>2, <2>3, <2>4
<1> QED BY <1>4, <1>8, <1>9, <1>10

LEMMA AdjustingSizes ==
 ASSUME NEW D \in SUBSET Names, NEW l \in Nat, NEW c, NEW key \in Keys, HasPlace(D, l, c, key)
 PROVE  Sizes(Len(c.items), Index(c, key), Len(Adjusting(c, key)))
 BY AdjustingFacts

LEMMA AdjustedShape ==
 ASSUME NEW D \in SUBSET Names, NEW l \in Nat, NEW c,
        NEW key \in Keys, HasPlace(D, l, c, key), l # 0,
        NEW adjusted \in Seq(Names), Len(adjusted) = Len(Adjusting(c, key)),
        \A q \in 1 .. Len(adjusted) : On(D, adjusted[q], l - 1),
        NEW new, new = Adjusted(c, key, adjusted),
        NEW parts, parts = IF Dropping(c, key, adjusted) THEN {"keys", "children"} ELSE {"children"}
 PROVE  Fits(D, l, c, new, parts)
<1>1. Shape(D, l, c) BY DEF HasPlace
<1>2. PICK s : s = c.items OBVIOUS
<1>3. PICK i : i = Index(c, key) OBVIOUS
<1>4. PICK d : d = c.children OBVIOUS
<1>5. /\ c \in ContentsSet /\ s \in Seq(Item) /\ Len(s) \in Nat
      /\ \A j \in 1 .. Len(s) : s[j] \in Item /\ s[j] \in Int
      /\ \A p, q \in 1 .. Len(s) : p < q => s[p] < s[q]
      /\ c.stamp \in Nat
      /\ d \in Seq(Names) /\ Len(d) = Len(s) /\ \A j \in 1 .. Len(s) : On(D, d[j], l - 1)
      /\ c.link = NoNode <=> s # <<>> /\ Last(s) = INF
      /\ c.link # NoNode => On(D, c.link, l)
 BY <1>1, <1>2, <1>4, ShapeFacts
<1>6. PICK ix : ix = Adjusting(c, key) OBVIOUS
<1>7. /\ Len(s) >= 1 /\ i \in 1 .. Len(s) /\ Len(ix) \in 1 .. 2
      /\ Len(s) <= 2 => Len(ix) = Len(s)
      /\ Len(s) > 2 /\ Len(ix) = 2 => i > 1 /\ i < Len(s)
 BY <1>2, <1>3, <1>6, AdjustingSizes DEF Sizes
<1>8. PICK ch : ch = IF Len(s) <= 2 THEN adjusted ELSE ReplaceAt(d, i, adjusted[1]) OBVIOUS
<1>9. ch \in Seq(Names) /\ Len(ch) = Len(s) /\ \A j \in 1 .. Len(ch) : On(D, ch[j], l - 1)
 <2>1. CASE Len(s) <= 2 BY <1>6, <1>7, <1>8, <2>1
 <2>2. CASE ~(Len(s) <= 2)
  <3>1. On(D, adjusted[1], l - 1) BY <1>6, <1>7
  <3>2. i \in 1 .. Len(d) /\ \A j \in 1 .. Len(d) : On(D, d[j], l - 1) BY <1>5, <1>7
  <3>3. /\ ReplaceAt(d, i, adjusted[1]) \in Seq(Names) /\ Len(ReplaceAt(d, i, adjusted[1])) = Len(d)
        /\ \A j \in 1 .. Len(d) : On(D, ReplaceAt(d, i, adjusted[1])[j], l - 1)
   BY <1>5, <3>1, <3>2, OnReplace
  <3>4. ch = ReplaceAt(d, i, adjusted[1]) BY <1>8, <2>2
  <3> QED BY <1>5, <3>3, <3>4
 <2> QED BY <2>1, <2>2
<1>11. new = IF Dropping(c, key, adjusted) THEN WithItems(c, RemoveAt(s, i), RemoveAt(ch, i + 1))
             ELSE WithChildren(c, ch)
 BY <1>2, <1>3, <1>4, <1>8 DEF Adjusted
<1>12. CASE ~Dropping(c, key, adjusted)
 <2>1. new = WithChildren(c, ch) BY <1>11, <1>12
 <2>2. \A j \in 1 .. Len(s) : On(D, ch[j], l - 1) BY <1>9
 <2>3. /\ new = Made(s, ch, c.link, c.stamp + 1, c.keysOf, c.stamp + 1)
       /\ Shape(D, l, new) /\ UpperEnd(new) <= UpperEnd(c)
  BY <1>1, <1>2, <1>9, <2>1, <2>2, WithChildrenShape
 <2>4. AgesWell(c, new, {"children"}) /\ parts = {"children"} BY <1>1, <1>12, <2>3, MadeAgesWell
 <2>5. new.link = c.link BY <2>3 DEF Made
 <2> QED BY <2>3, <2>4, <2>5 DEF Fits
<1>13. CASE Dropping(c, key, adjusted)
 <2>1. Len(s) > 2 /\ i > 1 /\ i < Len(s) BY <1>2, <1>6, <1>7, <1>13 DEF Dropping
 <2>2. new = WithItems(c, RemoveAt(s, i), RemoveAt(ch, i + 1)) BY <1>11, <1>13
 <2>3. PICK r : r = RemoveAt(s, i) OBVIOUS
 <2>4. PICK rh : rh = RemoveAt(ch, i + 1) OBVIOUS
 <2>5. new = Made(r, rh, c.link, c.stamp + 1, c.stamp + 1, c.stamp + 1)
  BY <1>5, <2>2, <2>3, <2>4, NewContentsAre
 <2>6. r \in Seq(Item) /\ Len(r) = Len(s) - 1 BY <1>5, <1>7, <2>3, RemoveAtFacts
 <2>7. Ascending(r) /\ r # <<>> /\ Last(r) = Last(s)
  <3>1. s \in Seq(Int) BY <1>5, ItemsAreIntegers, SeqMonotonic
  <3>2. i # Len(s) BY <1>5, <1>7, <2>1
  <3> QED BY <1>5, <1>7, <2>3, <3>1, <3>2, AscendingRemove
 <2>8. rh \in Seq(Names) /\ Len(rh) = Len(r) /\ \A j \in 1 .. Len(rh) : On(D, rh[j], l - 1)
  <3>1. i + 1 \in 1 .. Len(ch) BY <1>5, <1>7, <1>9, <2>1
  <3> QED BY <1>9, <2>4, <2>6, <3>1, OnRemove
 <2>9. s # <<>> BY <1>5, <2>1
 <2>10. Shape(D, l, new)
  <3>1. c.stamp + 1 \in Nat /\ c.stamp + 1 \in 0 .. c.stamp + 1 BY <1>5, NextStamp
  <3>2. c.link = NoNode <=> r # <<>> /\ Last(r) = INF BY <1>5, <2>7, <2>9
  <3> QED BY <1>5, <2>5, <2>6, <2>7, <2>8, <3>1, <3>2, MadeShape
 <2>11. UpperEnd(new) = UpperEnd(c) /\ UpperEnd(c) \in Int
  BY <1>1, <1>2, <2>5, <2>7, <2>9, UpperEndOf DEF UpperEnd, Made
 <2>12. AgesWell(c, new, parts)
  <3>1. \A p : AgesWell(c, new, p) BY <1>1, <2>5, MadeAgesWell
  <3> QED BY <3>1
 <2>13. new.link = c.link BY <2>5 DEF Made
 <2> QED BY <2>10, <2>11, <2>12, <2>13 DEF Fits
<1> QED BY <1>12, <1>13

(* Nodes are only added while calls are under way. *)
LEMMA ShapeGrows ==
 ASSUME NEW D, NEW D2, D \subseteq D2, NEW l, NEW c
 PROVE  /\ Shape(D, l, c) => Shape(D2, l, c)
        /\ \A key : HasPlace(D, l, c, key) => HasPlace(D2, l, c, key)
        /\ \A n : On(D, n, l) => On(D2, n, l)
 BY DEF Shape, HasPlace, ChildrenOK, LinkOK, On

(* The two parts of a node that is split after item i. *)
CutAt(D, l, c, new, right) ==
    /\ Shape(D, l, new) /\ UpperEnd(new) <= UpperEnd(c) /\ AgesWell(c, new, {"keys", "children"})
    /\ new.link = right /\ right # NoNode

LEMMA LeftPartShape ==
 ASSUME NEW D \in SUBSET Names, NEW l \in Nat, NEW c, Shape(D, l, c),
        NEW i \in 1 .. Len(c.items) - 1, NEW right, On(D, right, l)
 PROVE  CutAt(D, l, c, LeftPart(c, i, right), right)
<1>1. PICK s : s = c.items OBVIOUS
<1>2. PICK d : d = c.children OBVIOUS
<1>3. /\ c \in ContentsSet /\ s \in Seq(Item) /\ Len(s) \in Nat
      /\ \A j \in 1 .. Len(s) : s[j] \in Item /\ s[j] \in Int
      /\ \A p, q \in 1 .. Len(s) : p < q => s[p] < s[q]
      /\ c.stamp \in Nat /\ (IsLeaf(c) <=> l = 0)
      /\ l # 0 => d \in Seq(Names) /\ Len(d) = Len(s) /\ \A j \in 1 .. Len(s) : On(D, d[j], l - 1)
 BY <1>1, <1>2, ShapeFacts
<1>4. i \in 0 .. Len(s) /\ i \in 1 .. Len(s) /\ i < Len(s) /\ Len(s) \in 1 .. Len(s) BY <1>1, <1>3
<1>5. PICK r : r = SubSeq(s, 1, i) OBVIOUS
<1>6. r \in Seq(Item) /\ Len(r) = i /\ \A j \in 1 .. i : r[j] = s[j] BY <1>3, <1>4, <1>5, PartFacts
<1>7. DOMAIN r = 1 .. i BY <1>4, <1>6
<1>8. Ascending(r)
 <2>1. \A j \in 1 .. i : j \in 1 .. Len(s) BY <1>3, <1>4
 <2> QED BY <1>3, <1>6, <1>7, <2>1 DEF Ascending
<1>9. r # <<>> /\ Last(r) = s[i] /\ s[i] < s[Len(s)] /\ s[i] \in Int /\ s[Len(s)] \in Int /\ s[Len(s)] <= INF
 <2>1. i \in 1 .. i BY <1>4
 <2>2. r # <<>> /\ r[Len(r)] = s[i] BY <1>4, <1>6, <2>1
 <2>3. s[i] < s[Len(s)] /\ s[i] \in Int /\ s[Len(s)] \in Int /\ s[Len(s)] <= INF
  BY <1>3, <1>4, ItemsAreIntegers, ItemsUpToINF
 <2> QED BY <2>2, <2>3 DEF Last
<1>10. Last(r) # INF BY <1>9 DEF MultiwayAssumption
<1>11. PICK ch : ch = IF l = 0 THEN NoChildren ELSE SubSeq(d, 1, i) OBVIOUS
<1>12. LeftPart(c, i, right) = Made(r, ch, right, c.stamp + 1, c.stamp + 1, c.stamp + 1)
 <2>1. LeftPart(c, i, right) = [WithItems(c, r, ch) EXCEPT !.link = right]
  BY <1>1, <1>2, <1>3, <1>5, <1>11 DEF LeftPart
 <2> QED BY <1>3, <2>1, NewContentsAre
<1>13. l # 0 => ch \in Seq(Names) /\ Len(ch) = Len(r) /\ \A j \in 1 .. Len(ch) : On(D, ch[j], l - 1)
 <2>1. SUFFICES ASSUME l # 0
                PROVE  ch \in Seq(Names) /\ Len(ch) = Len(r) /\ \A j \in 1 .. Len(ch) : On(D, ch[j], l - 1)
  OBVIOUS
 <2>2. d \in Seq(Names) /\ Len(d) = Len(s) /\ i \in 0 .. Len(d) /\ \A j \in 1 .. Len(s) : On(D, d[j], l - 1)
  BY <1>3, <1>4, <2>1
 <2>3. ch = SubSeq(d, 1, i) BY <1>11, <2>1
 <2>4. ch \in Seq(Names) /\ Len(ch) = i /\ \A j \in 1 .. i : ch[j] = d[j] BY <2>2, <2>3, PartFacts
 <2>5. \A j \in 1 .. i : j \in 1 .. Len(s) BY <1>3, <1>4
 <2> QED BY <1>6, <2>2, <2>4, <2>5
<1>14. right \in Names /\ right # NoNode BY DEF On, Names, NoNode
<1>15. Shape(D, l, Made(r, ch, right, c.stamp + 1, c.stamp + 1, c.stamp + 1))
 <2>1. c.stamp + 1 \in Nat /\ c.stamp + 1 \in 0 .. c.stamp + 1 BY <1>3, NextStamp
 <2>2. l = 0 => ch = NoChildren BY <1>11
 <2>3. right = NoNode <=> r # <<>> /\ Last(r) = INF BY <1>10, <1>14
 <2> QED BY <1>6, <1>8, <1>13, <2>1, <2>2, <2>3, MadeShape
<1>16. UpperEnd(Made(r, ch, right, c.stamp + 1, c.stamp + 1, c.stamp + 1)) <= UpperEnd(c)
 <2>1. UpperEnd(Made(r, ch, right, c.stamp + 1, c.stamp + 1, c.stamp + 1)) = s[i]
  BY <1>9 DEF UpperEnd, Made
 <2>2. s # <<>> BY <1>3, <1>4
 <2>3. UpperEnd(c) = s[Len(s)] BY <1>1, <2>2 DEF UpperEnd, Last
 <2> QED BY <1>9, <2>1, <2>3
<1>17. AgesWell(c, Made(r, ch, right, c.stamp + 1, c.stamp + 1, c.stamp + 1), {"keys", "children"})
 BY MadeAgesWell
<1>18. Made(r, ch, right, c.stamp + 1, c.stamp + 1, c.stamp + 1).link = right BY DEF Made
<1> QED BY <1>12, <1>14, <1>15, <1>16, <1>17, <1>18 DEF CutAt

LEMMA RightPartShape ==
 ASSUME NEW D \in SUBSET Names, NEW l \in Nat, NEW c, Shape(D, l, c),
        NEW i \in 1 .. Len(c.items) - 1
 PROVE  LET new == RightPart(c, i)
        IN  /\ new = Made(SubSeq(c.items, i + 1, Len(c.items)),
                          IF l = 0 THEN NoChildren ELSE SubSeq(c.children, i + 1, Len(c.children)),
                          c.link, 0, 0, 0)
            /\ Shape(D, l, new)
            /\ UpperEnd(new) = UpperEnd(c)
<1>1. PICK s : s = c.items OBVIOUS
<1>2. PICK d : d = c.children OBVIOUS
<1>3. /\ c \in ContentsSet /\ s \in Seq(Item) /\ Len(s) \in Nat
      /\ \A j \in 1 .. Len(s) : s[j] \in Item /\ s[j] \in Int
      /\ \A p, q \in 1 .. Len(s) : p < q => s[p] < s[q]
      /\ (IsLeaf(c) <=> l = 0)
      /\ l # 0 => d \in Seq(Names) /\ Len(d) = Len(s) /\ \A j \in 1 .. Len(s) : On(D, d[j], l - 1)
      /\ c.link = NoNode <=> s # <<>> /\ Last(s) = INF
      /\ c.link # NoNode => On(D, c.link, l)
 BY <1>1, <1>2, ShapeFacts
<1>4. i \in 0 .. Len(s) /\ i \in Nat /\ i < Len(s) BY <1>1, <1>3
<1>5. PICK r : r = SubSeq(s, i + 1, Len(s)) OBVIOUS
<1>6. r \in Seq(Item) /\ Len(r) = Len(s) - i /\ \A j \in 1 .. Len(s) - i : r[j] = s[i + j]
 BY <1>3, <1>4, <1>5, PartFacts
<1>7. DOMAIN r = 1 .. Len(s) - i BY <1>3, <1>4, <1>6
<1>8. Ascending(r)
 <2>1. \A j \in 1 .. Len(s) - i : i + j \in 1 .. Len(s) BY <1>3, <1>4
 <2>2. \A p, q \in 1 .. Len(s) - i : p < q => i + p < i + q BY <1>3, <1>4
 <2> QED BY <1>3, <1>6, <1>7, <2>1, <2>2 DEF Ascending
<1>9. r # <<>> /\ Last(r) = Last(s) /\ s # <<>>
 <2>1. Len(s) - i \in 1 .. Len(s) - i /\ i + (Len(s) - i) = Len(s) BY <1>3, <1>4
 <2>2. r[Len(s) - i] = s[Len(s)] BY <1>6, <2>1
 <2>3. r # <<>> /\ s # <<>> BY <1>3, <1>4, <1>6
 <2> QED BY <1>6, <2>2, <2>3 DEF Last
<1>10. PICK ch : ch = IF l = 0 THEN NoChildren ELSE SubSeq(d, i + 1, Len(d)) OBVIOUS
<1>11. RightPart(c, i) = Made(r, ch, c.link, 0, 0, 0)
 BY <1>1, <1>2, <1>3, <1>5, <1>10 DEF RightPart, Contents, Made
<1>12. l # 0 => ch \in Seq(Names) /\ Len(ch) = Len(r) /\ \A j \in 1 .. Len(ch) : On(D, ch[j], l - 1)
 <2>1. SUFFICES ASSUME l # 0
                PROVE  ch \in Seq(Names) /\ Len(ch) = Len(r) /\ \A j \in 1 .. Len(ch) : On(D, ch[j], l - 1)
  OBVIOUS
 <2>2. d \in Seq(Names) /\ Len(d) = Len(s) /\ i \in 0 .. Len(d) /\ \A j \in 1 .. Len(s) : On(D, d[j], l - 1)
  BY <1>3, <1>4, <2>1
 <2>3. ch = SubSeq(d, i + 1, Len(d)) BY <1>10, <2>1
 <2>4. ch \in Seq(Names) /\ Len(ch) = Len(d) - i /\ \A j \in 1 .. Len(d) - i : ch[j] = d[i + j]
  BY <2>2, <2>3, PartFacts
 <2>5. \A j \in 1 .. Len(s) - i : i + j \in 1 .. Len(s) BY <1>3, <1>4
 <2> QED BY <1>6, <2>2, <2>4, <2>5
<1>13. Shape(D, l, Made(r, ch, c.link, 0, 0, 0))
 <2>1. l = 0 => ch = NoChildren BY <1>10
 <2>2. c.link = NoNode <=> r # <<>> /\ Last(r) = INF BY <1>3, <1>9
 <2>3. 0 \in Nat /\ 0 \in 0 .. 0 OBVIOUS
 <2> QED BY <1>3, <1>6, <1>8, <1>12, <2>1, <2>2, <2>3, MadeShape
<1>14. UpperEnd(Made(r, ch, c.link, 0, 0, 0)) = UpperEnd(c) BY <1>1, <1>9 DEF UpperEnd, Made
<1> QED BY <1>1, <1>2, <1>5, <1>10, <1>11, <1>13, <1>14

-----------------------------------------------------------------------------
(* The tree, and where a call is in it.                                    *)
TreeInv(cts, rt) ==
    /\ DOMAIN cts \in SUBSET Names /\ IsFiniteSet(DOMAIN cts)
    /\ cts = [n \in DOMAIN cts |-> cts[n]]
    /\ \A n \in DOMAIN cts : Shape(DOMAIN cts, n[1], cts[n])
    /\ rt.node \in DOMAIN cts /\ rt.height = rt.node[1]

NodeOrNone == Names \cup {NoNode}
SearchSet == [node : NodeOrNone, cts : ContentsSet]
LocalsSet ==
    [height : Nat, node : NodeOrNone, cts : ContentsSet, level : Nat, barrier : Int,
     results : {<<>>} \cup UNION {[0 .. h -> SearchSet] : h \in Nat},
     right : NodeOrNone, edit : ContentsSet, adjusted : Seq(Names), sibling : SearchSet,
     push : NodeOrNone, pushBarrier : Int, then : Labels \cup {"none"}]

(* The nodes that a call has come through at the levels from lo on. *)
ResultsFrom(D, m, lo) ==
    \A i \in 0 .. m.height : lo <= i => /\ On(D, m.results[i].node, i)
                                        /\ Shape(D, i, m.results[i].cts)

(* An add that will raise its key comes down by traverseNonLeaf, every     *)
(* other call by traverseLeaf.                                             *)
Walks(D, m, key) ==
    /\ m.height >= 1 /\ m.level >= 1 /\ m.node[1] = m.level
    /\ HasPlace(D, m.level, m.cts, key)
    /\ ResultsFrom(D, m, m.level + 1)
Visits(m) == m.height = 0 /\ m.level = 0 /\ m.barrier < INF
Removes(D, m, c) == Visits(m) /\ c.op = "remove" /\ HasPlace(D, m.node[1], m.cts, c.key)

OnInner(D, m) == m.node \in D /\ m.node[1] >= 1
Slides(D, m, c) ==
    /\ OnInner(D, m)
    /\ Walks(D, m, c.key) \/ Removes(D, m, c)
    /\ HasPlace(D, m.node[1], m.edit, c.key) /\ m.edit.link # NoNode
    /\ c.op = "remove" => m.adjusted = <<>>
SiblingRead(D, m) ==
    /\ On(D, m.sibling.node, m.node[1]) /\ Shape(D, m.node[1], m.sibling.cts)
    /\ m.sibling.cts.children # <<>>
Adjusts(D, m, c) ==
    /\ OnInner(D, m) /\ Removes(D, m, c)
    /\ HasPlace(D, m.node[1], m.edit, c.key)
    /\ \A i \in 1 .. Len(m.adjusted) : On(D, m.adjusted[i], m.node[1] - 1)

(* What a call is about to do, seen through pushRight and moveForward. *)
At(l, m) == IF l \in {"push", "forward"} THEN m.then ELSE l

AtLink(cts, D, l, m, c) ==
    /\ m.node \in D /\ (Visits(m) \/ Walks(D, m, c.key)) /\ cts[m.node].link # NoNode
    /\ c.op # "contains"
    /\ At(l, m) = "link" => /\ Shape(D, m.node[1], m.edit) /\ m.edit.link # NoNode
                            /\ On(D, m.push, m.node[1])
AtSlide(cts, D, l, m, c) ==
    /\ Slides(D, m, c)
    /\ At(l, m) = "sibling" => On(D, m.push, m.node[1]) /\ cts[m.node].link # NoNode
    /\ At(l, m) # "sibling" => SiblingRead(D, m)
    /\ At(l, m) \in {"nephew", "shiftNephew"} => On(D, m.push, m.node[1] - 1)
    /\ At(l, m) = "shiftNephew" => Walks(D, m, c.key)
AtAdjust(D, l, m, c) ==
    /\ Adjusts(D, m, c)
    /\ At(l, m) = "adjust" => /\ Len(m.adjusted) < Len(Adjusting(m.edit, c.key))
                              /\ On(D, m.push, m.node[1] - 1)
    /\ At(l, m) = "shift" => Len(m.adjusted) = Len(Adjusting(m.edit, c.key))
AtLeaf(D, l, m, c) ==
    /\ On(D, m.node, 0) /\ m.level = 0 /\ ResultsFrom(D, m, 1)
    /\ c.op = IF At(l, m) = "insert" THEN "add" ELSE "remove"
    /\ l # "forward" => HasPlace(D, 0, m.cts, c.key)
AtIndex(D, l, m, c) ==
    /\ m.level < m.height /\ ResultsFrom(D, m, m.level + 1)
    /\ At(l, m) = "split" => On(D, m.node, m.level)
    /\ At(l, m) = "raise" => On(D, m.node, m.level + 1) /\ On(D, m.right, m.level)
    /\ l # "forward" => Shape(D, m.node[1], m.cts)

Placed(cts, l, m, c) ==
    LET D == DOMAIN cts
    IN  /\ l = "root" => m.level = 0
        /\ l \in {"growRead", "grow"} => m.height >= 1
        /\ l = "grow" => On(D, m.node, m.level)
        /\ l = "scan" => m.height = 0 /\ m.node \in D
        /\ l = "visit" => Visits(m) /\ m.node \in D /\ c.op # "contains" /\ m.adjusted = <<>>
        /\ l = "walk" => /\ m.height >= 1 /\ m.node \in D /\ m.node[1] = m.level
                         /\ ResultsFrom(D, m, m.level + 1)
        /\ At(l, m) \in {"link", "linkRead"} => AtLink(cts, D, l, m, c)
        /\ At(l, m) \in {"sibling", "nephew", "shiftNephew", "slide", "unslide"} => AtSlide(cts, D, l, m, c)
        /\ At(l, m) \in {"adjust", "shift"} => AtAdjust(D, l, m, c)
        /\ l = "cleanAgain" => OnInner(D, m) /\ Removes(D, m, c)
        /\ At(l, m) \in {"insert", "remove"} => AtLeaf(D, l, m, c)
        /\ At(l, m) \in {"split", "raise"} => AtIndex(D, l, m, c)
        /\ l = "push" => /\ m.then \in {"link", "sibling", "nephew", "adjust"}
                         /\ m.pushBarrier < INF
        /\ l = "forward" => m.then \in {"insert", "remove", "split", "raise"}

Typed(D, l, m, c) ==
    /\ l \in Labels /\ m \in LocalsSet /\ {m.node, m.push, m.right} \subseteq D \cup {NoNode}
    /\ IF l = "idle" THEN c = NoCall /\ m = NoLocals ELSE c \in Abstract!SetCalls
    /\ l \notin {"idle", "done"} =>
            m.results \in [0 .. m.height -> SearchSet] /\ (c.op # "add" => m.height = 0)

LocalInv(cts, l, m, c) == Typed(DOMAIN cts, l, m, c) /\ Placed(cts, l, m, c)

(* Contents that share their keys or children carry the stamp that these   *)
(* were made with; what was given back is older than what the node has now.*)
Parts == {"contents", "keys", "children", "head"}
Age(cts, rt, n, part) ==
    CASE part = "contents" -> cts[n].stamp
      [] part = "keys" -> cts[n].keysOf
      [] part = "children" -> cts[n].childrenOf
      [] part = "head" -> rt.height
ReleasedInv(rel, cts, rt) ==
    /\ rel = [p \in DOMAIN rel |-> rel[p]]
    /\ \A p \in DOMAIN rel :
        /\ rel[p] = 1
        /\ p \in (DOMAIN cts) \X Parts \X Nat
        /\ p[3] < Age(cts, rt, p[1], p[2])

SetupCalls == [op : {"add"}, key : Keys, height : Nat] \cup [op : {"remove"}, key : Keys, height : {0}]
OthersInv ==
    /\ pc \in [Threads -> Labels] /\ my \in [Threads -> LocalsSet]
    /\ todo \in Seq(SetupCalls) /\ callsLeft \in [Threads -> Nat]
    /\ Abstract!SetTypeOK
AllLocalInv == \A t \in Threads : LocalInv(contents, pc[t], my[t], call[t])

MultiwayInv ==
    TreeInv(contents, root) /\ AllLocalInv /\ ReleasedInv(released, contents, root) /\ OthersInv

-----------------------------------------------------------------------------
(* What the tree may do to a call that is somewhere else: nodes are added, *)
(* and a node with a link keeps a link.                                    *)
Grows(cts, cts2) ==
    /\ DOMAIN cts \subseteq DOMAIN cts2
    /\ \A n \in DOMAIN cts : cts[n].link # NoNode => cts2[n].link # NoNode

LEMMA LocalInvGrows ==
 ASSUME NEW cts, NEW cts2, Grows(cts, cts2), NEW l, NEW m, NEW c, LocalInv(cts, l, m, c)
 PROVE  LocalInv(cts2, l, m, c)
<1>1. PICK D : D = DOMAIN cts OBVIOUS
<1>2. PICK E : E = DOMAIN cts2 OBVIOUS
<1>3. D \subseteq E /\ \A n \in D : cts[n].link # NoNode => cts2[n].link # NoNode
 BY <1>1, <1>2 DEF Grows
<1>4. /\ \A i, d : Shape(D, i, d) => Shape(E, i, d)
      /\ \A i, d, k : HasPlace(D, i, d, k) => HasPlace(E, i, d, k)
      /\ \A i, n : On(D, n, i) => On(E, n, i)
 BY <1>3, ShapeGrows
<1>5. /\ \A i : ResultsFrom(D, m, i) => ResultsFrom(E, m, i)
      /\ Walks(D, m, c.key) => Walks(E, m, c.key)
      /\ Removes(D, m, c) => Removes(E, m, c)
      /\ OnInner(D, m) => OnInner(E, m)
 <2>1. ASSUME NEW i PROVE ResultsFrom(D, m, i) => ResultsFrom(E, m, i) BY <1>4 DEF ResultsFrom
 <2> QED BY <1>3, <1>4, <2>1 DEF Walks, Removes, OnInner
<1>6. /\ Slides(D, m, c) => Slides(E, m, c)
      /\ SiblingRead(D, m) => SiblingRead(E, m)
      /\ Adjusts(D, m, c) => Adjusts(E, m, c)
 BY <1>4, <1>5 DEF Slides, SiblingRead, Adjusts
<1>7. AtLink(cts, D, l, m, c) => AtLink(cts2, E, l, m, c) BY <1>3, <1>4, <1>5 DEF AtLink
<1>8. AtSlide(cts, D, l, m, c) => AtSlide(cts2, E, l, m, c)
 <2>1. Slides(D, m, c) => m.node \in D BY DEF Slides, OnInner
 <2> QED BY <1>3, <1>4, <1>5, <1>6, <2>1 DEF AtSlide
<1>9. AtAdjust(D, l, m, c) => AtAdjust(E, l, m, c) BY <1>4, <1>6 DEF AtAdjust
<1>10. AtLeaf(D, l, m, c) => AtLeaf(E, l, m, c) BY <1>4, <1>5 DEF AtLeaf
<1>11. AtIndex(D, l, m, c) => AtIndex(E, l, m, c) BY <1>4, <1>5 DEF AtIndex
<1>12. Placed(cts2, l, m, c)
 <2>1. Placed(cts, l, m, c) BY DEF LocalInv
 <2> QED BY <1>1, <1>2, <1>3, <1>4, <1>5, <1>7, <1>8, <1>9, <1>10, <1>11, <2>1 DEF Placed
<1>13. Typed(E, l, m, c) BY <1>1, <1>3 DEF LocalInv, Typed
<1> QED BY <1>2, <1>12, <1>13 DEF LocalInv

(* A new node gets a name of its level. *)
LEMMA NewNamesAreNew ==
 ASSUME DOMAIN contents \in SUBSET Names, IsFiniteSet(DOMAIN contents), NEW level \in Nat
 PROVE  NewName(level) \notin DOMAIN contents /\ NewName(level) \in Names /\ NewName(level)[1] = level
<1>0. PICK N : N = DOMAIN contents OBVIOUS
<1>1. PICK C : C = Cardinality(N) OBVIOUS
<1>2. C \in Nat /\ IsFiniteSet(N) BY <1>0, <1>1, FS_CardinalityType
<1>3. PICK T : T = {i \in 1 .. C + 1 : <<level, i>> \notin N} OBVIOUS
<1>4. T # {}
 <2>1. SUFFICES ASSUME \A i \in 1 .. C + 1 : <<level, i>> \in N PROVE FALSE BY <1>3
 <2>2. PICK f : f = [i \in 1 .. C + 1 |-> <<level, i>>] OBVIOUS
 <2>3. f \in Injection(1 .. C + 1, N)
  <3>1. f \in [1 .. C + 1 -> N] BY <2>1, <2>2
  <3>2. \A i, j \in 1 .. C + 1 : f[i] = f[j] => i = j BY <2>2
  <3> QED BY <3>1, <3>2 DEF Injection, IsInjective
 <2>4. Cardinality(1 .. C + 1) <= Cardinality(N) BY <1>2, <2>3, FS_Injection
 <2>5. Cardinality(1 .. C + 1) = IF 1 > C + 1 THEN 0 ELSE C + 1 - 1 + 1
  BY <1>2, 1 \in Int, C + 1 \in Int, FS_Interval
 <2>6. Cardinality(1 .. C + 1) = C + 1 BY <1>2, <2>5
 <2> QED BY <1>1, <1>2, <2>4, <2>6
<1>5. Min(T) \in T
 <2>1. T \subseteq Nat BY <1>2, <1>3
 <2> QED BY <1>4, <2>1, LowestNatural
<1>6. NewName(level) = <<level, Min(T)>> BY <1>0, <1>1, <1>3 DEF NewName
<1>7. Min(T) \in Nat /\ <<level, Min(T)>> \notin N BY <1>2, <1>3, <1>5
<1> QED BY <1>0, <1>6, <1>7 DEF Names

-----------------------------------------------------------------------------
(* What is left of the tree when no call is under way. *)
Closed(cts, S) ==
    \A n \in S : /\ cts[n].link # NoNode => cts[n].link \in S
                 /\ \A d \in ToSet(cts[n].children) : d # NoNode => d \in S

LEMMA ReachableIsClosed ==
 ASSUME NEW cts, NEW D, D = DOMAIN cts, IsFiniteSet(D), root.node \in D, Closed(cts, D)
 PROVE  /\ Reachable(cts) \subseteq D /\ root.node \in Reachable(cts)
        /\ Closed(cts, Reachable(cts))
<1> DEFINE More(S) == S \cup UNION {({cts[n].link} \cup ToSet(cts[n].children)) \ {NoNode} : n \in S}
           Solves(f) == f = [S \in SUBSET D |-> IF More(S) = S THEN S ELSE f[More(S)]]
           Above(S) == {Z \in SUBSET D : S \subseteq Z /\ More(Z) = Z}
           Least(S) == {n \in D : \A Z \in Above(S) : n \in Z}
<1>1. ASSUME NEW S \in SUBSET D
      PROVE  S \subseteq More(S) /\ More(S) \subseteq D
 BY DEF Closed
<1>2. ASSUME NEW S, NEW Z, S \subseteq Z
      PROVE  More(S) \subseteq More(Z)
 BY <1>2
<1>3. \A S : More(S) = S => Closed(cts, S)
 <2>1. ASSUME NEW S, More(S) = S PROVE Closed(cts, S)
  <3>1. \A n \in S : ({cts[n].link} \cup ToSet(cts[n].children)) \ {NoNode} \subseteq S BY <2>1
  <3> QED BY <3>1 DEF Closed
 <2> QED BY <2>1
<1> HIDE DEF More
<1>4. PICK h : h = [S \in SUBSET D |-> Least(S)] OBVIOUS
<1>5. ASSUME NEW S \in SUBSET D
      PROVE  Least(S) = IF More(S) = S THEN S ELSE Least(More(S))
 <2>1. CASE More(S) = S
  <3>1. S \in Above(S) BY <2>1
  <3>2. \A Z \in Above(S) : S \subseteq Z OBVIOUS
  <3> QED BY <2>1, <3>1, <3>2
 <2>2. CASE More(S) # S
  <3>1. ASSUME NEW Z \in SUBSET D, More(Z) = Z
        PROVE  S \subseteq Z <=> More(S) \subseteq Z
   BY <1>1, <1>2, <3>1
  <3>2. Above(S) = Above(More(S)) BY <3>1
  <3> HIDE DEF Above
  <3> QED BY <2>2, <3>2
 <2> QED BY <2>1, <2>2
<1>6. Solves(h)
 <2> HIDE DEF Least
 <2>1. \A S \in SUBSET D : More(S) \in SUBSET D BY <1>1
 <2> QED BY <1>4, <1>5, <2>1
<1>7. PICK f : f = CHOOSE g : Solves(g) OBVIOUS
<1>8. Solves(f)
 <2> HIDE DEF Solves
 <2> QED BY <1>6, <1>7
<1>9. Reachable(cts) = f[{root.node}] BY <1>7 DEF Reachable, More
<1>10. \A S \in SUBSET D : f[S] = IF More(S) = S THEN S ELSE f[More(S)] BY <1>8
<1> DEFINE Good(S) == S \subseteq f[S] /\ f[S] \subseteq D /\ More(f[S]) = f[S]
<1> HIDE DEF Solves
<1>11. \A S \in SUBSET D : Good(S)
 <2>1. SUFFICES ASSUME \E S \in SUBSET D : ~Good(S) PROVE FALSE OBVIOUS
 <2>2. PICK T : T = {k \in Nat : \E S \in SUBSET D : ~Good(S) /\ k = Cardinality(D \ S)} OBVIOUS
 <2>3. T \subseteq Nat /\ T # {}
  <3> HIDE DEF Good
  <3>1. PICK S \in SUBSET D : ~Good(S) BY <2>1
  <3>2. Cardinality(D \ S) \in Nat BY FS_Difference, FS_CardinalityType
  <3> QED BY <2>2, <3>1, <3>2
 <2>4. Min(T) \in T /\ \A y \in T : Min(T) <= y BY <2>3, LowestNatural
 <2>5. PICK S \in SUBSET D : ~Good(S) /\ Min(T) = Cardinality(D \ S)
  <3> HIDE DEF Good
  <3> QED BY <2>2, <2>4
 <2>6. More(S) # S BY <1>10, <2>5
 <2>7. PICK R : R = More(S) OBVIOUS
 <2>8. R \in SUBSET D /\ S \subseteq R /\ R # S /\ f[S] = f[R] BY <1>1, <1>10, <2>6, <2>7
 <2>9. ~Good(R) BY <2>5, <2>8
 <2>10. Cardinality(D \ R) \in Nat /\ Cardinality(D \ R) < Cardinality(D \ S)
  <3>1. IsFiniteSet(D \ S) /\ IsFiniteSet(D \ R) BY FS_Difference
  <3>2. D \ R \subseteq D \ S /\ D \ R # D \ S BY <2>8
  <3> QED BY ONLY <3>1, <3>2, FS_Subset, FS_CardinalityType
 <2>11. Cardinality(D \ R) \in T
  <3> HIDE DEF Good
  <3> QED BY <2>2, <2>8, <2>9, <2>10
 <2>12. Cardinality(D \ S) \in Nat BY <2>3, <2>4, <2>5
 <2> QED BY ONLY <2>4, <2>5, <2>10, <2>11, <2>12
<1> QED BY <1>3, <1>9, <1>11

-----------------------------------------------------------------------------
(* What a CAS, and a new node, make of the tree. *)
LEMMA TreeReplace ==
 ASSUME NEW cts, NEW rt, TreeInv(cts, rt), NEW n \in DOMAIN cts, NEW new,
        Shape(DOMAIN cts, n[1], new), cts[n].link # NoNode => new.link # NoNode
 PROVE  /\ TreeInv([cts EXCEPT ![n] = new], rt)
        /\ Grows(cts, [cts EXCEPT ![n] = new])
<1>1. PICK x : x = [cts EXCEPT ![n] = new] OBVIOUS
<1>2. DOMAIN x = DOMAIN cts /\ \A i \in DOMAIN cts : x[i] = IF i = n THEN new ELSE cts[i]
 BY <1>1 DEF TreeInv
<1>3. x = [i \in DOMAIN x |-> x[i]] BY <1>1 DEF TreeInv
<1>4. \A i \in DOMAIN x : Shape(DOMAIN x, i[1], x[i]) BY <1>2 DEF TreeInv
<1>5. TreeInv(x, rt) BY <1>2, <1>3, <1>4 DEF TreeInv
<1>6. Grows(cts, x) BY <1>2 DEF Grows
<1> QED BY <1>1, <1>5, <1>6

WithNode(cts, rt, n, c, x) ==
    /\ DOMAIN x = DOMAIN cts \cup {n} /\ x[n] = c /\ \A i \in DOMAIN cts : x[i] = cts[i]
    /\ TreeInv(x, rt) /\ Grows(cts, x)

LEMMA TreeAdd ==
 ASSUME NEW cts, NEW rt, TreeInv(cts, rt), NEW n \in Names, n \notin DOMAIN cts, NEW c,
        Shape(DOMAIN cts \cup {n}, n[1], c)
 PROVE  WithNode(cts, rt, n, c, Adding(cts, n, c))
<1>1. PICK x : x = Adding(cts, n, c) OBVIOUS
<1>2. x = [i \in DOMAIN cts \cup {n} |-> IF i = n THEN c ELSE cts[i]] BY <1>1 DEF Adding
<1>3. DOMAIN x = DOMAIN cts \cup {n} /\ x[n] = c /\ \A i \in DOMAIN cts : x[i] = cts[i] BY <1>2
<1>4. x = [i \in DOMAIN x |-> x[i]] BY <1>2
<1>5. \A i \in DOMAIN x : Shape(DOMAIN x, i[1], x[i])
 <2>1. DOMAIN cts \subseteq DOMAIN x BY <1>3
 <2>2. \A i, d : Shape(DOMAIN cts, i, d) => Shape(DOMAIN x, i, d) BY <2>1, ShapeGrows
 <2> QED BY <1>3, <2>2 DEF TreeInv
<1>6. IsFiniteSet(DOMAIN x) BY <1>3, FS_AddElement DEF TreeInv
<1>7. TreeInv(x, rt) BY <1>3, <1>4, <1>5, <1>6 DEF TreeInv
<1>8. Grows(cts, x) BY <1>3 DEF Grows
<1> QED BY <1>1, <1>3, <1>7, <1>8 DEF WithNode

(* What is given back is what the node had, and for the first time. *)
LEMMA ReleasedMore ==
 ASSUME NEW rel, NEW cts, NEW rt, ReleasedInv(rel, cts, rt), NEW cts2, NEW rt2, NEW X,
        DOMAIN cts \subseteq DOMAIN cts2,
        \A p \in DOMAIN rel : p[3] < Age(cts, rt, p[1], p[2]) => p[3] < Age(cts2, rt2, p[1], p[2]),
        \A p \in X : /\ p \in (DOMAIN cts2) \X Parts \X Nat
                     /\ p[3] < Age(cts2, rt2, p[1], p[2])
                     /\ ~(p[3] < Age(cts, rt, p[1], p[2]))
 PROVE  ReleasedInv(rel (+) SetToBag(X), cts2, rt2)
<1>1. PICK b : b = SetToBag(X) OBVIOUS
<1>2. DOMAIN b = X /\ \A p \in X : b[p] = 1 BY <1>1 DEF SetToBag
<1>3. X \cap DOMAIN rel = {} BY DEF ReleasedInv
<1>4. PICK r : r = rel (+) b OBVIOUS
<1>5. r = [p \in DOMAIN rel \cup DOMAIN b |->
              (IF p \in DOMAIN rel THEN rel[p] ELSE 0) + (IF p \in DOMAIN b THEN b[p] ELSE 0)]
 BY <1>4 DEF (+)
<1>6. DOMAIN r = DOMAIN rel \cup X BY <1>2, <1>5
<1>7. ASSUME NEW p \in DOMAIN r
      PROVE  r[p] = 1 /\ p \in (DOMAIN cts2) \X Parts \X Nat /\ p[3] < Age(cts2, rt2, p[1], p[2])
 <2>1. r[p] = (IF p \in DOMAIN rel THEN rel[p] ELSE 0) + (IF p \in DOMAIN b THEN b[p] ELSE 0)
  BY <1>5, <1>6, <1>2
 <2>2. CASE p \in DOMAIN rel
  <3>1. rel[p] = 1 /\ p \in (DOMAIN cts) \X Parts \X Nat /\ p[3] < Age(cts, rt, p[1], p[2])
   BY <2>2 DEF ReleasedInv
  <3>2. p \notin DOMAIN b BY <1>2, <1>3, <2>2
  <3>3. r[p] = 1 BY <2>1, <2>2, <3>1, <3>2
  <3>4. p \in (DOMAIN cts2) \X Parts \X Nat BY <3>1
  <3> QED BY <2>2, <3>1, <3>3, <3>4
 <2>3. CASE p \notin DOMAIN rel
  <3>1. p \in X /\ b[p] = 1 /\ p \in DOMAIN b BY <1>2, <1>6, <2>3
  <3>2. r[p] = 1 BY <2>1, <2>3, <3>1
  <3> QED BY <3>1, <3>2
 <2> QED BY <2>2, <2>3
<1>8. r = [p \in DOMAIN r |-> r[p]] BY <1>5
<1>9. ReleasedInv(r, cts2, rt2) BY <1>7, <1>8 DEF ReleasedInv
<1> QED BY <1>1, <1>4, <1>9

PointersOf(n, c, freed) == {Pointer(n, c, part) : part \in freed}

LEMMA ReleasedReplace ==
 ASSUME NEW cts, NEW rt, TreeInv(cts, rt),
        NEW rel, ReleasedInv(rel, cts, rt), NEW n \in DOMAIN cts, NEW c, c = cts[n], NEW new,
        NEW freed \in SUBSET {"contents", "keys", "children"}, AgesWell(c, new, freed)
 PROVE  ReleasedInv(rel (+) SetToBag(PointersOf(n, c, freed)), [cts EXCEPT ![n] = new], rt)
<1>0. /\ new.stamp = c.stamp + 1 /\ new.keysOf \in Nat /\ new.childrenOf \in Nat
      /\ new.keysOf >= c.keysOf /\ new.childrenOf >= c.childrenOf
      /\ "keys" \in freed => new.keysOf = c.stamp + 1
      /\ "children" \in freed => new.childrenOf = c.stamp + 1
 BY DEF AgesWell
<1>1. PICK x : x = [cts EXCEPT ![n] = new] OBVIOUS
<1>2. DOMAIN x = DOMAIN cts /\ x[n] = new /\ \A i \in DOMAIN cts : i # n => x[i] = cts[i]
 BY <1>1 DEF TreeInv
<1>3. c.stamp \in Nat /\ c.keysOf \in 0 .. c.stamp /\ c.childrenOf \in 0 .. c.stamp
 <2>1. Shape(DOMAIN cts, n[1], c) /\ DOMAIN cts \in SUBSET Names /\ n[1] \in Nat
  BY DEF TreeInv, Names
 <2> QED BY <2>1, ShapeFacts
<1>4. PICK X : X = PointersOf(n, c, freed) OBVIOUS
<1>5. ASSUME NEW p \in DOMAIN rel, p[3] < Age(cts, rt, p[1], p[2])
      PROVE  p[3] < Age(x, rt, p[1], p[2])
 <2>1. p \in (DOMAIN cts) \X Parts \X Nat BY DEF ReleasedInv
 <2>2. p[2] \in Parts /\ p[3] \in Nat /\ p[1] \in DOMAIN cts BY <2>1
 <2>3. CASE p[1] # n BY <1>2, <1>5, <2>2, <2>3 DEF Age
 <2>4. CASE p[1] = n
  <3>1. p[2] = "contents" => p[3] < c.stamp /\ Age(x, rt, p[1], p[2]) = c.stamp + 1
   BY <1>0, <1>2, <1>5, <2>4 DEF Age
  <3>2. p[2] = "keys" => p[3] < c.keysOf /\ Age(x, rt, p[1], p[2]) = new.keysOf
   BY <1>2, <1>5, <2>4 DEF Age
  <3>3. p[2] = "children" => p[3] < c.childrenOf /\ Age(x, rt, p[1], p[2]) = new.childrenOf
   BY <1>2, <1>5, <2>4 DEF Age
  <3>4. p[2] = "head" => p[3] < Age(x, rt, p[1], p[2]) BY <1>5 DEF Age
  <3> QED BY <1>0, <1>3, <2>2, <3>1, <3>2, <3>3, <3>4 DEF Parts
 <2> QED BY <2>3, <2>4
<1>6. ASSUME NEW p \in X
      PROVE  /\ p \in (DOMAIN x) \X Parts \X Nat
             /\ p[3] < Age(x, rt, p[1], p[2])
             /\ ~(p[3] < Age(cts, rt, p[1], p[2]))
 <2>1. PICK part \in freed : p = Pointer(n, c, part) BY <1>4 DEF PointersOf
 <2>2. CASE part = "contents"
  <3>1. p = <<n, "contents", c.stamp>> BY <2>1, <2>2 DEF Pointer
  <3>2. Age(x, rt, n, "contents") = c.stamp + 1 /\ Age(cts, rt, n, "contents") = c.stamp
   BY <1>0, <1>2 DEF Age
  <3> QED BY <1>2, <1>3, <3>1, <3>2 DEF Parts
 <2>3. CASE part = "keys"
  <3>1. p = <<n, "keys", c.keysOf>> BY <2>1, <2>3 DEF Pointer
  <3>2. Age(x, rt, n, "keys") = c.stamp + 1 /\ Age(cts, rt, n, "keys") = c.keysOf
   BY <1>0, <1>2, <2>3 DEF Age
  <3> QED BY <1>2, <1>3, <3>1, <3>2 DEF Parts
 <2>4. CASE part = "children"
  <3>1. p = <<n, "children", c.childrenOf>> BY <2>1, <2>4 DEF Pointer
  <3>2. Age(x, rt, n, "children") = c.stamp + 1 /\ Age(cts, rt, n, "children") = c.childrenOf
   BY <1>0, <1>2, <2>4 DEF Age
  <3> QED BY <1>2, <1>3, <3>1, <3>2 DEF Parts
 <2> QED BY <2>2, <2>3, <2>4
<1>7. ReleasedInv(rel (+) SetToBag(X), x, rt) BY <1>2, <1>5, <1>6, ReleasedMore
<1> QED BY <1>1, <1>4, <1>7

-----------------------------------------------------------------------------
(* A step of t, and the calls of the others. *)
GivesUp(cts, cts2) ==
    \A n \in DOMAIN cts \cap DOMAIN cts2 : UpperEnd(cts2[n]) <= UpperEnd(cts[n])

LEMMA LocalsStep ==
 ASSUME OthersInv, AllLocalInv, NEW cts, cts = contents', Grows(contents, cts),
        NEW t \in Threads, NEW label, NEW m, NEW c,
        pc' = [pc EXCEPT ![t] = label], my' = [my EXCEPT ![t] = m],
        call' = [call EXCEPT ![t] = c], LocalInv(cts, label, m, c)
 PROVE  AllLocalInv' /\ pc' \in [Threads -> Labels] /\ my' \in [Threads -> LocalsSet]
<1>1. ASSUME NEW u \in Threads
      PROVE  LocalInv(cts, pc'[u], my'[u], call'[u])
 <2>1. CASE u = t BY <2>1 DEF OthersInv, Abstract!SetTypeOK
 <2>2. CASE u # t
  <3>1. pc'[u] = pc[u] /\ my'[u] = my[u] /\ call'[u] = call[u]
   BY <2>2 DEF OthersInv, Abstract!SetTypeOK
  <3>2. LocalInv(contents, pc[u], my[u], call[u]) BY DEF AllLocalInv
  <3>3. LocalInv(cts, pc[u], my[u], call[u]) BY <3>2, LocalInvGrows
  <3> QED BY <3>1, <3>3
 <2> QED BY <2>1, <2>2
<1>2. label \in Labels /\ m \in LocalsSet BY DEF LocalInv, Typed
<1> QED BY <1>1, <1>2 DEF AllLocalInv, OthersInv

LEMMA UnchangedAsExcept ==
 ASSUME NEW S, NEW f, f \in [Threads -> S], NEW t \in Threads
 PROVE  f = [f EXCEPT ![t] = f[t]]
 OBVIOUS

LEMMA GrowsItself ==
 ASSUME NEW cts
 PROVE  Grows(cts, cts)
 BY DEF Grows

LEMMA GivesUpNothing ==
 ASSUME NEW cts, NEW rt, TreeInv(cts, rt)
 PROVE  GivesUp(cts, cts)
<1>1. SUFFICES ASSUME NEW n \in DOMAIN cts PROVE UpperEnd(cts[n]) <= UpperEnd(cts[n]) BY DEF GivesUp
<1>2. Shape(DOMAIN cts, n[1], cts[n]) /\ DOMAIN cts \in SUBSET Names /\ n[1] \in Nat
 BY DEF TreeInv, Names
<1>3. UpperEnd(cts[n]) \in Int BY <1>2, UpperEndOf
<1> QED BY <1>3

(* Only the locals of t change. *)
LEMMA QuietStep ==
 ASSUME MultiwayInv, NEW t \in Threads,
        UNCHANGED <<shared, history, bounds>>, NEW label, NEW m,
        pc' = [pc EXCEPT ![t] = label], my' = [my EXCEPT ![t] = m],
        LocalInv(contents, label, m, call[t])
 PROVE  MultiwayInv' /\ GivesUp(contents, contents')
<1>1. contents' = contents /\ root' = root /\ released' = released /\ call' = call
      /\ answers' = answers /\ result' = result /\ todo' = todo /\ callsLeft' = callsLeft
 BY DEF shared, history, bounds
<1>2. call' = [call EXCEPT ![t] = call[t]]
 <2>1. call \in [Threads -> Abstract!SetCalls \cup {Abstract!NoCall}]
  BY DEF MultiwayInv, OthersInv, Abstract!SetTypeOK
 <2> QED BY <1>1, <2>1, UnchangedAsExcept
<1>3. AllLocalInv' /\ pc' \in [Threads -> Labels] /\ my' \in [Threads -> LocalsSet]
 <2>1. Grows(contents, contents') BY <1>1, GrowsItself
 <2>2. LocalInv(contents', label, m, call[t]) BY <1>1
 <2>3. PICK cts : cts = contents' OBVIOUS
 <2>4. Grows(contents, cts) /\ LocalInv(cts, label, m, call[t]) BY <2>1, <2>2, <2>3
 <2> QED BY <1>2, <2>3, <2>4, LocalsStep DEF MultiwayInv
<1>4. TreeInv(contents', root') /\ ReleasedInv(released', contents', root') BY <1>1 DEF MultiwayInv
<1>5. todo' \in Seq(SetupCalls) /\ callsLeft' \in [Threads -> Nat]
 BY <1>1 DEF MultiwayInv, OthersInv
<1>6. Abstract!SetTypeOK' BY <1>1 DEF MultiwayInv, OthersInv, Abstract!SetTypeOK, KeysIn
<1>7. OthersInv' BY <1>3, <1>5, <1>6 DEF OthersInv
<1>8. GivesUp(contents, contents') BY <1>1, GivesUpNothing DEF MultiwayInv
<1> QED BY <1>3, <1>4, <1>7, <1>8 DEF MultiwayInv

(* t replaces the contents of a node; cts are the contents that it builds  *)
(* on, with a new node when it splits one.                                 *)
LEMMA ReplaceStep ==
 ASSUME MultiwayInv, NEW t \in Threads,
        NEW cts, TreeInv(cts, root), Grows(contents, cts), ReleasedInv(released, cts, root),
        \A i \in DOMAIN contents : cts[i] = contents[i],
        NEW n \in DOMAIN contents, NEW c, contents[n] = c, NEW new, Shape(DOMAIN cts, n[1], new),
        UpperEnd(new) <= UpperEnd(c), c.link # NoNode => new.link # NoNode,
        NEW parts \in SUBSET {"keys", "children"}, AgesWell(c, new, parts),
        ReplaceIn(cts, t, n, c, new, parts), NEW label, NEW m,
        pc' = [pc EXCEPT ![t] = label], my' = [my EXCEPT ![t] = m],
        LocalInv(cts, label, m, call[t])
 PROVE  MultiwayInv' /\ GivesUp(contents, contents')
<1>0. PICK freed : freed = {"contents"} \cup IF IsLeaf(c) THEN parts \ {"children"} ELSE parts
 OBVIOUS
<1>1. PICK changed : changed = [cts EXCEPT ![n] = new] OBVIOUS
<1>2. /\ contents' = changed
      /\ released' = released (+) SetToBag(PointersOf(n, c, freed))
      /\ root' = root
      /\ answers' = IF KeysIn(changed) = KeysIn(contents) THEN answers
                    ELSE Abstract!AnswersAfter(t, KeysIn(changed))
      /\ call' = call /\ result' = result /\ todo' = todo /\ callsLeft' = callsLeft
 BY <1>0, <1>1 DEF ReplaceIn, PointersOf, bounds
<1>3. n \in DOMAIN cts /\ cts[n] = c BY DEF Grows
<1>4. TreeInv(changed, root) /\ Grows(cts, changed) BY <1>1, <1>3, TreeReplace
<1>6. ReleasedInv(released', changed, root)
 <2>1. freed \in SUBSET {"contents", "keys", "children"} BY <1>0
 <2>2. AgesWell(c, new, freed) BY <1>0 DEF AgesWell
 <2>3. ReleasedInv(released (+) SetToBag(PointersOf(n, c, freed)), changed, root)
  BY <1>1, <1>3, <2>1, <2>2, ReleasedReplace
 <2> QED BY <1>2, <2>3
<1>7. Grows(contents, changed) BY <1>4 DEF Grows
<1>8. AllLocalInv' /\ pc' \in [Threads -> Labels] /\ my' \in [Threads -> LocalsSet]
 <2>1. call \in [Threads -> Abstract!SetCalls \cup {Abstract!NoCall}]
  BY DEF MultiwayInv, OthersInv, Abstract!SetTypeOK
 <2>2. call' = [call EXCEPT ![t] = call[t]] BY <1>2, <2>1, UnchangedAsExcept
 <2>3. LocalInv(changed, label, m, call[t]) BY <1>4, LocalInvGrows
 <2> QED BY <1>2, <1>7, <2>2, <2>3, LocalsStep DEF MultiwayInv
<1>9. Abstract!SetTypeOK'
 <2>1. answers \in [Threads -> SUBSET BOOLEAN] /\ call \in [Threads -> Abstract!SetCalls \cup {Abstract!NoCall}]
       /\ result \in [Threads -> Abstract!Results]
  BY DEF MultiwayInv, OthersInv, Abstract!SetTypeOK
 <2>2. ASSUME NEW d, NEW S PROVE Abstract!Observed(d, S) \subseteq BOOLEAN
  <3>1. d.op = "contains" => Abstract!Observed(d, S) = {d.key \in S} BY DEF Abstract!Observed
  <3>2. d.op = "add" => Abstract!Observed(d, S) = IF d.key \in S THEN {FALSE} ELSE {}
   BY DEF Abstract!Observed
  <3>3. d.op = "remove" => Abstract!Observed(d, S) = IF d.key \in S THEN {} ELSE {FALSE}
   BY DEF Abstract!Observed
  <3>4. d.op \notin {"contains", "add", "remove"} => Abstract!Observed(d, S) = {}
   BY DEF Abstract!Observed
  <3>5. {d.key \in S} \subseteq BOOLEAN OBVIOUS
  <3> QED BY <3>1, <3>2, <3>3, <3>4, <3>5
 <2>3. ASSUME NEW S PROVE Abstract!AnswersAfter(t, S) \in [Threads -> SUBSET BOOLEAN]
  <3>1. ASSUME NEW u \in Threads
        PROVE  (IF u = t THEN {TRUE}
                ELSE IF Abstract!Applied(call[u], answers[u]) THEN answers[u]
                ELSE answers[u] \cup Abstract!Observed(call[u], S)) \in SUBSET BOOLEAN
   <4>1. answers[u] \in SUBSET BOOLEAN BY <2>1
   <4>2. answers[u] \cup Abstract!Observed(call[u], S) \in SUBSET BOOLEAN BY <4>1, <2>2
   <4> QED BY <4>1, <4>2
  <3> QED BY <3>1 DEF Abstract!AnswersAfter
 <2>4. answers' \in [Threads -> SUBSET BOOLEAN] BY <1>2, <2>1, <2>3
 <2>5. KeysIn(contents)' \subseteq Keys BY DEF KeysIn
 <2> QED BY <1>2, <2>1, <2>4, <2>5 DEF Abstract!SetTypeOK
<1>10. OthersInv' BY <1>2, <1>8, <1>9 DEF MultiwayInv, OthersInv
<1>11. GivesUp(contents, changed)
 <2>1. SUFFICES ASSUME NEW i \in DOMAIN contents PROVE UpperEnd(changed[i]) <= UpperEnd(contents[i])
  BY DEF GivesUp
 <2>2. CASE i = n
  <3>1. changed[i] = new BY <1>1, <1>3, <2>2
  <3> QED BY <2>2, <3>1
 <2>3. CASE i # n
  <3>1. i \in DOMAIN cts /\ changed[i] = contents[i] BY <1>1, <2>3 DEF Grows
  <3>2. UpperEnd(contents[i]) <= UpperEnd(contents[i]) BY GivesUpNothing DEF MultiwayInv, GivesUp
  <3> QED BY <3>1, <3>2
 <2> QED BY <2>2, <2>3
<1> QED BY <1>2, <1>4, <1>6, <1>8, <1>10, <1>11 DEF MultiwayInv

-----------------------------------------------------------------------------
(* The locals that a step makes, field by field. *)
LEMMA EmptyIsTyped ==
    /\ NoContents \in ContentsSet /\ NoSearch \in SearchSet /\ NoNode \in NodeOrNone
    /\ <<>> \in Seq(Names) /\ EMPTY \in Int => NoLocals \in LocalsSet
<1>1. NoContents \in ContentsSet
 <2>1. <<>> \in Seq(Item) OBVIOUS
 <2>2. <<NoNode>> \in Seq(Names \cup {NoNode})
  <3>1. PICK N : N = Names \cup {NoNode} OBVIOUS
  <3>2. NoNode \in N BY <3>1
  <3>3. <<NoNode>> \in Seq(N) BY <3>2
  <3> QED BY <3>1, <3>3
 <2> QED BY <2>1, <2>2 DEF NoContents, Contents, ContentsSet, NoChildren
<1>2. NoNode \in NodeOrNone BY DEF NodeOrNone
<1>3. NoSearch \in SearchSet BY <1>1, <1>2 DEF NoSearch, Search, SearchSet
<1>4. <<>> \in Seq(Names) /\ <<>> \in {<<>>} \cup UNION {[0 .. h -> SearchSet] : h \in Nat} OBVIOUS
<1>5. EMPTY \in Int => NoLocals \in LocalsSet
 <2>1. PICK R : R = {<<>>} \cup UNION {[0 .. h -> SearchSet] : h \in Nat} OBVIOUS
 <2>2. PICK A : A = Seq(Names) OBVIOUS
 <2>3. PICK e : e = <<>> OBVIOUS
 <2>4. e \in R /\ e \in A BY <1>4, <2>1, <2>2, <2>3
 <2>5. NoLocals = [height |-> 0, node |-> NoNode, cts |-> NoContents, level |-> 0, barrier |-> EMPTY,
                   results |-> e, right |-> NoNode, edit |-> NoContents, adjusted |-> e,
                   sibling |-> NoSearch, push |-> NoNode, pushBarrier |-> EMPTY, then |-> "none"]
  BY <2>3 DEF NoLocals
 <2>6. LocalsSet =
         [height : Nat, node : NodeOrNone, cts : ContentsSet, level : Nat, barrier : Int,
          results : R, right : NodeOrNone, edit : ContentsSet, adjusted : A, sibling : SearchSet,
          push : NodeOrNone, pushBarrier : Int, then : Labels \cup {"none"}]
  BY <2>1, <2>2 DEF LocalsSet
 <2>7. 0 \in Nat /\ "none" \in Labels \cup {"none"} OBVIOUS
 <2> HIDE DEF NoContents, NoNode, NoSearch
 <2> QED BY <1>1, <1>2, <1>3, <2>4, <2>5, <2>6, <2>7
<1> QED BY <1>1, <1>2, <1>3, <1>4, <1>5

LEMMA ResultsTyped ==
 ASSUME NEW h \in Nat, NEW r \in [0 .. h -> SearchSet]
 PROVE  r \in {<<>>} \cup UNION {[0 .. k -> SearchSet] : k \in Nat}
 OBVIOUS

LEMMA OuterIs ==
 ASSUME NEW t \in Threads, my[t] \in LocalsSet
 PROVE  /\ Outer(t) \in LocalsSet
        /\ Outer(t).height = my[t].height /\ Outer(t).level = my[t].level
        /\ Outer(t).results = my[t].results /\ Outer(t).node = NoNode
        /\ Outer(t).push = NoNode /\ Outer(t).right = NoNode /\ Outer(t).barrier = EMPTY
        /\ Outer(t).cts = NoContents /\ Outer(t).adjusted = <<>> /\ Outer(t).then = "none"
<1>1. PICK n : n = NoLocals OBVIOUS
<1>2. n \in LocalsSet /\ n.node = NoNode /\ n.push = NoNode /\ n.right = NoNode /\ n.barrier = EMPTY
      /\ n.cts = NoContents /\ n.adjusted = <<>> /\ n.then = "none"
 BY <1>1, EmptyIsTyped DEF NoLocals, MultiwayAssumption
<1>3. PICK m : m = my[t] OBVIOUS
<1>4. m \in LocalsSet BY <1>3
<1>5. PICK a : a = [n EXCEPT !.height = m.height] OBVIOUS
<1>6. a \in LocalsSet /\ a.height = m.height /\ a.node = NoNode /\ a.push = NoNode /\ a.right = NoNode
      /\ a.barrier = EMPTY /\ a.cts = NoContents /\ a.adjusted = <<>> /\ a.then = "none"
 BY <1>2, <1>4, <1>5 DEF LocalsSet
<1>7. PICK b : b = [a EXCEPT !.level = m.level] OBVIOUS
<1>8. b \in LocalsSet /\ b.height = m.height /\ b.level = m.level /\ b.node = NoNode /\ b.push = NoNode
      /\ b.right = NoNode /\ b.barrier = EMPTY /\ b.cts = NoContents /\ b.adjusted = <<>> /\ b.then = "none"
 BY <1>4, <1>6, <1>7 DEF LocalsSet
<1>9. PICK d : d = [b EXCEPT !.results = m.results] OBVIOUS
<1>10. d \in LocalsSet /\ d.height = m.height /\ d.level = m.level /\ d.results = m.results
       /\ d.node = NoNode /\ d.push = NoNode /\ d.right = NoNode
       /\ d.barrier = EMPTY /\ d.cts = NoContents /\ d.adjusted = <<>> /\ d.then = "none"
 BY <1>4, <1>8, <1>9 DEF LocalsSet
<1>11. Outer(t) = d BY <1>1, <1>3, <1>5, <1>7, <1>9 DEF Outer, Height
<1> QED BY <1>3, <1>10, <1>11

-----------------------------------------------------------------------------
(* Where the next step of a call leads. *)
Going(D, m, c) ==
    /\ D \in SUBSET Names /\ m \in LocalsSet /\ c \in Abstract!SetCalls
    /\ {m.node, m.push, m.right} \subseteq D \cup {NoNode}
    /\ m.results \in [0 .. m.height -> SearchSet] /\ (c.op # "add" => m.height = 0)

Arrives(t, label, m) ==
    /\ pc' = [pc EXCEPT ![t] = label] /\ my' = [my EXCEPT ![t] = m]
    /\ LocalInv(contents, label, m, call[t])

LEMMA PlacedAs ==
 ASSUME NEW cts, NEW l \in Labels \ {"idle"}, NEW m, NEW c,
        Going(DOMAIN cts, m, c), Placed(cts, l, m, c)
 PROVE  LocalInv(cts, l, m, c)
 BY DEF LocalInv, Typed, Going

LEMMA CallFacts ==
 ASSUME MultiwayInv, NEW t \in Threads, pc[t] # "idle", pc[t] # "done"
 PROVE  /\ Going(DOMAIN contents, my[t], call[t])
        /\ Placed(contents, pc[t], my[t], call[t])
        /\ call[t].key \in Keys /\ call[t].op \in {"add", "remove", "contains"}
        /\ call[t].key \in Int /\ EMPTY \in Int /\ INF \in Int /\ EMPTY < INF
        /\ EMPTY < call[t].key /\ call[t].key < INF
        /\ TreeInv(contents, root)
<1>1. LocalInv(contents, pc[t], my[t], call[t]) /\ TreeInv(contents, root)
 BY DEF MultiwayInv, AllLocalInv
<1>2. Going(DOMAIN contents, my[t], call[t]) BY <1>1 DEF LocalInv, Typed, TreeInv, Going
<1>3. call[t].key \in Keys /\ call[t].op \in {"add", "remove", "contains"}
 BY <1>2 DEF Going, Abstract!SetCalls
<1>4. call[t].key \in Int /\ EMPTY \in Int /\ INF \in Int /\ EMPTY < INF
      /\ EMPTY < call[t].key /\ call[t].key < INF
 <2>1. PICK k : k = call[t].key OBVIOUS
 <2>2. k \in Keys BY <1>3, <2>1
 <2>3. k \in Int /\ EMPTY \in Int /\ INF \in Int /\ EMPTY < k /\ k < INF
  BY <2>2 DEF MultiwayAssumption
 <2>4. EMPTY < INF BY <2>3
 <2> QED BY <2>1, <2>3, <2>4
<1> QED BY <1>1, <1>2, <1>3, <1>4 DEF LocalInv

LEMMA NodeRead ==
 ASSUME NEW cts, NEW rt, TreeInv(cts, rt), NEW n \in DOMAIN cts
 PROVE  /\ DOMAIN cts \in SUBSET Names /\ n \in Names /\ n # NoNode /\ n[1] \in Nat
        /\ Shape(DOMAIN cts, n[1], cts[n])
 BY DEF TreeInv, Names, NoNode

LEMMA BeyondHasLink ==
 ASSUME NEW D \in SUBSET Names, NEW l \in Nat, NEW c, Shape(D, l, c),
        NEW key \in Keys, Beyond(c, key)
 PROVE  c.link # NoNode /\ On(D, c.link, l)
<1>1. key \in Int /\ key < INF /\ INF \in Int BY DEF MultiwayAssumption
<1>2. c.items = <<>> \/ Last(c.items) < key BY <1>1, ShapeFacts, BeyondFacts
<1>3. ~(c.items # <<>> /\ Last(c.items) = INF) BY <1>1, <1>2
<1> QED BY <1>3, ShapeFacts

LEMMA ChildIsOn ==
 ASSUME NEW D \in SUBSET Names, NEW l \in Nat, NEW c, NEW key \in Keys,
        HasPlace(D, l, c, key), l # 0
 PROVE  On(D, ChildFor(c, key), l - 1) /\ l - 1 \in Nat
<1>1. key \in Int /\ Shape(D, l, c) /\ ~Beyond(c, key) BY DEF MultiwayAssumption, HasPlace
<1>2. Index(c, key) \in 1 .. Len(c.items) BY <1>1, ShapeFacts, BeyondFacts
<1>3. On(D, c.children[Index(c, key)], l - 1) BY <1>1, <1>2, ShapeFacts
<1> QED BY <1>3 DEF ChildFor

LEMMA GoOnArrives ==
 ASSUME NEW t \in Threads, Going(DOMAIN contents, my[t], call[t]), my[t].height = 0,
        NEW label \in {"visit", "scan"}, NEW node \in DOMAIN contents, NEW barrier \in Int, barrier < INF,
        label = "visit" => my[t].level = 0 /\ call[t].op # "contains",
        GoOn(t, label, node, barrier)
 PROVE  \E m : Arrives(t, label, m)
<1>1. PICK o : o = Outer(t) OBVIOUS
<1>2. /\ o \in LocalsSet /\ o.height = 0 /\ o.level = my[t].level /\ o.results = my[t].results
      /\ o.push = NoNode /\ o.right = NoNode /\ o.then = "none" /\ o.adjusted = <<>>
 BY <1>1, OuterIs DEF Going
<1>3. PICK m : m = [o EXCEPT !.node = node, !.barrier = barrier] OBVIOUS
<1>4. node \in Names BY DEF Going
<1>5. /\ m \in LocalsSet /\ m.height = 0 /\ m.level = my[t].level /\ m.results = my[t].results
      /\ m.push = NoNode /\ m.right = NoNode /\ m.node = node /\ m.barrier = barrier /\ m.then = "none"
      /\ m.adjusted = <<>>
 <2>1. /\ m \in LocalsSet /\ m.node = node /\ m.barrier = barrier
       /\ m.height = o.height /\ m.level = o.level /\ m.adjusted = o.adjusted
       /\ m.results = o.results /\ m.right = o.right /\ m.push = o.push /\ m.then = o.then
  BY <1>2, <1>3, <1>4 DEF LocalsSet, NodeOrNone
 <2> QED BY <1>2, <2>1
<1>6. pc' = [pc EXCEPT ![t] = label] /\ my' = [my EXCEPT ![t] = m]
 BY <1>1, <1>3 DEF GoOn, GoTo, Become
<1>7. Going(DOMAIN contents, m, call[t]) BY <1>5 DEF Going
<1>8. Placed(contents, label, m, call[t]) BY <1>5 DEF Placed, At, Visits
<1>9. label \in Labels \ {"idle"} BY DEF Labels
<1> QED BY <1>6, <1>7, <1>8, <1>9, PlacedAs DEF Arrives

LEMMA DownArrives ==
 ASSUME MultiwayInv, NEW t \in Threads, pc[t] \notin {"idle", "done"},
        OnInner(DOMAIN contents, my[t]), Removes(DOMAIN contents, my[t], call[t]), Down(t)
 PROVE  \E m : Arrives(t, "visit", m)
<1>1. /\ Going(DOMAIN contents, my[t], call[t]) /\ call[t].key \in Keys
      /\ EMPTY \in Int /\ EMPTY < INF /\ TreeInv(contents, root)
 BY CallFacts
<1>2. HasPlace(DOMAIN contents, my[t].node[1], my[t].cts, call[t].key) /\ my[t].height = 0
      /\ my[t].level = 0 /\ call[t].op = "remove"
 BY DEF Removes, Visits
<1>3. my[t].node[1] \in Nat /\ my[t].node[1] # 0 BY <1>1, NodeRead DEF OnInner
<1>4. On(DOMAIN contents, ChildFor(my[t].cts, call[t].key), my[t].node[1] - 1)
 BY <1>1, <1>2, <1>3, ChildIsOn DEF Going
<1>5. GoOn(t, "visit", ChildFor(my[t].cts, call[t].key), EMPTY) BY DEF Down, Key
<1> QED BY <1>1, <1>2, <1>4, <1>5, GoOnArrives DEF On

LEMMA HigherLevel ==
 ASSUME NEW i \in Int, NEW j \in Int, j - 1 + 1 <= i, i # j
 PROVE  j + 1 <= i
 OBVIOUS

LEMMA SamaritanArrives ==
 ASSUME NEW t \in Threads, NEW D, D = DOMAIN contents,
        Going(D, my[t], call[t]), NEW level, level = my[t].level, level >= 1,
        my[t].height >= 1, my[t].node[1] = level, my[t].node \in D,
        ResultsFrom(D, my[t], level + 1),
        NEW from, HasPlace(D, level, from, call[t].key), NEW c, Shape(D, level, c),
        SamaritanReturns(t, from, c)
 PROVE  \E m : Arrives(t, "walk", m)
<1>1. PICK o : o = Outer(t) OBVIOUS
<1>2. PICK v : v = my[t] OBVIOUS
<1>3. /\ o \in LocalsSet /\ o.height = v.height /\ o.level = level /\ o.results = v.results
      /\ o.push = NoNode /\ o.right = NoNode /\ o.then = "none"
 BY <1>1, <1>2, OuterIs DEF Going
<1>4. v.height \in Nat /\ level \in Nat /\ v.node \in Names /\ v.results \in [0 .. v.height -> SearchSet]
 BY <1>2 DEF Going, LocalsSet
<1>5. PICK child : child = ChildFor(from, call[t].key) OBVIOUS
<1>6. On(D, child, level - 1) /\ level - 1 \in Nat
 <2>1. call[t].key \in Keys /\ D \in SUBSET Names BY DEF Going, Abstract!SetCalls
 <2>2. level # 0 BY <1>4
 <2> QED BY <1>4, <1>5, <2>1, <2>2, ChildIsOn
<1>7. PICK s : s = Search(v.node, c) OBVIOUS
<1>8. s \in SearchSet /\ s.node = v.node /\ s.cts = c
 BY <1>4, <1>7 DEF Search, SearchSet, NodeOrNone, Shape
<1>9. PICK r : r = IF level <= v.height THEN [v.results EXCEPT ![level] = s] ELSE v.results OBVIOUS
<1>10. /\ r \in [0 .. v.height -> SearchSet]
       /\ \A i \in 0 .. v.height : r[i] = IF i = level THEN s ELSE v.results[i]
 <2>1. PICK h : h = v.height OBVIOUS
 <2>2. PICK w : w = v.results OBVIOUS
 <2>3. h \in Nat /\ w \in [0 .. h -> SearchSet] /\ r = IF level <= h THEN [w EXCEPT ![level] = s] ELSE w
  BY <1>4, <1>9, <2>1, <2>2
 <2>4. CASE level <= h BY <1>4, <1>8, <2>1, <2>2, <2>3, <2>4
 <2>5. CASE ~(level <= h) BY <1>4, <2>1, <2>2, <2>3, <2>5
 <2> QED BY <2>4, <2>5
<1>11. ASSUME NEW i \in 0 .. v.height, level - 1 + 1 <= i
       PROVE  On(D, r[i].node, i) /\ Shape(D, i, r[i].cts)
 <2>1. CASE i = level
  <3>1. r[i] = s BY <1>10, <2>1
  <3>2. On(D, v.node, level) BY <1>2 DEF On
  <3> QED BY <1>8, <2>1, <3>1, <3>2
 <2>2. CASE i # level
  <3>1. r[i] = v.results[i] /\ level + 1 <= i
   <4>1. r[i] = v.results[i] BY <1>10, <2>2
   <4>2. level + 1 <= i
    <5>1. i \in Int /\ level \in Int /\ level - 1 + 1 <= i BY <1>4, <1>11
    <5> QED BY <2>2, <5>1, HigherLevel
   <4> QED BY <4>1, <4>2
  <3>2. On(D, v.results[i].node, i) /\ Shape(D, i, v.results[i].cts) BY <1>2, <3>1 DEF ResultsFrom
  <3> QED BY <3>1, <3>2
 <2> QED BY <2>1, <2>2
<1>12. PICK a : a = [o EXCEPT !.node = child] OBVIOUS
<1>13. /\ a \in LocalsSet /\ a.height = v.height /\ a.node = child /\ a.results = v.results
       /\ a.push = NoNode /\ a.right = NoNode
 <2>1. child \in NodeOrNone BY <1>6 DEF On, NodeOrNone, Going
 <2> QED BY <1>3, <1>12, <2>1 DEF LocalsSet
<1>14. PICK b : b = [a EXCEPT !.level = level - 1] OBVIOUS
<1>15. /\ b \in LocalsSet /\ b.height = v.height /\ b.node = child /\ b.results = v.results
       /\ b.level = level - 1 /\ b.push = NoNode /\ b.right = NoNode
 BY <1>6, <1>13, <1>14 DEF LocalsSet
<1>16. PICK m : m = [b EXCEPT !.results = r] OBVIOUS
<1>17. /\ m \in LocalsSet /\ m.height = v.height /\ m.node = child /\ m.results = r
       /\ m.level = level - 1 /\ m.push = NoNode /\ m.right = NoNode
 <2>1. r \in {<<>>} \cup UNION {[0 .. k -> SearchSet] : k \in Nat} BY <1>4, <1>10, ResultsTyped
 <2> QED BY <1>15, <1>16, <2>1 DEF LocalsSet
<1>18. pc' = [pc EXCEPT ![t] = "walk"] /\ my' = [my EXCEPT ![t] = m]
 <2>1. m = [o EXCEPT !.node = child, !.level = level - 1, !.results = r] BY <1>12, <1>14, <1>16
 <2>2. r = IF level <= v.height THEN [o.results EXCEPT ![level] = s] ELSE o.results BY <1>3, <1>9
 <2> QED BY <1>1, <1>2, <1>5, <1>7, <2>1, <2>2 DEF SamaritanReturns, GoTo, Become, Key
<1>19. Going(D, m, call[t])
 <2>1. child \in D BY <1>6 DEF On
 <2> QED BY <1>2, <1>10, <1>17, <2>1 DEF Going
<1>20. Placed(contents, "walk", m, call[t])
 <2>1. ResultsFrom(D, m, level - 1 + 1) BY <1>11, <1>17 DEF ResultsFrom
 <2> QED BY <1>2, <1>6, <1>17, <2>1 DEF Placed, At, On
<1> QED BY <1>18, <1>19, <1>20, PlacedAs DEF Arrives, Labels

(* pushRight is entered with everything else as it was. *)
SameCall(x, v) ==
    /\ x.height = v.height /\ x.node = v.node /\ x.cts = v.cts /\ x.level = v.level
    /\ x.barrier = v.barrier /\ x.results = v.results /\ x.right = v.right /\ x.edit = v.edit
    /\ x.adjusted = v.adjusted /\ x.sibling = v.sibling

LEMMA SameCallFacts ==
 ASSUME NEW D, NEW x, NEW v, SameCall(x, v), NEW c
 PROVE  /\ \A lo : ResultsFrom(D, v, lo) => ResultsFrom(D, x, lo)
        /\ Walks(D, v, c.key) => Walks(D, x, c.key)
        /\ Visits(v) => Visits(x)
        /\ Removes(D, v, c) => Removes(D, x, c)
        /\ Slides(D, v, c) => Slides(D, x, c)
        /\ SiblingRead(D, v) => SiblingRead(D, x)
        /\ Adjusts(D, v, c) => Adjusts(D, x, c)
<1>1. \A lo : ResultsFrom(D, v, lo) => ResultsFrom(D, x, lo) BY DEF SameCall, ResultsFrom
<1>2. Walks(D, v, c.key) => Walks(D, x, c.key) BY <1>1 DEF SameCall, Walks
<1>3. (Visits(v) => Visits(x)) /\ (Removes(D, v, c) => Removes(D, x, c))
 BY DEF SameCall, Visits, Removes
<1>4. Slides(D, v, c) => Slides(D, x, c) BY <1>2, <1>3 DEF SameCall, Slides, OnInner
<1>5. SiblingRead(D, v) => SiblingRead(D, x) BY DEF SameCall, SiblingRead
<1>6. Adjusts(D, v, c) => Adjusts(D, x, c) BY <1>3 DEF SameCall, Adjusts, OnInner
<1> QED BY <1>1, <1>2, <1>3, <1>4, <1>5, <1>6

PushedTo(t, D, v, node, then, x) ==
    /\ SameCall(x, v) /\ x.push = node /\ x.then = then
    /\ pc' = [pc EXCEPT ![t] = "push"] /\ my' = [my EXCEPT ![t] = x]
    /\ (/\ then = "link" => AtLink(contents, D, "push", x, call[t])
        /\ then \in {"sibling", "nephew"} => AtSlide(contents, D, "push", x, call[t])
        /\ then = "adjust" => AtAdjust(D, "push", x, call[t]))
            => LocalInv(contents, "push", x, call[t])

LEMMA PushArrives ==
 ASSUME NEW t \in Threads, NEW D, D = DOMAIN contents, NEW v, Going(D, v, call[t]),
        NEW node \in D, NEW barrier \in Int, barrier < INF,
        NEW then \in {"link", "sibling", "nephew", "adjust"},
        PushRightFrom(t, v, node, barrier, then)
 PROVE  \E x : PushedTo(t, D, v, node, then, x)
<1>1. PICK x : x = [v EXCEPT !.push = node, !.pushBarrier = barrier, !.then = then] OBVIOUS
<1>2. v \in LocalsSet /\ node \in Names /\ then \in Labels \cup {"none"} BY DEF Going, Labels
<1>3. /\ x \in LocalsSet /\ x.push = node /\ x.pushBarrier = barrier /\ x.then = then /\ SameCall(x, v)
 BY <1>1, <1>2 DEF LocalsSet, NodeOrNone, SameCall
<1>4. pc' = [pc EXCEPT ![t] = "push"] /\ my' = [my EXCEPT ![t] = x]
 BY <1>1 DEF PushRightFrom, GoTo, Become
<1>5. Going(D, x, call[t]) BY <1>3 DEF Going, SameCall
<1>6. ASSUME /\ then = "link" => AtLink(contents, D, "push", x, call[t])
             /\ then \in {"sibling", "nephew"} => AtSlide(contents, D, "push", x, call[t])
             /\ then = "adjust" => AtAdjust(D, "push", x, call[t])
      PROVE  LocalInv(contents, "push", x, call[t])
 <2>1. Placed(contents, "push", x, call[t]) BY <1>3, <1>6 DEF Placed, At
 <2> QED BY <1>5, <2>1, PlacedAs DEF Labels
<1> QED BY <1>3, <1>4, <1>6 DEF PushedTo

LEMMA LinkPushArrives ==
 ASSUME EMPTY < INF, NEW t \in Threads, NEW D, D = DOMAIN contents, NEW v, Going(D, v, call[t]),
        v.node \in D, Visits(v) \/ Walks(D, v, call[t].key), contents[v.node].link # NoNode,
        call[t].op # "contains",
        Shape(D, v.node[1], v.edit), v.edit.link # NoNode,
        NEW node, On(D, node, v.node[1]), PushRightFrom(t, v, node, EMPTY, "link")
 PROVE  \E x : Arrives(t, "push", x)
<1>1. EMPTY \in Int /\ node \in D BY DEF MultiwayAssumption, On
<1>2. PICK x : /\ SameCall(x, v) /\ x.push = node /\ x.then = "link"
               /\ pc' = [pc EXCEPT ![t] = "push"] /\ my' = [my EXCEPT ![t] = x]
               /\ AtLink(contents, D, "push", x, call[t]) => LocalInv(contents, "push", x, call[t])
 <2>1. PICK x : PushedTo(t, D, v, node, "link", x) BY <1>1, PushArrives
 <2> QED BY <2>1 DEF PushedTo
<1>3. AtLink(contents, D, "push", x, call[t])
 <2>1. Visits(x) \/ Walks(D, x, call[t].key) BY <1>2, SameCallFacts
 <2> QED BY <1>2, <2>1 DEF AtLink, SameCall
<1> QED BY <1>2, <1>3 DEF Arrives

LEMMA SiblingPushArrives ==
 ASSUME EMPTY < INF, NEW t \in Threads, NEW D, D = DOMAIN contents,
        NEW v, Going(D, v, call[t]), Slides(D, v, call[t]), contents[v.node].link # NoNode,
        NEW node, On(D, node, v.node[1]), PushRightFrom(t, v, node, EMPTY, "sibling")
 PROVE  \E x : Arrives(t, "push", x)
<1>1. EMPTY \in Int /\ node \in D BY DEF MultiwayAssumption, On
<1>2. PICK x : /\ SameCall(x, v) /\ x.push = node /\ x.then = "sibling"
               /\ pc' = [pc EXCEPT ![t] = "push"] /\ my' = [my EXCEPT ![t] = x]
               /\ AtSlide(contents, D, "push", x, call[t]) => LocalInv(contents, "push", x, call[t])
 <2>1. PICK x : PushedTo(t, D, v, node, "sibling", x) BY <1>1, PushArrives
 <2> QED BY <2>1 DEF PushedTo
<1>3. AtSlide(contents, D, "push", x, call[t])
 <2>1. Slides(D, x, call[t]) BY <1>2, SameCallFacts
 <2> QED BY <1>2, <2>1 DEF AtSlide, SameCall, At
<1> QED BY <1>2, <1>3 DEF Arrives

LEMMA NephewPushArrives ==
 ASSUME NEW t \in Threads, NEW D, D = DOMAIN contents,
        NEW v, Going(D, v, call[t]), Slides(D, v, call[t]), SiblingRead(D, v),
        NEW node, On(D, node, v.node[1] - 1), NEW barrier \in Int, barrier < INF,
        PushRightFrom(t, v, node, barrier, "nephew")
 PROVE  \E x : Arrives(t, "push", x)
<1>1. node \in D BY DEF On
<1>2. PICK x : /\ SameCall(x, v) /\ x.push = node /\ x.then = "nephew"
               /\ pc' = [pc EXCEPT ![t] = "push"] /\ my' = [my EXCEPT ![t] = x]
               /\ AtSlide(contents, D, "push", x, call[t]) => LocalInv(contents, "push", x, call[t])
 <2>1. PICK x : PushedTo(t, D, v, node, "nephew", x) BY <1>1, PushArrives
 <2> QED BY <2>1 DEF PushedTo
<1>3. AtSlide(contents, D, "push", x, call[t])
 <2>1. Slides(D, x, call[t]) /\ SiblingRead(D, x) BY <1>2, SameCallFacts
 <2> QED BY <1>2, <2>1 DEF AtSlide, SameCall, At
<1> QED BY <1>2, <1>3 DEF Arrives

(* A left barrier is below INF. *)
LEMMA BarrierFacts ==
 ASSUME EMPTY < INF, NEW D \in SUBSET Names, NEW l \in Nat,
        NEW c, Shape(D, l, c), NEW i \in 1 .. Len(c.items), NEW barrier \in Int, barrier < INF
 PROVE  BarrierOf(c, i, barrier) \in Int /\ BarrierOf(c, i, barrier) < INF
<1>1. PICK s : s = c.items OBVIOUS
<1>2. /\ s \in Seq(Item) /\ Len(s) \in Nat
      /\ \A j \in 1 .. Len(s) : s[j] \in Item /\ s[j] \in Int
      /\ \A p, q \in 1 .. Len(s) : p < q => s[p] < s[q]
 BY <1>1, ShapeFacts
<1>3. EMPTY \in Int /\ INF \in Int BY DEF MultiwayAssumption
<1>4. CASE i > 1
 <2>1. i - 1 \in 1 .. Len(s) /\ i \in 1 .. Len(s) /\ i - 1 < i BY <1>1, <1>2, <1>4
 <2>2. s[i - 1] < s[i] /\ s[i - 1] \in Int /\ s[i] \in Int /\ s[i] <= INF
  BY <1>2, <2>1, ItemsAreIntegers, ItemsUpToINF
 <2>3. BarrierOf(c, i, barrier) = s[i - 1] BY <1>1, <1>4 DEF BarrierOf
 <2> QED BY <1>3, <2>2, <2>3
<1>5. CASE ~(i > 1)
 <2>1. BarrierOf(c, i, barrier) \in {EMPTY, barrier} BY <1>5 DEF BarrierOf
 <2> QED BY <1>3, <2>1
<1> QED BY <1>4, <1>5

LEMMA AdjustArrives ==
 ASSUME EMPTY < INF, NEW t \in Threads, NEW D, D = DOMAIN contents,
        NEW v, Going(D, v, call[t]), Adjusts(D, v, call[t]),
        Len(v.adjusted) < Len(Adjusting(v.edit, call[t].key)), Adjust(t, v)
 PROVE  \E x : Arrives(t, "push", x)
<1>1. PICK c : c = v.edit OBVIOUS
<1>2. PICK l : l = v.node[1] OBVIOUS
<1>3. PICK key : key = call[t].key OBVIOUS
<1>4. key \in Keys /\ D \in SUBSET Names /\ v \in LocalsSet /\ v.node \in D /\ v.node \in Names
 BY <1>3 DEF Going, Abstract!SetCalls, Adjusts, OnInner
<1>5. l \in Nat /\ l >= 1 /\ l # 0 /\ HasPlace(D, l, c, key) /\ v.barrier < INF /\ v.barrier \in Int
 BY <1>1, <1>2, <1>3, <1>4 DEF Adjusts, OnInner, Removes, Visits, LocalsSet, Names
<1>6. PICK ix : ix = Adjusting(c, key) OBVIOUS
<1>7. PICK q : q = Len(v.adjusted) + 1 OBVIOUS
<1>8. Len(ix) \in 1 .. 2 /\ \A j \in 1 .. Len(ix) : ix[j] \in 1 .. Len(c.items)
 BY <1>4, <1>5, <1>6, AdjustingFacts
<1>9. q \in 1 .. Len(ix)
 <2>1. Len(v.adjusted) \in Nat BY <1>4 DEF LocalsSet
 <2> QED BY <1>1, <1>3, <1>6, <1>7, <1>8, <2>1
<1>10. PICK i : i = ix[q] OBVIOUS
<1>11. i \in 1 .. Len(c.items) BY <1>8, <1>9, <1>10
<1>12. Shape(D, l, c) BY <1>5 DEF HasPlace
<1>13. On(D, c.children[i], l - 1) BY <1>4, <1>5, <1>11, <1>12, ShapeFacts
<1>14. BarrierOf(c, i, v.barrier) \in Int /\ BarrierOf(c, i, v.barrier) < INF
 BY <1>4, <1>5, <1>11, <1>12, BarrierFacts
<1>15. PushRightFrom(t, v, c.children[i], BarrierOf(c, i, v.barrier), "adjust")
 BY <1>1, <1>3, <1>6, <1>7, <1>10 DEF Adjust, Key
<1>16. c.children[i] \in D BY <1>13 DEF On
<1>17. PICK x : /\ SameCall(x, v) /\ x.push = c.children[i] /\ x.then = "adjust"
                /\ pc' = [pc EXCEPT ![t] = "push"] /\ my' = [my EXCEPT ![t] = x]
                /\ AtAdjust(D, "push", x, call[t]) => LocalInv(contents, "push", x, call[t])
 <2>1. PICK x : PushedTo(t, D, v, c.children[i], "adjust", x) BY <1>14, <1>15, <1>16, PushArrives
 <2> QED BY <2>1 DEF PushedTo
<1>18. AtAdjust(D, "push", x, call[t])
 <2>1. Adjusts(D, x, call[t]) BY <1>17, SameCallFacts
 <2> QED BY <1>2, <1>13, <1>17, <2>1 DEF AtAdjust, SameCall, At
<1> QED BY <1>17, <1>18 DEF Arrives

LEMMA AdjustsSome ==
 ASSUME NEW D \in SUBSET Names, NEW l \in Nat, NEW c,
        NEW key \in Keys, HasPlace(D, l, c, key), NEW adjusted, adjusted = <<>>
 PROVE  Len(adjusted) < Len(Adjusting(c, key))
<1>1. PICK k : k = Len(Adjusting(c, key)) OBVIOUS
<1>2. k \in 1 .. 2 BY <1>1, AdjustingFacts
<1>3. 0 < k BY <1>2
<1>4. Len(adjusted) = 0 OBVIOUS
<1> QED BY <1>1, <1>3, <1>4

LEMMA CleanNodeArrives ==
 ASSUME EMPTY < INF, NEW t \in Threads, NEW D, D = DOMAIN contents,
        NEW v, Going(D, v, call[t]), OnInner(D, v), Removes(D, v, call[t]),
        HasPlace(D, v.node[1], v.edit, call[t].key), v.adjusted = <<>>,
        v.edit.link # NoNode => contents[v.node].link # NoNode, CleanNode(t, v)
 PROVE  \E x : Arrives(t, "push", x)
<1>1. call[t].key \in Keys /\ D \in SUBSET Names /\ v.node[1] \in Nat
 BY DEF Going, Abstract!SetCalls, OnInner, Names
<1>2. CASE Len(v.edit.items) <= 2 /\ v.edit.link # NoNode
 <2>1. PushRightFrom(t, v, v.edit.link, EMPTY, "sibling") BY <1>2 DEF CleanNode
 <2>2. Slides(D, v, call[t]) BY <1>2 DEF Slides
 <2>3. On(D, v.edit.link, v.node[1]) BY <1>1, <1>2, ShapeFacts DEF HasPlace
 <2> QED BY <1>2, <2>1, <2>2, <2>3, SiblingPushArrives
<1>3. CASE ~(Len(v.edit.items) <= 2 /\ v.edit.link # NoNode)
 <2>1. Adjust(t, v) BY <1>3 DEF CleanNode
 <2>2. Adjusts(D, v, call[t]) BY DEF Adjusts
 <2>4. Len(v.adjusted) < Len(Adjusting(v.edit, call[t].key)) BY <1>1, AdjustsSome
 <2> QED BY <2>1, <2>2, <2>4, AdjustArrives
<1> QED BY <1>2, <1>3

LEMMA LinkCleanedArrives ==
 ASSUME NEW t \in Threads, NEW D, D = DOMAIN contents, Going(D, my[t], call[t]), my[t].node \in D,
        Visits(my[t]) \/ Walks(D, my[t], call[t].key), call[t].op # "contains",
        NEW c, Shape(D, my[t].node[1], c), c.link # NoNode, LinkCleaned(t, c)
 PROVE  \E label, m : Arrives(t, label, m)
<1>1. D \in SUBSET Names /\ my[t].node[1] \in Nat /\ my[t] \in LocalsSet BY DEF Going, Names
<1>2. CASE my[t].height = 0
 <2>1. Visits(my[t]) BY <1>2 DEF Walks
 <2>2. c.link \in D BY <1>1, ShapeFacts DEF On
 <2>3. GoOn(t, "visit", c.link, my[t].barrier) BY <1>2 DEF LinkCleaned, Height
 <2>4. my[t].barrier \in Int /\ my[t].barrier < INF /\ my[t].level = 0
  BY <1>1, <2>1 DEF Visits, LocalsSet
 <2> QED BY <1>2, <2>2, <2>3, <2>4, GoOnArrives
<1>3. CASE my[t].height # 0
 <2>1. Walks(D, my[t], call[t].key) BY <1>3 DEF Visits
 <2>2. SamaritanReturns(t, my[t].cts, c) BY <1>3 DEF LinkCleaned, Height
 <2>3. PICK level : level = my[t].level OBVIOUS
 <2>4. /\ level >= 1 /\ my[t].height >= 1 /\ my[t].node[1] = level
       /\ ResultsFrom(D, my[t], level + 1) /\ HasPlace(D, level, my[t].cts, call[t].key)
  BY <2>1, <2>3 DEF Walks
 <2>5. \E m : Arrives(t, "walk", m) BY <2>2, <2>3, <2>4, SamaritanArrives
 <2> QED BY <2>5
<1> QED BY <1>2, <1>3

LEMMA WalkOnArrives ==
 ASSUME NEW t \in Threads, NEW D, D = DOMAIN contents,
        Going(D, my[t], call[t]), my[t].node \in D, Walks(D, my[t], call[t].key),
        NEW c, Shape(D, my[t].node[1], c), SamaritanReturns(t, my[t].cts, c)
 PROVE  \E m : Arrives(t, "walk", m)
<1>1. PICK level : level = my[t].level OBVIOUS
<1>2. /\ level >= 1 /\ my[t].height >= 1 /\ my[t].node[1] = level
      /\ ResultsFrom(D, my[t], level + 1) /\ HasPlace(D, level, my[t].cts, call[t].key)
 BY <1>1 DEF Walks
<1> QED BY <1>1, <1>2, SamaritanArrives

LEMMA SlidesAs ==
 ASSUME NEW D, NEW m, NEW c, Going(D, m, c), Slides(D, m, c)
 PROVE  /\ OnInner(D, m) /\ m.node \in D
        /\ c.op = "remove" => Removes(D, m, c) /\ m.adjusted = <<>>
        /\ c.op # "remove" => Walks(D, m, c.key)
<1>1. OnInner(D, m) /\ (Walks(D, m, c.key) \/ Removes(D, m, c)) /\ (c.op = "remove" => m.adjusted = <<>>)
 BY DEF Slides
<1>2. c.op = "remove" => ~Walks(D, m, c.key) BY DEF Going, Walks
<1>3. c.op # "remove" => ~Removes(D, m, c) BY DEF Removes
<1> QED BY <1>1, <1>2, <1>3 DEF OnInner

LEMMA SlideReturnsArrives ==
 ASSUME MultiwayInv, NEW t \in Threads, pc[t] \notin {"idle", "done"},
        NEW D, D = DOMAIN contents, Slides(D, my[t], call[t]),
        NEW c, Shape(D, my[t].node[1], c), SlideReturns(t, c)
 PROVE  \E label, m : Arrives(t, label, m)
<1>1. Going(D, my[t], call[t]) BY CallFacts
<1>2. /\ OnInner(D, my[t]) /\ my[t].node \in D
      /\ call[t].op = "remove" => Removes(D, my[t], call[t])
      /\ call[t].op # "remove" => Walks(D, my[t], call[t].key)
 BY <1>1, SlidesAs
<1>3. CASE call[t].op = "remove"
 <2>1. Down(t) BY <1>3 DEF SlideReturns, Removing
 <2>2. \E m : Arrives(t, "visit", m) BY <1>2, <1>3, <2>1, DownArrives
 <2> QED BY <2>2
<1>4. CASE call[t].op # "remove"
 <2>1. SamaritanReturns(t, my[t].cts, c) BY <1>4 DEF SlideReturns, Removing
 <2>2. \E m : Arrives(t, "walk", m) BY <1>1, <1>2, <1>4, <2>1, WalkOnArrives
 <2> QED BY <2>2
<1> QED BY <1>3, <1>4

LEMMA NoSlideArrives ==
 ASSUME MultiwayInv, NEW t \in Threads, pc[t] \notin {"idle", "done"},
        NEW D, D = DOMAIN contents, Slides(D, my[t], call[t]), NoSlide(t)
 PROVE  \E label, m : Arrives(t, label, m)
<1>1. Going(D, my[t], call[t]) /\ EMPTY < INF /\ call[t].key \in Keys BY CallFacts
<1>2. /\ OnInner(D, my[t]) /\ my[t].node \in D
      /\ call[t].op = "remove" => Removes(D, my[t], call[t]) /\ my[t].adjusted = <<>>
      /\ call[t].op # "remove" => Walks(D, my[t], call[t].key)
 BY <1>1, SlidesAs
<1>3. CASE call[t].op = "remove"
 <2>1. PICK v : v = [my[t] EXCEPT !.sibling = NoSearch] OBVIOUS
 <2>2. Adjust(t, v) BY <1>3, <2>1 DEF NoSlide, Removing
 <2>3. my[t] \in LocalsSet /\ NoSearch \in SearchSet BY <1>1, EmptyIsTyped DEF Going
 <2>4. /\ v \in LocalsSet /\ v.height = my[t].height /\ v.node = my[t].node /\ v.cts = my[t].cts
       /\ v.level = my[t].level /\ v.barrier = my[t].barrier /\ v.results = my[t].results
       /\ v.right = my[t].right /\ v.edit = my[t].edit /\ v.adjusted = my[t].adjusted
       /\ v.push = my[t].push
  BY <2>1, <2>3 DEF LocalsSet
 <2>5. Going(D, v, call[t]) BY <1>1, <2>4 DEF Going
 <2>6. HasPlace(D, v.node[1], v.edit, call[t].key) BY <2>4 DEF Slides
 <2>7. Adjusts(D, v, call[t]) BY <1>2, <1>3, <2>4, <2>6 DEF Adjusts, OnInner, Removes, Visits
 <2>9. Len(v.adjusted) < Len(Adjusting(v.edit, call[t].key))
  <3>1. D \in SUBSET Names /\ v.node[1] \in Nat BY <2>5, <2>7 DEF Going, Adjusts, OnInner, Names
  <3>2. v.adjusted = <<>> BY <1>2, <1>3, <2>4
  <3> QED BY <1>1, <2>6, <3>1, <3>2, AdjustsSome
 <2>10. \E x : Arrives(t, "push", x) BY <1>1, <2>2, <2>5, <2>7, <2>9, AdjustArrives
 <2> QED BY <2>10
<1>4. CASE call[t].op # "remove"
 <2>1. SamaritanReturns(t, my[t].cts, my[t].cts) BY <1>4 DEF NoSlide, Removing
 <2>2. Shape(D, my[t].node[1], my[t].cts) BY <1>2, <1>4 DEF Walks, HasPlace
 <2>3. \E m : Arrives(t, "walk", m) BY <1>1, <1>2, <1>4, <2>1, <2>2, WalkOnArrives
 <2> QED BY <2>3
<1> QED BY <1>3, <1>4

LEMMA DonePlaced ==
 ASSUME NEW D, NEW m, NEW c, Going(D, m, c), NEW cts
 PROVE  LocalInv(cts, "done", NoLocals, c)
<1>1. NoLocals \in LocalsSet BY EmptyIsTyped DEF MultiwayAssumption
<1>2. NoLocals.node = NoNode /\ NoLocals.push = NoNode /\ NoLocals.right = NoNode BY DEF NoLocals
<1>3. Typed(DOMAIN cts, "done", NoLocals, c) BY <1>1, <1>2 DEF Typed, Going, Labels
<1>4. Placed(cts, "done", NoLocals, c) BY DEF Placed, At
<1> QED BY <1>3, <1>4 DEF LocalInv

LEMMA LevelDoneArrives ==
 ASSUME NEW t \in Threads, NEW D, D = DOMAIN contents,
        Going(D, my[t], call[t]), NEW level, level = my[t].level, level < my[t].height,
        NEW r \in [0 .. my[t].height -> SearchSet],
        \A i \in 0 .. my[t].height : level + 1 <= i => /\ On(D, r[i].node, i)
                                                       /\ Shape(D, i, r[i].cts),
        LevelDone(t, r)
 PROVE  \E label, m : Arrives(t, label, m)
<1>1. PICK h : h = my[t].height OBVIOUS
<1>2. h \in Nat /\ level \in Nat /\ level + 1 \in 0 .. h /\ level < h BY <1>1 DEF Going, LocalsSet
<1>3. CASE level + 1 = h
 <2>1. pc' = [pc EXCEPT ![t] = "done"] /\ my' = [my EXCEPT ![t] = NoLocals]
  BY <1>1, <1>3 DEF LevelDone, GoTo, Become
 <2>2. LocalInv(contents, "done", NoLocals, call[t]) BY DonePlaced
 <2> QED BY <2>1, <2>2 DEF Arrives
<1>4. CASE level + 1 # h
 <2>1. PICK s : s = r[level + 1] OBVIOUS
 <2>2. s \in SearchSet /\ On(D, s.node, level + 1) /\ Shape(D, level + 1, s.cts)
  <3>1. PICK i : i = level + 1 OBVIOUS
  <3>2. i \in 0 .. my[t].height /\ level + 1 <= i BY <1>1, <1>2, <3>1
  <3>3. On(D, r[i].node, i) /\ Shape(D, i, r[i].cts) /\ r[i] \in SearchSet BY <3>2
  <3> QED BY <2>1, <3>1, <3>3
 <2>3. PICK o : o = Outer(t) OBVIOUS
 <2>4. o \in LocalsSet /\ o.height = h /\ o.push = NoNode /\ o.right = NoNode
  BY <1>1, <2>3, OuterIs DEF Going
 <2>5. PICK a : a = [o EXCEPT !.level = level + 1] OBVIOUS
 <2>6. a \in LocalsSet /\ a.height = h /\ a.level = level + 1 /\ a.push = NoNode /\ a.right = NoNode
  <3>1. PICK i : i = level + 1 OBVIOUS
  <3>2. i \in Nat /\ a = [o EXCEPT !.level = i] BY <1>2, <2>5, <3>1
  <3> QED BY <2>4, <3>1, <3>2 DEF LocalsSet
 <2>7. PICK b : b = [a EXCEPT !.results = r] OBVIOUS
 <2>8. b \in LocalsSet /\ b.height = h /\ b.level = level + 1 /\ b.push = NoNode /\ b.right = NoNode
       /\ b.results = r
  <3>1. r \in {<<>>} \cup UNION {[0 .. k -> SearchSet] : k \in Nat} BY <1>1, <1>2, ResultsTyped
  <3> QED BY <2>6, <2>7, <3>1 DEF LocalsSet
 <2>9. PICK d : d = [b EXCEPT !.node = s.node] OBVIOUS
 <2>10. d \in LocalsSet /\ d.height = h /\ d.level = level + 1 /\ d.push = NoNode /\ d.right = NoNode
        /\ d.results = r /\ d.node = s.node
  <3>1. s.node \in NodeOrNone BY <2>2 DEF SearchSet
  <3> QED BY <2>8, <2>9, <3>1 DEF LocalsSet
 <2>11. PICK m : m = [d EXCEPT !.cts = s.cts] OBVIOUS
 <2>12. m \in LocalsSet /\ m.height = h /\ m.level = level + 1 /\ m.push = NoNode /\ m.right = NoNode
        /\ m.results = r /\ m.node = s.node /\ m.cts = s.cts
  <3>1. s.cts \in ContentsSet BY <2>2 DEF SearchSet
  <3> QED BY <2>10, <2>11, <3>1 DEF LocalsSet
 <2>13. pc' = [pc EXCEPT ![t] = "split"] /\ my' = [my EXCEPT ![t] = m]
  <3>1. m = [o EXCEPT !.level = level + 1, !.results = r, !.node = s.node, !.cts = s.cts]
   BY <2>5, <2>7, <2>9, <2>11
  <3> QED BY <1>1, <1>4, <2>1, <2>3, <3>1 DEF LevelDone, GoTo, Become
 <2>14. Going(D, m, call[t]) BY <1>1, <2>2, <2>12 DEF Going, On
 <2>15. Placed(contents, "split", m, call[t])
  <3>1. level + 1 < h BY <1>2, <1>4
  <3>2. ResultsFrom(D, m, level + 1 + 1)
   <4>1. ASSUME NEW i \in 0 .. h, level + 1 + 1 <= i PROVE level + 1 <= i BY <1>2, <4>1
   <4> QED BY <1>1, <2>12, <4>1 DEF ResultsFrom
  <3>3. m.node[1] = level + 1 /\ On(D, m.node, level + 1) /\ Shape(D, m.node[1], m.cts)
   BY <2>2, <2>12 DEF On
  <3>4. AtIndex(D, "split", m, call[t]) BY <2>12, <3>1, <3>2, <3>3 DEF AtIndex, At
  <3> QED BY <3>4 DEF Placed, At
 <2> QED BY <2>13, <2>14, <2>15, PlacedAs DEF Arrives, Labels
<1> QED BY <1>3, <1>4

-----------------------------------------------------------------------------
(* The steps, one by one. *)
Kept == MultiwayInv' /\ GivesUp(contents, contents')

LEMMA QuietArrives ==
 ASSUME MultiwayInv, NEW t \in Threads,
        UNCHANGED <<shared, history, bounds>>, \E label, m : Arrives(t, label, m)
 PROVE  Kept
<1>1. PICK label, m : Arrives(t, label, m) OBVIOUS
<1> QED BY <1>1, QuietStep DEF Arrives, Kept

LEMMA StayArrives ==
 ASSUME MultiwayInv, NEW t \in Threads, NEW label, GoTo(t, label), UNCHANGED my,
        LocalInv(contents, label, my[t], call[t])
 PROVE  \E l, m : Arrives(t, l, m)
<1>1. my' = [my EXCEPT ![t] = my[t]]
 <2>1. my \in [Threads -> LocalsSet] BY DEF MultiwayInv, OthersInv
 <2> QED BY <2>1, UnchangedAsExcept
<1>2. Arrives(t, label, my[t]) BY <1>1 DEF Arrives, GoTo
<1> QED BY <1>2

LEMMA BecomeArrives ==
 ASSUME MultiwayInv, NEW t \in Threads, NEW m, Become(t, m), UNCHANGED pc,
        LocalInv(contents, pc[t], m, call[t])
 PROVE  \E l, x : Arrives(t, l, x)
<1>1. pc' = [pc EXCEPT ![t] = pc[t]]
 <2>1. pc \in [Threads -> Labels] BY DEF MultiwayInv, OthersInv
 <2> QED BY <2>1, UnchangedAsExcept
<1>2. Arrives(t, pc[t], m) BY <1>1 DEF Arrives, Become
<1> QED BY <1>2

AtRoot(t) == [my[t] EXCEPT !.node = root.node, !.level = root.height]

LEMMA FromRoot ==
 ASSUME TreeInv(contents, root), NEW t \in Threads,
        Going(DOMAIN contents, my[t], call[t]), my[t].height >= 1,
        NEW label \in {"walk", "grow"}, label = "walk" => my[t].height <= root.height,
        GoTo(t, label), Become(t, AtRoot(t))
 PROVE  \E l, m : Arrives(t, l, m)
<1>0. PICK v : v = AtRoot(t) OBVIOUS
<1>1. PICK D : D = DOMAIN contents OBVIOUS
<1>2. PICK m : m = my[t] OBVIOUS
<1>3. PICK n : n = root.node OBVIOUS
<1>4. PICK h : h = root.height OBVIOUS
<1>5. D \in SUBSET Names /\ n \in D /\ n \in Names /\ h = n[1] /\ h \in Nat
 BY <1>1, <1>3, <1>4 DEF TreeInv, Names
<1>6. m \in LocalsSet BY <1>2 DEF Going
<1>7. v = [m EXCEPT !.node = n, !.level = h] BY <1>0, <1>2, <1>3, <1>4 DEF AtRoot
<1>8. /\ v \in LocalsSet /\ v.node = n /\ v.level = h /\ v.height = m.height /\ v.results = m.results
      /\ v.push = m.push /\ v.right = m.right
 BY <1>5, <1>6, <1>7 DEF LocalsSet, NodeOrNone
<1>9. Going(D, v, call[t]) BY <1>1, <1>2, <1>5, <1>8 DEF Going
<1>10. Placed(contents, label, v, call[t])
 <2>1. label = "walk" => ResultsFrom(D, v, h + 1)
  <3>1. ASSUME label = "walk", NEW i \in 0 .. v.height, h + 1 <= i PROVE FALSE
   <4>1. v.height \in Nat /\ v.height <= h BY <1>2, <1>4, <1>6, <1>8, <3>1 DEF LocalsSet
   <4> QED BY <1>5, <3>1, <4>1
  <3> QED BY <3>1 DEF ResultsFrom
 <2>2. On(D, v.node, v.level) /\ v.node \in D BY <1>5, <1>8 DEF On
 <2> QED BY <1>1, <1>2, <1>5, <1>8, <2>1, <2>2 DEF Placed, At
<1>11. LocalInv(contents, label, v, call[t]) BY <1>1, <1>9, <1>10, PlacedAs DEF Labels
<1> QED BY <1>0, <1>11 DEF Arrives, GoTo, Become

LEMMA ReadRootKeeps ==
 ASSUME MultiwayInv, NEW t \in Threads, ReadRoot(t)
 PROVE  Kept
<1>1. pc[t] = "root" /\ UNCHANGED <<shared, history, bounds>> BY DEF ReadRoot
<1>2. /\ Going(DOMAIN contents, my[t], call[t]) /\ Placed(contents, "root", my[t], call[t])
      /\ TreeInv(contents, root) /\ EMPTY \in Int /\ EMPTY < INF
 BY <1>1, CallFacts
<1>3. my[t].level = 0 BY <1>2 DEF Placed
<1>4. my[t].height \in Nat /\ root.height \in Nat /\ root.node \in DOMAIN contents
 BY <1>2, NodeRead DEF Going, LocalsSet, TreeInv
<1>5. CASE my[t].height = 0
 <2>1. GoOn(t, IF call[t].op = "contains" THEN "scan" ELSE "visit", root.node, EMPTY)
  BY <1>5 DEF ReadRoot, Height
 <2>2. PICK label : label = IF call[t].op = "contains" THEN "scan" ELSE "visit" OBVIOUS
 <2>3. label \in {"visit", "scan"} /\ (label = "visit" => call[t].op # "contains") BY <2>2
 <2>4. \E m : Arrives(t, label, m) BY <1>2, <1>3, <1>4, <1>5, <2>1, <2>2, <2>3, GoOnArrives
 <2> QED BY <1>1, <2>4, QuietArrives
<1>6. CASE my[t].height # 0 /\ root.height < my[t].height
 <2>1. GoTo(t, "growRead") /\ UNCHANGED my BY <1>6 DEF ReadRoot, Height
 <2>2. Placed(contents, "growRead", my[t], call[t]) BY <1>4, <1>6 DEF Placed, At
 <2>3. LocalInv(contents, "growRead", my[t], call[t]) BY <1>2, <2>2, PlacedAs DEF Labels
 <2> QED BY <1>1, <2>1, <2>3, StayArrives, QuietArrives
<1>7. CASE my[t].height # 0 /\ ~(root.height < my[t].height)
 <2>2. GoTo(t, "walk") /\ Become(t, AtRoot(t)) BY <1>7 DEF ReadRoot, Height, AtRoot
 <2>3. my[t].height >= 1 /\ my[t].height <= root.height BY <1>4, <1>7
 <2>4. \E l, m : Arrives(t, l, m) BY <1>2, <2>2, <2>3, FromRoot
 <2> QED BY <1>1, <2>4, QuietArrives
<1> QED BY <1>5, <1>6, <1>7

LEMMA GrowReadKeeps ==
 ASSUME MultiwayInv, NEW t \in Threads, GrowRead(t)
 PROVE  Kept
<1>1. pc[t] = "growRead" /\ UNCHANGED <<shared, history, bounds>> BY DEF GrowRead
<1>2. /\ Going(DOMAIN contents, my[t], call[t]) /\ Placed(contents, "growRead", my[t], call[t])
      /\ TreeInv(contents, root)
 BY <1>1, CallFacts
<1>3. my[t].height >= 1 BY <1>2 DEF Placed
<1>4. my[t].height \in Nat /\ root.height \in Nat BY <1>2, NodeRead DEF Going, LocalsSet, TreeInv
<1>6. PICK label : label = IF root.height < my[t].height THEN "grow" ELSE "walk" OBVIOUS
<1>7. GoTo(t, label) /\ Become(t, AtRoot(t)) BY <1>6 DEF GrowRead, Height, AtRoot
<1>8. label \in {"walk", "grow"} /\ (label = "walk" => my[t].height <= root.height) BY <1>4, <1>6
<1>9. \E l, m : Arrives(t, l, m) BY <1>2, <1>3, <1>7, <1>8, FromRoot
<1> QED BY <1>1, <1>9, QuietArrives

-----------------------------------------------------------------------------
(* A call returns. *)
LEMMA IdlePlaced ==
 ASSUME NEW cts
 PROVE  LocalInv(cts, "idle", NoLocals, NoCall)
<1>1. NoLocals \in LocalsSet BY EmptyIsTyped DEF MultiwayAssumption
<1>2. Typed(DOMAIN cts, "idle", NoLocals, NoCall) BY <1>1 DEF Typed, NoLocals, Labels
<1>3. Placed(cts, "idle", NoLocals, NoCall) BY DEF Placed, At
<1> QED BY <1>2, <1>3 DEF LocalInv

(* When the last call returns the model forgets what is out of the tree.   *)
Forgotten(c) == [c EXCEPT !.stamp = 0, !.keysOf = 0, !.childrenOf = 0]

LEMMA ForgetKeeps ==
 ASSUME TreeInv(contents, root), NEW cts, cts = Forget(contents)
 PROVE  TreeInv(cts, root) /\ ReleasedInv(EmptyBag, cts, root) /\ GivesUp(contents, cts)
<1>1. PICK D : D = DOMAIN contents OBVIOUS
<1>2. /\ D \in SUBSET Names /\ IsFiniteSet(D) /\ root.node \in D /\ root.height = root.node[1]
      /\ \A n \in D : Shape(D, n[1], contents[n]) /\ n[1] \in Nat
 BY <1>1 DEF TreeInv, Names
<1>3. Closed(contents, D)
 <2>1. ASSUME NEW n \in D
       PROVE  /\ contents[n].link # NoNode => contents[n].link \in D
              /\ \A d \in ToSet(contents[n].children) : d # NoNode => d \in D
  <3>1. PICK c : c = contents[n] OBVIOUS
  <3>2. Shape(D, n[1], c) /\ n[1] \in Nat BY <1>2, <3>1
  <3>3. c.link # NoNode => c.link \in D BY <3>2 DEF Shape, LinkOK, On
  <3>4. ASSUME NEW d \in ToSet(c.children), d # NoNode PROVE d \in D
   <4>1. ChildrenOK(D, n[1], c) /\ c.children \in Seq(Names \cup {NoNode})
    BY <3>2 DEF Shape, ContentsSet
   <4>2. PICK i \in 1 .. Len(c.children) : d = c.children[i] BY <3>4, <4>1 DEF ToSet
   <4>3. n[1] # 0 BY <3>4, <4>1, <4>2 DEF ChildrenOK, NoChildren
   <4> QED BY <4>1, <4>2, <4>3 DEF ChildrenOK, On
  <3> QED BY <3>1, <3>3, <3>4
 <2> QED BY <2>1 DEF Closed
<1>4. PICK R : R = Reachable(contents) OBVIOUS
<1>5. R \subseteq D /\ root.node \in R /\ Closed(contents, R)
 BY <1>1, <1>2, <1>3, <1>4, ReachableIsClosed
<1>6. cts = [n \in R |-> Forgotten(contents[n])]
 <2>1. Forget(contents) = [n \in Reachable(contents) |-> Forgotten(contents[n])]
  BY Zenon DEF Forget, Forgotten
 <2> QED BY <1>4, <2>1
<1>7. ASSUME NEW n \in R
      PROVE  Shape(R, n[1], cts[n]) /\ cts[n].items = contents[n].items
 <2>1. PICK c : c = contents[n] OBVIOUS
 <2>2. Shape(D, n[1], c) /\ n[1] \in Nat BY <1>2, <1>5, <2>1
 <2>3. PICK e : e = Forgotten(c) OBVIOUS
 <2>4. cts[n] = e BY <1>6, <2>1, <2>3
 <2>5. c \in ContentsSet BY <2>2 DEF Shape
 <2>6. /\ e \in ContentsSet /\ e.items = c.items /\ e.children = c.children /\ e.link = c.link
       /\ e.stamp = 0 /\ e.keysOf = 0 /\ e.childrenOf = 0
  BY <2>3, <2>5 DEF ContentsSet, Forgotten
 <2>7. ItemsOK(e) /\ StampsOK(e) BY <2>2, <2>6 DEF Shape, ItemsOK, StampsOK
 <2>8. LinkOK(R, n[1], e) BY <1>5, <2>1, <2>2, <2>6 DEF Shape, LinkOK, Closed, On
 <2>9. ChildrenOK(R, n[1], e)
  <3>1. ChildrenOK(D, n[1], c) /\ c.children \in Seq(Names \cup {NoNode})
   BY <2>2, <2>5 DEF Shape, ContentsSet
  <3>2. CASE n[1] = 0 BY <2>6, <3>1, <3>2 DEF ChildrenOK
  <3>3. CASE n[1] # 0
   <4>1. ASSUME NEW i \in 1 .. Len(c.children) PROVE On(R, c.children[i], n[1] - 1)
    <5>1. PICK d : d = c.children[i] OBVIOUS
    <5>2. d \in D /\ d[1] = n[1] - 1 BY <3>1, <3>3, <4>1, <5>1 DEF ChildrenOK, On
    <5>3. d # NoNode BY <1>2, <5>2 DEF Names, NoNode
    <5>4. d \in ToSet(c.children) BY <3>1, <5>1 DEF ToSet
    <5>5. d \in R BY <1>5, <2>1, <5>3, <5>4 DEF Closed
    <5> QED BY <5>1, <5>2, <5>5 DEF On
   <4> QED BY <2>6, <3>1, <3>3, <4>1 DEF ChildrenOK
  <3> QED BY <3>2, <3>3
 <2> QED BY <2>1, <2>4, <2>6, <2>7, <2>8, <2>9 DEF Shape
<1>8. TreeInv(cts, root)
 <2>1. DOMAIN cts = R /\ cts = [n \in R |-> cts[n]] BY <1>6
 <2>2. R \in SUBSET Names /\ IsFiniteSet(R) BY <1>2, <1>5, FS_Subset
 <2> QED BY <1>2, <1>5, <1>7, <2>1, <2>2 DEF TreeInv
<1>9. ReleasedInv(EmptyBag, cts, root) BY DEF ReleasedInv, EmptyBag, SetToBag
<1>10. GivesUp(contents, cts)
 <2>1. DOMAIN cts = R BY <1>6
 <2>2. ASSUME NEW n \in R PROVE UpperEnd(cts[n]) <= UpperEnd(contents[n])
  <3>1. UpperEnd(cts[n]) = UpperEnd(contents[n]) BY <1>7, <2>2 DEF UpperEnd
  <3>2. UpperEnd(contents[n]) <= UpperEnd(contents[n]) BY <1>1, <1>5, GivesUpNothing DEF GivesUp
  <3> QED BY <3>1, <3>2
 <2> QED BY <1>1, <1>5, <2>1, <2>2 DEF GivesUp
<1> QED BY <1>8, <1>9, <1>10

LEMMA ReturnKeeps ==
 ASSUME MultiwayInv, NEW t \in Threads, NEW r \in BOOLEAN, Return(t, r)
 PROVE  Kept
<1>1. /\ pc' = [pc EXCEPT ![t] = "idle"] /\ my' = [my EXCEPT ![t] = NoLocals]
      /\ call' = [call EXCEPT ![t] = NoCall] /\ answers' = [answers EXCEPT ![t] = {}]
      /\ result' = [result EXCEPT ![t] = {r}] /\ todo' = todo /\ callsLeft' = callsLeft
 BY DEF Return, GoTo, Become, bounds
<1>2. /\ OthersInv /\ AllLocalInv /\ TreeInv(contents, root) /\ ReleasedInv(released, contents, root)
      /\ pc \in [Threads -> Labels] /\ my \in [Threads -> LocalsSet]
      /\ call \in [Threads -> Abstract!SetCalls \cup {NoCall}]
 BY DEF MultiwayInv, OthersInv, Abstract!SetTypeOK, NoCall
<1>3. Abstract!SetTypeOK'
 <2>1. answers \in [Threads -> SUBSET BOOLEAN] /\ result \in [Threads -> Abstract!Results]
  BY DEF MultiwayInv, OthersInv, Abstract!SetTypeOK
 <2>2. {r} \in Abstract!Results /\ {} \in SUBSET BOOLEAN BY DEF Abstract!Results
 <2>3. answers' \in [Threads -> SUBSET BOOLEAN] /\ result' \in [Threads -> Abstract!Results]
  BY <1>1, <2>1, <2>2
 <2>4. call' \in [Threads -> Abstract!SetCalls \cup {NoCall}] BY <1>1, <1>2
 <2>5. KeysIn(contents)' \subseteq Keys BY DEF KeysIn
 <2> QED BY <2>3, <2>4, <2>5 DEF Abstract!SetTypeOK, NoCall
<1>4. /\ root' = root /\ TreeInv(contents', root) /\ ReleasedInv(released', contents', root)
      /\ GivesUp(contents, contents')
      /\ AllLocalInv' /\ pc' \in [Threads -> Labels] /\ my' \in [Threads -> LocalsSet]
 <2>1. CASE \A u \in Threads \ {t} : pc[u] = "idle"
  <3>1. contents' = Forget(contents) /\ released' = EmptyBag /\ root' = root BY <2>1 DEF Return
  <3>2. PICK cts : cts = contents' OBVIOUS
  <3>3. TreeInv(cts, root) /\ ReleasedInv(EmptyBag, cts, root) /\ GivesUp(contents, cts)
   BY <1>2, <3>1, <3>2, ForgetKeeps
  <3>4. ASSUME NEW u \in Threads
        PROVE  pc'[u] = "idle" /\ my'[u] = NoLocals /\ call'[u] = NoCall
   <4>1. CASE u = t BY <1>1, <1>2, <4>1
   <4>2. CASE u # t
    <5>1. LocalInv(contents, pc[u], my[u], call[u]) /\ pc[u] = "idle"
     BY <1>2, <2>1, <4>2 DEF AllLocalInv
    <5>2. my[u] = NoLocals /\ call[u] = NoCall BY <5>1 DEF LocalInv, Typed
    <5> QED BY <1>1, <1>2, <4>2, <5>1, <5>2
   <4> QED BY <4>1, <4>2
  <3>5. ASSUME NEW u \in Threads PROVE LocalInv(cts, pc'[u], my'[u], call'[u]) BY <3>4, IdlePlaced
  <3>6. AllLocalInv' BY <3>2, <3>5 DEF AllLocalInv
  <3>7. pc' \in [Threads -> Labels] /\ my' \in [Threads -> LocalsSet]
   <4>1. NoLocals \in LocalsSet /\ "idle" \in Labels
    BY EmptyIsTyped DEF MultiwayAssumption, Labels
   <4> QED BY <1>1, <1>2, <4>1
  <3> QED BY <3>1, <3>2, <3>3, <3>6, <3>7
 <2>2. CASE ~(\A u \in Threads \ {t} : pc[u] = "idle")
  <3>1. contents' = contents /\ released' = released /\ root' = root BY <2>2 DEF Return, shared
  <3>2. PICK cts : cts = contents' OBVIOUS
  <3>3. Grows(contents, cts) BY <3>1, <3>2, GrowsItself
  <3>4. AllLocalInv' /\ pc' \in [Threads -> Labels] /\ my' \in [Threads -> LocalsSet]
   BY <1>1, <1>2, <3>2, <3>3, IdlePlaced, LocalsStep
  <3>5. GivesUp(contents, contents') BY <1>2, <3>1, GivesUpNothing
  <3> QED BY <1>2, <3>1, <3>4, <3>5
 <2> QED BY <2>1, <2>2
<1>5. OthersInv' BY <1>1, <1>2, <1>3, <1>4 DEF OthersInv
<1> QED BY <1>4, <1>5 DEF Kept, MultiwayInv

LEMMA DoneKeeps ==
 ASSUME MultiwayInv, NEW t \in Threads, Done(t) \/ AddFindsKey(t) \/ RemoveMissesKey(t)
 PROVE  Kept
 BY ReturnKeeps DEF Done, AddFindsKey, RemoveMissesKey

-----------------------------------------------------------------------------
(* Each step, on its way down. *)
LEMMA ScanKeeps ==
 ASSUME MultiwayInv, NEW t \in Threads, Scan(t)
 PROVE  Kept
<1>1. PICK D : D = DOMAIN contents OBVIOUS
<1>2. PICK n : n = my[t].node OBVIOUS
<1>3. PICK c : c = contents[n] OBVIOUS
<1>4. PICK key : key = call[t].key OBVIOUS
<1>5. pc[t] = "scan" BY DEF Scan
<1>6. /\ Going(D, my[t], call[t]) /\ my[t].height = 0 /\ n \in D /\ key \in Keys
      /\ TreeInv(contents, root) /\ EMPTY \in Int /\ EMPTY < INF
 BY <1>1, <1>2, <1>4, <1>5, CallFacts DEF Placed
<1>7. Shape(D, n[1], c) /\ n[1] \in Nat /\ D \in SUBSET Names BY <1>1, <1>3, <1>6, NodeRead
<1>8. CASE Beyond(c, key)
 <2>1. GoOn(t, "scan", c.link, EMPTY) /\ UNCHANGED <<shared, history, bounds>>
  BY <1>2, <1>3, <1>4, <1>8 DEF Scan, Key
 <2>2. c.link \in D BY <1>6, <1>7, <1>8, BeyondHasLink DEF On
 <2>3. \E m : Arrives(t, "scan", m) BY <1>1, <1>6, <2>1, <2>2, GoOnArrives
 <2> QED BY <2>1, <2>3, QuietArrives
<1>9. CASE ~Beyond(c, key) /\ ~IsLeaf(c)
 <2>1. GoOn(t, "scan", ChildFor(c, key), EMPTY) /\ UNCHANGED <<shared, history, bounds>>
  BY <1>2, <1>3, <1>4, <1>9 DEF Scan, Key
 <2>2. n[1] # 0 BY <1>7, <1>9, ShapeFacts
 <2>3. ChildFor(c, key) \in D BY <1>6, <1>7, <1>9, <2>2, ChildIsOn DEF On, HasPlace
 <2>4. \E m : Arrives(t, "scan", m) BY <1>1, <1>6, <2>1, <2>3, GoOnArrives
 <2> QED BY <2>1, <2>4, QuietArrives
<1>10. CASE ~Beyond(c, key) /\ IsLeaf(c)
 <2>1. Return(t, Found(c, key)) BY <1>2, <1>3, <1>4, <1>10 DEF Scan, Key
 <2>2. Found(c, key) \in BOOLEAN BY Zenon DEF Found
 <2> QED BY <2>1, <2>2, ReturnKeeps
<1> QED BY <1>8, <1>9, <1>10

LEMMA PushRightKeeps ==
 ASSUME MultiwayInv, NEW t \in Threads, PushRight(t)
 PROVE  Kept
<1>1. PICK D : D = DOMAIN contents OBVIOUS
<1>2. PICK m : m = my[t] OBVIOUS
<1>3. PICK n : n = m.push OBVIOUS
<1>4. PICK c : c = contents[n] OBVIOUS
<1>5. pc[t] = "push" /\ UNCHANGED <<shared, history, bounds>> BY DEF PushRight
<1>6. /\ Going(D, m, call[t]) /\ Placed(contents, "push", m, call[t])
      /\ TreeInv(contents, root) /\ EMPTY \in Int /\ INF \in Int /\ EMPTY < INF
      /\ call[t] \in Abstract!SetCalls
 BY <1>1, <1>2, <1>5, CallFacts DEF Going
<1>7. m \in LocalsSet /\ m.then \in {"link", "sibling", "nephew", "adjust"} /\ m.pushBarrier < INF
 BY <1>6 DEF Going, Placed
<1>8. /\ m.then = "link" => AtLink(contents, D, "push", m, call[t])
      /\ m.then \in {"sibling", "nephew"} => AtSlide(contents, D, "push", m, call[t])
      /\ m.then = "adjust" => AtAdjust(D, "push", m, call[t])
 BY <1>1, <1>6 DEF Placed, At
<1>9. /\ m.then \in {"link", "sibling"} => On(D, n, m.node[1])
      /\ m.then \in {"nephew", "adjust"} => On(D, n, m.node[1] - 1)
 BY <1>3, <1>7, <1>8 DEF AtLink, AtSlide, AtAdjust, At
<1>10. n \in D BY <1>7, <1>9 DEF On
<1>11. Shape(D, n[1], c) /\ n[1] \in Nat /\ D \in SUBSET Names BY <1>1, <1>4, <1>6, <1>10, NodeRead
<1>12. CASE c.items = <<>> \/ Last(c.items) <= m.pushBarrier
 <2>1. PICK link : link = c.link OBVIOUS
 <2>2. PICK x : x = [m EXCEPT !.push = link] OBVIOUS
 <2>3. Become(t, x) /\ UNCHANGED pc BY <1>2, <1>3, <1>4, <1>12, <2>1, <2>2 DEF PushRight
 <2>4. link # NoNode
  <3>1. c.items # <<>> => Last(c.items) # INF
   <4>1. m.pushBarrier \in Int BY <1>7 DEF LocalsSet
   <4>2. c.items # <<>> => Last(c.items) \in Int BY <1>11, UpperEndOf
   <4> QED BY <1>6, <1>7, <1>12, <4>1, <4>2
  <3> QED BY <1>11, <2>1, <3>1 DEF Shape, LinkOK
 <2>5. On(D, link, n[1]) BY <1>11, <2>1, <2>4 DEF Shape, LinkOK
 <2>6. link \in D /\ link \in Names BY <1>11, <2>5 DEF On
 <2>7. /\ x \in LocalsSet /\ SameCall(x, m) /\ x.push = link /\ x.then = m.then
       /\ x.pushBarrier = m.pushBarrier
  BY <1>7, <2>2, <2>6 DEF LocalsSet, NodeOrNone, SameCall
 <2>8. Going(D, x, call[t]) BY <1>6, <2>6, <2>7 DEF Going, SameCall
 <2>9. m.then = "link" => AtLink(contents, D, "push", x, call[t])
  BY <1>8, <1>9, <2>5, <2>7, SameCallFacts DEF AtLink, At, SameCall, On
 <2>10. m.then \in {"sibling", "nephew"} => AtSlide(contents, D, "push", x, call[t])
  BY <1>8, <1>9, <2>5, <2>7, SameCallFacts DEF AtSlide, At, SameCall, On
 <2>11. m.then = "adjust" => AtAdjust(D, "push", x, call[t])
  BY <1>8, <1>9, <2>5, <2>7, SameCallFacts DEF AtAdjust, At, SameCall, On
 <2>12. Placed(contents, "push", x, call[t]) BY <1>1, <1>7, <2>7, <2>9, <2>10, <2>11 DEF Placed, At
 <2>13. LocalInv(contents, pc[t], x, call[t]) BY <1>1, <1>5, <2>8, <2>12, PlacedAs DEF Labels
 <2>14. \E l, y : Arrives(t, l, y) BY <2>3, <2>13, BecomeArrives
 <2> QED BY <1>5, <2>14, QuietArrives
<1>13. CASE ~(c.items = <<>> \/ Last(c.items) <= m.pushBarrier)
 <2>1. GoTo(t, m.then) /\ UNCHANGED my BY <1>2, <1>3, <1>4, <1>13 DEF PushRight
 <2>2. m.then = "link" => AtLink(contents, D, "link", m, call[t]) BY <1>8 DEF AtLink, At
 <2>3. m.then \in {"sibling", "nephew"} => AtSlide(contents, D, m.then, m, call[t])
  BY <1>8 DEF AtSlide, At
 <2>4. m.then = "adjust" => AtAdjust(D, "adjust", m, call[t]) BY <1>8 DEF AtAdjust, At
 <2>5. Placed(contents, m.then, m, call[t]) BY <1>1, <1>7, <2>2, <2>3, <2>4 DEF Placed, At
 <2>6. LocalInv(contents, m.then, m, call[t]) BY <1>1, <1>6, <1>7, <2>5, PlacedAs DEF Labels
 <2>7. \E l, y : Arrives(t, l, y) BY <1>2, <2>1, <2>6, StayArrives
 <2> QED BY <1>5, <2>7, QuietArrives
<1> QED BY <1>12, <1>13

PastNode(m, c) == [m EXCEPT !.edit = c, !.barrier = IF c.items = <<>> THEN @ ELSE Last(c.items)]

LEMMA VisitBeyondKeeps ==
 ASSUME MultiwayInv, NEW t \in Threads, VisitBeyond(t)
 PROVE  Kept
<1>1. PICK D : D = DOMAIN contents OBVIOUS
<1>2. PICK m : m = my[t] OBVIOUS
<1>3. PICK n : n = m.node OBVIOUS
<1>4. PICK c : c = contents[n] OBVIOUS
<1>5. PICK key : key = call[t].key OBVIOUS
<1>6. /\ pc[t] = "visit" /\ UNCHANGED <<shared, history, bounds>> /\ Beyond(c, key)
      /\ PushRightFrom(t, PastNode(my[t], c), c.link, EMPTY, "link")
 BY <1>2, <1>3, <1>4, <1>5, Zenon DEF VisitBeyond, PastNode, Key
<1>7. /\ Going(D, m, call[t]) /\ Visits(m) /\ n \in D /\ key \in Keys /\ key \in Int /\ key < INF
      /\ TreeInv(contents, root) /\ EMPTY \in Int /\ EMPTY < INF /\ INF \in Int
      /\ call[t].op # "contains"
 BY <1>1, <1>2, <1>3, <1>5, <1>6, CallFacts DEF Placed
<1>8. Shape(D, n[1], c) /\ n[1] \in Nat /\ D \in SUBSET Names BY <1>1, <1>4, <1>7, NodeRead
<1>9. c.link # NoNode /\ On(D, c.link, n[1]) BY <1>6, <1>7, <1>8, BeyondHasLink
<1>10. PICK b : b = IF c.items = <<>> THEN m.barrier ELSE Last(c.items) OBVIOUS
<1>11. b \in Int /\ b < INF
 <2>1. m.barrier \in Int /\ m.barrier < INF BY <1>7 DEF Going, LocalsSet, Visits
 <2>2. c.items # <<>> => Last(c.items) \in Int /\ Last(c.items) < key
  <3>1. c.items \in Seq(Item) /\ ItemsOK(c) BY <1>7, <1>8, ShapeFacts
  <3>2. c.items # <<>> => Last(c.items) < key BY <1>6, <1>7, <3>1, BeyondFacts
  <3> QED BY <1>8, <3>2, UpperEndOf
 <2> QED BY <1>7, <1>10, <2>1, <2>2
<1>12. PICK v : v = PastNode(m, c) OBVIOUS
<1>13. v = [[m EXCEPT !.edit = c] EXCEPT !.barrier = b]
 BY <1>7, <1>10, <1>12 DEF PastNode, Going, LocalsSet
<1>14. /\ v \in LocalsSet /\ v.edit = c /\ v.barrier = b /\ v.height = m.height /\ v.node = m.node
       /\ v.level = m.level /\ v.results = m.results /\ v.push = m.push /\ v.right = m.right
 BY <1>7, <1>8, <1>11, <1>13 DEF Going, LocalsSet, Shape
<1>15. Going(D, v, call[t]) /\ Visits(v) BY <1>7, <1>11, <1>14 DEF Going, Visits
<1>16. PushRightFrom(t, v, c.link, EMPTY, "link") BY <1>2, <1>6, <1>12
<1>17. \E x : Arrives(t, "push", x)
 BY <1>1, <1>3, <1>4, <1>7, <1>8, <1>9, <1>14, <1>15, <1>16, LinkPushArrives
<1> QED BY <1>6, <1>17, QuietArrives

Entering(m, c) == [m EXCEPT !.cts = c, !.edit = c]

LEMMA EnteringIs ==
 ASSUME NEW D, NEW m, NEW d, Going(D, m, d), NEW c \in ContentsSet, NEW v, v = Entering(m, c)
 PROVE  /\ v \in LocalsSet /\ v.cts = c /\ v.edit = c /\ v.height = m.height /\ v.node = m.node
        /\ v.level = m.level /\ v.results = m.results /\ v.push = m.push /\ v.right = m.right
        /\ v.barrier = m.barrier /\ v.adjusted = m.adjusted
        /\ Going(D, v, d)
<1>1. v = [[m EXCEPT !.cts = c] EXCEPT !.edit = c] BY DEF Entering, Going, LocalsSet
<1>2. /\ v \in LocalsSet /\ v.cts = c /\ v.edit = c /\ v.height = m.height /\ v.node = m.node
      /\ v.level = m.level /\ v.results = m.results /\ v.push = m.push /\ v.right = m.right
      /\ v.barrier = m.barrier /\ v.adjusted = m.adjusted
 BY <1>1 DEF Going, LocalsSet
<1> QED BY <1>2 DEF Going

LEMMA VisitInnerKeeps ==
 ASSUME MultiwayInv, NEW t \in Threads, VisitInner(t)
 PROVE  Kept
<1>1. PICK D : D = DOMAIN contents OBVIOUS
<1>2. PICK m : m = my[t] OBVIOUS
<1>3. PICK n : n = m.node OBVIOUS
<1>4. PICK c : c = contents[n] OBVIOUS
<1>5. PICK key : key = call[t].key OBVIOUS
<1>6. /\ pc[t] = "visit" /\ UNCHANGED <<shared, history, bounds>> /\ ~Beyond(c, key) /\ ~IsLeaf(c)
      /\ IF Removing(t) THEN CleanNode(t, Entering(my[t], c)) ELSE GoOn(t, "visit", ChildFor(c, key), EMPTY)
 BY <1>2, <1>3, <1>4, <1>5, Zenon DEF VisitInner, Entering, Key
<1>7. /\ Going(D, m, call[t]) /\ Visits(m) /\ n \in D /\ key \in Keys
      /\ TreeInv(contents, root) /\ EMPTY \in Int /\ EMPTY < INF
      /\ call[t].op # "contains" /\ m.adjusted = <<>>
 BY <1>1, <1>2, <1>3, <1>5, <1>6, CallFacts DEF Placed
<1>8. Shape(D, n[1], c) /\ n[1] \in Nat /\ D \in SUBSET Names BY <1>1, <1>4, <1>7, NodeRead
<1>9. n[1] # 0 /\ HasPlace(D, n[1], c, key) BY <1>6, <1>7, <1>8, ShapeFacts DEF HasPlace
<1>10. CASE Removing(t)
 <2>1. PICK v : v = Entering(m, c) OBVIOUS
 <2>2. c \in ContentsSet BY <1>8 DEF Shape
 <2>3. /\ v \in LocalsSet /\ v.cts = c /\ v.edit = c /\ v.height = m.height /\ v.node = m.node
       /\ v.level = m.level /\ v.barrier = m.barrier /\ v.adjusted = m.adjusted /\ Going(D, v, call[t])
  BY <1>7, <2>1, <2>2, EnteringIs
 <2>4. Visits(v) BY <1>7, <2>3 DEF Visits
 <2>5. OnInner(D, v) BY <1>3, <1>7, <1>8, <1>9, <2>3 DEF OnInner
 <2>6. Removes(D, v, call[t]) BY <1>3, <1>5, <1>9, <1>10, <2>3, <2>4 DEF Removes, Removing
 <2>7. CleanNode(t, v) BY <1>2, <1>6, <1>10, <2>1
 <2>8. v.node = n /\ HasPlace(D, v.node[1], v.edit, call[t].key) /\ v.adjusted = <<>>
       /\ (v.edit.link # NoNode => contents[v.node].link # NoNode)
  BY <1>3, <1>4, <1>5, <1>7, <1>9, <2>3
 <2>9. \E x : Arrives(t, "push", x) BY <1>1, <1>7, <2>3, <2>5, <2>6, <2>7, <2>8, CleanNodeArrives
 <2> QED BY <1>6, <2>9, QuietArrives
<1>11. CASE ~Removing(t)
 <2>1. ChildFor(c, key) \in D BY <1>7, <1>8, <1>9, ChildIsOn DEF On
 <2>2. GoOn(t, "visit", ChildFor(c, key), EMPTY) BY <1>6, <1>11
 <2>3. my[t].height = 0 /\ my[t].level = 0 BY <1>2, <1>7 DEF Visits
 <2>4. \E x : Arrives(t, "visit", x) BY <1>1, <1>2, <1>7, <2>1, <2>2, <2>3, GoOnArrives
 <2> QED BY <1>6, <2>4, QuietArrives
<1> QED BY <1>10, <1>11

AtTheLeaf(o, n, c) == [o EXCEPT !.node = n, !.cts = c]

LEMMA VisitLeafKeeps ==
 ASSUME MultiwayInv, NEW t \in Threads, VisitLeaf(t)
 PROVE  Kept
<1>1. PICK D : D = DOMAIN contents OBVIOUS
<1>2. PICK m : m = my[t] OBVIOUS
<1>3. PICK n : n = m.node OBVIOUS
<1>4. PICK c : c = contents[n] OBVIOUS
<1>5. PICK key : key = call[t].key OBVIOUS
<1>6. /\ pc[t] = "visit" /\ UNCHANGED <<shared, history, bounds>> /\ ~Beyond(c, key) /\ IsLeaf(c)
      /\ GoTo(t, IF Removing(t) THEN "remove" ELSE "insert") /\ Become(t, AtTheLeaf(Outer(t), n, c))
 BY <1>2, <1>3, <1>4, <1>5, Zenon DEF VisitLeaf, AtTheLeaf, Key
<1>7. /\ Going(D, m, call[t]) /\ Visits(m) /\ n \in D /\ key \in Keys
      /\ TreeInv(contents, root)
      /\ call[t].op \in {"add", "remove"}
 BY <1>1, <1>2, <1>3, <1>5, <1>6, CallFacts DEF Placed
<1>8. Shape(D, n[1], c) /\ n[1] \in Nat /\ D \in SUBSET Names /\ n \in Names
 BY <1>1, <1>4, <1>7, NodeRead
<1>9. n[1] = 0 /\ HasPlace(D, 0, c, key) BY <1>6, <1>7, <1>8, ShapeFacts DEF HasPlace
<1>10. PICK o : o = Outer(t) OBVIOUS
<1>11. /\ o \in LocalsSet /\ o.height = m.height /\ o.level = m.level /\ o.results = m.results
       /\ o.push = NoNode /\ o.right = NoNode
 BY <1>2, <1>7, <1>10, OuterIs DEF Going
<1>12. PICK v : v = AtTheLeaf(o, n, c) OBVIOUS
<1>13. /\ v \in LocalsSet /\ v.node = n /\ v.cts = c /\ v.height = m.height /\ v.level = m.level
       /\ v.results = m.results /\ v.push = NoNode /\ v.right = NoNode
 BY <1>8, <1>11, <1>12 DEF AtTheLeaf, LocalsSet, NodeOrNone, Shape
<1>14. Going(D, v, call[t]) BY <1>7, <1>13 DEF Going
<1>15. ResultsFrom(D, v, 1) BY <1>7, <1>13 DEF ResultsFrom, Visits
<1>16. PICK label : label = IF Removing(t) THEN "remove" ELSE "insert" OBVIOUS
<1>17. label \in {"remove", "insert"} /\ call[t].op = (IF label = "insert" THEN "add" ELSE "remove")
 BY <1>7, <1>16 DEF Removing
<1>18. AtLeaf(D, label, v, call[t])
 BY <1>3, <1>5, <1>7, <1>9, <1>13, <1>15, <1>17 DEF AtLeaf, At, On, Visits
<1>19. Placed(contents, label, v, call[t]) BY <1>1, <1>17, <1>18 DEF Placed, At
<1>20. LocalInv(contents, label, v, call[t]) BY <1>1, <1>14, <1>17, <1>19, PlacedAs DEF Labels
<1>21. Arrives(t, label, v) BY <1>6, <1>10, <1>12, <1>16, <1>20 DEF Arrives, GoTo, Become
<1> QED BY <1>6, <1>21, QuietArrives

-----------------------------------------------------------------------------
(* A step that replaces the contents of a node. *)
LEMMA ReplaceArrives ==
 ASSUME MultiwayInv, NEW t \in Threads, NEW D, D = DOMAIN contents,
        NEW n \in D, NEW l, l = n[1], NEW c, CanReplace(n, c), NEW new,
        NEW parts \in {{}, {"children"}, {"keys", "children"}}, Fits(D, l, c, new, parts),
        Replace(t, n, c, new, parts), NEW label, NEW m, Arrives(t, label, m)
 PROVE  Kept
<1>1. Arrives(t, label, m) OBVIOUS
<1>2. PICK cts : cts = contents OBVIOUS
<1>3. TreeInv(cts, root) /\ Grows(contents, cts) /\ ReleasedInv(released, cts, root)
 BY <1>2, GrowsItself DEF MultiwayInv
<1>4. ReplaceIn(cts, t, n, c, new, parts) /\ contents[n] = c BY <1>2 DEF Replace, CanReplace
<1>5. Shape(DOMAIN cts, n[1], new) /\ \A i \in DOMAIN contents : cts[i] = contents[i]
 BY <1>2 DEF Fits
<1>8. UpperEnd(new) <= UpperEnd(c) /\ AgesWell(c, new, parts) /\ (c.link # NoNode => new.link # NoNode)
 BY DEF Fits
<1>6. pc' = [pc EXCEPT ![t] = label] /\ my' = [my EXCEPT ![t] = m] /\ LocalInv(cts, label, m, call[t])
 BY <1>1, <1>2 DEF Arrives
<1>7. parts \in SUBSET {"keys", "children"} OBVIOUS
<1> QED BY <1>3, <1>4, <1>5, <1>6, <1>7, <1>8, ReplaceStep DEF Kept

LEMMA RemovedReplaces ==
 ASSUME NEW D \in SUBSET Names, NEW l \in Nat, NEW c, Shape(D, l, c),
        NEW i \in 1 .. Len(c.items), c.items[i] # INF, NEW new, new = Removed(c, i), NEW parts
 PROVE  Fits(D, l, c, new, parts)
<1>1. PICK items : items = RemoveAt(c.items, i) OBVIOUS
<1>2. PICK ch : ch = IF l = 0 THEN NoChildren ELSE RemoveAt(c.children, i) OBVIOUS
<1>3. /\ new = Made(items, ch, c.link, c.stamp + 1, c.stamp + 1, c.stamp + 1)
      /\ Shape(D, l, new) /\ UpperEnd(new) <= UpperEnd(c)
 <2>1. /\ Removed(c, i)
             = Made(RemoveAt(c.items, i), IF l = 0 THEN NoChildren ELSE RemoveAt(c.children, i),
                    c.link, c.stamp + 1, c.stamp + 1, c.stamp + 1)
       /\ Shape(D, l, Removed(c, i)) /\ UpperEnd(Removed(c, i)) <= UpperEnd(c)
  BY RemovedShape
 <2> QED BY <1>1, <1>2, <2>1
<1>4. new.link = c.link BY <1>3 DEF Made
<1>5. \A ps : AgesWell(c, new, ps) BY <1>3, MadeAgesWell
<1> QED BY <1>3, <1>4, <1>5 DEF Fits

LEMMA WalkKeeps ==
 ASSUME MultiwayInv, NEW t \in Threads, Walk(t)
 PROVE  Kept
<1>1. PICK D : D = DOMAIN contents OBVIOUS
<1>2. PICK m : m = my[t] OBVIOUS
<1>3. PICK n : n = m.node OBVIOUS
<1>4. PICK c : c = contents[n] OBVIOUS
<1>5. PICK key : key = call[t].key OBVIOUS
<1>6. pc[t] = "walk" /\ UNCHANGED <<shared, history, bounds>> BY DEF Walk
<1>7. /\ Going(D, m, call[t]) /\ n \in D /\ key \in Keys /\ m.height >= 1 /\ n[1] = m.level
      /\ ResultsFrom(D, m, m.level + 1)
      /\ TreeInv(contents, root) /\ EMPTY \in Int /\ EMPTY < INF
 BY <1>1, <1>2, <1>3, <1>5, <1>6, CallFacts DEF Placed
<1>8. Shape(D, n[1], c) /\ n[1] \in Nat /\ D \in SUBSET Names /\ n \in Names /\ c \in ContentsSet
 BY <1>1, <1>4, <1>7, NodeRead DEF Shape
<1>9. m \in LocalsSet /\ call[t].op = "add" /\ call[t] \in Abstract!SetCalls
 BY <1>7 DEF Going, LocalsSet
<1>10. CASE Beyond(c, key)
 <2>1. PICK v : v = [m EXCEPT !.node = c.link] OBVIOUS
 <2>2. Become(t, v) /\ UNCHANGED pc BY <1>2, <1>3, <1>4, <1>5, <1>10, <2>1 DEF Walk, Key
 <2>3. c.link # NoNode /\ On(D, c.link, n[1]) BY <1>7, <1>8, <1>10, BeyondHasLink
 <2>4. c.link \in D /\ c.link \in Names /\ c.link[1] = n[1] BY <1>8, <2>3 DEF On
 <2>5. /\ v \in LocalsSet /\ v.node = c.link /\ v.height = m.height /\ v.level = m.level
       /\ v.results = m.results /\ v.push = m.push /\ v.right = m.right
  BY <1>9, <2>1, <2>4 DEF LocalsSet, NodeOrNone
 <2>6. Going(D, v, call[t]) BY <1>7, <2>4, <2>5 DEF Going
 <2>7. ResultsFrom(D, v, v.level + 1) BY <1>7, <2>5 DEF ResultsFrom
 <2>8. Placed(contents, "walk", v, call[t]) BY <1>1, <1>7, <2>4, <2>5, <2>7 DEF Placed, At
 <2>9. LocalInv(contents, pc[t], v, call[t]) BY <1>1, <1>6, <2>6, <2>8, PlacedAs DEF Labels
 <2>10. \E l, x : Arrives(t, l, x) BY <2>2, <2>9, BecomeArrives
 <2> QED BY <1>6, <2>10, QuietArrives
<1>11. CASE ~Beyond(c, key) /\ m.level = 0
 <2>1. PICK v : v = [m EXCEPT !.cts = c] OBVIOUS
 <2>2. GoTo(t, "insert") /\ Become(t, v) BY <1>2, <1>3, <1>4, <1>5, <1>11, <2>1 DEF Walk, Key
 <2>3. /\ v \in LocalsSet /\ v.node = n /\ v.cts = c /\ v.height = m.height /\ v.level = 0
       /\ v.results = m.results /\ v.push = m.push /\ v.right = m.right
  BY <1>3, <1>8, <1>9, <1>11, <2>1 DEF LocalsSet
 <2>4. Going(D, v, call[t]) BY <1>3, <1>7, <2>3 DEF Going
 <2>5. ResultsFrom(D, v, 1) BY <1>7, <1>11, <2>3 DEF ResultsFrom
 <2>6. AtLeaf(D, "insert", v, call[t])
  BY <1>5, <1>7, <1>8, <1>9, <1>11, <2>3, <2>5 DEF AtLeaf, At, On, HasPlace
 <2>7. Placed(contents, "insert", v, call[t]) BY <1>1, <2>6 DEF Placed, At
 <2>8. LocalInv(contents, "insert", v, call[t]) BY <1>1, <2>4, <2>7, PlacedAs DEF Labels
 <2>9. Arrives(t, "insert", v) BY <2>2, <2>8 DEF Arrives, GoTo, Become
 <2> QED BY <1>6, <2>9, QuietArrives
<1>12. CASE ~Beyond(c, key) /\ m.level # 0
 <2>1. HasPlace(D, n[1], c, key) /\ m.level >= 1 BY <1>7, <1>8, <1>12 DEF HasPlace
 <2>2. CASE c.link = NoNode
  <3>1. SamaritanReturns(t, c, c) BY <1>2, <1>3, <1>4, <1>5, <1>12, <2>2 DEF Walk, Key
  <3>2. \E x : Arrives(t, "walk", x)
   BY <1>1, <1>2, <1>3, <1>5, <1>7, <1>8, <2>1, <3>1, SamaritanArrives
  <3> QED BY <1>6, <3>2, QuietArrives
 <2>3. CASE c.link # NoNode
  <3>1. PICK v : v = Entering(m, c) OBVIOUS
  <3>2. PushRightFrom(t, v, c.link, EMPTY, "sibling")
   <4>1. PushRightFrom(t, Entering(my[t], c), c.link, EMPTY, "sibling")
    BY <1>2, <1>3, <1>4, <1>5, <1>12, <2>3, Zenon DEF Walk, Key, Entering
   <4> QED BY <1>2, <3>1, <4>1
  <3>3. /\ v.cts = c /\ v.edit = c /\ v.height = m.height /\ v.node = n
        /\ v.level = m.level /\ v.results = m.results /\ Going(D, v, call[t])
   BY <1>3, <1>7, <1>8, <3>1, EnteringIs
  <3>4. ResultsFrom(D, v, v.level + 1) BY <1>7, <3>3 DEF ResultsFrom
  <3>5. Walks(D, v, call[t].key) BY <1>5, <1>7, <2>1, <3>3, <3>4 DEF Walks
  <3>6. Slides(D, v, call[t]) BY <1>5, <1>7, <1>8, <1>9, <2>1, <2>3, <3>3, <3>5 DEF Slides, OnInner
  <3>7. On(D, c.link, v.node[1]) BY <1>8, <2>3, <3>3 DEF Shape, LinkOK
  <3>8. \E x : Arrives(t, "push", x)
   BY <1>1, <1>4, <1>7, <2>3, <3>2, <3>3, <3>6, <3>7, SiblingPushArrives
  <3> QED BY <1>6, <3>8, QuietArrives
 <2> QED BY <2>2, <2>3
<1> QED BY <1>10, <1>11, <1>12

-----------------------------------------------------------------------------
(* cleanLink *)
LEMMA AtLinkFacts ==
 ASSUME MultiwayInv, NEW t \in Threads, pc[t] \in {"link", "linkRead"},
        NEW D, D = DOMAIN contents, NEW n, n = my[t].node
 PROVE  /\ Going(D, my[t], call[t]) /\ TreeInv(contents, root) /\ EMPTY \in Int /\ EMPTY < INF
        /\ my[t].node \in D /\ n \in D /\ n[1] \in Nat /\ D \in SUBSET Names
        /\ Visits(my[t]) \/ Walks(D, my[t], call[t].key)
        /\ contents[n].link # NoNode /\ Shape(D, n[1], contents[n])
        /\ call[t].op # "contains"
        /\ pc[t] = "link" => /\ Shape(D, n[1], my[t].edit) /\ my[t].edit.link # NoNode
                             /\ On(D, my[t].push, n[1])
<1>1. /\ Going(D, my[t], call[t]) /\ TreeInv(contents, root) /\ EMPTY \in Int /\ EMPTY < INF
      /\ Placed(contents, pc[t], my[t], call[t])
 BY CallFacts
<1>2. AtLink(contents, D, pc[t], my[t], call[t]) BY <1>1 DEF Placed, At
<1>3. n \in D /\ D \in SUBSET Names /\ n[1] \in Nat /\ Shape(D, n[1], contents[n])
 BY <1>1, <1>2, NodeRead DEF AtLink
<1> QED BY <1>1, <1>2, <1>3 DEF AtLink, At

LEMMA LinkReadKeeps ==
 ASSUME MultiwayInv, NEW t \in Threads, LinkRead(t)
 PROVE  Kept
<1>1. PICK D : D = DOMAIN contents OBVIOUS
<1>2. PICK n : n = my[t].node OBVIOUS
<1>3. PICK c : c = contents[n] OBVIOUS
<1>4. PICK v : v = [my[t] EXCEPT !.edit = c] OBVIOUS
<1>5. pc[t] = "linkRead" /\ UNCHANGED <<shared, history, bounds>>
      /\ PushRightFrom(t, v, c.link, EMPTY, "link")
 BY <1>2, <1>3, <1>4 DEF LinkRead
<1>6. /\ Going(D, my[t], call[t]) /\ TreeInv(contents, root) /\ EMPTY \in Int /\ EMPTY < INF
      /\ n \in D /\ (Visits(my[t]) \/ Walks(D, my[t], call[t].key))
      /\ c.link # NoNode /\ Shape(D, n[1], c) /\ call[t].op # "contains"
 BY <1>1, <1>2, <1>3, <1>5, AtLinkFacts
<1>7. PICK m : m = my[t] OBVIOUS
<1>8. /\ v \in LocalsSet /\ v.edit = c /\ v.node = m.node /\ v.height = m.height /\ v.level = m.level
      /\ v.results = m.results /\ v.push = m.push /\ v.right = m.right /\ v.barrier = m.barrier
      /\ v.cts = m.cts
 BY <1>4, <1>6, <1>7 DEF Going, LocalsSet, Shape
<1>9. Going(D, v, call[t]) BY <1>6, <1>7, <1>8 DEF Going
<1>10. Visits(v) \/ Walks(D, v, call[t].key)
 <2>1. ResultsFrom(D, m, m.level + 1) => ResultsFrom(D, v, v.level + 1) BY <1>8 DEF ResultsFrom
 <2> QED BY <1>6, <1>7, <1>8, <2>1 DEF Visits, Walks
<1>11. On(D, c.link, n[1]) /\ v.node = n BY <1>2, <1>6, <1>7, <1>8 DEF Shape, LinkOK
<1>12. \E x : Arrives(t, "push", x)
 BY <1>1, <1>3, <1>5, <1>6, <1>8, <1>9, <1>10, <1>11, LinkPushArrives
<1> QED BY <1>5, <1>12, QuietArrives

LEMMA KeepLinkKeeps ==
 ASSUME MultiwayInv, NEW t \in Threads, KeepLink(t)
 PROVE  Kept
<1>1. PICK D : D = DOMAIN contents OBVIOUS
<1>2. PICK c : c = my[t].edit OBVIOUS
<1>3. pc[t] = "link" /\ UNCHANGED <<shared, history, bounds>> /\ LinkCleaned(t, c)
 BY <1>2 DEF KeepLink
<1>4. /\ Going(D, my[t], call[t]) /\ my[t].node \in D /\ (Visits(my[t]) \/ Walks(D, my[t], call[t].key))
      /\ call[t].op # "contains" /\ Shape(D, my[t].node[1], c) /\ c.link # NoNode
 BY <1>1, <1>2, <1>3, AtLinkFacts
<1>5. \E label, m : Arrives(t, label, m) BY <1>1, <1>3, <1>4, LinkCleanedArrives
<1> QED BY <1>3, <1>5, QuietArrives

LEMMA CleanLinkKeeps ==
 ASSUME MultiwayInv, NEW t \in Threads, CleanLink(t)
 PROVE  Kept
<1>1. PICK D : D = DOMAIN contents OBVIOUS
<1>2. PICK n : n = my[t].node OBVIOUS
<1>3. PICK c : c = my[t].edit OBVIOUS
<1>4. PICK link : link = my[t].push OBVIOUS
<1>5. PICK new : new = WithLink(c, link) OBVIOUS
<1>6. pc[t] = "link" BY DEF CleanLink
<1>7. /\ Going(D, my[t], call[t]) /\ my[t].node \in D /\ n \in D
      /\ Visits(my[t]) \/ Walks(D, my[t], call[t].key)
      /\ call[t].op # "contains" /\ Shape(D, n[1], c) /\ c.link # NoNode /\ contents[n].link # NoNode
      /\ On(D, link, n[1]) /\ D \in SUBSET Names /\ n[1] \in Nat
 <2>1. /\ Going(D, my[t], call[t]) /\ my[t].node \in D /\ n \in D
       /\ Visits(my[t]) \/ Walks(D, my[t], call[t].key)
       /\ call[t].op # "contains" /\ contents[n].link # NoNode
       /\ D \in SUBSET Names /\ n[1] \in Nat
  BY <1>1, <1>2, <1>6, AtLinkFacts
 <2>2. Shape(D, n[1], my[t].edit) /\ my[t].edit.link # NoNode /\ On(D, my[t].push, n[1])
  BY <1>1, <1>2, <1>6, AtLinkFacts
 <2> QED BY <1>3, <1>4, <2>1, <2>2
<1>8. CASE CanReplace(n, c)
 <2>1. Replace(t, n, c, new, {}) /\ LinkCleaned(t, new)
  BY <1>2, <1>3, <1>4, <1>5, <1>8 DEF CleanLink
 <2>2. /\ new = Made(c.items, c.children, link, c.stamp + 1, c.keysOf, c.childrenOf)
       /\ Shape(D, n[1], new) /\ UpperEnd(new) <= UpperEnd(c)
  BY <1>5, <1>7, WithLinkShape
 <2>3. new.link # NoNode BY <1>7, <2>2 DEF Made, On, Names, NoNode
 <2>4. Fits(D, n[1], c, new, {}) BY <1>7, <2>2, <2>3, MadeAgesWell DEF Fits
 <2>5. \E label, m : Arrives(t, label, m) BY <1>1, <1>2, <1>7, <2>1, <2>2, <2>3, LinkCleanedArrives
 <2> QED BY <1>1, <1>7, <1>8, <2>1, <2>4, <2>5, ReplaceArrives
<1>9. CASE ~CanReplace(n, c)
 <2>1. GoTo(t, "linkRead") /\ UNCHANGED my /\ UNCHANGED <<shared, history, bounds>>
  BY <1>2, <1>3, <1>4, <1>5, <1>9 DEF CleanLink
 <2>2. AtLink(contents, D, "linkRead", my[t], call[t]) BY <1>2, <1>7 DEF AtLink, At
 <2>3. Placed(contents, "linkRead", my[t], call[t]) BY <1>1, <2>2 DEF Placed, At
 <2>4. LocalInv(contents, "linkRead", my[t], call[t]) BY <1>1, <1>7, <2>3, PlacedAs DEF Labels
 <2> QED BY <2>1, <2>4, StayArrives, QuietArrives
<1> QED BY <1>8, <1>9

-----------------------------------------------------------------------------
(* The last item slides over to the sibling. *)
LEMMA AtSlideFacts ==
 ASSUME MultiwayInv, NEW t \in Threads,
        pc[t] \in {"sibling", "nephew", "shiftNephew", "slide", "unslide"},
        NEW D, D = DOMAIN contents, NEW m, m = my[t], NEW n, n = m.node
 PROVE  /\ Going(D, m, call[t]) /\ TreeInv(contents, root) /\ EMPTY \in Int /\ EMPTY < INF
        /\ Slides(D, m, call[t]) /\ n \in D /\ n[1] \in Nat /\ n[1] >= 1 /\ D \in SUBSET Names
        /\ HasPlace(D, n[1], m.edit, call[t].key) /\ m.edit.link # NoNode
        /\ Shape(D, n[1], m.edit) /\ Shape(D, n[1], m.cts)
        /\ call[t].key \in Keys
        /\ pc[t] = "sibling" => On(D, m.push, n[1]) /\ contents[n].link # NoNode
        /\ pc[t] # "sibling" => SiblingRead(D, m)
        /\ pc[t] \in {"nephew", "shiftNephew"} => On(D, m.push, n[1] - 1)
        /\ pc[t] = "shiftNephew" => Walks(D, m, call[t].key)
<1>1. /\ Going(D, m, call[t]) /\ TreeInv(contents, root) /\ EMPTY \in Int /\ EMPTY < INF
      /\ Placed(contents, pc[t], m, call[t]) /\ call[t].key \in Keys
 BY CallFacts
<1>2. AtSlide(contents, D, pc[t], m, call[t]) BY <1>1 DEF Placed, At
<1>3. Slides(D, m, call[t]) BY <1>2 DEF AtSlide
<1>4. n \in D /\ D \in SUBSET Names /\ n[1] \in Nat BY <1>1, <1>3, NodeRead DEF Slides, OnInner
<1>5. HasPlace(D, n[1], m.edit, call[t].key) /\ m.edit.link # NoNode /\ n[1] >= 1
 BY <1>3 DEF Slides, OnInner
<1>6. Shape(D, n[1], m.edit) /\ Shape(D, n[1], m.cts)
 BY <1>3, <1>5 DEF HasPlace, Slides, Walks, Removes
<1> QED BY <1>1, <1>2, <1>3, <1>4, <1>5, <1>6 DEF AtSlide, At

LEMMA LastItemFacts ==
 ASSUME NEW D \in SUBSET Names, NEW l \in Nat, NEW c, NEW key \in Keys,
        HasPlace(D, l, c, key), c.link # NoNode
 PROVE  /\ c.items # <<>> /\ Len(c.items) \in Nat /\ Len(c.items) >= 1
        /\ Last(c.items) = c.items[Len(c.items)] /\ Last(c.items) \in Keys /\ Last(c.items) # INF
        /\ l # 0 => On(D, Last(c.children), l - 1)
<1>1. Shape(D, l, c) /\ key \in Int BY DEF HasPlace, MultiwayAssumption
<1>2. /\ c.items \in Seq(Item) /\ ItemsOK(c) /\ Len(c.items) \in Nat
      /\ c.link = NoNode <=> c.items # <<>> /\ Last(c.items) = INF
      /\ l # 0 => /\ c.children \in Seq(Names) /\ Len(c.children) = Len(c.items)
                  /\ \A i \in 1 .. Len(c.items) : On(D, c.children[i], l - 1)
 BY <1>1, ShapeFacts
<1>3. c.items # <<>> BY <1>1, <1>2, BeyondFacts DEF HasPlace
<1>4. PICK n : n = Len(c.items) OBVIOUS
<1>5. n \in Nat /\ n >= 1 BY <1>2, <1>3, <1>4
<1>6. Last(c.items) = c.items[n] /\ c.items[n] \in Item BY <1>2, <1>4, <1>5 DEF Last
<1>7. Last(c.items) # INF /\ Last(c.items) \in Keys BY <1>2, <1>3, <1>6 DEF Item
<1>8. l # 0 => On(D, Last(c.children), l - 1) BY <1>2, <1>4, <1>5 DEF Last
<1> QED BY <1>3, <1>4, <1>5, <1>6, <1>7, <1>8

LEMMA SiblingIs ==
 ASSUME NEW D \in SUBSET Names, NEW m, SiblingRead(D, m),
        m.node[1] \in Nat, m.node[1] >= 1, NEW c, c = m.sibling.cts
 PROVE  /\ Shape(D, m.node[1], c) /\ c.children \in Seq(Names) /\ Len(c.children) = Len(c.items)
        /\ Len(c.items) \in Nat /\ Len(c.items) >= 1
        /\ \A i \in 1 .. Len(c.items) : On(D, c.children[i], m.node[1] - 1)
        /\ On(D, m.sibling.node, m.node[1])
<1>1. Shape(D, m.node[1], c) /\ On(D, m.sibling.node, m.node[1]) /\ c.children # <<>> /\ m.node[1] # 0
 BY DEF SiblingRead
<1>2. /\ c.children \in Seq(Names) /\ Len(c.children) = Len(c.items) /\ Len(c.items) \in Nat
      /\ \A i \in 1 .. Len(c.items) : On(D, c.children[i], m.node[1] - 1)
 BY <1>1, ShapeFacts
<1>3. Len(c.children) # 0 BY <1>1, <1>2
<1> QED BY <1>1, <1>2, <1>3

LEMMA ReadSiblingKeeps ==
 ASSUME MultiwayInv, NEW t \in Threads, ReadSibling(t)
 PROVE  Kept
<1>1. PICK D : D = DOMAIN contents OBVIOUS
<1>2. PICK m : m = my[t] OBVIOUS
<1>3. PICK n : n = m.node OBVIOUS
<1>4. PICK s : s = m.push OBVIOUS
<1>5. PICK c : c = contents[s] OBVIOUS
<1>6. PICK last : last = Last(m.edit.items) OBVIOUS
<1>7. pc[t] = "sibling" /\ UNCHANGED <<shared, history, bounds>> BY DEF ReadSibling
<1>8. /\ Going(D, m, call[t]) /\ TreeInv(contents, root) /\ EMPTY \in Int /\ EMPTY < INF
      /\ Slides(D, m, call[t]) /\ n \in D /\ n[1] \in Nat /\ n[1] >= 1 /\ D \in SUBSET Names
      /\ call[t].key \in Keys
      /\ HasPlace(D, n[1], m.edit, call[t].key) /\ m.edit.link # NoNode
 BY <1>1, <1>2, <1>3, <1>7, AtSlideFacts
<1>9. On(D, m.push, n[1]) /\ contents[n].link # NoNode BY <1>1, <1>2, <1>3, <1>7, AtSlideFacts
<1>10. s \in D /\ s[1] = n[1] /\ On(D, s, n[1]) BY <1>4, <1>9 DEF On
<1>11. Shape(D, n[1], c) /\ s \in Names BY <1>1, <1>5, <1>8, <1>10, NodeRead
<1>12. last \in Keys BY <1>6, <1>8, LastItemFacts
<1>13. CASE c.children # <<>>
 <2>1. PICK v : v = [m EXCEPT !.sibling = Search(s, c)] OBVIOUS
 <2>2. PICK barrier : barrier = IF c.items[1] > last THEN last ELSE EMPTY OBVIOUS
 <2>3. PushRightFrom(t, v, c.children[1], barrier, "nephew")
  BY <1>2, <1>4, <1>5, <1>6, <1>13, <2>1, <2>2 DEF ReadSibling, LastItem
 <2>4. Search(s, c) \in SearchSet /\ Search(s, c).node = s /\ Search(s, c).cts = c
  BY <1>11 DEF Search, SearchSet, NodeOrNone, Shape
 <2>5. /\ v \in LocalsSet /\ v.sibling = Search(s, c)
       /\ v.node = m.node /\ v.height = m.height /\ v.level = m.level
       /\ v.results = m.results /\ v.push = m.push /\ v.right = m.right /\ v.barrier = m.barrier
       /\ v.cts = m.cts /\ v.edit = m.edit /\ v.adjusted = m.adjusted
  BY <1>8, <2>1, <2>4 DEF Going, LocalsSet
 <2>6. Going(D, v, call[t]) BY <1>8, <2>5 DEF Going
 <2>7. Slides(D, v, call[t])
  <3>1. ResultsFrom(D, m, m.level + 1) => ResultsFrom(D, v, v.level + 1) BY <2>5 DEF ResultsFrom
  <3>2. Walks(D, m, call[t].key) => Walks(D, v, call[t].key) BY <2>5, <3>1 DEF Walks
  <3>3. Removes(D, m, call[t]) => Removes(D, v, call[t]) BY <2>5 DEF Removes, Visits
  <3> QED BY <1>8, <2>5, <3>2, <3>3 DEF Slides, OnInner
 <2>8. SiblingRead(D, v) BY <1>3, <1>10, <1>11, <1>13, <2>4, <2>5 DEF SiblingRead
 <2>9. On(D, c.children[1], v.node[1] - 1)
  <3>1. n[1] # 0 BY <1>8
  <3>2. /\ c.children \in Seq(Names) /\ Len(c.children) = Len(c.items) /\ Len(c.items) \in Nat
        /\ \A i \in 1 .. Len(c.items) : On(D, c.children[i], n[1] - 1)
   BY <1>8, <1>11, <3>1, ShapeFacts
  <3>3. Len(c.items) # 0 BY <1>13, <3>2
  <3>4. On(D, c.children[1], n[1] - 1) BY <3>2, <3>3
  <3> QED BY <1>3, <2>5, <3>4
 <2>10. barrier \in Int /\ barrier < INF BY <1>8, <1>12, <2>2 DEF MultiwayAssumption
 <2>11. \E x : Arrives(t, "push", x) BY <1>1, <2>3, <2>6, <2>7, <2>8, <2>9, <2>10, NephewPushArrives
 <2> QED BY <1>7, <2>11, QuietArrives
<1>14. CASE c.children = <<>> /\ Removing(t)
 <2>1. NoSlide(t) BY <1>2, <1>4, <1>5, <1>14 DEF ReadSibling
 <2>2. \E l, x : Arrives(t, l, x) BY <1>1, <1>2, <1>7, <1>8, <2>1, NoSlideArrives
 <2> QED BY <1>7, <2>2, QuietArrives
<1>15. CASE c.children = <<>> /\ ~Removing(t)
 <2>1. GoTo(t, "linkRead") /\ UNCHANGED my BY <1>2, <1>4, <1>5, <1>15 DEF ReadSibling
 <2>2. Walks(D, m, call[t].key) /\ call[t].op # "contains"
  <3>1. Walks(D, m, call[t].key) BY <1>8, <1>15 DEF Slides, Removes, Removing
  <3>2. m.height # 0 BY <1>8, <3>1 DEF Walks, Going, LocalsSet
  <3> QED BY <1>8, <3>1, <3>2 DEF Going
 <2>3. AtLink(contents, D, "linkRead", m, call[t]) BY <1>3, <1>8, <1>9, <2>2 DEF AtLink, At
 <2>4. Placed(contents, "linkRead", m, call[t]) BY <1>1, <2>3 DEF Placed, At
 <2>5. LocalInv(contents, "linkRead", m, call[t]) BY <1>1, <1>8, <2>4, PlacedAs DEF Labels
 <2>6. \E l, x : Arrives(t, l, x) BY <1>2, <2>1, <2>5, StayArrives
 <2> QED BY <1>7, <2>6, QuietArrives
<1> QED BY <1>13, <1>14, <1>15

(* Where a thread stays with what it knows of the sibling. *)
LEMMA SlideStays ==
 ASSUME MultiwayInv, NEW t \in Threads, NEW D, D = DOMAIN contents,
        Going(D, my[t], call[t]), Slides(D, my[t], call[t]), SiblingRead(D, my[t]),
        NEW label \in {"slide", "unslide", "shiftNephew"},
        label = "shiftNephew" => /\ Walks(D, my[t], call[t].key)
                                 /\ On(D, my[t].push, my[t].node[1] - 1),
        GoTo(t, label), UNCHANGED my
 PROVE  \E l, x : Arrives(t, l, x)
<1>1. AtSlide(contents, D, label, my[t], call[t]) BY DEF AtSlide, At
<1>2. Placed(contents, label, my[t], call[t]) BY <1>1 DEF Placed, At
<1>3. LocalInv(contents, label, my[t], call[t]) BY <1>2, PlacedAs DEF Labels
<1> QED BY <1>3, StayArrives

LEMMA NephewKeeps ==
 ASSUME MultiwayInv, NEW t \in Threads, Nephew(t)
 PROVE  Kept
<1>1. PICK D : D = DOMAIN contents OBVIOUS
<1>2. PICK m : m = my[t] OBVIOUS
<1>3. pc[t] = "nephew" /\ UNCHANGED <<shared, history, bounds>> BY DEF Nephew
<1>4. /\ Going(D, m, call[t]) /\ Slides(D, m, call[t]) /\ SiblingRead(D, m)
      /\ On(D, m.push, m.node[1] - 1)
 BY <1>1, <1>2, <1>3, AtSlideFacts
<1>5. CASE GoTo(t, "slide") /\ UNCHANGED my
 <2>1. \E l, x : Arrives(t, l, x) BY <1>1, <1>2, <1>4, <1>5, SlideStays
 <2> QED BY <1>3, <2>1, QuietArrives
<1>6. CASE ~Removing(t) /\ GoTo(t, "shiftNephew") /\ UNCHANGED my
 <2>1. Walks(D, m, call[t].key) BY <1>4, <1>6 DEF Slides, Removes, Removing
 <2>2. \E l, x : Arrives(t, l, x) BY <1>1, <1>2, <1>4, <1>6, <2>1, SlideStays
 <2> QED BY <1>3, <2>2, QuietArrives
<1>7. CASE NoSlide(t)
 <2>1. \E l, x : Arrives(t, l, x) BY <1>1, <1>2, <1>3, <1>4, <1>7, NoSlideArrives
 <2> QED BY <1>3, <2>1, QuietArrives
<1> QED BY <1>5, <1>6, <1>7 DEF Nephew

LEMMA ShiftNephewKeeps ==
 ASSUME MultiwayInv, NEW t \in Threads, ShiftNephew(t)
 PROVE  Kept
<1>1. PICK D : D = DOMAIN contents OBVIOUS
<1>2. PICK m : m = my[t] OBVIOUS
<1>3. PICK l : l = m.node[1] OBVIOUS
<1>4. PICK s : s = m.sibling.node OBVIOUS
<1>5. PICK c : c = m.sibling.cts OBVIOUS
<1>6. PICK ch : ch = ReplaceAt(c.children, 1, m.push) OBVIOUS
<1>7. PICK new : new = WithChildren(c, ch) OBVIOUS
<1>8. /\ pc[t] = "shiftNephew" /\ SamaritanReturns(t, m.cts, m.cts)
      /\ IF CanReplace(s, c) THEN Replace(t, s, c, new, {"children"})
                             ELSE UNCHANGED <<shared, history, bounds>>
 BY <1>2, <1>4, <1>5, <1>6, <1>7 DEF ShiftNephew
<1>9. /\ Going(D, m, call[t]) /\ Slides(D, m, call[t]) /\ SiblingRead(D, m)
      /\ m.node \in D /\ l \in Nat /\ l >= 1 /\ D \in SUBSET Names
      /\ Shape(D, l, m.cts) /\ On(D, m.push, l - 1) /\ Walks(D, m, call[t].key)
 BY <1>1, <1>2, <1>3, <1>8, AtSlideFacts
<1>10. \E x : Arrives(t, "walk", x) BY <1>1, <1>2, <1>3, <1>8, <1>9, WalkOnArrives
<1>11. /\ Shape(D, l, c) /\ c.children \in Seq(Names) /\ Len(c.children) = Len(c.items)
       /\ Len(c.items) \in Nat /\ Len(c.items) >= 1
       /\ \A i \in 1 .. Len(c.items) : On(D, c.children[i], l - 1)
       /\ On(D, s, l)
 BY <1>3, <1>4, <1>5, <1>9, SiblingIs
<1>12. CASE CanReplace(s, c)
 <2>1. 1 \in 1 .. Len(c.children) BY <1>11
 <2>2. /\ ch \in Seq(Names) /\ Len(ch) = Len(c.children)
       /\ \A j \in 1 .. Len(c.children) : On(D, ch[j], l - 1)
  <3>1. PICK low : low = l - 1 OBVIOUS
  <3>2. PICK node : node = m.push OBVIOUS
  <3>3. PICK d : d = c.children OBVIOUS
  <3>4. d \in Seq(Names) /\ (\A j \in 1 .. Len(d) : On(D, d[j], low)) /\ On(D, node, low) /\ 1 \in 1 .. Len(d)
   BY <1>9, <1>11, <2>1, <3>1, <3>2, <3>3
  <3>5. /\ ReplaceAt(d, 1, node) \in Seq(Names) /\ Len(ReplaceAt(d, 1, node)) = Len(d)
        /\ \A j \in 1 .. Len(d) : On(D, ReplaceAt(d, 1, node)[j], low)
   BY <1>9, <3>4, OnReplace
  <3> QED BY <1>6, <3>1, <3>2, <3>3, <3>5
 <2>3. /\ new = Made(c.items, ch, c.link, c.stamp + 1, c.keysOf, c.stamp + 1)
       /\ Shape(D, l, new) /\ UpperEnd(new) <= UpperEnd(c)
  <3>1. Shape(D, l, c) /\ l # 0 /\ Len(ch) = Len(c.items) /\ \A j \in 1 .. Len(c.items) : On(D, ch[j], l - 1)
   BY <1>9, <1>11, <2>2
  <3> QED BY <1>7, <1>9, <2>2, <3>1, WithChildrenShape
 <2>4. new.link = c.link BY <2>3 DEF Made
 <2>5. Fits(D, l, c, new, {"children"}) BY <1>11, <2>3, <2>4, MadeAgesWell DEF Fits
 <2>6. s \in D /\ s[1] = l BY <1>11 DEF On
 <2> QED BY <1>1, <1>8, <1>10, <1>12, <2>5, <2>6, ReplaceArrives
<1>13. CASE ~CanReplace(s, c) BY <1>8, <1>10, <1>13, QuietArrives
<1> QED BY <1>12, <1>13

LEMMA SlideNeedlessKeeps ==
 ASSUME MultiwayInv, NEW t \in Threads, SlideNeedless(t)
 PROVE  Kept
<1>1. PICK D : D = DOMAIN contents OBVIOUS
<1>2. PICK m : m = my[t] OBVIOUS
<1>3. pc[t] = "slide" /\ UNCHANGED <<shared, history, bounds>> BY DEF SlideNeedless
<1>4. /\ Going(D, m, call[t]) /\ Slides(D, m, call[t]) /\ SiblingRead(D, m)
      /\ Shape(D, m.node[1], m.cts)
 BY <1>1, <1>2, <1>3, AtSlideFacts
<1>5. CASE GoTo(t, "unslide") /\ UNCHANGED my
 <2>1. \E l, x : Arrives(t, l, x) BY <1>1, <1>2, <1>4, <1>5, SlideStays
 <2> QED BY <1>3, <2>1, QuietArrives
<1>6. CASE SlideReturns(t, my[t].cts)
 <2>1. \E l, x : Arrives(t, l, x) BY <1>1, <1>2, <1>3, <1>4, <1>6, SlideReturnsArrives
 <2> QED BY <1>3, <2>1, QuietArrives
<1> QED BY <1>5, <1>6 DEF SlideNeedless

LEMMA SlideKeeps ==
 ASSUME MultiwayInv, NEW t \in Threads, Slide(t)
 PROVE  Kept
<1>1. PICK D : D = DOMAIN contents OBVIOUS
<1>2. PICK m : m = my[t] OBVIOUS
<1>3. PICK l : l = m.node[1] OBVIOUS
<1>4. PICK s : s = m.sibling.node OBVIOUS
<1>5. PICK c : c = m.sibling.cts OBVIOUS
<1>6. PICK last : last = LastItem(t) OBVIOUS
<1>7. PICK child : child = Last(m.edit.children) OBVIOUS
<1>8. PICK new : new = Added(c, 1, last, child, 1) OBVIOUS
<1>9. /\ pc[t] = "slide" /\ Index(c, last) = 1 /\ ~Found(c, last)
      /\ IF CanReplace(s, c)
         THEN Replace(t, s, c, new, {"keys", "children"}) /\ GoTo(t, "unslide") /\ UNCHANGED my
         ELSE SlideReturns(t, m.cts) /\ UNCHANGED <<shared, history, bounds>>
 BY <1>2, <1>4, <1>5, <1>6, <1>7, <1>8 DEF Slide
<1>10. /\ Going(D, m, call[t]) /\ Slides(D, m, call[t]) /\ SiblingRead(D, m)
       /\ m.node \in D /\ l \in Nat /\ l >= 1 /\ D \in SUBSET Names
       /\ Shape(D, l, m.cts) /\ HasPlace(D, l, m.edit, call[t].key) /\ m.edit.link # NoNode
       /\ call[t].key \in Keys
 BY <1>1, <1>2, <1>3, <1>9, AtSlideFacts
<1>11. last \in Keys /\ On(D, child, l - 1)
 <2>1. l # 0 BY <1>10
 <2> QED BY <1>2, <1>6, <1>7, <1>10, <2>1, LastItemFacts DEF LastItem
<1>12. /\ Shape(D, l, c) /\ Len(c.items) \in Nat /\ Len(c.items) >= 1 /\ On(D, s, l)
 BY <1>3, <1>4, <1>5, <1>10, SiblingIs
<1>13. CASE CanReplace(s, c)
 <2>1. HasPlace(D, l, c, last) BY <1>9, <1>12 DEF HasPlace, Beyond
 <2>3. PICK i, k : i = 1 /\ k = 1 OBVIOUS
 <2>4. Fits(D, l, c, new, {"keys", "children"})
  <3>1. /\ i = Index(c, last) /\ (k = 1 \/ k = i + 1) /\ (l # 0 => On(D, child, l - 1))
        /\ new = Added(c, i, last, child, k) /\ l \in Nat /\ D \in SUBSET Names /\ ~Found(c, last)
   BY <1>8, <1>9, <1>10, <1>11, <2>3
  <3> QED BY <1>11, <2>1, <3>1, AddedShape
 <2>9. s \in D /\ s[1] = l BY <1>12 DEF On
 <2>10. \E kk, x : Arrives(t, kk, x) BY <1>1, <1>2, <1>9, <1>10, <1>13, SlideStays
 <2> QED BY <1>1, <1>9, <1>13, <2>4, <2>9, <2>10, ReplaceArrives
<1>14. CASE ~CanReplace(s, c)
 <2>1. \E k, x : Arrives(t, k, x) BY <1>1, <1>2, <1>3, <1>9, <1>10, <1>14, SlideReturnsArrives
 <2> QED BY <1>9, <1>14, <2>1, QuietArrives
<1> QED BY <1>13, <1>14

LEMMA UnslideKeeps ==
 ASSUME MultiwayInv, NEW t \in Threads, Unslide(t)
 PROVE  Kept
<1>1. PICK D : D = DOMAIN contents OBVIOUS
<1>2. PICK m : m = my[t] OBVIOUS
<1>3. PICK n : n = m.node OBVIOUS
<1>4. PICK c : c = m.edit OBVIOUS
<1>5. PICK k : k = Len(c.items) OBVIOUS
<1>6. PICK new : new = Removed(c, k) OBVIOUS
<1>7. /\ pc[t] = "unslide"
      /\ IF CanReplace(n, c)
         THEN Replace(t, n, c, new, {"keys", "children"}) /\ SlideReturns(t, new)
         ELSE SlideReturns(t, c) /\ UNCHANGED <<shared, history, bounds>>
 BY <1>2, <1>3, <1>4, <1>5, <1>6 DEF Unslide
<1>8. /\ Going(D, m, call[t]) /\ Slides(D, m, call[t]) /\ n \in D /\ n[1] \in Nat /\ D \in SUBSET Names
      /\ HasPlace(D, n[1], c, call[t].key) /\ c.link # NoNode /\ call[t].key \in Keys
      /\ Shape(D, n[1], c)
 BY <1>1, <1>2, <1>3, <1>4, <1>7, AtSlideFacts
<1>9. CASE CanReplace(n, c)
 <2>1. k \in 1 .. Len(c.items) /\ c.items[k] # INF
  <3>1. /\ Len(c.items) \in Nat /\ Len(c.items) >= 1 /\ Last(c.items) = c.items[Len(c.items)]
        /\ Last(c.items) # INF
   BY <1>8, LastItemFacts
  <3> QED BY <1>5, <3>1
 <2>4. Fits(D, n[1], c, new, {"keys", "children"}) BY <1>6, <1>8, <2>1, RemovedReplaces
 <2>5. Shape(D, n[1], new) BY <2>4 DEF Fits
 <2>7. \E l, x : Arrives(t, l, x) BY <1>1, <1>2, <1>3, <1>7, <1>8, <1>9, <2>5, SlideReturnsArrives
 <2> QED BY <1>1, <1>7, <1>8, <1>9, <2>4, <2>7, ReplaceArrives
<1>10. CASE ~CanReplace(n, c)
 <2>1. \E l, x : Arrives(t, l, x) BY <1>1, <1>2, <1>3, <1>7, <1>8, <1>10, SlideReturnsArrives
 <2> QED BY <1>7, <1>10, <2>1, QuietArrives
<1> QED BY <1>9, <1>10

-----------------------------------------------------------------------------
(* The children that are pushed to the right. *)
LEMMA AtAdjustFacts ==
 ASSUME MultiwayInv, NEW t \in Threads, pc[t] \in {"adjust", "shift"},
        NEW D, D = DOMAIN contents, NEW m, m = my[t], NEW n, n = m.node
 PROVE  /\ Going(D, m, call[t]) /\ TreeInv(contents, root) /\ EMPTY < INF
        /\ OnInner(D, m) /\ Removes(D, m, call[t]) /\ Adjusts(D, m, call[t])
        /\ n \in D /\ n[1] \in Nat /\ n[1] # 0 /\ D \in SUBSET Names
        /\ HasPlace(D, n[1], m.edit, call[t].key) /\ call[t].key \in Keys
        /\ m.adjusted \in Seq(Names) /\ \A q \in 1 .. Len(m.adjusted) : On(D, m.adjusted[q], n[1] - 1)
        /\ pc[t] = "adjust" => Len(m.adjusted) < Len(Adjusting(m.edit, call[t].key)) /\ On(D, m.push, n[1] - 1)
        /\ pc[t] = "shift" => Len(m.adjusted) = Len(Adjusting(m.edit, call[t].key))
<1>1. /\ Going(D, m, call[t]) /\ TreeInv(contents, root) /\ EMPTY < INF
      /\ Placed(contents, pc[t], m, call[t]) /\ call[t].key \in Keys
 BY CallFacts
<1>2. AtAdjust(D, pc[t], m, call[t]) BY <1>1 DEF Placed, At
<1>3. Adjusts(D, m, call[t]) BY <1>2 DEF AtAdjust
<1>4. n \in D /\ D \in SUBSET Names /\ n[1] \in Nat BY <1>1, <1>3, NodeRead DEF Adjusts, OnInner
<1>5. OnInner(D, m) /\ Removes(D, m, call[t]) /\ HasPlace(D, n[1], m.edit, call[t].key) /\ n[1] # 0
 BY <1>3, <1>4 DEF Adjusts, OnInner
<1>6. m.adjusted \in Seq(Names) /\ \A q \in 1 .. Len(m.adjusted) : On(D, m.adjusted[q], n[1] - 1)
 BY <1>1, <1>3 DEF Adjusts, Going, LocalsSet
<1>7. /\ pc[t] = "adjust" => Len(m.adjusted) < Len(Adjusting(m.edit, call[t].key)) /\ On(D, m.push, n[1] - 1)
      /\ pc[t] = "shift" => Len(m.adjusted) = Len(Adjusting(m.edit, call[t].key))
 BY <1>2 DEF AtAdjust, At
<1> QED BY <1>1, <1>3, <1>4, <1>5, <1>6, <1>7

LEMMA AdjustNextKeeps ==
 ASSUME MultiwayInv, NEW t \in Threads, AdjustNext(t)
 PROVE  Kept
<1>1. PICK D : D = DOMAIN contents OBVIOUS
<1>2. PICK m : m = my[t] OBVIOUS
<1>3. PICK low : low = m.node[1] - 1 OBVIOUS
<1>4. PICK key : key = call[t].key OBVIOUS
<1>5. PICK a : a = Append(m.adjusted, m.push) OBVIOUS
<1>6. PICK v : v = [m EXCEPT !.adjusted = a] OBVIOUS
<1>7. PICK k : k = Len(Adjusting(m.edit, key)) OBVIOUS
<1>8. pc[t] = "adjust" /\ UNCHANGED <<shared, history, bounds>> BY DEF AdjustNext
<1>9. /\ Going(D, m, call[t]) /\ TreeInv(contents, root) /\ EMPTY < INF
      /\ OnInner(D, m) /\ Removes(D, m, call[t]) /\ m.node \in D /\ m.node[1] \in Nat /\ m.node[1] # 0
      /\ D \in SUBSET Names /\ HasPlace(D, m.node[1], m.edit, key) /\ key \in Keys
 BY <1>1, <1>2, <1>4, <1>8, AtAdjustFacts
<1>10. /\ m.adjusted \in Seq(Names) /\ \A q \in 1 .. Len(m.adjusted) : On(D, m.adjusted[q], low)
 BY <1>1, <1>2, <1>3, <1>8, AtAdjustFacts
<1>11. Len(m.adjusted) < k /\ On(D, m.push, low)
 BY <1>1, <1>2, <1>3, <1>4, <1>7, <1>8, AtAdjustFacts
<1>12. k \in 1 .. 2 BY <1>7, <1>9, AdjustingFacts
<1>13. a \in Seq(Names) /\ Len(a) = Len(m.adjusted) + 1 /\ Len(a) <= k
       /\ \A q \in 1 .. Len(a) : On(D, a[q], low)
 <2>1. m.push \in Names BY <1>9, <1>11 DEF On
 <2>2. PICK s, e : s = m.adjusted /\ e = m.push OBVIOUS
 <2>3. s \in Seq(Names) /\ e \in Names /\ a = Append(s, e)
       /\ (\A q \in 1 .. Len(s) : On(D, s[q], low)) /\ On(D, e, low)
  BY <1>5, <1>10, <1>11, <2>1, <2>2
 <2>4. a \in Seq(Names) /\ Len(a) = Len(s) + 1 /\ \A q \in 1 .. Len(a) : On(D, a[q], low) BY <2>3
 <2>5. Len(s) \in Nat /\ Len(s) < k BY <1>11, <2>2, <2>3
 <2>6. Len(s) + 1 <= k BY <1>12, <2>5
 <2> QED BY <2>2, <2>4, <2>6
<1>14. /\ v \in LocalsSet /\ v.adjusted = a /\ v.node = m.node /\ v.height = m.height /\ v.level = m.level
       /\ v.results = m.results /\ v.push = m.push /\ v.right = m.right /\ v.barrier = m.barrier
       /\ v.cts = m.cts /\ v.edit = m.edit
 BY <1>6, <1>9, <1>13 DEF Going, LocalsSet
<1>15. Going(D, v, call[t]) BY <1>9, <1>14 DEF Going
<1>16. Adjusts(D, v, call[t])
 <2>1. Removes(D, v, call[t]) /\ OnInner(D, v) BY <1>9, <1>14 DEF Removes, Visits, OnInner
 <2> QED BY <1>3, <1>4, <1>9, <1>13, <1>14, <2>1 DEF Adjusts
<1>17. CASE Len(a) < k
 <2>1. Adjust(t, v) BY <1>2, <1>4, <1>5, <1>6, <1>7, <1>14, <1>17 DEF AdjustNext, Key
 <2>2. Len(v.adjusted) < Len(Adjusting(v.edit, call[t].key)) BY <1>4, <1>7, <1>14, <1>17
 <2>3. \E x : Arrives(t, "push", x) BY <1>1, <1>9, <1>15, <1>16, <2>1, <2>2, AdjustArrives
 <2> QED BY <1>8, <2>3, QuietArrives
<1>18. CASE ~(Len(a) < k) /\ Down(t)
 <2>1. \E x : Arrives(t, "visit", x) BY <1>1, <1>2, <1>8, <1>9, <1>18, DownArrives
 <2> QED BY <1>8, <2>1, QuietArrives
<1>19. CASE ~(Len(a) < k) /\ GoTo(t, "shift") /\ Become(t, v)
 <2>1. Len(a) = k
  <3>1. PICK j : j = Len(a) OBVIOUS
  <3>2. j \in Nat /\ j <= k /\ ~(j < k) BY <1>13, <1>19, <3>1
  <3> QED BY <1>12, <3>1, <3>2
 <2>2. AtAdjust(D, "shift", v, call[t]) BY <1>4, <1>7, <1>14, <1>16, <2>1 DEF AtAdjust, At
 <2>3. Placed(contents, "shift", v, call[t]) BY <1>1, <2>2 DEF Placed, At
 <2>4. LocalInv(contents, "shift", v, call[t]) BY <1>1, <1>15, <2>3, PlacedAs DEF Labels
 <2>5. Arrives(t, "shift", v) BY <1>19, <2>4 DEF Arrives, GoTo, Become
 <2> QED BY <1>8, <2>5, QuietArrives
<1>20. Len(a) < k \/ Down(t) \/ (GoTo(t, "shift") /\ Become(t, v))
 BY <1>2, <1>4, <1>5, <1>6, <1>7, <1>14 DEF AdjustNext, Key
<1> QED BY <1>17, <1>18, <1>19, <1>20

LEMMA ShiftKeeps ==
 ASSUME MultiwayInv, NEW t \in Threads, Shift(t)
 PROVE  Kept
<1>1. PICK D : D = DOMAIN contents OBVIOUS
<1>2. PICK m : m = my[t] OBVIOUS
<1>3. PICK n : n = m.node OBVIOUS
<1>4. PICK c : c = m.edit OBVIOUS
<1>5. PICK key : key = call[t].key OBVIOUS
<1>6. PICK a : a = m.adjusted OBVIOUS
<1>7. PICK new : new = Adjusted(c, key, a) OBVIOUS
<1>8. PICK parts : parts = IF Dropping(c, key, a) THEN {"keys", "children"} ELSE {"children"}
 OBVIOUS
<1>9. /\ pc[t] = "shift"
      /\ IF CanReplace(n, c) THEN Replace(t, n, c, new, parts) /\ Down(t)
         ELSE GoTo(t, "cleanAgain") /\ UNCHANGED <<my, shared, history, bounds>>
 BY <1>2, <1>3, <1>4, <1>5, <1>6, <1>7, <1>8 DEF Shift, Key
<1>10. /\ Going(D, m, call[t]) /\ OnInner(D, m) /\ Removes(D, m, call[t])
       /\ n \in D /\ n[1] \in Nat /\ n[1] # 0 /\ D \in SUBSET Names
       /\ HasPlace(D, n[1], c, key) /\ key \in Keys
 BY <1>1, <1>2, <1>3, <1>4, <1>5, <1>9, AtAdjustFacts
<1>11. CASE CanReplace(n, c)
 <2>1. /\ a \in Seq(Names) /\ \A q \in 1 .. Len(a) : On(D, a[q], n[1] - 1)
  BY <1>1, <1>2, <1>3, <1>6, <1>9, AtAdjustFacts
 <2>2. Len(a) = Len(Adjusting(c, key)) BY <1>1, <1>2, <1>3, <1>4, <1>5, <1>6, <1>9, AtAdjustFacts
 <2>3. PICK l : l = n[1] OBVIOUS
 <2>4. Fits(D, l, c, new, parts) BY <1>7, <1>8, <1>10, <2>1, <2>2, <2>3, AdjustedShape
 <2>5. \E k, x : Arrives(t, k, x)
  <3>1. \E x : Arrives(t, "visit", x) BY <1>1, <1>2, <1>9, <1>10, <1>11, DownArrives
  <3> QED BY <3>1
 <2>7. Replace(t, n, c, new, parts) BY <1>9, <1>11
 <2>8. n \in D /\ l = n[1] BY <1>10, <2>3
 <2>9. PICK k, x : Arrives(t, k, x) BY <2>5
 <2>10. CASE parts = {"keys", "children"}
  <3>1. Fits(D, l, c, new, {"keys", "children"}) /\ Replace(t, n, c, new, {"keys", "children"})
   BY <2>4, <2>7, <2>10
  <3> QED BY <1>1, <1>11, <2>8, <2>9, <3>1, ReplaceArrives
 <2>11. CASE parts = {"children"}
  <3>1. Fits(D, l, c, new, {"children"}) /\ Replace(t, n, c, new, {"children"}) BY <2>4, <2>7, <2>11
  <3> QED BY <1>1, <1>11, <2>8, <2>9, <3>1, ReplaceArrives
 <2> QED BY <1>8, <2>10, <2>11
<1>12. CASE ~CanReplace(n, c)
 <2>1. GoTo(t, "cleanAgain") /\ UNCHANGED my /\ UNCHANGED <<shared, history, bounds>> BY <1>9, <1>12
 <2>2. Placed(contents, "cleanAgain", m, call[t]) BY <1>1, <1>10 DEF Placed, At
 <2>3. LocalInv(contents, "cleanAgain", m, call[t]) BY <1>1, <1>10, <2>2, PlacedAs DEF Labels
 <2>4. \E l, x : Arrives(t, l, x) BY <1>2, <2>1, <2>3, StayArrives
 <2> QED BY <2>1, <2>4, QuietArrives
<1> QED BY <1>11, <1>12

CleaningAgain(m, c) == [m EXCEPT !.edit = c, !.adjusted = <<>>, !.sibling = NoSearch]

LEMMA CleanAgainKeeps ==
 ASSUME MultiwayInv, NEW t \in Threads, CleanAgain(t)
 PROVE  Kept
<1>1. PICK D : D = DOMAIN contents OBVIOUS
<1>2. PICK m : m = my[t] OBVIOUS
<1>3. PICK n : n = m.node OBVIOUS
<1>4. PICK c : c = contents[n] OBVIOUS
<1>5. PICK key : key = call[t].key OBVIOUS
<1>6. /\ pc[t] = "cleanAgain" /\ UNCHANGED <<shared, history, bounds>>
      /\ IF Beyond(c, key) THEN Down(t) ELSE CleanNode(t, CleaningAgain(my[t], c))
 BY <1>2, <1>3, <1>4, <1>5, Zenon DEF CleanAgain, Key, CleaningAgain
<1>7. /\ Going(D, m, call[t]) /\ TreeInv(contents, root) /\ EMPTY < INF
      /\ OnInner(D, m) /\ Removes(D, m, call[t]) /\ key \in Keys /\ n \in D
 BY <1>1, <1>2, <1>3, <1>5, <1>6, CallFacts DEF Placed, OnInner
<1>8. Shape(D, n[1], c) /\ c \in ContentsSet BY <1>1, <1>4, <1>7, NodeRead DEF Shape
<1>9. CASE Beyond(c, key)
 <2>1. \E x : Arrives(t, "visit", x) BY <1>1, <1>2, <1>6, <1>7, <1>9, DownArrives
 <2> QED BY <1>6, <2>1, QuietArrives
<1>10. CASE ~Beyond(c, key)
 <2>1. PICK a : a = [m EXCEPT !.edit = c] OBVIOUS
 <2>2. PICK b : b = [a EXCEPT !.adjusted = <<>>] OBVIOUS
 <2>3. PICK v : v = [b EXCEPT !.sibling = NoSearch] OBVIOUS
 <2>4. m \in LocalsSet /\ NoSearch \in SearchSet /\ <<>> \in Seq(Names)
  BY <1>7, EmptyIsTyped DEF Going
 <2>5. v = CleaningAgain(m, c) BY <2>1, <2>2, <2>3, <2>4 DEF CleaningAgain, LocalsSet
 <2>6. /\ a \in LocalsSet /\ a.edit = c /\ a.node = m.node /\ a.height = m.height /\ a.level = m.level
       /\ a.results = m.results /\ a.push = m.push /\ a.right = m.right /\ a.barrier = m.barrier
       /\ a.cts = m.cts
  BY <1>8, <2>1, <2>4 DEF LocalsSet
 <2>7. /\ b \in LocalsSet /\ b.edit = c /\ b.node = m.node /\ b.height = m.height /\ b.level = m.level
       /\ b.results = m.results /\ b.push = m.push /\ b.right = m.right /\ b.barrier = m.barrier
       /\ b.cts = m.cts /\ b.adjusted = <<>>
  BY <2>2, <2>4, <2>6 DEF LocalsSet
 <2>8. /\ v \in LocalsSet /\ v.edit = c /\ v.node = m.node /\ v.height = m.height /\ v.level = m.level
       /\ v.results = m.results /\ v.push = m.push /\ v.right = m.right /\ v.barrier = m.barrier
       /\ v.cts = m.cts /\ v.adjusted = <<>>
  BY <2>3, <2>4, <2>7 DEF LocalsSet
 <2>9. Going(D, v, call[t]) BY <1>7, <2>8 DEF Going
 <2>10. OnInner(D, v) /\ Removes(D, v, call[t]) BY <1>7, <2>8 DEF OnInner, Removes, Visits
 <2>11. HasPlace(D, v.node[1], v.edit, call[t].key) BY <1>3, <1>5, <1>8, <1>10, <2>8 DEF HasPlace
 <2>12. v.edit.link # NoNode => contents[v.node].link # NoNode BY <1>3, <1>4, <2>8
 <2>13. CleanNode(t, v) BY <1>2, <1>6, <1>10, <2>5
 <2>14. \E x : Arrives(t, "push", x)
  BY <1>1, <1>7, <2>8, <2>9, <2>10, <2>11, <2>12, <2>13, CleanNodeArrives
 <2> QED BY <1>6, <2>14, QuietArrives
<1> QED BY <1>9, <1>10

-----------------------------------------------------------------------------
(* The updates. *)
Forwarded(m, then) == [m EXCEPT !.cts = NoContents, !.then = then]

LEMMA ForwardKeeps ==
 ASSUME MultiwayInv, NEW t \in Threads,
        NEW label \in {"insert", "remove", "split", "raise"}, pc[t] = label, Forward(t, label)
 PROVE  Kept
<1>1. PICK D : D = DOMAIN contents OBVIOUS
<1>2. PICK m : m = my[t] OBVIOUS
<1>3. GoTo(t, "forward") /\ Become(t, Forwarded(my[t], label)) /\ UNCHANGED <<shared, history, bounds>>
 BY Zenon DEF Forward, Forwarded
<1>4. Going(D, m, call[t]) /\ Placed(contents, label, m, call[t]) BY <1>1, <1>2, CallFacts
<1>5. PICK a : a = [m EXCEPT !.cts = NoContents] OBVIOUS
<1>6. PICK v : v = [a EXCEPT !.then = label] OBVIOUS
<1>7. m \in LocalsSet /\ NoContents \in ContentsSet /\ label \in Labels
 BY <1>4, EmptyIsTyped DEF Going, Labels
<1>8. v = Forwarded(m, label) BY <1>5, <1>6, <1>7 DEF Forwarded, LocalsSet
<1>9. /\ a \in LocalsSet /\ a.node = m.node /\ a.height = m.height /\ a.level = m.level
      /\ a.results = m.results /\ a.push = m.push /\ a.right = m.right
 BY <1>5, <1>7 DEF LocalsSet
<1>10. /\ v \in LocalsSet /\ v.node = m.node /\ v.height = m.height /\ v.level = m.level
       /\ v.results = m.results /\ v.push = m.push /\ v.right = m.right /\ v.then = label
 BY <1>6, <1>7, <1>9 DEF LocalsSet
<1>11. Going(D, v, call[t]) BY <1>4, <1>10 DEF Going
<1>12. Placed(contents, "forward", v, call[t])
 <2>1. label \in {"insert", "remove"} => AtLeaf(D, label, m, call[t]) BY <1>1, <1>4 DEF Placed, At
 <2>2. label \in {"split", "raise"} => AtIndex(D, label, m, call[t]) BY <1>1, <1>4 DEF Placed, At
 <2>3. label \in {"insert", "remove"} => AtLeaf(D, "forward", v, call[t])
  BY <1>10, <2>1 DEF AtLeaf, At, ResultsFrom
 <2>4. label \in {"split", "raise"} => AtIndex(D, "forward", v, call[t])
  BY <1>10, <2>2 DEF AtIndex, At, ResultsFrom
 <2> QED BY <1>1, <1>10, <2>3, <2>4 DEF Placed, At
<1>13. LocalInv(contents, "forward", v, call[t]) BY <1>1, <1>11, <1>12, PlacedAs DEF Labels
<1>14. Arrives(t, "forward", v) BY <1>2, <1>3, <1>8, <1>13 DEF Arrives, GoTo, Become
<1> QED BY <1>3, <1>14, QuietArrives

LEMMA UpdateFails ==
 ASSUME MultiwayInv, NEW t \in Threads,
        InsertFails(t) \/ RemoveFails(t) \/ SplitFails(t) \/ RaiseFails(t)
 PROVE  Kept
<1>1. CASE InsertFails(t) BY <1>1, ForwardKeeps DEF InsertFails
<1>2. CASE RemoveFails(t) BY <1>2, ForwardKeeps DEF RemoveFails
<1>3. CASE SplitFails(t) BY <1>3, ForwardKeeps DEF SplitFails
<1>4. CASE RaiseFails(t) BY <1>4, ForwardKeeps DEF RaiseFails
<1> QED BY <1>1, <1>2, <1>3, <1>4

Resumed(m, c) == [m EXCEPT !.cts = c, !.then = "none"]

LEMMA MoveForwardKeeps ==
 ASSUME MultiwayInv, NEW t \in Threads, MoveForward(t)
 PROVE  Kept
<1>1. PICK D : D = DOMAIN contents OBVIOUS
<1>2. PICK m : m = my[t] OBVIOUS
<1>3. PICK n : n = m.node OBVIOUS
<1>4. PICK c : c = contents[n] OBVIOUS
<1>5. PICK key : key = call[t].key OBVIOUS
<1>6. pc[t] = "forward" /\ UNCHANGED <<shared, history, bounds>> BY DEF MoveForward
<1>7. IF Beyond(c, key) THEN Become(t, [m EXCEPT !.node = c.link]) /\ UNCHANGED pc
      ELSE GoTo(t, m.then) /\ Become(t, Resumed(m, c))
 BY <1>2, <1>3, <1>4, <1>5, Zenon DEF MoveForward, Key, Resumed
<1>8. /\ Going(D, m, call[t]) /\ Placed(contents, "forward", m, call[t]) /\ key \in Keys
      /\ TreeInv(contents, root)
 BY <1>1, <1>2, <1>5, <1>6, CallFacts
<1>9. /\ m.then \in {"insert", "remove", "split", "raise"} /\ At("forward", m) = m.then
      /\ m.then \in {"insert", "remove"} => AtLeaf(D, "forward", m, call[t])
      /\ m.then \in {"split", "raise"} => AtIndex(D, "forward", m, call[t])
 BY <1>1, <1>8 DEF Placed, At
<1>10. n \in D BY <1>3, <1>9 DEF AtLeaf, AtIndex, On
<1>11. Shape(D, n[1], c) /\ n[1] \in Nat /\ D \in SUBSET Names /\ c \in ContentsSet
 BY <1>1, <1>4, <1>8, <1>10, NodeRead DEF Shape
<1>12. m \in LocalsSet BY <1>8 DEF Going
<1>13. CASE Beyond(c, key)
 <2>1. On(D, c.link, n[1]) /\ c.link \in Names BY <1>8, <1>11, <1>13, BeyondHasLink DEF On
 <2>2. PICK k : k = c.link OBVIOUS
 <2>3. PICK v : v = [m EXCEPT !.node = k] OBVIOUS
 <2>4. /\ v \in LocalsSet /\ v.node = k /\ v.height = m.height /\ v.level = m.level
       /\ v.results = m.results /\ v.push = m.push /\ v.right = m.right /\ v.then = m.then
  BY <1>12, <2>1, <2>2, <2>3 DEF LocalsSet, NodeOrNone
 <2>5. Going(D, v, call[t]) BY <1>8, <2>1, <2>2, <2>4 DEF Going, On
 <2>6. k[1] = n[1] /\ k \in D BY <2>1, <2>2 DEF On
 <2>7. m.then \in {"insert", "remove"} => AtLeaf(D, "forward", v, call[t])
  BY <1>3, <1>9, <2>4, <2>6 DEF AtLeaf, At, ResultsFrom, On
 <2>8. m.then \in {"split", "raise"} => AtIndex(D, "forward", v, call[t])
  BY <1>3, <1>9, <2>4, <2>6 DEF AtIndex, At, ResultsFrom, On
 <2>9. Placed(contents, "forward", v, call[t]) BY <1>1, <1>9, <2>4, <2>7, <2>8 DEF Placed, At
 <2>10. LocalInv(contents, "forward", v, call[t]) BY <1>1, <2>5, <2>9, PlacedAs DEF Labels
 <2>11. Become(t, v) /\ UNCHANGED pc BY <1>7, <1>13, <2>2, <2>3
 <2>12. \E l, x : Arrives(t, l, x) BY <1>6, <2>10, <2>11, BecomeArrives
 <2> QED BY <1>6, <2>12, QuietArrives
<1>14. CASE ~Beyond(c, key)
 <2>1. PICK a : a = [m EXCEPT !.cts = c] OBVIOUS
 <2>2. PICK v : v = [a EXCEPT !.then = "none"] OBVIOUS
 <2>3. v = Resumed(m, c) BY <1>11, <1>12, <2>1, <2>2 DEF Resumed, LocalsSet
 <2>4. /\ a \in LocalsSet /\ a.node = n /\ a.height = m.height /\ a.level = m.level
       /\ a.results = m.results /\ a.push = m.push /\ a.right = m.right /\ a.cts = c
  BY <1>3, <1>11, <1>12, <2>1 DEF LocalsSet
 <2>5. /\ v \in LocalsSet /\ v.node = n /\ v.height = m.height /\ v.level = m.level
       /\ v.results = m.results /\ v.push = m.push /\ v.right = m.right /\ v.cts = c
  <3>1. PICK T : T = Labels \cup {"none"} OBVIOUS
  <3>2. "none" \in T BY <3>1
  <3> QED BY <2>2, <2>4, <3>1, <3>2 DEF LocalsSet
 <2>6. Going(D, v, call[t]) BY <1>3, <1>8, <2>5 DEF Going
 <2>7. PICK label : label = m.then OBVIOUS
 <2>8. label \in {"insert", "remove", "split", "raise"} /\ At(label, v) = label BY <1>9, <2>7 DEF At
 <2>9. label \in {"insert", "remove"} => AtLeaf(D, label, v, call[t])
  <3>1. SUFFICES ASSUME label \in {"insert", "remove"} PROVE AtLeaf(D, label, v, call[t]) OBVIOUS
  <3>2. AtLeaf(D, "forward", m, call[t]) BY <1>9, <2>7, <3>1
  <3>3. n[1] = 0 BY <1>3, <3>2 DEF AtLeaf, On
  <3>4. HasPlace(D, 0, c, key) BY <1>11, <1>14, <3>3 DEF HasPlace
  <3> QED BY <1>3, <1>5, <1>9, <2>5, <2>7, <2>8, <3>2, <3>4 DEF AtLeaf, ResultsFrom
 <2>10. label \in {"split", "raise"} => AtIndex(D, label, v, call[t])
  BY <1>3, <1>9, <1>11, <2>5, <2>7, <2>8 DEF AtIndex, ResultsFrom
 <2>11. Placed(contents, label, v, call[t]) BY <1>1, <2>8, <2>9, <2>10 DEF Placed
 <2>12. LocalInv(contents, label, v, call[t]) BY <1>1, <2>6, <2>8, <2>11, PlacedAs DEF Labels
 <2>13. Arrives(t, label, v) BY <1>2, <1>7, <1>14, <2>3, <2>7, <2>12 DEF Arrives, GoTo, Become
 <2> QED BY <1>6, <2>13, QuietArrives
<1> QED BY <1>13, <1>14

LEMMA AtIndexFacts ==
 ASSUME MultiwayInv, NEW t \in Threads, pc[t] \in {"split", "raise"},
        NEW D, D = DOMAIN contents, NEW m, m = my[t]
 PROVE  /\ Going(D, m, call[t]) /\ TreeInv(contents, root) /\ call[t].key \in Keys
        /\ m.level < m.height /\ ResultsFrom(D, m, m.level + 1)
        /\ m.node \in D /\ Shape(D, m.node[1], m.cts)
        /\ m.results \in [0 .. m.height -> SearchSet] /\ m.level \in Nat /\ m.height \in Nat
        /\ pc[t] = "split" => m.node[1] = m.level
        /\ pc[t] = "raise" => m.node[1] = m.level + 1 /\ On(D, m.right, m.level)
<1>1. /\ Going(D, m, call[t]) /\ Placed(contents, pc[t], m, call[t]) /\ TreeInv(contents, root)
      /\ call[t].key \in Keys
 BY CallFacts
<1>2. AtIndex(D, pc[t], m, call[t]) BY <1>1 DEF Placed, At
<1> QED BY <1>1, <1>2 DEF AtIndex, At, On, Going, LocalsSet

LEMMA LevelDoneKeepsResults ==
 ASSUME MultiwayInv, NEW t \in Threads, pc[t] \in {"split", "raise"}, LevelDone(t, my[t].results)
 PROVE  \E label, m : Arrives(t, label, m)
<1>1. PICK D : D = DOMAIN contents OBVIOUS
<1>2. PICK r : r = my[t].results OBVIOUS
<1>3. PICK level : level = my[t].level OBVIOUS
<1>4. /\ Going(D, my[t], call[t]) /\ level < my[t].height /\ ResultsFrom(D, my[t], level + 1)
      /\ r \in [0 .. my[t].height -> SearchSet]
 BY <1>1, <1>2, <1>3, AtIndexFacts
<1>5. \A i \in 0 .. my[t].height : level + 1 <= i => On(D, r[i].node, i) /\ Shape(D, i, r[i].cts)
 BY <1>2, <1>4 DEF ResultsFrom
<1>6. LevelDone(t, r) BY <1>2
<1> QED BY <1>1, <1>3, <1>4, <1>5, <1>6, LevelDoneArrives

LEMMA IndexNothing ==
 ASSUME MultiwayInv, NEW t \in Threads, SplitNothing(t) \/ RaiseNothing(t)
 PROVE  Kept
<1>1. pc[t] \in {"split", "raise"} /\ LevelDone(t, my[t].results) /\ UNCHANGED <<shared, history, bounds>>
 BY DEF SplitNothing, RaiseNothing
<1>2. \E label, m : Arrives(t, label, m) BY <1>1, LevelDoneKeepsResults
<1> QED BY <1>1, <1>2, QuietArrives

LEMMA AtLeafFacts ==
 ASSUME MultiwayInv, NEW t \in Threads, pc[t] \in {"insert", "remove"},
        NEW D, D = DOMAIN contents, NEW m, m = my[t]
 PROVE  /\ Going(D, m, call[t]) /\ TreeInv(contents, root) /\ call[t].key \in Keys
        /\ m.level = 0 /\ ResultsFrom(D, m, 1) /\ m.height \in Nat
        /\ m.node \in D /\ m.node[1] = 0 /\ HasPlace(D, 0, m.cts, call[t].key) /\ D \in SUBSET Names
        /\ call[t].op = IF pc[t] = "insert" THEN "add" ELSE "remove"
<1>1. /\ Going(D, m, call[t]) /\ Placed(contents, pc[t], m, call[t]) /\ TreeInv(contents, root)
      /\ call[t].key \in Keys
 BY CallFacts
<1>2. AtLeaf(D, pc[t], m, call[t]) BY <1>1 DEF Placed, At
<1> QED BY <1>1, <1>2 DEF AtLeaf, At, On, Going, LocalsSet

LEMMA InsertKeeps ==
 ASSUME MultiwayInv, NEW t \in Threads, Insert(t)
 PROVE  Kept
<1>1. PICK D : D = DOMAIN contents OBVIOUS
<1>2. PICK m : m = my[t] OBVIOUS
<1>3. PICK n : n = m.node OBVIOUS
<1>4. PICK c : c = m.cts OBVIOUS
<1>5. PICK key : key = call[t].key OBVIOUS
<1>6. PICK i : i = Index(c, key) OBVIOUS
<1>7. PICK new : new = Added(c, i, key, NoNode, 1) OBVIOUS
<1>8. PICK v : v = [m EXCEPT !.cts = new] OBVIOUS
<1>9. PICK label : label = IF m.height = 0 THEN "done" ELSE "split" OBVIOUS
<1>10. /\ pc[t] = "insert" /\ ~Found(c, key) /\ CanReplace(n, c)
       /\ Replace(t, n, c, new, {"keys", "children"}) /\ GoTo(t, label) /\ Become(t, v)
 BY <1>2, <1>3, <1>4, <1>5, <1>6, <1>7, <1>8, <1>9 DEF Insert, Key
<1>11. /\ Going(D, m, call[t]) /\ key \in Keys /\ m.level = 0 /\ ResultsFrom(D, m, 1) /\ m.height \in Nat
       /\ n \in D /\ n[1] = 0 /\ HasPlace(D, 0, c, key) /\ D \in SUBSET Names
 BY <1>1, <1>2, <1>3, <1>4, <1>5, <1>10, AtLeafFacts
<1>12. PICK l : l = 0 OBVIOUS
<1>13. l \in Nat /\ HasPlace(D, l, c, key) /\ (l # 0 => On(D, NoNode, l - 1)) /\ l = n[1]
 BY <1>11, <1>12
<1>14. Fits(D, l, c, new, {"keys", "children"})
 <2>1. PICK k : k = 1 OBVIOUS
 <2>2. new = Added(c, i, key, NoNode, k) /\ (k = 1 \/ k = i + 1) BY <1>7, <2>1
 <2> QED BY <1>6, <1>10, <1>11, <1>13, <2>2, AddedShape
<1>15. Shape(D, 0, new) /\ new \in ContentsSet BY <1>12, <1>14 DEF Fits, Shape
<1>16. /\ v \in LocalsSet /\ v.cts = new /\ v.node = n /\ v.height = m.height /\ v.level = m.level
       /\ v.results = m.results /\ v.push = m.push /\ v.right = m.right
 BY <1>3, <1>8, <1>11, <1>15 DEF Going, LocalsSet
<1>17. Going(D, v, call[t]) BY <1>3, <1>11, <1>16 DEF Going
<1>18. label \in {"done", "split"} /\ (label = "split" => m.height # 0) BY <1>9
<1>19. Placed(contents, label, v, call[t])
 <2>1. CASE label = "split"
  <3>1. v.level < v.height BY <1>11, <1>16, <1>18, <2>1
  <3>2. ResultsFrom(D, v, v.level + 1) BY <1>11, <1>16 DEF ResultsFrom
  <3>3. On(D, v.node, v.level) /\ Shape(D, v.node[1], v.cts) BY <1>11, <1>15, <1>16 DEF On
  <3>4. AtIndex(D, "split", v, call[t]) BY <3>1, <3>2, <3>3 DEF AtIndex, At
  <3> QED BY <1>1, <2>1, <3>4 DEF Placed, At
 <2>2. CASE label = "done" BY <2>2 DEF Placed, At
 <2> QED BY <1>18, <2>1, <2>2
<1>20. LocalInv(contents, label, v, call[t]) BY <1>1, <1>17, <1>18, <1>19, PlacedAs DEF Labels
<1>21. Arrives(t, label, v) BY <1>10, <1>20 DEF Arrives, GoTo, Become
<1> QED BY <1>1, <1>10, <1>11, <1>13, <1>14, <1>21, ReplaceArrives

LEMMA FoundIsNotLast ==
 ASSUME NEW D \in SUBSET Names, NEW l \in Nat, NEW c, NEW key \in Keys,
        Shape(D, l, c), Found(c, key), NEW i, i = Index(c, key)
 PROVE  i \in 1 .. Len(c.items) /\ c.items[i] # INF
<1>1. key \in Int /\ key # INF BY DEF MultiwayAssumption
<1>2. ~Beyond(c, key) /\ c.items[i] = key BY DEF Found
<1>3. i \in 1 .. Len(c.items) BY <1>1, <1>2, ShapeFacts, BeyondFacts
<1> QED BY <1>1, <1>2, <1>3

LEMMA RemoveItemKeeps ==
 ASSUME MultiwayInv, NEW t \in Threads, RemoveItem(t)
 PROVE  Kept
<1>1. PICK D : D = DOMAIN contents OBVIOUS
<1>2. PICK m : m = my[t] OBVIOUS
<1>3. PICK n : n = m.node OBVIOUS
<1>4. PICK c : c = m.cts OBVIOUS
<1>5. PICK key : key = call[t].key OBVIOUS
<1>6. PICK i : i = Index(c, key) OBVIOUS
<1>7. PICK new : new = Removed(c, i) OBVIOUS
<1>8. /\ pc[t] = "remove" /\ Found(c, key) /\ CanReplace(n, c)
      /\ Replace(t, n, c, new, {"keys", "children"}) /\ GoTo(t, "done") /\ Become(t, NoLocals)
 BY <1>2, <1>3, <1>4, <1>5, <1>6, <1>7 DEF RemoveItem, Key
<1>9. /\ Going(D, m, call[t]) /\ key \in Keys
      /\ n \in D /\ n[1] = 0 /\ HasPlace(D, 0, c, key) /\ D \in SUBSET Names
 BY <1>1, <1>2, <1>3, <1>4, <1>5, <1>8, AtLeafFacts
<1>10. PICK l : l = 0 OBVIOUS
<1>11. l \in Nat /\ Shape(D, l, c) /\ l = n[1] BY <1>9, <1>10 DEF HasPlace
<1>12. i \in 1 .. Len(c.items) /\ c.items[i] # INF BY <1>6, <1>8, <1>9, <1>11, FoundIsNotLast
<1>13. Fits(D, l, c, new, {"keys", "children"}) BY <1>7, <1>9, <1>11, <1>12, RemovedReplaces
<1>14. Arrives(t, "done", NoLocals)
 <2>1. LocalInv(contents, "done", NoLocals, call[t]) BY <1>9, DonePlaced
 <2> QED BY <1>8, <2>1 DEF Arrives, GoTo, Become
<1> QED BY <1>1, <1>8, <1>9, <1>11, <1>13, <1>14, ReplaceArrives

LEMMA InsertOneLevelKeeps ==
 ASSUME MultiwayInv, NEW t \in Threads, InsertOneLevel(t)
 PROVE  Kept
<1>1. PICK D : D = DOMAIN contents OBVIOUS
<1>2. PICK m : m = my[t] OBVIOUS
<1>3. PICK n : n = m.node OBVIOUS
<1>4. PICK c : c = m.cts OBVIOUS
<1>5. PICK key : key = call[t].key OBVIOUS
<1>6. PICK i : i = Index(c, key) OBVIOUS
<1>7. PICK right : right = m.right OBVIOUS
<1>8. PICK k : k = i + 1 OBVIOUS
<1>9. PICK new : new = Added(c, i, key, right, k) OBVIOUS
<1>10. PICK up : up = m.level + 1 OBVIOUS
<1>11. PICK s : s = Search(n, new) OBVIOUS
<1>12. PICK r : r = [m.results EXCEPT ![up] = s] OBVIOUS
<1>13. /\ pc[t] = "raise" /\ ~Found(c, key) /\ ~Beyond(c, key) /\ CanReplace(n, c)
       /\ Replace(t, n, c, new, {"keys", "children"}) /\ LevelDone(t, r)
 BY <1>2, <1>3, <1>4, <1>5, <1>6, <1>7, <1>8, <1>9, <1>10, <1>11, <1>12 DEF InsertOneLevel, Key
<1>14. /\ Going(D, m, call[t]) /\ key \in Keys /\ m.level < m.height /\ ResultsFrom(D, m, up)
       /\ n \in D /\ n[1] = up /\ Shape(D, n[1], c) /\ m.level \in Nat /\ m.height \in Nat
       /\ m.results \in [0 .. m.height -> SearchSet] /\ On(D, right, m.level)
 BY <1>1, <1>2, <1>3, <1>4, <1>5, <1>7, <1>10, <1>13, AtIndexFacts
<1>15. up \in Nat /\ up # 0 /\ up - 1 = m.level /\ up \in 0 .. m.height BY <1>10, <1>14
<1>16. HasPlace(D, up, c, key) /\ D \in SUBSET Names /\ On(D, right, up - 1)
 BY <1>13, <1>14, <1>15 DEF HasPlace, Going
<1>17. Fits(D, up, c, new, {"keys", "children"})
 BY <1>6, <1>8, <1>9, <1>13, <1>14, <1>15, <1>16, AddedShape
<1>18. Shape(D, up, new) BY <1>17 DEF Fits
<1>19. s \in SearchSet /\ s.node = n /\ s.cts = new
 BY <1>11, <1>14, <1>16, <1>18 DEF Search, SearchSet, Shape, NodeOrNone
<1>20. r \in [0 .. m.height -> SearchSet] /\ r[up] = s
       /\ \A j \in 0 .. m.height : j # up => r[j] = m.results[j]
 BY <1>12, <1>14, <1>15, <1>19
<1>21. \A j \in 0 .. m.height : up <= j => On(D, r[j].node, j) /\ Shape(D, j, r[j].cts)
 <2>1. SUFFICES ASSUME NEW j \in 0 .. m.height, up <= j
                PROVE  On(D, r[j].node, j) /\ Shape(D, j, r[j].cts)
  OBVIOUS
 <2>2. CASE j = up BY <1>14, <1>18, <1>19, <1>20, <2>2 DEF On
 <2>3. CASE j # up BY <1>14, <1>20, <2>1, <2>3 DEF ResultsFrom
 <2> QED BY <2>2, <2>3
<1>22. PICK level : level = my[t].level OBVIOUS
<1>23. level < my[t].height /\ up = level + 1 /\ Going(D, my[t], call[t])
 BY <1>2, <1>10, <1>14, <1>22
<1>24. /\ r \in [0 .. my[t].height -> SearchSet]
       /\ \A j \in 0 .. my[t].height : level + 1 <= j => On(D, r[j].node, j) /\ Shape(D, j, r[j].cts)
 BY <1>2, <1>20, <1>21, <1>23
<1>25. PICK label, x : Arrives(t, label, x) BY <1>1, <1>13, <1>22, <1>23, <1>24, LevelDoneArrives
<1> QED BY <1>1, <1>13, <1>14, <1>15, <1>17, <1>25, ReplaceArrives

LEMMA SplittableFacts ==
 ASSUME NEW D \in SUBSET Names, NEW l \in Nat, NEW c, NEW key \in Keys,
        Shape(D, l, c), ~Unsplittable(c, key), NEW i, i = Index(c, key)
 PROVE  i \in 1 .. Len(c.items) - 1
<1>1. key \in Int /\ ~Beyond(c, key) /\ Index(c, key) # Len(c.items)
 BY DEF MultiwayAssumption, Unsplittable, Found
<1>2. i \in 1 .. Len(c.items) /\ Len(c.items) \in Nat BY <1>1, ShapeFacts, BeyondFacts
<1> QED BY <1>1, <1>2

SplitLocals(m, up, right) == [m EXCEPT !.node = up.node, !.cts = up.cts, !.right = right]

LEMMA ReleasedAdd ==
 ASSUME NEW rel, NEW cts, NEW rt, TreeInv(cts, rt), ReleasedInv(rel, cts, rt), NEW n, n \notin DOMAIN cts,
        NEW cts2, DOMAIN cts \subseteq DOMAIN cts2, \A i \in DOMAIN cts : cts2[i] = cts[i]
 PROVE  ReleasedInv(rel, cts2, rt)
<1>1. ASSUME NEW p \in DOMAIN rel
      PROVE  rel[p] = 1 /\ p \in (DOMAIN cts2) \X Parts \X Nat /\ p[3] < Age(cts2, rt, p[1], p[2])
 <2>1. rel[p] = 1 /\ p \in (DOMAIN cts) \X Parts \X Nat /\ p[3] < Age(cts, rt, p[1], p[2])
  BY DEF ReleasedInv
 <2>2. p[1] \in DOMAIN cts /\ p \in (DOMAIN cts2) \X Parts \X Nat BY <2>1
 <2>3. Age(cts2, rt, p[1], p[2]) = Age(cts, rt, p[1], p[2]) BY <2>2 DEF Age
 <2> QED BY <2>1, <2>2, <2>3
<1>2. rel = [p \in DOMAIN rel |-> rel[p]] BY DEF ReleasedInv
<1> QED BY <1>1, <1>2 DEF ReleasedInv

LEMMA SplitOneLevelKeeps ==
 ASSUME MultiwayInv, NEW t \in Threads, SplitOneLevel(t)
 PROVE  Kept
<1>1. PICK D : D = DOMAIN contents OBVIOUS
<1>2. PICK m : m = my[t] OBVIOUS
<1>3. PICK n : n = m.node OBVIOUS
<1>4. PICK c : c = m.cts OBVIOUS
<1>5. PICK key : key = call[t].key OBVIOUS
<1>6. PICK i : i = Index(c, key) OBVIOUS
<1>7. PICK l : l = m.level OBVIOUS
<1>8. PICK right : right = NewName(l) OBVIOUS
<1>9. PICK up : up = m.results[l + 1] OBVIOUS
<1>10. PICK part : part = RightPart(c, i) OBVIOUS
<1>11. PICK new : new = LeftPart(c, i, right) OBVIOUS
<1>12. PICK cts : cts = Adding(contents, right, part) OBVIOUS
<1>13. /\ pc[t] = "split" /\ ~Unsplittable(c, key) /\ CanReplace(n, c)
       /\ ReplaceIn(cts, t, n, c, new, {"keys", "children"}) /\ GoTo(t, "raise")
       /\ Become(t, SplitLocals(m, up, right))
 BY <1>2, <1>3, <1>4, <1>5, <1>6, <1>7, <1>8, <1>9, <1>10, <1>11, <1>12, Zenon DEF SplitOneLevel,
    Key, SplitLocals
<1>14. /\ Going(D, m, call[t]) /\ key \in Keys /\ l < m.height /\ ResultsFrom(D, m, l + 1)
       /\ n \in D /\ n[1] = l /\ Shape(D, l, c) /\ l \in Nat /\ m.height \in Nat
       /\ m.results \in [0 .. m.height -> SearchSet] /\ TreeInv(contents, root)
 BY <1>1, <1>2, <1>3, <1>4, <1>5, <1>7, <1>13, AtIndexFacts
<1>15. D \in SUBSET Names /\ IsFiniteSet(D) BY <1>1, <1>14 DEF TreeInv
<1>16. i \in 1 .. Len(c.items) - 1 BY <1>5, <1>6, <1>13, <1>14, <1>15, SplittableFacts
<1>17. right \notin D /\ right \in Names /\ right[1] = l BY <1>1, <1>8, <1>14, <1>15, NewNamesAreNew
<1>18. PICK E : E = D \cup {right} OBVIOUS
<1>19. E \in SUBSET Names /\ D \subseteq E /\ On(E, right, l) /\ Shape(E, l, c)
 <2>1. E \in SUBSET Names /\ D \subseteq E /\ On(E, right, l) BY <1>15, <1>17, <1>18 DEF On
 <2> QED BY <1>14, <2>1, ShapeGrows
<1>20. Shape(E, right[1], part) BY <1>10, <1>14, <1>16, <1>17, <1>19, RightPartShape
<1>21. /\ DOMAIN cts = E /\ \A j \in D : cts[j] = contents[j]
       /\ TreeInv(cts, root) /\ Grows(contents, cts)
 <2>1. Shape(DOMAIN contents \cup {right}, right[1], part) /\ right \notin DOMAIN contents
  BY <1>1, <1>17, <1>18, <1>20
 <2>2. WithNode(contents, root, right, part, Adding(contents, right, part))
  BY <1>14, <1>17, <2>1, TreeAdd
 <2> QED BY <1>1, <1>12, <1>18, <2>2 DEF WithNode
<1>22. CutAt(E, l, c, new, right) BY <1>11, <1>14, <1>16, <1>19, LeftPartShape
<1>23. /\ Shape(E, l, new) /\ UpperEnd(new) <= UpperEnd(c) /\ AgesWell(c, new, {"keys", "children"})
       /\ new.link # NoNode
 BY <1>22 DEF CutAt
<1>25. ReleasedInv(released, cts, root)
 <2>1. ReleasedInv(released, contents, root) BY DEF MultiwayInv
 <2>2. DOMAIN contents \subseteq DOMAIN cts /\ \A j \in DOMAIN contents : cts[j] = contents[j]
  BY <1>1, <1>19, <1>21
 <2> QED BY <1>1, <1>14, <1>17, <2>1, <2>2, ReleasedAdd
<1>26. up \in SearchSet /\ On(D, up.node, l + 1) /\ Shape(D, l + 1, up.cts)
 <2>1. PICK k : k = l + 1 OBVIOUS
 <2>2. k \in 0 .. m.height /\ l + 1 <= k BY <1>14, <2>1
 <2> QED BY <1>9, <1>14, <2>1, <2>2 DEF ResultsFrom
<1>27. PICK a : a = [m EXCEPT !.node = up.node] OBVIOUS
<1>28. PICK b : b = [a EXCEPT !.cts = up.cts] OBVIOUS
<1>29. PICK v : v = [b EXCEPT !.right = right] OBVIOUS
<1>30. m \in LocalsSet /\ up.node \in NodeOrNone /\ up.cts \in ContentsSet /\ right \in NodeOrNone
 BY <1>14, <1>17, <1>26 DEF Going, SearchSet, NodeOrNone
<1>31. v = SplitLocals(m, up, right) BY <1>27, <1>28, <1>29, <1>30 DEF SplitLocals, LocalsSet
<1>32. /\ a \in LocalsSet /\ a.node = up.node /\ a.height = m.height /\ a.level = m.level
       /\ a.results = m.results /\ a.push = m.push
 BY <1>27, <1>30 DEF LocalsSet
<1>33. /\ b \in LocalsSet /\ b.node = up.node /\ b.height = m.height /\ b.level = m.level
       /\ b.results = m.results /\ b.push = m.push /\ b.cts = up.cts
 BY <1>28, <1>30, <1>32 DEF LocalsSet
<1>34. /\ v \in LocalsSet /\ v.node = up.node /\ v.height = m.height /\ v.level = m.level
       /\ v.results = m.results /\ v.push = m.push /\ v.cts = up.cts /\ v.right = right
 BY <1>29, <1>30, <1>33 DEF LocalsSet
<1>35. On(E, up.node, l + 1) /\ Shape(E, l + 1, up.cts)
 <2>1. Shape(E, l + 1, up.cts) BY <1>19, <1>26, ShapeGrows
 <2> QED BY <1>19, <1>26, <2>1 DEF On
<1>36. Going(E, v, call[t]) BY <1>14, <1>18, <1>19, <1>34, <1>35 DEF Going, On
<1>37. LocalInv(cts, "raise", v, call[t])
 <2>1. ResultsFrom(E, v, l + 1)
  <3>1. SUFFICES ASSUME NEW j \in 0 .. m.height, l + 1 <= j
                 PROVE  On(E, m.results[j].node, j) /\ Shape(E, j, m.results[j].cts)
   BY <1>34 DEF ResultsFrom
  <3>2. On(D, m.results[j].node, j) /\ Shape(D, j, m.results[j].cts) BY <1>14, <3>1 DEF ResultsFrom
  <3>3. Shape(E, j, m.results[j].cts) BY <1>19, <3>2, ShapeGrows
  <3> QED BY <1>19, <3>2, <3>3 DEF On
 <2>2. v.node[1] = l + 1 BY <1>34, <1>35 DEF On
 <2>3. AtIndex(E, "raise", v, call[t])
  BY <1>7, <1>14, <1>19, <1>34, <1>35, <2>1, <2>2 DEF AtIndex, At
 <2>4. Placed(cts, "raise", v, call[t]) BY <1>21, <2>3 DEF Placed, At
 <2> QED BY <1>21, <1>36, <2>4, PlacedAs DEF Labels
<1>38. pc' = [pc EXCEPT ![t] = "raise"] /\ my' = [my EXCEPT ![t] = v]
 BY <1>13, <1>31 DEF GoTo, Become
<1>39. \A j \in DOMAIN contents : cts[j] = contents[j] BY <1>1, <1>21
<1>40. n \in DOMAIN contents /\ contents[n] = c /\ Shape(DOMAIN cts, n[1], new)
 BY <1>1, <1>13, <1>14, <1>21, <1>23 DEF CanReplace
<1>41. {"keys", "children"} \in SUBSET {"keys", "children"} OBVIOUS
<1> QED BY <1>13, <1>21, <1>23, <1>25, <1>37, <1>38, <1>39, <1>40, <1>41, ReplaceStep DEF Kept

LEMMA StackedOn ==
 ASSUME NEW D \in SUBSET Names, NEW n \in D, NEW top \in Names,
        top[1] = n[1] + 1
 PROVE  Shape(D \cup {top}, top[1], Contents(<<INF>>, <<n>>, NoNode))
<1>1. PICK E : E = D \cup {top} OBVIOUS
<1>2. PICK l : l = top[1] OBVIOUS
<1>3. E \in SUBSET Names /\ l \in Nat /\ l # 0 /\ n[1] = l - 1 /\ n \in E /\ n \in Names
 <2>1. n[1] \in Nat /\ n \in Names BY DEF Names
 <2>2. l = n[1] + 1 BY <1>2
 <2>3. l \in Nat /\ l # 0 /\ n[1] = l - 1 BY <2>1, <2>2
 <2>4. E \in SUBSET Names /\ n \in E BY <1>1
 <2> QED BY <2>1, <2>3, <2>4
<1>4. PICK items : items = <<INF>> OBVIOUS
<1>5. INF \in Item BY DEF Item
<1>6. items \in Seq(Item) /\ Len(items) = 1 /\ items[1] = INF /\ items # <<>> /\ DOMAIN items = 1 .. 1
 BY <1>4, <1>5
<1>7. Ascending(items) /\ Last(items) = INF BY <1>6 DEF Ascending, Last
<1>8. PICK ch : ch = <<n>> OBVIOUS
<1>9. ch \in Seq(Names) /\ Len(ch) = 1 /\ ch[1] = n BY <1>3, <1>8
<1>10. Len(ch) = Len(items) /\ \A i \in 1 .. Len(ch) : On(E, ch[i], l - 1)
 BY <1>3, <1>6, <1>9 DEF On
<1>11. Contents(items, ch, NoNode) = Made(items, ch, NoNode, 0, 0, 0) BY DEF Contents, Made
<1>12. PICK z : z = 0 OBVIOUS
<1>13. z \in Nat /\ z \in 0 .. z BY <1>12
<1>14. Shape(E, l, Made(items, ch, NoNode, z, z, z))
 BY <1>3, <1>6, <1>7, <1>9, <1>10, <1>13, MadeShape
<1> QED BY <1>1, <1>2, <1>4, <1>8, <1>11, <1>12, <1>14

LEMMA GrowKeeps ==
 ASSUME MultiwayInv, NEW t \in Threads, Grow(t)
 PROVE  Kept
<1>1. PICK D : D = DOMAIN contents OBVIOUS
<1>2. PICK m : m = my[t] OBVIOUS
<1>3. PICK n : n = m.node OBVIOUS
<1>4. PICK l : l = m.level OBVIOUS
<1>5. PICK top : top = NewName(l + 1) OBVIOUS
<1>6. PICK c : c = Contents(<<INF>>, <<n>>, NoNode) OBVIOUS
<1>7. PICK cts : cts = Adding(contents, top, c) OBVIOUS
<1>8. PICK rt : rt = [node |-> top, height |-> l + 1] OBVIOUS
<1>9. PICK old : old = [node |-> n, height |-> l] OBVIOUS
<1>10. PICK X : X = {<<n, "head", l>>} OBVIOUS
<1>11. /\ pc[t] = "grow" /\ GoTo(t, "growRead") /\ UNCHANGED <<my, history, bounds>>
       /\ IF root = old THEN contents' = cts /\ root' = rt /\ released' = released (+) SetToBag(X)
          ELSE UNCHANGED shared
 BY <1>2, <1>3, <1>4, <1>5, <1>6, <1>7, <1>8, <1>9, <1>10 DEF Grow
<1>12. /\ Going(D, m, call[t]) /\ Placed(contents, "grow", m, call[t]) /\ TreeInv(contents, root)
 BY <1>1, <1>2, <1>11, CallFacts
<1>13. m.height >= 1 /\ n \in D /\ n[1] = l BY <1>1, <1>3, <1>4, <1>12 DEF Placed, On
<1>14. D \in SUBSET Names /\ IsFiniteSet(D) /\ l \in Nat
 BY <1>1, <1>4, <1>12 DEF TreeInv, Going, LocalsSet
<1>15. CASE root # old
 <2>1. UNCHANGED <<shared, history, bounds>> /\ UNCHANGED my BY <1>11, <1>15
 <2>2. Placed(contents, "growRead", m, call[t]) BY <1>13 DEF Placed, At
 <2>3. LocalInv(contents, "growRead", m, call[t]) BY <1>1, <1>12, <2>2, PlacedAs DEF Labels
 <2>4. \E k, x : Arrives(t, k, x) BY <1>2, <1>11, <2>1, <2>3, StayArrives
 <2> QED BY <2>1, <2>4, QuietArrives
<1>16. CASE root = old
 <2>1. contents' = cts /\ root' = rt /\ released' = released (+) SetToBag(X) /\ my' = my
       /\ call' = call /\ answers' = answers /\ result' = result /\ todo' = todo /\ callsLeft' = callsLeft
  BY <1>11, <1>16 DEF history, bounds
 <2>2. top \notin D /\ top \in Names /\ top[1] = l + 1
  <3>1. PICK k : k = l + 1 OBVIOUS
  <3>2. k \in Nat BY <1>14, <3>1
  <3> QED BY <1>1, <1>5, <1>14, <3>1, <3>2, NewNamesAreNew
 <2>3. Shape(D \cup {top}, top[1], c) BY <1>6, <1>13, <1>14, <2>2, StackedOn
 <2>4. WithNode(contents, root, top, c, Adding(contents, top, c))
  <3>1. Shape(DOMAIN contents \cup {top}, top[1], c) /\ top \notin DOMAIN contents
   BY <1>1, <2>2, <2>3
  <3> QED BY <1>12, <2>2, <3>1, TreeAdd
 <2>5. /\ DOMAIN cts = D \cup {top} /\ \A i \in D : cts[i] = contents[i]
       /\ TreeInv(cts, root) /\ Grows(contents, cts)
  BY <1>1, <1>7, <2>4 DEF WithNode
 <2>6. rt.node = top /\ rt.height = l + 1 /\ root.node = n /\ root.height = l BY <1>8, <1>9, <1>16
 <2>7. TreeInv(cts, rt) BY <2>2, <2>5, <2>6 DEF TreeInv
 <2>8. ReleasedInv(released', cts, rt)
  <3>1. ReleasedInv(released, contents, root) BY DEF MultiwayInv
  <3>2. \A p \in DOMAIN released : p[1] \in D /\ p[2] \in Parts /\ p[3] \in Nat
   BY <1>1, <3>1 DEF ReleasedInv
  <3>3. ASSUME NEW p \in DOMAIN released, p[3] < Age(contents, root, p[1], p[2])
        PROVE  p[3] < Age(cts, rt, p[1], p[2])
   <4>1. PICK a : a = p[1] OBVIOUS
   <4>2. PICK b : b = p[2] OBVIOUS
   <4>3. a \in D /\ b \in Parts /\ p[3] \in Nat /\ cts[a] = contents[a] BY <2>5, <3>2, <4>1, <4>2
   <4>4. CASE b = "head"
    <5>1. Age(contents, root, a, b) = l /\ Age(cts, rt, a, b) = l + 1 BY <2>6, <4>4 DEF Age
    <5> QED BY <1>14, <3>3, <4>1, <4>2, <4>3, <5>1
   <4>5. CASE b # "head"
    <5>1. Age(contents, root, a, b) = Age(cts, rt, a, b) BY <4>3, <4>5 DEF Age, Parts
    <5> QED BY <3>3, <4>1, <4>2, <5>1
   <4> QED BY <4>4, <4>5
  <3>4. ASSUME NEW p \in X
        PROVE  /\ p \in (DOMAIN cts) \X Parts \X Nat
               /\ p[3] < Age(cts, rt, p[1], p[2])
               /\ ~(p[3] < Age(contents, root, p[1], p[2]))
   <4>1. p = <<n, "head", l>> BY <1>10
   <4>2. Age(contents, root, n, "head") = l /\ Age(cts, rt, n, "head") = l + 1 BY <2>6 DEF Age
   <4>3. n \in DOMAIN cts /\ "head" \in Parts BY <1>13, <2>5 DEF Parts
   <4> QED BY <1>14, <4>1, <4>2, <4>3
  <3>5. DOMAIN contents \subseteq DOMAIN cts BY <1>1, <2>5
  <3>6. ReleasedInv(released (+) SetToBag(X), cts, rt) BY <3>1, <3>3, <3>4, <3>5, ReleasedMore
  <3> QED BY <2>1, <3>6
 <2>9. LocalInv(cts, "growRead", m, call[t])
  <3>1. Going(DOMAIN cts, m, call[t]) BY <1>12, <2>2, <2>5 DEF Going
  <3>2. Placed(cts, "growRead", m, call[t]) BY <1>13 DEF Placed, At
  <3> QED BY <3>1, <3>2, PlacedAs DEF Labels
 <2>10. AllLocalInv' /\ pc' \in [Threads -> Labels] /\ my' \in [Threads -> LocalsSet]
  <3>1. /\ OthersInv /\ AllLocalInv /\ my \in [Threads -> LocalsSet]
        /\ call \in [Threads -> Abstract!SetCalls \cup {Abstract!NoCall}]
   BY DEF MultiwayInv, OthersInv, Abstract!SetTypeOK
  <3>2. my' = [my EXCEPT ![t] = m] BY <1>2, <2>1, <3>1, UnchangedAsExcept
  <3>3. call' = [call EXCEPT ![t] = call[t]] BY <2>1, <3>1, UnchangedAsExcept
  <3>4. pc' = [pc EXCEPT ![t] = "growRead"] BY <1>11 DEF GoTo
  <3>5. cts = contents' BY <2>1
  <3> QED BY <2>5, <2>9, <3>1, <3>2, <3>3, <3>4, <3>5, LocalsStep
 <2>11. Abstract!SetTypeOK' BY <2>1 DEF MultiwayInv, OthersInv, Abstract!SetTypeOK, KeysIn
 <2>12. OthersInv' BY <2>1, <2>10, <2>11 DEF MultiwayInv, OthersInv
 <2>13. GivesUp(contents, cts) BY <1>1, <1>12, <2>5, GivesUpNothing DEF GivesUp
 <2> QED BY <2>1, <2>7, <2>8, <2>10, <2>12, <2>13 DEF Kept, MultiwayInv
<1> QED BY <1>15, <1>16

-----------------------------------------------------------------------------
(* A call starts. *)
StartLocals(height) == [NoLocals EXCEPT !.height = height, !.results = [i \in 0 .. height |-> NoSearch]]

LEMMA StartPlaced ==
 ASSUME TreeInv(contents, root), NEW c \in Abstract!SetCalls,
        NEW height \in Nat, c.op # "add" => height = 0
 PROVE  LocalInv(contents, "root", StartLocals(height), c)
<1>1. PICK D : D = DOMAIN contents OBVIOUS
<1>2. PICK n : n = NoLocals OBVIOUS
<1>3. PICK r : r = [i \in 0 .. height |-> NoSearch] OBVIOUS
<1>4. PICK a : a = [n EXCEPT !.height = height] OBVIOUS
<1>5. PICK v : v = [a EXCEPT !.results = r] OBVIOUS
<1>6. v = StartLocals(height) BY <1>2, <1>3, <1>4, <1>5 DEF StartLocals
<1>7. /\ n \in LocalsSet /\ n.node = NoNode /\ n.push = NoNode /\ n.right = NoNode /\ n.level = 0
      /\ NoSearch \in SearchSet
 BY <1>2, EmptyIsTyped DEF NoLocals, MultiwayAssumption
<1>8. r \in [0 .. height -> SearchSet] BY <1>3, <1>7
<1>9. /\ a \in LocalsSet /\ a.height = height /\ a.node = NoNode /\ a.push = NoNode
      /\ a.right = NoNode /\ a.level = 0
 BY <1>4, <1>7 DEF LocalsSet
<1>10. /\ v \in LocalsSet /\ v.height = height /\ v.node = NoNode /\ v.push = NoNode
       /\ v.right = NoNode /\ v.level = 0 /\ v.results = r
 <2>1. r \in {<<>>} \cup UNION {[0 .. k -> SearchSet] : k \in Nat} BY <1>8, ResultsTyped
 <2> QED BY <1>5, <1>9, <2>1 DEF LocalsSet
<1>11. Going(D, v, c) BY <1>1, <1>8, <1>10 DEF Going, TreeInv
<1>12. Placed(contents, "root", v, c) BY <1>10 DEF Placed, At
<1> QED BY <1>1, <1>6, <1>11, <1>12, PlacedAs DEF Labels

LEMMA SetupCallFacts ==
 ASSUME NEW s, s \in Seq(SetupCalls), s # <<>>
 PROVE  /\ Head(s) \in SetupCalls /\ Tail(s) \in Seq(SetupCalls)
        /\ Head(s).height \in Nat /\ (Head(s).op # "add" => Head(s).height = 0)
<1>1. PICK S : S = SetupCalls OBVIOUS
<1>2. Head(s) \in S /\ Tail(s) \in Seq(S) BY <1>1
<1>3. PICK x : x = Head(s) OBVIOUS
<1>4. x \in SetupCalls BY <1>1, <1>2, <1>3
<1>5. x.height \in Nat /\ (x.op # "add" => x.height = 0) BY <1>4 DEF SetupCalls
<1> QED BY <1>1, <1>2, <1>3, <1>5

LEMMA StartKeeps ==
 ASSUME MultiwayInv, NEW t \in Threads, NEW c \in Abstract!SetCalls, NEW height, Start(t, c, height)
 PROVE  Kept
<1>1. /\ pc' = [pc EXCEPT ![t] = "root"] /\ my' = [my EXCEPT ![t] = StartLocals(height)]
      /\ call' = [call EXCEPT ![t] = c]
      /\ answers' = [answers EXCEPT ![t] = Abstract!Observed(c, KeysIn(contents))]
      /\ result' = [result EXCEPT ![t] = Abstract!NoResult]
      /\ contents' = contents /\ root' = root /\ released' = released
 BY Zenon DEF Start, GoTo, Become, StartLocals, shared
<1>2. /\ OthersInv /\ AllLocalInv /\ TreeInv(contents, root) /\ ReleasedInv(released, contents, root)
      /\ todo \in Seq(SetupCalls) /\ callsLeft \in [Threads -> Nat]
      /\ call \in [Threads -> Abstract!SetCalls \cup {Abstract!NoCall}]
      /\ answers \in [Threads -> SUBSET BOOLEAN] /\ result \in [Threads -> Abstract!Results]
 BY DEF MultiwayInv, OthersInv, Abstract!SetTypeOK
<1>3. /\ height \in Nat /\ (c.op # "add" => height = 0)
      /\ todo' \in Seq(SetupCalls) /\ callsLeft' \in [Threads -> Nat]
 <2>1. CASE todo # <<>>
  <3>1. /\ c = [op |-> Head(todo).op, key |-> Head(todo).key] /\ height = Head(todo).height
        /\ todo' = Tail(todo) /\ callsLeft' = callsLeft
   BY <2>1 DEF Start
  <3>2. c.op = Head(todo).op BY <3>1
  <3>3. Tail(todo) \in Seq(SetupCalls) /\ Head(todo).height \in Nat
        /\ (Head(todo).op # "add" => Head(todo).height = 0)
   BY <1>2, <2>1, SetupCallFacts
  <3> QED BY <1>2, <3>1, <3>2, <3>3
 <2>2. CASE todo = <<>>
  <3>1. /\ height \in IF c.op = "add" THEN Heights[t] ELSE {0}
        /\ callsLeft[t] > 0 /\ callsLeft' = [callsLeft EXCEPT ![t] = @ - 1] /\ todo' = todo
   BY <2>2 DEF Start
  <3>2. Heights[t] \in SUBSET Nat BY DEF MultiwayAssumption
  <3>3. height \in Nat /\ (c.op # "add" => height = 0) BY <3>1, <3>2
  <3>4. callsLeft' \in [Threads -> Nat] BY <1>2, <3>1
  <3> QED BY <1>2, <3>1, <3>3, <3>4
 <2> QED BY <2>1, <2>2
<1>4. PICK m : m = StartLocals(height) OBVIOUS
<1>5. LocalInv(contents, "root", m, c) BY <1>2, <1>3, <1>4, StartPlaced
<1>6. PICK cts : cts = contents' OBVIOUS
<1>7. AllLocalInv' /\ pc' \in [Threads -> Labels] /\ my' \in [Threads -> LocalsSet]
 <2>1. Grows(contents, cts) /\ LocalInv(cts, "root", m, c) BY <1>1, <1>5, <1>6, GrowsItself
 <2> QED BY <1>1, <1>2, <1>4, <1>6, <2>1, LocalsStep
<1>8. PICK S : S = KeysIn(contents) OBVIOUS
<1>9. Abstract!Observed(c, S) \in SUBSET BOOLEAN
 <2>1. c.op = "contains" => Abstract!Observed(c, S) = {c.key \in S} BY DEF Abstract!Observed
 <2>2. c.op = "add" => Abstract!Observed(c, S) = IF c.key \in S THEN {FALSE} ELSE {}
  BY DEF Abstract!Observed
 <2>3. c.op = "remove" => Abstract!Observed(c, S) = IF c.key \in S THEN {} ELSE {FALSE}
  BY DEF Abstract!Observed
 <2>4. c.op \notin {"contains", "add", "remove"} => Abstract!Observed(c, S) = {}
  BY DEF Abstract!Observed
 <2>5. {c.key \in S} \subseteq BOOLEAN OBVIOUS
 <2> QED BY <2>1, <2>2, <2>3, <2>4, <2>5
<1>10. Abstract!SetTypeOK'
 <2>1. answers' \in [Threads -> SUBSET BOOLEAN] BY <1>1, <1>2, <1>8, <1>9
 <2>2. result' \in [Threads -> Abstract!Results]
  BY <1>1, <1>2 DEF Abstract!Results, Abstract!NoResult
 <2>3. call' \in [Threads -> Abstract!SetCalls \cup {Abstract!NoCall}] BY <1>1, <1>2
 <2>4. KeysIn(contents)' \subseteq Keys BY DEF KeysIn
 <2> QED BY <2>1, <2>2, <2>3, <2>4 DEF Abstract!SetTypeOK
<1>11. OthersInv' BY <1>3, <1>7, <1>10 DEF OthersInv
<1>12. GivesUp(contents, contents') BY <1>1, <1>2, GivesUpNothing
<1> QED BY <1>1, <1>2, <1>7, <1>11, <1>12 DEF Kept, MultiwayInv

-----------------------------------------------------------------------------
(* The whole. *)
LEMMA InitHolds ==
 ASSUME Init
 PROVE  MultiwayInv
<1>1. PICK n : n = <<0, 1>> OBVIOUS
<1>2. PICK c : c = Contents(<<INF>>, NoChildren, NoNode) OBVIOUS
<1>3. contents = [x \in {n} |-> c] /\ root = [node |-> n, height |-> 0] /\ released = EmptyBag
 BY <1>1, <1>2 DEF Init
<1>4. DOMAIN contents = {n} /\ contents[n] = c /\ n \in Names /\ n[1] = 0 BY <1>1, <1>3 DEF Names
<1>5. Shape({n}, 0, c)
 <2>1. PICK items : items = <<INF>> OBVIOUS
 <2>2. INF \in Item BY DEF Item
 <2>3. items \in Seq(Item) /\ Len(items) = 1 /\ items[1] = INF /\ items # <<>> /\ DOMAIN items = 1 .. 1
  BY <2>1, <2>2
 <2>4. Ascending(items) /\ Last(items) = INF BY <2>3 DEF Ascending, Last
 <2>5. PICK z : z = 0 OBVIOUS
 <2>6. z \in Nat /\ z \in 0 .. z /\ {n} \in SUBSET Names BY <1>4, <2>5
 <2>7. Shape({n}, z, Made(items, NoChildren, NoNode, z, z, z)) BY <2>3, <2>4, <2>5, <2>6, MadeShape
 <2>8. c = Made(items, NoChildren, NoNode, 0, 0, 0) BY <1>2, <2>1 DEF Contents, Made
 <2> QED BY <2>5, <2>7, <2>8
<1>6. TreeInv(contents, root)
 <2>1. IsFiniteSet({n}) BY FS_Singleton
 <2>2. contents = [x \in DOMAIN contents |-> contents[x]] BY <1>3
 <2> QED BY <1>3, <1>4, <1>5, <2>1, <2>2 DEF TreeInv
<1>7. ReleasedInv(released, contents, root) BY <1>3 DEF ReleasedInv, EmptyBag, SetToBag
<1>8. AllLocalInv
 <2>1. ASSUME NEW t \in Threads PROVE LocalInv(contents, pc[t], my[t], call[t])
  <3>1. pc[t] = "idle" /\ my[t] = NoLocals /\ call[t] = NoCall BY DEF Init
  <3> QED BY <3>1, IdlePlaced
 <2> QED BY <2>1 DEF AllLocalInv
<1>9. OthersInv
 <2>1. NoLocals \in LocalsSet /\ "idle" \in Labels
  BY EmptyIsTyped DEF MultiwayAssumption, Labels
 <2>2. pc \in [Threads -> Labels] /\ my \in [Threads -> LocalsSet] BY <2>1 DEF Init
 <2>3. todo \in Seq(SetupCalls) /\ callsLeft \in [Threads -> Nat]
  BY DEF Init, MultiwayAssumption, SetupCalls
 <2>4. Abstract!SetTypeOK
  BY DEF Init, Abstract!SetTypeOK, Abstract!Results, Abstract!NoResult, NoCall, KeysIn
 <2> QED BY <2>2, <2>3, <2>4 DEF OthersInv
<1> QED BY <1>6, <1>7, <1>8, <1>9 DEF MultiwayInv

LEMMA NextKeeps ==
 ASSUME MultiwayInv, Next
 PROVE  Kept
<1>1. PICK t \in Threads : (\E c \in Abstract!SetCalls, h \in AllHeights : Start(t, c, h)) \/ Step(t)
 BY DEF Next
<1>2. CASE \E c \in Abstract!SetCalls, h \in AllHeights : Start(t, c, h) BY <1>2, StartKeeps
<1>3. CASE Traversing(t)
 BY <1>3, ReadRootKeeps, GrowReadKeeps, GrowKeeps, ScanKeeps, PushRightKeeps, VisitBeyondKeeps,
    VisitInnerKeeps, VisitLeafKeeps, WalkKeeps DEF Traversing
<1>4. CASE Cleaning(t)
 BY <1>4, KeepLinkKeeps, CleanLinkKeeps, LinkReadKeeps, ReadSiblingKeeps, NephewKeeps,
    ShiftNephewKeeps, SlideNeedlessKeeps, SlideKeeps, UnslideKeeps, AdjustNextKeeps, ShiftKeeps,
    CleanAgainKeeps DEF Cleaning
<1>5. CASE Updating(t)
 BY <1>5, MoveForwardKeeps, InsertKeeps, RemoveItemKeeps, DoneKeeps, UpdateFails DEF Updating
<1>6. CASE Indexing(t)
 BY <1>6, IndexNothing, SplitOneLevelKeeps, InsertOneLevelKeeps, UpdateFails DEF Indexing
<1> QED BY <1>1, <1>2, <1>3, <1>4, <1>5, <1>6 DEF Step

LEMMA StutterKeeps ==
 ASSUME MultiwayInv, UNCHANGED vars
 PROVE  Kept
<1>1. /\ contents' = contents /\ root' = root /\ released' = released /\ pc' = pc /\ my' = my
      /\ call' = call /\ answers' = answers /\ result' = result /\ todo' = todo /\ callsLeft' = callsLeft
 BY DEF vars, shared, history, bounds
<1>2. MultiwayInv' BY <1>1 DEF MultiwayInv, AllLocalInv, OthersInv, Abstract!SetTypeOK, KeysIn
<1>3. GivesUp(contents, contents') BY <1>1, GivesUpNothing DEF MultiwayInv
<1> QED BY <1>2, <1>3 DEF Kept

(* The inductive invariant: the shape of every node at its level, where    *)
(* each call is and what it has read there, and the age of what was given  *)
(* back, of the tree of MultiwaySearchTree.hpp.                            *)
THEOREM MultiwayInvariant ==
    Spec => []MultiwayInv
<1>1. Init => MultiwayInv BY MultiwayAssumption, InitHolds
<1>2. MultiwayInv /\ [Next]_vars => MultiwayInv'
 BY MultiwayAssumption, NextKeeps, StutterKeeps DEF Kept
<1> QED BY <1>1, <1>2, PTL DEF Spec

LEMMA TypedByInvariant ==
 ASSUME MultiwayInv
 PROVE  TypeOK
<1>1. TreeInv(contents, root) /\ AllLocalInv /\ OthersInv BY DEF MultiwayInv
<1>2. root.node \in Nodes /\ root.height = root.node[1] BY <1>1 DEF TreeInv, Nodes
<1>3. ASSUME NEW n \in Nodes
      PROVE  LET c == contents[n]
             IN  /\ ToSet(c.items) \subseteq Keys \cup {INF}
                 /\ IsLeaf(c) = (n[1] = 0)
                 /\ ~IsLeaf(c) => /\ Len(c.children) = Len(c.items)
                                  /\ \A d \in ToSet(c.children) : d \in Nodes /\ d[1] = n[1] - 1
                 /\ c.link # NoNode => c.link \in Nodes /\ c.link[1] = n[1]
                 /\ c.keysOf \in 0 .. c.stamp /\ c.childrenOf \in 0 .. c.stamp
 <2>1. PICK c : c = contents[n] OBVIOUS
 <2>2. PICK l : l = n[1] OBVIOUS
 <2>3. PICK D : D = Nodes OBVIOUS
 <2>4. Shape(D, l, c) /\ l \in Nat /\ D \in SUBSET Names
  BY <1>1, <2>1, <2>2, <2>3, NodeRead DEF Nodes
 <2>5. /\ c.items \in Seq(Item) /\ (IsLeaf(c) <=> l = 0)
       /\ c.keysOf \in 0 .. c.stamp /\ c.childrenOf \in 0 .. c.stamp
       /\ l # 0 => /\ c.children \in Seq(Names) /\ Len(c.children) = Len(c.items)
                   /\ \A i \in 1 .. Len(c.items) : On(D, c.children[i], l - 1)
       /\ c.link # NoNode => On(D, c.link, l)
  BY <2>4, ShapeFacts
 <2>6. PICK s : s = c.items OBVIOUS
 <2>7. ToSet(s) \subseteq Keys \cup {INF}
  <3>1. s \in Seq(Item) /\ \A i \in DOMAIN s : s[i] \in Item BY <2>5, <2>6
  <3> QED BY <3>1 DEF ToSet, Item
 <2>8. PICK ch : ch = c.children OBVIOUS
 <2>9. ASSUME l # 0, NEW d \in ToSet(ch) PROVE d \in D /\ d[1] = l - 1
  <3>1. ch \in Seq(Names) /\ Len(ch) = Len(s) /\ \A i \in 1 .. Len(s) : On(D, ch[i], l - 1)
   BY <2>5, <2>6, <2>8, <2>9
  <3>2. PICK i \in 1 .. Len(s) : d = ch[i] BY <2>9, <3>1 DEF ToSet
  <3> QED BY <3>1, <3>2 DEF On
 <2>10. IsLeaf(c) = (l = 0) BY <2>5 DEF IsLeaf
 <2>11. ~IsLeaf(c) => /\ Len(c.children) = Len(c.items)
                      /\ \A d \in ToSet(c.children) : d \in Nodes /\ d[1] = l - 1
  BY <2>3, <2>5, <2>8, <2>9
 <2>12. c.link # NoNode => c.link \in Nodes /\ c.link[1] = l BY <2>3, <2>5 DEF On
 <2> QED BY <2>1, <2>2, <2>5, <2>6, <2>7, <2>10, <2>11, <2>12
<1>4. \A t \in Threads : {my[t].node, my[t].push, my[t].right} \subseteq Nodes \cup {NoNode}
 BY <1>1 DEF AllLocalInv, LocalInv, Typed, Nodes
<1>5. pc \in [Threads -> Labels] /\ callsLeft \in [Threads -> Nat] /\ Abstract!SetTypeOK
 BY <1>1 DEF OthersInv
<1> QED BY <1>2, <1>3, <1>4, <1>5 DEF TypeOK

(* Every node of MultiwaySearchTree.hpp has the shape of its level through *)
(* all splits, cleaning and sliding: a child of the level below for each   *)
(* item of an inner node, none for a leaf, and a link, if any, to its own  *)
(* level; and every call holds nodes of the tree.                          *)
THEOREM TypeCorrect ==
    Spec => []TypeOK
<1>1. MultiwayInv => TypeOK BY MultiwayAssumption, TypedByInvariant
<1> QED BY <1>1, MultiwayInvariant, PTL

LEMMA ReleasedByInvariant ==
 ASSUME MultiwayInv
 PROVE  ReleasedOnce
<1>1. ReleasedInv(released, contents, root) /\ TreeInv(contents, root) BY DEF MultiwayInv
<1>2. \A p \in BagToSet(released) : released[p] = 1 BY <1>1 DEF ReleasedInv, BagToSet
<1>3. ASSUME NEW n \in Nodes, NEW part \in {"contents", "keys", "children"},
             Pointer(n, contents[n], part) \in BagToSet(released)
      PROVE  FALSE
 <2>1. PICK p : p = Pointer(n, contents[n], part) OBVIOUS
 <2>2. p \in DOMAIN released BY <1>3, <2>1 DEF BagToSet
 <2>3. p[3] \in Nat /\ p[3] < Age(contents, root, p[1], p[2]) BY <1>1, <2>2 DEF ReleasedInv
 <2>4. p[3] = Age(contents, root, p[1], p[2]) BY <2>1 DEF Pointer, Age
 <2> QED BY <2>3, <2>4
<1> QED BY <1>2, <1>3 DEF ReleasedOnce

(* What casContents of MultiwaySearchTree.hpp gives to the hazard managers *)
(* is given once, and is not part of the contents that a node has: nobody  *)
(* gives back keys or children that the new contents share with the old.   *)
THEOREM GivenBackOnce ==
    Spec => []ReleasedOnce
<1>1. MultiwayInv => ReleasedOnce BY MultiwayAssumption, ReleasedByInvariant
<1> QED BY <1>1, MultiwayInvariant, PTL

LEMMA StepGivesUp ==
 ASSUME MultiwayInv, [Next]_vars
 PROVE  [\A n \in Nodes \cap Nodes' : UpperEnd(contents'[n]) <= UpperEnd(contents[n])]_vars
<1>1. Kept BY NextKeeps, StutterKeeps
<1> QED BY <1>1 DEF Kept, GivesUp, Nodes

(* A node of MultiwaySearchTree.hpp never takes an item beyond its last    *)
(* one, and an empty node stays empty, so that a traversal that has seen a *)
(* node end before its key may go right whatever happens to the node then. *)
THEOREM OnlyGivesUpKeys ==
    Spec => NodesGiveUpKeys
<1>1. MultiwayInv /\ [Next]_vars
          => [\A n \in Nodes \cap Nodes' : UpperEnd(contents'[n]) <= UpperEnd(contents[n])]_vars
 BY MultiwayAssumption, StepGivesUp
<1> QED BY <1>1, MultiwayInvariant, PTL DEF Spec, NodesGiveUpKeys
=============================================================================
