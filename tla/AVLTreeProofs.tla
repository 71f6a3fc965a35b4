---------------------------- MODULE AVLTreeProofs ----------------------------
(***************************************************************************)
(* The links of AVLTree, for any number of threads and keys: no function   *)
(* uses a node that is not there, and whatever unlinks and rotations are   *)
(* under way, the links that they will have made when their stores are     *)
(* done agree with one another.  The stores of one rotation change up to   *)
(* five nodes, so the invariant is about these final links; the locks say  *)
(* who may still store what.                                               *)
(***************************************************************************)
EXTENDS AVLTree, FiniteSetTheorems, WellFoundedInduction, TLAPS

-----------------------------------------------------------------------------
(* The tree as the stores to come will leave it: links is a function from  *)
(* nodes to their final links, with gone for the nodes that are unlinked.  *)
Links == {"left", "right", "parent"}
Maybe == Nodes \cup {NoNode}
LinkRecords == [left : Maybe, right : Maybe, parent : Maybe, gone : BOOLEAN]

IsChild(F, p, n) == \E side \in Sides : F[p][side] = n

(* Parent and child agree; an unlinked node has a child at most. *)
Agree(F) ==
    /\ ~F[rootHolder].gone /\ F[rootHolder].parent = NoNode
    /\ \A n \in DOMAIN F : ~F[n].gone =>
        /\ F[n].left # NoNode => F[n].left # F[n].right
        /\ \A side \in Sides : LET c == F[n][side] IN
              c # NoNode => c # rootHolder /\ ~F[c].gone /\ F[c].parent = n
        /\ n # rootHolder =>
              F[n].parent \in DOMAIN F /\ ~F[F[n].parent].gone /\ IsChild(F, F[n].parent, n)
    /\ \A n \in DOMAIN F : F[n].gone => NoNode \in {F[n].left, F[n].right}

(* A store that t has still to do. *)
Pending(t, n, field) ==
    \E w \in Range(stores[t]) : w.node = n /\ w.field = field
SomePending(n, field) == \E t \in Threads : Pending(t, n, field)

Foresees(F, w) ==
    /\ w.field \in Links => F[w.node][w.field] = w.value
    /\ w.field = "version" => (isUnlinked(w.value) <=> F[w.node].gone)

(* Memory is as it will be, but for the stores to come. *)
Reaches(F) ==
    /\ F \in [Nodes -> LinkRecords]
    /\ \A t \in Threads : \A w \in Range(stores[t]) : Foresees(F, w)
    /\ \A n \in Nodes : \A field \in Links :
          tree[n][field] = F[n][field] \/ SomePending(n, field)
    /\ \A n \in Nodes :
          (isUnlinked(tree[n].version) <=> F[n].gone) \/ SomePending(n, "version")
    /\ \A n \in Nodes : F[n].gone => ~tree[n].value \/ SomePending(n, "value")

FinalLinks(F) == Reaches(F) /\ Agree(F)

(* Who may store what: a field of a node under its lock, the link to its   *)
(* parent under the locks of the parents before and after.                 *)
Holds(t, n) == n \in Nodes /\ t \in tree[n].lock
Writes == [node : Nodes, field : {"left", "right"}, value : Maybe]
          \cup [node : Nodes \ {rootHolder}, field : {"parent"}, value : Nodes]
          \cup [node : Nodes \ {rootHolder}, field : {"version"}, value : Nat]
          \cup [node : Nodes, field : {"value"}, value : {FALSE}]
          \cup [node : Nodes, field : {"height"}, value : Nat \ {0}]
Entitled(t, w) ==
    IF w.field = "parent" THEN Holds(t, tree[w.node].parent) /\ Holds(t, w.value)
                          ELSE Holds(t, w.node)
StoresAreLocked(t) ==
    /\ stores[t] \in Seq(Writes)
    /\ \A w \in Range(stores[t]) : Entitled(t, w)

(* The fields of the nodes. *)
NodeRecords ==
    [key : Keys \cup {MinKey}, value : BOOLEAN, height : Nat \ {0}, version : Nat,
     parent : Maybe, left : Maybe, right : Maybe, lock : SUBSET Threads]
TreeShape ==
    /\ IsFiniteSet(Nodes)
    /\ rootHolder \in Nodes
    /\ tree \in [Nodes -> NodeRecords]
    /\ tree[rootHolder].version = 0
    /\ \A n \in Nodes :
        /\ tree[n].key = n[1]
        /\ n # NoNode
        /\ n # rootHolder => tree[n].parent # NoNode
        /\ \A t, u \in tree[n].lock : t = u

-----------------------------------------------------------------------------
(* The threads. *)
Searching == {"child", "missing", "value", "childRead", "childOVL", "wait", "recheck",
              "revalidate", "validate", "insert", "done"}
AtKey == {"nodeValue", "nodeLeft", "nodeRight", "update", "unlinkParent", "unlinkNode"}
AtChild == {"value", "childOVL", "wait", "recheck", "validate"}
Goals == {"fixHeight", "fixDecide", "rebalance"}
Heights == {"outerFirst", "outerLast", "innerFirst", "innerLast"}

(* A descent begins at the rootHolder, and enters no unlinked node. *)
PathInv(t) ==
    /\ path[t] \in Seq([node : Nodes, ovl : Nat])
    /\ path[t] # <<>> => path[t][1] = Activation(rootHolder, 0)
    /\ \A i \in DOMAIN path[t] : ~isUnlinked(path[t][i].ovl)
    /\ pc[t] \in Searching \cup AtKey => path[t] # <<>>
    /\ pc[t] \in AtKey \/ (pc[t] = "store" /\ after[t].then = "unlinked") => Len(path[t]) > 1
    /\ here[t] \in [child : Maybe, ovl : Nat]
    /\ pc[t] \in AtChild => here[t].child # NoNode
    /\ pc[t] \in {"recheck", "validate"} => ~isUnlinked(here[t].ovl)
    /\ pc[t] = "unlinkNode" => Holds(t, Parent(t)) /\ ~isUnlinked(tree[Parent(t)].version)

(* What nodeCondition has read. *)
ReadAll(c) == Routing(c) \/ Len(c.got) = 6
CondInv(t) ==
    LET c == cond[t]
    IN  /\ c \in [node : Maybe, then : Goals \cup {"none"}, got : Seq(Maybe \cup (SUBSET BOOLEAN) \cup Nat)]
        /\ DOMAIN c.got \subseteq 1 .. 6
        /\ \A i \in DOMAIN c.got \cap {1, 2} : c.got[i] \in Maybe
        /\ \A i \in DOMAIN c.got \cap {3} : c.got[i] \in {{TRUE}, {FALSE}}
        /\ \A i \in DOMAIN c.got \cap {4, 5, 6} : c.got[i] \in Nat
        /\ 5 \in DOMAIN c.got /\ c.got[1] = NoNode => c.got[5] = 0
        /\ 6 \in DOMAIN c.got /\ c.got[2] = NoNode => c.got[6] = 0
        /\ 4 \in DOMAIN c.got => NoNode \notin {c.got[1], c.got[2]} \/ c.got[3] = {TRUE}
        /\ pc[t] = "condition" => c.node # NoNode /\ ~ReadAll(c) /\ c.then \in Goals
        /\ pc[t] \in Goals => c.node # NoNode /\ ReadAll(c)
        /\ pc[t] = "fixParent" => c.node # NoNode

(* Where rebalancing is: what it holds has not changed. *)
Doing(t, goal) == pc[t] = goal \/ (pc[t] = "condition" /\ cond[t].then = goal)
HoldsPair(t) ==
    LET f == fix[t]
    IN  /\ f.n \notin {f.p, rootHolder} /\ Holds(t, f.p) /\ Holds(t, f.n)
        /\ ~isUnlinked(tree[f.p].version)
        /\ tree[f.n].parent = f.p
HoldsChild(t) ==
    LET f == fix[t]
    IN  /\ HoldsPair(t)
        /\ ~isUnlinked(tree[f.n].version)
        /\ f.child # NoNode /\ tree[f.n][Opposite(f.side)] = f.child
HoldsInner(t) ==
    LET f == fix[t]
    IN  /\ HoldsChild(t) /\ Holds(t, f.child) /\ f.child \notin {f.n, f.p}
        /\ tree[f.child][f.side] = f.inner

FixRecords == [n : Maybe, p : Maybe, side : Sides, child : Maybe, inner : Maybe,
               hOther : Nat, hOuter : Nat, hInner : Nat]
FixInv(t) ==
    LET f == fix[t]
    IN  /\ f \in FixRecords
        /\ Doing(t, "fixDecide") \/ pc[t] \in {"fixLock", "readParent", "lockParent"} =>
             f.n \notin {NoNode, rootHolder}
        /\ pc[t] = "lockParent" => f.p # NoNode
        /\ pc[t] = "lockNode" =>
             /\ f.n \notin {NoNode, rootHolder} /\ Holds(t, f.p)
             /\ ~isUnlinked(tree[f.p].version) /\ tree[f.n].parent = f.p
        /\ Doing(t, "rebalance") =>
             /\ HoldsPair(t)
             /\ cond[t].node = f.n
             /\ \A i \in DOMAIN cond[t].got :
                  /\ i = 1 => cond[t].got[i] = tree[f.n].left
                  /\ i = 2 => cond[t].got[i] = tree[f.n].right
                  /\ i = 3 => cond[t].got[i] = {tree[f.n].value}
        /\ pc[t] = "lockChild" => HoldsChild(t)
        /\ pc[t] \in Heights \cup {"rotate"} => HoldsInner(t)
        /\ pc[t] \in {"near", "far"} \/ (pc[t] = "store" /\ after[t].then = "far") =>
             /\ HoldsInner(t) /\ f.inner \notin {f.n, f.p, f.child} /\ Holds(t, f.inner)

(* While the stores of the first part of a double rotation are done. *)
StoreInv(t) ==
    /\ pc[t] # "store" => stores[t] = <<>> /\ after[t] = NoPlan
    /\ pc[t] = "store" =>
         /\ after[t].then \in {"damaged", "fixHeight", "unlinked", "far"}
         /\ after[t].node \in Nodes
         /\ after[t].then = "far" =>
              \A w \in Range(stores[t]) : w.field = "version" /\ ~isUnlinked(w.value)

(* A thread that is idle remembers nothing. *)
IdleInv(t) ==
    /\ pc[t] = "idle" <=> call[t] = NoCall
    /\ pc[t] = "idle" => /\ path[t] = <<>> /\ here[t] = NoPlace /\ cond[t] = NoCond
                         /\ fix[t] = NoFix /\ stores[t] = <<>> /\ after[t] = NoPlan

ThreadInv(t) == StoresAreLocked(t) /\ PathInv(t) /\ CondInv(t) /\ FixInv(t) /\ StoreInv(t) /\ IdleInv(t)

Variables ==
    /\ pc \in [Threads -> Labels]
    /\ DOMAIN path = Threads /\ DOMAIN here = Threads /\ DOMAIN cond = Threads
    /\ DOMAIN fix = Threads /\ DOMAIN stores = Threads /\ DOMAIN after = Threads
    /\ todo \in Seq([op : {"add", "remove"}, key : Keys])
    /\ callsLeft \in [Threads -> Nat]
    /\ Abstract!SetTypeOK

AVLInv ==
    /\ Variables
    /\ TreeShape
    /\ \E F : FinalLinks(F)
    /\ \A t \in Threads : ThreadInv(t)

-----------------------------------------------------------------------------
(* Versions: to begin or to end a change unlinks no node. *)
LEMMA ChangesUnlinkNothing ==
 ASSUME NEW v \in Nat, ~isUnlinked(v)
 PROVE  /\ beginChange(v) \in Nat /\ ~isUnlinked(beginChange(v))
        /\ endChange(v) \in Nat /\ ~isUnlinked(endChange(v))
<1>1. beginChange(v) \in Nat /\ ~isUnlinked(beginChange(v)) BY DEF beginChange, isUnlinked
<1>2. endChange(v) \in Nat /\ endChange(v) % 4 = 0 BY DEF endChange
<1>3. \A n \in Nat : n % 4 = 0 => ~isUnlinked(n) BY DEF isUnlinked
<1> QED BY <1>1, <1>2, <1>3

LEMMA MarksAreUnlinked == isUnlinked(UnlinkedOVL) /\ UnlinkedOVL \in Nat /\ ~isUnlinked(0)
 BY DEF isUnlinked, UnlinkedOVL

(* The writes of a list of stores. *)
LEMMA RangeInSet ==
 ASSUME NEW S, NEW s \in Seq(S)
 PROVE  Range(s) \subseteq S
<1>1. DOMAIN s = 1 .. Len(s) OBVIOUS
<1>2. ASSUME NEW i \in 1 .. Len(s) PROVE s[i] \in S OBVIOUS
<1> QED BY <1>1, <1>2 DEF Range

LEMMA RangeOfConcat ==
 ASSUME NEW S, NEW a \in Seq(S), NEW b \in Seq(S)
 PROVE  a \o b \in Seq(S) /\ Range(a \o b) = Range(a) \cup Range(b)
<1>1. a \o b \in Seq(S) /\ Len(a \o b) = Len(a) + Len(b) OBVIOUS
<1>2. \A i \in 1 .. Len(a) : (a \o b)[i] = a[i] OBVIOUS
<1>3. \A i \in 1 .. Len(b) : (a \o b)[Len(a) + i] = b[i] OBVIOUS
<1>4. PICK s : s = a \o b OBVIOUS
<1>5. ASSUME NEW w \in Range(s) PROVE w \in Range(a) \cup Range(b)
 <2>1. PICK i \in 1 .. Len(a) + Len(b) : w = s[i] BY <1>1, <1>4, <1>5 DEF Range
 <2>2. CASE i \in 1 .. Len(a) BY <2>1, <2>2, <1>2, <1>4 DEF Range
 <2>3. CASE i \notin 1 .. Len(a)
  <3>1. i - Len(a) \in 1 .. Len(b) /\ i = Len(a) + (i - Len(a)) BY <2>1, <2>3
  <3>2. w = b[i - Len(a)] BY <2>1, <3>1, <1>3, <1>4
  <3> QED BY <3>1, <3>2 DEF Range
 <2> QED BY <2>2, <2>3
<1>6. ASSUME NEW w \in Range(a) PROVE w \in Range(s)
 <2>1. PICK i \in 1 .. Len(a) : w = a[i] BY <1>6 DEF Range
 <2>2. i \in DOMAIN s /\ w = s[i] BY <2>1, <1>1, <1>2, <1>4
 <2> QED BY <2>2 DEF Range
<1>7. ASSUME NEW w \in Range(b) PROVE w \in Range(s)
 <2>1. PICK i \in 1 .. Len(b) : w = b[i] BY <1>7 DEF Range
 <2>2. Len(a) + i \in DOMAIN s /\ w = s[Len(a) + i] BY <2>1, <1>1, <1>3, <1>4
 <2> QED BY <2>2 DEF Range
<1> QED BY <1>1, <1>4, <1>5, <1>6, <1>7

LEMMA RangeOfTail ==
 ASSUME NEW S, NEW s \in Seq(S), s # <<>>
 PROVE  /\ Head(s) \in S /\ Tail(s) \in Seq(S)
        /\ Range(s) = {Head(s)} \cup Range(Tail(s))
<1>1. Head(s) \in S /\ Tail(s) \in Seq(S) /\ Len(Tail(s)) = Len(s) - 1 /\ Len(s) \in Nat \ {0}
 OBVIOUS
<1>2. PICK r : r = Tail(s) OBVIOUS
<1>3. \A i \in 1 .. Len(r) : r[i] = s[i + 1] BY <1>2
<1>4. ASSUME NEW w \in Range(s) PROVE w \in {Head(s)} \cup Range(r)
 <2>1. PICK i \in 1 .. Len(s) : w = s[i] BY <1>4 DEF Range
 <2>2. CASE i = 1 BY <2>1, <2>2
 <2>3. CASE i # 1
  <3>1. i - 1 \in 1 .. Len(r) /\ i = (i - 1) + 1 BY <2>1, <2>3, <1>1, <1>2
  <3>2. w = r[i - 1] /\ i - 1 \in DOMAIN r BY <3>1, <2>1, <1>1, <1>2, <1>3
  <3> QED BY <3>2 DEF Range
 <2> QED BY <2>2, <2>3
<1>5. Head(s) \in Range(s) BY <1>1 DEF Range
<1>6. ASSUME NEW w \in Range(r) PROVE w \in Range(s)
 <2>1. PICK i \in 1 .. Len(r) : w = r[i] BY <1>6, <1>1, <1>2 DEF Range
 <2>2. i + 1 \in DOMAIN s /\ w = s[i + 1] BY <2>1, <1>1, <1>2, <1>3
 <2> QED BY <2>2 DEF Range
<1> QED BY <1>1, <1>2, <1>4, <1>5, <1>6

LEMMA RangeOfEmpty == Range(<<>>) = {}
 BY DEF Range

LEMMA RangeOfOne ==
 ASSUME NEW S, NEW a \in S
 PROVE  <<a>> \in Seq(S) /\ Range(<<a>>) = {a}
 BY DEF Range

LEMMA RangeOfTwo ==
 ASSUME NEW S, NEW a \in S, NEW b \in S
 PROVE  <<a, b>> \in Seq(S) /\ Range(<<a, b>>) = {a, b}
 BY DEF Range

-----------------------------------------------------------------------------
(* What unlinking and rotating do to links that agree. *)
IsForest(F) ==
    /\ rootHolder \in DOMAIN F /\ NoNode \notin DOMAIN F
    /\ F \in [DOMAIN F -> [left : DOMAIN F \cup {NoNode}, right : DOMAIN F \cup {NoNode},
                           parent : DOMAIN F \cup {NoNode}, gone : BOOLEAN]]

Relinked(F, Kid(_, _), Up(_), out) ==
    [x \in DOMAIN F |-> [left |-> Kid(x, "left"), right |-> Kid(x, "right"),
                         parent |-> Up(x), gone |-> F[x].gone \/ x \in out]]

AfterUnlink(F, p, n, s) ==
    LET Kid(x, side) == IF x = p /\ F[p][side] = n THEN s ELSE F[x][side]
        Up(x)        == IF x = s THEN p ELSE F[x].parent
    IN  Relinked(F, Kid, Up, {n})

(* The child c of n comes to the place of n, and n below it on `side'. *)
AfterRotate(F, p, n, c, side) ==
    LET Kid(x, d) == IF x = n /\ d = Opposite(side) THEN F[c][side]
                     ELSE IF x = c /\ d = side THEN n
                     ELSE IF x = p /\ F[p][d] = n THEN c ELSE F[x][d]
        Up(x)     == IF x = F[c][side] THEN n
                     ELSE IF x = n THEN c
                     ELSE IF x = c THEN p ELSE F[x].parent
    IN  Relinked(F, Kid, Up, {})

(* The inner grandchild comes first to the place of c, then to that of n. *)
AfterRotateOver(F, p, n, c, g, side) ==
    AfterRotate(AfterRotate(F, n, c, g, Opposite(side)), p, n, g, side)

(* Where a node and its parent are. *)
LEMMA AgreeFacts ==
 ASSUME NEW F, IsForest(F), Agree(F), NEW n \in DOMAIN F, ~F[n].gone, NEW side \in Sides,
        F[n][side] # NoNode
 PROVE  /\ F[n][side] \in DOMAIN F /\ F[n][side] # rootHolder
        /\ ~F[F[n][side]].gone /\ F[F[n][side]].parent = n
        /\ F[n][Opposite(side)] # F[n][side]
 BY DEF IsForest, Agree, Sides, Opposite

LEMMA UnlinkLinks ==
 ASSUME NEW F, NEW p, NEW n, NEW s, NEW G, G = AfterUnlink(F, p, n, s)
 PROVE  /\ DOMAIN G = DOMAIN F
        /\ \A x \in DOMAIN F :
             /\ \A side \in Sides : G[x][side] = IF x = p /\ F[p][side] = n THEN s ELSE F[x][side]
             /\ G[x].parent = IF x = s THEN p ELSE F[x].parent
             /\ G[x].gone = (F[x].gone \/ x = n)
 BY DEF AfterUnlink, Relinked, Sides

LEMMA UnlinkAgrees ==
 ASSUME NEW F, IsForest(F), Agree(F), NEW p \in DOMAIN F, NEW n \in DOMAIN F, p # n,
        ~F[p].gone, IsChild(F, p, n), NoNode \in {F[n].left, F[n].right},
        NEW s, s = IF F[n].left # NoNode THEN F[n].left ELSE F[n].right
 PROVE  /\ IsForest(AfterUnlink(F, p, n, s)) /\ Agree(AfterUnlink(F, p, n, s))
        /\ n # rootHolder /\ ~F[n].gone /\ F[n].parent = p
        /\ s # n /\ (s # NoNode => s \in DOMAIN F /\ s # rootHolder /\ F[s].parent = n)
<1>1. ~F[n].gone /\ F[n].parent = p /\ n # rootHolder BY AgreeFacts DEF IsChild, IsForest
<1>2. s # NoNode => s \in DOMAIN F /\ ~F[s].gone /\ F[s].parent = n /\ s # rootHolder
 BY <1>1, AgreeFacts DEF Sides
<1>3. s # n /\ \A side \in Sides : F[n][side] = s \/ F[n][side] = NoNode
 BY <1>1, <1>2 DEF Sides, IsForest
<1> DEFINE G == AfterUnlink(F, p, n, s)
<1>4. /\ DOMAIN G = DOMAIN F
      /\ \A x \in DOMAIN F :
           /\ \A side \in Sides : G[x][side] = IF x = p /\ F[p][side] = n THEN s ELSE F[x][side]
           /\ G[x].parent = IF x = s THEN p ELSE F[x].parent
           /\ G[x].gone = (F[x].gone \/ x = n)
 BY UnlinkLinks
<1>5. IsForest(G) BY <1>2 DEF IsForest, AfterUnlink, Relinked
<1> HIDE DEF G
<1>6. Agree(G)
 <2>1. ~G[rootHolder].gone /\ G[rootHolder].parent = NoNode BY <1>1, <1>2, <1>4 DEF IsForest, Agree
 <2>2. ASSUME NEW x \in DOMAIN G, G[x].gone
       PROVE  NoNode \in {G[x].left, G[x].right}
  <3>1. G[x].left = F[x].left \/ (x = p /\ F[p].left = n) BY <1>4 DEF Sides
  <3>2. G[x].right = F[x].right \/ (x = p /\ F[p].right = n) BY <1>4 DEF Sides
  <3>3. x # p BY <2>2, <1>4
  <3> QED BY <2>2, <3>1, <3>2, <3>3, <1>4 DEF Agree
 <2>3. ASSUME NEW x \in DOMAIN G, ~G[x].gone
       PROVE  G[x].left # NoNode => G[x].left # G[x].right
  <3>1. x \in DOMAIN F /\ ~F[x].gone /\ x # n BY <2>3, <1>4
  <3>2. F[x].left # NoNode => F[x].left # F[x].right BY <3>1 DEF Agree
  <3>3. \A side \in Sides : G[x][side] = IF x = p /\ F[p][side] = n THEN s ELSE F[x][side]
   BY <3>1, <1>4
  <3>4. \A side \in Sides : F[x][side] = s /\ s # NoNode => x = n BY <3>1, <1>2, AgreeFacts
  <3> QED BY <3>1, <3>2, <3>3, <3>4, <1>3 DEF Sides, IsForest
 <2>4. ASSUME NEW x \in DOMAIN G, ~G[x].gone, NEW side \in Sides, G[x][side] # NoNode
       PROVE  G[x][side] # rootHolder /\ ~G[G[x][side]].gone /\ G[G[x][side]].parent = x
  <3>1. x \in DOMAIN F /\ ~F[x].gone /\ x # n BY <2>4, <1>4
  <3>2. CASE x = p /\ F[p][side] = n BY <3>1, <3>2, <2>4, <1>2, <1>3, <1>4
  <3>3. CASE ~(x = p /\ F[p][side] = n)
   <4>1. G[x][side] = F[x][side] BY <3>1, <3>3, <1>4
   <4>2. /\ F[x][side] \in DOMAIN F /\ F[x][side] # rootHolder
         /\ ~F[F[x][side]].gone /\ F[F[x][side]].parent = x
    BY <2>4, <3>1, <4>1, AgreeFacts
   <4>3. F[x][side] # n /\ F[x][side] # s BY <3>1, <3>3, <4>2, <1>1, <1>2 DEF IsForest
   <4>4. PICK y : y = F[x][side] OBVIOUS
   <4>5. y \in DOMAIN F /\ y # n /\ y # s /\ ~F[y].gone /\ F[y].parent = x BY <4>2, <4>3, <4>4
   <4>6. G[y].parent = x /\ ~G[y].gone BY <4>5, <1>4
   <4> QED BY <4>1, <4>2, <4>4, <4>6
  <3> QED BY <3>2, <3>3
 <2>5. ASSUME NEW x \in DOMAIN G, ~G[x].gone, x # rootHolder
       PROVE  G[x].parent \in DOMAIN G /\ ~G[G[x].parent].gone /\ IsChild(G, G[x].parent, x)
  <3>1. x \in DOMAIN F /\ ~F[x].gone /\ x # n BY <2>5, <1>4
  <3>2. CASE x = s
   <4>1. G[x].parent = p /\ ~G[p].gone BY <3>1, <3>2, <1>4
   <4>2. PICK side \in Sides : F[p][side] = n BY DEF IsChild
   <4>3. G[p][side] = s BY <4>2, <1>4
   <4> QED BY <3>2, <4>1, <4>3, <1>4 DEF IsChild
  <3>3. CASE x # s
   <4>1. G[x].parent = F[x].parent BY <3>1, <3>3, <1>4
   <4>2. F[x].parent \in DOMAIN F /\ ~F[F[x].parent].gone /\ IsChild(F, F[x].parent, x)
    BY <2>5, <3>1 DEF Agree
   <4>3. PICK side \in Sides : F[F[x].parent][side] = x BY <4>2 DEF IsChild
   <4>4. F[x].parent # n BY <4>3, <3>1, <3>3, <1>3 DEF IsForest
   <4>5. G[F[x].parent][side] = x BY <4>2, <4>3, <3>1, <1>4
   <4> QED BY <4>1, <4>2, <4>4, <4>5, <1>4 DEF IsChild
  <3> QED BY <3>2, <3>3
 <2> QED BY <2>1, <2>2, <2>3, <2>4, <2>5 DEF Agree
<1> QED BY <1>1, <1>2, <1>3, <1>5, <1>6 DEF G

LEMMA RotateLinks ==
 ASSUME NEW F, IsForest(F), NEW p, NEW n, NEW c, NEW side, NEW G,
        G = AfterRotate(F, p, n, c, side)
 PROVE  /\ DOMAIN G = DOMAIN F
        /\ \A x \in DOMAIN F :
             /\ \A d \in Sides : G[x][d] = IF x = n /\ d = Opposite(side) THEN F[c][side]
                                           ELSE IF x = c /\ d = side THEN n
                                           ELSE IF x = p /\ F[p][d] = n THEN c ELSE F[x][d]
             /\ G[x].parent = IF x = F[c][side] THEN n
                              ELSE IF x = n THEN c
                              ELSE IF x = c THEN p ELSE F[x].parent
             /\ G[x].gone = F[x].gone
<1> DEFINE Kid(x, d) == IF x = n /\ d = Opposite(side) THEN F[c][side]
                        ELSE IF x = c /\ d = side THEN n
                        ELSE IF x = p /\ F[p][d] = n THEN c ELSE F[x][d]
           Up(x) == IF x = F[c][side] THEN n ELSE IF x = n THEN c
                    ELSE IF x = c THEN p ELSE F[x].parent
<1>1. G = [x \in DOMAIN F |-> [left |-> Kid(x, "left"), right |-> Kid(x, "right"),
                               parent |-> Up(x), gone |-> F[x].gone \/ x \in {}]]
 BY DEF AfterRotate, Relinked
<1> HIDE DEF Kid, Up
<1>2. DOMAIN G = DOMAIN F BY <1>1
<1>3. ASSUME NEW x \in DOMAIN F
      PROVE  G[x].left = Kid(x, "left") /\ G[x].right = Kid(x, "right")
             /\ G[x].parent = Up(x) /\ G[x].gone = (F[x].gone \/ x \in {})
 BY <1>1
<1>4. ASSUME NEW x \in DOMAIN F, NEW d \in Sides PROVE G[x][d] = Kid(x, d) BY <1>3 DEF Sides
<1>5. ASSUME NEW x \in DOMAIN F PROVE G[x].gone = F[x].gone
 <2>1. F[x].gone \in BOOLEAN BY DEF IsForest
 <2> QED BY <2>1, <1>3
<1> QED BY <1>2, <1>3, <1>4, <1>5 DEF Kid, Up

LEMMA RotateAgrees ==
 ASSUME NEW F, IsForest(F), Agree(F), NEW p \in DOMAIN F, NEW n \in DOMAIN F, NEW c \in DOMAIN F,
        NEW side \in Sides, p # n, p # c, n # c, n # rootHolder,
        ~F[n].gone, F[n].parent = p, F[n][Opposite(side)] = c
 PROVE  /\ IsForest(AfterRotate(F, p, n, c, side)) /\ Agree(AfterRotate(F, p, n, c, side))
        /\ IsChild(F, p, n) /\ ~F[p].gone /\ ~F[c].gone /\ F[c].parent = n /\ c # rootHolder
        /\ F[c][side] # NoNode => /\ F[c][side] \in DOMAIN F \ {rootHolder}
                                  /\ F[F[c][side]].parent = c /\ ~F[F[c][side]].gone
<1> DEFINE o == Opposite(side)
<1>1. o \in Sides /\ side # o /\ Opposite(o) = side /\ Sides = {side, o} BY DEF Sides, Opposite
<1>2. PICK b : b = F[c][side] OBVIOUS
<1>3. IsChild(F, p, n) /\ ~F[p].gone BY DEF Agree
<1>4. ~F[c].gone /\ F[c].parent = n /\ c # rootHolder BY <1>1, AgreeFacts DEF IsForest
<1>5. b # NoNode => b \in DOMAIN F \ {rootHolder} /\ F[b].parent = c /\ ~F[b].gone
 BY <1>2, <1>4, AgreeFacts
<1>6. b # n /\ b # c /\ F[n][side] # c BY <1>1, <1>4, <1>5, AgreeFacts DEF IsForest
<1>7. PICK G : G = AfterRotate(F, p, n, c, side) OBVIOUS
<1>8. /\ DOMAIN G = DOMAIN F
      /\ \A x \in DOMAIN F :
           /\ \A d \in Sides : G[x][d] = IF x = n /\ d = o THEN b
                                         ELSE IF x = c /\ d = side THEN n
                                         ELSE IF x = p /\ F[p][d] = n THEN c ELSE F[x][d]
           /\ G[x].parent = IF x = b THEN n ELSE IF x = n THEN c ELSE IF x = c THEN p ELSE F[x].parent
           /\ G[x].gone = F[x].gone
 BY <1>2, <1>7, RotateLinks
<1>9. IsForest(G) BY <1>2, <1>5, <1>7 DEF IsForest, AfterRotate, Relinked
<1>10. G[n][o] = b /\ G[n][side] = F[n][side] /\ G[c][side] = n /\ G[c][o] = F[c][o] BY <1>1, <1>8
<1>11. ASSUME NEW x \in DOMAIN F, x # n, x # c, NEW d \in Sides
       PROVE  G[x][d] = IF x = p /\ F[p][d] = n THEN c ELSE F[x][d]
 BY <1>8, <1>11
<1>12. \A x \in DOMAIN F : G[x].gone = F[x].gone BY <1>8
<1>13. \A d \in Sides : F[p][d] # c BY <1>3, <1>4, AgreeFacts DEF IsForest
<1> HIDE DEF o
<1>20. ASSUME NEW x \in DOMAIN F, F[x].gone
       PROVE  NoNode \in {G[x].left, G[x].right}
 <2>1. x # n /\ x # c /\ x # p BY <1>20, <1>3, <1>4
 <2>2. G[x].left = F[x].left /\ G[x].right = F[x].right BY <2>1, <1>11 DEF Sides
 <2> QED BY <1>20, <2>2 DEF Agree
<1>21. ASSUME NEW x \in DOMAIN F, ~F[x].gone
       PROVE  G[x].left # NoNode => G[x].left # G[x].right
 <2>1. F[x].left # NoNode => F[x].left # F[x].right BY <1>21 DEF Agree
 <2>2. SUFFICES G[x][side] # NoNode => G[x][side] # G[x][o] BY <1>1 DEF Sides
 <2>3. F[x][side] # NoNode => F[x][side] # F[x][o] BY <2>1, <1>1 DEF Sides
 <2>4. CASE x = n
  <3>1. b = NoNode \/ F[n][side] # b BY <1>4, <1>5, AgreeFacts
  <3> QED BY <2>4, <3>1, <1>10
 <2>5. CASE x = c
  <3>1. F[c][o] # n BY <1>1, <1>3, <1>4, AgreeFacts DEF IsForest
  <3> QED BY <2>5, <3>1, <1>10
 <2>6. CASE x # n /\ x # c
  <3>1. G[x][side] = (IF x = p /\ F[p][side] = n THEN c ELSE F[x][side])
        /\ G[x][o] = (IF x = p /\ F[p][o] = n THEN c ELSE F[x][o])
   BY <2>6, <1>1, <1>11
  <3> QED BY <3>1, <2>3, <1>1, <1>13 DEF IsForest
 <2> QED BY <2>4, <2>5, <2>6
<1>22. ASSUME NEW x \in DOMAIN F, ~F[x].gone, NEW d \in Sides, G[x][d] # NoNode
       PROVE  G[x][d] # rootHolder /\ ~G[G[x][d]].gone /\ G[G[x][d]].parent = x
 <2>1. CASE x = n /\ d = o BY <2>1, <1>22, <1>5, <1>8, <1>10
 <2>2. CASE x = c /\ d = side BY <2>2, <1>6, <1>8, <1>10
 <2>3. CASE x = p /\ F[p][d] = n
  <3>1. G[x][d] = c BY <2>3, <1>11
  <3> QED BY <3>1, <2>3, <1>4, <1>6, <1>8
 <2>4. CASE ~(x = n /\ d = o) /\ ~(x = c /\ d = side) /\ ~(x = p /\ F[p][d] = n)
  <3>1. G[x][d] = F[x][d] BY <2>4, <1>8
  <3>2. PICK y : y = F[x][d] OBVIOUS
  <3>3. y \in DOMAIN F /\ y # rootHolder /\ ~F[y].gone /\ F[y].parent = x
   BY <1>22, <3>1, <3>2, AgreeFacts
  <3>4. y # n BY <2>4, <3>2, <3>3
  <3>5. y # c BY <2>4, <3>2, <3>3, <1>1, <1>4, <1>6
  <3>6. y # b
   <4>1. SUFFICES ASSUME y = b PROVE FALSE OBVIOUS
   <4>2. b # NoNode BY <4>1, <3>3 DEF IsForest
   <4>3. x = c BY <4>1, <4>2, <3>3, <1>5
   <4>4. d = o BY <4>3, <2>4, <1>1
   <4>5. F[c][Opposite(side)] # F[c][side] BY <4>2, <1>2, <1>4, AgreeFacts
   <4> QED BY <4>1, <4>3, <4>4, <4>5, <3>2, <1>2 DEF o
  <3>7. G[y].parent = x /\ ~G[y].gone BY <3>3, <3>4, <3>5, <3>6, <1>8
  <3> QED BY <3>1, <3>2, <3>3, <3>7
 <2> QED BY <2>1, <2>2, <2>3, <2>4
<1>23. ASSUME NEW x \in DOMAIN F, ~F[x].gone, x # rootHolder
       PROVE  G[x].parent \in DOMAIN F /\ ~G[G[x].parent].gone /\ IsChild(G, G[x].parent, x)
 <2>1. CASE x = b
  <3>1. b # NoNode BY <2>1 DEF IsForest
  <3> QED BY <2>1, <3>1, <1>1, <1>8, <1>10 DEF IsChild
 <2>2. CASE x = n BY <2>2, <1>4, <1>6, <1>8, <1>10 DEF IsChild
 <2>3. CASE x = c
  <3>1. G[x].parent = p /\ ~G[p].gone BY <2>3, <1>3, <1>6, <1>8
  <3>2. PICK d \in Sides : F[p][d] = n BY <1>3 DEF IsChild
  <3>3. G[p][d] = c BY <3>2, <1>11
  <3> QED BY <2>3, <3>1, <3>3 DEF IsChild
 <2>4. CASE x # b /\ x # n /\ x # c
  <3>1. G[x].parent = F[x].parent BY <2>4, <1>8
  <3>2. PICK y : y = F[x].parent OBVIOUS
  <3>3. y \in DOMAIN F /\ ~F[y].gone /\ IsChild(F, y, x) BY <3>2, <1>23 DEF Agree
  <3>4. PICK d \in Sides : F[y][d] = x BY <3>3 DEF IsChild
  <3>5. G[y][d] = x
   <4>1. ~(y = n /\ d = o) /\ ~(y = c /\ d = side) /\ ~(y = p /\ F[p][d] = n)
    BY <3>4, <2>4, <1>2 DEF o
   <4> QED BY <4>1, <3>3, <3>4, <1>8
  <3> QED BY <3>1, <3>2, <3>3, <3>5, <1>8 DEF IsChild
 <2> QED BY <2>1, <2>2, <2>3, <2>4
<1>24. ~G[rootHolder].gone /\ G[rootHolder].parent = NoNode BY <1>4, <1>5, <1>8 DEF Agree, IsForest
<1>25. Agree(G) BY <1>8, <1>12, <1>20, <1>21, <1>22, <1>23, <1>24 DEF Agree
<1> QED BY <1>2, <1>3, <1>4, <1>5, <1>7, <1>9, <1>25

LEMMA RotateOverAgrees ==
 ASSUME NEW F, IsForest(F), Agree(F), NEW p \in DOMAIN F, NEW n \in DOMAIN F, NEW c \in DOMAIN F,
        NEW g \in DOMAIN F, NEW side \in Sides, NEW o, o = Opposite(side),
        p # n, p # c, n # c, g # p, g # n, g # c, n # rootHolder,
        ~F[n].gone, F[n].parent = p, F[n][o] = c, F[c][side] = g,
        NEW G, G = AfterRotateOver(F, p, n, c, g, side)
 PROVE  /\ IsForest(G) /\ Agree(G) /\ DOMAIN G = DOMAIN F
        /\ IsChild(F, p, n) /\ F[c].parent = n /\ F[g].parent = c
        /\ \A kid \in {F[g][side], F[g][o]} \ {NoNode} :
             kid \in DOMAIN F \ {rootHolder} /\ F[kid].parent = g
        /\ \A x \in DOMAIN F :
             /\ \A d \in Sides : G[x][d] = IF x = n /\ d = o THEN F[g][side]
                                           ELSE IF x = c /\ d = side THEN F[g][o]
                                           ELSE IF x = g THEN (IF d = side THEN n ELSE c)
                                           ELSE IF x = p /\ F[p][d] = n THEN g ELSE F[x][d]
             /\ G[x].parent = IF x = F[g][side] THEN n
                              ELSE IF x = F[g][o] THEN c
                              ELSE IF x \in {n, c} THEN g
                              ELSE IF x = g THEN p ELSE F[x].parent
             /\ G[x].gone = F[x].gone
<1>1. o \in Sides /\ side # o /\ Opposite(o) = side /\ Sides = {side, o} BY DEF Sides, Opposite
<1>2. IsChild(F, p, n) BY DEF Agree
<1>3. ~F[c].gone /\ F[c].parent = n /\ c # rootHolder /\ F[n][side] # c
 BY <1>1, AgreeFacts DEF IsForest
<1>4. ~F[g].gone /\ F[g].parent = c /\ F[c][o] # g BY <1>1, <1>3, AgreeFacts DEF IsForest
<1>5. \A d \in Sides : F[g][d] # NoNode => F[g][d] \in DOMAIN F \ {rootHolder} /\ F[F[g][d]].parent = g
 BY <1>4, AgreeFacts
<1>6. PICK M : M = AfterRotate(F, n, c, g, o) OBVIOUS
<1>7. IsForest(M) /\ Agree(M) BY <1>1, <1>3, <1>6, RotateAgrees
<1>8. /\ DOMAIN M = DOMAIN F
      /\ \A x \in DOMAIN F :
           /\ \A d \in Sides : M[x][d] = IF x = c /\ d = side THEN F[g][o]
                                         ELSE IF x = g /\ d = o THEN c
                                         ELSE IF x = n /\ F[n][d] = c THEN g ELSE F[x][d]
           /\ M[x].parent = IF x = F[g][o] THEN c ELSE IF x = c THEN g
                            ELSE IF x = g THEN n ELSE F[x].parent
           /\ M[x].gone = F[x].gone
 BY <1>1, <1>6, RotateLinks
<1>9. n # F[g][o] /\ n # F[g][side] /\ c # F[g][o] /\ c # F[g][side] /\ g # F[g][o] /\ g # F[g][side]
 BY <1>1, <1>3, <1>4, <1>5 DEF IsForest
<1>10. M[n].parent = p /\ M[n][o] = g /\ ~M[n].gone /\ M[g][side] = F[g][side]
 BY <1>1, <1>3, <1>8, <1>9
<1>11. G = AfterRotate(M, p, n, g, side) BY <1>1, <1>6 DEF AfterRotateOver
<1>12. IsForest(G) /\ Agree(G) BY <1>1, <1>7, <1>8, <1>10, <1>11, RotateAgrees
<1>13. /\ DOMAIN G = DOMAIN F
       /\ \A x \in DOMAIN F :
            /\ \A d \in Sides : G[x][d] = IF x = n /\ d = o THEN F[g][side]
                                          ELSE IF x = g /\ d = side THEN n
                                          ELSE IF x = p /\ M[p][d] = n THEN g ELSE M[x][d]
            /\ G[x].parent = IF x = F[g][side] THEN n ELSE IF x = n THEN g
                             ELSE IF x = g THEN p ELSE M[x].parent
            /\ G[x].gone = M[x].gone
 BY <1>7, <1>8, <1>10, <1>11, RotateLinks
<1>14. \A d \in Sides : M[p][d] = F[p][d] BY <1>8
<1>15. ASSUME NEW x \in DOMAIN F, NEW d \in Sides
       PROVE  G[x][d] = IF x = n /\ d = o THEN F[g][side]
                        ELSE IF x = c /\ d = side THEN F[g][o]
                        ELSE IF x = g THEN (IF d = side THEN n ELSE c)
                        ELSE IF x = p /\ F[p][d] = n THEN g ELSE F[x][d]
 <2>1. CASE x = n BY <2>1, <1>1, <1>3, <1>8, <1>13
 <2>2. CASE x = c BY <2>2, <1>1, <1>8, <1>13
 <2>3. CASE x = g BY <2>3, <1>1, <1>8, <1>13
 <2>4. CASE x \notin {n, c, g} BY <2>4, <1>8, <1>13, <1>14
 <2> QED BY <2>1, <2>2, <2>3, <2>4
<1>16. ASSUME NEW x \in DOMAIN F
       PROVE  G[x].parent = IF x = F[g][side] THEN n
                            ELSE IF x = F[g][o] THEN c
                            ELSE IF x \in {n, c} THEN g
                            ELSE IF x = g THEN p ELSE F[x].parent
 <2>1. CASE x \in {n, c, g} BY <2>1, <1>8, <1>9, <1>13
 <2>2. CASE x \notin {n, c, g} BY <2>2, <1>8, <1>13
 <2> QED BY <2>1, <2>2
<1>17. \A kid \in {F[g][side], F[g][o]} \ {NoNode} :
          kid \in DOMAIN F \ {rootHolder} /\ F[kid].parent = g
 BY <1>1, <1>5
<1> QED BY <1>2, <1>3, <1>4, <1>8, <1>12, <1>13, <1>15, <1>16, <1>17

(* A new leaf. *)
AfterInsert(F, n, new, side) ==
    [x \in DOMAIN F \cup {new} |->
        IF x = new THEN [left |-> NoNode, right |-> NoNode, parent |-> n, gone |-> FALSE]
        ELSE [left |-> IF x = n /\ side = "left" THEN new ELSE F[x].left,
              right |-> IF x = n /\ side = "right" THEN new ELSE F[x].right,
              parent |-> F[x].parent, gone |-> F[x].gone]]

IsInsert(F, G, n, new, side) ==
    /\ DOMAIN G = DOMAIN F \cup {new}
    /\ \A x \in DOMAIN F :
         /\ \A d \in Sides : G[x][d] = IF x = n /\ d = side THEN new ELSE F[x][d]
         /\ G[x].parent = F[x].parent /\ G[x].gone = F[x].gone
    /\ G[new] = [left |-> NoNode, right |-> NoNode, parent |-> n, gone |-> FALSE]

LEMMA InsertAgrees ==
 ASSUME NEW F, IsForest(F), Agree(F), NEW n \in DOMAIN F, ~F[n].gone,
        NEW new, new \notin DOMAIN F, new # NoNode, NEW side \in Sides, F[n][side] = NoNode,
        NEW G, G = AfterInsert(F, n, new, side)
 PROVE  IsForest(G) /\ Agree(G) /\ IsInsert(F, G, n, new, side)
<1>1. DOMAIN G = DOMAIN F \cup {new} BY DEF AfterInsert
<1>2. G[new] = [left |-> NoNode, right |-> NoNode, parent |-> n, gone |-> FALSE] BY DEF AfterInsert
<1>3. ASSUME NEW x \in DOMAIN F
      PROVE  /\ G[x].left = IF x = n /\ side = "left" THEN new ELSE F[x].left
             /\ G[x].right = IF x = n /\ side = "right" THEN new ELSE F[x].right
             /\ G[x].parent = F[x].parent /\ G[x].gone = F[x].gone
 BY DEF AfterInsert
<1>4. ASSUME NEW x \in DOMAIN F, NEW d \in Sides
      PROVE  G[x][d] = IF x = n /\ d = side THEN new ELSE F[x][d]
 BY <1>3 DEF Sides
<1>5. IsForest(G) BY DEF IsForest, AfterInsert
<1> HIDE DEF AfterInsert
<1>6. Agree(G)
 <2>1. ~G[rootHolder].gone /\ G[rootHolder].parent = NoNode BY <1>3 DEF IsForest, Agree
 <2>2. ASSUME NEW x \in DOMAIN G, G[x].gone PROVE NoNode \in {G[x].left, G[x].right}
  <3>1. x \in DOMAIN F /\ x # n /\ F[x].gone BY <2>2, <1>1, <1>2, <1>3
  <3> QED BY <3>1, <1>3 DEF Agree
 <2>3. ASSUME NEW x \in DOMAIN G, ~G[x].gone PROVE G[x].left # NoNode => G[x].left # G[x].right
  <3>1. CASE x = new BY <3>1, <1>2
  <3>2. CASE x \in DOMAIN F
   <4>1. ~F[x].gone /\ (F[x].left # NoNode => F[x].left # F[x].right) BY <3>2, <2>3, <1>3 DEF Agree
   <4>2. F[x].left # new /\ F[x].right # new BY <3>2 DEF IsForest
   <4> QED BY <3>2, <4>1, <4>2, <1>3
  <3> QED BY <3>1, <3>2, <1>1
 <2>4. ASSUME NEW x \in DOMAIN G, ~G[x].gone, NEW d \in Sides, G[x][d] # NoNode
       PROVE  G[x][d] # rootHolder /\ ~G[G[x][d]].gone /\ G[G[x][d]].parent = x
  <3>1. x # new BY <2>4, <1>2 DEF Sides
  <3>2. x \in DOMAIN F /\ ~F[x].gone BY <3>1, <2>4, <1>1, <1>3
  <3>3. CASE x = n /\ d = side BY <3>3, <3>2, <1>2, <1>4 DEF IsForest
  <3>4. CASE ~(x = n /\ d = side)
   <4>1. PICK y : y = F[x][d] OBVIOUS
   <4>2. G[x][d] = y BY <3>2, <3>4, <4>1, <1>4
   <4>3. y \in DOMAIN F /\ y # rootHolder /\ ~F[y].gone /\ F[y].parent = x
    BY <2>4, <3>2, <4>1, <4>2, AgreeFacts
   <4> QED BY <4>2, <4>3, <1>3
  <3> QED BY <3>3, <3>4
 <2>5. ASSUME NEW x \in DOMAIN G, ~G[x].gone, x # rootHolder
       PROVE  G[x].parent \in DOMAIN G /\ ~G[G[x].parent].gone /\ IsChild(G, G[x].parent, x)
  <3>1. CASE x = new BY <3>1, <1>1, <1>2, <1>3, <1>4 DEF IsChild
  <3>2. CASE x \in DOMAIN F
   <4>1. PICK y : y = F[x].parent OBVIOUS
   <4>2. y \in DOMAIN F /\ ~F[y].gone /\ IsChild(F, y, x) BY <2>5, <3>2, <4>1, <1>3 DEF Agree
   <4>3. PICK d \in Sides : F[y][d] = x BY <4>2 DEF IsChild
   <4>4. G[y][d] = x BY <4>2, <4>3, <3>2, <1>4 DEF IsForest
   <4> QED BY <4>1, <4>2, <4>4, <3>2, <1>1, <1>3 DEF IsChild
  <3> QED BY <3>1, <3>2, <1>1
 <2> QED BY <2>1, <2>2, <2>3, <2>4, <2>5 DEF Agree
<1> QED BY <1>1, <1>2, <1>3, <1>4, <1>5, <1>6 DEF IsInsert

(* The nodes that are left when the unlinked ones are forgotten. *)
LEMMA LiveAgree ==
 ASSUME NEW F, IsForest(F), Agree(F), NEW G, G = [x \in {y \in DOMAIN F : ~F[y].gone} |-> F[x]]
 PROVE  IsForest(G) /\ Agree(G)
<1>1. rootHolder \in DOMAIN G /\ NoNode \notin DOMAIN G /\ \A x \in DOMAIN G : x \in DOMAIN F /\ ~F[x].gone
 BY DEF IsForest, Agree
<1>2. \A x \in DOMAIN G : G[x] = F[x] OBVIOUS
<1>3. ASSUME NEW x \in DOMAIN G
      PROVE  /\ F[x].left \in DOMAIN G \cup {NoNode} /\ F[x].right \in DOMAIN G \cup {NoNode}
             /\ x # rootHolder => F[x].parent \in DOMAIN G
 <2>1. \A side \in Sides : F[x][side] # NoNode => F[x][side] \in DOMAIN F /\ ~F[F[x][side]].gone
  BY <1>1, AgreeFacts
 <2> QED BY <2>1, <1>1 DEF Agree, Sides
<1>4. F[rootHolder].parent = NoNode BY DEF Agree
<1>5. IsForest(G) BY <1>1, <1>2, <1>3, <1>4 DEF IsForest
<1>6. Agree(G)
 <2>1. ASSUME NEW x \in DOMAIN G PROVE IsChild(G, F[x].parent, x) \/ x = rootHolder
  BY <2>1, <1>1, <1>2, <1>3 DEF Agree, IsChild
 <2> QED BY <2>1, <1>1, <1>2, <1>3, <1>4 DEF Agree, Sides
<1> QED BY <1>5, <1>6

-----------------------------------------------------------------------------
(* The other threads: what t does leaves the invariant of u alone when the *)
(* nodes that u has locked, and the links to them, stay as they are.       *)
SameFor(u) ==
    /\ pc'[u] = pc[u] /\ path'[u] = path[u] /\ here'[u] = here[u] /\ cond'[u] = cond[u]
    /\ fix'[u] = fix[u] /\ stores'[u] = stores[u] /\ after'[u] = after[u] /\ call'[u] = call[u]

Keeps(u) ==
    /\ \A n \in Nodes : n \in DOMAIN tree'
    /\ \A n \in Nodes : u \in tree[n].lock =>
          /\ u \in tree'[n].lock
          /\ tree'[n].left = tree[n].left /\ tree'[n].right = tree[n].right
          /\ tree'[n].version = tree[n].version /\ tree'[n].value = tree[n].value
    /\ \A n \in Nodes : Holds(u, tree[n].parent) => tree'[n].parent = tree[n].parent

LEMMA SequencesGrow ==
 ASSUME NEW S, NEW R, S \subseteq R, NEW s \in Seq(S)
 PROVE  s \in Seq(R)
 OBVIOUS

LEMMA FixTyped ==
 ASSUME NEW t, FixInv(t)
 PROVE  LET f == fix[t]
        IN  /\ f \in FixRecords /\ f.n \in Maybe /\ f.p \in Maybe /\ f.child \in Maybe /\ f.inner \in Maybe
            /\ f.side \in Sides /\ f.hOther \in Nat /\ f.hOuter \in Nat /\ f.hInner \in Nat
 BY DEF FixInv, FixRecords

LEMMA OthersStay ==
 ASSUME NEW u \in Threads, TreeShape, ThreadInv(u), SameFor(u), Keeps(u)
 PROVE  ThreadInv(u)'
<1>1. Nodes \subseteq Nodes' /\ Maybe \subseteq Maybe' /\ Writes \subseteq Writes'
 <2>1. Nodes \subseteq Nodes' /\ Maybe \subseteq Maybe' BY DEF Keeps, Nodes, Maybe
 <2>2. PICK N, M, K, L : N = Nodes /\ M = Maybe /\ K = Nodes' /\ L = Maybe' OBVIOUS
 <2>3. Writes = [node : N, field : {"left", "right"}, value : M]
                \cup [node : N \ {rootHolder}, field : {"parent"}, value : N]
                \cup [node : N \ {rootHolder}, field : {"version"}, value : Nat]
                \cup [node : N, field : {"value"}, value : {FALSE}]
                \cup [node : N, field : {"height"}, value : Nat \ {0}]
  BY <2>2 DEF Writes
 <2>4. Writes' = [node : K, field : {"left", "right"}, value : L]
                \cup [node : K \ {rootHolder}, field : {"parent"}, value : K]
                \cup [node : K \ {rootHolder}, field : {"version"}, value : Nat]
                \cup [node : K, field : {"value"}, value : {FALSE}]
                \cup [node : K, field : {"height"}, value : Nat \ {0}]
  BY <2>2 DEF Writes, rootHolder
 <2>5. N \subseteq K /\ M \subseteq L BY <2>1, <2>2
 <2> QED BY <2>1, <2>3, <2>4, <2>5
<1>2. \A n : Holds(u, n) => Holds(u, n)' BY DEF Holds, Keeps, Nodes
<1>3. \A n : Holds(u, n) => /\ tree'[n].left = tree[n].left /\ tree'[n].right = tree[n].right
                            /\ tree'[n].version = tree[n].version /\ tree'[n].value = tree[n].value
 BY DEF Holds, Keeps
<1>4. \A n \in Nodes : Holds(u, tree[n].parent) => tree'[n].parent = tree[n].parent BY DEF Keeps
<1>5. StoresAreLocked(u)'
 <2>1. stores'[u] \in Seq(Writes') BY <1>1, SequencesGrow DEF ThreadInv, StoresAreLocked, SameFor
 <2>2. ASSUME NEW w \in Range(stores[u]) PROVE Entitled(u, w)'
  <3>1. w \in Writes /\ Entitled(u, w) BY <2>2, RangeInSet DEF ThreadInv, StoresAreLocked
  <3>2. w.node \in Nodes BY <3>1 DEF Writes
  <3>3. CASE w.field = "parent"
   <4>1. Holds(u, tree[w.node].parent) /\ Holds(u, w.value) BY <3>1, <3>3 DEF Entitled
   <4>2. tree'[w.node].parent = tree[w.node].parent BY <4>1, <3>2, <1>4
   <4> QED BY <4>1, <4>2, <3>3, <1>2 DEF Entitled, Holds, Nodes
  <3>4. CASE w.field # "parent" BY <3>1, <3>4, <1>2 DEF Entitled
  <3> QED BY <3>3, <3>4
 <2> QED BY <2>1, <2>2 DEF StoresAreLocked, SameFor
<1>6. PathInv(u)'
 <2>1. path[u] \in Seq([node : Nodes, ovl : Nat]) BY DEF ThreadInv, PathInv
 <2>2. path[u] \in Seq([node : Nodes', ovl : Nat])
  <3>1. [node : Nodes, ovl : Nat] \subseteq [node : Nodes', ovl : Nat] BY <1>1
  <3> QED BY <2>1, <3>1, SequencesGrow
 <2>3. here[u] \in [child : Maybe', ovl : Nat] BY <1>1 DEF ThreadInv, PathInv
 <2>4. pc[u] = "unlinkNode" =>
          Holds(u, Last(Front(path[u])).node) /\ ~isUnlinked(tree[Last(Front(path[u])).node].version)
  BY DEF ThreadInv, PathInv, Parent
 <2>5. PICK m : m = Last(Front(path[u])).node OBVIOUS
 <2>6. Parent(u)' = m BY <2>5 DEF Parent, SameFor
 <2>7. pc[u] = "unlinkNode" => Holds(u, m)' /\ ~isUnlinked(tree'[m].version)
  BY <2>4, <2>5, <1>2, <1>3
 <2>8. pc[u] = "unlinkNode" => Holds(u, Parent(u))' /\ ~isUnlinked(tree[Parent(u)].version)'
  BY <2>6, <2>7 DEF Holds, Nodes
 <2> QED BY <2>2, <2>3, <2>8 DEF ThreadInv, PathInv, SameFor
<1>7. CondInv(u)'
 <2>1. cond[u] \in [node : Maybe', then : Goals \cup {"none"}, got : Seq(Maybe' \cup (SUBSET BOOLEAN) \cup Nat)]
  <3>1. /\ cond[u].node \in Maybe' /\ cond[u].then \in Goals \cup {"none"}
        /\ cond[u].got \in Seq(Maybe' \cup (SUBSET BOOLEAN) \cup Nat)
   BY <1>1, SequencesGrow DEF ThreadInv, CondInv
  <3>2. cond[u] = [node |-> cond[u].node, then |-> cond[u].then, got |-> cond[u].got]
   BY DEF ThreadInv, CondInv
  <3> QED BY <3>1, <3>2
 <2>2. \A i \in DOMAIN cond[u].got \cap {1, 2} : cond[u].got[i] \in Maybe'
  BY <1>1 DEF ThreadInv, CondInv
 <2> QED BY <2>1, <2>2 DEF ThreadInv, CondInv, SameFor, ReadAll, Routing
<1>8. FixInv(u)'
 <2>1. HoldsPair(u) => HoldsPair(u)'
  <3>1. SUFFICES ASSUME HoldsPair(u) PROVE HoldsPair(u)' OBVIOUS
  <3>2. PICK f : f = fix[u] /\ fix'[u] = f BY DEF SameFor
  <3>3. f.n \in Nodes /\ f.p \in Nodes /\ tree[f.n].parent = f.p /\ Holds(u, f.p) /\ Holds(u, f.n)
   BY <3>1, <3>2 DEF HoldsPair, Holds
  <3>4. tree'[f.n].parent = f.p /\ tree'[f.p].version = tree[f.p].version BY <3>3, <1>3, <1>4
  <3> QED BY <3>1, <3>2, <3>3, <3>4, <1>2 DEF HoldsPair, Holds, Nodes
 <2>2. HoldsChild(u) => HoldsChild(u)'
  <3>1. SUFFICES ASSUME HoldsChild(u) PROVE HoldsChild(u)' OBVIOUS
  <3>2. PICK f : f = fix[u] /\ fix'[u] = f BY DEF SameFor
  <3>3. Holds(u, f.n) /\ f.side \in Sides
   BY <3>1, <3>2, FixTyped DEF HoldsChild, HoldsPair, ThreadInv
  <3>4. tree'[f.n].version = tree[f.n].version /\ tree'[f.n][Opposite(f.side)] = tree[f.n][Opposite(f.side)]
   BY <3>3, <1>3 DEF Opposite
  <3> QED BY <3>1, <3>2, <3>3, <3>4, <2>1 DEF HoldsChild
 <2>3. HoldsInner(u) => HoldsInner(u)'
  <3>1. SUFFICES ASSUME HoldsInner(u) PROVE HoldsInner(u)' OBVIOUS
  <3>2. PICK f : f = fix[u] /\ fix'[u] = f BY DEF SameFor
  <3>3. Holds(u, f.child) /\ f.side \in Sides
   BY <3>1, <3>2, FixTyped DEF HoldsInner, HoldsChild, ThreadInv
  <3>4. tree'[f.child][f.side] = tree[f.child][f.side] BY <3>3, <1>3 DEF Sides
  <3>5. Holds(u, f.child)' BY <3>3, <1>2
  <3> QED BY <3>1, <3>2, <3>3, <3>4, <3>5, <2>2 DEF HoldsInner, Holds, Nodes
 <2>4. pc[u] = "lockNode" =>
          /\ Holds(u, fix[u].p)' /\ ~isUnlinked(tree'[fix[u].p].version) /\ tree'[fix[u].n].parent = fix[u].p
  <3>1. SUFFICES ASSUME pc[u] = "lockNode" PROVE Holds(u, fix[u].p)' /\ ~isUnlinked(tree'[fix[u].p].version) /\ tree'[fix[u].n].parent = fix[u].p
   OBVIOUS
  <3>2. PICK f : f = fix[u] /\ fix'[u] = f BY DEF SameFor
  <3>3. /\ f.n \in Nodes /\ Holds(u, f.p) /\ ~isUnlinked(tree[f.p].version) /\ tree[f.n].parent = f.p
   <4>1. f.n \in Maybe BY <3>2, FixTyped DEF ThreadInv
   <4> QED BY <3>1, <3>2, <4>1 DEF ThreadInv, FixInv, Maybe
  <3>4. tree'[f.n].parent = f.p /\ tree'[f.p].version = tree[f.p].version BY <3>3, <1>3, <1>4
  <3> QED BY <3>2, <3>3, <3>4, <1>2 DEF Holds, Nodes
 <2>5. Doing(u, "rebalance") =>
          \A i \in DOMAIN cond[u].got :
               /\ i = 1 => cond[u].got[i] = tree'[fix[u].n].left
               /\ i = 2 => cond[u].got[i] = tree'[fix[u].n].right
               /\ i = 3 => cond[u].got[i] = {tree'[fix[u].n].value}
  <3>1. SUFFICES ASSUME Doing(u, "rebalance"), NEW i \in DOMAIN cond[u].got
                 PROVE  /\ i = 1 => cond[u].got[i] = tree'[fix[u].n].left
                        /\ i = 2 => cond[u].got[i] = tree'[fix[u].n].right
                        /\ i = 3 => cond[u].got[i] = {tree'[fix[u].n].value}
   OBVIOUS
  <3>2. Holds(u, fix[u].n) BY <3>1 DEF ThreadInv, FixInv, HoldsPair
  <3> QED BY <3>1, <3>2, <1>3 DEF ThreadInv, FixInv
 <2>6. \A n : Holds(u, n) => Holds(u, n)' BY <1>2
 <2>7. fix'[u] = fix[u] /\ pc'[u] = pc[u] /\ cond'[u] = cond[u] /\ stores'[u] = stores[u] /\ after'[u] = after[u]
  BY DEF SameFor
 <2>8. fix[u] \in FixRecords' BY <1>1 DEF ThreadInv, FixInv, FixRecords
 <2>9. (pc[u] \in {"near", "far"} \/ (pc[u] = "store" /\ after[u].then = "far")) =>
          HoldsInner(u)' /\ Holds(u, fix[u].inner)'
  <3>1. PICK m : m = fix[u].inner OBVIOUS
  <3>2. m = fix'[u].inner BY <3>1 DEF SameFor
  <3>3. (pc[u] \in {"near", "far"} \/ (pc[u] = "store" /\ after[u].then = "far")) =>
           HoldsInner(u)' /\ Holds(u, m)'
   BY <3>1, <2>3, <2>6 DEF ThreadInv, FixInv
  <3> QED BY <3>2, <3>3 DEF Holds, Nodes
 <2>10. pc[u] = "lockChild" => HoldsChild(u)' BY <2>2 DEF ThreadInv, FixInv
 <2>11. pc[u] \in Heights \cup {"rotate"} => HoldsInner(u)' BY <2>3 DEF ThreadInv, FixInv
 <2>12. Doing(u, "rebalance") => HoldsPair(u)' BY <2>1 DEF ThreadInv, FixInv
 <2> QED
  <3> USE DEF Holds, Nodes
  <3> QED BY <2>4, <2>5, <2>7, <2>8, <2>9, <2>10, <2>11, <2>12 DEF ThreadInv, FixInv, Doing
<1>9. StoreInv(u)' /\ IdleInv(u)' BY <1>1 DEF ThreadInv, StoreInv, IdleInv, SameFor
<1> QED BY <1>5, <1>6, <1>7, <1>8, <1>9 DEF ThreadInv

-----------------------------------------------------------------------------
(* No stores are to come at a node that nobody has locked, or a thread     *)
(* without stores: memory shows its final links.                           *)
QuietAt(n) == \A u \in Threads : Holds(u, n) => stores[u] = <<>>

LEMMA FreeIsQuiet == \A n : Free(n) => QuietAt(n)
 BY DEF Free, QuietAt, Holds

LEMMA MineIsQuiet ==
 ASSUME TreeShape, NEW t \in Threads, stores[t] = <<>>, NEW n, Holds(t, n)
 PROVE  QuietAt(n)
 BY DEF TreeShape, QuietAt, Holds

LEMMA PendingIsLocked ==
 ASSUME NEW t \in Threads, StoresAreLocked(t), NEW n, NEW field, Pending(t, n, field)
 PROVE  /\ stores[t] # <<>>
        /\ field # "parent" => Holds(t, n)
        /\ field = "parent" => Holds(t, tree[n].parent)
<1>1. PICK w \in Range(stores[t]) : w.node = n /\ w.field = field BY DEF Pending
<1>2. Entitled(t, w) BY DEF StoresAreLocked
<1>3. stores[t] # <<>> BY RangeOfEmpty
<1> QED BY <1>1, <1>2, <1>3 DEF Entitled

LEMMA QuietLinks ==
 ASSUME \A t \in Threads : StoresAreLocked(t), NEW F, Reaches(F), NEW n \in Nodes, QuietAt(n)
 PROVE  /\ tree[n].left = F[n].left /\ tree[n].right = F[n].right
        /\ isUnlinked(tree[n].version) <=> F[n].gone
        /\ F[n].gone => ~tree[n].value
        /\ F[n].left \in Maybe /\ F[n].right \in Maybe
<1>1. \A field : field # "parent" => ~SomePending(n, field)
 BY PendingIsLocked DEF SomePending, QuietAt
<1>2. \A field \in Links : tree[n][field] = F[n][field] \/ SomePending(n, field) BY DEF Reaches
<1>3. tree[n].left = F[n].left /\ tree[n].right = F[n].right BY <1>1, <1>2 DEF Links
<1>4. /\ (isUnlinked(tree[n].version) <=> F[n].gone) \/ SomePending(n, "version")
      /\ F[n].gone => ~tree[n].value \/ SomePending(n, "value")
 BY DEF Reaches
<1>5. F[n].left \in Maybe /\ F[n].right \in Maybe BY DEF Reaches, LinkRecords
<1> QED BY <1>1, <1>3, <1>4, <1>5

LEMMA QuietParent ==
 ASSUME \A t \in Threads : StoresAreLocked(t), NEW F, Reaches(F), NEW n \in Nodes,
        QuietAt(tree[n].parent)
 PROVE  tree[n].parent = F[n].parent
<1>1. ~SomePending(n, "parent") BY PendingIsLocked DEF SomePending, QuietAt
<1> QED BY <1>1 DEF Reaches, Links

LEMMA ForestOfNodes ==
 ASSUME TreeShape, NEW F, Reaches(F)
 PROVE  IsForest(F) /\ DOMAIN F = Nodes
<1>1. DOMAIN F = Nodes /\ F \in [Nodes -> LinkRecords] BY DEF Reaches
<1>2. rootHolder \in Nodes /\ NoNode \notin Nodes BY DEF TreeShape
<1> QED BY <1>1, <1>2 DEF IsForest, LinkRecords, Maybe

(* The children of a quiet node point back to it. *)
LEMMA ChildOfQuiet ==
 ASSUME TreeShape, \A t \in Threads : StoresAreLocked(t), NEW F, FinalLinks(F),
        NEW p \in Nodes, QuietAt(p), ~isUnlinked(tree[p].version),
        NEW side \in Sides, NEW c, c = tree[p][side], c # NoNode
 PROVE  /\ c \in Nodes /\ c # rootHolder /\ tree[c].parent = p
        /\ F[p][side] = c /\ ~F[p].gone /\ ~F[c].gone /\ F[c].parent = p
<1>1. F[p][side] = c /\ ~F[p].gone BY QuietLinks DEF Sides, FinalLinks
<1>2. c \in Nodes /\ c # rootHolder /\ ~F[c].gone /\ F[c].parent = p
 BY <1>1, ForestOfNodes, AgreeFacts DEF FinalLinks
<1>3. ASSUME NEW t \in Threads, NEW w \in Range(stores[t]), w.node = c, w.field = "parent"
      PROVE  FALSE
 <2>1. Foresees(F, w) /\ Entitled(t, w) BY DEF FinalLinks, Reaches, StoresAreLocked
 <2>2. w.value = p BY <2>1, <1>2, <1>3 DEF Foresees, Links
 <2>3. Holds(t, p) BY <2>1, <2>2, <1>3 DEF Entitled
 <2> QED BY <2>3, <1>3, RangeOfEmpty DEF QuietAt
<1>4. ~SomePending(c, "parent") BY <1>3 DEF SomePending, Pending
<1>5. tree[c].parent = F[c].parent BY <1>2, <1>4 DEF FinalLinks, Reaches, Links
<1> QED BY <1>1, <1>2, <1>5

-----------------------------------------------------------------------------
(* A step of t: the others stand where they stood. *)
MovesOnly(t) == Variables' /\ \A u \in Threads \ {t} : SameFor(u)

(* Only locks of t and heights change. *)
OnlyLocks(t) ==
    /\ DOMAIN tree' = Nodes
    /\ tree' \in [Nodes -> NodeRecords]
    /\ \A n \in Nodes :
        /\ tree'[n].key = tree[n].key /\ tree'[n].value = tree[n].value
        /\ tree'[n].version = tree[n].version /\ tree'[n].parent = tree[n].parent
        /\ tree'[n].left = tree[n].left /\ tree'[n].right = tree[n].right
        /\ \A u \in Threads \ {t} : u \in tree[n].lock <=> u \in tree'[n].lock
        /\ \A u, v \in tree'[n].lock : u = v

LEMMA UnchangedTree ==
 ASSUME TreeShape, NEW t \in Threads, UNCHANGED tree
 PROVE  OnlyLocks(t)
 BY DEF TreeShape, OnlyLocks, Nodes

LEMMA TakesLock ==
 ASSUME TreeShape, NEW t \in Threads, NEW n \in Nodes, Free(n), tree' = Lock(tree, n, t)
 PROVE  /\ OnlyLocks(t) /\ Holds(t, n)'
        /\ \A m : Holds(t, m) => Holds(t, m)'
        /\ \A m \in Nodes : m # n => tree'[m] = tree[m]
<1>1. tree' = [tree EXCEPT ![n].lock = {t}] BY DEF Lock
<1>2. DOMAIN tree' = Nodes /\ DOMAIN tree = Nodes BY <1>1 DEF Nodes
<1>3. tree' \in [Nodes -> NodeRecords] BY <1>1 DEF TreeShape, NodeRecords
<1>4. tree[n] \in NodeRecords /\ tree'[n] = [tree[n] EXCEPT !.lock = {t}] BY <1>1 DEF TreeShape
<1>5. /\ tree'[n].key = tree[n].key /\ tree'[n].value = tree[n].value
      /\ tree'[n].version = tree[n].version /\ tree'[n].parent = tree[n].parent
      /\ tree'[n].left = tree[n].left /\ tree'[n].right = tree[n].right
      /\ tree'[n].lock = {t}
 BY <1>4 DEF NodeRecords
<1>6. \A m \in Nodes : m # n => tree'[m] = tree[m] BY <1>1, <1>2
<1>7. tree[n].lock = {} BY DEF Free
<1>8. \A m \in Nodes : \A u, v \in tree[m].lock : u = v BY DEF TreeShape
<1> QED BY <1>2, <1>3, <1>5, <1>6, <1>7, <1>8 DEF OnlyLocks, Holds, Nodes

LEMMA Unlocks ==
 ASSUME TreeShape, NEW t \in Threads, NEW S, tree' = Unlock(tree, S, t)
 PROVE  /\ OnlyLocks(t)
        /\ \A m : Holds(t, m) /\ m \notin S => Holds(t, m)'
        /\ \A m \in Nodes : m \in S => t \notin tree'[m].lock
        /\ \A m \in Nodes : tree'[m].height = tree[m].height
<1>1. tree' = [n \in Nodes |-> IF n \in S THEN [tree[n] EXCEPT !.lock = @ \ {t}] ELSE tree[n]]
 BY DEF Unlock, Nodes
<1>2. DOMAIN tree' = Nodes BY <1>1
<1>3. ASSUME NEW n \in Nodes
      PROVE  /\ tree'[n] \in NodeRecords
             /\ tree'[n].key = tree[n].key /\ tree'[n].value = tree[n].value
             /\ tree'[n].height = tree[n].height
             /\ tree'[n].version = tree[n].version /\ tree'[n].parent = tree[n].parent
             /\ tree'[n].left = tree[n].left /\ tree'[n].right = tree[n].right
             /\ tree'[n].lock = IF n \in S THEN tree[n].lock \ {t} ELSE tree[n].lock
 <2>1. tree[n] \in NodeRecords BY DEF TreeShape
 <2>2. tree'[n] = IF n \in S THEN [tree[n] EXCEPT !.lock = @ \ {t}] ELSE tree[n] BY <1>1
 <2> QED BY <2>1, <2>2 DEF NodeRecords
<1>4. tree' \in [Nodes -> NodeRecords] BY <1>1, <1>2, <1>3
<1>5. \A n \in Nodes : \A u, v \in tree'[n].lock : u = v
 <2>1. \A n \in Nodes : \A u, v \in tree[n].lock : u = v BY DEF TreeShape
 <2>2. \A n \in Nodes : tree'[n].lock \subseteq tree[n].lock BY <1>3
 <2> QED BY <2>1, <2>2
<1>6. \A n \in Nodes : \A u \in Threads \ {t} : u \in tree[n].lock <=> u \in tree'[n].lock BY <1>3
<1>7. OnlyLocks(t)
 <2>1. \A n \in Nodes :
         /\ tree'[n].key = tree[n].key /\ tree'[n].value = tree[n].value
         /\ tree'[n].version = tree[n].version /\ tree'[n].parent = tree[n].parent
         /\ tree'[n].left = tree[n].left /\ tree'[n].right = tree[n].right
  BY <1>3
 <2> QED BY <2>1, <1>2, <1>4, <1>5, <1>6, Zenon DEF OnlyLocks
<1>8. \A m : Holds(t, m) /\ m \notin S => Holds(t, m)' BY <1>2, <1>3 DEF Holds, Nodes
<1> QED BY <1>3, <1>7, <1>8

LEMMA UnlocksAll ==
 ASSUME TreeShape, NEW t \in Threads, tree' = UnlockAll(tree, t)
 PROVE  OnlyLocks(t) /\ \A m \in Nodes : t \notin tree'[m].lock
 BY Unlocks DEF UnlockAll, Nodes

LEMMA SetsHeight ==
 ASSUME TreeShape, NEW t \in Threads, NEW n \in Nodes, NEW h \in Nat \ {0},
        tree' = [tree EXCEPT ![n].height = h]
 PROVE  OnlyLocks(t) /\ \A m : Holds(t, m) => Holds(t, m)'
<1>1. DOMAIN tree' = Nodes /\ DOMAIN tree = Nodes BY DEF Nodes
<1>2. tree' \in [Nodes -> NodeRecords] BY DEF TreeShape, NodeRecords
<1>3. tree[n] \in NodeRecords /\ tree'[n] = [tree[n] EXCEPT !.height = h] BY DEF TreeShape
<1>4. /\ tree'[n].key = tree[n].key /\ tree'[n].value = tree[n].value
      /\ tree'[n].version = tree[n].version /\ tree'[n].parent = tree[n].parent
      /\ tree'[n].left = tree[n].left /\ tree'[n].right = tree[n].right
      /\ tree'[n].lock = tree[n].lock
 BY <1>3 DEF NodeRecords
<1>5. \A m \in Nodes : m # n => tree'[m] = tree[m] BY <1>1
<1>6. \A m \in Nodes : \A u, v \in tree[m].lock : u = v BY DEF TreeShape
<1> QED BY <1>1, <1>2, <1>4, <1>5, <1>6 DEF OnlyLocks, Holds, Nodes

LEMMA LocksKeep ==
 ASSUME TreeShape, NEW t \in Threads, OnlyLocks(t)
 PROVE  TreeShape' /\ Nodes' = Nodes /\ \A u \in Threads \ {t} : Keeps(u)
<1>1. Nodes' = Nodes BY DEF OnlyLocks, Nodes
<1>2. NodeRecords' = NodeRecords BY <1>1 DEF NodeRecords, Maybe
<1>3. TreeShape'
 <2>1. IsFiniteSet(Nodes') /\ rootHolder \in Nodes' /\ tree' \in [Nodes' -> NodeRecords']
  BY <1>1, <1>2 DEF TreeShape, OnlyLocks
 <2>2. tree'[rootHolder].version = 0 BY DEF TreeShape, OnlyLocks
 <2>3. ASSUME NEW n \in Nodes
       PROVE  /\ tree'[n].key = n[1]
              /\ n # NoNode
              /\ n # rootHolder => tree'[n].parent # NoNode
              /\ \A u, v \in tree'[n].lock : u = v
  BY DEF TreeShape, OnlyLocks
 <2> QED BY <1>1, <2>1, <2>2, <2>3 DEF TreeShape, rootHolder
<1> QED BY <1>1, <1>3 DEF Keeps, OnlyLocks

LEMMA LocksReach ==
 ASSUME NEW t \in Threads, OnlyLocks(t), \A u \in Threads : stores'[u] = stores[u],
        NEW F, FinalLinks(F)
 PROVE  FinalLinks(F)'
<1>1. Nodes' = Nodes /\ LinkRecords' = LinkRecords BY DEF OnlyLocks, Nodes, LinkRecords, Maybe
<1>2. \A n, field : SomePending(n, field)' <=> SomePending(n, field) BY DEF SomePending, Pending
<1>3. \A n \in Nodes : \A field \in Links : tree'[n][field] = tree[n][field] BY DEF OnlyLocks, Links
<1>4. \A n \in Nodes : tree'[n].version = tree[n].version /\ tree'[n].value = tree[n].value
 BY DEF OnlyLocks
<1>5. \A w : Foresees(F, w)' <=> Foresees(F, w) BY DEF Foresees
<1>6. Agree(F)' BY DEF FinalLinks, Agree, IsChild, rootHolder
<1>7. Reaches(F)' BY <1>1, <1>2, <1>3, <1>4, <1>5 DEF Reaches, FinalLinks
<1> QED BY <1>6, <1>7 DEF FinalLinks

(* A step that changes locks, heights and locals. *)
LEMMA QuietStep ==
 ASSUME AVLInv, NEW t \in Threads, MovesOnly(t), OnlyLocks(t), stores'[t] = stores[t], ThreadInv(t)'
 PROVE  AVLInv'
<1>1. TreeShape' /\ \A u \in Threads \ {t} : Keeps(u) BY LocksKeep DEF AVLInv
<1>2. \A u \in Threads : stores'[u] = stores[u] BY DEF MovesOnly, SameFor
<1>3. PICK F : FinalLinks(F) BY DEF AVLInv
<1>4. FinalLinks(F)' BY <1>2, <1>3, LocksReach
<1>5. \A u \in Threads \ {t} : ThreadInv(u)' BY <1>1, OthersStay DEF AVLInv, MovesOnly
<1> QED BY <1>1, <1>4, <1>5 DEF AVLInv, MovesOnly

(* The final links change where t has locks and stores to come. *)
Redirects(t, F, G) ==
    /\ G \in [Nodes -> LinkRecords]
    /\ \A w \in Range(stores'[t]) : Foresees(G, w)
    /\ \A n \in Nodes : \A side \in Sides :
          \/ G[n][side] = F[n][side] /\ tree'[n][side] = tree[n][side]
          \/ t \in tree'[n].lock /\ (tree'[n][side] = G[n][side] \/ Pending(t, n, side)')
    /\ \A n \in Nodes :
          \/ G[n].parent = F[n].parent
          \/ (\E m \in Nodes : m = tree[n].parent /\ t \in tree'[m].lock) /\ Pending(t, n, "parent")'
    /\ \A n \in Nodes :
          \/ G[n].gone = F[n].gone
          \/ G[n].gone /\ t \in tree'[n].lock /\ Pending(t, n, "version")' /\ Pending(t, n, "value")'
    /\ \A n \in Nodes : /\ tree'[n].parent = tree[n].parent /\ tree'[n].version = tree[n].version
                        /\ tree'[n].value = tree[n].value

LEMMA RedirectReaches ==
 ASSUME AVLInv, NEW t \in Threads, MovesOnly(t), stores[t] = <<>>, DOMAIN tree' = Nodes,
        TreeShape', \A u \in Threads \ {t} : Keeps(u),
        NEW F, Reaches(F), NEW G, Redirects(t, F, G)
 PROVE  Reaches(G)'
<1>1. Nodes' = Nodes /\ LinkRecords' = LinkRecords BY DEF Nodes, LinkRecords, Maybe
<1>2. \A u \in Threads \ {t} : stores'[u] = stores[u] BY DEF MovesOnly, SameFor
<1>3. \A u \in Threads \ {t} : \A n, field : Pending(u, n, field)' <=> Pending(u, n, field)
 BY <1>2 DEF Pending
<1>4. \A n, field : ~Pending(t, n, field) BY RangeOfEmpty DEF Pending
<1>5. ASSUME NEW n, NEW field, SomePending(n, field) PROVE SomePending(n, field)'
 BY <1>3, <1>4, <1>5 DEF SomePending
<1>6. ASSUME NEW u \in Threads \ {t}, NEW n, NEW field, Pending(u, n, field), field # "parent"
      PROVE  n \in Nodes /\ t \notin tree'[n].lock
 <2>1. StoresAreLocked(u) BY DEF AVLInv, ThreadInv
 <2>2. Holds(u, n) BY <1>6, <2>1, PendingIsLocked
 <2>3. n \in Nodes /\ u \in tree'[n].lock BY <2>2 DEF Holds, Keeps
 <2>4. \A v, w \in tree'[n].lock : v = w BY <2>3, <1>1 DEF TreeShape
 <2> QED BY <2>3, <2>4
<1>7. ASSUME NEW u \in Threads \ {t}, NEW n, Pending(u, n, "parent")
      PROVE  ~(\E m \in Nodes : m = tree[n].parent /\ t \in tree'[m].lock)
 <2>1. StoresAreLocked(u) BY DEF AVLInv, ThreadInv
 <2>2. Holds(u, tree[n].parent) BY <1>7, <2>1, PendingIsLocked
 <2>3. PICK m : m = tree[n].parent OBVIOUS
 <2>4. m \in Nodes /\ u \in tree'[m].lock BY <2>2, <2>3 DEF Holds, Keeps
 <2>5. \A v, w \in tree'[m].lock : v = w BY <2>4, <1>1 DEF TreeShape
 <2> QED BY <2>3, <2>4, <2>5
<1>8. ASSUME NEW u \in Threads, NEW w \in Range(stores'[u]) PROVE Foresees(G, w)
 <2>1. CASE u = t BY <2>1, <1>8 DEF Redirects
 <2>2. CASE u # t
  <3>1. w \in Range(stores[u]) /\ Foresees(F, w) BY <2>2, <1>2, <1>8 DEF Reaches
  <3>2. w \in Writes BY <3>1, RangeInSet DEF AVLInv, ThreadInv, StoresAreLocked
  <3>3. w.node \in Nodes /\ Pending(u, w.node, w.field) BY <3>1, <3>2 DEF Writes, Pending
  <3>4. PICK n, field : n = w.node /\ field = w.field OBVIOUS
  <3>5. field # "parent" => t \notin tree'[n].lock BY <2>2, <3>3, <3>4, <1>6
  <3>6. field = "parent" => ~(\E m \in Nodes : m = tree[n].parent /\ t \in tree'[m].lock)
   BY <2>2, <3>3, <3>4, <1>7
  <3>7. field \in Links => G[n][field] = F[n][field]
   BY <3>3, <3>4, <3>5, <3>6 DEF Redirects, Links, Sides
  <3>8. field = "version" => G[n].gone = F[n].gone BY <3>3, <3>4, <3>5 DEF Redirects
  <3> QED BY <3>1, <3>4, <3>7, <3>8 DEF Foresees
 <2> QED BY <2>1, <2>2
<1>9. ASSUME NEW n \in Nodes, NEW field \in Links
      PROVE  tree'[n][field] = G[n][field] \/ SomePending(n, field)'
 <2>1. tree[n][field] = F[n][field] \/ SomePending(n, field) BY DEF Reaches
 <2>2. Pending(t, n, field)' => SomePending(n, field)' BY DEF SomePending
 <2>3. CASE field # "parent" BY <2>1, <2>2, <2>3, <1>5 DEF Redirects, Links, Sides
 <2>4. CASE field = "parent" BY <2>1, <2>2, <2>4, <1>5 DEF Redirects
 <2> QED BY <2>3, <2>4
<1>10. ASSUME NEW n \in Nodes
       PROVE  /\ (isUnlinked(tree'[n].version) <=> G[n].gone) \/ SomePending(n, "version")'
              /\ G[n].gone => ~tree'[n].value \/ SomePending(n, "value")'
 <2>1. /\ (isUnlinked(tree[n].version) <=> F[n].gone) \/ SomePending(n, "version")
       /\ F[n].gone => ~tree[n].value \/ SomePending(n, "value")
  BY DEF Reaches
 <2>2. tree'[n].version = tree[n].version /\ tree'[n].value = tree[n].value BY DEF Redirects
 <2>3. CASE G[n].gone = F[n].gone BY <2>1, <2>2, <2>3, <1>5
 <2>4. CASE G[n].gone # F[n].gone BY <2>4 DEF Redirects, SomePending
 <2> QED BY <2>3, <2>4
<1>11. G \in [Nodes' -> LinkRecords'] BY <1>1 DEF Redirects
<1>12. \A w : Foresees(G, w)' <=> Foresees(G, w) BY DEF Foresees
<1> QED
 <2>1. \A n \in Nodes' : \A field \in Links :
          tree'[n][field] = G[n][field] \/ SomePending(n, field)'
  BY <1>1, <1>9
 <2>2. \A n \in Nodes' :
          /\ (isUnlinked(tree'[n].version) <=> G[n].gone) \/ SomePending(n, "version")'
          /\ G[n].gone => ~tree'[n].value \/ SomePending(n, "value")'
  BY <1>1, <1>10
 <2>3. \A u \in Threads : \A w \in Range(stores'[u]) : Foresees(G, w)' BY <1>8, <1>12
 <2> QED BY <1>11, <2>1, <2>2, <2>3 DEF Reaches

LEMMA AgreeIsConstant ==
 ASSUME NEW F, Agree(F)
 PROVE  Agree(F)'
 BY DEF Agree, IsChild, rootHolder

LEMMA RedirectStep ==
 ASSUME AVLInv, NEW t \in Threads, MovesOnly(t), stores[t] = <<>>, OnlyLocks(t),
        ThreadInv(t)', NEW F, Reaches(F), NEW G, Redirects(t, F, G), Agree(G)
 PROVE  AVLInv'
<1>1. TreeShape' /\ \A u \in Threads \ {t} : Keeps(u) BY LocksKeep DEF AVLInv
<1>2. DOMAIN tree' = Nodes BY DEF OnlyLocks
<1>3. Reaches(G)' /\ Agree(G)' BY <1>1, <1>2, RedirectReaches, AgreeIsConstant
<1>4. \A u \in Threads \ {t} : ThreadInv(u)' BY <1>1, OthersStay DEF AVLInv, MovesOnly
<1> QED BY <1>1, <1>3, <1>4 DEF AVLInv, MovesOnly, FinalLinks

-----------------------------------------------------------------------------
(* The stores of rotations and unlinks. *)
Fields == {"key", "value", "height", "version", "parent", "left", "right", "lock"}

LEMMA StoreWrites ==
 ASSUME TreeShape, NEW w \in Writes, tree' = [tree EXCEPT ![w.node][w.field] = w.value]
 PROVE  /\ DOMAIN tree' = Nodes /\ tree' \in [Nodes -> NodeRecords] /\ w.node \in Nodes
        /\ \A m \in Nodes : \A f \in Fields :
             tree'[m][f] = IF m = w.node /\ f = w.field THEN w.value ELSE tree[m][f]
<1>1. DOMAIN tree' = Nodes /\ w.node \in Nodes /\ w.field \in Fields BY DEF Nodes, Writes, Fields
<1>2. tree \in [Nodes -> NodeRecords] BY DEF TreeShape
<1>3. PICK r : r = tree[w.node] OBVIOUS
<1>4. r \in NodeRecords BY <1>1, <1>2, <1>3
<1>5. tree'[w.node] = [r EXCEPT ![w.field] = w.value] /\ \A m \in Nodes : m # w.node => tree'[m] = tree[m]
 BY <1>1, <1>2, <1>3
<1>6. PICK n, field, v : n = w.node /\ field = w.field /\ v = w.value OBVIOUS
<1>7. PICK q : q = [r EXCEPT ![field] = v] OBVIOUS
<1>8. DOMAIN r = Fields BY <1>4 DEF NodeRecords, Fields
<1>9. \A f \in Fields : q[f] = IF f = field THEN v ELSE r[f] BY <1>7, <1>8
<1>10. q \in NodeRecords
 <2>1. \/ field \in {"left", "right"} /\ v \in Maybe
       \/ field = "parent" /\ v \in Nodes
       \/ field = "version" /\ v \in Nat
       \/ field = "value" /\ v = FALSE
       \/ field = "height" /\ v \in Nat \ {0}
  BY <1>6 DEF Writes
 <2>2. v \in Nodes => v \in Maybe BY DEF Maybe
 <2> QED BY <2>1, <2>2, <1>4, <1>7 DEF NodeRecords
<1>11. tree'[n] = q BY <1>5, <1>6, <1>7
<1>12. tree' \in [Nodes -> NodeRecords] BY <1>2, <1>5, <1>6, <1>10, <1>11, <1>1
<1>13. ASSUME NEW m \in Nodes, NEW f \in Fields
       PROVE  tree'[m][f] = IF m = n /\ f = field THEN v ELSE tree[m][f]
 <2>1. CASE m = n BY <2>1, <1>3, <1>6, <1>9, <1>11
 <2>2. CASE m # n BY <2>2, <1>5, <1>6
 <2> QED BY <2>1, <2>2
<1> QED BY <1>1, <1>6, <1>12, <1>13

LEMMA StoreStep ==
 ASSUME AVLInv, NEW t \in Threads, Store(t)
 PROVE  AVLInv'
<1>1. PICK w : w = Head(stores[t]) OBVIOUS
<1>2. /\ pc[t] = "store" /\ stores[t] # <<>> /\ tree' = [tree EXCEPT ![w.node][w.field] = w.value]
      /\ stores' = [stores EXCEPT ![t] = Tail(@)]
      /\ UNCHANGED <<pc, path, here, cond, fix, after, call>>
 BY <1>1 DEF Store, history
<1>3. TreeShape /\ Variables /\ ThreadInv(t) BY DEF AVLInv
<1>4. stores'[t] = Tail(stores[t]) /\ \A u \in Threads \ {t} : SameFor(u)
 BY <1>2, <1>3 DEF SameFor, Variables
<1>5. w \in Writes /\ stores'[t] \in Seq(Writes) /\ Range(stores[t]) = {w} \cup Range(stores'[t])
 BY <1>1, <1>2, <1>3, <1>4, RangeOfTail DEF ThreadInv, StoresAreLocked
<1>6. Entitled(t, w) BY <1>3, <1>5 DEF ThreadInv, StoresAreLocked
<1>7. /\ DOMAIN tree' = Nodes /\ tree' \in [Nodes -> NodeRecords] /\ w.node \in Nodes
      /\ \A m \in Nodes : \A f \in Fields :
           tree'[m][f] = IF m = w.node /\ f = w.field THEN w.value ELSE tree[m][f]
 BY <1>2, <1>3, <1>5, StoreWrites
<1>8. PICK n, field, v : n = w.node /\ field = w.field /\ v = w.value OBVIOUS
<1>9. \A m \in Nodes : \A f \in Fields : tree'[m][f] = IF m = n /\ f = field THEN v ELSE tree[m][f]
 BY <1>7, <1>8
<1>10. n \in Nodes /\ field \notin {"key", "lock"} /\ (field \in {"version", "parent"} => n # rootHolder)
       /\ (field = "parent" => v \in Nodes) /\ (field = "value" => v = FALSE)
 BY <1>5, <1>8 DEF Writes
<1>11. \A m \in Nodes : tree'[m].key = tree[m].key /\ tree'[m].lock = tree[m].lock
 BY <1>9, <1>10 DEF Fields
<1>12. \A m : (m # n \/ field # "version") /\ m \in Nodes => tree'[m].version = tree[m].version
 BY <1>9 DEF Fields
<1>13. \A m : (m # n \/ field # "parent") /\ m \in Nodes => tree'[m].parent = tree[m].parent
 BY <1>9 DEF Fields
<1>14. Nodes' = Nodes /\ NodeRecords' = NodeRecords /\ Writes' = Writes /\ Maybe' = Maybe /\ LinkRecords' = LinkRecords
 <2>1. Nodes' = Nodes BY <1>7 DEF Nodes
 <2>2. Maybe' = Maybe BY <2>1 DEF Maybe
 <2> QED BY <2>1, <2>2 DEF NodeRecords, Writes, LinkRecords, rootHolder
<1>15. TreeShape'
 <2>1. tree'[rootHolder].version = 0 BY <1>3, <1>10, <1>12 DEF TreeShape
 <2>2. ASSUME NEW m \in Nodes
       PROVE  /\ tree'[m].key = m[1] /\ m # NoNode
              /\ m # rootHolder => tree'[m].parent # NoNode
              /\ \A u1, u2 \in tree'[m].lock : u1 = u2
  <3>1. tree[m].key = m[1] /\ m # NoNode
        /\ (m # rootHolder => tree[m].parent # NoNode)
        /\ \A u1, u2 \in tree[m].lock : u1 = u2
   BY <1>3 DEF TreeShape
  <3>2. tree'[m].parent = IF m = n /\ "parent" = field THEN v ELSE tree[m].parent BY <1>9 DEF Fields
  <3>3. v \in Nodes => v # NoNode BY <1>3 DEF TreeShape
  <3> QED BY <3>1, <3>2, <3>3, <1>10, <1>11
 <2> QED BY <1>3, <1>7, <1>14, <2>1, <2>2 DEF TreeShape, rootHolder
<1>16. PICK F : FinalLinks(F) BY DEF AVLInv
<1>17. Foresees(F, w) BY <1>5, <1>16 DEF FinalLinks, Reaches
<1>18. FinalLinks(F)'
 <2>1. ASSUME NEW m, NEW f, SomePending(m, f), ~(m = n /\ f = field)
       PROVE  SomePending(m, f)'
  <3>1. PICK u \in Threads : Pending(u, m, f) BY <2>1 DEF SomePending
  <3>2. Pending(u, m, f)'
   <4>1. CASE u # t BY <3>1, <4>1, <1>4 DEF Pending, SameFor
   <4>2. CASE u = t BY <3>1, <4>2, <1>5, <1>8, <2>1 DEF Pending
   <4> QED BY <4>1, <4>2
  <3> QED BY <3>2 DEF SomePending
 <2>2. ASSUME NEW u \in Threads, NEW x \in Range(stores'[u]) PROVE Foresees(F, x)'
  <3>1. x \in Range(stores[u]) BY <2>2, <1>4, <1>5 DEF SameFor
  <3> QED BY <3>1, <1>16 DEF FinalLinks, Reaches, Foresees
 <2>3. ASSUME NEW m \in Nodes, NEW f \in Links
       PROVE  tree'[m][f] = F[m][f] \/ SomePending(m, f)'
  <3>1. f \in Fields BY DEF Links, Fields
  <3>2. CASE m = n /\ f = field BY <3>1, <3>2, <1>8, <1>9, <1>17 DEF Foresees
  <3>3. CASE ~(m = n /\ f = field)
   <4>1. tree'[m][f] = tree[m][f] BY <3>1, <3>3, <1>9
   <4>2. tree[m][f] = F[m][f] \/ SomePending(m, f) BY <1>16 DEF FinalLinks, Reaches
   <4> QED BY <4>1, <4>2, <3>3, <2>1
  <3> QED BY <3>2, <3>3
 <2>4. ASSUME NEW m \in Nodes
       PROVE  (isUnlinked(tree'[m].version) <=> F[m].gone) \/ SomePending(m, "version")'
  <3>1. CASE m = n /\ field = "version"
   <4>1. tree'[m].version = v BY <3>1, <1>9 DEF Fields
   <4> QED BY <3>1, <4>1, <1>8, <1>17 DEF Foresees
  <3>2. CASE ~(m = n /\ field = "version")
   <4>1. tree'[m].version = tree[m].version BY <3>2, <1>12
   <4> QED BY <4>1, <3>2, <2>1, <1>16 DEF FinalLinks, Reaches
  <3> QED BY <3>1, <3>2
 <2>5. ASSUME NEW m \in Nodes, F[m].gone
       PROVE  ~tree'[m].value \/ SomePending(m, "value")'
  <3>1. tree'[m].value = IF m = n /\ "value" = field THEN v ELSE tree[m].value BY <1>9 DEF Fields
  <3>2. CASE m = n /\ field = "value" BY <3>1, <3>2, <1>10
  <3>3. CASE ~(m = n /\ field = "value") BY <2>5, <3>1, <3>3, <2>1, <1>16 DEF FinalLinks, Reaches
  <3> QED BY <3>2, <3>3
 <2>6. Agree(F)' BY <1>16, AgreeIsConstant DEF FinalLinks
 <2>7. F \in [Nodes -> LinkRecords] BY <1>16 DEF FinalLinks, Reaches
 <2> QED BY <1>14, <2>2, <2>3, <2>4, <2>5, <2>6, <2>7 DEF FinalLinks, Reaches
<1>19. \A u : \A m : Holds(u, m)' <=> Holds(u, m) BY <1>11, <1>14 DEF Holds
<1>20. ASSUME NEW u \in Threads \ {t} PROVE ThreadInv(u)'
 <2>1. \A m \in Nodes : \A u1, u2 \in tree[m].lock : u1 = u2 BY <1>3 DEF TreeShape
 <2>2. ASSUME NEW m \in Nodes, u \in tree[m].lock
       PROVE  /\ u \in tree'[m].lock
              /\ tree'[m].left = tree[m].left /\ tree'[m].right = tree[m].right
              /\ tree'[m].version = tree[m].version /\ tree'[m].value = tree[m].value
  <3>1. m = n => field \in {"parent"} BY <2>1, <2>2, <1>6, <1>8 DEF Entitled, Holds
  <3> QED BY <2>2, <3>1, <1>9, <1>11 DEF Fields
 <2>3. ASSUME NEW m \in Nodes, Holds(u, tree[m].parent)
       PROVE  tree'[m].parent = tree[m].parent
  <3>1. ~(m = n /\ field = "parent") BY <2>1, <2>3, <1>6, <1>8 DEF Entitled, Holds
  <3> QED BY <3>1, <1>13
 <2>4. Keeps(u) BY <1>7, <2>2, <2>3 DEF Keeps
 <2> QED BY <2>4, <1>3, <1>4, OthersStay DEF AVLInv
<1>21. ThreadInv(t)'
 <2>1. StoresAreLocked(t)'
  <3>1. ASSUME NEW x \in Range(stores'[t]) PROVE Entitled(t, x)'
   <4>1. Entitled(t, x) /\ x \in Writes
    BY <1>3, <1>5, <3>1, RangeInSet DEF ThreadInv, StoresAreLocked
   <4>2. CASE x.field # "parent" BY <4>1, <4>2, <1>19 DEF Entitled
   <4>3. CASE x.field = "parent"
    <5>1. Holds(t, tree[x.node].parent) /\ Holds(t, x.value) /\ x.node \in Nodes
     BY <4>1, <4>3 DEF Entitled, Writes
    <5>2. PICK y : y = x.node OBVIOUS
    <5>3. tree'[y].parent = IF y = n /\ "parent" = field THEN v ELSE tree[y].parent
     BY <5>1, <5>2, <1>9 DEF Fields
    <5>4. field = "parent" => Holds(t, v) BY <1>6, <1>8 DEF Entitled
    <5>5. PICK z : z = tree'[y].parent OBVIOUS
    <5>6. Holds(t, z) BY <5>1, <5>2, <5>3, <5>4, <5>5
    <5>7. Holds(t, z)' /\ Holds(t, x.value)' BY <5>1, <5>6, <1>19
    <5> QED BY <5>2, <5>5, <5>7, <4>3 DEF Entitled, Holds, Nodes
   <4> QED BY <4>2, <4>3
  <3> QED BY <3>1, <1>5, <1>14 DEF StoresAreLocked
 <2>2. PathInv(t)' BY <1>2, <1>3, <1>14 DEF ThreadInv, PathInv, Searching, AtKey, AtChild
 <2>3. CondInv(t)' BY <1>2, <1>3, <1>14 DEF ThreadInv, CondInv, Goals, ReadAll, Routing
 <2>4. FixInv(t)'
  <3>1. ASSUME after[t].then = "far"
        PROVE  HoldsInner(t)' /\ fix[t].inner \notin {fix[t].n, fix[t].p, fix[t].child} /\ Holds(t, fix[t].inner)'
   <4>1. PICK f : f = fix[t] /\ fix'[t] = f BY <1>2
   <4>2. field = "version" /\ ~isUnlinked(v) BY <3>1, <1>2, <1>3, <1>5, <1>8 DEF ThreadInv, StoreInv
   <4>3. HoldsInner(t) /\ f.inner \notin {f.n, f.p, f.child} /\ Holds(t, f.inner)
    BY <3>1, <4>1, <1>2, <1>3 DEF ThreadInv, FixInv
   <4>4. /\ f.n \notin {f.p, rootHolder} /\ Holds(t, f.p) /\ Holds(t, f.n)
         /\ ~isUnlinked(tree[f.p].version) /\ tree[f.n].parent = f.p
         /\ ~isUnlinked(tree[f.n].version)
         /\ f.child # NoNode /\ tree[f.n][Opposite(f.side)] = f.child
         /\ f.side \in Sides
         /\ Holds(t, f.child) /\ f.child \notin {f.n, f.p} /\ tree[f.child][f.side] = f.inner
    BY <4>1, <4>3, <1>3, FixTyped DEF HoldsInner, HoldsChild, HoldsPair, ThreadInv
   <4>5. f.p \in Nodes /\ f.n \in Nodes /\ f.child \in Nodes BY <4>4 DEF Holds
   <4>6. ~isUnlinked(tree'[f.p].version) /\ ~isUnlinked(tree'[f.n].version)
    <5>1. \A m \in Nodes : tree'[m].version = IF m = n THEN v ELSE tree[m].version
     BY <4>2, <1>9 DEF Fields
    <5> QED BY <5>1, <4>2, <4>4, <4>5
   <4>7. /\ tree'[f.n].parent = f.p /\ tree'[f.n][Opposite(f.side)] = f.child
         /\ tree'[f.child][f.side] = f.inner
    <5>1. \A m \in Nodes : \A d \in {"left", "right", "parent"} : tree'[m][d] = tree[m][d]
     BY <4>2, <1>9 DEF Fields
    <5> QED BY <5>1, <4>4, <4>5 DEF Sides, Opposite
   <4>8. Holds(t, f.p)' /\ Holds(t, f.n)' /\ Holds(t, f.child)' /\ Holds(t, f.inner)'
    BY <4>3, <4>4, <1>19
   <4>9. HoldsPair(t)' BY <4>1, <4>4, <4>6, <4>7, <4>8 DEF HoldsPair, Holds, Nodes, rootHolder
   <4>10. HoldsInner(t)'
    BY <4>1, <4>4, <4>6, <4>7, <4>8, <4>9 DEF HoldsInner, HoldsChild, Holds, Nodes
   <4> QED BY <4>1, <4>3, <4>8, <4>10 DEF Holds, Nodes
  <3>2. PICK m : m = fix[t].inner OBVIOUS
  <3>3. m = fix'[t].inner /\ fix'[t] = fix[t] /\ pc'[t] = pc[t] /\ cond'[t] = cond[t] /\ after'[t] = after[t]
   BY <1>2, <3>2
  <3>4. after[t].then = "far" => HoldsInner(t)' /\ m \notin {fix[t].n, fix[t].p, fix[t].child} /\ Holds(t, m)'
   BY <3>1, <3>2, <3>3, <1>2 DEF Holds, Nodes
  <3>5. fix[t] \in FixRecords /\ FixRecords' = FixRecords
   BY <1>3, <1>14, FixTyped DEF ThreadInv, FixRecords, Maybe
  <3> QED BY <3>3, <3>4, <3>5, <1>2, <1>3, <1>14 DEF ThreadInv, FixInv, Doing, Heights, Holds, Nodes
 <2>5. StoreInv(t)' /\ IdleInv(t)' BY <1>2, <1>3, <1>5, <1>14 DEF ThreadInv, StoreInv, IdleInv
 <2> QED BY <2>1, <2>2, <2>3, <2>4, <2>5 DEF ThreadInv
<1>22. Variables'
 <2>1. UNCHANGED <<pc, path, here, cond, fix, after, todo, callsLeft, set, call, answers, result>>
  BY DEF Store, history, bounds
 <2> QED BY <2>1, <1>2, <1>3 DEF Variables, Abstract!SetTypeOK, Abstract!SetCalls, Abstract!NoCall, Abstract!Results
<1> QED BY <1>15, <1>18, <1>20, <1>21, <1>22 DEF AVLInv

-----------------------------------------------------------------------------
(* A call returns. *)
LEMMA IdleThread ==
 ASSUME NEW u \in Threads, pc'[u] = "idle", path'[u] = <<>>, here'[u] = NoPlace,
        cond'[u] = NoCond, fix'[u] = NoFix, stores'[u] = <<>>, after'[u] = NoPlan,
        call'[u] = NoCall
 PROVE  ThreadInv(u)'
<1>1. StoresAreLocked(u)' BY RangeOfEmpty DEF StoresAreLocked
<1>2. PathInv(u)' BY DEF PathInv, NoPlace, Maybe, Searching, AtKey, AtChild
<1>3. CondInv(u)' BY DEF CondInv, NoCond, Maybe, Goals, ReadAll, Routing
<1>4. FixInv(u)'
 <2>1. fix'[u] \in FixRecords' BY DEF NoFix, FixRecords, Maybe, Sides
 <2> QED BY <2>1 DEF FixInv, Doing, Heights
<1>5. StoreInv(u)' /\ IdleInv(u)' BY DEF StoreInv, IdleInv
<1> QED BY <1>1, <1>2, <1>3, <1>4, <1>5 DEF ThreadInv

LEMMA ForgetReaches ==
 ASSUME TreeShape, NEW t \in Threads, \A u \in Threads : stores[u] = <<>> /\ stores'[u] = <<>>,
        NEW F, FinalLinks(F), tree' = Forget(UnlockAll(tree, t))
 PROVE  TreeShape' /\ \E G : FinalLinks(G)'
<1>1. PICK L : L = {m \in Nodes : ~isUnlinked(tree[m].version)} OBVIOUS
<1>2. PICK T : T = UnlockAll(tree, t) OBVIOUS
<1>3. DOMAIN T = Nodes /\ \A n \in Nodes : T[n] = [tree[n] EXCEPT !.lock = @ \ {t}]
 BY <1>2 DEF UnlockAll, Unlock, Nodes
<1>4. \A n \in Nodes : tree[n] \in NodeRecords BY DEF TreeShape
<1>5. ASSUME NEW n \in Nodes
      PROVE  T[n] \in NodeRecords /\ T[n].version = tree[n].version
             /\ [T[n] EXCEPT !.version = 0] =
                [key |-> tree[n].key, value |-> tree[n].value, height |-> tree[n].height, version |-> 0,
                 parent |-> tree[n].parent, left |-> tree[n].left, right |-> tree[n].right,
                 lock |-> tree[n].lock \ {t}]
 <2>1. PICK x, y : x = tree[n] /\ y = T[n] OBVIOUS
 <2>2. x \in NodeRecords /\ y = [x EXCEPT !.lock = x.lock \ {t}] BY <2>1, <1>3, <1>4
 <2>3. y = [key |-> x.key, value |-> x.value, height |-> x.height, version |-> x.version,
            parent |-> x.parent, left |-> x.left, right |-> x.right, lock |-> x.lock \ {t}]
  BY <2>2 DEF NodeRecords
 <2>4. y \in NodeRecords BY <2>2, <2>3 DEF NodeRecords
 <2>5. [y EXCEPT !.version = 0] =
               [key |-> x.key, value |-> x.value, height |-> x.height, version |-> 0,
                parent |-> x.parent, left |-> x.left, right |-> x.right, lock |-> x.lock \ {t}]
  <3>1. [y EXCEPT !.version = 0] =
              [key |-> y.key, value |-> y.value, height |-> y.height, version |-> 0,
               parent |-> y.parent, left |-> y.left, right |-> y.right, lock |-> y.lock]
   BY <2>4 DEF NodeRecords
  <3> QED BY <3>1, <2>3
 <2> QED BY <2>1, <2>3, <2>4, <2>5
<1>6. {m \in DOMAIN T : ~isUnlinked(T[m].version)} = L BY <1>1, <1>3, <1>5
<1>7. tree' = [n \in L |-> [key |-> tree[n].key, value |-> tree[n].value, height |-> tree[n].height,
                            version |-> 0, parent |-> tree[n].parent, left |-> tree[n].left,
                            right |-> tree[n].right, lock |-> tree[n].lock \ {t}]]
 BY <1>1, <1>2, <1>5, <1>6 DEF Forget
<1>8. \A n, field : ~SomePending(n, field) BY RangeOfEmpty DEF SomePending, Pending
<1>9. \A n \in Nodes : /\ tree[n].left = F[n].left /\ tree[n].right = F[n].right
                       /\ tree[n].parent = F[n].parent
                       /\ isUnlinked(tree[n].version) <=> F[n].gone
 BY <1>8 DEF FinalLinks, Reaches, Links
<1>10. IsForest(F) /\ DOMAIN F = Nodes /\ Agree(F) BY ForestOfNodes DEF FinalLinks
<1>11. L = {m \in DOMAIN F : ~F[m].gone} BY <1>1, <1>9, <1>10
<1>12. PICK G : G = [x \in L |-> F[x]] OBVIOUS
<1>13. IsForest(G) /\ Agree(G) /\ DOMAIN G = L BY <1>10, <1>11, <1>12, LiveAgree
<1>14. Nodes' = L /\ Maybe' = L \cup {NoNode} BY <1>7 DEF Nodes, Maybe
<1>15. \A n \in L : /\ tree[n].left \in Maybe' /\ tree[n].right \in Maybe' /\ tree[n].parent \in Maybe'
                    /\ F[n].gone = FALSE
 <2>1. \A n \in L : G[n].left \in Maybe' /\ G[n].right \in Maybe' /\ G[n].parent \in Maybe'
  BY <1>13, <1>14 DEF IsForest
 <2>2. \A n \in L : n \in Nodes /\ G[n] = F[n] /\ F[n].gone = FALSE
  BY <1>1, <1>9, <1>10, <1>12 DEF IsForest
 <2> QED BY <2>1, <2>2, <1>9
<1>16. TreeShape'
 <2>1. IsFiniteSet(L) BY <1>1, FS_Subset DEF TreeShape
 <2>2. rootHolder \in L BY <1>13 DEF IsForest
 <2>3. ASSUME NEW n \in L
       PROVE  /\ tree'[n] \in NodeRecords'
              /\ tree'[n].key = n[1] /\ n # NoNode
              /\ n # rootHolder => tree'[n].parent # NoNode
              /\ tree'[n].version = 0
              /\ \A u1, u2 \in tree'[n].lock : u1 = u2
  <3>1. n \in Nodes /\ tree[n] \in NodeRecords BY <1>1, <1>4
  <3>2. /\ tree[n].key = n[1] /\ n # NoNode /\ (n # rootHolder => tree[n].parent # NoNode)
        /\ \A u1, u2 \in tree[n].lock : u1 = u2
   BY <3>1 DEF TreeShape
  <3>3. tree'[n] = [key |-> tree[n].key, value |-> tree[n].value, height |-> tree[n].height,
                    version |-> 0, parent |-> tree[n].parent, left |-> tree[n].left,
                    right |-> tree[n].right, lock |-> tree[n].lock \ {t}]
   BY <1>7
  <3>4. /\ tree[n].key \in Keys \cup {MinKey} /\ tree[n].value \in BOOLEAN /\ tree[n].height \in Nat \ {0}
        /\ tree[n].lock \in SUBSET Threads
   BY <3>1 DEF NodeRecords
  <3>5. tree'[n] \in NodeRecords'
   <4>1. tree[n].lock \ {t} \in SUBSET Threads /\ 0 \in Nat BY <3>4
   <4> QED BY <3>3, <3>4, <4>1, <1>15 DEF NodeRecords
  <3> QED BY <3>2, <3>3, <3>5
 <2>4. tree' \in [L -> NodeRecords'] BY <1>7, <2>3
 <2> QED BY <1>14, <2>1, <2>2, <2>3, <2>4 DEF TreeShape, rootHolder
<1>17. FinalLinks(G)'
 <2>1. G \in [L -> LinkRecords']
  <3>1. LinkRecords' = [left : L \cup {NoNode}, right : L \cup {NoNode}, parent : L \cup {NoNode}, gone : BOOLEAN]
   BY <1>14 DEF LinkRecords
  <3> QED BY <3>1, <1>13 DEF IsForest
 <2>2. \A u \in Threads : \A w \in Range(stores'[u]) : Foresees(G, w)' BY RangeOfEmpty
 <2>3. ASSUME NEW n \in L
       PROVE  /\ tree'[n].left = G[n].left /\ tree'[n].right = G[n].right /\ tree'[n].parent = G[n].parent
              /\ ~isUnlinked(tree'[n].version) /\ ~G[n].gone
  BY <1>1, <1>7, <1>9, <1>12, <1>15, MarksAreUnlinked
 <2>4. Reaches(G)' BY <1>14, <2>1, <2>2, <2>3 DEF Reaches, Links
 <2> QED BY <2>4, <1>13, AgreeIsConstant DEF FinalLinks
<1> QED BY <1>16, <1>17

LEMMA ReturnStep ==
 ASSUME AVLInv, NEW t \in Threads, NEW r \in BOOLEAN, pc[t] # "store", Return(t, r)
 PROVE  AVLInv'
<1>1. TreeShape /\ Variables /\ stores[t] = <<>> BY DEF AVLInv, ThreadInv, StoreInv
<1>2. \A u \in Threads \ {t} : SameFor(u)
 <2>1. /\ pc' = [pc EXCEPT ![t] = "idle"] /\ path' = [path EXCEPT ![t] = <<>>]
       /\ here' = [here EXCEPT ![t] = NoPlace] /\ cond' = [cond EXCEPT ![t] = NoCond]
       /\ fix' = [fix EXCEPT ![t] = NoFix] /\ stores' = [stores EXCEPT ![t] = <<>>]
       /\ after' = [after EXCEPT ![t] = NoPlan] /\ call' = [call EXCEPT ![t] = NoCall]
  BY DEF Return, GoTo
 <2> QED BY <2>1, <1>1 DEF SameFor, Variables, Abstract!SetTypeOK
<1>3. ThreadInv(t)'
 <2>1. /\ pc'[t] = "idle" /\ path'[t] = <<>> /\ here'[t] = NoPlace
       /\ cond'[t] = NoCond /\ fix'[t] = NoFix /\ stores'[t] = <<>> /\ after'[t] = NoPlan
       /\ call'[t] = NoCall
  BY <1>1 DEF Return, GoTo, Variables, Abstract!SetTypeOK
 <2> QED BY <2>1, IdleThread
<1>4. Variables'
 BY <1>1 DEF Return, GoTo, Variables, bounds, Labels, NoCall, Abstract!SetTypeOK, Abstract!SetCalls, Abstract!NoCall, Abstract!Results
<1>5. CASE tree' = UnlockAll(tree, t)
 BY <1>1, <1>2, <1>3, <1>4, <1>5, UnlocksAll, QuietStep DEF MovesOnly, Return
<1>6. CASE tree' = Forget(UnlockAll(tree, t)) /\ \A u \in Threads \ {t} : pc[u] = "idle"
 <2>1. \A u \in Threads \ {t} : IdleInv(u) BY DEF AVLInv, ThreadInv
 <2>2. \A u \in Threads : stores[u] = <<>> /\ stores'[u] = <<>>
  BY <2>1, <1>1, <1>2, <1>6 DEF IdleInv, Return, SameFor, Variables
 <2>3. ASSUME NEW u \in Threads \ {t} PROVE ThreadInv(u)'
  <3>1. /\ pc[u] = "idle" /\ path[u] = <<>> /\ here[u] = NoPlace
        /\ cond[u] = NoCond /\ fix[u] = NoFix /\ stores[u] = <<>> /\ after[u] = NoPlan
        /\ call[u] = NoCall
   BY <2>1, <1>6 DEF IdleInv
  <3>2. SameFor(u) BY <1>2
  <3> QED BY <3>1, <3>2, IdleThread DEF SameFor
 <2>5. PICK F : FinalLinks(F) BY DEF AVLInv
 <2>6. TreeShape' /\ \E G : FinalLinks(G)' BY <1>1, <1>6, <2>2, <2>5, ForgetReaches
 <2> QED BY <1>3, <1>4, <2>3, <2>6 DEF AVLInv
<1> QED BY <1>5, <1>6 DEF Return

-----------------------------------------------------------------------------
(* A step that changes no more than locks, heights and where t is. *)
LEMMA LocalStep ==
 ASSUME AVLInv, NEW t \in Threads, MovesOnly(t), OnlyLocks(t), stores[t] = <<>>,
        stores'[t] = <<>>, after'[t] = NoPlan, call'[t] = call[t],
        pc[t] # "idle", pc'[t] \notin {"idle", "store"}, PathInv(t)', CondInv(t)', FixInv(t)'
 PROVE  AVLInv'
<1>1. StoresAreLocked(t)' BY RangeOfEmpty DEF StoresAreLocked
<1>2. StoreInv(t)' BY DEF StoreInv
<1>3. IdleInv(t)' BY DEF AVLInv, ThreadInv, IdleInv
<1> QED BY <1>1, <1>2, <1>3, QuietStep DEF ThreadInv

LEMMA PathAside ==
 ASSUME NEW t \in Threads, PathInv(t), Nodes' = Nodes, path'[t] = path[t], here'[t] = here[t],
        pc'[t] \notin Searching \cup AtKey \cup {"store"}
 PROVE  PathInv(t)'
<1>1. Maybe' = Maybe BY DEF Maybe
<1> QED BY <1>1 DEF PathInv, Searching, AtKey, AtChild

LEMMA CondAside ==
 ASSUME NEW t \in Threads, CondInv(t), Nodes' = Nodes, cond'[t] = cond[t],
        pc'[t] \notin Goals \cup {"condition", "fixParent"}
 PROVE  CondInv(t)'
<1>1. Maybe' = Maybe BY DEF Maybe
<1> QED BY <1>1 DEF CondInv, Goals

LEMMA FixAside ==
 ASSUME NEW t \in Threads, FixInv(t), Nodes' = Nodes, fix'[t] = fix[t],
        pc'[t] \in Searching \cup AtKey \cup {"fix", "fixHeight", "fixParent"}
        \/ (pc'[t] = "condition" /\ cond'[t].then = "fixHeight")
 PROVE  FixInv(t)'
<1>1. Maybe' = Maybe BY DEF Maybe
<1>2. ~Doing(t, "fixDecide")' /\ ~Doing(t, "rebalance")' BY DEF Doing, Searching, AtKey
<1>3. pc'[t] \notin {"fixLock", "readParent", "lockParent", "lockNode", "lockChild",
                     "innerLast", "outerLast", "rotate", "near", "far", "store"} \cup Heights
 BY DEF Searching, AtKey, Heights
<1>4. fix'[t] \in FixRecords' BY <1>1 DEF FixInv, FixRecords
<1> QED BY <1>2, <1>3, <1>4 DEF FixInv

(* nodeCondition begins. *)
LEMMA ExamineInv ==
 ASSUME NEW t \in Threads, NEW n \in Nodes, NoNode \notin Nodes, Nodes' = Nodes, NEW goal \in Goals,
        cond'[t] = [node |-> n, then |-> goal, got |-> <<>>], pc'[t] = "condition"
 PROVE  CondInv(t)'
<1>1. n \in Maybe' BY DEF Maybe
<1>2. <<>> \in Seq(Maybe' \cup (SUBSET BOOLEAN) \cup Nat) /\ DOMAIN <<>> = {} OBVIOUS
<1>3. ~ReadAll(cond[t])' BY DEF ReadAll, Routing
<1> QED BY <1>1, <1>2, <1>3 DEF CondInv, Goals, NoNode

LEMMA DamagedStep ==
 ASSUME AVLInv, NEW t \in Threads, NEW n \in Maybe, Damaged(t, n), stores[t] = <<>>,
        UNCHANGED <<path, here, stores, history, bounds>>, pc[t] # "idle",
        DOMAIN after' = Threads, after'[t] = NoPlan, \A u \in Threads \ {t} : after'[u] = after[u]
 PROVE  AVLInv'
<1>1. TreeShape /\ Variables /\ ThreadInv(t) BY DEF AVLInv
<1>2. OnlyLocks(t) /\ Nodes' = Nodes BY <1>1, UnlocksAll, LocksKeep DEF Damaged
<1>3. MovesOnly(t)
 <2>1. Variables'
  BY <1>1 DEF Damaged, GoTo, Variables, bounds, history, Labels, Abstract!SetTypeOK,
     Abstract!SetCalls, Abstract!NoCall, Abstract!Results
 <2>2. \A u \in Threads \ {t} : SameFor(u) BY <1>1 DEF Damaged, GoTo, Variables, SameFor, history
 <2> QED BY <2>1, <2>2 DEF MovesOnly
<1>4. pc'[t] = "fix" /\ cond'[t] = NoCond /\ fix'[t] = [NoFix EXCEPT !.n = n]
      /\ after'[t] = NoPlan /\ stores'[t] = <<>> /\ call'[t] = call[t]
 BY <1>1 DEF Damaged, GoTo, Variables, history
<1>5. PathInv(t)' BY <1>1, <1>2, <1>4, PathAside DEF ThreadInv, Searching, AtKey
<1>6. CondInv(t)' BY <1>4 DEF CondInv, NoCond, Maybe, Goals
<1>7. FixInv(t)'
 <2>1. {n, NoNode} \subseteq Maybe' BY <1>2 DEF Maybe
 <2>2. fix'[t] = [n |-> n, p |-> NoNode, side |-> "left", child |-> NoNode,
                  inner |-> NoNode, hOther |-> 0, hOuter |-> 0, hInner |-> 0]
  BY <1>4 DEF NoFix
 <2>3. ~Doing(t, "fixDecide")' /\ ~Doing(t, "rebalance")' BY <1>4 DEF Doing
 <2>4. fix'[t] \in FixRecords' BY <2>1, <2>2 DEF FixRecords, Sides
 <2> QED BY <1>4, <2>3, <2>4 DEF FixInv, Heights
<1> QED BY <1>2, <1>3, <1>4, <1>5, <1>6, <1>7, LocalStep

LEMMA Undamaged ==
 ASSUME AVLInv, NEW t \in Threads, pc[t] # "store", UNCHANGED after
 PROVE  /\ DOMAIN after' = Threads /\ after'[t] = NoPlan /\ \A u \in Threads \ {t} : after'[u] = after[u]
        /\ stores[t] = <<>>
 BY DEF AVLInv, Variables, ThreadInv, StoreInv

(* A call starts. *)
LEMMA StartStep ==
 ASSUME AVLInv, NEW t \in Threads, NEW c \in Abstract!SetCalls, Start(t, c), AVLTreeAssumption
 PROVE  AVLInv'
<1>1. TreeShape /\ Variables /\ ThreadInv(t) /\ pc[t] = "idle" BY DEF AVLInv, Start
<1>2. OnlyLocks(t) /\ Nodes' = Nodes BY <1>1, UnchangedTree, LocksKeep DEF Start
<1>3. pc' = [pc EXCEPT ![t] = "child"] /\ path' = [path EXCEPT ![t] = <<Activation(rootHolder, 0)>>]
      /\ UNCHANGED <<here, cond, fix, stores, after, set>>
      /\ call' = [call EXCEPT ![t] = c] /\ answers' = [answers EXCEPT ![t] = Abstract!Observed(c, set)]
      /\ result' = [result EXCEPT ![t] = {}]
 BY DEF Start, GoTo, Abstract!SetInvoke, Abstract!NoResult
<1>4. todo' \in Seq([op : {"add", "remove"}, key : Keys]) /\ callsLeft' \in [Threads -> Nat]
 <2>1. CASE todo # <<>>
  <3>1. todo' = Tail(todo) /\ callsLeft' = callsLeft BY <2>1 DEF Start
  <3>2. todo \in Seq([op : {"add", "remove"}, key : Keys]) BY <1>1 DEF Variables
  <3>3. todo' \in Seq([op : {"add", "remove"}, key : Keys]) BY <2>1, <3>1, <3>2, RangeOfTail
  <3> QED BY <3>1, <3>3, <1>1 DEF Variables
 <2>2. CASE todo = <<>>
  <3>1. todo' = todo /\ callsLeft[t] > 0
        /\ callsLeft' = [callsLeft EXCEPT ![t] = @ - 1]
   BY <2>2 DEF Start
  <3>2. callsLeft \in [Threads -> Nat] /\ todo \in Seq([op : {"add", "remove"}, key : Keys])
   BY <1>1 DEF Variables
  <3>3. callsLeft[t] \in Nat /\ callsLeft[t] - 1 \in Nat BY <3>1, <3>2
  <3>5. callsLeft' \in [Threads -> Nat] BY <3>1, <3>2, <3>3
  <3> QED BY <3>1, <3>2, <3>5
 <2> QED BY <2>1, <2>2
<1>5. MovesOnly(t)
 <2>1. Abstract!Observed(c, set) \in SUBSET BOOLEAN BY DEF Abstract!Observed, Abstract!SetCalls
 <2>2. Variables'
  <3>1. pc' \in [Threads -> Labels] BY <1>1, <1>3 DEF Variables, Labels
  <3>2. Abstract!SetTypeOK'
   <4>1. set' \subseteq Keys /\ result' \in [Threads -> SUBSET BOOLEAN]
    BY <1>1, <1>3 DEF Variables, Abstract!SetTypeOK, Abstract!Results
   <4>2. call' \in [Threads -> Abstract!SetCalls \cup {Abstract!NoCall}]
    BY <1>1, <1>3 DEF Variables, Abstract!SetTypeOK
   <4>3. answers' \in [Threads -> SUBSET BOOLEAN]
    BY <1>1, <1>3, <2>1 DEF Variables, Abstract!SetTypeOK
   <4> QED BY <4>1, <4>2, <4>3 DEF Abstract!SetTypeOK, Abstract!Results, Abstract!SetCalls, Abstract!NoCall
  <3> QED BY <1>1, <1>3, <1>4, <3>1, <3>2 DEF Variables
 <2>3. \A u \in Threads \ {t} : SameFor(u) BY <1>1, <1>3 DEF Variables, SameFor, Abstract!SetTypeOK
 <2> QED BY <2>2, <2>3 DEF MovesOnly
<1>6. pc'[t] = "child" /\ path'[t] = <<Activation(rootHolder, 0)>> /\ call'[t] = c /\ here'[t] = here[t]
      /\ cond'[t] = cond[t] /\ fix'[t] = fix[t] /\ stores'[t] = <<>> /\ after'[t] = NoPlan /\ stores[t] = <<>>
 BY <1>1, <1>3 DEF Variables, Abstract!SetTypeOK, ThreadInv, IdleInv
<1>7. PathInv(t)'
 <2>1. Activation(rootHolder, 0) \in [node : Nodes', ovl : Nat] /\ ~isUnlinked(Activation(rootHolder, 0).ovl)
  BY <1>1, <1>2, MarksAreUnlinked DEF Activation, TreeShape
 <2>2. /\ path'[t] \in Seq([node : Nodes', ovl : Nat]) /\ Len(path'[t]) = 1 /\ path'[t] # <<>>
       /\ path'[t][1] = Activation(rootHolder, 0)
       /\ \A i \in DOMAIN path'[t] : ~isUnlinked(path'[t][i].ovl)
  BY <2>1, <1>6
 <2>3. here'[t] \in [child : Maybe', ovl : Nat] BY <1>1, <1>2, <1>6 DEF ThreadInv, PathInv, Maybe
 <2> QED BY <1>6, <2>2, <2>3 DEF PathInv, AtKey, AtChild, Activation, rootHolder
<1>8. CondInv(t)' /\ FixInv(t)'
 BY <1>1, <1>2, <1>6, CondAside, FixAside DEF ThreadInv, Goals, Searching
<1>9. StoresAreLocked(t)' /\ StoreInv(t)' /\ IdleInv(t)'
 <2>1. c # NoCall BY DEF NoCall, Abstract!NoCall, Abstract!SetCalls
 <2> QED BY <1>6, <2>1, RangeOfEmpty DEF StoresAreLocked, StoreInv, IdleInv, NoCall, Abstract!NoCall
<1> QED BY <1>2, <1>5, <1>6, <1>7, <1>8, <1>9, QuietStep DEF ThreadInv

-----------------------------------------------------------------------------
(* The descent. *)
Descent(p) ==
    /\ p \in Seq([node : Nodes, ovl : Nat]) /\ p # <<>>
    /\ p[1] = Activation(rootHolder, 0)
    /\ \A i \in DOMAIN p : ~isUnlinked(p[i].ovl)

LEMMA PathIsDescent ==
 ASSUME NEW t \in Threads, PathInv(t), pc[t] \in Searching \cup AtKey
 PROVE  Descent(path[t]) /\ (pc[t] \in AtKey => Len(path[t]) > 1)
 BY DEF PathInv, Descent

LEMMA DescentEnds ==
 ASSUME NEW p, Descent(p)
 PROVE  /\ Last(p).node \in Nodes /\ Last(p).ovl \in Nat /\ ~isUnlinked(Last(p).ovl)
        /\ Last(p) \in [node : Nodes, ovl : Nat] /\ Len(p) \in Nat \ {0}
<1>1. Len(p) \in DOMAIN p /\ Len(p) \in Nat \ {0} BY DEF Descent
<1>2. PICK i : i = Len(p) OBVIOUS
<1>3. PICK S : S = [node : Nodes, ovl : Nat] OBVIOUS
<1>4. p \in Seq(S) /\ i \in DOMAIN p BY <1>1, <1>2, <1>3 DEF Descent
<1>5. p[i] \in S BY <1>4
<1>6. p[i] \in [node : Nodes, ovl : Nat] /\ ~isUnlinked(p[i].ovl) BY <1>3, <1>4, <1>5 DEF Descent
<1> QED BY <1>1, <1>2, <1>6 DEF Last

LEMMA FrontDescends ==
 ASSUME NEW p, Descent(p), Len(p) > 1
 PROVE  Descent(Front(p))
<1>1. PICK q : q = Front(p) OBVIOUS
<1>2. PICK S : S = [node : Nodes, ovl : Nat] OBVIOUS
<1>3. p \in Seq(S) /\ Len(p) \in Nat /\ p # <<>> BY <1>2 DEF Descent
<1>4. /\ q \in Seq(S) /\ Len(q) = Len(p) - 1
      /\ q[1] = p[1] /\ \A i \in DOMAIN q : i \in DOMAIN p /\ q[i] = p[i]
 BY <1>1, <1>3 DEF Front
<1>5. q # <<>> BY <1>3, <1>4
<1> QED BY <1>1, <1>2, <1>4, <1>5 DEF Descent

LEMMA DescentGrows ==
 ASSUME NEW p, Descent(p), NEW n \in Nodes, NEW ovl \in Nat, ~isUnlinked(ovl)
 PROVE  Descent(Append(p, Activation(n, ovl))) /\ Len(Append(p, Activation(n, ovl))) > 1
<1>1. PICK a : a = Activation(n, ovl) OBVIOUS
<1>2. a \in [node : Nodes, ovl : Nat] /\ ~isUnlinked(a.ovl) BY <1>1 DEF Activation
<1>3. PICK q : q = Append(p, a) OBVIOUS
<1>4. PICK S : S = [node : Nodes, ovl : Nat] OBVIOUS
<1>5. p \in Seq(S) /\ Len(p) \in Nat \ {0} /\ DOMAIN p = 1 .. Len(p) BY <1>4 DEF Descent
<1>6. /\ q \in Seq(S) /\ Len(q) = Len(p) + 1 /\ q[Len(p) + 1] = a
      /\ \A i \in 1 .. Len(p) : q[i] = p[i]
 BY <1>2, <1>3, <1>4, <1>5
<1>7. ASSUME NEW i \in DOMAIN q PROVE ~isUnlinked(q[i].ovl)
 <2>1. i \in 1 .. Len(p) \/ i = Len(p) + 1 BY <1>5, <1>6
 <2> QED BY <2>1, <1>2, <1>5, <1>6 DEF Descent
<1>8. q # <<>> /\ q[1] = p[1] BY <1>5, <1>6
<1> QED BY <1>1, <1>3, <1>4, <1>5, <1>6, <1>7, <1>8 DEF Descent

(* The first activation is valid for ever. *)
LEMMA InvalidIsDeep ==
 ASSUME TreeShape, NEW t \in Threads, Descent(path[t]), ~Valid(t)
 PROVE  Len(path[t]) > 1
<1>1. Len(path[t]) \in Nat \ {0} BY DescentEnds
<1>2. Len(path[t]) # 1 BY DEF Valid, Node, Last, Descent, Activation, TreeShape
<1>3. PICK i : i = Len(path[t]) OBVIOUS
<1>4. i \in Nat \ {0} /\ i # 1 BY <1>1, <1>2, <1>3
<1>5. i > 1 BY <1>4
<1> QED BY <1>3, <1>5

LEMMA ValidIsLinked ==
 ASSUME NEW t \in Threads, Descent(path[t]), Valid(t)
 PROVE  Node(t) \in Nodes /\ ~isUnlinked(tree[Node(t)].version)
 BY DescentEnds DEF Valid, Node

LEMMA DescentStep ==
 ASSUME AVLInv, NEW t \in Threads, OnlyLocks(t), UNCHANGED <<cond, fix, stores, after, history, bounds>>,
        NEW l \in Searching \cup (AtKey \ {"unlinkNode"}), pc' = [pc EXCEPT ![t] = l],
        pc[t] \notin {"idle", "store"},
        NEW p, path' = [path EXCEPT ![t] = p] \/ (path' = path /\ p = path[t]),
        NEW h, here' = [here EXCEPT ![t] = h] \/ (here' = here /\ h = here[t]),
        Descent(p), l \in AtKey => Len(p) > 1,
        h \in [child : Maybe, ovl : Nat], l \in AtChild => h.child # NoNode,
        l \in {"recheck", "validate"} => ~isUnlinked(h.ovl)
 PROVE  AVLInv'
<1>1. TreeShape /\ Variables /\ ThreadInv(t) BY DEF AVLInv
<1>2. Nodes' = Nodes BY <1>1, LocksKeep
<1>3. l \in Labels /\ l \notin {"idle", "store", "unlinkNode"} BY DEF Searching, AtKey, Labels
<1>4. pc'[t] = l /\ path'[t] = p /\ here'[t] = h BY <1>1 DEF Variables
<1>5. MovesOnly(t)
 <2>1. Variables'
  BY <1>1, <1>3 DEF Variables, bounds, history, Abstract!SetTypeOK, Abstract!SetCalls,
     Abstract!NoCall, Abstract!Results
 <2>2. \A u \in Threads \ {t} : SameFor(u) BY <1>1 DEF Variables, SameFor, history
 <2> QED BY <2>1, <2>2 DEF MovesOnly
<1>6. PathInv(t)'
 <2>1. p \in Seq([node : Nodes', ovl : Nat]) /\ h \in [child : Maybe', ovl : Nat]
  BY <1>2 DEF Descent, Maybe
 <2> QED BY <2>1, <1>3, <1>4 DEF PathInv, Descent, Activation, rootHolder
<1>7. CondInv(t)' /\ FixInv(t)'
 BY <1>1, <1>2, <1>4, CondAside, FixAside DEF ThreadInv, Goals, Searching, AtKey
<1>8. stores[t] = <<>> /\ stores'[t] = <<>> /\ after'[t] = NoPlan /\ call'[t] = call[t]
 BY <1>1 DEF ThreadInv, StoreInv, history
<1> QED BY <1>3, <1>4, <1>5, <1>6, <1>7, <1>8, LocalStep

LEMMA TreeFields ==
 ASSUME TreeShape, NEW n \in Nodes
 PROVE  /\ tree[n].left \in Maybe /\ tree[n].right \in Maybe /\ tree[n].parent \in Maybe
        /\ tree[n].version \in Nat /\ tree[n].value \in BOOLEAN /\ tree[n].height \in Nat \ {0}
        /\ tree[n].key \in Keys \cup {MinKey} /\ tree[n].lock \in SUBSET Threads
        /\ \A side \in Sides : tree[n][side] \in Maybe
        /\ n # NoNode /\ (n # rootHolder => tree[n].parent \in Nodes)
<1>1. tree[n] \in NodeRecords BY DEF TreeShape
<1>2. n # NoNode /\ (n # rootHolder => tree[n].parent # NoNode) BY DEF TreeShape
<1> QED BY <1>1, <1>2 DEF NodeRecords, Sides, Maybe

LEMMA SidesOfKeys == \A k, n : Direction(k, n) \in Sides
 BY DEF Direction, Sides

LEMMA RetryStep ==
 ASSUME AVLInv, NEW t \in Threads, OnlyLocks(t), pc[t] \in Searching \cup AtKey,
        Len(path[t]) > 1, Retry(t), UNCHANGED <<here, cond, fix, stores, after, history, bounds>>
 PROVE  AVLInv'
<1>1. PathInv(t) BY DEF AVLInv, ThreadInv
<1>2. Descent(path[t]) BY <1>1, PathIsDescent
<1>3. Descent(Front(path[t])) BY <1>2, FrontDescends
<1>4. pc' = [pc EXCEPT ![t] = "child"] /\ path' = [path EXCEPT ![t] = Front(path[t])]
 BY DEF Retry, GoTo
<1>5. "child" \in Searching /\ "child" \notin AtKey \cup AtChild BY DEF Searching, AtKey, AtChild
<1>6. here[t] \in [child : Maybe, ovl : Nat] BY <1>1 DEF PathInv
<1>7. pc[t] \notin {"idle", "store"} BY DEF Searching, AtKey
<1> QED BY <1>3, <1>4, <1>5, <1>6, <1>7, DescentStep

(* The thread goes on, with the same locals. *)
LEMMA GoOnStep ==
 ASSUME AVLInv, NEW t \in Threads, UNCHANGED <<tree, locals, history, bounds>>,
        pc[t] \in Searching \cup AtKey, NEW l \in Searching \cup (AtKey \ {"unlinkNode"}), GoTo(t, l),
        l \in AtKey => pc[t] \in AtKey,
        l \in AtChild => here[t].child # NoNode,
        l \in {"recheck", "validate"} => pc[t] \in {"recheck", "validate"}
 PROVE  AVLInv'
<1>1. PathInv(t) /\ TreeShape BY DEF AVLInv, ThreadInv
<1>2. Descent(path[t]) /\ (pc[t] \in AtKey => Len(path[t]) > 1) BY <1>1, PathIsDescent
<1>3. here[t] \in [child : Maybe, ovl : Nat] /\ (pc[t] \in {"recheck", "validate"} => ~isUnlinked(here[t].ovl))
 BY <1>1 DEF PathInv
<1>4. pc[t] \notin {"idle", "store"} BY DEF Searching, AtKey
<1>5. OnlyLocks(t) BY <1>1, UnchangedTree
<1> QED BY <1>2, <1>3, <1>4, <1>5, DescentStep DEF GoTo, locals

LEMMA DescendingStep ==
 ASSUME AVLInv, NEW t \in Threads, Descending(t)
 PROVE  AVLInv'
<1>1. TreeShape /\ Variables /\ ThreadInv(t) /\ PathInv(t) BY DEF AVLInv, ThreadInv
<1>2. pc[t] \in Searching \ {"insert", "done"}
 BY DEF Descending, ReadChild, GetMisses, GetFinds, RemoveMisses, UpdateChild, Invalid,
    ReadChildOVL, waitUntilNotChanging, Recheck, Revalidate, Descend, Searching
<1>3. Descent(path[t]) BY <1>1, <1>2, PathIsDescent
<1>4. here[t] \in [child : Maybe, ovl : Nat] /\ pc[t] \notin {"idle", "store"}
      /\ (pc[t] \in AtChild => here[t].child \in Nodes)
 BY <1>1, <1>2 DEF PathInv, Searching, Maybe
<1>5. Node(t) \in Nodes BY <1>3, DescentEnds DEF Node
<1>6. NextChild(t) \in Maybe BY <1>1, <1>5, TreeFields, SidesOfKeys DEF NextChild, Child
<1>7. ASSUME ReadChild(t) PROVE AVLInv'
 <2>1. PICK l : l = IF ~Reading(t) THEN "childRead"
                    ELSE IF NextChild(t) = NoNode THEN "missing"
                    ELSE IF HasKey(t, NextChild(t)) THEN "value" ELSE "childOVL"
  OBVIOUS
 <2>2. PICK h : h = [child |-> NextChild(t), ovl |-> 0] OBVIOUS
 <2>3. h \in [child : Maybe, ovl : Nat] /\ h.child = NextChild(t) BY <2>2, <1>6
 <2>4. l \in Searching /\ l \notin AtKey \cup {"recheck", "validate"} /\ (l \in AtChild => NextChild(t) # NoNode)
  BY <2>1 DEF Searching, AtKey, AtChild
 <2>5. pc' = [pc EXCEPT ![t] = l] /\ here' = [here EXCEPT ![t] = h]
       /\ UNCHANGED <<tree, path, cond, fix, stores, after, history, bounds>>
  BY <1>7, <2>1, <2>2 DEF ReadChild, GoTo
 <2>6. OnlyLocks(t) BY <1>1, <2>5, UnchangedTree
 <2> QED BY <1>3, <1>4, <2>3, <2>4, <2>5, <2>6, DescentStep
<1>8. ASSUME GetMisses(t) PROVE AVLInv' BY <1>4, <1>8, ReturnStep DEF GetMisses
<1>9. ASSUME GetFinds(t) PROVE AVLInv'
 <2>1. here[t].child \in Nodes BY <1>4, <1>9 DEF GetFinds, AtChild
 <2>2. tree[here[t].child].value \in BOOLEAN BY <1>1, <2>1, TreeFields
 <2> QED BY <1>4, <1>9, <2>2, ReturnStep DEF GetFinds
<1>10. ASSUME RemoveMisses(t) PROVE AVLInv' BY <1>4, <1>10, ReturnStep DEF RemoveMisses
<1>11. ASSUME UpdateChild(t) PROVE AVLInv'
 <2>1. CASE here[t].child # NoNode /\ GoTo(t, "childOVL")
  BY <1>2, <1>11, <2>1, GoOnStep DEF UpdateChild, Searching, AtKey
 <2>2. CASE GoTo(t, "insert")
  BY <1>2, <1>11, <2>2, GoOnStep DEF UpdateChild, Searching, AtKey, AtChild
 <2> QED BY <1>11, <2>1, <2>2 DEF UpdateChild
<1>12. ASSUME Invalid(t) PROVE AVLInv'
 <2>1. Len(path[t]) > 1 BY <1>1, <1>3, <1>12, InvalidIsDeep DEF Invalid
 <2>2. OnlyLocks(t) BY <1>1, <1>12, UnchangedTree DEF Invalid
 <2> QED BY <1>2, <1>12, <2>1, <2>2, RetryStep DEF Invalid
<1>13. ASSUME ReadChildOVL(t) PROVE AVLInv'
 <2>1. PICK ovl : ovl = tree[here[t].child].version OBVIOUS
 <2>2. PICK l : l = IF isShrinkingOrUnlinked(ovl) THEN "wait" ELSE "recheck" OBVIOUS
 <2>3. PICK h : h = [here[t] EXCEPT !.ovl = ovl] OBVIOUS
 <2>4. here[t].child \in Nodes BY <1>4, <1>13 DEF ReadChildOVL, AtChild
 <2>5. ovl \in Nat BY <1>1, <2>1, <2>4, TreeFields
 <2>6. h \in [child : Maybe, ovl : Nat] /\ h.child \in Nodes /\ h.ovl = ovl
  BY <1>4, <2>3, <2>4, <2>5
 <2>7. l \in {"wait", "recheck"} /\ (l = "recheck" => ~isUnlinked(ovl))
  BY <2>2 DEF isShrinkingOrUnlinked
 <2>8. pc' = [pc EXCEPT ![t] = l] /\ here' = [here EXCEPT ![t] = h]
       /\ UNCHANGED <<tree, path, cond, fix, stores, after, history, bounds>>
  BY <1>13, <2>1, <2>2, <2>3 DEF ReadChildOVL, GoTo
 <2>9. OnlyLocks(t) BY <1>1, <2>8, UnchangedTree
 <2>10. h.child # NoNode BY <1>1, <2>6 DEF TreeShape
 <2>11. l \in Searching /\ l \notin AtKey /\ (l \in {"recheck", "validate"} => ~isUnlinked(h.ovl))
  BY <2>6, <2>7 DEF Searching, AtKey
 <2> QED BY <1>3, <1>4, <2>6, <2>8, <2>9, <2>10, <2>11, DescentStep
<1>14. ASSUME NEW l, l \in {"revalidate", "child"}, GoTo(t, l), UNCHANGED <<tree, locals, history, bounds>>
       PROVE  AVLInv'
 BY <1>2, <1>14, GoOnStep DEF Searching, AtKey, AtChild
<1>15. ASSUME waitUntilNotChanging(t) PROVE AVLInv' BY <1>14, <1>15 DEF waitUntilNotChanging, Again
<1>16. ASSUME Recheck(t) PROVE AVLInv'
 <2>1. CASE GoTo(t, "validate")
  <3>1. here[t].child # NoNode BY <1>1, <1>4, <1>16 DEF Recheck, AtChild, TreeShape
  <3> QED BY <1>2, <1>16, <2>1, <3>1, GoOnStep DEF Recheck, Searching, AtKey
 <2>2. CASE Again(t) BY <1>14, <1>16, <2>2 DEF Recheck, Again
 <2> QED BY <1>16, <2>1, <2>2 DEF Recheck
<1>17. ASSUME Revalidate(t) PROVE AVLInv' BY <1>14, <1>17 DEF Revalidate
<1>18. ASSUME Descend(t) PROVE AVLInv'
 <2>1. PICK l : l = IF Reading(t) \/ ~HasKey(t, here[t].child) THEN "child"
                    ELSE IF call[t].op = "add" THEN "update" ELSE "nodeValue"
  OBVIOUS
 <2>2. l \in {"child", "update", "nodeValue"} BY <2>1
 <2>3. PICK p : p = Append(path[t], Activation(here[t].child, here[t].ovl)) OBVIOUS
 <2>4. here[t].child \in Nodes /\ here[t].ovl \in Nat /\ ~isUnlinked(here[t].ovl)
  BY <1>1, <1>4, <1>18 DEF Descend, PathInv, AtChild
 <2>5. Descent(p) /\ Len(p) > 1 BY <1>3, <2>3, <2>4, DescentGrows
 <2>6. pc' = [pc EXCEPT ![t] = l] /\ path' = [path EXCEPT ![t] = p]
       /\ UNCHANGED <<tree, here, cond, fix, stores, after, history, bounds>>
  BY <1>18, <2>1, <2>3 DEF Descend, GoTo
 <2>7. OnlyLocks(t) BY <1>1, <2>6, UnchangedTree
 <2>8. l \in Searching \cup (AtKey \ {"unlinkNode"}) /\ l \notin AtChild \cup {"recheck", "validate"}
  BY <2>2 DEF Searching, AtKey, AtChild
 <2> QED BY <1>4, <2>5, <2>6, <2>7, <2>8, DescentStep
<1> QED BY <1>7, <1>8, <1>9, <1>10, <1>11, <1>12, <1>13, <1>15, <1>16, <1>17, <1>18 DEF Descending

-----------------------------------------------------------------------------
(* An update in place, and a new leaf. *)
LEMMA LowestNatural ==
 ASSUME NEW T, T \subseteq Nat, T # {}
 PROVE  Min(T) \in T
<1> DEFINE less == {ss \in Nat \X Nat : ss[1] < ss[2]}
<1>1. PICK x \in T : \A y \in T : ~(<<y, x>> \in less)
 <2>1. IsWellFoundedOn(less, Nat) BY NatLessThanWellFounded, Zenon DEF OpToRel
 <2> HIDE DEF less
 <2> QED BY <2>1, WFMin
<1>2. \A y \in T : ~(y < x) BY <1>1
<1>3. \A y \in T : x =< y BY <1>2
<1> QED BY <1>3 DEF Min

LEMMA NewNames ==
 ASSUME AVLTreeAssumption, TreeShape, NEW k \in Keys
 PROVE  NewName(k) \notin Nodes /\ NewName(k) # NoNode /\ NewName(k)[1] = k
<1>1. PICK C : C = Cardinality(Nodes) OBVIOUS
<1>2. C \in Nat BY <1>1, FS_CardinalityType DEF TreeShape
<1>3. PICK T : T = {i \in 1 .. C : <<k, i>> \notin Nodes} OBVIOUS
<1>4. T # {}
 <2>1. SUFFICES ASSUME \A i \in 1 .. C : <<k, i>> \in Nodes PROVE FALSE BY <1>3
 <2>2. PICK R : R = Nodes \ {rootHolder} OBVIOUS
 <2>3. IsFiniteSet(R) /\ Cardinality(R) = C - 1 BY <1>1, <2>2, FS_RemoveElement DEF TreeShape
 <2>4. k # MinKey BY DEF AVLTreeAssumption
 <2>5. \A i \in 1 .. C : <<k, i>> \in R BY <2>1, <2>2, <2>4 DEF rootHolder
 <2>6. PICK f : f = [i \in 1 .. C |-> <<k, i>>] OBVIOUS
 <2>7. f \in Injection(1 .. C, R)
  <3>1. f \in [1 .. C -> R] BY <2>5, <2>6
  <3>2. \A i, j \in 1 .. C : f[i] = f[j] => i = j BY <2>6
  <3> QED BY <3>1, <3>2 DEF Injection, IsInjective
 <2>8. Cardinality(1 .. C) <= Cardinality(R) BY <2>3, <2>7, FS_Injection
 <2>9. Cardinality(1 .. C) = IF 1 > C THEN 0 ELSE C - 1 + 1
  BY <1>2, 1 \in Int, C \in Int, FS_Interval
 <2>10. Cardinality(1 .. C) = C BY <1>2, <2>9
 <2> QED BY <1>2, <2>3, <2>8, <2>10
<1>5. Min(T) \in T
 <2>1. T \subseteq Nat BY <1>2, <1>3
 <2> QED BY <1>4, <2>1, LowestNatural
<1>6. NewName(k) = <<k, Min(T)>> BY <1>1, <1>3 DEF NewName, Nodes
<1>7. <<k, Min(T)>> \notin Nodes BY <1>3, <1>5
<1> QED BY <1>6, <1>7 DEF NoNode

LEMMA CallHasKey ==
 ASSUME Variables, NEW t \in Threads, IdleInv(t), pc[t] # "idle"
 PROVE  call[t] \in Abstract!SetCalls /\ Key(t) \in Keys
<1>1. call[t] \in Abstract!SetCalls BY DEF Variables, Abstract!SetTypeOK, IdleInv, NoCall
<1> QED BY <1>1 DEF Key, Abstract!SetCalls

LEMMA ChangesTyped ==
 ASSUME Variables, NEW t \in Threads, NEW S, S \subseteq Keys, Changes(t, S)
 PROVE  Abstract!SetTypeOK'
<1>1. call \in [Threads -> Abstract!SetCalls \cup {Abstract!NoCall}] /\ answers \in [Threads -> SUBSET BOOLEAN]
 BY DEF Variables, Abstract!SetTypeOK
<1>2. ASSUME NEW u \in Threads PROVE Abstract!Observed(call[u], S) \in SUBSET BOOLEAN
 <2>1. \A c : c.op \in {"add", "remove", "contains", "none"} => Abstract!Observed(c, S) \in SUBSET BOOLEAN
  BY DEF Abstract!Observed
 <2>2. call[u].op \in {"add", "remove", "contains", "none"}
  BY <1>1 DEF Abstract!SetCalls, Abstract!NoCall
 <2> QED BY <2>1, <2>2
<1>3. Abstract!AnswersAfter(t, S) \in [Threads -> SUBSET BOOLEAN]
 BY <1>1, <1>2 DEF Abstract!AnswersAfter
<1> QED BY <1>3 DEF Changes, Variables, Abstract!SetTypeOK, Abstract!Results, Abstract!SetCalls, Abstract!NoCall

(* The tree with a new leaf; q is its parent afterwards. *)
LeafParent(q, t, n, side, new) ==
    /\ q.key = tree[n].key /\ q.value = tree[n].value /\ q.version = tree[n].version
    /\ q.parent = tree[n].parent /\ q[side] = new /\ q[Opposite(side)] = tree[n][Opposite(side)]
    /\ q.lock = {} \/ q.lock = {t}
    /\ q.height \in Nat \ {0}
    /\ q = [key |-> q.key, value |-> q.value, height |-> q.height, version |-> q.version,
            parent |-> q.parent, left |-> q.left, right |-> q.right, lock |-> q.lock]

WithLeaf(n, q, new, k) ==
    [m \in Nodes \cup {new} |-> IF m = new THEN NodeRecord(k, TRUE, n) ELSE IF m = n THEN q ELSE tree[m]]

LEMMA InsertReaches ==
 ASSUME AVLInv, NEW t \in Threads, MovesOnly(t), stores'[t] = stores[t],
        NEW n \in Nodes, Free(n), ~isUnlinked(tree[n].version),
        NEW side \in Sides, tree[n][side] = NoNode,
        NEW new, new \notin Nodes, new # NoNode, NEW k \in Keys, new[1] = k,
        NEW q, LeafParent(q, t, n, side, new), tree' = WithLeaf(n, q, new, k)
 PROVE  /\ TreeShape' /\ \E G : FinalLinks(G)'
        /\ \A u \in Threads \ {t} : ThreadInv(u)'
        /\ Nodes' = Nodes \cup {new}
<1>1. TreeShape /\ \A u \in Threads : StoresAreLocked(u) BY DEF AVLInv, ThreadInv
<1>2. Nodes' = Nodes \cup {new} /\ Maybe' = Nodes \cup {new, NoNode} BY DEF Nodes, Maybe, WithLeaf
<1>3. tree'[new] = NodeRecord(k, TRUE, n) /\ tree'[n] = q /\ \A m \in Nodes \ {n} : tree'[m] = tree[m]
 BY DEF WithLeaf
<1>4. Sides = {side, Opposite(side)} /\ side # Opposite(side) BY DEF Sides, Opposite
<1>5. NodeRecords' = [key : Keys \cup {MinKey}, value : BOOLEAN, height : Nat \ {0}, version : Nat,
                      parent : Maybe', left : Maybe', right : Maybe', lock : SUBSET Threads]
 BY DEF NodeRecords
<1>6. ASSUME NEW m \in Nodes PROVE tree[m] \in NodeRecords'
 <2>1. tree[m] \in NodeRecords BY <1>1 DEF TreeShape
 <2>2. Maybe \subseteq Maybe' BY <1>2 DEF Maybe
 <2> QED BY <2>1, <2>2, <1>5 DEF NodeRecords
<1>7. q \in NodeRecords'
 <2>1. q.left \in Maybe' /\ q.right \in Maybe'
  <3>1. q[side] \in Maybe' /\ q[Opposite(side)] \in Maybe'
   BY <1>1, <1>2, <1>4, TreeFields DEF Maybe, LeafParent
  <3> QED BY <3>1, <1>4 DEF Sides
 <2>2. q.key \in Keys \cup {MinKey} /\ q.value \in BOOLEAN /\ q.version \in Nat /\ q.parent \in Maybe'
       /\ q.lock \in SUBSET Threads /\ q.height \in Nat \ {0}
  BY <1>1, <1>2, TreeFields DEF Maybe, LeafParent
 <2>3. PICK a, b, c, d, e, f, g, h : a = q.key /\ b = q.value /\ c = q.height /\ d = q.version
          /\ e = q.parent /\ f = q.left /\ g = q.right /\ h = q.lock
  OBVIOUS
 <2>4. q = [key |-> a, value |-> b, height |-> c, version |-> d, parent |-> e, left |-> f, right |-> g, lock |-> h]
  BY <2>3 DEF LeafParent
 <2> QED BY <2>1, <2>2, <2>3, <2>4, <1>5
<1>8. NodeRecord(k, TRUE, n) \in NodeRecords' BY <1>2, <1>5 DEF NodeRecord
<1>9. TreeShape'
 <2>1. IsFiniteSet(Nodes') BY <1>1, <1>2, FS_AddElement DEF TreeShape
 <2>2. tree' \in [Nodes' -> NodeRecords'] BY <1>2, <1>6, <1>7, <1>8 DEF WithLeaf
 <2>3. rootHolder \in Nodes' /\ rootHolder # new /\ tree'[rootHolder].version = 0
  BY <1>1, <1>2, <1>3 DEF TreeShape, LeafParent
 <2>4. ASSUME NEW m \in Nodes'
       PROVE  /\ tree'[m].key = m[1] /\ m # NoNode
              /\ m # rootHolder => tree'[m].parent # NoNode
              /\ \A u1, u2 \in tree'[m].lock : u1 = u2
  <3>1. CASE m = new BY <3>1, <1>1, <1>3 DEF NodeRecord, TreeShape
  <3>2. CASE m \in Nodes
   <4>1. tree[m].key = m[1] /\ m # NoNode /\ (m # rootHolder => tree[m].parent # NoNode)
         /\ \A u1, u2 \in tree[m].lock : u1 = u2
    BY <3>2, <1>1 DEF TreeShape
   <4>2. CASE m = n BY <4>1, <4>2, <1>3 DEF LeafParent
   <4>3. CASE m # n BY <4>1, <4>3, <3>2, <1>3
   <4> QED BY <4>2, <4>3
  <3> QED BY <3>1, <3>2, <1>2
 <2> QED BY <2>1, <2>2, <2>3, <2>4 DEF TreeShape, rootHolder
<1>10. PICK F : FinalLinks(F) BY DEF AVLInv
<1>11. IsForest(F) /\ DOMAIN F = Nodes /\ Agree(F) BY <1>1, <1>10, ForestOfNodes DEF FinalLinks
<1>12. QuietAt(n) BY FreeIsQuiet
<1>13. ~F[n].gone /\ F[n][side] = NoNode
 <2>1. tree[n].left = F[n].left /\ tree[n].right = F[n].right /\ (isUnlinked(tree[n].version) <=> F[n].gone)
  BY <1>1, <1>10, <1>12, QuietLinks DEF FinalLinks
 <2> QED BY <2>1 DEF Sides
<1>14. PICK G : G = AfterInsert(F, n, new, side) OBVIOUS
<1>15. /\ IsForest(G) /\ Agree(G) /\ DOMAIN G = Nodes \cup {new}
       /\ \A x \in Nodes :
            /\ \A d \in Sides : G[x][d] = IF x = n /\ d = side THEN new ELSE F[x][d]
            /\ G[x].parent = F[x].parent /\ G[x].gone = F[x].gone
       /\ G[new] = [left |-> NoNode, right |-> NoNode, parent |-> n, gone |-> FALSE]
 <2>1. n \in DOMAIN F /\ new \notin DOMAIN F BY <1>11
 <2>2. IsForest(G) /\ Agree(G) /\ IsInsert(F, G, n, new, side)
  BY <2>1, <1>11, <1>13, <1>14, InsertAgrees
 <2> QED BY <2>2, <1>11 DEF IsInsert
<1>16. \A u \in Threads : stores'[u] = stores[u] BY DEF MovesOnly, SameFor
<1>17. \A m, f : SomePending(m, f)' <=> SomePending(m, f) BY <1>16 DEF SomePending, Pending
<1>18. \A f : f # "parent" => ~SomePending(n, f)
 BY <1>1, <1>12, PendingIsLocked DEF SomePending, QuietAt
<1>19. Reaches(G)'
 <2>1. G \in [Nodes' -> LinkRecords']
  <3>1. LinkRecords' = [left : Maybe', right : Maybe', parent : Maybe', gone : BOOLEAN]
   BY DEF LinkRecords
  <3>2. Nodes \cup {new, NoNode} = DOMAIN G \cup {NoNode} BY <1>15
  <3> QED BY <3>1, <3>2, <1>2, <1>15 DEF IsForest
 <2>2. ASSUME NEW u \in Threads, NEW w \in Range(stores'[u]) PROVE Foresees(G, w)'
  <3>1. w \in Range(stores[u]) /\ Foresees(F, w) /\ w \in Writes
   BY <2>2, <1>1, <1>10, <1>16, RangeInSet DEF FinalLinks, Reaches, StoresAreLocked
  <3>2. w.node \in Nodes /\ ~(w.node = n /\ w.field # "parent")
   BY <3>1, <1>18 DEF Writes, SomePending, Pending
  <3>3. w.field \in Links => G[w.node][w.field] = F[w.node][w.field]
   <4>1. CASE w.field = "parent" BY <4>1, <3>2, <1>15
   <4>2. CASE w.field \in Sides
    <5>1. w.node # n BY <4>2, <3>2 DEF Sides
    <5> QED BY <4>2, <5>1, <3>2, <1>15
   <4> QED BY <4>1, <4>2 DEF Links, Sides
  <3> QED BY <3>1, <3>2, <3>3, <1>15 DEF Foresees
 <2>3. ASSUME NEW m \in Nodes
       PROVE  /\ \A f \in Links : tree'[m][f] = G[m][f] \/ SomePending(m, f)'
              /\ (isUnlinked(tree'[m].version) <=> G[m].gone) \/ SomePending(m, "version")'
              /\ G[m].gone => ~tree'[m].value \/ SomePending(m, "value")'
  <3>1. /\ \A f \in Links : tree[m][f] = F[m][f] \/ SomePending(m, f)
        /\ (isUnlinked(tree[m].version) <=> F[m].gone) \/ SomePending(m, "version")
        /\ F[m].gone => ~tree[m].value \/ SomePending(m, "value")
   BY <1>10 DEF FinalLinks, Reaches
  <3>2. CASE m # n
   <4>1. tree'[m] = tree[m] /\ G[m].gone = F[m].gone /\ G[m].parent = F[m].parent
    BY <3>2, <1>3, <1>15
   <4>2. \A d \in Sides : G[m][d] = F[m][d] BY <3>2, <1>15
   <4>3. \A f \in Links : G[m][f] = F[m][f] BY <4>1, <4>2 DEF Links, Sides
   <4> QED BY <3>1, <4>1, <4>3, <1>17
  <3>3. CASE m = n
   <4>1. tree'[m].version = tree[m].version /\ G[m].gone = F[m].gone /\ tree'[m].value = tree[m].value
         /\ tree'[m].parent = tree[m].parent /\ G[m].parent = F[m].parent
         /\ tree'[m][side] = new /\ G[m][side] = new
         /\ tree'[m][Opposite(side)] = tree[m][Opposite(side)]
         /\ G[m][Opposite(side)] = F[m][Opposite(side)]
    BY <3>3, <1>3, <1>4, <1>15 DEF LeafParent
   <4>2. Links = {"parent", side, Opposite(side)} BY <1>4 DEF Links, Sides
   <4> QED BY <3>1, <4>1, <4>2, <1>17
  <3> QED BY <3>2, <3>3
 <2>4. /\ \A f \in Links : tree'[new][f] = G[new][f]
       /\ ~isUnlinked(tree'[new].version) /\ ~G[new].gone
  <3>1. /\ tree'[new].left = NoNode /\ tree'[new].right = NoNode /\ tree'[new].parent = n
        /\ tree'[new].version = 0
   BY <1>3 DEF NodeRecord
  <3>2. G[new].left = NoNode /\ G[new].right = NoNode /\ G[new].parent = n /\ G[new].gone = FALSE
   BY <1>15
  <3>3. \A f \in Links : tree'[new][f] = G[new][f]
   <4>1. PICK a, b : a = tree'[new] /\ b = G[new] OBVIOUS
   <4>2. a.left = b.left /\ a.right = b.right /\ a.parent = b.parent BY <3>1, <3>2, <4>1
   <4>3. \A f \in Links : a[f] = b[f] BY <4>2 DEF Links
   <4> QED BY <4>1, <4>3
  <3>4. ~isUnlinked(tree'[new].version) BY <3>1, MarksAreUnlinked
  <3> QED BY <3>2, <3>3, <3>4
 <2>5. ASSUME NEW m \in Nodes'
       PROVE  /\ \A f \in Links : tree'[m][f] = G[m][f] \/ SomePending(m, f)'
              /\ (isUnlinked(tree'[m].version) <=> G[m].gone) \/ SomePending(m, "version")'
              /\ G[m].gone => ~tree'[m].value \/ SomePending(m, "value")'
  <3>1. m = new \/ m \in Nodes BY <1>2
  <3> QED BY <3>1, <2>3, <2>4
 <2> QED BY <2>1, <2>2, <2>5 DEF Reaches
<1>20. Agree(G)' BY <1>15, AgreeIsConstant
<1>21. ASSUME NEW u \in Threads \ {t} PROVE ThreadInv(u)'
 <2>1. u \notin tree[n].lock BY DEF Free
 <2>2. Keeps(u) BY <2>1, <1>2, <1>3 DEF Keeps, Nodes, LeafParent
 <2> QED BY <2>2, <1>1, OthersStay DEF AVLInv, MovesOnly
<1> QED BY <1>2, <1>9, <1>19, <1>20, <1>21 DEF FinalLinks

Linking(n, side, new) == [tree EXCEPT ![n][side] = new]
LinkedTrees(L, n, t) == {[L EXCEPT ![n].height = 2], [L EXCEPT ![n].lock = {t}]}
WithNode(n, q) == [m \in Nodes |-> IF m = n THEN q ELSE tree[m]]

LEMMA LeafParentOf ==
 ASSUME TreeShape, NEW t \in Threads, NEW n \in Nodes, Free(n), NEW side \in Sides, NEW new,
        NEW L, L = Linking(n, side, new), NEW X \in LinkedTrees(L, n, t)
 PROVE  \E q : LeafParent(q, t, n, side, new) /\ X = WithNode(n, q)
<1>1. PICK x : x = tree[n] OBVIOUS
<1>2. /\ x.lock = {} /\ x.height \in Nat \ {0}
      /\ x = [key |-> x.key, value |-> x.value, height |-> x.height, version |-> x.version,
              parent |-> x.parent, left |-> x.left, right |-> x.right, lock |-> x.lock]
 BY <1>1 DEF Free, TreeShape, NodeRecords
<1>3. PICK y : y = L[n] OBVIOUS
<1>4. /\ L = [m \in Nodes |-> IF m = n THEN y ELSE tree[m]]
      /\ y = [x EXCEPT ![side] = new]
 BY <1>1, <1>3 DEF TreeShape, Linking
<1>5. /\ y = [key |-> y.key, value |-> y.value, height |-> y.height, version |-> y.version,
              parent |-> y.parent, left |-> y.left, right |-> y.right, lock |-> y.lock]
      /\ y.key = x.key /\ y.value = x.value /\ y.height = x.height /\ y.version = x.version
      /\ y.parent = x.parent /\ y.lock = x.lock /\ y[side] = new /\ y[Opposite(side)] = x[Opposite(side)]
 <2>1. CASE side = "left" BY <1>2, <1>4, <2>1 DEF Opposite
 <2>2. CASE side = "right" BY <1>2, <1>4, <2>2 DEF Opposite
 <2> QED BY <2>1, <2>2 DEF Sides
<1>6. PICK q, r : q = [y EXCEPT !.height = 2] /\ r = [y EXCEPT !.lock = {t}] OBVIOUS
<1>7. LeafParent(q, t, n, side, new)
 <2>1. side \in {"left", "right"} /\ Opposite(side) \in {"left", "right"} BY DEF Sides, Opposite
 <2>2. q = [key |-> y.key, value |-> y.value, height |-> 2, version |-> y.version,
            parent |-> y.parent, left |-> y.left, right |-> y.right, lock |-> y.lock]
  BY <1>5, <1>6
 <2> QED BY <1>1, <1>2, <1>5, <2>1, <2>2 DEF LeafParent
<1>8. LeafParent(r, t, n, side, new)
 <2>1. side \in {"left", "right"} /\ Opposite(side) \in {"left", "right"} BY DEF Sides, Opposite
 <2>2. r = [key |-> y.key, value |-> y.value, height |-> y.height, version |-> y.version,
            parent |-> y.parent, left |-> y.left, right |-> y.right, lock |-> {t}]
  BY <1>5, <1>6
 <2> QED BY <1>1, <1>2, <1>5, <2>1, <2>2 DEF LeafParent
<1>9. ASSUME NEW T, NEW p, T = [L EXCEPT ![n] = p]
      PROVE  T = WithNode(n, p)
 BY <1>4, <1>9 DEF WithNode
<1>10. [L EXCEPT ![n].height = 2] = [L EXCEPT ![n] = q] /\ [L EXCEPT ![n].lock = {t}] = [L EXCEPT ![n] = r]
 BY <1>3, <1>6
<1>11. ASSUME NEW T, T \in {[L EXCEPT ![n] = q], [L EXCEPT ![n] = r]}
       PROVE  \E p : LeafParent(p, t, n, side, new) /\ T = WithNode(n, p)
 <2>1. CASE T = [L EXCEPT ![n] = q] BY <2>1, <1>7, <1>9
 <2>2. CASE T = [L EXCEPT ![n] = r] BY <2>2, <1>8, <1>9
 <2> QED BY <1>11, <2>1, <2>2
<1> QED BY <1>10, <1>11 DEF LinkedTrees

LEMMA JoinsLeaf ==
 ASSUME NEW n, NEW q, NEW new, new \notin Nodes, NEW k, NEW T, T = WithNode(n, q)
 PROVE  Adding(T, new, NodeRecord(k, TRUE, n)) = WithLeaf(n, q, new, k)
<1>1. DOMAIN T = Nodes /\ \A m \in Nodes : T[m] = IF m = n THEN q ELSE tree[m] BY DEF WithNode
<1> QED BY <1>1 DEF Adding, WithLeaf

LEMMA InsertStep ==
 ASSUME AVLInv, NEW t \in Threads, Insert(t), AVLTreeAssumption
 PROVE  AVLInv'
<1> DEFINE n == Node(t)
           k == Key(t)
           side == Direction(k, n)
           new == NewName(k)
<1>1. TreeShape /\ Variables /\ ThreadInv(t) /\ pc[t] = "insert" /\ Free(n) /\ Valid(t)
      /\ NextChild(t) = NoNode
 BY DEF AVLInv, Insert
<1>2. Descent(path[t]) BY <1>1, PathIsDescent DEF ThreadInv, Searching
<1>3. n \in Nodes /\ ~isUnlinked(tree[n].version) BY <1>1, <1>2, ValidIsLinked
<1>4. k \in Keys BY <1>1, CallHasKey DEF ThreadInv
<1>5. new \notin Nodes /\ new # NoNode /\ new[1] = k BY <1>1, <1>4, NewNames
<1>6. side \in Sides /\ tree[n][side] = NoNode BY <1>1, SidesOfKeys DEF NextChild, Child
<1>7. stores[t] = <<>> /\ after[t] = NoPlan /\ call[t] # NoCall
 BY <1>1 DEF ThreadInv, StoreInv, IdleInv
<1>8. PICK L : L = Linking(n, side, new) OBVIOUS
<1>9. PICK T \in LinkedTrees(L, n, t) : tree' = Adding(T, new, NodeRecord(k, TRUE, n))
 BY <1>8 DEF Insert, Lock, LinkedTrees, Linking
<1>10. PICK q : LeafParent(q, t, n, side, new) /\ tree' = WithLeaf(n, q, new, k)
 <2> HIDE DEF n, k, side, new
 <2>1. PICK q : LeafParent(q, t, n, side, new) /\ T = WithNode(n, q)
  BY <1>1, <1>3, <1>6, <1>8, <1>9, LeafParentOf
 <2>2. tree' = WithLeaf(n, q, new, k) BY <1>5, <1>9, <2>1, JoinsLeaf
 <2> QED BY <2>1, <2>2
<1>11. /\ UNCHANGED <<path, here, fix, stores, after, bounds>> /\ Changes(t, set \cup {k})
       /\ \/ pc' = [pc EXCEPT ![t] = "done"] /\ UNCHANGED cond
          \/ /\ pc' = [pc EXCEPT ![t] = "condition"]
             /\ cond' = [cond EXCEPT ![t] = [node |-> n, then |-> "fixHeight", got |-> <<>>]]
 BY DEF Insert, Examine, GoTo
<1> HIDE DEF n, k, side, new
<1>12. MovesOnly(t)
 <2>1. set \cup {k} \subseteq Keys BY <1>1, <1>4 DEF Variables, Abstract!SetTypeOK
 <2>2. Abstract!SetTypeOK' BY <1>1, <1>11, <2>1, ChangesTyped
 <2>3. pc' \in [Threads -> Labels] /\ DOMAIN cond' = Threads BY <1>1, <1>11 DEF Variables, Labels
 <2>4. Variables' BY <1>1, <1>11, <2>2, <2>3 DEF Variables, bounds
 <2>5. \A u \in Threads \ {t} : SameFor(u) BY <1>1, <1>11 DEF Variables, SameFor, Changes
 <2> QED BY <2>4, <2>5 DEF MovesOnly
<1>13. /\ TreeShape' /\ \E G : FinalLinks(G)'
       /\ \A u \in Threads \ {t} : ThreadInv(u)'
       /\ Nodes' = Nodes \cup {new}
 <2>1. stores'[t] = stores[t] BY <1>11
 <2> QED BY <1>1, <1>3, <1>4, <1>5, <1>6, <1>10, <1>12, <2>1, InsertReaches
<1>14. /\ path'[t] = path[t] /\ here'[t] = here[t] /\ fix'[t] = fix[t] /\ stores'[t] = <<>> /\ after'[t] = NoPlan
       /\ call'[t] = call[t] /\ pc'[t] \in {"done", "condition"} /\ Maybe \subseteq Maybe'
 BY <1>1, <1>7, <1>11, <1>13 DEF Variables, Changes, Maybe
<1>15. PathInv(t)'
 <2>1. path[t] \in Seq([node : Nodes, ovl : Nat]) /\ here[t] \in [child : Maybe, ovl : Nat]
  BY <1>1 DEF ThreadInv, PathInv
 <2>2. [node : Nodes, ovl : Nat] \subseteq [node : Nodes', ovl : Nat] BY <1>13
 <2>3. path[t] \in Seq([node : Nodes', ovl : Nat])
  <3>1. PICK R, S, s : R = [node : Nodes, ovl : Nat] /\ S = [node : Nodes', ovl : Nat] /\ s = path[t]
   OBVIOUS
  <3>2. s \in Seq(R) /\ R \subseteq S BY <2>1, <2>2, <3>1
  <3>3. s \in Seq(S) BY <3>2, SequencesGrow
  <3> QED BY <3>1, <3>3
 <2>4. here[t] \in [child : Maybe', ovl : Nat] BY <2>1, <1>14
 <2>5. path[t] # <<>> /\ path[t][1] = Activation(rootHolder, 0) /\ \A i \in DOMAIN path[t] : ~isUnlinked(path[t][i].ovl)
  BY <1>2 DEF Descent
 <2> QED BY <1>14, <2>3, <2>4, <2>5 DEF PathInv, AtKey, AtChild, Activation, rootHolder
<1>16. CondInv(t)'
 <2>1. CASE pc'[t] = "done" /\ cond'[t] = cond[t]
  <3>1. CondInv(t) BY <1>1 DEF ThreadInv
  <3>2. cond[t] \in [node : Maybe', then : Goals \cup {"none"}, got : Seq(Maybe' \cup (SUBSET BOOLEAN) \cup Nat)]
   <4>1. cond[t] \in [node : Maybe, then : Goals \cup {"none"}, got : Seq(Maybe \cup (SUBSET BOOLEAN) \cup Nat)]
    BY <3>1 DEF CondInv
   <4>2. Maybe \cup (SUBSET BOOLEAN) \cup Nat \subseteq Maybe' \cup (SUBSET BOOLEAN) \cup Nat
    BY <1>14
   <4>3. cond[t].got \in Seq(Maybe' \cup (SUBSET BOOLEAN) \cup Nat) BY <4>1, <4>2, SequencesGrow
   <4> QED BY <4>1, <4>3, <1>14
  <3> QED BY <3>1, <3>2, <2>1, <1>14 DEF CondInv, Goals
 <2>2. CASE pc'[t] = "condition" /\ cond'[t] = [node |-> n, then |-> "fixHeight", got |-> <<>>]
  <3>1. n \in Maybe' /\ n # NoNode BY <1>1, <1>3, <1>14 DEF Maybe, TreeShape
  <3>2. <<>> \in Seq(Maybe' \cup (SUBSET BOOLEAN) \cup Nat) /\ DOMAIN <<>> = {} OBVIOUS
  <3>3. ~ReadAll(cond[t])' BY <2>2 DEF ReadAll, Routing
  <3> QED BY <2>2, <3>1, <3>2, <3>3 DEF CondInv, Goals, NoNode
 <2> QED BY <1>1, <1>11, <2>1, <2>2 DEF Variables
<1>17. FixInv(t)'
 <2>1. ~Doing(t, "fixDecide")' /\ ~Doing(t, "rebalance")' BY <1>1, <1>11 DEF Doing, Variables
 <2>2. fix'[t] \in FixRecords' BY <1>1, <1>14 DEF ThreadInv, FixInv, FixRecords
 <2> QED BY <1>14, <2>1, <2>2 DEF FixInv, Heights
<1>18. StoresAreLocked(t)' /\ StoreInv(t)' /\ IdleInv(t)'
 BY <1>7, <1>14, RangeOfEmpty DEF StoresAreLocked, StoreInv, IdleInv
<1> QED BY <1>12, <1>13, <1>15, <1>16, <1>17, <1>18 DEF AVLInv, ThreadInv, MovesOnly

(* The value of a node that is linked changes under its lock. *)
LEMMA ValueChanges ==
 ASSUME AVLInv, NEW t \in Threads, MovesOnly(t), stores'[t] = stores[t],
        NEW n \in Nodes, Free(n), ~isUnlinked(tree[n].version), NEW v \in BOOLEAN,
        tree' = [tree EXCEPT ![n].value = v]
 PROVE  /\ TreeShape' /\ \E F : FinalLinks(F)'
        /\ \A u \in Threads \ {t} : ThreadInv(u)'
        /\ Nodes' = Nodes
<1>1. TreeShape /\ \A u \in Threads : StoresAreLocked(u) BY DEF AVLInv, ThreadInv
<1>2. Nodes' = Nodes /\ Maybe' = Maybe /\ NodeRecords' = NodeRecords /\ LinkRecords' = LinkRecords
 BY DEF Nodes, Maybe, NodeRecords, LinkRecords
<1>3. /\ \A m \in Nodes : m # n => tree'[m] = tree[m]
      /\ tree'[n] = [tree[n] EXCEPT !.value = v]
 BY <1>1 DEF TreeShape
<1>4. tree[n] \in NodeRecords BY <1>1 DEF TreeShape
<1>5. /\ tree'[n] \in NodeRecords
      /\ tree'[n].key = tree[n].key /\ tree'[n].version = tree[n].version /\ tree'[n].parent = tree[n].parent
      /\ tree'[n].left = tree[n].left /\ tree'[n].right = tree[n].right /\ tree'[n].lock = tree[n].lock
 BY <1>3, <1>4 DEF NodeRecords
<1>6. \A m \in Nodes :
      /\ tree'[m].key = tree[m].key /\ tree'[m].version = tree[m].version /\ tree'[m].parent = tree[m].parent
      /\ tree'[m].left = tree[m].left /\ tree'[m].right = tree[m].right /\ tree'[m].lock = tree[m].lock
 BY <1>3, <1>5
<1>7. TreeShape'
 <2>1. tree' \in [Nodes -> NodeRecords] BY <1>1, <1>3, <1>5 DEF TreeShape
 <2> QED BY <1>1, <1>2, <1>6, <2>1 DEF TreeShape, rootHolder
<1>8. PICK F : FinalLinks(F) BY DEF AVLInv
<1>9. \A u \in Threads : stores'[u] = stores[u] BY DEF MovesOnly, SameFor
<1>10. \A m, f : SomePending(m, f)' <=> SomePending(m, f) BY <1>9 DEF SomePending, Pending
<1>11. ~F[n].gone BY <1>1, <1>8, FreeIsQuiet, QuietLinks DEF FinalLinks
<1>12. Reaches(F)'
 <2>1. F \in [Nodes -> LinkRecords] /\ \A u \in Threads : \A w \in Range(stores'[u]) : Foresees(F, w)
  BY <1>8, <1>9 DEF FinalLinks, Reaches
 <2>2. ASSUME NEW m \in Nodes
       PROVE  /\ \A f \in Links : tree'[m][f] = F[m][f] \/ SomePending(m, f)'
              /\ (isUnlinked(tree'[m].version) <=> F[m].gone) \/ SomePending(m, "version")'
              /\ F[m].gone => ~tree'[m].value \/ SomePending(m, "value")'
  <3>1. /\ \A f \in Links : tree[m][f] = F[m][f] \/ SomePending(m, f)
        /\ (isUnlinked(tree[m].version) <=> F[m].gone) \/ SomePending(m, "version")
        /\ F[m].gone => ~tree[m].value \/ SomePending(m, "value")
   BY <1>8 DEF FinalLinks, Reaches
  <3>2. \A f \in Links : tree'[m][f] = tree[m][f] BY <1>6 DEF Links
  <3>3. F[m].gone => tree'[m].value = tree[m].value BY <1>3, <1>11
  <3> QED BY <3>1, <3>2, <3>3, <1>6, <1>10
 <2>3. \A w : Foresees(F, w)' <=> Foresees(F, w) BY DEF Foresees
 <2> QED BY <1>2, <2>1, <2>2, <2>3 DEF Reaches
<1>13. Agree(F)' BY <1>8, AgreeIsConstant DEF FinalLinks
<1>14. ASSUME NEW u \in Threads \ {t} PROVE ThreadInv(u)'
 <2>1. u \notin tree[n].lock BY DEF Free
 <2>2. Keeps(u) BY <2>1, <1>2, <1>3, <1>6 DEF Keeps, Nodes
 <2> QED BY <2>2, <1>1, OthersStay DEF AVLInv, MovesOnly
<1> QED BY <1>2, <1>7, <1>12, <1>13, <1>14 DEF FinalLinks

(* An update in place. *)
LEMMA UpdateValueStep ==
 ASSUME AVLInv, NEW t \in Threads, UpdateValue(t)
 PROVE  AVLInv'
<1>1. TreeShape /\ Variables /\ ThreadInv(t) /\ PathInv(t) /\ pc[t] = "update"
 BY DEF AVLInv, ThreadInv, UpdateValue
<1>2. Descent(path[t]) BY <1>1, PathIsDescent DEF AtKey
<1>3. Node(t) \in Nodes BY <1>2, DescentEnds DEF Node
<1>4. PICK n, v : n = Node(t) /\ v = (call[t].op = "add") OBVIOUS
<1>5. /\ n \in Nodes /\ v \in BOOLEAN /\ Free(n) /\ ~isUnlinked(tree[n].version)
      /\ tree' = [tree EXCEPT ![n].value = v] /\ pc' = [pc EXCEPT ![t] = "done"]
      /\ UNCHANGED <<locals, bounds>>
 BY <1>3, <1>4 DEF UpdateValue, GoTo
<1>6. Key(t) \in Keys BY <1>1, CallHasKey DEF ThreadInv
<1>7. PICK S : S = IF v THEN set \cup {Key(t)} ELSE set \ {Key(t)} OBVIOUS
<1>8. S \subseteq Keys /\ Changes(t, S)
 BY <1>1, <1>4, <1>6, <1>7 DEF UpdateValue, Variables, Abstract!SetTypeOK
<1>9. MovesOnly(t)
 <2>1. Abstract!SetTypeOK' BY <1>1, <1>8, ChangesTyped
 <2>2. pc' \in [Threads -> Labels] BY <1>1, <1>5 DEF Variables, Labels
 <2>3. Variables' BY <1>1, <1>5, <2>1, <2>2 DEF Variables, bounds, locals
 <2>4. \A u \in Threads \ {t} : SameFor(u)
  BY <1>1, <1>5, <1>8 DEF Variables, SameFor, Changes, locals
 <2> QED BY <2>3, <2>4 DEF MovesOnly
<1>10. /\ TreeShape' /\ \E F : FinalLinks(F)'
       /\ \A u \in Threads \ {t} : ThreadInv(u)'
       /\ Nodes' = Nodes
 <2>1. stores'[t] = stores[t] BY <1>5 DEF locals
 <2> QED BY <1>5, <1>9, <2>1, ValueChanges
<1>11. /\ pc'[t] = "done" /\ path'[t] = path[t] /\ here'[t] = here[t] /\ cond'[t] = cond[t] /\ fix'[t] = fix[t]
       /\ stores'[t] = <<>> /\ after'[t] = NoPlan /\ call'[t] = call[t] /\ call[t] # NoCall
 BY <1>1, <1>5, <1>8 DEF Variables, locals, ThreadInv, StoreInv, IdleInv, Changes
<1>12. PathInv(t)'
 <2>1. Maybe' = Maybe BY <1>10 DEF Maybe
 <2> QED BY <1>1, <1>2, <1>10, <1>11, <2>1 DEF PathInv, Descent, AtKey, AtChild
<1>13. CondInv(t)' /\ FixInv(t)'
 BY <1>1, <1>10, <1>11, CondAside, FixAside DEF ThreadInv, Goals, Searching
<1>14. StoresAreLocked(t)' /\ StoreInv(t)' /\ IdleInv(t)'
 BY <1>11, RangeOfEmpty DEF StoresAreLocked, StoreInv, IdleInv
<1> QED BY <1>9, <1>10, <1>12, <1>13, <1>14 DEF AVLInv, ThreadInv, MovesOnly

(* The parent of the innermost activation. *)
LEMMA ParentInTree ==
 ASSUME NEW p, Descent(p), Len(p) > 1
 PROVE  Last(Front(p)).node \in Nodes /\ ~isUnlinked(Last(Front(p)).ovl)
 BY FrontDescends, DescentEnds

LEMMA LockUnlinkParentStep ==
 ASSUME AVLInv, NEW t \in Threads, LockUnlinkParent(t)
 PROVE  AVLInv'
<1>1. TreeShape /\ Variables /\ ThreadInv(t) /\ PathInv(t) /\ pc[t] = "unlinkParent" /\ Free(Parent(t))
      /\ UNCHANGED <<here, cond, fix, stores, after, history, bounds>>
 BY DEF AVLInv, ThreadInv, LockUnlinkParent
<1>2. Descent(path[t]) /\ Len(path[t]) > 1 BY <1>1, PathIsDescent DEF AtKey
<1>3. Parent(t) \in Nodes BY <1>2, ParentInTree DEF Parent
<1>4. CASE Retry(t) /\ UNCHANGED tree BY <1>1, <1>2, <1>4, UnchangedTree, RetryStep DEF AtKey
<1>5. CASE /\ ~isUnlinked(tree[Parent(t)].version)
           /\ tree' = Lock(tree, Parent(t), t) /\ GoTo(t, "unlinkNode") /\ UNCHANGED path
 <2>1. PICK p : p = Parent(t) OBVIOUS
 <2>2. OnlyLocks(t) /\ Holds(t, p)' /\ Nodes' = Nodes
  BY <1>1, <1>3, <1>5, <2>1, TakesLock, LocksKeep
 <2>3. pc' = [pc EXCEPT ![t] = "unlinkNode"] BY <1>5 DEF GoTo
 <2>4. MovesOnly(t)
  <3>1. Variables'
   BY <1>1, <1>5, <2>3 DEF Variables, bounds, history, Labels, Abstract!SetTypeOK,
      Abstract!SetCalls, Abstract!NoCall, Abstract!Results
  <3>2. \A u \in Threads \ {t} : SameFor(u) BY <1>1, <1>5, <2>3 DEF Variables, SameFor, history
  <3> QED BY <3>1, <3>2 DEF MovesOnly
 <2>5. /\ pc'[t] = "unlinkNode" /\ path'[t] = path[t] /\ here'[t] = here[t] /\ cond'[t] = cond[t]
       /\ fix'[t] = fix[t] /\ stores[t] = <<>> /\ stores'[t] = <<>> /\ after'[t] = NoPlan /\ call'[t] = call[t]
  BY <1>1, <1>5, <2>3 DEF Variables, ThreadInv, StoreInv, history
 <2>6. PathInv(t)'
  <3>1. Parent(t)' = p BY <2>1, <2>5 DEF Parent
  <3>2. ~isUnlinked(tree'[p].version) BY <1>3, <1>5, <2>1, <2>2 DEF OnlyLocks
  <3>3. Holds(t, Parent(t))' /\ ~isUnlinked(tree[Parent(t)].version)'
   <4>1. t \in tree'[p].lock /\ p \in Nodes' BY <2>2 DEF Holds
   <4> QED BY <3>1, <3>2, <4>1 DEF Holds
  <3>4. Maybe' = Maybe BY <2>2 DEF Maybe
  <3> QED BY <1>1, <1>2, <2>2, <2>5, <3>3, <3>4 DEF PathInv, Descent, AtKey, AtChild
 <2>7. CondInv(t)' /\ FixInv(t)'
  BY <1>1, <2>2, <2>5, CondAside, FixAside DEF ThreadInv, Goals, AtKey
 <2> QED BY <1>1, <2>2, <2>4, <2>5, <2>6, <2>7, LocalStep
<1> QED BY <1>4, <1>5 DEF LockUnlinkParent

(* The node is spliced out. *)
LEMMA UnlinkStep ==
 ASSUME AVLInv, NEW t \in Threads, Unlink(t)
 PROVE  AVLInv'
<1>1. TreeShape /\ Variables /\ ThreadInv(t) /\ PathInv(t) /\ pc[t] = "unlinkNode"
      /\ \A u \in Threads : StoresAreLocked(u)
 BY DEF AVLInv, ThreadInv, Unlink
<1>2. Descent(path[t]) /\ Len(path[t]) > 1 BY <1>1, PathIsDescent DEF AtKey
<1>3. PICK p, n : p = Parent(t) /\ n = Node(t) OBVIOUS
<1>4. p \in Nodes /\ n \in Nodes BY <1>2, <1>3, ParentInTree, DescentEnds DEF Parent, Node
<1>5. Holds(t, p) /\ ~isUnlinked(tree[p].version) /\ Free(n) /\ CanUnlink(p, n) /\ n # p
 BY <1>1, <1>3 DEF PathInv, Unlink, Holds, Free
<1>6. PICK s, b : s = Splice(n) /\ b = SideOf(p, n) OBVIOUS
<1>7. /\ tree' = Lock([tree EXCEPT ![p][b] = s], n, t)
      /\ stores' = [stores EXCEPT ![t] = UnlinkWrites(p, n)]
      /\ after' = [after EXCEPT ![t] = Plan("unlinked", p)]
      /\ pc' = [pc EXCEPT ![t] = "store"]
      /\ Changes(t, set \ {Key(t)})
      /\ UNCHANGED <<path, here, cond, fix, bounds>>
 BY <1>3, <1>6 DEF Unlink, Perform, GoTo
<1>8. stores[t] = <<>> /\ call[t] # NoCall BY <1>1 DEF ThreadInv, StoreInv, IdleInv
<1>9. b \in Sides /\ tree[p][b] = n /\ n # NoNode /\ NoNode \in {tree[n].left, tree[n].right}
      /\ s = (IF tree[n].left # NoNode THEN tree[n].left ELSE tree[n].right)
 BY <1>1, <1>4, <1>5, <1>6, TreeFields DEF CanUnlink, SideOf, Sides, Splice
<1>10. PICK F : FinalLinks(F) BY DEF AVLInv
<1>11. IsForest(F) /\ DOMAIN F = Nodes /\ Agree(F) /\ Reaches(F)
 BY <1>1, <1>10, ForestOfNodes DEF FinalLinks
<1>12. QuietAt(p) /\ QuietAt(n) BY <1>1, <1>5, <1>8, MineIsQuiet, FreeIsQuiet
<1>13. /\ n # rootHolder /\ tree[n].parent = p /\ F[p][b] = n /\ ~F[p].gone /\ ~F[n].gone /\ F[n].parent = p
 BY <1>1, <1>4, <1>5, <1>9, <1>10, <1>12, ChildOfQuiet
<1>14. tree[n].left = F[n].left /\ tree[n].right = F[n].right /\ ~isUnlinked(tree[n].version)
 BY <1>1, <1>4, <1>11, <1>12, <1>13, QuietLinks
<1>15. s # NoNode => /\ s \in Nodes /\ s # rootHolder /\ tree[s].parent = n
 <2>1. s = tree[n].left \/ s = tree[n].right BY <1>9
 <2>2. CASE s = tree[n].left
  <3>1. s = tree[n]["left"] /\ "left" \in Sides BY <2>2 DEF Sides
  <3> QED BY <3>1, <1>1, <1>4, <1>10, <1>12, <1>14, ChildOfQuiet
 <2>3. CASE s = tree[n].right
  <3>1. s = tree[n]["right"] /\ "right" \in Sides BY <2>3 DEF Sides
  <3> QED BY <3>1, <1>1, <1>4, <1>10, <1>12, <1>14, ChildOfQuiet
 <2> QED BY <2>1, <2>2, <2>3
<1>16. PICK G : G = AfterUnlink(F, p, n, s) OBVIOUS
<1>17. IsForest(G) /\ Agree(G) /\ s # n
 <2>1. IsChild(F, p, n) BY <1>9, <1>13 DEF IsChild
 <2>2. s = (IF F[n].left # NoNode THEN F[n].left ELSE F[n].right) /\ NoNode \in {F[n].left, F[n].right}
  BY <1>9, <1>14
 <2>3. p \in DOMAIN F /\ n \in DOMAIN F /\ p # n BY <1>4, <1>5, <1>11
 <2> QED BY <2>1, <2>2, <2>3, <1>11, <1>13, <1>16, UnlinkAgrees
<1>18. /\ DOMAIN G = Nodes
       /\ \A x \in Nodes :
            /\ \A side \in Sides : G[x][side] = IF x = p /\ F[p][side] = n THEN s ELSE F[x][side]
            /\ G[x].parent = IF x = s THEN p ELSE F[x].parent
            /\ G[x].gone = (F[x].gone \/ x = n)
 BY <1>11, <1>16, UnlinkLinks
<1>19. \A side \in Sides : F[p][side] = n <=> side = b
 <2>1. F[p].left # NoNode => F[p].left # F[p].right BY <1>4, <1>11, <1>13 DEF Agree
 <2> QED BY <2>1, <1>9, <1>13 DEF Sides
<1>20. /\ DOMAIN tree' = Nodes
       /\ \A m \in Nodes : m \notin {p, n} => tree'[m] = tree[m]
       /\ tree'[n] = [tree[n] EXCEPT !.lock = {t}]
       /\ tree'[p] = [tree[p] EXCEPT ![b] = s]
 BY <1>1, <1>4, <1>5, <1>7 DEF Lock, TreeShape, Nodes
<1>21. Nodes' = Nodes /\ Maybe' = Maybe /\ NodeRecords' = NodeRecords /\ LinkRecords' = LinkRecords
 BY <1>20 DEF Nodes, Maybe, NodeRecords, LinkRecords
<1>22. /\ tree'[p] \in NodeRecords
       /\ \A f \in Fields : tree'[p][f] = IF f = b THEN s ELSE tree[p][f]
 <2>1. PICK x, y : x = tree[p] /\ y = tree'[p] OBVIOUS
 <2>2. x \in NodeRecords /\ y = [x EXCEPT ![b] = s] BY <1>1, <1>4, <1>20, <2>1 DEF TreeShape
 <2>3. DOMAIN x = Fields BY <2>2 DEF NodeRecords, Fields
 <2>4. \A f \in Fields : y[f] = IF f = b THEN s ELSE x[f] BY <2>2, <2>3
 <2>5. s \in Maybe BY <1>15 DEF Maybe
 <2>6. y \in NodeRecords BY <2>2, <2>5, <1>9 DEF NodeRecords, Sides
 <2> QED BY <2>1, <2>4, <2>6
<1>23. /\ tree'[n] \in NodeRecords
       /\ \A f \in Fields : tree'[n][f] = IF f = "lock" THEN {t} ELSE tree[n][f]
 <2>1. PICK x, y : x = tree[n] /\ y = tree'[n] OBVIOUS
 <2>2. x \in NodeRecords /\ y = [x EXCEPT !.lock = {t}] BY <1>1, <1>4, <1>20, <2>1 DEF TreeShape
 <2>3. \A f \in Fields : y[f] = IF f = "lock" THEN {t} ELSE x[f] BY <2>2 DEF NodeRecords, Fields
 <2>4. y \in NodeRecords BY <2>2 DEF NodeRecords
 <2> QED BY <2>1, <2>3, <2>4
<1>24. \A m \in Nodes :
         /\ tree'[m].key = tree[m].key /\ tree'[m].value = tree[m].value /\ tree'[m].height = tree[m].height
         /\ tree'[m].version = tree[m].version /\ tree'[m].parent = tree[m].parent
         /\ m # n => tree'[m].lock = tree[m].lock
         /\ \A side \in Sides : tree'[m][side] = IF m = p /\ side = b THEN s ELSE tree[m][side]
 <2>1. Sides \subseteq Fields /\ {"key", "value", "height", "version", "parent", "lock"} \subseteq Fields
       /\ Sides \cap {"key", "value", "height", "version", "parent", "lock"} = {}
  BY DEF Sides, Fields
 <2>2. \A m \in Nodes : \A f \in Fields :
         m \notin {p, n} \/ (m = p /\ f # b) \/ (m = n /\ f # "lock") => tree'[m][f] = tree[m][f]
  BY <1>20, <1>22, <1>23
 <2>3. tree'[p][b] = s BY <1>9, <1>22, <2>1
 <2>4. ASSUME NEW m \in Nodes
       PROVE  /\ \A f \in {"key", "value", "height", "version", "parent"} : tree'[m][f] = tree[m][f]
              /\ m # n => tree'[m]["lock"] = tree[m]["lock"]
              /\ \A side \in Sides : tree'[m][side] = IF m = p /\ side = b THEN s ELSE tree[m][side]
  BY <2>1, <2>2, <2>3, <1>9
 <2> QED BY <2>4
<1>25. TreeShape'
 <2>1. tree' \in [Nodes -> NodeRecords]
  <3>1. \A m \in Nodes : tree'[m] \in NodeRecords BY <1>1, <1>20, <1>22, <1>23 DEF TreeShape
  <3>2. tree' = [m \in DOMAIN tree' |-> tree'[m]] BY <1>7 DEF Lock
  <3> QED BY <3>1, <3>2, <1>20
 <2>2. tree'[n].lock = {t} BY <1>23 DEF Fields
 <2> QED BY <1>1, <1>21, <1>24, <2>1, <2>2 DEF TreeShape, rootHolder
<1>26. \A u \in Threads \ {t} : Keeps(u)
 <2>1. ASSUME NEW u \in Threads \ {t} PROVE u \notin tree[n].lock /\ u \notin tree[p].lock
  BY <1>1, <1>4, <1>5 DEF Holds, Free, TreeShape
 <2>2. ASSUME NEW u \in Threads \ {t}, NEW m \in Nodes, u \in tree[m].lock
       PROVE  /\ u \in tree'[m].lock
              /\ tree'[m].left = tree[m].left /\ tree'[m].right = tree[m].right
              /\ tree'[m].version = tree[m].version /\ tree'[m].value = tree[m].value
  <3>1. m \notin {n, p} BY <2>1, <2>2
  <3> QED BY <2>2, <3>1, <1>20
 <2> QED BY <2>2, <1>20, <1>24 DEF Keeps
<1>27. MovesOnly(t)
 <2>1. set \ {Key(t)} \subseteq Keys BY <1>1 DEF Variables, Abstract!SetTypeOK
 <2>2. Abstract!SetTypeOK' BY <1>1, <1>7, <2>1, ChangesTyped
 <2>3. pc' \in [Threads -> Labels] /\ DOMAIN stores' = Threads /\ DOMAIN after' = Threads
  BY <1>1, <1>7 DEF Variables, Labels
 <2>4. Variables' BY <1>1, <1>7, <2>2, <2>3 DEF Variables, bounds
 <2>5. \A u \in Threads \ {t} : SameFor(u) BY <1>1, <1>7 DEF Variables, SameFor, Changes
 <2> QED BY <2>4, <2>5 DEF MovesOnly
<1>28. /\ pc'[t] = "store" /\ path'[t] = path[t] /\ here'[t] = here[t] /\ cond'[t] = cond[t] /\ fix'[t] = fix[t]
       /\ stores'[t] = UnlinkWrites(p, n) /\ after'[t] = [then |-> "unlinked", node |-> p] /\ call'[t] = call[t]
 BY <1>1, <1>7 DEF Variables, Changes, Plan
<1>29. PICK a, v, w : a = Write(s, "parent", p) /\ v = Write(n, "version", UnlinkedOVL) /\ w = Write(n, "value", FALSE)
 OBVIOUS
<1>30. v \in Writes /\ w \in Writes /\ (s # NoNode => a \in Writes)
 BY <1>4, <1>13, <1>15, <1>29, MarksAreUnlinked DEF Writes, Write
<1>31. /\ stores'[t] \in Seq(Writes)
       /\ Range(stores'[t]) = {v, w} \cup (IF s = NoNode THEN {} ELSE {a})
 <2>1. PICK W : W = Writes OBVIOUS
 <2>2. <<v, w>> \in Seq(W) /\ Range(<<v, w>>) = {v, w} BY <1>30, <2>1, RangeOfTwo
 <2>3. CASE s = NoNode
  <3>1. stores'[t] = <<>> \o <<v, w>> BY <2>3, <1>6, <1>28, <1>29 DEF UnlinkWrites
  <3>2. <<>> \in Seq(W) OBVIOUS
  <3> QED BY <2>1, <2>2, <2>3, <3>1, <3>2, RangeOfConcat, RangeOfEmpty
 <2>4. CASE s # NoNode
  <3>1. stores'[t] = <<a>> \o <<v, w>> BY <2>4, <1>6, <1>28, <1>29 DEF UnlinkWrites
  <3>2. <<a>> \in Seq(W) /\ Range(<<a>>) = {a} BY <1>30, <2>1, <2>4, RangeOfOne
  <3>3. PICK q, r : q = <<a>> /\ r = <<v, w>> OBVIOUS
  <3>4. q \in Seq(W) /\ r \in Seq(W) /\ Range(q) = {a} /\ Range(r) = {v, w} /\ stores'[t] = q \o r
   BY <2>2, <3>1, <3>2, <3>3
  <3>5. stores'[t] \in Seq(W) /\ Range(stores'[t]) = Range(q) \cup Range(r)
   <4>1. q \o r \in Seq(W) /\ Range(q \o r) = Range(q) \cup Range(r) BY <3>4, RangeOfConcat
   <4> QED BY <3>4, <4>1
  <3> QED BY <2>1, <2>4, <3>4, <3>5
 <2> QED BY <2>3, <2>4
<1>32. /\ v.node = n /\ v.field = "version" /\ v.value = UnlinkedOVL
       /\ w.node = n /\ w.field = "value" /\ w.value = FALSE
       /\ a.node = s /\ a.field = "parent" /\ a.value = p
 BY <1>29 DEF Write
<1>33. t \in tree'[p].lock /\ t \in tree'[n].lock BY <1>4, <1>5, <1>23, <1>24 DEF Holds, Fields
<1>34. StoresAreLocked(t)'
 <2>1. Writes' = Writes BY <1>21 DEF Writes, rootHolder
 <2>2. ASSUME NEW x \in Range(stores'[t]) PROVE Entitled(t, x)'
  <3>1. CASE x \in {v, w} BY <3>1, <1>4, <1>21, <1>32, <1>33 DEF Entitled, Holds
  <3>2. CASE s # NoNode /\ x = a
   <4>1. tree'[x.node].parent = n /\ x.value = p /\ x.field = "parent" BY <3>2, <1>15, <1>24, <1>32
   <4> QED BY <4>1, <1>4, <1>21, <1>33 DEF Entitled, Holds
  <3> QED BY <2>2, <3>1, <3>2, <1>31
 <2> QED BY <1>31, <2>1, <2>2 DEF StoresAreLocked
<1>35. PathInv(t)'
 BY <1>1, <1>2, <1>21, <1>28 DEF PathInv, Descent, Searching, AtKey, AtChild, Activation, rootHolder
<1>36. CondInv(t)' BY <1>1, <1>21, <1>28, CondAside DEF ThreadInv, Goals
<1>37. FixInv(t)'
 <2>1. ~Doing(t, "fixDecide")' /\ ~Doing(t, "rebalance")' BY <1>28 DEF Doing
 <2>2. fix'[t] \in FixRecords' BY <1>1, <1>21, <1>28 DEF ThreadInv, FixInv, FixRecords
 <2> QED BY <1>28, <2>1, <2>2 DEF FixInv, Heights, Plan
<1>38. StoreInv(t)' /\ IdleInv(t)' BY <1>4, <1>8, <1>21, <1>28 DEF StoreInv, IdleInv, NoPlan
<1>39. Redirects(t, F, G)
 <2>1. G \in [Nodes -> LinkRecords] BY <1>17, <1>18 DEF IsForest, LinkRecords, Maybe
 <2>2. ASSUME NEW x \in Range(stores'[t]) PROVE Foresees(G, x)
  <3>1. CASE x \in {v, w} BY <3>1, <1>4, <1>18, <1>32, MarksAreUnlinked DEF Foresees, Links
  <3>2. CASE s # NoNode /\ x = a BY <3>2, <1>15, <1>18, <1>32 DEF Foresees, Links
  <3> QED BY <2>2, <3>1, <3>2, <1>31
 <2>3. ASSUME NEW x \in Nodes, NEW side \in Sides
       PROVE  \/ G[x][side] = F[x][side] /\ tree'[x][side] = tree[x][side]
              \/ t \in tree'[x].lock /\ tree'[x][side] = G[x][side]
  <3>1. CASE x = p /\ side = b BY <3>1, <1>18, <1>19, <1>24, <1>33
  <3>2. CASE ~(x = p /\ side = b) BY <3>2, <1>18, <1>19, <1>24
  <3> QED BY <3>1, <3>2
 <2>4. \A x, f : (\E y \in Range(stores'[t]) : y.node = x /\ y.field = f) <=> Pending(t, x, f)'
  BY DEF Pending
 <2>5. ASSUME NEW x \in Nodes
       PROVE  \/ G[x].parent = F[x].parent
              \/ (\E m \in Nodes : m = tree[x].parent /\ t \in tree'[m].lock) /\ Pending(t, x, "parent")'
  <3>1. CASE x = s
   <4>1. s # NoNode BY <3>1, <1>1 DEF TreeShape
   <4>2. tree[x].parent = n /\ t \in tree'[n].lock /\ a \in Range(stores'[t]) /\ a.node = x /\ a.field = "parent"
    BY <3>1, <4>1, <1>15, <1>31, <1>32, <1>33
   <4> QED BY <4>2, <2>4, <1>4
  <3>2. CASE x # s BY <3>2, <1>18
  <3> QED BY <3>1, <3>2
 <2>6. ASSUME NEW x \in Nodes
       PROVE  \/ G[x].gone = F[x].gone
              \/ G[x].gone /\ t \in tree'[x].lock /\ Pending(t, x, "version")' /\ Pending(t, x, "value")'
  <3>1. CASE x = n
   <4>1. v \in Range(stores'[t]) /\ w \in Range(stores'[t]) BY <1>31
   <4>2. Pending(t, x, "version")' /\ Pending(t, x, "value")' BY <3>1, <4>1, <2>4, <1>32
   <4>3. G[x].gone BY <3>1, <1>18
   <4> QED BY <3>1, <4>2, <4>3, <1>33
  <3>2. CASE x # n
   <4>1. F[x].gone \in BOOLEAN BY <1>11 DEF Reaches, LinkRecords
   <4> QED BY <3>2, <4>1, <1>18
  <3> QED BY <3>1, <3>2
 <2> QED BY <2>1, <2>2, <2>3, <2>5, <2>6, <1>24 DEF Redirects
<1>40. Reaches(G)' /\ Agree(G)'
 BY <1>8, <1>11, <1>17, <1>20, <1>25, <1>26, <1>27, <1>39, RedirectReaches, AgreeIsConstant
<1>41. \A u \in Threads \ {t} : ThreadInv(u)'
 BY <1>1, <1>26, <1>27, OthersStay DEF AVLInv, MovesOnly
<1> QED BY <1>25, <1>27, <1>34, <1>35, <1>36, <1>37, <1>38, <1>40, <1>41 DEF AVLInv, ThreadInv, MovesOnly, FinalLinks

LEMMA UpdatingStep ==
 ASSUME AVLInv, NEW t \in Threads, Updating(t), AVLTreeAssumption
 PROVE  AVLInv'
<1>1. TreeShape /\ Variables /\ ThreadInv(t) /\ PathInv(t) BY DEF AVLInv, ThreadInv
<1>2. pc[t] \in AtKey \cup {"insert", "done"}
 BY DEF Updating, InsertFails, Insert, Done, ReadValue, ReadLinks, UpdateRetries, UpdateRefused,
    UpdateValue, LockUnlinkParent, UnlinkRefused, UnlinkRetries, Unlink, AtKey
<1>3. pc[t] \in Searching \cup AtKey /\ pc[t] # "store" BY <1>2 DEF Searching, AtKey
<1>4. Descent(path[t]) /\ (pc[t] \in AtKey => Len(path[t]) > 1) BY <1>1, <1>3, PathIsDescent
<1>6. ASSUME InsertFails(t) PROVE AVLInv'
 <2>1. CASE ~Valid(t) /\ Retry(t)
  <3>1. Len(path[t]) > 1 BY <1>1, <1>4, <2>1, InvalidIsDeep
  <3>2. OnlyLocks(t) BY <1>1, <1>6, UnchangedTree DEF InsertFails
  <3> QED BY <1>3, <1>6, <2>1, <3>1, <3>2, RetryStep DEF InsertFails
 <2>2. CASE GoTo(t, "child") /\ UNCHANGED path
  <3>1. UNCHANGED <<tree, locals, history, bounds>> BY <1>6, <2>2 DEF InsertFails, locals
  <3>2. "child" \in Searching /\ "child" \notin AtKey \cup AtChild BY DEF Searching, AtKey, AtChild
  <3> QED BY <1>3, <2>2, <3>1, <3>2, GoOnStep
 <2> QED BY <1>6, <2>1, <2>2 DEF InsertFails
<1>7. ASSUME Insert(t) PROVE AVLInv' BY <1>7, InsertStep
<1>8. ASSUME Done(t) PROVE AVLInv' BY <1>3, <1>8, ReturnStep DEF Done
<1>9. ASSUME ReadValue(t) PROVE AVLInv'
 <2>1. CASE GoTo(t, "nodeLeft") /\ UNCHANGED <<tree, locals, history, bounds>>
  <3>1. "nodeLeft" \in AtKey \ {"unlinkNode"} /\ "nodeLeft" \notin AtChild \cup {"recheck", "validate"}
        /\ pc[t] \in AtKey
   BY <1>9 DEF ReadValue, AtKey, AtChild
  <3> QED BY <2>1, <3>1, GoOnStep
 <2> QED BY <1>3, <1>9, <2>1, ReturnStep DEF ReadValue
<1>10. ASSUME ReadLinks(t) PROVE AVLInv'
 <2>1. PICK l : l \in {"unlinkParent", "nodeRight", "update"} /\ GoTo(t, l) BY <1>10 DEF ReadLinks
 <2>2. l \in AtKey \ {"unlinkNode"} /\ l \notin AtChild \cup {"recheck", "validate"} /\ pc[t] \in AtKey
  BY <1>10, <2>1 DEF ReadLinks, AtKey, AtChild
 <2> QED BY <1>10, <2>1, <2>2, GoOnStep DEF ReadLinks
<1>11. ASSUME UpdateRetries(t) PROVE AVLInv'
 <2>1. OnlyLocks(t) /\ Len(path[t]) > 1 BY <1>1, <1>4, <1>11, UnchangedTree DEF UpdateRetries, AtKey
 <2> QED BY <1>3, <1>11, <2>1, RetryStep DEF UpdateRetries
<1>12. ASSUME UpdateRefused(t) PROVE AVLInv' BY <1>3, <1>12, ReturnStep DEF UpdateRefused
<1>13. ASSUME UpdateValue(t) PROVE AVLInv' BY <1>13, UpdateValueStep
<1>14. ASSUME LockUnlinkParent(t) PROVE AVLInv' BY <1>14, LockUnlinkParentStep
<1>15. ASSUME UnlinkRefused(t) PROVE AVLInv' BY <1>3, <1>15, ReturnStep DEF UnlinkRefused
<1>16. ASSUME UnlinkRetries(t) PROVE AVLInv'
 <2>1. OnlyLocks(t) /\ Len(path[t]) > 1 BY <1>1, <1>4, <1>16, UnlocksAll DEF UnlinkRetries, AtKey
 <2> QED BY <1>3, <1>16, <2>1, RetryStep DEF UnlinkRetries
<1>17. ASSUME Unlink(t) PROVE AVLInv' BY <1>17, UnlinkStep
<1> QED BY <1>6, <1>7, <1>8, <1>9, <1>10, <1>11, <1>12, <1>13, <1>14, <1>15, <1>16, <1>17 DEF Updating

-----------------------------------------------------------------------------
(* Rebalancing: the descent is over, and no store is to come. *)
Repairing == {"condition", "fixHeight", "fixParent", "fix", "fixDecide", "fixLock",
              "readParent", "lockParent", "lockNode", "rebalance", "lockChild",
              "outerFirst", "outerLast", "innerFirst", "innerLast", "rotate", "near", "far"}

LEMMA RepairStep ==
 ASSUME AVLInv, NEW t \in Threads, OnlyLocks(t), stores[t] = <<>>,
        UNCHANGED <<path, here, stores, history, bounds>>, pc[t] # "idle",
        DOMAIN after' = Threads, after'[t] = NoPlan, \A u \in Threads \ {t} : after'[u] = after[u],
        NEW l \in Repairing, pc' = [pc EXCEPT ![t] = l],
        NEW c, cond' = [cond EXCEPT ![t] = c] \/ (cond' = cond /\ c = cond[t]),
        NEW f, fix' = [fix EXCEPT ![t] = f] \/ (fix' = fix /\ f = fix[t]),
        CondInv(t)', FixInv(t)'
 PROVE  AVLInv'
<1>1. TreeShape /\ Variables /\ ThreadInv(t) BY DEF AVLInv
<1>2. Nodes' = Nodes BY <1>1, LocksKeep
<1>3. l \in Labels /\ l \notin Searching \cup AtKey \cup {"store", "idle"}
 BY DEF Repairing, Labels, Searching, AtKey
<1>4. MovesOnly(t)
 <2>1. Variables'
  BY <1>1, <1>3 DEF Variables, bounds, history, Abstract!SetTypeOK, Abstract!SetCalls,
     Abstract!NoCall, Abstract!Results
 <2>2. \A u \in Threads \ {t} : SameFor(u) BY <1>1 DEF Variables, SameFor, history
 <2> QED BY <2>1, <2>2 DEF MovesOnly
<1>5. pc'[t] = l /\ path'[t] = path[t] /\ here'[t] = here[t] /\ stores'[t] = <<>> /\ call'[t] = call[t]
 BY <1>1 DEF Variables, history
<1>6. PathInv(t)' BY <1>1, <1>2, <1>3, <1>5, PathAside DEF ThreadInv
<1> QED BY <1>3, <1>4, <1>5, <1>6, LocalStep

LEMMA ExamineStep ==
 ASSUME AVLInv, NEW t \in Threads, OnlyLocks(t), stores[t] = <<>>,
        UNCHANGED <<path, here, stores, history, bounds>>, pc[t] # "idle",
        DOMAIN after' = Threads, after'[t] = NoPlan, \A u \in Threads \ {t} : after'[u] = after[u],
        NEW n \in Nodes, NEW goal \in Goals, Examine(t, n, goal), UNCHANGED fix,
        goal # "fixHeight" => FixInv(t)'
 PROVE  AVLInv'
<1>1. TreeShape /\ Variables /\ ThreadInv(t) BY DEF AVLInv
<1>2. Nodes' = Nodes BY <1>1, LocksKeep
<1>3. PICK c : c = [node |-> n, then |-> goal, got |-> <<>>] OBVIOUS
<1>4. cond' = [cond EXCEPT ![t] = c] /\ pc' = [pc EXCEPT ![t] = "condition"]
 BY <1>3 DEF Examine, GoTo
<1>5. cond'[t] = [node |-> n, then |-> goal, got |-> <<>>] /\ pc'[t] = "condition" /\ cond'[t].then = goal
 BY <1>1, <1>3, <1>4 DEF Variables
<1>6. NoNode \notin Nodes BY <1>1 DEF TreeShape
<1>7. CondInv(t)' BY <1>2, <1>5, <1>6, ExamineInv
<1>8. FixInv(t)' BY <1>1, <1>2, <1>5, FixAside DEF ThreadInv
<1>9. "condition" \in Repairing BY DEF Repairing
<1> QED BY <1>4, <1>7, <1>8, <1>9, RepairStep

(* The heights that nodeCondition reads. *)
LEMMA HeightsAreNatural ==
 ASSUME TreeShape, NEW n \in Maybe
 PROVE  Height(n) \in Nat /\ (n = NoNode => Height(n) = 0)
 BY TreeFields DEF Height, Maybe

LEMMA StoresDoneStep ==
 ASSUME AVLInv, NEW t \in Threads, StoresDone(t)
 PROVE  AVLInv'
<1>1. TreeShape /\ Variables /\ ThreadInv(t) /\ PathInv(t) /\ CondInv(t) /\ FixInv(t) /\ StoreInv(t)
 BY DEF AVLInv, ThreadInv
<1>2. /\ pc[t] = "store" /\ stores[t] = <<>> /\ UNCHANGED <<path, here, stores, history, bounds>>
      /\ DOMAIN after' = Threads /\ after'[t] = NoPlan /\ \A u \in Threads \ {t} : after'[u] = after[u]
      /\ after[t].node \in Nodes
 BY <1>1 DEF StoresDone, StoreInv, Variables
<1>3. pc[t] # "idle" /\ "fixHeight" \in Goals BY <1>2 DEF Goals
<1>4. PICK n : n = after[t].node OBVIOUS
<1>5. CASE Damaged(t, after[t].node)
 <2>1. n \in Maybe BY <1>2, <1>4 DEF Maybe
 <2> QED BY <1>2, <1>3, <1>4, <1>5, <2>1, DamagedStep
<1>6. CASE Examine(t, after[t].node, "fixHeight") /\ UNCHANGED <<tree, fix>>
 <2>1. OnlyLocks(t) BY <1>1, <1>6, UnchangedTree
 <2> QED BY <1>2, <1>3, <1>6, <2>1, ExamineStep
<1>7. CASE tree' = Unlock(tree, {Node(t)}, t) /\ Examine(t, after[t].node, "fixHeight") /\ UNCHANGED fix
 <2>1. OnlyLocks(t) BY <1>1, <1>7, Unlocks
 <2> QED BY <1>2, <1>3, <1>7, <2>1, ExamineStep
<1>8. CASE after[t].then = "far" /\ GoTo(t, "far") /\ UNCHANGED <<tree, cond, fix>>
 <2>1. OnlyLocks(t) BY <1>1, <1>8, UnchangedTree
 <2>2. pc' = [pc EXCEPT ![t] = "far"] /\ pc'[t] = "far" /\ cond'[t] = cond[t] /\ fix'[t] = fix[t] /\ Nodes' = Nodes
  BY <1>1, <1>8 DEF GoTo, Variables, Nodes
 <2>3. CondInv(t)' BY <1>1, <2>2, CondAside DEF Goals
 <2>4. FixInv(t)'
  <3>1. /\ HoldsInner(t) /\ fix[t].inner \notin {fix[t].n, fix[t].p, fix[t].child} /\ Holds(t, fix[t].inner)
        /\ fix[t] \in FixRecords
   BY <1>1, <1>2, <1>8 DEF FixInv
  <3>2. HoldsInner(t)' /\ (\A m : Holds(t, m) => Holds(t, m)') /\ FixRecords' = FixRecords
   BY <1>8, <2>2, <3>1 DEF HoldsInner, HoldsChild, HoldsPair, Holds, Maybe, rootHolder, FixRecords
  <3>3. ~Doing(t, "fixDecide")' /\ ~Doing(t, "rebalance")' BY <2>2 DEF Doing
  <3>4. Holds(t, fix[t].inner)' BY <1>8, <3>1 DEF Holds, Nodes
  <3> QED BY <2>2, <3>1, <3>2, <3>3, <3>4 DEF FixInv, Heights
 <2>5. "far" \in Repairing BY DEF Repairing
 <2> QED BY <1>2, <1>3, <1>8, <2>1, <2>2, <2>3, <2>4, <2>5, RepairStep
<1> QED BY <1>2, <1>5, <1>6, <1>7, <1>8 DEF StoresDone

(* nodeCondition reads a field: got is what it has read before, g after. *)
Seen == Maybe \cup (SUBSET BOOLEAN) \cup Nat
Read(g) ==
    /\ g \in Seq(Seen)
    /\ DOMAIN g \subseteq 1 .. 6
    /\ \A i \in DOMAIN g \cap {1, 2} : g[i] \in Maybe
    /\ \A i \in DOMAIN g \cap {3} : g[i] \in {{TRUE}, {FALSE}}
    /\ \A i \in DOMAIN g \cap {4, 5, 6} : g[i] \in Nat
    /\ 5 \in DOMAIN g /\ g[1] = NoNode => g[5] = 0
    /\ 6 \in DOMAIN g /\ g[2] = NoNode => g[6] = 0
    /\ 4 \in DOMAIN g => NoNode \notin {g[1], g[2]} \/ g[3] = {TRUE}

LEMMA ValuesRead ==
 ASSUME NEW x \in BOOLEAN
 PROVE  {x} \in {{TRUE}, {FALSE}} /\ {x} \in SUBSET BOOLEAN
 OBVIOUS

ReadsNext(c, g) ==
    /\ Read(g) /\ \A i \in DOMAIN c.got : i \in DOMAIN g /\ g[i] = c.got[i]
    /\ \A i \in DOMAIN g : i \notin DOMAIN c.got =>
          /\ i = 1 => g[i] = tree[c.node].left
          /\ i = 2 => g[i] = tree[c.node].right
          /\ i = 3 => g[i] = {tree[c.node].value}

LEMMA ReadsField ==
 ASSUME TreeShape, NEW c, Read(c.got), ~ReadAll(c), c.node \in Nodes, NEW g, g = Append(c.got, NextField(c))
 PROVE  ReadsNext(c, g)
<1>1. PICK h, n, v : h = c.got /\ n = c.node /\ v = NextField(c) OBVIOUS
<1>2. PICK S : S = Seen OBVIOUS
<1>3. PICK k : k = Len(h) OBVIOUS
<1>4. h \in Seq(S) /\ k \in Nat /\ DOMAIN h = 1 .. k BY <1>1, <1>2, <1>3 DEF Read
<1>5. k \in 0 .. 5
 <2>1. k # 6 BY <1>1, <1>3 DEF ReadAll
 <2>2. k = 0 \/ k \in 1 .. 6
  <3>1. k # 0 => k \in DOMAIN h BY <1>4
  <3> QED BY <3>1, <1>1 DEF Read
 <2> QED BY <2>1, <2>2
<1>6. /\ tree[n].left \in Maybe /\ tree[n].right \in Maybe /\ tree[n].value \in BOOLEAN
      /\ tree[n].height \in Nat
 BY <1>1, TreeFields
<1>7. \A m \in Maybe : Height(m) \in Nat /\ (m = NoNode => Height(m) = 0) BY HeightsAreNatural
<1>8. /\ k = 0 => v = tree[n].left
      /\ k = 1 => v = tree[n].right
      /\ k = 2 => v = {tree[n].value}
      /\ k = 3 => v = tree[n].height
      /\ k = 4 => v = Height(h[1])
      /\ k = 5 => v = Height(h[2])
 <2>1. k = 0 => v = tree[n].left BY <1>1, <1>3 DEF NextField
 <2>2. k = 1 => v = tree[n].right BY <1>1, <1>3 DEF NextField
 <2>3. k = 2 => v = {tree[n].value} BY <1>1, <1>3 DEF NextField
 <2>4. k = 3 => v = tree[n].height BY <1>1, <1>3 DEF NextField
 <2>5. k = 4 => v = Height(h[1]) BY <1>1, <1>3 DEF NextField
 <2>6. k = 5 => v = Height(h[2]) BY <1>1, <1>3 DEF NextField
 <2> QED BY <2>1, <2>2, <2>3, <2>4, <2>5, <2>6
<1>9. /\ k > 0 => h[1] \in Maybe
      /\ k > 1 => h[2] \in Maybe
      /\ k > 2 => h[3] \in {{TRUE}, {FALSE}}
      /\ k > 3 => NoNode \notin {h[1], h[2]} \/ h[3] = {TRUE}
      /\ k > 4 => h[5] \in Nat /\ (h[1] = NoNode => h[5] = 0)
      /\ k > 3 => h[4] \in Nat
 <2>1. /\ k > 0 => 1 \in DOMAIN h
       /\ k > 1 => 2 \in DOMAIN h
       /\ k > 2 => 3 \in DOMAIN h
       /\ k > 3 => 4 \in DOMAIN h
       /\ k > 4 => 5 \in DOMAIN h
  BY <1>4, <1>5
 <2>2. Read(h) BY <1>1
 <2> QED BY <2>1, <2>2 DEF Read
<1>10. k = 3 => NoNode \notin {h[1], h[2]} \/ h[3] = {TRUE}
 <2>1. k = 3 => h[3] \in {{TRUE}, {FALSE}}
  <3>1. k = 3 => k > 2 OBVIOUS
  <3> QED BY <3>1, <1>9, Zenon
 <2>2. k = 3 => NoNode \notin {h[1], h[2]} \/ h[3] # {FALSE} BY <1>1, <1>3 DEF ReadAll, Routing
 <2> QED BY <2>1, <2>2
<1>11. v \in S
 <2>1. k \in {0, 1} => v \in Maybe BY <1>6, <1>8
 <2>2. k = 2 => v \in SUBSET BOOLEAN BY <1>6, <1>8, ValuesRead
 <2>3. k \in {3, 4, 5} => v \in Nat BY <1>6, <1>7, <1>8, <1>9
 <2>4. k \in {0, 1} \/ k = 2 \/ k \in {3, 4, 5} BY <1>5
 <2>5. PICK B : B = SUBSET BOOLEAN OBVIOUS
 <2>6. v \in Maybe \/ v \in B \/ v \in Nat BY <2>1, <2>2, <2>3, <2>4, <2>5
 <2>7. S = Maybe \cup B \cup Nat BY <1>2, <2>5, Zenon DEF Seen
 <2> QED BY <2>6, <2>7
<1>12. g = Append(h, v) BY <1>1
<1>13. /\ g \in Seq(S) /\ DOMAIN g = 1 .. (k + 1) /\ g[k + 1] = v /\ \A i \in 1 .. k : g[i] = h[i]
 BY <1>3, <1>4, <1>11, <1>12
<1>14. /\ k = 0 => g[1] = tree[n].left
       /\ k = 1 => g[2] = tree[n].right
       /\ k = 2 => g[3] = {tree[n].value}
       /\ k = 3 => g[4] = tree[n].height
       /\ k = 4 => g[5] = Height(h[1])
       /\ k = 5 => g[6] = Height(h[2])
 BY <1>8, <1>13
<1>15. DOMAIN g \subseteq 1 .. 6 BY <1>5, <1>13
<1>16. \A i \in DOMAIN h : i \in DOMAIN g /\ g[i] = h[i] BY <1>4, <1>13
<1>17. \A i \in DOMAIN g : i \notin DOMAIN h => i = k + 1 BY <1>4, <1>13
<1>18. Read(g)
 <2>1. \A i \in DOMAIN g : i \in DOMAIN h \/ i = k + 1 BY <1>17
 <2>2. ASSUME NEW i \in DOMAIN g
       PROVE  /\ i \in {1, 2} => g[i] \in Maybe
              /\ i = 3 => g[i] \in {{TRUE}, {FALSE}}
              /\ i \in {4, 5, 6} => g[i] \in Nat
  <3>1. CASE i \in DOMAIN h
   <4>1. g[i] = h[i] BY <3>1, <1>16
   <4> QED BY <3>1, <4>1, <1>1 DEF Read
  <3>2. CASE i = k + 1
   <4>1. g[i] = v BY <3>2, <1>13
   <4>2. i \in {1, 2} => v \in Maybe BY <3>2, <1>5, <1>6, <1>8
   <4>3. i = 3 => v \in {{TRUE}, {FALSE}}
    <5>1. i = 3 => v = {tree[n].value} BY <3>2, <1>5, <1>8
    <5> QED BY <5>1, <1>6, ValuesRead
   <4>4. i \in {4, 5, 6} => v \in Nat BY <3>2, <1>5, <1>6, <1>7, <1>8, <1>9
   <4> QED BY <4>1, <4>2, <4>3, <4>4
  <3> QED BY <2>1, <3>1, <3>2
 <2>3. /\ 5 \in DOMAIN g => k > 3 /\ g[1] = h[1] /\ (k = 4 => g[5] = Height(h[1])) /\ (k > 4 => g[5] = h[5])
       /\ 6 \in DOMAIN g => k = 5 /\ g[2] = h[2] /\ g[6] = Height(h[2])
       /\ 4 \in DOMAIN g => k > 2 /\ g[1] = h[1] /\ g[2] = h[2] /\ g[3] = h[3]
  BY <1>5, <1>13, <1>14
 <2>4. 5 \in DOMAIN g /\ g[1] = NoNode => g[5] = 0 BY <2>3, <1>5, <1>7, <1>9
 <2>5. 6 \in DOMAIN g /\ g[2] = NoNode => g[6] = 0 BY <2>3, <1>7, <1>9
 <2>6. 4 \in DOMAIN g => NoNode \notin {g[1], g[2]} \/ g[3] = {TRUE}
  <3>1. k > 2 => k = 3 \/ k > 3 BY <1>5
  <3>2. k > 2 => NoNode \notin {h[1], h[2]} \/ h[3] = {TRUE} BY <3>1, <1>9, <1>10
  <3> QED BY <2>3, <3>2
 <2> QED BY <2>2, <2>4, <2>5, <2>6, <1>2, <1>13, <1>15 DEF Read
<1>19. \A i \in DOMAIN g : i \notin DOMAIN h =>
         /\ i = 1 => g[i] = tree[n].left
         /\ i = 2 => g[i] = tree[n].right
         /\ i = 3 => g[i] = {tree[n].value}
 BY <1>5, <1>14, <1>17
<1> QED BY <1>1, <1>16, <1>18, <1>19 DEF ReadsNext

LEMMA nodeConditionStep ==
 ASSUME AVLInv, NEW t \in Threads, nodeCondition(t)
 PROVE  AVLInv'
<1>1. TreeShape /\ Variables /\ ThreadInv(t) /\ PathInv(t) /\ CondInv(t) /\ FixInv(t)
 BY DEF AVLInv, ThreadInv
<1>2. pc[t] = "condition" /\ pc[t] \notin {"idle", "store"} BY DEF nodeCondition
<1>3. PICK c, d : c = cond[t] /\ d = [cond[t] EXCEPT !.got = Append(@, NextField(cond[t]))] OBVIOUS
<1>4. /\ cond' = [cond EXCEPT ![t] = d]
      /\ IF ReadAll(d) THEN pc' = [pc EXCEPT ![t] = d.then] ELSE UNCHANGED pc
      /\ UNCHANGED <<tree, path, here, fix, stores, after, history, bounds>>
 BY <1>3 DEF nodeCondition, GoTo, ReadAll
<1>5. c.node \in Nodes /\ c.then \in Goals /\ ~ReadAll(c) /\ Read(c.got)
 BY <1>1, <1>2, <1>3 DEF CondInv, Read, Seen, Maybe
<1>6. PICK g : g = Append(c.got, NextField(c)) OBVIOUS
<1>7. d = [node |-> c.node, then |-> c.then, got |-> g]
 <2>1. c = [node |-> c.node, then |-> c.then, got |-> c.got] BY <1>1, <1>3 DEF CondInv
 <2> QED BY <1>3, <1>6, <2>1
<1>8. /\ Read(g) /\ \A i \in DOMAIN c.got : i \in DOMAIN g /\ g[i] = c.got[i]
      /\ \A i \in DOMAIN g : i \notin DOMAIN c.got =>
            /\ i = 1 => g[i] = tree[c.node].left
            /\ i = 2 => g[i] = tree[c.node].right
            /\ i = 3 => g[i] = {tree[c.node].value}
 <2>1. ReadsNext(c, g) BY <1>1, <1>5, <1>6, ReadsField
 <2> QED BY <2>1 DEF ReadsNext
<1>9. PICK l : l = IF ReadAll(d) THEN d.then ELSE "condition" OBVIOUS
<1>10. d.then = c.then /\ d.node = c.node /\ d.got = g BY <1>7
<1>11. pc' = [pc EXCEPT ![t] = l] /\ l \in Repairing /\ pc'[t] = l
 <2>1. l \in Goals \cup {"condition"} BY <1>5, <1>9, <1>10
 <2>2. pc' = [pc EXCEPT ![t] = l] BY <1>1, <1>2, <1>4, <1>9 DEF Variables
 <2> QED BY <1>1, <2>1, <2>2 DEF Goals, Repairing, Variables
<1>12. OnlyLocks(t) /\ Nodes' = Nodes /\ Maybe' = Maybe
 BY <1>1, <1>4, UnchangedTree DEF Nodes, Maybe
<1>13. cond'[t] = d /\ fix'[t] = fix[t] BY <1>1, <1>4 DEF Variables
<1>14. CondInv(t)'
 <2>1. d \in [node : Maybe', then : Goals \cup {"none"}, got : Seq(Maybe' \cup (SUBSET BOOLEAN) \cup Nat)]
  <3>1. g \in Seq(Maybe' \cup (SUBSET BOOLEAN) \cup Nat) BY <1>8, <1>12 DEF Read, Seen
  <3> QED BY <3>1, <1>5, <1>7, <1>12 DEF Maybe
 <2>2. c.node # NoNode BY <1>1, <1>5 DEF TreeShape
 <2>3. (l \in Goals => ReadAll(d)) /\ (l = "condition" => ~ReadAll(d)) /\ l \in Goals \cup {"condition"}
  BY <1>5, <1>9, <1>10 DEF Goals
 <2>4. ReadAll(cond[t])' <=> ReadAll(d) BY <1>13 DEF ReadAll, Routing
 <2>5. Read(g) BY <1>8
 <2> QED BY <1>5, <1>10, <1>11, <1>12, <1>13, <2>1, <2>2, <2>3, <2>4, <2>5 DEF CondInv, Read, Goals
<1>15. FixInv(t)'
 <2>1. c.then \in Goals /\ (l = c.then \/ l = "condition") BY <1>5, <1>9, <1>10
 <2>2. \A goal \in {"fixDecide", "rebalance"} : Doing(t, goal)' => c.then = goal /\ Doing(t, goal)
  BY <1>2, <1>3, <1>10, <1>11, <1>13, <2>1 DEF Doing, Goals
 <2>3. pc'[t] \notin {"fixLock", "readParent", "lockParent", "lockNode", "lockChild",
                      "innerLast", "outerLast", "rotate", "near", "far", "store"} \cup Heights
  BY <1>11, <2>1 DEF Goals, Heights
 <2>4. Doing(t, "fixDecide")' => fix[t].n \notin {NoNode, rootHolder} BY <1>1, <2>2 DEF FixInv
 <2>5. ASSUME Doing(t, "rebalance")'
       PROVE  /\ HoldsPair(t)' /\ d.node = fix[t].n
              /\ \A i \in DOMAIN g :
                   /\ i = 1 => g[i] = tree[fix[t].n].left
                   /\ i = 2 => g[i] = tree[fix[t].n].right
                   /\ i = 3 => g[i] = {tree[fix[t].n].value}
  <3>1. /\ HoldsPair(t) /\ c.node = fix[t].n
        /\ \A i \in DOMAIN c.got :
              /\ i = 1 => c.got[i] = tree[fix[t].n].left
              /\ i = 2 => c.got[i] = tree[fix[t].n].right
              /\ i = 3 => c.got[i] = {tree[fix[t].n].value}
   BY <1>1, <1>3, <2>2, <2>5 DEF FixInv
  <3>2. HoldsPair(t)' BY <1>4, <1>12, <1>13, <3>1 DEF HoldsPair, Holds, rootHolder
  <3> QED BY <3>1, <3>2, <1>8, <1>10
 <2>6. ASSUME Doing(t, "rebalance")'
       PROVE  /\ HoldsPair(t)' /\ cond'[t].node = fix'[t].n
              /\ \A i \in DOMAIN cond'[t].got :
                   /\ i = 1 => cond'[t].got[i] = tree'[fix[t].n].left
                   /\ i = 2 => cond'[t].got[i] = tree'[fix[t].n].right
                   /\ i = 3 => cond'[t].got[i] = {tree'[fix[t].n].value}
  BY <1>4, <1>10, <1>13, <2>5, <2>6
 <2>7. fix'[t] \in FixRecords' BY <1>1, <1>12, <1>13 DEF FixInv, FixRecords
 <2> QED BY <1>13, <2>3, <2>4, <2>6, <2>7 DEF FixInv, rootHolder
<1>16. /\ DOMAIN after' = Threads /\ after'[t] = NoPlan /\ \A u \in Threads \ {t} : after'[u] = after[u]
       /\ stores[t] = <<>>
 BY <1>2, <1>4, Undamaged
<1>17. l \in Repairing /\ pc' = [pc EXCEPT ![t] = l] /\ pc[t] # "idle"
       /\ UNCHANGED <<path, here, stores, history, bounds>> /\ fix' = fix
 BY <1>2, <1>4, <1>11
<1> QED BY <1>4, <1>12, <1>14, <1>15, <1>16, <1>17, RepairStep

(* What nodeCondition has found. *)
LEMMA FoundFields ==
 ASSUME NEW t \in Threads, CondInv(t), pc[t] \in Goals, ~UnlinkRequired(t)
 PROVE  /\ DOMAIN cond[t].got = 1 .. 6
        /\ cond[t].got[1] \in Maybe /\ cond[t].got[2] \in Maybe
        /\ cond[t].got[5] \in Nat /\ cond[t].got[6] \in Nat
        /\ cond[t].got[1] = NoNode => cond[t].got[5] = 0
        /\ cond[t].got[2] = NoNode => cond[t].got[6] = 0
        /\ NewHeight(t) \in Nat \ {0}
<1>1. PICK g : g = cond[t].got OBVIOUS
<1>2. Len(g) = 6 /\ g \in Seq(Maybe \cup (SUBSET BOOLEAN) \cup Nat)
 BY <1>1 DEF CondInv, ReadAll, UnlinkRequired
<1>3. DOMAIN g = 1 .. 6 BY <1>2
<1>4. /\ g[1] \in Maybe /\ g[2] \in Maybe /\ g[5] \in Nat /\ g[6] \in Nat
      /\ (g[1] = NoNode => g[5] = 0) /\ (g[2] = NoNode => g[6] = 0)
 <2>1. {1, 2, 5, 6} \subseteq DOMAIN g BY <1>3
 <2> QED BY <1>1, <2>1 DEF CondInv
<1>5. NewHeight(t) \in Nat \ {0} BY <1>1, <1>4 DEF NewHeight, Larger
<1> QED BY <1>1, <1>3, <1>4, <1>5

LEMMA FixHeightStep ==
 ASSUME AVLInv, NEW t \in Threads, FixHeight(t)
 PROVE  AVLInv'
<1>1. TreeShape /\ Variables /\ ThreadInv(t) /\ CondInv(t) /\ FixInv(t) BY DEF AVLInv, ThreadInv
<1>2. pc[t] = "fixHeight" /\ ~UnlinkRequired(t) /\ pc' = [pc EXCEPT ![t] = "fixParent"]
      /\ tree' = [tree EXCEPT ![cond[t].node].height = NewHeight(t)] /\ UNCHANGED <<locals, history, bounds>>
 BY DEF FixHeight, HeightRequired, GoTo
<1>3. pc[t] \in Goals /\ pc[t] \notin {"idle", "store"} BY <1>2 DEF Goals
<1>4. cond[t].node \in Nodes /\ NewHeight(t) \in Nat \ {0}
 BY <1>1, <1>2, <1>3, FoundFields DEF CondInv, Maybe
<1>5. OnlyLocks(t) /\ Nodes' = Nodes /\ Maybe' = Maybe
 <2>1. PICK n, h : n = cond[t].node /\ h = NewHeight(t) OBVIOUS
 <2>2. n \in Nodes /\ h \in Nat \ {0} /\ tree' = [tree EXCEPT ![n].height = h] BY <1>2, <1>4, <2>1
 <2>3. OnlyLocks(t) BY <1>1, <2>2, SetsHeight
 <2> QED BY <2>3 DEF OnlyLocks, Nodes, Maybe
<1>6. pc'[t] = "fixParent" /\ cond'[t] = cond[t] /\ fix'[t] = fix[t] /\ cond' = cond /\ fix' = fix
 BY <1>1, <1>2 DEF Variables, locals
<1>7. CondInv(t)' BY <1>1, <1>3, <1>5, <1>6 DEF CondInv, Goals
<1>8. FixInv(t)' BY <1>1, <1>5, <1>6, FixAside
<1>9. "fixParent" \in Repairing BY DEF Repairing
<1>10. /\ DOMAIN after' = Threads /\ after'[t] = NoPlan /\ \A u \in Threads \ {t} : after'[u] = after[u]
       /\ stores[t] = <<>> /\ UNCHANGED <<path, here, stores, history, bounds>>
 BY <1>2, <1>3, Undamaged DEF locals
<1> QED BY <1>2, <1>3, <1>5, <1>6, <1>7, <1>8, <1>9, <1>10, RepairStep

LEMMA FixDecidesStep ==
 ASSUME AVLInv, NEW t \in Threads, FixDecides(t)
 PROVE  AVLInv'
<1>1. TreeShape /\ Variables /\ ThreadInv(t) /\ CondInv(t) /\ FixInv(t) /\ pc[t] = "fixDecide"
 BY DEF AVLInv, ThreadInv, FixDecides
<1>2. CASE Return(t, TRUE) BY <1>1, <1>2, ReturnStep
<1>3. CASE ~Return(t, TRUE)
 <2>1. PICK l : l \in {"fixLock", "readParent"} /\ pc' = [pc EXCEPT ![t] = l]
                /\ UNCHANGED <<tree, locals, history, bounds>>
  BY <1>3 DEF FixDecides, GoTo
 <2>2. l \in Repairing /\ pc'[t] = l /\ cond'[t] = cond[t] /\ fix'[t] = fix[t] /\ cond' = cond /\ fix' = fix
  BY <1>1, <2>1 DEF Variables, locals, Repairing
 <2>3. OnlyLocks(t) /\ Nodes' = Nodes /\ Maybe' = Maybe
  BY <1>1, <2>1, UnchangedTree DEF Nodes, Maybe
 <2>4. CondInv(t)' BY <1>1, <2>1, <2>2, <2>3, CondAside DEF Goals
 <2>5. FixInv(t)'
  <3>1. fix[t].n \notin {NoNode, rootHolder} BY <1>1 DEF FixInv, Doing
  <3>2. ~Doing(t, "fixDecide")' /\ ~Doing(t, "rebalance")' BY <2>1, <2>2 DEF Doing
  <3>3. fix'[t] \in FixRecords' BY <1>1, <2>2, <2>3 DEF FixInv, FixRecords
  <3> QED BY <1>1, <2>1, <2>2, <2>3, <3>1, <3>2, <3>3 DEF FixInv, Heights, rootHolder
 <2>6. /\ DOMAIN after' = Threads /\ after'[t] = NoPlan /\ \A u \in Threads \ {t} : after'[u] = after[u]
       /\ stores[t] = <<>> /\ UNCHANGED <<path, here, stores, history, bounds>> /\ pc[t] # "idle"
  BY <1>1, <2>1, Undamaged DEF locals
 <2> QED BY <2>1, <2>2, <2>3, <2>4, <2>5, <2>6, RepairStep
<1> QED BY <1>2, <1>3

LEMMA ReadParentStep ==
 ASSUME AVLInv, NEW t \in Threads, ReadParent(t)
 PROVE  AVLInv'
<1>1. TreeShape /\ Variables /\ ThreadInv(t) /\ CondInv(t) /\ FixInv(t) /\ pc[t] = "readParent"
 BY DEF AVLInv, ThreadInv, ReadParent
<1>2. PICK p : p = tree[fix[t].n].parent OBVIOUS
<1>3. PICK f : f = [fix[t] EXCEPT !.p = p] OBVIOUS
<1>4. /\ fix' = [fix EXCEPT ![t] = f] /\ pc' = [pc EXCEPT ![t] = "lockParent"]
      /\ UNCHANGED <<tree, path, here, cond, stores, after, history, bounds>>
 BY <1>2, <1>3 DEF ReadParent, GoTo
<1>5. pc'[t] = "lockParent" /\ cond'[t] = cond[t] /\ fix'[t] = f BY <1>1, <1>4 DEF Variables
<1>6. OnlyLocks(t) /\ Nodes' = Nodes /\ Maybe' = Maybe BY <1>1, <1>4, UnchangedTree DEF Nodes, Maybe
<1>7. CondInv(t)' BY <1>1, <1>5, <1>6, CondAside DEF Goals
<1>8. FixInv(t)'
 <2>1. fix[t].n \in Nodes \ {rootHolder} /\ fix[t] \in FixRecords
  BY <1>1 DEF FixInv, FixRecords, Maybe
 <2>2. p \in Nodes /\ p # NoNode /\ p \in Maybe BY <1>1, <1>2, <2>1, TreeFields DEF Maybe
 <2>3. f \in FixRecords /\ f.n = fix[t].n /\ f.p = p BY <1>3, <2>1, <2>2 DEF FixRecords
 <2>4. ~Doing(t, "fixDecide")' /\ ~Doing(t, "rebalance")' BY <1>5 DEF Doing
 <2>5. f.n # NoNode BY <1>1, <2>1, <2>3 DEF TreeShape
 <2>6. fix'[t] \in FixRecords' BY <1>5, <1>6, <2>3 DEF FixRecords
 <2> QED BY <1>5, <2>1, <2>2, <2>3, <2>4, <2>5, <2>6 DEF FixInv, Heights, rootHolder
<1>9. /\ DOMAIN after' = Threads /\ after'[t] = NoPlan /\ \A u \in Threads \ {t} : after'[u] = after[u]
      /\ stores[t] = <<>> /\ pc[t] # "idle" /\ "lockParent" \in Repairing
 BY <1>1, <1>4, Undamaged DEF Repairing
<1> QED BY <1>4, <1>6, <1>7, <1>8, <1>9, RepairStep

LEMMA LockParentStep ==
 ASSUME AVLInv, NEW t \in Threads, LockParent(t)
 PROVE  AVLInv'
<1>1. TreeShape /\ Variables /\ ThreadInv(t) /\ CondInv(t) /\ FixInv(t) /\ pc[t] = "lockParent"
      /\ UNCHANGED <<path, here, stores, after, history, bounds>>
 BY DEF AVLInv, ThreadInv, LockParent
<1>2. /\ DOMAIN after' = Threads /\ after'[t] = NoPlan /\ \A u \in Threads \ {t} : after'[u] = after[u]
      /\ stores[t] = <<>> /\ pc[t] # "idle" /\ "lockNode" \in Repairing
 BY <1>1, Undamaged DEF Repairing
<1>3. PICK n, p : n = fix[t].n /\ p = fix[t].p OBVIOUS
<1>4. n \in Nodes \ {rootHolder} /\ p \in Nodes /\ fix[t] \in FixRecords /\ n # NoNode /\ n \in Maybe
 BY <1>1, <1>3 DEF FixInv, FixRecords, Maybe
<1>5. CASE Damaged(t, fix[t].n) BY <1>1, <1>2, <1>3, <1>4, <1>5, DamagedStep
<1>6. CASE ~Damaged(t, fix[t].n)
 <2>1. /\ Free(p) /\ ~isUnlinked(tree[p].version) /\ tree[n].parent = p
       /\ tree' = Lock(tree, p, t) /\ pc' = [pc EXCEPT ![t] = "lockNode"] /\ UNCHANGED <<cond, fix>>
  BY <1>3, <1>6 DEF LockParent, GoTo
 <2>2. OnlyLocks(t) /\ Holds(t, p)' BY <1>1, <1>4, <2>1, TakesLock
 <2>3. /\ Nodes' = Nodes /\ Maybe' = Maybe /\ FixRecords' = FixRecords
       /\ tree'[n].parent = p /\ ~isUnlinked(tree'[p].version)
  BY <1>4, <2>1, <2>2 DEF OnlyLocks, Nodes, Maybe, FixRecords
 <2>4. pc'[t] = "lockNode" /\ cond'[t] = cond[t] /\ fix'[t] = fix[t] /\ fix'[t].p = p /\ fix'[t].n = n
  BY <1>1, <1>3, <2>1 DEF Variables
 <2>5. CondInv(t)' BY <1>1, <2>3, <2>4, CondAside DEF Goals
 <2>6. FixInv(t)'
  <3>1. ~Doing(t, "fixDecide")' /\ ~Doing(t, "rebalance")' BY <2>4 DEF Doing
  <3>2. Holds(t, fix[t].p)' /\ ~isUnlinked(tree[fix[t].p].version)' /\ (tree[fix[t].n].parent = fix[t].p)'
   BY <2>2, <2>3, <2>4 DEF Holds
  <3> QED BY <1>4, <2>3, <2>4, <3>1, <3>2 DEF FixInv, Heights, rootHolder
 <2> QED BY <1>1, <1>2, <2>1, <2>2, <2>5, <2>6, RepairStep
<1> QED BY <1>5, <1>6

LEMMA LockNodeStep ==
 ASSUME AVLInv, NEW t \in Threads, LockNode(t)
 PROVE  AVLInv'
<1>1. TreeShape /\ Variables /\ ThreadInv(t) /\ CondInv(t) /\ FixInv(t) /\ pc[t] = "lockNode"
      /\ UNCHANGED <<path, here, fix, stores, after, history, bounds>>
 BY DEF AVLInv, ThreadInv, LockNode
<1>2. /\ DOMAIN after' = Threads /\ after'[t] = NoPlan /\ \A u \in Threads \ {t} : after'[u] = after[u]
      /\ stores[t] = <<>> /\ pc[t] # "idle" /\ "rebalance" \in Goals
 BY <1>1, Undamaged DEF Goals
<1>3. PICK n, p : n = fix[t].n /\ p = fix[t].p OBVIOUS
<1>4. /\ n \in Nodes \ {rootHolder} /\ p \in Nodes /\ fix[t] \in FixRecords /\ n # NoNode
      /\ Holds(t, p) /\ ~isUnlinked(tree[p].version) /\ tree[n].parent = p
 BY <1>1, <1>3 DEF FixInv, FixRecords, Maybe, Holds
<1>5. /\ Free(n) /\ tree' = Lock(tree, n, t) /\ Examine(t, n, "rebalance") BY <1>3 DEF LockNode
<1>6. OnlyLocks(t) /\ Holds(t, n)' /\ Holds(t, p)' /\ n # p
 BY <1>1, <1>4, <1>5, TakesLock DEF Holds, Free
<1>7. /\ Nodes' = Nodes /\ Maybe' = Maybe /\ FixRecords' = FixRecords
      /\ tree'[n].parent = p /\ ~isUnlinked(tree'[p].version)
 BY <1>4, <1>6 DEF OnlyLocks, Nodes, Maybe, FixRecords
<1>8. /\ pc'[t] = "condition" /\ cond'[t] = [node |-> n, then |-> "rebalance", got |-> <<>>]
      /\ fix'[t] = fix[t] /\ fix'[t].p = p /\ fix'[t].n = n
 BY <1>1, <1>3, <1>5 DEF Variables, Examine, GoTo
<1>9. FixInv(t)'
 <2>1. ~Doing(t, "fixDecide")' BY <1>8 DEF Doing
 <2>2. HoldsPair(t)' BY <1>4, <1>6, <1>7, <1>8 DEF HoldsPair, Holds, rootHolder
 <2>3. cond'[t].node = n /\ DOMAIN cond'[t].got = {} BY <1>8
 <2> QED BY <1>4, <1>7, <1>8, <2>1, <2>2, <2>3 DEF FixInv, Heights
<1> QED BY <1>1, <1>2, <1>4, <1>5, <1>6, <1>9, ExamineStep

LEMMA FixingStep ==
 ASSUME AVLInv, NEW t \in Threads, Fixing(t)
 PROVE  AVLInv'
<1>1. TreeShape /\ Variables /\ ThreadInv(t) /\ CondInv(t) /\ FixInv(t) BY DEF AVLInv, ThreadInv
<1>2. ASSUME Store(t) PROVE AVLInv' BY <1>2, StoreStep
<1>3. ASSUME StoresDone(t) PROVE AVLInv' BY <1>3, StoresDoneStep
<1>4. ASSUME nodeCondition(t) PROVE AVLInv' BY <1>4, nodeConditionStep
<1>5. ASSUME FixHeightStops(t) PROVE AVLInv'
 <2>1. PICK n : n = IF NothingRequired(t) THEN NoNode ELSE cond[t].node OBVIOUS
 <2>2. pc[t] \in Goals /\ pc[t] \notin {"store", "idle"} BY <1>5 DEF FixHeightStops, Goals
 <2>3. n \in Maybe BY <1>1, <2>1, <2>2 DEF CondInv, Maybe
 <2>4. Damaged(t, n) /\ UNCHANGED <<path, here, stores, after, history, bounds>>
  BY <1>5, <2>1 DEF FixHeightStops
 <2> QED BY <2>2, <2>3, <2>4, Undamaged, DamagedStep
<1>6. ASSUME FixHeight(t) PROVE AVLInv' BY <1>6, FixHeightStep
<1>7. ASSUME FixParent(t) PROVE AVLInv'
 <2>1. PICK n : n = tree[cond[t].node].parent OBVIOUS
 <2>2. pc[t] = "fixParent" BY <1>7 DEF FixParent
 <2>3. cond[t].node \in Nodes BY <1>1, <2>2 DEF CondInv, Maybe
 <2>4. n \in Maybe BY <1>1, <2>1, <2>3, TreeFields
 <2>5. Damaged(t, n) /\ UNCHANGED <<path, here, stores, after, history, bounds>>
  BY <1>7, <2>1 DEF FixParent
 <2> QED BY <2>2, <2>4, <2>5, Undamaged, DamagedStep
<1>8. ASSUME FixEnds(t) PROVE AVLInv' BY <1>8, ReturnStep DEF FixEnds
<1>9. ASSUME FixExamines(t) PROVE AVLInv'
 <2>1. PICK n : n = fix[t].n OBVIOUS
 <2>2. /\ pc[t] = "fix" /\ n \notin {NoNode, rootHolder} /\ Examine(t, n, "fixDecide")
       /\ UNCHANGED <<tree, path, here, fix, stores, after, history, bounds>>
  BY <1>9, <2>1 DEF FixExamines
 <2>3. n \in Nodes /\ fix[t] \in FixRecords BY <1>1, <2>1, <2>2, FixTyped DEF Maybe
 <2>4. OnlyLocks(t) /\ Nodes' = Nodes /\ FixRecords' = FixRecords
  BY <1>1, <2>2, UnchangedTree DEF Nodes, FixRecords, Maybe
 <2>5. pc'[t] = "condition" /\ cond'[t].then = "fixDecide" /\ fix'[t] = fix[t]
  BY <1>1, <2>2 DEF Examine, GoTo, Variables
 <2>6. FixInv(t)'
  <3>1. ~Doing(t, "rebalance")' BY <2>5 DEF Doing
  <3> QED BY <2>1, <2>2, <2>3, <2>4, <2>5, <3>1 DEF FixInv, Heights, rootHolder
 <2>7. "fixDecide" \in Goals BY DEF Goals
 <2> QED BY <2>2, <2>3, <2>4, <2>6, <2>7, Undamaged, ExamineStep
<1>10. ASSUME FixDecides(t) PROVE AVLInv' BY <1>10, FixDecidesStep
<1>11. ASSUME FixLocks(t) PROVE AVLInv'
 <2>1. PICK n : n = fix[t].n OBVIOUS
 <2>2. /\ pc[t] = "fixLock" /\ Free(n) /\ tree' = Lock(tree, n, t) /\ Examine(t, n, "fixHeight")
       /\ UNCHANGED <<path, here, fix, stores, after, history, bounds>>
  BY <1>11, <2>1 DEF FixLocks
 <2>3. n \in Nodes BY <1>1, <2>1, <2>2 DEF FixInv, FixRecords, Maybe
 <2>4. OnlyLocks(t) BY <1>1, <2>2, <2>3, TakesLock
 <2>5. "fixHeight" \in Goals BY DEF Goals
 <2> QED BY <2>2, <2>3, <2>4, <2>5, Undamaged, ExamineStep
<1>12. ASSUME ReadParent(t) PROVE AVLInv' BY <1>12, ReadParentStep
<1>13. ASSUME LockParent(t) PROVE AVLInv' BY <1>13, LockParentStep
<1>14. ASSUME LockNode(t) PROVE AVLInv' BY <1>14, LockNodeStep
<1> QED BY <1>2, <1>3, <1>4, <1>5, <1>6, <1>7, <1>8, <1>9, <1>10, <1>11, <1>12, <1>13, <1>14 DEF Fixing

-----------------------------------------------------------------------------
(* The stores of an unlink or a rotation begin: what t may store, and what *)
(* the tree will be when it has stored it.                                 *)
Covers(W, n, field) == \E w \in W : w.node = n /\ w.field = field
Plans(t, F, G, W) ==
    /\ G \in [Nodes -> LinkRecords]
    /\ \A w \in W : Foresees(G, w) /\ Entitled(t, w)'
    /\ \A n \in Nodes : \A field \in Links : G[n][field] = F[n][field] \/ Covers(W, n, field)
    /\ \A n \in Nodes : G[n].gone = F[n].gone
                        \/ (G[n].gone /\ Covers(W, n, "version") /\ Covers(W, n, "value"))

LEMMA PlansRedirect ==
 ASSUME NEW t \in Threads, OnlyLocks(t), NEW F, NEW G, Plans(t, F, G, Range(stores'[t]))
 PROVE  Redirects(t, F, G)
<1>1. Nodes' = Nodes BY DEF OnlyLocks, Nodes
<1>2. PICK W : W = Range(stores'[t]) OBVIOUS
<1>3. \A n, field : Covers(W, n, field) <=> Pending(t, n, field)' BY <1>2 DEF Covers, Pending
<1>4. \A n, field : Covers(W, n, field) /\ field # "parent" => t \in tree'[n].lock
 <2>1. ASSUME NEW n, NEW field, Covers(W, n, field), field # "parent" PROVE t \in tree'[n].lock
  <3>1. PICK w \in W : w.node = n /\ w.field = field BY <2>1 DEF Covers
  <3>2. Entitled(t, w)' BY <1>2 DEF Plans
  <3> QED BY <2>1, <3>1, <3>2 DEF Entitled, Holds
 <2> QED BY <2>1
<1>5. \A n \in Nodes : Covers(W, n, "parent") => \E m \in Nodes : m = tree[n].parent /\ t \in tree'[m].lock
 <2>1. ASSUME NEW n \in Nodes, Covers(W, n, "parent")
       PROVE  \E m \in Nodes : m = tree[n].parent /\ t \in tree'[m].lock
  <3>1. PICK w \in W : w.node = n /\ w.field = "parent" BY <2>1 DEF Covers
  <3>2. Entitled(t, w)' BY <1>2 DEF Plans
  <3>3. PICK m : m = tree'[n].parent OBVIOUS
  <3>4. m \in Nodes /\ t \in tree'[m].lock BY <3>1, <3>2, <3>3, <1>1 DEF Entitled, Holds
  <3>5. tree'[n].parent = tree[n].parent BY DEF OnlyLocks
  <3> QED BY <3>3, <3>4, <3>5
 <2> QED BY <2>1
<1>6. /\ G \in [Nodes -> LinkRecords]
      /\ \A w \in Range(stores'[t]) : Foresees(G, w)
 BY DEF Plans
<1>7. ASSUME NEW n \in Nodes, NEW side \in Sides
      PROVE  \/ G[n][side] = F[n][side] /\ tree'[n][side] = tree[n][side]
             \/ t \in tree'[n].lock /\ (tree'[n][side] = G[n][side] \/ Pending(t, n, side)')
 <2>1. tree'[n][side] = tree[n][side] BY DEF OnlyLocks, Sides
 <2>2. side \in Links /\ side # "parent" BY DEF Links, Sides
 <2>3. G[n][side] = F[n][side] \/ Covers(W, n, side) BY <1>2, <2>2 DEF Plans
 <2> QED BY <2>1, <2>2, <2>3, <1>3, <1>4
<1>8. ASSUME NEW n \in Nodes
      PROVE  \/ G[n].parent = F[n].parent
             \/ (\E m \in Nodes : m = tree[n].parent /\ t \in tree'[m].lock) /\ Pending(t, n, "parent")'
 <2>1. G[n]["parent"] = F[n]["parent"] \/ Covers(W, n, "parent") BY <1>2 DEF Plans, Links
 <2> QED BY <2>1, <1>3, <1>5
<1>9. ASSUME NEW n \in Nodes
      PROVE  \/ G[n].gone = F[n].gone
             \/ G[n].gone /\ t \in tree'[n].lock /\ Pending(t, n, "version")' /\ Pending(t, n, "value")'
 BY <1>2, <1>3, <1>4 DEF Plans
<1>10. \A n \in Nodes : /\ tree'[n].parent = tree[n].parent /\ tree'[n].version = tree[n].version
                        /\ tree'[n].value = tree[n].value
 BY DEF OnlyLocks
<1> QED BY <1>6, <1>7, <1>8, <1>9, <1>10 DEF Redirects

LEMMA PlannedStep ==
 ASSUME AVLInv, NEW t \in Threads, OnlyLocks(t), pc[t] \in Repairing,
        UNCHANGED <<path, here, cond, history, bounds>>,
        NEW ws \in Seq(Writes), NEW plan, Perform(t, ws, plan),
        NEW f, fix' = [fix EXCEPT ![t] = f] \/ (fix' = fix /\ f = fix[t]),
        plan.then # "unlinked", FixInv(t)', StoreInv(t)',
        NEW F, Reaches(F), NEW G, Plans(t, F, G, Range(ws)), Agree(G)
 PROVE  AVLInv'
<1>1. TreeShape /\ Variables /\ ThreadInv(t) BY DEF AVLInv
<1>2. Nodes' = Nodes /\ Maybe' = Maybe BY <1>1, LocksKeep DEF Maybe
<1>3. pc[t] \notin {"store", "idle"} /\ stores[t] = <<>> /\ call[t] # NoCall
 BY <1>1 DEF Repairing, ThreadInv, StoreInv, IdleInv
<1>4. /\ stores' = [stores EXCEPT ![t] = ws] /\ after' = [after EXCEPT ![t] = plan]
      /\ pc' = [pc EXCEPT ![t] = "store"]
 BY DEF Perform, GoTo
<1>5. MovesOnly(t)
 <2>1. Variables'
  BY <1>1, <1>4 DEF Variables, Labels, bounds, history, Abstract!SetTypeOK, Abstract!SetCalls,
     Abstract!NoCall, Abstract!Results
 <2>2. \A u \in Threads \ {t} : SameFor(u) BY <1>1, <1>4 DEF Variables, SameFor, history
 <2> QED BY <2>1, <2>2 DEF MovesOnly
<1>6. /\ pc'[t] = "store" /\ stores'[t] = ws /\ after'[t] = plan
      /\ path'[t] = path[t] /\ here'[t] = here[t] /\ cond'[t] = cond[t] /\ call'[t] = call[t]
 BY <1>1, <1>4 DEF Variables, history
<1>7. Plans(t, F, G, Range(stores'[t])) BY <1>6
<1>8. StoresAreLocked(t)'
 <2>1. Writes' = Writes BY <1>2 DEF Writes, rootHolder
 <2>2. \A w \in Range(stores'[t]) : Entitled(t, w)' BY <1>7 DEF Plans
 <2> QED BY <1>6, <2>1, <2>2 DEF StoresAreLocked
<1>9. PathInv(t)'
 BY <1>1, <1>2, <1>6 DEF ThreadInv, PathInv, Searching, AtKey, AtChild, Activation, rootHolder
<1>10. CondInv(t)' BY <1>1, <1>2, <1>6, CondAside DEF ThreadInv, Goals
<1>11. IdleInv(t)' BY <1>3, <1>6 DEF IdleInv
<1>12. ThreadInv(t)' BY <1>8, <1>9, <1>10, <1>11 DEF ThreadInv
<1> QED BY <1>3, <1>5, <1>7, <1>12, PlansRedirect, RedirectStep

(* The plan of a repair, but for the first part of a double rotation. *)
LEMMA PlainPlan ==
 ASSUME AVLInv, NEW t \in Threads, OnlyLocks(t), NEW ws, NEW plan, Perform(t, ws, plan),
        plan.then \in {"damaged", "fixHeight"}, plan.node \in Nodes, fix' = fix
 PROVE  FixInv(t)' /\ StoreInv(t)'
<1>1. Variables /\ FixInv(t) BY DEF AVLInv, ThreadInv
<1>2. Nodes' = Nodes /\ FixRecords' = FixRecords BY DEF OnlyLocks, Nodes, FixRecords, Maybe
<1>3. pc'[t] = "store" /\ after'[t] = plan /\ fix'[t] = fix[t] BY <1>1 DEF Variables, Perform, GoTo
<1>4. ~Doing(t, "fixDecide")' /\ ~Doing(t, "rebalance")' BY <1>3 DEF Doing
<1>5. FixInv(t)' BY <1>1, <1>2, <1>3, <1>4 DEF FixInv, Heights
<1>6. StoreInv(t)' BY <1>2, <1>3 DEF StoreInv
<1> QED BY <1>5, <1>6

LEMMA WritesTyped ==
 ASSUME NEW n \in Nodes
 PROVE  /\ \A side \in Sides : \A m \in Maybe : Write(n, side, m) \in Writes
        /\ \A h \in Nat \ {0} : Write(n, "height", h) \in Writes
        /\ Write(n, "value", FALSE) \in Writes
        /\ n # rootHolder => /\ \A p \in Nodes : Write(n, "parent", p) \in Writes
                             /\ \A v \in Nat : Write(n, "version", v) \in Writes
 BY DEF Write, Writes, Sides

LEMMA WriteFields ==
 ASSUME NEW n, NEW field, NEW v
 PROVE  /\ Write(n, field, v).node = n /\ Write(n, field, v).field = field
        /\ Write(n, field, v).value = v
 BY DEF Write

LEMMA ParentWrites ==
 ASSUME TreeShape, NEW n \in Maybe, n # rootHolder, NEW p \in Nodes
 PROVE  /\ SetParent(n, p) \in Seq(Writes)
        /\ Range(SetParent(n, p)) = IF n = NoNode THEN {} ELSE {Write(n, "parent", p)}
<1>1. CASE n = NoNode
 <2>1. SetParent(n, p) = <<>> BY <1>1 DEF SetParent
 <2>2. <<>> \in Seq(Writes) OBVIOUS
 <2> QED BY <1>1, <2>1, <2>2, RangeOfEmpty
<1>2. CASE n # NoNode
 <2>1. PICK w, W : w = Write(n, "parent", p) /\ W = Writes OBVIOUS
 <2>2. n \in Nodes /\ w \in W BY <1>2, <2>1, WritesTyped DEF Maybe
 <2>3. SetParent(n, p) = <<w>> BY <1>2, <2>1 DEF SetParent
 <2> QED BY <1>2, <2>1, <2>2, <2>3, RangeOfOne
<1> QED BY <1>1, <1>2

(* Nothing but heights is stored: the links are those planned before. *)
LEMMA RebalanceHeightStep ==
 ASSUME AVLInv, NEW t \in Threads, RebalanceHeight(t)
 PROVE  AVLInv'
<1>1. TreeShape /\ Variables /\ ThreadInv(t) /\ CondInv(t) /\ FixInv(t) BY DEF AVLInv, ThreadInv
<1>2. PICK n, p, h : n = fix[t].n /\ p = fix[t].p /\ h = NewHeight(t) OBVIOUS
<1>3. PICK ws, plan : ws = <<Write(n, "height", h)>> /\ plan = Plan("fixHeight", p) OBVIOUS
<1>4. /\ pc[t] = "rebalance" /\ ~UnlinkRequired(t) /\ Perform(t, ws, plan)
      /\ UNCHANGED <<tree, path, here, cond, fix, history, bounds>>
 BY <1>2, <1>3 DEF RebalanceHeight, HeightRequired
<1>5. pc[t] \in Goals /\ pc[t] \in Repairing BY <1>4 DEF Goals, Repairing
<1>6. n \in Nodes /\ p \in Nodes /\ Holds(t, n)
 BY <1>1, <1>2, <1>4 DEF FixInv, Doing, HoldsPair, Holds
<1>7. h \in Nat \ {0} BY <1>1, <1>2, <1>4, <1>5, FoundFields
<1>8. OnlyLocks(t) BY <1>1, <1>4, UnchangedTree
<1>9. ws \in Seq(Writes) /\ Range(ws) = {Write(n, "height", h)}
 <2>1. PICK w, W : w = Write(n, "height", h) /\ W = Writes OBVIOUS
 <2>2. w \in W BY <1>6, <1>7, <2>1, WritesTyped
 <2> QED BY <1>3, <2>1, <2>2, RangeOfOne
<1>10. plan.then = "fixHeight" /\ plan.node \in Nodes BY <1>3, <1>6 DEF Plan
<1>11. PICK F : FinalLinks(F) BY DEF AVLInv
<1>12. Reaches(F) /\ Agree(F) BY <1>11 DEF FinalLinks
<1>13. Plans(t, F, F, Range(ws))
 <2>1. PICK w : w = Write(n, "height", h) OBVIOUS
 <2>2. w.node = n /\ w.field = "height" /\ w.value = h BY <2>1, WriteFields
 <2>3. Foresees(F, w) BY <2>2 DEF Foresees, Links
 <2>4. Entitled(t, w)' BY <1>4, <1>6, <2>2 DEF Entitled, Holds, Nodes
 <2>5. F \in [Nodes -> LinkRecords] BY <1>12 DEF Reaches
 <2> QED BY <1>9, <2>1, <2>3, <2>4, <2>5 DEF Plans
<1>14. FixInv(t)' /\ StoreInv(t)' BY <1>4, <1>8, <1>10, PlainPlan
<1> QED BY <1>4, <1>5, <1>8, <1>9, <1>10, <1>12, <1>13, <1>14, PlannedStep

(* A routing node that has lost a child is spliced out. *)
LEMMA RebalanceUnlinksStep ==
 ASSUME AVLInv, NEW t \in Threads, RebalanceUnlinks(t)
 PROVE  AVLInv'
<1>1. TreeShape /\ Variables /\ ThreadInv(t) /\ CondInv(t) /\ FixInv(t) /\ \A u \in Threads : StoresAreLocked(u)
 BY DEF AVLInv, ThreadInv
<1>2. PICK n, p : n = fix[t].n /\ p = fix[t].p OBVIOUS
<1>3. pc[t] = "rebalance" /\ UNCHANGED <<path, here, history, bounds>> BY DEF RebalanceUnlinks
<1>4. pc[t] \in Repairing /\ pc[t] \notin {"store", "idle"} /\ stores[t] = <<>>
 BY <1>1, <1>3 DEF Repairing, ThreadInv, StoreInv
<1>5. /\ n \in Nodes /\ p \in Nodes /\ n # p /\ n # rootHolder /\ Holds(t, p) /\ Holds(t, n)
      /\ ~isUnlinked(tree[p].version) /\ tree[n].parent = p
 BY <1>1, <1>2, <1>3 DEF FixInv, Doing, HoldsPair, Holds
<1>6. CASE ~CanUnlink(p, n)
 <2>1. Damaged(t, n) /\ UNCHANGED <<stores, after>> /\ n \in Maybe
  BY <1>2, <1>5, <1>6 DEF RebalanceUnlinks, Maybe
 <2> QED BY <1>3, <1>4, <2>1, Undamaged, DamagedStep
<1>7. CASE CanUnlink(p, n)
 <2>1. PICK s, b : s = Splice(n) /\ b = SideOf(p, n) OBVIOUS
 <2>2. PICK ws, plan : /\ ws = <<Write(p, b, s)>> \o UnlinkWrites(p, n)
                       /\ plan = Plan("fixHeight", p)
  OBVIOUS
 <2>3. Perform(t, ws, plan) /\ UNCHANGED <<tree, cond, fix>>
  BY <1>2, <1>7, <2>1, <2>2 DEF RebalanceUnlinks
 <2>4. OnlyLocks(t) BY <1>1, <2>3, UnchangedTree
 <2>5. b \in Sides /\ tree[p][b] = n /\ n # NoNode /\ NoNode \in {tree[n].left, tree[n].right}
       /\ s = (IF tree[n].left # NoNode THEN tree[n].left ELSE tree[n].right)
  BY <1>1, <1>5, <1>7, <2>1, TreeFields DEF CanUnlink, SideOf, Sides, Splice
 <2>6. PICK F : FinalLinks(F) BY DEF AVLInv
 <2>7. IsForest(F) /\ DOMAIN F = Nodes /\ Agree(F) /\ Reaches(F)
  BY <1>1, <2>6, ForestOfNodes DEF FinalLinks
 <2>8. QuietAt(p) /\ QuietAt(n) BY <1>1, <1>4, <1>5, MineIsQuiet
 <2>9. F[p][b] = n /\ ~F[p].gone /\ ~F[n].gone /\ F[n].parent = p
  BY <1>1, <1>5, <2>5, <2>6, <2>8, ChildOfQuiet
 <2>10. tree[n].left = F[n].left /\ tree[n].right = F[n].right /\ ~isUnlinked(tree[n].version)
  BY <1>1, <1>5, <2>7, <2>8, <2>9, QuietLinks
 <2>11. s # NoNode => /\ s \in Nodes /\ s # rootHolder /\ tree[s].parent = n
  <3>1. PICK d \in Sides : s = tree[n][d] BY <2>5 DEF Sides
  <3> QED BY <3>1, <1>1, <1>5, <2>6, <2>8, <2>10, ChildOfQuiet
 <2>12. PICK G : G = AfterUnlink(F, p, n, s) OBVIOUS
 <2>13. IsForest(G) /\ Agree(G)
  <3>1. IsChild(F, p, n) BY <2>5, <2>9 DEF IsChild
  <3>2. s = (IF F[n].left # NoNode THEN F[n].left ELSE F[n].right) /\ NoNode \in {F[n].left, F[n].right}
   BY <2>5, <2>10
  <3>3. p \in DOMAIN F /\ n \in DOMAIN F /\ p # n BY <1>5, <2>7
  <3> QED BY <3>1, <3>2, <3>3, <2>7, <2>9, <2>12, UnlinkAgrees
 <2>14. /\ DOMAIN G = Nodes
        /\ \A x \in Nodes :
             /\ \A side \in Sides : G[x][side] = IF x = p /\ F[p][side] = n THEN s ELSE F[x][side]
             /\ G[x].parent = IF x = s THEN p ELSE F[x].parent
             /\ G[x].gone = (F[x].gone \/ x = n)
  BY <2>7, <2>12, UnlinkLinks
 <2>15. \A side \in Sides : F[p][side] = n <=> side = b
  <3>1. F[p].left # NoNode => F[p].left # F[p].right BY <1>5, <2>7, <2>9 DEF Agree
  <3> QED BY <3>1, <2>5, <2>9 DEF Sides
 <2>16. PICK a, c, v, w : /\ a = Write(s, "parent", p) /\ c = Write(p, b, s)
                          /\ v = Write(n, "version", UnlinkedOVL) /\ w = Write(n, "value", FALSE)
  OBVIOUS
 <2>17. /\ v.node = n /\ v.field = "version" /\ v.value = UnlinkedOVL
        /\ w.node = n /\ w.field = "value" /\ w.value = FALSE
        /\ a.node = s /\ a.field = "parent" /\ a.value = p
        /\ c.node = p /\ c.field = b /\ c.value = s
  BY <2>16 DEF Write
 <2>18. v \in Writes /\ w \in Writes /\ c \in Writes /\ (s # NoNode => a \in Writes)
  <3>1. s \in Maybe BY <2>11 DEF Maybe
  <3>2. c \in Writes BY <3>1, <1>5, <2>5, <2>16, WritesTyped
  <3>3. v \in Writes /\ w \in Writes BY <1>5, <2>16, WritesTyped, MarksAreUnlinked
  <3>4. s # NoNode => a \in Writes BY <1>5, <2>11, <2>16, WritesTyped
  <3> QED BY <3>2, <3>3, <3>4
 <2>19. ws \in Seq(Writes) /\ Range(ws) = {c, v, w} \cup (IF s = NoNode THEN {} ELSE {a})
  <3>1. PICK W, x, y, z : W = Writes /\ x = <<c>> /\ y = (IF s = NoNode THEN <<>> ELSE <<a>>) /\ z = <<v, w>>
   OBVIOUS
  <3>2. x \in Seq(W) /\ Range(x) = {c} BY <2>18, <3>1, RangeOfOne
  <3>3. z \in Seq(W) /\ Range(z) = {v, w} BY <2>18, <3>1, RangeOfTwo
  <3>4. y \in Seq(W) /\ Range(y) = (IF s = NoNode THEN {} ELSE {a})
   <4>1. CASE s = NoNode
    <5>1. y = <<>> /\ <<>> \in Seq(W) BY <3>1, <4>1
    <5> QED BY <4>1, <5>1, RangeOfEmpty
   <4>2. CASE s # NoNode
    <5>1. y = <<a>> /\ a \in W BY <2>18, <3>1, <4>2
    <5> QED BY <4>2, <5>1, RangeOfOne
   <4> QED BY <4>1, <4>2
  <3>5. PICK r : r = y \o z OBVIOUS
  <3>6. r \in Seq(W) /\ Range(r) = Range(y) \cup Range(z) BY <3>3, <3>4, <3>5, RangeOfConcat
  <3>7. PICK q : q = x \o r OBVIOUS
  <3>8. q \in Seq(W) /\ Range(q) = Range(x) \cup Range(r) BY <3>2, <3>6, <3>7, RangeOfConcat
  <3>9. ws = q BY <2>1, <2>2, <2>16, <3>1, <3>5, <3>7 DEF UnlinkWrites
  <3> QED BY <3>1, <3>2, <3>3, <3>4, <3>6, <3>8, <3>9
 <2>20. Nodes' = Nodes /\ Holds(t, n)' /\ Holds(t, p)' BY <1>5, <2>3 DEF Holds, Nodes
 <2>21. Plans(t, F, G, Range(ws))
  <3>1. G \in [Nodes -> LinkRecords] BY <2>13, <2>14 DEF IsForest, LinkRecords, Maybe
  <3>2. ASSUME NEW x \in Range(ws) PROVE Foresees(G, x)
   <4>1. CASE x \in {v, w} BY <4>1, <1>5, <2>14, <2>17, MarksAreUnlinked DEF Foresees, Links
   <4>2. CASE x = c BY <4>2, <1>5, <2>5, <2>14, <2>15, <2>17 DEF Foresees, Links, Sides
   <4>3. CASE s # NoNode /\ x = a BY <4>3, <2>11, <2>14, <2>17 DEF Foresees, Links
   <4> QED BY <3>2, <4>1, <4>2, <4>3, <2>19
  <3>3. ASSUME NEW x \in Range(ws) PROVE Entitled(t, x)'
   <4>1. CASE x \in {v, w} BY <4>1, <2>17, <2>20 DEF Entitled, Holds
   <4>2. CASE x = c BY <4>2, <2>5, <2>17, <2>20 DEF Entitled, Holds, Sides
   <4>3. CASE s # NoNode /\ x = a
    <5>1. tree'[x.node].parent = n /\ x.value = p /\ x.field = "parent" BY <4>3, <2>3, <2>11, <2>17
    <5> QED BY <5>1, <2>20 DEF Entitled, Holds
   <4> QED BY <3>3, <4>1, <4>2, <4>3, <2>19
  <3>4. ASSUME NEW x \in Nodes, NEW side \in Sides
        PROVE  G[x][side] = F[x][side] \/ Covers(Range(ws), x, side)
   <4>1. CASE x = p /\ side = b BY <4>1, <2>17, <2>19 DEF Covers
   <4>2. CASE ~(x = p /\ side = b) BY <4>2, <2>14, <2>15
   <4> QED BY <4>1, <4>2
  <3>5. ASSUME NEW x \in Nodes PROVE G[x].parent = F[x].parent \/ Covers(Range(ws), x, "parent")
   <4>1. CASE x = s
    <5>1. s # NoNode BY <4>1, <1>1 DEF TreeShape
    <5> QED BY <4>1, <5>1, <2>17, <2>19 DEF Covers
   <4>2. CASE x # s BY <4>2, <2>14
   <4> QED BY <4>1, <4>2
  <3>6. ASSUME NEW x \in Nodes
        PROVE  G[x].gone = F[x].gone
               \/ (G[x].gone /\ Covers(Range(ws), x, "version") /\ Covers(Range(ws), x, "value"))
   <4>1. CASE x = n
    <5>1. v \in Range(ws) /\ w \in Range(ws) /\ G[x].gone BY <4>1, <2>14, <2>19
    <5> QED BY <4>1, <5>1, <2>17 DEF Covers
   <4>2. CASE x # n
    <5>1. F[x].gone \in BOOLEAN BY <2>7 DEF Reaches, LinkRecords
    <5> QED BY <4>2, <5>1, <2>14
   <4> QED BY <4>1, <4>2
  <3>7. ASSUME NEW x \in Nodes, NEW field \in Links
        PROVE  G[x][field] = F[x][field] \/ Covers(Range(ws), x, field)
   <4>1. CASE field \in Sides BY <3>4, <4>1
   <4>2. CASE field = "parent" BY <3>5, <4>2
   <4> QED BY <4>1, <4>2 DEF Links, Sides
  <3> QED BY <3>1, <3>2, <3>3, <3>6, <3>7 DEF Plans
 <2>22. plan.then = "fixHeight" /\ plan.node \in Nodes BY <1>5, <2>2 DEF Plan
 <2>23. FixInv(t)' /\ StoreInv(t)' BY <2>3, <2>4, <2>22, PlainPlan
 <2> QED BY <1>3, <1>4, <2>3, <2>4, <2>7, <2>13, <2>19, <2>21, <2>22, <2>23, PlannedStep
<1> QED BY <1>6, <1>7

LEMMA LocksAside ==
 ASSUME NEW t, OnlyLocks(t)
 PROVE  \A m \in Nodes : /\ tree'[m].version = tree[m].version /\ tree'[m].parent = tree[m].parent
                         /\ \A d \in Sides : tree'[m][d] = tree[m][d]
 BY DEF OnlyLocks, Sides

(* What is locked stays as it was. *)
LEMMA StillHolds ==
 ASSUME NEW t \in Threads, OnlyLocks(t), \A m : Holds(t, m) => Holds(t, m)', fix[t].side \in Sides,
        fix'[t].n = fix[t].n, fix'[t].p = fix[t].p, fix'[t].child = fix[t].child, fix'[t].side = fix[t].side
 PROVE  /\ HoldsChild(t) => HoldsChild(t)'
        /\ HoldsInner(t) /\ fix'[t].inner = fix[t].inner => HoldsInner(t)'
<1>1. PICK n, p, c, i, s, o : n = fix[t].n /\ p = fix[t].p /\ c = fix[t].child /\ i = fix[t].inner
                              /\ s = fix[t].side /\ o = Opposite(s)
 OBVIOUS
<1>2. fix'[t].n = n /\ fix'[t].p = p /\ fix'[t].child = c /\ fix'[t].side = s /\ Nodes' = Nodes
 BY <1>1 DEF OnlyLocks, Nodes
<1>3. s \in Sides /\ o \in Sides BY <1>1 DEF Sides, Opposite
<1>4. \A m \in Nodes : /\ tree'[m].version = tree[m].version /\ tree'[m].parent = tree[m].parent
                       /\ \A d \in Sides : tree'[m][d] = tree[m][d]
 BY LocksAside
<1>5. HoldsPair(t) => HoldsPair(t)'
 <2>1. ASSUME HoldsPair(t)
       PROVE  n \notin {p, rootHolder} /\ Holds(t, p) /\ Holds(t, n) /\ n \in Nodes /\ p \in Nodes
              /\ ~isUnlinked(tree[p].version) /\ tree[n].parent = p
  BY <1>1, <2>1 DEF HoldsPair, Holds
 <2>2. ASSUME HoldsPair(t)
       PROVE  n \notin {p, rootHolder} /\ t \in tree'[p].lock /\ t \in tree'[n].lock
              /\ ~isUnlinked(tree'[p].version) /\ tree'[n].parent = p /\ n \in Nodes' /\ p \in Nodes'
  BY <2>1, <2>2, <1>2, <1>4 DEF Holds
 <2> QED BY <1>2, <2>2 DEF HoldsPair, Holds, rootHolder
<1>6. HoldsChild(t) => HoldsChild(t)'
 <2>1. ASSUME HoldsChild(t) PROVE HoldsChild(t)'
  <3>1. HoldsPair(t) /\ n \in Nodes /\ ~isUnlinked(tree[n].version) /\ c # NoNode /\ tree[n][o] = c
   BY <1>1, <2>1 DEF HoldsChild, HoldsPair, Holds
  <3>2. HoldsPair(t)' /\ ~isUnlinked(tree'[n].version) /\ c # NoNode /\ tree'[n][o] = c
   BY <3>1, <1>3, <1>4, <1>5
  <3>3. o = Opposite(fix'[t].side) BY <1>1, <1>2
  <3> QED BY <3>2, <3>3, <1>2 DEF HoldsChild, NoNode
 <2> QED BY <2>1
<1>7. ASSUME HoldsInner(t), fix'[t].inner = fix[t].inner PROVE HoldsInner(t)'
 <2>1. HoldsChild(t) /\ Holds(t, c) /\ c \in Nodes /\ c \notin {n, p} /\ tree[c][s] = i
  BY <1>1, <1>7 DEF HoldsInner, Holds
 <2>2. HoldsChild(t)' /\ t \in tree'[c].lock /\ c \in Nodes' /\ c \notin {n, p} /\ tree'[c][s] = i
  BY <2>1, <1>2, <1>3, <1>4, <1>6 DEF Holds
 <2>3. fix'[t].inner = i BY <1>1, <1>7
 <2> QED BY <2>2, <2>3, <1>2 DEF HoldsInner, Holds
<1> QED BY <1>6, <1>7

(* Towards a rotation. *)
LEMMA RebalanceToStep ==
 ASSUME AVLInv, NEW t \in Threads, RebalanceTo(t)
 PROVE  AVLInv'
<1>1. TreeShape /\ Variables /\ ThreadInv(t) /\ CondInv(t) /\ FixInv(t) /\ \A u \in Threads : StoresAreLocked(u)
 BY DEF AVLInv, ThreadInv
<1>2. PICK g, s, c, h : /\ g = cond[t].got
                        /\ s = (IF Balance(t) > 1 THEN "right" ELSE "left")
                        /\ c = (IF s = "right" THEN g[1] ELSE g[2])
                        /\ h = (IF s = "right" THEN g[6] ELSE g[5])
 OBVIOUS
<1>3. PICK f : f = [fix[t] EXCEPT !.side = s, !.child = c, !.hOther = h] OBVIOUS
<1>4. /\ pc[t] = "rebalance" /\ ~UnlinkRequired(t) /\ Balance(t) \notin -1 .. 1
      /\ fix' = [fix EXCEPT ![t] = f] /\ pc' = [pc EXCEPT ![t] = "lockChild"]
      /\ UNCHANGED <<tree, path, here, cond, stores, after, history, bounds>>
 BY <1>2, <1>3 DEF RebalanceTo, RebalanceRequired, GoTo
<1>5. pc[t] \in Goals /\ pc[t] \notin {"store", "idle"} /\ "lockChild" \in Repairing
 BY <1>4 DEF Goals, Repairing
<1>6. /\ DOMAIN g = 1 .. 6 /\ g[1] \in Maybe /\ g[2] \in Maybe /\ g[5] \in Nat /\ g[6] \in Nat
      /\ (g[1] = NoNode => g[5] = 0) /\ (g[2] = NoNode => g[6] = 0)
 BY <1>1, <1>2, <1>4, <1>5, FoundFields
<1>7. s \in Sides /\ c \in Maybe /\ h \in Nat /\ c # NoNode
 <2>1. Balance(t) = g[5] - g[6] BY <1>2 DEF Balance
 <2>2. CASE Balance(t) > 1 BY <2>1, <2>2, <1>2, <1>6 DEF Sides
 <2>3. CASE ~(Balance(t) > 1)
  <3>1. g[5] - g[6] < -1 BY <2>1, <2>3, <1>4, <1>6
  <3>2. g[6] # 0 BY <3>1, <1>6
  <3> QED BY <2>3, <3>2, <1>2, <1>6 DEF Sides
 <2> QED BY <2>2, <2>3
<1>8. PICK n, p : n = fix[t].n /\ p = fix[t].p OBVIOUS
<1>9. /\ HoldsPair(t)
      /\ g[1] = tree[n].left /\ g[2] = tree[n].right /\ g[3] = {tree[n].value}
 <2>1. {1, 2, 3} \subseteq DOMAIN g BY <1>6
 <2> QED BY <2>1, <1>1, <1>2, <1>4, <1>8 DEF FixInv, Doing
<1>10. /\ n \in Nodes /\ p \in Nodes /\ n # p /\ n # rootHolder /\ Holds(t, p) /\ Holds(t, n)
       /\ ~isUnlinked(tree[p].version) /\ tree[n].parent = p
 BY <1>8, <1>9 DEF HoldsPair, Holds
<1>11. ~isUnlinked(tree[n].version)
 <2>1. PICK F : FinalLinks(F) BY DEF AVLInv
 <2>2. QuietAt(n) BY <1>1, <1>5, <1>10, MineIsQuiet DEF ThreadInv, StoreInv
 <2>3. /\ tree[n].left = F[n].left /\ tree[n].right = F[n].right
       /\ isUnlinked(tree[n].version) <=> F[n].gone
       /\ F[n].gone => ~tree[n].value
  BY <1>1, <1>10, <2>1, <2>2, QuietLinks DEF FinalLinks
 <2>4. F[n].gone => NoNode \in {F[n].left, F[n].right} BY <1>10, <2>1 DEF FinalLinks, Reaches, Agree
 <2>5. NoNode \notin {g[1], g[2]} \/ g[3] = {TRUE}
  <3>1. 4 \in DOMAIN g BY <1>6
  <3> QED BY <3>1, <1>1, <1>2 DEF CondInv
 <2>6. g[3] = {TRUE} => tree[n].value BY <1>9, Zenon
 <2> QED BY <2>3, <2>4, <2>5, <2>6, <1>9
<1>12. tree[n][Opposite(s)] = c BY <1>2, <1>9 DEF Opposite
<1>13. f \in FixRecords /\ f.n = n /\ f.p = p /\ f.side = s /\ f.child = c
 BY <1>1, <1>3, <1>7, <1>8 DEF FixInv, FixRecords
<1>14. OnlyLocks(t) /\ Nodes' = Nodes /\ Maybe' = Maybe /\ FixRecords' = FixRecords
 BY <1>1, <1>4, UnchangedTree DEF Nodes, Maybe, FixRecords
<1>15. pc'[t] = "lockChild" /\ cond'[t] = cond[t] /\ fix'[t] = f BY <1>1, <1>4 DEF Variables
<1>16. CondInv(t)' BY <1>1, <1>14, <1>15, CondAside DEF Goals
<1>17. FixInv(t)'
 <2>1. HoldsPair(t)' BY <1>4, <1>10, <1>13, <1>15 DEF HoldsPair, Holds, Nodes, rootHolder
 <2>2. HoldsChild(t)' BY <2>1, <1>4, <1>7, <1>11, <1>12, <1>13, <1>15 DEF HoldsChild, NoNode
 <2>3. ~Doing(t, "fixDecide")' /\ ~Doing(t, "rebalance")' BY <1>15 DEF Doing
 <2>4. fix'[t] \in FixRecords' BY <1>13, <1>14, <1>15
 <2> QED BY <1>15, <2>2, <2>3, <2>4 DEF FixInv, Heights
<1> QED BY <1>4, <1>5, <1>14, <1>16, <1>17, Undamaged, RepairStep

LEMMA LockChildStep ==
 ASSUME AVLInv, NEW t \in Threads, LockChild(t)
 PROVE  AVLInv'
<1>1. TreeShape /\ Variables /\ ThreadInv(t) /\ CondInv(t) /\ FixInv(t) BY DEF AVLInv, ThreadInv
<1>2. pc[t] = "lockChild" /\ UNCHANGED <<path, here, stores, after, history, bounds>>
 BY DEF LockChild
<1>3. HoldsChild(t) /\ fix[t] \in FixRecords BY <1>1, <1>2 DEF FixInv
<1>4. PICK n, p, c, s : n = fix[t].n /\ p = fix[t].p /\ c = fix[t].child /\ s = fix[t].side OBVIOUS
<1>5. n \in Nodes /\ c \in Nodes /\ s \in Sides /\ Holds(t, n) /\ Holds(t, p)
 BY <1>3, <1>4 DEF FixRecords, HoldsChild, HoldsPair, Holds, Maybe
<1>6. CASE Damaged(t, fix[t].n)
 <2>1. Damaged(t, n) /\ n \in Maybe /\ pc[t] \notin {"idle", "store"}
  BY <1>2, <1>4, <1>5, <1>6 DEF Maybe
 <2> QED BY <1>2, <2>1, Undamaged, DamagedStep
<1>7. CASE ~Damaged(t, fix[t].n)
 <2>1. PICK f, l : /\ f = [fix[t] EXCEPT !.inner = tree[c][s]]
                   /\ l = (IF s = "right" THEN "outerFirst" ELSE "innerFirst")
  OBVIOUS
 <2>2. /\ Free(c) /\ tree' = Lock(tree, c, t) /\ fix' = [fix EXCEPT ![t] = f]
       /\ pc' = [pc EXCEPT ![t] = l] /\ UNCHANGED cond
  BY <1>4, <1>7, <2>1 DEF LockChild, GoTo, Child
 <2>3. /\ OnlyLocks(t) /\ Holds(t, c)' /\ (\A m : Holds(t, m) => Holds(t, m)')
  BY <1>1, <1>5, <2>2, TakesLock
 <2>4. c \notin {n, p} BY <1>5, <2>2 DEF Holds, Free
 <2>5. Nodes' = Nodes /\ Maybe' = Maybe /\ FixRecords' = FixRecords
  BY <2>3 DEF OnlyLocks, Nodes, Maybe, FixRecords
 <2>6. f \in FixRecords /\ f.n = n /\ f.p = p /\ f.side = s /\ f.child = c /\ f.inner = tree[c][s]
  <3>1. tree[c][s] \in Maybe BY <1>1, <1>5, TreeFields
  <3> QED BY <3>1, <1>3, <1>4, <2>1 DEF FixRecords
 <2>7. pc'[t] = l /\ cond'[t] = cond[t] /\ fix'[t] = f /\ l \in {"outerFirst", "innerFirst"}
  BY <1>1, <2>1, <2>2 DEF Variables
 <2>8. l \in Repairing /\ l \in Heights BY <2>7 DEF Repairing, Heights
 <2>9. CondInv(t)' BY <1>1, <2>5, <2>7, CondAside DEF Goals
 <2>10. HoldsChild(t)' BY <1>3, <1>4, <1>5, <2>3, <2>6, <2>7, StillHolds
 <2>11. HoldsInner(t)'
  <3>1. tree'[c][s] = tree[c][s] BY <1>5, <2>3 DEF OnlyLocks, Sides
  <3>2. t \in tree'[c].lock /\ c \in Nodes' BY <2>3 DEF Holds
  <3> QED BY <2>4, <2>6, <2>7, <2>10, <3>1, <3>2 DEF HoldsInner, Holds
 <2>12. FixInv(t)'
  <3>1. ~Doing(t, "fixDecide")' /\ ~Doing(t, "rebalance")' BY <2>7 DEF Doing
  <3>2. fix'[t] \in FixRecords' BY <2>5, <2>6, <2>7
  <3> QED BY <2>7, <2>11, <3>1, <3>2 DEF FixInv
 <2>13. pc[t] \notin {"idle", "store"} BY <1>2
 <2> QED BY <1>2, <2>2, <2>3, <2>8, <2>9, <2>12, <2>13, Undamaged, RepairStep
<1> QED BY <1>6, <1>7

(* The heights of the grandchildren. *)
LEMMA ReadHeightStep ==
 ASSUME AVLInv, NEW t \in Threads, pc[t] \in Heights, NEW l \in Heights \cup {"rotate"},
        NEW f \in FixRecords, fix' = [fix EXCEPT ![t] = f], GoTo(t, l),
        f.n = fix[t].n, f.p = fix[t].p, f.child = fix[t].child, f.side = fix[t].side, f.inner = fix[t].inner,
        UNCHANGED <<tree, path, here, cond, stores, after, history, bounds>>
 PROVE  AVLInv'
<1>1. TreeShape /\ Variables /\ ThreadInv(t) /\ CondInv(t) /\ FixInv(t) BY DEF AVLInv, ThreadInv
<1>2. l \in Repairing /\ pc[t] \notin {"idle", "store"} BY DEF Repairing, Heights
<1>3. pc' = [pc EXCEPT ![t] = l] /\ pc'[t] = l /\ cond'[t] = cond[t] /\ fix'[t] = f
 BY <1>1 DEF Variables, GoTo
<1>4. OnlyLocks(t) /\ Nodes' = Nodes /\ FixRecords' = FixRecords
 BY <1>1, UnchangedTree DEF Nodes, FixRecords, Maybe
<1>5. CondInv(t)' BY <1>1, <1>3, <1>4, CondAside DEF Goals, Heights
<1>6. HoldsInner(t)'
 <2>1. HoldsInner(t) /\ fix[t].side \in Sides BY <1>1 DEF FixInv, FixRecords
 <2>2. \A m : Holds(t, m) => Holds(t, m)' BY DEF Holds, Nodes
 <2> QED BY <1>3, <1>4, <2>1, <2>2, StillHolds
<1>7. FixInv(t)'
 <2>1. ~Doing(t, "fixDecide")' /\ ~Doing(t, "rebalance")' BY <1>3 DEF Doing, Heights
 <2>2. fix'[t] \in FixRecords' BY <1>3, <1>4
 <2> QED BY <1>3, <1>6, <2>1, <2>2 DEF FixInv, Heights
<1> QED BY <1>2, <1>3, <1>4, <1>5, <1>7, Undamaged, RepairStep

LEMMA ReadOuterStep ==
 ASSUME AVLInv, NEW t \in Threads, ReadOuter(t)
 PROVE  AVLInv'
<1>1. TreeShape /\ FixInv(t) BY DEF AVLInv, ThreadInv
<1>2. PICK h, l : /\ h = Height(Child(fix[t].child, Opposite(fix[t].side)))
                  /\ l = (IF pc[t] = "outerFirst" THEN "innerLast" ELSE "rotate")
 OBVIOUS
<1>3. PICK f : f = [fix[t] EXCEPT !.hOuter = h] OBVIOUS
<1>4. /\ pc[t] \in {"outerFirst", "outerLast"} /\ fix' = [fix EXCEPT ![t] = f] /\ GoTo(t, l)
      /\ UNCHANGED <<tree, path, here, cond, stores, after, history, bounds>>
 BY <1>2, <1>3 DEF ReadOuter
<1>5. pc[t] \in Heights /\ l \in Heights \cup {"rotate"} BY <1>2, <1>4 DEF Heights
<1>6. fix[t] \in FixRecords /\ fix[t].child \in Nodes /\ Opposite(fix[t].side) \in Sides
 BY <1>1, <1>5 DEF FixInv, HoldsInner, Holds, Opposite, Sides
<1>7. h \in Nat
 <2>1. Child(fix[t].child, Opposite(fix[t].side)) \in Maybe BY <1>1, <1>6, TreeFields DEF Child
 <2> QED BY <1>1, <1>2, <2>1, HeightsAreNatural
<1>8. /\ f \in FixRecords /\ f.n = fix[t].n /\ f.p = fix[t].p /\ f.child = fix[t].child
      /\ f.side = fix[t].side /\ f.inner = fix[t].inner
 BY <1>3, <1>6, <1>7 DEF FixRecords
<1> QED BY <1>4, <1>5, <1>8, ReadHeightStep

LEMMA ReadInnerStep ==
 ASSUME AVLInv, NEW t \in Threads, ReadInner(t)
 PROVE  AVLInv'
<1>1. TreeShape /\ FixInv(t) BY DEF AVLInv, ThreadInv
<1>2. PICK h, l : h = Height(fix[t].inner) /\ l = (IF pc[t] = "innerFirst" THEN "outerLast" ELSE "rotate")
 OBVIOUS
<1>3. PICK f : f = [fix[t] EXCEPT !.hInner = h] OBVIOUS
<1>4. /\ pc[t] \in {"innerFirst", "innerLast"} /\ fix' = [fix EXCEPT ![t] = f] /\ GoTo(t, l)
      /\ UNCHANGED <<tree, path, here, cond, stores, after, history, bounds>>
 BY <1>2, <1>3 DEF ReadInner
<1>5. pc[t] \in Heights /\ l \in Heights \cup {"rotate"} BY <1>2, <1>4 DEF Heights
<1>6. fix[t] \in FixRecords /\ fix[t].inner \in Maybe BY <1>1 DEF FixInv, FixRecords
<1>7. h \in Nat BY <1>1, <1>2, <1>6, HeightsAreNatural
<1>8. /\ f \in FixRecords /\ f.n = fix[t].n /\ f.p = fix[t].p /\ f.child = fix[t].child
      /\ f.side = fix[t].side /\ f.inner = fix[t].inner
 BY <1>3, <1>6, <1>7 DEF FixRecords
<1> QED BY <1>4, <1>5, <1>8, ReadHeightStep

(* Three nodes one below another, all locked. *)
LEMMA InnerFacts ==
 ASSUME AVLInv, NEW t \in Threads, HoldsInner(t), stores[t] = <<>>, fix[t] \in FixRecords,
        NEW n, n = fix[t].n, NEW p, p = fix[t].p, NEW c, c = fix[t].child, NEW i, i = fix[t].inner,
        NEW s, s = fix[t].side, NEW o, o = Opposite(s), NEW F, FinalLinks(F), NEW b, b = SideOf(p, n)
 PROVE  /\ n \in Nodes /\ p \in Nodes /\ c \in Nodes /\ Holds(t, n) /\ Holds(t, p) /\ Holds(t, c)
        /\ n # p /\ c # p /\ n # c /\ n # rootHolder /\ c # rootHolder
        /\ s \in Sides /\ o \in Sides /\ s # o /\ b \in Sides
        /\ tree[n].parent = p /\ tree[c].parent = n /\ tree[n][o] = c /\ tree[c][s] = i
        /\ ~isUnlinked(tree[n].version) /\ ~isUnlinked(tree[c].version)
        /\ F[n].parent = p /\ F[c].parent = n /\ F[n][o] = c /\ F[c][s] = i /\ ~F[n].gone
        /\ \A side \in Sides : F[p][side] = n <=> side = b
        /\ i \in Maybe /\ i # rootHolder /\ (i # NoNode => tree[i].parent = c)
        /\ IsForest(F) /\ DOMAIN F = Nodes /\ Agree(F) /\ Reaches(F)
<1>1. TreeShape /\ \A u \in Threads : StoresAreLocked(u) BY DEF AVLInv, ThreadInv
<1>2. s \in Sides /\ o \in Sides /\ s # o /\ b \in Sides BY DEF FixRecords, Sides, Opposite, SideOf
<1>3. /\ n \in Nodes /\ p \in Nodes /\ c \in Nodes /\ Holds(t, n) /\ Holds(t, p) /\ Holds(t, c)
      /\ n # p /\ c # p /\ n # c /\ n # rootHolder /\ ~isUnlinked(tree[p].version) /\ tree[n].parent = p
      /\ ~isUnlinked(tree[n].version) /\ c # NoNode /\ tree[n][o] = c /\ tree[c][s] = i
 BY DEF HoldsInner, HoldsChild, HoldsPair, Holds
<1>4. IsForest(F) /\ DOMAIN F = Nodes /\ Agree(F) /\ Reaches(F)
 BY <1>1, ForestOfNodes DEF FinalLinks
<1>5. QuietAt(n) /\ QuietAt(p) /\ QuietAt(c) BY <1>1, <1>3, MineIsQuiet
<1>6. c # rootHolder /\ tree[c].parent = n /\ F[n][o] = c /\ ~F[n].gone /\ ~F[c].gone /\ F[c].parent = n
 BY <1>1, <1>2, <1>3, <1>5, ChildOfQuiet
<1>7. F[n].parent = p BY <1>1, <1>3, <1>4, <1>5, QuietParent
<1>8. ~isUnlinked(tree[c].version) /\ tree[c].left = F[c].left /\ tree[c].right = F[c].right
 BY <1>1, <1>3, <1>4, <1>5, <1>6, QuietLinks
<1>9. F[c][s] = i BY <1>2, <1>3, <1>8 DEF Sides
<1>10. i \in Maybe /\ i # rootHolder /\ (i # NoNode => tree[i].parent = c)
 <2>1. CASE i = NoNode BY <2>1, <1>1 DEF Maybe, TreeShape
 <2>2. CASE i # NoNode BY <2>2, <1>1, <1>2, <1>3, <1>5, <1>8, ChildOfQuiet DEF Maybe
 <2> QED BY <2>1, <2>2
<1>11. \A side \in Sides : F[p][side] = n <=> side = b
 <2>1. IsChild(F, p, n) /\ ~F[p].gone BY <1>3, <1>4, <1>6, <1>7 DEF Agree
 <2>2. tree[p].left = F[p].left /\ tree[p].right = F[p].right BY <1>1, <1>3, <1>4, <1>5, QuietLinks
 <2>3. F[p].left # NoNode => F[p].left # F[p].right BY <1>3, <1>4, <2>1 DEF Agree
 <2>4. n # NoNode BY <1>1, <1>3 DEF TreeShape
 <2> QED BY <2>1, <2>2, <2>3, <2>4 DEF IsChild, Sides, SideOf
<1> QED BY <1>2, <1>3, <1>4, <1>6, <1>7, <1>8, <1>9, <1>10, <1>11

LEMMA VersionWrites ==
 ASSUME TreeShape, NEW n \in Nodes, n # rootHolder, ~isUnlinked(tree[n].version)
 PROVE  /\ Write(n, "version", beginChange(tree[n].version)) \in Writes
        /\ Write(n, "version", endChange(tree[n].version)) \in Writes
        /\ ~isUnlinked(beginChange(tree[n].version)) /\ ~isUnlinked(endChange(tree[n].version))
<1>1. PICK v \in Nat : v = tree[n].version BY TreeFields
<1>2. /\ beginChange(v) \in Nat /\ ~isUnlinked(beginChange(v))
      /\ endChange(v) \in Nat /\ ~isUnlinked(endChange(v))
 BY <1>1, ChangesUnlinkNothing
<1> QED BY <1>1, <1>2, WritesTyped

(* A single rotation; h is the height of the subtree that moves. *)
LEMMA RotateStep ==
 ASSUME AVLInv, NEW t \in Threads, pc[t] = "rotate", NEW h \in Nat, Rotate(t, h), OnlyLocks(t),
        \A m : Holds(t, m) => Holds(t, m)', UNCHANGED <<path, here, cond, fix, history, bounds>>
 PROVE  AVLInv'
<1>1. TreeShape /\ Variables /\ ThreadInv(t) /\ FixInv(t) BY DEF AVLInv, ThreadInv
<1>2. HoldsInner(t) /\ fix[t] \in FixRecords /\ stores[t] = <<>> /\ pc[t] \in Repairing
 BY <1>1 DEF FixInv, ThreadInv, StoreInv, Repairing
<1>3. PICK n, p, c, i, s, o : n = fix[t].n /\ p = fix[t].p /\ c = fix[t].child /\ i = fix[t].inner
                              /\ s = fix[t].side /\ o = Opposite(s)
 OBVIOUS
<1>4. PICK b, F : b = SideOf(p, n) /\ FinalLinks(F) BY DEF AVLInv
<1>5. /\ n \in Nodes /\ p \in Nodes /\ c \in Nodes /\ Holds(t, n) /\ Holds(t, p) /\ Holds(t, c)
      /\ n # p /\ c # p /\ n # c /\ n # rootHolder /\ c # rootHolder
      /\ s \in Sides /\ o \in Sides /\ s # o /\ b \in Sides
      /\ tree[n].parent = p /\ tree[c].parent = n
      /\ ~isUnlinked(tree[n].version)
      /\ F[n].parent = p /\ F[c].parent = n /\ F[n][o] = c /\ F[c][s] = i /\ ~F[n].gone
      /\ \A side \in Sides : F[p][side] = n <=> side = b
      /\ i \in Maybe /\ i # rootHolder /\ (i # NoNode => tree[i].parent = c)
      /\ IsForest(F) /\ DOMAIN F = Nodes /\ Agree(F) /\ Reaches(F)
 BY <1>2, <1>3, <1>4, InnerFacts
<1>6. PICK hN, hC : hN = 1 + Larger(h, fix[t].hOther) /\ hC = 1 + Larger(fix[t].hOuter, hN) OBVIOUS
<1>7. hN \in Nat \ {0} /\ hC \in Nat \ {0}
 <2>1. fix[t].hOther \in Nat /\ fix[t].hOuter \in Nat BY <1>2 DEF FixRecords
 <2>2. hN \in Nat \ {0} BY <2>1, <1>6 DEF Larger
 <2> QED BY <2>1, <2>2, <1>6 DEF Larger
<1>8. PICK w1, w2, w3, w4, w5, w6, w7, w8, w9 :
         /\ w1 = Write(n, "version", beginChange(tree[n].version)) /\ w2 = Write(n, o, i)
         /\ w3 = Write(c, s, n) /\ w4 = Write(n, "parent", c) /\ w5 = Write(p, b, c)
         /\ w6 = Write(c, "parent", p) /\ w7 = Write(n, "height", hN) /\ w8 = Write(c, "height", hC)
         /\ w9 = Write(n, "version", endChange(tree[n].version))
 OBVIOUS
<1>9. PICK plan : plan = IF Unbalanced(h, fix[t].hOther) THEN Plan("damaged", n)
                         ELSE IF Unbalanced(fix[t].hOuter, hN) THEN Plan("damaged", c)
                         ELSE Plan("fixHeight", p)
 OBVIOUS
<1>10. PICK x, y, z : x = <<w1, w2>> /\ y = SetParent(i, n) /\ z = <<w3, w4, w5, w6, w7, w8, w9>>
 OBVIOUS
<1>11. PICK r : r = x \o y OBVIOUS
<1>36. PICK ws : ws = r \o z OBVIOUS
<1>12. Perform(t, ws, plan)
 <2>1. Perform(t, <<w1, w2>> \o SetParent(i, n) \o <<w3, w4, w5, w6, w7, w8, w9>>, plan)
  BY <1>3, <1>4, <1>6, <1>8, <1>9, Zenon DEF Rotate
 <2> QED BY <2>1, <1>10, <1>11, <1>36, Zenon
<1>13. PICK W : W = Writes OBVIOUS
<1>14. n \in Maybe /\ c \in Maybe BY <1>5 DEF Maybe
<1>15. w1 \in W /\ w9 \in W BY <1>1, <1>5, <1>8, <1>13, VersionWrites
<1>16. w2 \in W /\ w3 \in W /\ w5 \in W BY <1>5, <1>8, <1>13, <1>14, WritesTyped
<1>17. w4 \in W /\ w6 \in W /\ w7 \in W /\ w8 \in W BY <1>5, <1>7, <1>8, <1>13, WritesTyped
<1>18. x \in Seq(W) /\ Range(x) = {w1, w2} BY <1>10, <1>15, <1>16, RangeOfTwo
<1>19. PICK a : a = Write(i, "parent", n) OBVIOUS
<1>20. y \in Seq(W) /\ Range(y) = IF i = NoNode THEN {} ELSE {a}
 BY <1>1, <1>5, <1>10, <1>13, <1>19, ParentWrites
<1>21. z \in Seq(W) /\ Range(z) = {w3, w4, w5, w6, w7, w8, w9}
 <2>1. w3 \in W /\ w4 \in W /\ w5 \in W /\ w6 \in W /\ w7 \in W /\ w8 \in W /\ w9 \in W
  BY <1>15, <1>16, <1>17
 <2>2. z \in Seq(W) /\ DOMAIN z = 1 .. 7 BY <2>1, <1>10
 <2>3. z[1] = w3 /\ z[2] = w4 /\ z[3] = w5 /\ z[4] = w6 /\ z[5] = w7 /\ z[6] = w8 /\ z[7] = w9
  BY <1>10
 <2>4. 1 .. 7 = {1, 2, 3, 4, 5, 6, 7} OBVIOUS
 <2> QED BY <2>2, <2>3, <2>4 DEF Range
<1>22. r \in Seq(W) /\ Range(r) = Range(x) \cup Range(y)
 <2>1. x \in Seq(W) /\ y \in Seq(W) BY <1>18, <1>20
 <2>2. x \o y \in Seq(W) /\ Range(x \o y) = Range(x) \cup Range(y) BY <2>1, RangeOfConcat, Zenon
 <2> QED BY <2>2, <1>11, Zenon
<1>23. ws \in Seq(W) /\ Range(ws) = Range(r) \cup Range(z)
 <2>1. r \in Seq(W) /\ z \in Seq(W) BY <1>21, <1>22
 <2>2. r \o z \in Seq(W) /\ Range(r \o z) = Range(r) \cup Range(z) BY <2>1, RangeOfConcat, Zenon
 <2> QED BY <2>2, <1>36, Zenon
<1>24. PICK R : R = Range(ws) OBVIOUS
<1>25. R = {w1, w2, w3, w4, w5, w6, w7, w8, w9} \cup (IF i = NoNode THEN {} ELSE {a})
 BY <1>18, <1>20, <1>21, <1>22, <1>23, <1>24
<1>26. PICK G : G = AfterRotate(F, p, n, c, s) OBVIOUS
<1>27. IsForest(G) /\ Agree(G) BY <1>3, <1>5, <1>26, RotateAgrees
<1>28. /\ DOMAIN G = Nodes
       /\ \A m \in Nodes :
            /\ \A d \in Sides : G[m][d] = IF m = n /\ d = o THEN i
                                          ELSE IF m = c /\ d = s THEN n
                                          ELSE IF m = p /\ F[p][d] = n THEN c ELSE F[m][d]
            /\ G[m].parent = IF m = i THEN n ELSE IF m = n THEN c
                             ELSE IF m = c THEN p ELSE F[m].parent
            /\ G[m].gone = F[m].gone
 <2>1. /\ DOMAIN G = DOMAIN F
       /\ \A m \in DOMAIN F :
            /\ \A d \in Sides : G[m][d] = IF m = n /\ d = Opposite(s) THEN F[c][s]
                                          ELSE IF m = c /\ d = s THEN n
                                          ELSE IF m = p /\ F[p][d] = n THEN c ELSE F[m][d]
            /\ G[m].parent = IF m = F[c][s] THEN n
                             ELSE IF m = n THEN c
                             ELSE IF m = c THEN p ELSE F[m].parent
            /\ G[m].gone = F[m].gone
  BY <1>5, <1>26, RotateLinks
 <2>2. Opposite(s) = o /\ F[c][s] = i /\ DOMAIN F = Nodes BY <1>3, <1>5
 <2> QED BY <2>1, <2>2
<1>29. Nodes' = Nodes /\ \A m \in Nodes : tree'[m].parent = tree[m].parent BY DEF OnlyLocks, Nodes
<1>30. i \notin {n, c}
 <2>1. n # NoNode /\ c # NoNode /\ F[i] = F[i] BY <1>1, <1>5 DEF TreeShape
 <2>2. CASE i = NoNode BY <2>1, <2>2
 <2>3. CASE i # NoNode
  <3>1. tree[i].parent = c BY <1>5, <2>3
  <3> QED BY <3>1, <1>5
 <2> QED BY <2>2, <2>3
<1>32. Plans(t, F, G, R)
 <2>1. G \in [Nodes -> LinkRecords] BY <1>27, <1>28 DEF IsForest, LinkRecords, Maybe
 <2>2. /\ Foresees(G, w2) /\ Foresees(G, w3) /\ Foresees(G, w5)
       /\ Entitled(t, w2)' /\ Entitled(t, w3)' /\ Entitled(t, w5)'
  <3>1. /\ w2.node = n /\ w2.field = o /\ w2.value = i
        /\ w3.node = c /\ w3.field = s /\ w3.value = n
        /\ w5.node = p /\ w5.field = b /\ w5.value = c
   BY <1>8 DEF Write
  <3>2. Foresees(G, w2) /\ Entitled(t, w2)' BY <3>1, <1>5, <1>28 DEF Foresees, Sides, Entitled
  <3>3. Foresees(G, w3) /\ Entitled(t, w3)' BY <3>1, <1>5, <1>28 DEF Foresees, Sides, Entitled
  <3>4. Foresees(G, w5) /\ Entitled(t, w5)' BY <3>1, <1>5, <1>28 DEF Foresees, Sides, Entitled
  <3> QED BY <3>2, <3>3, <3>4
 <2>3. /\ Foresees(G, w4) /\ Foresees(G, w6) /\ Entitled(t, w4)' /\ Entitled(t, w6)'
  <3>1. /\ w4.node = n /\ w4.field = "parent" /\ w4.value = c
        /\ w6.node = c /\ w6.field = "parent" /\ w6.value = p
   BY <1>8 DEF Write
  <3>2. Foresees(G, w4) /\ Foresees(G, w6) BY <3>1, <1>5, <1>28, <1>30 DEF Foresees
  <3>3. Holds(t, n)' /\ Holds(t, c)' /\ Holds(t, p)' /\ tree'[n].parent = p /\ tree'[c].parent = n
   BY <1>5, <1>29
  <3> QED BY <3>1, <3>2, <3>3 DEF Entitled, Holds
 <2>4. /\ Foresees(G, w1) /\ Foresees(G, w9) /\ Entitled(t, w1)' /\ Entitled(t, w9)'
  <3>1. /\ w1.node = n /\ w1.field = "version" /\ ~isUnlinked(w1.value)
        /\ w9.node = n /\ w9.field = "version" /\ ~isUnlinked(w9.value)
   BY <1>1, <1>5, <1>8, VersionWrites DEF Write
  <3> QED BY <3>1, <1>5, <1>28 DEF Foresees, Links, Entitled
 <2>5. /\ Foresees(G, w7) /\ Foresees(G, w8) /\ Entitled(t, w7)' /\ Entitled(t, w8)'
  <3>1. w7.node = n /\ w7.field = "height" /\ w8.node = c /\ w8.field = "height" BY <1>8 DEF Write
  <3> QED BY <3>1, <1>5 DEF Foresees, Links, Entitled
 <2>6. i # NoNode => Foresees(G, a) /\ Entitled(t, a)'
  <3>1. SUFFICES ASSUME i # NoNode PROVE Foresees(G, a) /\ Entitled(t, a)' OBVIOUS
  <3>2. i \in Nodes /\ tree'[i].parent = c /\ a.node = i /\ a.field = "parent" /\ a.value = n
   BY <3>1, <1>5, <1>19, <1>29 DEF Maybe, Write
  <3>3. Foresees(G, a) BY <3>2, <1>28 DEF Foresees
  <3>4. Holds(t, n)' /\ Holds(t, c)' BY <1>5
  <3> QED BY <3>2, <3>3, <3>4 DEF Entitled, Holds
 <2>7. \A w \in R : Foresees(G, w) /\ Entitled(t, w)' BY <2>2, <2>3, <2>4, <2>5, <2>6, <1>25
 <2>8. ASSUME NEW m \in Nodes, NEW d \in Sides PROVE G[m][d] = F[m][d] \/ Covers(R, m, d)
  <3>1. w2.node = n /\ w2.field = o /\ w3.node = c /\ w3.field = s /\ w5.node = p /\ w5.field = b
   BY <1>8 DEF Write
  <3>2. w2 \in R /\ w3 \in R /\ w5 \in R BY <1>25
  <3>3. CASE m = n /\ d = o BY <3>1, <3>2, <3>3 DEF Covers
  <3>4. CASE m = c /\ d = s BY <3>1, <3>2, <3>4 DEF Covers
  <3>5. CASE m = p /\ d = b BY <3>1, <3>2, <3>5 DEF Covers
  <3>6. CASE ~(m = n /\ d = o) /\ ~(m = c /\ d = s) /\ ~(m = p /\ d = b) BY <3>6, <1>5, <1>28
  <3> QED BY <3>3, <3>4, <3>5, <3>6
 <2>9. ASSUME NEW m \in Nodes PROVE G[m].parent = F[m].parent \/ Covers(R, m, "parent")
  <3>1. w4.node = n /\ w4.field = "parent" /\ w6.node = c /\ w6.field = "parent" /\ a.node = i /\ a.field = "parent"
   BY <1>8, <1>19 DEF Write
  <3>2. w4 \in R /\ w6 \in R BY <1>25
  <3>3. CASE m = i
   <4>1. a \in R BY <3>3, <1>1, <1>25 DEF TreeShape
   <4> QED BY <3>1, <3>3, <4>1 DEF Covers
  <3>4. CASE m \in {n, c} BY <3>1, <3>2, <3>4 DEF Covers
  <3>5. CASE m \notin {i, n, c} BY <3>5, <1>28
  <3> QED BY <3>3, <3>4, <3>5
 <2>10. ASSUME NEW m \in Nodes, NEW field \in Links PROVE G[m][field] = F[m][field] \/ Covers(R, m, field)
  <3>1. CASE field \in Sides BY <2>8, <3>1
  <3>2. CASE field = "parent" BY <2>9, <3>2
  <3> QED BY <3>1, <3>2 DEF Links, Sides
 <2> QED BY <2>1, <2>7, <2>10, <1>28 DEF Plans
<1>33. plan.then \in {"damaged", "fixHeight"} /\ plan.node \in Nodes BY <1>5, <1>9 DEF Plan
<1>34. FixInv(t)' /\ StoreInv(t)' BY <1>12, <1>33, PlainPlan
<1>35. plan.then # "unlinked" /\ ws \in Seq(Writes) BY <1>13, <1>23, <1>33
<1> QED BY <1>2, <1>5, <1>12, <1>24, <1>27, <1>32, <1>34, <1>35, PlannedStep

(* Both versions begin to change. *)
LEMMA ChangesBegin ==
 ASSUME TreeShape, NEW f, f.n \in Nodes \ {rootHolder}, f.child \in Nodes \ {rootHolder},
        ~isUnlinked(tree[f.n].version), ~isUnlinked(tree[f.child].version)
 PROVE  /\ BeginChanges(f) \in Seq(Writes)
        /\ \A w \in Range(BeginChanges(f)) :
             w.node \in {f.n, f.child} /\ w.field = "version" /\ ~isUnlinked(w.value)
<1>1. PICK v, w : /\ v = Write(f.n, "version", beginChange(tree[f.n].version))
                  /\ w = Write(f.child, "version", beginChange(tree[f.child].version))
 OBVIOUS
<1>2. PICK W : W = Writes OBVIOUS
<1>3. v \in W /\ w \in W /\ ~isUnlinked(beginChange(tree[f.n].version)) /\ ~isUnlinked(beginChange(tree[f.child].version))
 BY <1>1, <1>2, VersionWrites
<1>4. <<v, w>> \in Seq(W) /\ Range(<<v, w>>) = {v, w} BY <1>3, RangeOfTwo
<1>5. BeginChanges(f) = <<v, w>> BY <1>1 DEF BeginChanges
<1>6. /\ v.node = f.n /\ v.field = "version" /\ ~isUnlinked(v.value)
      /\ w.node = f.child /\ w.field = "version" /\ ~isUnlinked(w.value)
 BY <1>1, <1>3 DEF Write
<1> QED BY <1>2, <1>4, <1>5, <1>6

(* A double rotation. *)
LEMMA RotateOverStep ==
 ASSUME AVLInv, NEW t \in Threads, pc[t] = "far", NEW hNear \in Nat, NEW hFar \in Nat,
        RotateOver(t, hNear, hFar), UNCHANGED <<tree, path, here, cond, fix, history, bounds>>
 PROVE  AVLInv'
<1>1. TreeShape /\ Variables /\ ThreadInv(t) /\ FixInv(t) /\ \A u \in Threads : StoresAreLocked(u)
 BY DEF AVLInv, ThreadInv
<1>2. /\ HoldsInner(t) /\ fix[t] \in FixRecords /\ stores[t] = <<>> /\ pc[t] \in Repairing
      /\ fix[t].inner \notin {fix[t].n, fix[t].p, fix[t].child} /\ Holds(t, fix[t].inner)
 BY <1>1 DEF FixInv, ThreadInv, StoreInv, Repairing
<1>3. PICK n, p, c, g, s, o : n = fix[t].n /\ p = fix[t].p /\ c = fix[t].child /\ g = fix[t].inner
                              /\ s = fix[t].side /\ o = Opposite(s)
 OBVIOUS
<1>4. PICK b, F : b = SideOf(p, n) /\ FinalLinks(F) BY DEF AVLInv
<1>5. /\ n \in Nodes /\ p \in Nodes /\ c \in Nodes /\ Holds(t, n) /\ Holds(t, p) /\ Holds(t, c)
      /\ n # p /\ c # p /\ n # c /\ n # rootHolder /\ c # rootHolder
      /\ s \in Sides /\ o \in Sides /\ s # o /\ b \in Sides
      /\ tree[n].parent = p /\ tree[c].parent = n /\ tree[c][s] = g
      /\ ~isUnlinked(tree[n].version) /\ ~isUnlinked(tree[c].version)
      /\ F[n].parent = p /\ F[c].parent = n /\ F[n][o] = c /\ F[c][s] = g /\ ~F[n].gone
      /\ \A side \in Sides : F[p][side] = n <=> side = b
      /\ g # rootHolder /\ (g # NoNode => tree[g].parent = c)
      /\ IsForest(F) /\ DOMAIN F = Nodes /\ Agree(F) /\ Reaches(F)
 BY <1>2, <1>3, <1>4, InnerFacts
<1>6. g \in Nodes /\ g \notin {n, p, c} /\ Holds(t, g) /\ g # NoNode /\ tree[g].parent = c
 BY <1>1, <1>2, <1>3, <1>5 DEF Holds, TreeShape
<1>7. PICK k, l : k = tree[g][s] /\ l = tree[g][o] OBVIOUS
<1>8. QuietAt(g) /\ QuietAt(c) BY <1>1, <1>2, <1>5, <1>6, MineIsQuiet
<1>9. ~F[g].gone BY <1>1, <1>4, <1>5, <1>6, <1>8, ChildOfQuiet
<1>10. F[g][s] = k /\ F[g][o] = l /\ ~isUnlinked(tree[g].version)
 <2>1. /\ tree[g].left = F[g].left /\ tree[g].right = F[g].right
       /\ isUnlinked(tree[g].version) <=> F[g].gone
  BY <1>1, <1>5, <1>6, <1>8, QuietLinks
 <2> QED BY <2>1, <1>5, <1>7, <1>9 DEF Sides
<1>11. k \in Maybe /\ (k # NoNode => k \in Nodes \ {rootHolder} /\ tree[k].parent = g)
 <2>1. k \in Maybe BY <1>1, <1>5, <1>6, <1>7, TreeFields
 <2> QED BY <2>1, <1>1, <1>4, <1>5, <1>6, <1>7, <1>8, <1>10, ChildOfQuiet
<1>12. l \in Maybe /\ (l # NoNode => l \in Nodes \ {rootHolder} /\ tree[l].parent = g)
 <2>1. l \in Maybe BY <1>1, <1>5, <1>6, <1>7, TreeFields
 <2> QED BY <2>1, <1>1, <1>4, <1>5, <1>6, <1>7, <1>8, <1>10, ChildOfQuiet
<1>13. /\ k \notin {n, c, g, rootHolder} /\ l \notin {n, c, g, rootHolder} /\ (l # NoNode => l # k)
 <2>1. NoNode \notin {n, c, g, rootHolder} BY <1>1, <1>5, <1>6 DEF TreeShape
 <2>2. k \notin {n, c, g, rootHolder} /\ l \notin {n, c, g, rootHolder}
  BY <2>1, <1>5, <1>6, <1>11, <1>12
 <2>3. F[g].left # NoNode => F[g].left # F[g].right BY <1>5, <1>6, <1>9 DEF Agree
 <2> QED BY <2>2, <2>3, <1>5, <1>10 DEF Sides
<1>14. PICK hN, hC, hG : /\ hN = 1 + Larger(hFar, fix[t].hOther) /\ hC = 1 + Larger(fix[t].hOuter, hNear)
                         /\ hG = 1 + Larger(hC, hN)
 OBVIOUS
<1>15. hN \in Nat \ {0} /\ hC \in Nat \ {0} /\ hG \in Nat \ {0}
 <2>1. fix[t].hOther \in Nat /\ fix[t].hOuter \in Nat BY <1>2 DEF FixRecords
 <2>2. hN \in Nat \ {0} /\ hC \in Nat \ {0} BY <2>1, <1>14 DEF Larger
 <2> QED BY <2>2, <1>14 DEF Larger
<1>16. PICK w1, w2, x1, x2, x3, x4, x5, x6, x7, x8, x9, x10, x11 :
         /\ w1 = Write(n, o, k) /\ w2 = Write(c, s, l)
         /\ x1 = Write(g, o, c) /\ x2 = Write(c, "parent", g) /\ x3 = Write(g, s, n)
         /\ x4 = Write(n, "parent", g) /\ x5 = Write(p, b, g) /\ x6 = Write(g, "parent", p)
         /\ x7 = Write(n, "height", hN) /\ x8 = Write(c, "height", hC) /\ x9 = Write(g, "height", hG)
         /\ x10 = Write(n, "version", endChange(tree[n].version))
         /\ x11 = Write(c, "version", endChange(tree[c].version))
 OBVIOUS
<1>17. PICK plan : plan = IF Unbalanced(hFar, fix[t].hOther) THEN Plan("damaged", n)
                          ELSE IF Unbalanced(hC, hN) THEN Plan("damaged", g)
                          ELSE Plan("fixHeight", p)
 OBVIOUS
<1>18. PICK A : A = IF s = "right" THEN BeginChanges(fix[t]) ELSE <<>> OBVIOUS
<1>19. PICK X : X = <<x1, x2, x3, x4, x5, x6, x7, x8, x9, x10, x11>> OBVIOUS
<1>20. PICK B : B = SetParent(k, n) OBVIOUS
<1>21. PICK C : C = SetParent(l, c) OBVIOUS
<1>22. PICK ws : ws = A \o <<w1>> \o B \o <<w2>> \o C \o X OBVIOUS
<1>23. Perform(t, ws, plan)
 <2>1. Perform(t, (IF s = "right" THEN BeginChanges(fix[t]) ELSE <<>>) \o <<w1>> \o SetParent(k, n)
                  \o <<w2>> \o SetParent(l, c) \o <<x1, x2, x3, x4, x5, x6, x7, x8, x9, x10, x11>>, plan)
  BY <1>3, <1>4, <1>7, <1>14, <1>16, <1>17, Zenon DEF RotateOver, Child
 <2> QED BY <2>1, <1>18, <1>19, <1>20, <1>21, <1>22, Zenon

<1>24. PICK W : W = Writes OBVIOUS
<1>25. n \in Maybe /\ c \in Maybe /\ g \in Maybe BY <1>5, <1>6 DEF Maybe
<1>26. w1 \in W /\ w2 \in W /\ x1 \in W /\ x3 \in W /\ x5 \in W
 BY <1>5, <1>6, <1>11, <1>12, <1>16, <1>24, <1>25, WritesTyped
<1>27. x2 \in W /\ x4 \in W /\ x6 \in W BY <1>5, <1>6, <1>16, <1>24, WritesTyped
<1>28. x7 \in W /\ x8 \in W /\ x9 \in W BY <1>5, <1>6, <1>15, <1>16, <1>24, WritesTyped
<1>29. x10 \in W /\ x11 \in W /\ ~isUnlinked(x10.value) /\ ~isUnlinked(x11.value)
 <2>1. x10.value = endChange(tree[n].version) /\ x11.value = endChange(tree[c].version)
  BY <1>16 DEF Write
 <2> QED BY <2>1, <1>1, <1>5, <1>16, <1>24, VersionWrites
<1>30. PICK a, e : a = Write(k, "parent", n) /\ e = Write(l, "parent", c) OBVIOUS
<1>31. B \in Seq(W) /\ Range(B) = IF k = NoNode THEN {} ELSE {a}
 BY <1>1, <1>5, <1>11, <1>13, <1>20, <1>24, <1>30, ParentWrites
<1>32. C \in Seq(W) /\ Range(C) = IF l = NoNode THEN {} ELSE {e}
 BY <1>1, <1>5, <1>12, <1>13, <1>21, <1>24, <1>30, ParentWrites
<1>33. /\ A \in Seq(W)
       /\ \A w \in Range(A) : w.node \in {n, c} /\ w.field = "version" /\ ~isUnlinked(w.value)
 <2>1. CASE s = "right" BY <2>1, <1>1, <1>3, <1>5, <1>18, <1>24, ChangesBegin
 <2>2. CASE s # "right"
  <3>1. A = <<>> /\ <<>> \in Seq(W) BY <2>2, <1>18
  <3> QED BY <3>1, RangeOfEmpty
 <2> QED BY <2>1, <2>2
<1>34. X \in Seq(W) /\ Range(X) = {x1, x2, x3, x4, x5, x6, x7, x8, x9, x10, x11}
 <2>1. X \in Seq(W) /\ DOMAIN X = 1 .. 11 BY <1>19, <1>26, <1>27, <1>28, <1>29
 <2>2. /\ X[1] = x1 /\ X[2] = x2 /\ X[3] = x3 /\ X[4] = x4 /\ X[5] = x5 /\ X[6] = x6
       /\ X[7] = x7 /\ X[8] = x8 /\ X[9] = x9 /\ X[10] = x10 /\ X[11] = x11
  BY <1>19
 <2>3. 1 .. 11 = {1, 2, 3, 4, 5, 6, 7, 8, 9, 10, 11} OBVIOUS
 <2>4. Range(X) = {X[i] : i \in {1, 2, 3, 4, 5, 6, 7, 8, 9, 10, 11}} BY <2>1, <2>3 DEF Range
 <2>5. Range(X) = {x1, x2, x3, x4, x5, x6, x7, x8, x9, x10, x11} BY <2>2, <2>4
 <2> QED BY <2>1, <2>5
<1>35. PICK R : R = Range(ws) OBVIOUS
<1>36. ws \in Seq(W) /\ R = Range(A) \cup {w1} \cup Range(B) \cup {w2} \cup Range(C) \cup Range(X)
 <2>1. <<w1>> \in Seq(W) /\ Range(<<w1>>) = {w1} /\ <<w2>> \in Seq(W) /\ Range(<<w2>>) = {w2}
  BY <1>26, RangeOfOne
 <2>2. PICK v1, v2 : v1 = <<w1>> /\ v2 = <<w2>> OBVIOUS
 <2>3. v1 \in Seq(W) /\ Range(v1) = {w1} /\ v2 \in Seq(W) /\ Range(v2) = {w2} BY <2>1, <2>2, Zenon
 <2>4. PICK y1 : y1 = A \o v1 OBVIOUS
 <2>5. y1 \in Seq(W) /\ Range(y1) = Range(A) \cup Range(v1) BY <1>33, <2>3, <2>4, RangeOfConcat
 <2>6. PICK y2 : y2 = y1 \o B OBVIOUS
 <2>7. y2 \in Seq(W) /\ Range(y2) = Range(y1) \cup Range(B)
  <3>1. B \in Seq(W) BY <1>31
  <3> QED BY <3>1, <2>5, <2>6, RangeOfConcat
 <2>8. PICK y3 : y3 = y2 \o v2 OBVIOUS
 <2>9. y3 \in Seq(W) /\ Range(y3) = Range(y2) \cup Range(v2) BY <2>3, <2>7, <2>8, RangeOfConcat
 <2>10. PICK y4 : y4 = y3 \o C OBVIOUS
 <2>11. y4 \in Seq(W) /\ Range(y4) = Range(y3) \cup Range(C)
  <3>1. C \in Seq(W) BY <1>32
  <3> QED BY <3>1, <2>9, <2>10, RangeOfConcat
 <2>12. PICK y5 : y5 = y4 \o X OBVIOUS
 <2>13. y5 \in Seq(W) /\ Range(y5) = Range(y4) \cup Range(X)
  <3>1. X \in Seq(W) BY <1>34
  <3> QED BY <3>1, <2>11, <2>12, RangeOfConcat
 <2>14. ws = y5 BY <1>22, <2>2, <2>4, <2>6, <2>8, <2>10, <2>12, Zenon
 <2> QED BY <1>35, <2>3, <2>5, <2>7, <2>9, <2>11, <2>13, <2>14
<1>37. PICK Z : Z = {w1, w2, x1, x2, x3, x4, x5, x6, x7, x8, x9, x10, x11} OBVIOUS
<1>38. /\ Z \subseteq R
       /\ \A w \in R : w \in Range(A) \cup Z \/ (k # NoNode /\ w = a) \/ (l # NoNode /\ w = e)
       /\ (k # NoNode => a \in R) /\ (l # NoNode => e \in R)
 BY <1>31, <1>32, <1>34, <1>36, <1>37
<1>39. PICK G : G = AfterRotateOver(F, p, n, c, g, s) OBVIOUS
<1>40. /\ IsForest(G) /\ Agree(G) /\ DOMAIN G = Nodes
       /\ \A m \in Nodes :
            /\ \A d \in Sides : G[m][d] = IF m = n /\ d = o THEN k
                                          ELSE IF m = c /\ d = s THEN l
                                          ELSE IF m = g THEN (IF d = s THEN n ELSE c)
                                          ELSE IF m = p /\ F[p][d] = n THEN g ELSE F[m][d]
            /\ G[m].parent = IF m = k THEN n
                             ELSE IF m = l THEN c
                             ELSE IF m \in {n, c} THEN g
                             ELSE IF m = g THEN p ELSE F[m].parent
            /\ G[m].gone = F[m].gone
 <2>1. /\ IsForest(F) /\ Agree(F) /\ p \in DOMAIN F /\ n \in DOMAIN F /\ c \in DOMAIN F /\ g \in DOMAIN F
       /\ s \in Sides /\ o = Opposite(s) /\ n # rootHolder /\ ~F[n].gone /\ F[n].parent = p /\ F[c][s] = g
       /\ p # n /\ p # c /\ n # c /\ g # p /\ g # n /\ g # c /\ F[n][o] = c
  <3>1. F[n][o] = c BY <1>2, <1>3, <1>4, InnerFacts
  <3> QED BY <3>1, <1>3, <1>5, <1>6
 <2>2. /\ IsForest(G) /\ Agree(G) /\ DOMAIN G = DOMAIN F
       /\ \A m \in DOMAIN F :
            /\ \A d \in Sides : G[m][d] = IF m = n /\ d = o THEN F[g][s]
                                          ELSE IF m = c /\ d = s THEN F[g][o]
                                          ELSE IF m = g THEN (IF d = s THEN n ELSE c)
                                          ELSE IF m = p /\ F[p][d] = n THEN g ELSE F[m][d]
            /\ G[m].parent = IF m = F[g][s] THEN n
                             ELSE IF m = F[g][o] THEN c
                             ELSE IF m \in {n, c} THEN g
                             ELSE IF m = g THEN p ELSE F[m].parent
            /\ G[m].gone = F[m].gone
  BY <2>1, <1>39, RotateOverAgrees
 <2>3. F[g][s] = k /\ F[g][o] = l /\ DOMAIN F = Nodes BY <1>5, <1>10
 <2> QED BY <2>2, <2>3
<1>41. OnlyLocks(t) /\ \A m : Holds(t, m) => Holds(t, m)' BY <1>1, UnchangedTree DEF Holds, Nodes
<1>42. Holds(t, n)' /\ Holds(t, p)' /\ Holds(t, c)' /\ Holds(t, g)' BY <1>5, <1>6, <1>41
<1>43. ~F[c].gone BY <1>1, <1>5, <1>8, QuietLinks
<1>44. /\ w1.node = n /\ w1.field = o /\ w1.value = k
       /\ w2.node = c /\ w2.field = s /\ w2.value = l
       /\ x1.node = g /\ x1.field = o /\ x1.value = c
       /\ x3.node = g /\ x3.field = s /\ x3.value = n
       /\ x5.node = p /\ x5.field = b /\ x5.value = g
 BY <1>16 DEF Write
<1>45. /\ x2.node = c /\ x2.field = "parent" /\ x2.value = g
       /\ x4.node = n /\ x4.field = "parent" /\ x4.value = g
       /\ x6.node = g /\ x6.field = "parent" /\ x6.value = p
       /\ a.node = k /\ a.field = "parent" /\ a.value = n
       /\ e.node = l /\ e.field = "parent" /\ e.value = c
 BY <1>16, <1>30 DEF Write
<1>46. /\ x7.node = n /\ x7.field = "height" /\ x8.node = c /\ x8.field = "height"
       /\ x9.node = g /\ x9.field = "height"
       /\ x10.node = n /\ x10.field = "version" /\ x11.node = c /\ x11.field = "version"
 BY <1>16 DEF Write
<1>47. Plans(t, F, G, R)
 <2>1. G \in [Nodes -> LinkRecords] BY <1>40 DEF IsForest, LinkRecords, Maybe
 <2>2. \A w \in {w1, w2, x1, x3, x5} : Foresees(G, w) /\ Entitled(t, w)'
  <3>1. /\ G[n][o] = k /\ G[c][s] = l /\ G[g][o] = c /\ G[g][s] = n /\ G[p][b] = g
   BY <1>5, <1>6, <1>40
  <3>2. Foresees(G, w1) /\ Foresees(G, w2) /\ Foresees(G, x1) /\ Foresees(G, x3) /\ Foresees(G, x5)
   BY <3>1, <1>5, <1>44 DEF Foresees, Sides
  <3>3. Entitled(t, w1)' /\ Entitled(t, w2)' /\ Entitled(t, x1)' /\ Entitled(t, x3)' /\ Entitled(t, x5)'
   BY <1>5, <1>42, <1>44 DEF Entitled, Holds, Sides
  <3> QED BY <3>2, <3>3
 <2>3. \A w \in {x2, x4, x6} : Foresees(G, w) /\ Entitled(t, w)'
  <3>1. G[c].parent = g /\ G[n].parent = g /\ G[g].parent = p BY <1>5, <1>6, <1>13, <1>40
  <3>2. tree'[c].parent = n /\ tree'[n].parent = p /\ tree'[g].parent = c BY <1>5, <1>6
  <3>3. Foresees(G, x2) /\ Foresees(G, x4) /\ Foresees(G, x6) BY <3>1, <1>45 DEF Foresees
  <3>4. Entitled(t, x2)' /\ Entitled(t, x4)' /\ Entitled(t, x6)'
   BY <3>2, <1>42, <1>45 DEF Entitled, Holds
  <3> QED BY <3>3, <3>4
 <2>4. \A w \in {x7, x8, x9, x10, x11} : Foresees(G, w) /\ Entitled(t, w)'
  <3>1. \A w \in {x7, x8, x9} : w.field = "height" /\ w.node \in {n, c, g} BY <1>46
  <3>2. \A w \in {x10, x11} : w.field = "version" /\ w.node \in {n, c} /\ ~isUnlinked(w.value)
   BY <1>29, <1>46
  <3>3. ~G[n].gone /\ ~G[c].gone BY <1>5, <1>40, <1>43
  <3>4. \A w \in {x7, x8, x9} : Foresees(G, w) BY <3>1 DEF Foresees, Links
  <3>5. \A w \in {x10, x11} : Foresees(G, w) BY <3>2, <3>3 DEF Foresees, Links
  <3>6. \A w \in {x7, x8, x9, x10, x11} : w.field # "parent" /\ w.node \in {n, c, g} BY <3>1, <3>2
  <3>7. \A w \in {x7, x8, x9, x10, x11} : Entitled(t, w)' BY <3>6, <1>42 DEF Entitled, Holds
  <3> QED BY <3>4, <3>5, <3>7
 <2>5. \A w \in Range(A) : Foresees(G, w) /\ Entitled(t, w)'
  <3>1. ~G[n].gone /\ ~G[c].gone BY <1>5, <1>40, <1>43
  <3> QED BY <3>1, <1>33, <1>42 DEF Foresees, Links, Entitled, Holds
 <2>6. k # NoNode => Foresees(G, a) /\ Entitled(t, a)'
  <3>1. SUFFICES ASSUME k # NoNode PROVE Foresees(G, a) /\ Entitled(t, a)' OBVIOUS
  <3>2. k \in Nodes /\ tree'[k].parent = g BY <3>1, <1>11
  <3>3. Foresees(G, a) BY <3>2, <1>40, <1>45 DEF Foresees
  <3> QED BY <3>2, <3>3, <1>42, <1>45 DEF Entitled, Holds
 <2>7. l # NoNode => Foresees(G, e) /\ Entitled(t, e)'
  <3>1. SUFFICES ASSUME l # NoNode PROVE Foresees(G, e) /\ Entitled(t, e)' OBVIOUS
  <3>2. l \in Nodes /\ tree'[l].parent = g /\ l # k BY <3>1, <1>12, <1>13
  <3>3. Foresees(G, e) BY <3>2, <1>40, <1>45 DEF Foresees
  <3> QED BY <3>2, <3>3, <1>42, <1>45 DEF Entitled, Holds
 <2>8. \A w \in R : Foresees(G, w) /\ Entitled(t, w)'
  <3>1. \A w \in Z : Foresees(G, w) /\ Entitled(t, w)' BY <2>2, <2>3, <2>4, <1>37
  <3> QED BY <3>1, <2>5, <2>6, <2>7, <1>38
 <2>9. ASSUME NEW m \in Nodes, NEW d \in Sides PROVE G[m][d] = F[m][d] \/ Covers(R, m, d)
  <3>1. w1 \in R /\ w2 \in R /\ x1 \in R /\ x3 \in R /\ x5 \in R BY <1>37, <1>38
  <3>2. CASE m = n /\ d = o BY <3>1, <3>2, <1>44 DEF Covers
  <3>3. CASE m = c /\ d = s BY <3>1, <3>3, <1>44 DEF Covers
  <3>4. CASE m = g
   <4>1. d = o \/ d = s BY <1>5 DEF Sides
   <4> QED BY <3>1, <3>4, <4>1, <1>44 DEF Covers
  <3>5. CASE m = p /\ d = b BY <3>1, <3>5, <1>44 DEF Covers
  <3>6. CASE ~(m = n /\ d = o) /\ ~(m = c /\ d = s) /\ ~(m = p /\ d = b) /\ m # g
   BY <3>6, <1>5, <1>40
  <3> QED BY <3>2, <3>3, <3>4, <3>5, <3>6
 <2>10. ASSUME NEW m \in Nodes PROVE G[m].parent = F[m].parent \/ Covers(R, m, "parent")
  <3>1. x2 \in R /\ x4 \in R /\ x6 \in R /\ m # NoNode BY <1>1, <1>37, <1>38 DEF TreeShape
  <3>2. CASE m = k BY <3>1, <3>2, <1>38, <1>45 DEF Covers
  <3>3. CASE m = l BY <3>1, <3>3, <1>38, <1>45 DEF Covers
  <3>4. CASE m \in {n, c, g} BY <3>1, <3>4, <1>45 DEF Covers
  <3>5. CASE m \notin {k, l, n, c, g} BY <3>5, <1>40
  <3> QED BY <3>2, <3>3, <3>4, <3>5
 <2>11. ASSUME NEW m \in Nodes, NEW field \in Links PROVE G[m][field] = F[m][field] \/ Covers(R, m, field)
  <3>1. CASE field \in Sides BY <2>9, <3>1
  <3>2. CASE field = "parent" BY <2>10, <3>2
  <3> QED BY <3>1, <3>2 DEF Links, Sides
 <2>12. \A m \in Nodes : G[m].gone = F[m].gone BY <1>40
 <2> QED BY <2>1, <2>8, <2>11, <2>12 DEF Plans
<1>48. plan.then \in {"damaged", "fixHeight"} /\ plan.node \in Nodes BY <1>5, <1>6, <1>17 DEF Plan
<1>49. FixInv(t)' /\ StoreInv(t)' BY <1>23, <1>41, <1>48, PlainPlan
<1>50. plan.then # "unlinked" /\ ws \in Seq(Writes) BY <1>24, <1>36, <1>48
<1>51. Agree(G) /\ Plans(t, F, G, Range(ws)) /\ Reaches(F) /\ pc[t] \in Repairing /\ OnlyLocks(t)
 BY <1>2, <1>5, <1>35, <1>40, <1>41, <1>47
<1> QED BY <1>23, <1>49, <1>50, <1>51, PlannedStep

LEMMA LockInnerStep ==
 ASSUME AVLInv, NEW t \in Threads, LockInner(t)
 PROVE  AVLInv'
<1>1. TreeShape /\ Variables /\ ThreadInv(t) /\ CondInv(t) /\ FixInv(t) BY DEF AVLInv, ThreadInv
<1>2. PICK i, h : i = fix[t].inner /\ h = tree[i].height OBVIOUS
<1>3. /\ pc[t] = "rotate" /\ i # NoNode /\ Free(i) /\ tree' = Lock(tree, i, t)
      /\ UNCHANGED <<path, here, cond, fix, history, bounds>>
 BY <1>2 DEF LockInner
<1>4. HoldsInner(t) /\ fix[t] \in FixRecords BY <1>1, <1>3 DEF FixInv
<1>5. i \in Nodes /\ fix[t].side \in Sides BY <1>2, <1>3, <1>4 DEF FixRecords, Maybe
<1>6. OnlyLocks(t) /\ Holds(t, i)' /\ \A m : Holds(t, m) => Holds(t, m)'
 BY <1>1, <1>3, <1>5, TakesLock
<1>7. h \in Nat BY <1>1, <1>2, <1>5, TreeFields
<1>8. CASE Rotate(t, h) BY <1>3, <1>6, <1>7, <1>8, RotateStep
<1>9. CASE GoTo(t, "near") /\ UNCHANGED <<stores, after>>
 <2>1. i \notin {fix[t].n, fix[t].p, fix[t].child}
  BY <1>3, <1>4 DEF Free, HoldsInner, HoldsChild, HoldsPair, Holds
 <2>2. /\ pc' = [pc EXCEPT ![t] = "near"] /\ pc'[t] = "near" /\ cond'[t] = cond[t] /\ fix'[t] = fix[t]
       /\ "near" \in Repairing /\ pc[t] \notin {"idle", "store"}
  BY <1>1, <1>3, <1>9 DEF Variables, GoTo, Repairing
 <2>3. Nodes' = Nodes /\ FixRecords' = FixRecords BY <1>6 DEF OnlyLocks, Nodes, FixRecords, Maybe
 <2>4. CondInv(t)' BY <1>1, <2>2, <2>3, CondAside DEF Goals
 <2>5. HoldsInner(t)' BY <1>4, <1>5, <1>6, <2>2, StillHolds
 <2>6. FixInv(t)'
  <3>1. ~Doing(t, "fixDecide")' /\ ~Doing(t, "rebalance")' BY <2>2 DEF Doing
  <3>2. fix'[t] \in FixRecords' BY <1>4, <2>2, <2>3
  <3>3. fix'[t].inner = i /\ t \in tree'[i].lock /\ i \in Nodes' BY <1>2, <1>6, <2>2 DEF Holds
  <3>4. fix'[t].inner \notin {fix'[t].n, fix'[t].p, fix'[t].child} /\ Holds(t, fix[t].inner)'
   BY <2>1, <2>2, <3>3 DEF Holds
  <3> QED BY <2>2, <2>5, <3>1, <3>2, <3>4 DEF FixInv, Heights
 <2> QED BY <1>3, <1>6, <1>9, <2>2, <2>4, <2>6, Undamaged, RepairStep
<1> QED BY <1>2, <1>8, <1>9 DEF LockInner

(* The child of the inner grandchild decides. *)
LEMMA RotateBelowStep ==
 ASSUME AVLInv, NEW t \in Threads, pc[t] = "near", tree' = Unlock(tree, {fix[t].inner}, t),
        NEW f \in FixRecords, fix' = [fix EXCEPT ![t] = f],
        f.n = fix[t].child, f.p = fix[t].n, f.child = fix[t].inner, f.side = Opposite(fix[t].side),
        GoTo(t, "lockChild"), UNCHANGED <<path, here, cond, stores, after, history, bounds>>
 PROVE  AVLInv'
<1>1. TreeShape /\ Variables /\ ThreadInv(t) /\ CondInv(t) /\ FixInv(t) BY DEF AVLInv, ThreadInv
<1>2. /\ HoldsInner(t) /\ fix[t] \in FixRecords /\ stores[t] = <<>>
      /\ fix[t].inner \notin {fix[t].n, fix[t].p, fix[t].child} /\ Holds(t, fix[t].inner)
 BY <1>1 DEF FixInv, ThreadInv, StoreInv
<1>3. PICK n, p, c, g, s, o : n = fix[t].n /\ p = fix[t].p /\ c = fix[t].child /\ g = fix[t].inner
                              /\ s = fix[t].side /\ o = Opposite(s)
 OBVIOUS
<1>4. PICK b, F : b = SideOf(p, n) /\ FinalLinks(F) BY DEF AVLInv
<1>5. /\ n \in Nodes /\ p \in Nodes /\ c \in Nodes /\ Holds(t, n) /\ Holds(t, c)
      /\ n # c /\ c # rootHolder /\ s \in Sides /\ o \in Sides
      /\ tree[c].parent = n /\ tree[c][s] = g
      /\ ~isUnlinked(tree[n].version) /\ ~isUnlinked(tree[c].version)
 BY <1>2, <1>3, <1>4, InnerFacts
<1>6. g \in Nodes /\ g \notin {n, c} /\ g # NoNode BY <1>1, <1>2, <1>3 DEF Holds, TreeShape
<1>10. OnlyLocks(t) /\ \A m : Holds(t, m) /\ m \notin {g} => Holds(t, m)' BY <1>1, <1>3, Unlocks
<1>11. Nodes' = Nodes /\ FixRecords' = FixRecords BY <1>10 DEF OnlyLocks, Nodes, FixRecords, Maybe
<1>12. /\ pc' = [pc EXCEPT ![t] = "lockChild"] /\ pc'[t] = "lockChild" /\ cond'[t] = cond[t] /\ fix'[t] = f
       /\ "lockChild" \in Repairing /\ pc[t] \notin {"idle", "store"}
 BY <1>1 DEF Variables, GoTo, Repairing
<1>13. CondInv(t)' BY <1>1, <1>11, <1>12, CondAside DEF Goals
<1>14. FixInv(t)'
 <2>1. Holds(t, n)' /\ Holds(t, c)' BY <1>5, <1>6, <1>10
 <2>2. /\ tree'[c].parent = n /\ tree'[c][s] = g
       /\ ~isUnlinked(tree'[n].version) /\ ~isUnlinked(tree'[c].version)
  <3>1. OnlyLocks(t) BY <1>10
  <3>2. \A m \in Nodes : /\ tree'[m].parent = tree[m].parent /\ tree'[m].version = tree[m].version
                         /\ \A d \in Sides : tree'[m][d] = tree[m][d]
   BY <3>1, LocksAside
  <3> QED BY <3>2, <1>5
 <2>3. fix'[t].n = c /\ fix'[t].p = n /\ fix'[t].side = o /\ fix'[t].child = g /\ Opposite(o) = s
  BY <1>3, <1>5, <1>12 DEF Sides, Opposite
 <2>4. t \in tree'[n].lock /\ t \in tree'[c].lock /\ n \in Nodes' /\ c \in Nodes' BY <2>1 DEF Holds
 <2>5. HoldsPair(t)' BY <2>2, <2>3, <2>4, <1>5 DEF HoldsPair, Holds, rootHolder
 <2>6. HoldsChild(t)' BY <2>2, <2>3, <2>5, <1>6 DEF HoldsChild, NoNode
 <2>7. ~Doing(t, "fixDecide")' /\ ~Doing(t, "rebalance")' BY <1>12 DEF Doing
 <2>8. fix'[t] \in FixRecords' BY <1>11, <1>12
 <2> QED BY <1>12, <2>6, <2>7, <2>8 DEF FixInv, Heights
<1> QED BY <1>2, <1>10, <1>12, <1>13, <1>14, Undamaged, RepairStep

LEMMA ReadNearStep ==
 ASSUME AVLInv, NEW t \in Threads, ReadNear(t)
 PROVE  AVLInv'
<1>1. TreeShape /\ Variables /\ ThreadInv(t) /\ CondInv(t) /\ FixInv(t) BY DEF AVLInv, ThreadInv
<1>2. PICK near : near = Height(Child(fix[t].inner, Opposite(fix[t].side))) OBVIOUS
<1>3. pc[t] = "near" /\ UNCHANGED <<path, here, cond, history, bounds>> BY DEF ReadNear
<1>4. CASE Unbalanced(fix[t].hOuter, near)
 <2>1. PICK f : f = [NoFix EXCEPT !.n = fix[t].child, !.p = fix[t].n, !.child = fix[t].inner,
                                  !.side = Opposite(fix[t].side), !.hOther = fix[t].hOuter]
  OBVIOUS
 <2>2. /\ tree' = Unlock(tree, {fix[t].inner}, t) /\ fix' = [fix EXCEPT ![t] = f]
       /\ GoTo(t, "lockChild") /\ UNCHANGED <<stores, after>>
  BY <1>2, <1>4, <2>1, Zenon DEF ReadNear
 <2>3. /\ f.n = fix[t].child /\ f.p = fix[t].n /\ f.child = fix[t].inner
       /\ f.side = Opposite(fix[t].side) /\ f \in FixRecords
  <3>1. f = [n |-> fix[t].child, p |-> fix[t].n, side |-> Opposite(fix[t].side), child |-> fix[t].inner,
             inner |-> NoNode, hOther |-> fix[t].hOuter, hOuter |-> 0, hInner |-> 0]
   BY <2>1 DEF NoFix
  <3>2. Opposite(fix[t].side) \in Sides /\ NoNode \in Maybe BY DEF Opposite, Sides, Maybe
  <3> QED BY <1>1, <3>1, <3>2, FixTyped DEF FixRecords
 <2> QED BY <1>3, <2>2, <2>3, RotateBelowStep
<1>5. CASE ~Unbalanced(fix[t].hOuter, near)
 <2>1. /\ HoldsInner(t) /\ fix[t] \in FixRecords /\ stores[t] = <<>> /\ pc[t] \in Repairing
       /\ fix[t].inner \notin {fix[t].n, fix[t].p, fix[t].child} /\ Holds(t, fix[t].inner)
  BY <1>1, <1>3 DEF FixInv, ThreadInv, StoreInv, Repairing
 <2>2. PICK n, p, c, g, s, o : n = fix[t].n /\ p = fix[t].p /\ c = fix[t].child /\ g = fix[t].inner
                               /\ s = fix[t].side /\ o = Opposite(s)
  OBVIOUS
 <2>3. PICK b, F : b = SideOf(p, n) /\ FinalLinks(F) BY DEF AVLInv
 <2>4. /\ n \in Nodes /\ p \in Nodes /\ c \in Nodes /\ Holds(t, n) /\ Holds(t, c)
       /\ n # rootHolder /\ c # rootHolder /\ s \in Sides /\ o \in Sides
       /\ ~isUnlinked(tree[n].version) /\ ~isUnlinked(tree[c].version)
       /\ ~F[n].gone /\ F[n][o] = c /\ IsForest(F) /\ Agree(F) /\ Reaches(F) /\ DOMAIN F = Nodes
  BY <2>1, <2>2, <2>3, InnerFacts
 <2>5. g \in Nodes BY <2>1, <2>2 DEF Holds
 <2>6. near \in Nat
  <3>1. Child(g, o) \in Maybe BY <1>1, <2>4, <2>5, TreeFields DEF Child
  <3> QED BY <1>1, <1>2, <2>2, <3>1, HeightsAreNatural
 <2>7. PICK f : f = [fix[t] EXCEPT !.hInner = near] OBVIOUS
 <2>8. /\ f \in FixRecords /\ f.n = n /\ f.p = p /\ f.child = c /\ f.side = s /\ f.inner = g
  BY <2>1, <2>2, <2>6, <2>7 DEF FixRecords
 <2>9. PICK ws, plan : /\ ws = (IF s = "left" THEN BeginChanges(fix[t]) ELSE <<>>)
                       /\ plan = Plan("far", g)
  OBVIOUS
 <2>10. fix' = [fix EXCEPT ![t] = f] /\ Perform(t, ws, plan) /\ UNCHANGED tree
  BY <1>2, <1>5, <2>2, <2>7, <2>9 DEF ReadNear
 <2>11. /\ ws \in Seq(Writes)
        /\ \A w \in Range(ws) : w.node \in {n, c} /\ w.field = "version" /\ ~isUnlinked(w.value)
  <3>1. CASE s = "left" BY <3>1, <1>1, <2>2, <2>4, <2>9, ChangesBegin
  <3>2. CASE s # "left"
   <4>1. ws = <<>> /\ <<>> \in Seq(Writes) BY <2>9, <3>2
   <4> QED BY <4>1, RangeOfEmpty
  <3> QED BY <3>1, <3>2
 <2>12. OnlyLocks(t) /\ (\A m : Holds(t, m) => Holds(t, m)') /\ Nodes' = Nodes /\ FixRecords' = FixRecords
  BY <1>1, <2>10, UnchangedTree DEF Holds, Nodes, FixRecords, Maybe
 <2>13. plan.then = "far" /\ plan.node = g BY <2>9 DEF Plan
 <2>14. /\ pc'[t] = "store" /\ stores'[t] = ws /\ after'[t] = plan /\ fix'[t] = f
  BY <1>1, <2>10 DEF Variables, Perform, GoTo
 <2>15. HoldsInner(t)' BY <2>1, <2>2, <2>8, <2>12, <2>14, <2>4, StillHolds
 <2>16. FixInv(t)'
  <3>1. ~Doing(t, "fixDecide")' /\ ~Doing(t, "rebalance")' BY <2>14 DEF Doing
  <3>2. fix'[t] \in FixRecords' BY <2>8, <2>12, <2>14
  <3>3. g \notin {n, p, c} /\ t \in tree'[g].lock /\ g \in Nodes' BY <2>1, <2>2, <2>12 DEF Holds
  <3>4. fix'[t].inner \notin {fix'[t].n, fix'[t].p, fix'[t].child} /\ Holds(t, fix[t].inner)'
   BY <2>8, <2>14, <3>3 DEF Holds
  <3> QED BY <2>14, <2>15, <3>1, <3>2, <3>4 DEF FixInv, Heights
 <2>17. StoreInv(t)' BY <2>5, <2>11, <2>12, <2>13, <2>14 DEF StoreInv
 <2>18. Plans(t, F, F, Range(ws))
  <3>1. ~F[c].gone BY <2>4 DEF Agree, IsForest, Sides
  <3>2. Holds(t, n)' /\ Holds(t, c)' BY <2>4, <2>12
  <3>3. \A w \in Range(ws) : Foresees(F, w) /\ Entitled(t, w)'
   BY <2>4, <2>11, <3>1, <3>2 DEF Foresees, Links, Entitled, Holds
  <3>4. F \in [Nodes -> LinkRecords] BY <2>4 DEF Reaches
  <3> QED BY <3>3, <3>4 DEF Plans
 <2>19. plan.then # "unlinked" BY <2>13
 <2> QED BY <1>3, <2>1, <2>4, <2>10, <2>11, <2>12, <2>16, <2>17, <2>18, <2>19, PlannedStep
<1> QED BY <1>4, <1>5

LEMMA RebalancingStep ==
 ASSUME AVLInv, NEW t \in Threads, Rebalancing(t)
 PROVE  AVLInv'
<1>1. TreeShape /\ Variables /\ ThreadInv(t) /\ CondInv(t) /\ FixInv(t) BY DEF AVLInv, ThreadInv
<1>2. ASSUME RebalanceNothing(t) PROVE AVLInv'
 <2>1. pc[t] \notin {"idle", "store"} /\ NoNode \in Maybe /\ Damaged(t, NoNode)
       /\ UNCHANGED <<path, here, stores, after, history, bounds>>
  BY <1>2 DEF RebalanceNothing, Maybe
 <2> QED BY <2>1, Undamaged, DamagedStep
<1>3. ASSUME RotateAtOnce(t) PROVE AVLInv'
 <2>1. /\ pc[t] = "rotate" /\ Rotate(t, fix[t].hInner)
       /\ UNCHANGED <<tree, path, here, cond, fix, history, bounds>>
  BY <1>3 DEF RotateAtOnce
 <2>2. fix[t].hInner \in Nat BY <1>1, FixTyped
 <2>3. OnlyLocks(t) /\ \A m : Holds(t, m) => Holds(t, m)'
  BY <1>1, <2>1, UnchangedTree DEF Holds, Nodes
 <2> QED BY <2>1, <2>2, <2>3, RotateStep
<1>4. ASSUME NoInner(t) PROVE AVLInv'
 <2>1. PICK n : n = fix[t].n OBVIOUS
 <2>2. pc[t] \notin {"idle", "store"} /\ n \in Maybe /\ Damaged(t, n)
       /\ UNCHANGED <<path, here, stores, after, history, bounds>>
  BY <1>1, <1>4, <2>1, FixTyped DEF NoInner
 <2> QED BY <2>2, Undamaged, DamagedStep
<1>5. ASSUME ReadFar(t) PROVE AVLInv'
 <2>1. PICK hNear, hFar : hNear = fix[t].hInner /\ hFar = Height(Child(fix[t].inner, fix[t].side))
  OBVIOUS
 <2>2. /\ pc[t] = "far" /\ RotateOver(t, hNear, hFar)
       /\ UNCHANGED <<tree, path, here, cond, fix, history, bounds>>
  BY <1>5, <2>1 DEF ReadFar
 <2>3. fix[t].inner \in Nodes /\ fix[t].side \in Sides /\ hNear \in Nat
  BY <1>1, <2>1, <2>2, FixTyped DEF FixInv, Holds
 <2>4. hFar \in Nat
  <3>1. Child(fix[t].inner, fix[t].side) \in Maybe BY <1>1, <2>3, TreeFields DEF Child
  <3> QED BY <1>1, <2>1, <3>1, HeightsAreNatural
 <2> QED BY <2>2, <2>3, <2>4, RotateOverStep
<1> QED BY <1>2, <1>3, <1>4, <1>5, RebalanceUnlinksStep, RebalanceHeightStep, RebalanceToStep,
           LockChildStep, ReadOuterStep, ReadInnerStep, LockInnerStep, ReadNearStep DEF Rebalancing

-----------------------------------------------------------------------------
(* The tree begins with the rootHolder alone. *)
LEMMA InitHolds ==
 ASSUME Init, AVLTreeAssumption
 PROVE  AVLInv
<1>1. PICK r : r = rootHolder OBVIOUS
<1>2. PICK q : q = NodeRecord(MinKey, FALSE, NoNode) OBVIOUS
<1>3. tree = [n \in {r} |-> q] /\ DOMAIN tree = {r} /\ tree[r] = q /\ Nodes = {r}
 BY <1>1, <1>2 DEF Init, Nodes
<1>4. /\ q.key = MinKey /\ q.value = FALSE /\ q.height = 1 /\ q.version = 0 /\ q.parent = NoNode
      /\ q.left = NoNode /\ q.right = NoNode /\ q.lock = {}
 BY <1>2 DEF NodeRecord
<1>5. r[1] = MinKey /\ r # NoNode BY <1>1 DEF rootHolder, NoNode
<1>6. TreeShape
 <2>1. q \in NodeRecords BY <1>2 DEF NodeRecord, NodeRecords, Maybe
 <2>2. tree \in [Nodes -> NodeRecords] BY <2>1, <1>3
 <2>3. IsFiniteSet(Nodes) BY <1>3, FS_Singleton
 <2> QED BY <2>2, <2>3, <1>1, <1>3, <1>4, <1>5 DEF TreeShape
<1>7. Variables
 <2>1. todo \in Seq([op : {"add", "remove"}, key : Keys]) /\ callsLeft \in [Threads -> Nat]
  BY DEF Init, AVLTreeAssumption
 <2>2. Abstract!SetTypeOK
  BY DEF Init, Abstract!SetInit, Abstract!SetTypeOK, Abstract!Results, Abstract!NoResult
 <2> QED BY <2>1, <2>2 DEF Init, Variables, Labels
<1>8. \E F : FinalLinks(F)
 <2>1. PICK l : l = [left |-> NoNode, right |-> NoNode, parent |-> NoNode, gone |-> FALSE] OBVIOUS
 <2>2. PICK F : F = [n \in {r} |-> l] OBVIOUS
 <2>3. l \in LinkRecords BY <2>1 DEF LinkRecords, Maybe
 <2>4. DOMAIN F = {r} /\ F[r] = l /\ F \in [Nodes -> LinkRecords] BY <2>2, <2>3, <1>3
 <2>5. l.left = NoNode /\ l.right = NoNode /\ l.parent = NoNode /\ ~l.gone BY <2>1
 <2>6. Agree(F) BY <2>4, <2>5, <1>1 DEF Agree, IsChild, Sides
 <2>7. \A t \in Threads : Range(stores[t]) = {} BY RangeOfEmpty DEF Init
 <2>8. ~isUnlinked(tree[r].version) BY <1>3, <1>4, MarksAreUnlinked
 <2>9. Reaches(F) BY <2>4, <2>5, <2>7, <2>8, <1>3, <1>4 DEF Reaches, Links
 <2> QED BY <2>6, <2>9 DEF FinalLinks
<1>9. ASSUME NEW t \in Threads PROVE ThreadInv(t)
 <2>1. /\ pc[t] = "idle" /\ path[t] = <<>> /\ here[t] = NoPlace /\ cond[t] = NoCond
       /\ fix[t] = NoFix /\ stores[t] = <<>> /\ after[t] = NoPlan /\ call[t] = NoCall
  BY DEF Init, Abstract!SetInit, NoCall
 <2>2. StoresAreLocked(t) BY <2>1, RangeOfEmpty DEF StoresAreLocked
 <2>3. PathInv(t) BY <2>1 DEF PathInv, NoPlace, Maybe, Searching, AtKey, AtChild
 <2>4. CondInv(t) BY <2>1 DEF CondInv, NoCond, Maybe, Goals, ReadAll, Routing
 <2>5. FixInv(t)
  <3>1. fix[t] \in FixRecords BY <2>1 DEF NoFix, FixRecords, Maybe, Sides
  <3> QED BY <2>1, <3>1 DEF FixInv, Doing, Heights
 <2>6. StoreInv(t) /\ IdleInv(t) BY <2>1 DEF StoreInv, IdleInv
 <2> QED BY <2>2, <2>3, <2>4, <2>5, <2>6 DEF ThreadInv
<1> QED BY <1>6, <1>7, <1>8, <1>9 DEF AVLInv

LEMMA StutterStep ==
 ASSUME AVLInv, UNCHANGED vars, AVLTreeAssumption
 PROVE  AVLInv'
<1>1. TreeShape /\ Variables /\ SetupThread \in Threads BY DEF AVLInv, AVLTreeAssumption
<1>2. UNCHANGED <<tree, pc, path, here, cond, fix, stores, after, set, call, answers, result, todo, callsLeft>>
 BY DEF vars, locals, history, bounds
<1>3. \A u \in Threads : SameFor(u) /\ stores'[u] = stores[u] BY <1>2 DEF SameFor
<1>4. OnlyLocks(SetupThread) BY <1>1, <1>2, UnchangedTree
<1>5. TreeShape' /\ \A u \in Threads : Keeps(u) BY <1>1, <1>2, <1>4, LocksKeep DEF Keeps, Nodes
<1>6. \A u \in Threads : ThreadInv(u)' BY <1>1, <1>3, <1>5, OthersStay DEF AVLInv
<1>7. PICK F : FinalLinks(F) BY DEF AVLInv
<1>8. FinalLinks(F)' BY <1>1, <1>3, <1>4, <1>7, LocksReach
<1>9. Variables'
 BY <1>1, <1>2 DEF Variables, Labels, Abstract!SetTypeOK, Abstract!Results, Abstract!SetCalls, Abstract!NoCall
<1> QED BY <1>5, <1>6, <1>8, <1>9 DEF AVLInv

(* Every step keeps the invariant. *)
LEMMA AVLInvStep ==
 ASSUME AVLInv, [Next]_vars, AVLTreeAssumption
 PROVE  AVLInv'
<1>1. ASSUME NEW t \in Threads, NEW c \in Abstract!SetCalls, Start(t, c) PROVE AVLInv'
 BY <1>1, StartStep
<1>2. ASSUME NEW t \in Threads, Step(t) PROVE AVLInv'
 BY <1>2, DescendingStep, UpdatingStep, FixingStep, RebalancingStep DEF Step
<1>3. CASE UNCHANGED vars BY <1>3, StutterStep
<1> QED BY <1>1, <1>2, <1>3 DEF Next

LEMMA InvariantHolds == Spec => []AVLInv
<1>1. Init => AVLInv BY AVLTreeAssumption, InitHolds
<1>2. AVLInv /\ [Next]_vars => AVLInv' BY AVLTreeAssumption, AVLInvStep
<1> QED BY <1>1, <1>2, PTL DEF Spec

-----------------------------------------------------------------------------
(* Every variable keeps its type: no function of the tree goes through a   *)
(* null pointer to a node, a link or an activation leads to a node, and a  *)
(* mutex has one owner.                                                    *)
THEOREM TypeCorrect == Spec => []TypeOK
<1>1. AVLInv => TypeOK
 <2> SUFFICES ASSUME AVLInv PROVE TypeOK OBVIOUS
 <2>1. TreeShape /\ Variables /\ \A t \in Threads : ThreadInv(t) BY DEF AVLInv
 <2>2. rootHolder \in Nodes /\ SetupThread \in Threads
  BY <2>1, AVLTreeAssumption DEF TreeShape, AVLTreeAssumption
 <2>3. ASSUME NEW n \in Nodes
       PROVE  /\ tree[n].key = n[1] /\ n[1] \in Keys \cup {MinKey}
              /\ tree[n].value \in BOOLEAN
              /\ tree[n].height \in Nat \ {0}
              /\ tree[n].version \in Nat
              /\ {tree[n].parent, tree[n].left, tree[n].right} \subseteq Nodes \cup {NoNode}
              /\ \E t \in Threads : tree[n].lock \subseteq {t}
  <3>1. /\ tree[n].key = n[1] /\ \A t, u \in tree[n].lock : t = u BY <2>1 DEF TreeShape
  <3>2. tree[n].lock \subseteq Threads BY <2>1, TreeFields
  <3>3. \E t \in Threads : tree[n].lock \subseteq {t} BY <2>2, <3>1, <3>2
  <3>4. /\ tree[n].left \in Maybe /\ tree[n].right \in Maybe /\ tree[n].parent \in Maybe
        /\ tree[n].version \in Nat /\ tree[n].value \in BOOLEAN /\ tree[n].height \in Nat \ {0}
        /\ tree[n].key \in Keys \cup {MinKey}
   BY <2>1, TreeFields
  <3> QED BY <3>1, <3>3, <3>4 DEF Maybe
 <2>4. ASSUME NEW t \in Threads
       PROVE  /\ \A i \in DOMAIN path[t] : path[t][i].node \in Nodes
              /\ here[t].child \in Nodes \cup {NoNode}
              /\ cond[t].node \in Nodes \cup {NoNode}
              /\ {fix[t].n, fix[t].p, fix[t].child, fix[t].inner} \subseteq Nodes \cup {NoNode}
              /\ \A i \in DOMAIN stores[t] : stores[t][i].node \in Nodes
  <3>1. PathInv(t) /\ CondInv(t) /\ FixInv(t) /\ StoresAreLocked(t) BY <2>1 DEF ThreadInv
  <3>2. \A i \in DOMAIN path[t] : path[t][i].node \in Nodes
   <4>1. PICK S : S = [node : Nodes, ovl : Nat] OBVIOUS
   <4>2. path[t] \in Seq(S) BY <3>1, <4>1 DEF PathInv
   <4>3. \A i \in DOMAIN path[t] : path[t][i] \in S BY <4>2
   <4>4. \A x \in S : x.node \in Nodes BY <4>1
   <4> QED BY <4>3, <4>4
  <3>3. here[t].child \in Nodes \cup {NoNode} /\ cond[t].node \in Nodes \cup {NoNode}
   BY <3>1 DEF PathInv, CondInv, Maybe
  <3>4. {fix[t].n, fix[t].p, fix[t].child, fix[t].inner} \subseteq Nodes \cup {NoNode}
   BY <3>1, FixTyped DEF Maybe
  <3>5. \A i \in DOMAIN stores[t] : stores[t][i] \in Writes BY <3>1 DEF StoresAreLocked
  <3>6. \A w \in Writes : w.node \in Nodes BY DEF Writes
  <3> QED BY <3>2, <3>3, <3>4, <3>5, <3>6
 <2> QED BY <2>1, <2>2, <2>3, <2>4 DEF TypeOK, Variables
<1> QED BY <1>1, InvariantHolds, PTL

(* Unlinks and rotations that overlap leave links that agree: without      *)
(* stores to come the final links of a node are those that it has.         *)
THEOREM LinksAgreeAlways == Spec => []LinksAgree
<1>1. AVLInv => LinksAgree
 <2> SUFFICES ASSUME AVLInv, StoresEnd, NEW n \in Nodes
              PROVE  IF isUnlinked(tree[n].version)
                     THEN NoNode \in {tree[n].left, tree[n].right} /\ ~tree[n].value
                     ELSE /\ tree[n].left # NoNode => tree[n].left # tree[n].right
                          /\ \A side \in Sides : Child(n, side) # NoNode =>
                               /\ ~isUnlinked(tree[Child(n, side)].version)
                               /\ tree[Child(n, side)].parent = n
                          /\ n # rootHolder =>
                               /\ n \in {tree[tree[n].parent].left, tree[tree[n].parent].right}
                               /\ ~isUnlinked(tree[tree[n].parent].version)
  BY DEF LinksAgree
 <2>1. TreeShape /\ \A u \in Threads : StoresAreLocked(u) BY DEF AVLInv, ThreadInv
 <2>2. PICK F : FinalLinks(F) BY DEF AVLInv
 <2>3. IsForest(F) /\ DOMAIN F = Nodes /\ Agree(F) /\ Reaches(F)
  BY <2>1, <2>2, ForestOfNodes DEF FinalLinks
 <2>4. \A m : QuietAt(m) BY DEF QuietAt, StoresEnd
 <2>5. \A m \in Nodes :
         /\ tree[m].left = F[m].left /\ tree[m].right = F[m].right /\ tree[m].parent = F[m].parent
         /\ isUnlinked(tree[m].version) <=> F[m].gone
         /\ F[m].gone => ~tree[m].value
  BY <2>1, <2>3, <2>4, QuietLinks, QuietParent
 <2>6. CASE F[n].gone BY <2>3, <2>5, <2>6 DEF Agree
 <2>7. CASE ~F[n].gone
  <3>1. F[n].left # NoNode => F[n].left # F[n].right BY <2>3, <2>7 DEF Agree
  <3>2. ASSUME NEW side \in Sides, Child(n, side) # NoNode
        PROVE  ~isUnlinked(tree[Child(n, side)].version) /\ tree[Child(n, side)].parent = n
   <4>1. PICK c : c = Child(n, side) OBVIOUS
   <4>2. c = F[n][side] /\ c # NoNode BY <2>5, <3>2, <4>1 DEF Sides, Child
   <4>3. c \in Nodes /\ ~F[c].gone /\ F[c].parent = n BY <2>3, <2>7, <4>2, AgreeFacts
   <4> QED BY <2>5, <4>1, <4>3
  <3>3. n # rootHolder => /\ n \in {tree[tree[n].parent].left, tree[tree[n].parent].right}
                          /\ ~isUnlinked(tree[tree[n].parent].version)
   <4>1. SUFFICES ASSUME n # rootHolder
                  PROVE  /\ n \in {tree[tree[n].parent].left, tree[tree[n].parent].right}
                         /\ ~isUnlinked(tree[tree[n].parent].version)
    OBVIOUS
   <4>2. PICK p : p = F[n].parent OBVIOUS
   <4>3. p \in Nodes /\ ~F[p].gone /\ IsChild(F, p, n) BY <2>3, <2>7, <4>1, <4>2 DEF Agree
   <4>4. n \in {F[p].left, F[p].right} BY <4>3 DEF IsChild, Sides
   <4> QED BY <2>5, <4>2, <4>3, <4>4
  <3> QED BY <2>5, <2>7, <3>1, <3>2, <3>3
 <2> QED BY <2>6, <2>7
<1> QED BY <1>1, InvariantHolds, PTL
=============================================================================
