-------------------------- MODULE NBBSTInvariants ---------------------------
(***************************************************************************)
(* What holds of NBBST between its steps: the parts of the inductive       *)
(* invariants NBBSTInv (the update words and the shape of the tree), SetInv *)
(* (where the keys are) and ReleaseInv (what was given back) that          *)
(* NBBSTProofs proves.                                                     *)
(***************************************************************************)
EXTENDS NBBST

(* The parts of the tree. *)
Inner == {n \in Nodes : tree[n].internal}
Leaves == {n \in Nodes : ~tree[n].internal}
Kids(n) == {tree[n].left, tree[n].right}
Word(n) == tree[n].update

Words == [state : States, info : InfoIds \cup {NoInfo}]
CleanWords == [state : {"CLEAN"}, info : InfoIds \cup {NoInfo}]
AddInfo == [p : Inner, newInternal : Inner, l : Leaves]
RemoveInfo == [gp : Inner, p : Inner, l : Leaves, pupdate : CleanWords]
Adds == {op \in InfoIds : Info(op) \in AddInfo}
Removes == {op \in InfoIds : Info(op) \in RemoveInfo}

Marked(op) == Word(Info(op).p) = Update("MARK", op)
Flagged(n, x) == Word(n) = Update("IFLAG", x) \/ Word(n) = Update("DFLAG", x)

LeafRecords == [internal : {FALSE}, key : Bounds]
InnerRecords ==
    [internal : {TRUE}, key : Bounds, update : Words, left : Nodes, right : Nodes]

(* A word leads to the Info of its operation; a mark stays. *)
Sound(u) ==
    /\ u \in Words
    /\ u.state = "IFLAG" => u.info \in Adds
    /\ u.state = "DFLAG" => u.info \in Removes
    /\ u.state = "MARK" => u.info \in Removes /\ Marked(u.info)
SoundWords == {u \in Words : Sound(u)}

(* The operation of a clean word that was read has left the node. *)
Remembered(n, u) == Sound(u) /\ (u.state = "CLEAN" => ~Flagged(n, u.info))

(* A node that was removed: marked, and no child of the grandparent. *)
Dead(n) == Word(n).state = "MARK" /\ n \notin Kids(Info(Word(n).info).gp)

(* The shape. *)
NewNames == {NewNode(op, kind) : op \in InfoIds, kind \in {"leaf", "sibling", "internal"}}

Shape ==
    /\ tree \in [Nodes -> LeafRecords \cup InnerRecords]
    /\ infos \in [Threads -> Seq(AddInfo \cup RemoveInfo)]
    /\ Root \in Inner
    /\ tree[Root].key = MaxKey
    /\ \A n \in Nodes : n \in {Root, MinLeaf, MaxLeaf} \cup NewNames

Leads(u, n) ==
    /\ Sound(u)
    /\ u.state \in {"IFLAG", "MARK"} => Info(u.info).p = n
    /\ u.state = "DFLAG" => Info(u.info).gp = n
WordsLead == \A n \in Inner : Leads(Word(n), n)

KidsAreOrdered ==
    \A n \in Inner :
        tree[tree[n].left].key < tree[n].key /\ tree[n].key <= tree[tree[n].right].key

(* A node has one parent that was not removed, if any. *)
OneParent ==
    \A m, n \in Inner : \A c \in Kids(m) \cap Kids(n) :
        m = n \/ Dead(m) \/ Dead(n)
DeadBelowDead ==
    \A n \in Inner : \A c \in Kids(n) \cap Inner : Dead(c) => Dead(n)

(* The left spine of the tree ends in a leaf of the smallest key. *)
IsSpine(S) ==
    /\ Root \in S
    /\ \A n \in S : IF tree[n].internal THEN tree[n].left \in S ELSE tree[n].key = MinKey
SpineEnds == \E S \in SUBSET Nodes : IsSpine(S)

(* An add: its new node is not yet in the tree, or the leaf that it        *)
(* replaced is out for ever.                                               *)
Unseen(n) ==
    /\ \A m \in Inner : n \notin Kids(m)
    /\ \A t \in Threads : n \notin {search[t].gp, search[t].p, search[t].l}
LeftmostStays(op) ==
    LET left == tree[Info(op).newInternal].left
    IN  tree[Info(op).l].key = MinKey => ~tree[left].internal /\ tree[left].key = MinKey
Pending(op) ==
    /\ Word(Info(op).p) = Update("IFLAG", op)
    /\ Info(op).l \in Kids(Info(op).p)
    /\ Unseen(Info(op).newInternal)
    /\ Word(Info(op).newInternal) = NullUpdate
    /\ LeftmostStays(op)
Detached(op) == Info(op).l \notin Kids(Info(op).p)
Replaced(op) ==
    /\ Detached(op)
    /\ \A n \in Inner : Info(op).l \in Kids(n) => Dead(n)
AddInv(op) ==
    LET i == Info(op)
    IN  /\ i.newInternal = NewNode(op, "internal")
        /\ tree[i.newInternal].key < tree[i.p].key <=> tree[i.l].key < tree[i.p].key
        /\ Pending(op) \/ Replaced(op)

(* A remove: as long as the parent can be marked the flag is there, and    *)
(* parent and leaf are where they were; the flag of a marked parent stays  *)
(* until the parent is out.                                                *)
Other(op) ==
    IF tree[Info(op).p].right = Info(op).l THEN tree[Info(op).p].left
                                           ELSE tree[Info(op).p].right
(* CASChild would look on the other side. *)
Misses(op) ==
    LET key == tree[Info(op).gp].key
    IN  ~(tree[Other(op)].key < key <=> tree[Info(op).p].key < key)
Cut(op) == Info(op).p \notin Kids(Info(op).gp) \/ Misses(op)
RemoveInv(op) ==
    LET i == Info(op)
    IN  /\ tree[i.l].key \in Keys
        /\ Remembered(i.p, i.pupdate)
        /\ Word(i.p) = i.pupdate =>
             Word(i.gp) = Update("DFLAG", op) /\ i.p \in Kids(i.gp) /\ i.l \in Kids(i.p)
        /\ Marked(op) => i.l \in Kids(i.p) /\ (Word(i.gp) = Update("DFLAG", op) \/ Cut(op))

GlobalInv ==
    /\ Shape
    /\ WordsLead
    /\ KidsAreOrdered
    /\ OneParent
    /\ DeadBelowDead
    /\ SpineEnds
    /\ \A op \in Adds : AddInv(op)
    /\ \A op \in Removes : RemoveInv(op)

(* The threads. *)
MayMark(op) == Word(Info(op).p) = Info(op).pupdate

FrameSet ==
    [at : {"insertChild"}, op : Adds]
    \cup {f \in [at : {"insertUnflag"}, op : Adds] : Detached(f.op)}
    \cup [at : {"deleteRead"}, op : Removes]
    \cup [at : {"deleteMark"}, op : Removes, result : SoundWords]
    \cup {f \in [at : {"deleteRecheck"}, op : Removes, result : SoundWords] : ~MayMark(f.op)}
    \cup {f \in [at : {"backtrack"}, op : Removes] : ~MayMark(f.op) /\ ~Marked(f.op)}
    \cup {f \in [at : {"markedOther"}, op : Removes] : Marked(f.op)}
    \cup {f \in [at : {"markedChild"}, op : Removes, other : Nodes] :
            Marked(f.op) /\ f.other = Other(f.op)}
    \cup {f \in [at : {"markedUnflag"}, op : Removes] : Marked(f.op) /\ Cut(f.op)}

(* Below a parent whose clean word is still the one that was read. *)
Follows(parent, word, n) == word.state = "CLEAN" /\ Word(parent) = word => n \in Kids(parent)

Searches ==
    [gp : Inner \cup {NoNode}, p : Inner \cup {NoNode}, l : Nodes \cup {NoNode},
     pupdate : SoundWords, gpupdate : SoundWords]
SearchInv(s) ==
    /\ s \in Searches
    /\ s.gp # NoNode => Remembered(s.gp, s.gpupdate)
    /\ s.p # NoNode => Remembered(s.p, s.pupdate)

AtUpdate(s) ==
    /\ s.l \in Inner
    /\ s.l # Root => s.p \in Inner /\ Follows(s.p, s.pupdate, s.l)

AtNode(s) ==
    /\ s.p \in Inner
    /\ s.p # Root => s.gp \in Inner /\ Follows(s.gp, s.gpupdate, s.p)

AtLeaf(s, c) ==
    /\ s.l \in Leaves
    /\ s.pupdate.state = "CLEAN"
    /\ Follows(s.p, s.pupdate, s.l)
    /\ c.key < tree[s.p].key <=> tree[s.l].key < tree[s.p].key
    /\ c.op = "add" => tree[s.l].key # c.key
    /\ c.op # "add" => /\ tree[s.l].key = c.key
                       /\ s.p # Root
                       /\ s.gpupdate.state = "CLEAN"

ThreadInv(t) ==
    /\ SearchInv(search[t])
    /\ Sound(seen[t])
    /\ pc[t] # "idle" => call[t].key \in Keys
    /\ pc[t] = "update" => AtUpdate(search[t])
    /\ pc[t] \in {"child", "result", "flag"} => AtNode(search[t])
    /\ pc[t] = "child" => search[t].l = search[t].p
    /\ pc[t] \in {"result", "flag"} => AtLeaf(search[t], call[t])
    /\ stack[t] \in Seq(FrameSet)
    /\ pc[t] = "help" => stack[t] # <<>>

ControlTypes ==
    /\ DOMAIN pc = Threads /\ DOMAIN search = Threads /\ DOMAIN seen = Threads
    /\ DOMAIN stack = Threads /\ DOMAIN call = Threads

NBBSTInv == GlobalInv /\ ControlTypes /\ \A t \in Threads : ThreadInv(t)

(* What no step undoes. *)
SameKids(n) == tree'[n].left = tree[n].left /\ tree'[n].right = tree[n].right

Grows ==
    /\ \A n \in Nodes : /\ n \in Nodes'
                         /\ tree'[n].internal = tree[n].internal
                         /\ tree'[n].key = tree[n].key
    /\ \A op \in InfoIds : op \in InfoIds' /\ Info(op)' = Info(op)
    /\ \A n \in Inner :
         /\ Word(n).state \in {"CLEAN", "MARK"} => SameKids(n)
         /\ Word(n).state = "MARK" => Word(n)' = Word(n)
         /\ \A x \in InfoIds \cup {NoInfo} : ~Flagged(n, x) =>
              /\ ~Flagged(n, x)'
              /\ Word(n) # Update("CLEAN", x) => Word(n)' # Update("CLEAN", x)
    /\ \A op \in Adds : Detached(op) => Detached(op)'
    /\ \A op \in Removes : /\ ~MayMark(op) /\ ~Marked(op) => ~Marked(op)'
                           /\ Marked(op) /\ Cut(op) => Cut(op)'

(* Searches go to children, or back to the root. *)
SearchMoves ==
    \A u \in Threads : \A n \in {search'[u].gp, search'[u].p, search'[u].l} :
        \/ n \in {search[u].gp, search[u].p, search[u].l, Root, NoNode}
        \/ \E m \in Inner : n \in Kids(m)

(* Steps that change one update word, of node n, to u. *)
OnlyWord(n, u) ==
    /\ \A m \in Nodes : /\ m \in Nodes'
                         /\ tree'[m].internal = tree[m].internal
                         /\ tree'[m].key = tree[m].key
    /\ \A m \in Inner : SameKids(m) /\ Word(m)' = IF m = n THEN u ELSE Word(m)
    /\ \A op \in InfoIds : op \in InfoIds' /\ Info(op)' = Info(op)
    /\ \A m \in Inner' : m \in Inner \/ Kids(m)' \cap Nodes = {}

(* What has to be true of the node when that happens. *)
WordMay(n, u) ==
    /\ Word(n).state # "MARK"
    /\ \A op \in Adds : Word(n) = Update("IFLAG", op) => Detached(op)
    /\ \A op \in Removes :
         Word(n) = Update("DFLAG", op) => ~MayMark(op) /\ (Marked(op) => Cut(op))
    /\ \A op \in Adds : Pending(op) => Info(op).newInternal # n
    /\ \/ u.state = "CLEAN" /\ u.info \in InfoIds /\ Flagged(n, u.info)
       \/ u.state \in {"IFLAG", "DFLAG"} /\ u.info \notin InfoIds \cup {NoInfo}
       \/ /\ u.state = "MARK"
          /\ u.info \in Removes /\ MayMark(u.info) /\ Info(u.info).p = n

(* Steps that change a word and add no node. *)
InfosStay == \A op \in InfoIds : op \in InfoIds' /\ Info(op)' = Info(op)

(* A flag is taken back when its operation is done or has been given up.   *)
Done(op) ==
    \/ op \in Adds /\ Detached(op)
    \/ op \in Removes /\ ~MayMark(op) /\ (Marked(op) => Cut(op))

(* The flag of an add, with its new Info and its new nodes. *)
FlagsAdd(p, op, key, oldKey) ==
    tree' = AddNodes(NewSubtree(op, key, oldKey),
                     [tree EXCEPT ![p].update = Update("IFLAG", op)])

Sides(op, key, oldKey) ==
    LET leaf    == NewNode(op, "leaf")
        sibling == NewNode(op, "sibling")
    IN  IF key <= oldKey THEN Internal(oldKey, NullUpdate, leaf, sibling)
                         ELSE Internal(key, NullUpdate, sibling, leaf)

(* Steps that change one child, of node n, from old to new. *)
Swaps(n, old, new) ==
    /\ Nodes' = Nodes /\ Inner' = Inner /\ Leaves' = Leaves
    /\ tree' \in [Nodes -> LeafRecords \cup InnerRecords]
    /\ \A m \in Nodes : tree'[m].internal = tree[m].internal /\ tree'[m].key = tree[m].key
    /\ \A m \in Inner : Word(m)' = Word(m) /\ (m # n => SameKids(m))
    /\ \/ /\ tree[new].key < tree[n].key
          /\ tree[n].left = old /\ tree'[n].left = new /\ tree'[n].right = tree[n].right
       \/ /\ ~(tree[new].key < tree[n].key)
          /\ tree[n].right = old /\ tree'[n].right = new /\ tree'[n].left = tree[n].left

CurrentChild(n, new) ==
    IF tree[new].key < tree[n].key THEN tree[n].left ELSE tree[n].right
SetChild(n, new) ==
    tree' = IF tree[new].key < tree[n].key THEN [tree EXCEPT ![n].left = new]
                                           ELSE [tree EXCEPT ![n].right = new]

(* Control. *)
Moves(t) ==
    /\ \A u \in Threads \ {t} : /\ pc'[u] = pc[u] /\ search'[u] = search[u]
                                 /\ seen'[u] = seen[u] /\ stack'[u] = stack[u]
                                 /\ call'[u] = call[u]
    /\ ControlTypes'
    /\ SearchMoves

(* A thread that goes on in Help* keeps its search. *)
HelpsWith(t, frames) ==
    /\ UNCHANGED <<search, seen, call>>
    /\ \/ pc' = [pc EXCEPT ![t] = "help"]
       \/ UNCHANGED pc /\ pc[t] = "help"
    /\ stack' = [stack EXCEPT ![t] = frames]

(* What is shown of every step. *)
Keeps == NBBSTInv' /\ Grows /\ \A m \in Inner : NodeStep(m)

(* A thread that searches keeps its stack and its word. *)
ComesFrom(s, old) ==
    \A n \in {s.gp, s.p, s.l} :
        \/ n \in {old.gp, old.p, old.l, Root, NoNode}
        \/ \E m \in Inner : n \in Kids(m)

(* The nodes that a search for key meets from n on, and those below n: the *)
(* smallest sets with n that are closed under the children.                *)
IsLinked(tr) ==
    \A n \in DOMAIN tr : tr[n].internal => {tr[n].left, tr[n].right} \subseteq DOMAIN tr

PathClosed(tr, key, S) == \A n \in S : tr[n].internal => Child(tr, n, key) \in S
Path(tr, n, key) ==
    {m \in DOMAIN tr :
        \A S \in SUBSET DOMAIN tr : n \in S /\ PathClosed(tr, key, S) => m \in S}

BelowClosed(tr, S) ==
    \A n \in S : tr[n].internal => tr[n].left \in S /\ tr[n].right \in S
Below(tr, n) ==
    {m \in DOMAIN tr :
        \A S \in SUBSET DOMAIN tr : n \in S /\ BelowClosed(tr, S) => m \in S}

(* A path ends: the nodes have ranks that fall from parent to child. *)
Ranks(tr, f) ==
    /\ f \in [DOMAIN tr -> Nat]
    /\ \A n \in DOMAIN tr : tr[n].internal => f[tr[n].left] < f[n] /\ f[tr[n].right] < f[n]

(* What the tree satisfies besides NBBSTInv.  Ranks fall from parent to    *)
(* child, and the new node of an add ranks below its future parent.        *)
OnPath(key) == Path(tree, Root, key)
InTree == Below(tree, Root)

Ranked ==
    \E f : Ranks(tree, f) /\ \A op \in Adds : f[Info(op).newInternal] < f[Info(op).p]

RootIsTop ==
    /\ \A n \in Inner : Root \notin Kids(n)
    /\ \A op \in Removes : Info(op).p # Root

(* A search tree: all that is below a child is on its side. *)
KeysAreOrdered(n) ==
    /\ \A m \in Below(tree, tree[n].left) : tree[m].key < tree[n].key
    /\ \A m \in Below(tree, tree[n].right) : tree[n].key <= tree[m].key
Ordered == \A n \in InTree \cap Inner : KeysAreOrdered(n)

(* An internal node is in the tree, was removed, or waits for its add. *)
Waits(n) == \E op \in Adds : Pending(op) /\ n = Info(op).newInternal
LiveIsIn == \A n \in Inner : n \in InTree \/ Dead(n) \/ Waits(n)

(* The two leaves of an add, and the path that they belong on. *)
NewKey(op, kind) == tree[NewNode(op, kind)].key
SidesAre(op, left, right) ==
    /\ tree[Info(op).newInternal].left = NewNode(op, left)
    /\ tree[Info(op).newInternal].right = NewNode(op, right)
    /\ NewKey(op, left) < NewKey(op, right)
    /\ tree[Info(op).newInternal].key = NewKey(op, right)
NewTree(op) ==
    /\ NewNode(op, "leaf") \in Leaves /\ NewNode(op, "sibling") \in Leaves
    /\ NewKey(op, "leaf") \in Keys
    /\ NewKey(op, "sibling") = tree[Info(op).l].key
    /\ SidesAre(op, "leaf", "sibling") \/ SidesAre(op, "sibling", "leaf")
    /\ NewKey(op, "leaf") < tree[Info(op).p].key <=> tree[Info(op).l].key < tree[Info(op).p].key
    /\ Info(op).p \in OnPath(NewKey(op, "leaf"))
NewTrees == \A op \in Adds : Pending(op) => NewTree(op)

(* The flag of a remove stays until the marked parent is out. *)
Linked(op) == Info(op).p \in Kids(Info(op).gp)
MarksHold ==
    \A op \in Removes : Marked(op) /\ Linked(op) => Word(Info(op).gp) = Update("DFLAG", op)

TreeInv == Ranked /\ RootIsTop /\ Ordered /\ LiveIsIn /\ NewTrees /\ MarksHold

(* A step that leaves the children of the nodes alone. *)
Still ==
    /\ \A m \in Nodes : /\ m \in Nodes'
                         /\ tree'[m].internal = tree[m].internal
                         /\ tree'[m].key = tree[m].key
    /\ \A m \in Inner : SameKids(m)

(* A swap of a child: the old one leaves with X, the new one is no wreck,  *)
(* and only the add that swaps here was waiting for this node.             *)
SwapIsClean(g, old, new, X) ==
    /\ old \in X /\ g \notin X /\ Root \notin X /\ X \in SUBSET Nodes
    /\ \A x \in X : tree[x].internal => {tree[x].left, tree[x].right} \subseteq X \cup {new}
    /\ old # new /\ new # Root /\ new # g
    /\ new \in Inner => ~Dead(new)
    /\ Word(g).state \in {"IFLAG", "DFLAG"}
    /\ \A op \in Adds : Pending(op) =>
         /\ Info(op).p \notin X
         /\ Info(op).p = g => Info(op).newInternal = new /\ Info(op).l = old

(* What a marked remove finds: its nodes are in the tree and cutting them out is clean. *)
RemoveShape(g, p, l, c) ==
    /\ g \in Inner /\ g \in InTree /\ g \in Nodes /\ p \in Kids(g)
    /\ p \in Inner /\ p \in InTree /\ p \in Nodes
    /\ l \in Leaves /\ l \in Nodes /\ c \in Nodes /\ l # c
    /\ \/ tree[p].left = l /\ tree[p].right = c
       \/ tree[p].left = c /\ tree[p].right = l
    /\ c \in Below(tree, p) /\ Below(tree, c) \subseteq Below(tree, p)
    /\ g \notin Below(tree, p)
    /\ SwapIsClean(g, p, c, {p, l})
    /\ tree[l].key \in Keys

(* The call that an operation is for, and whether its CAS of a child has   *)
(* been done; nobody but its owner starts it, and nobody else returns it.  *)
CallOf(op) ==
    IF op \in Adds THEN [op |-> "add", key |-> NewKey(op, "leaf")]
                   ELSE [op |-> "remove", key |-> tree[Info(op).l].key]
HasEffect(op) ==
    IF op \in Adds THEN ~Pending(op) ELSE Marked(op) /\ ~Linked(op)
Unfinished(op) ==
    IF op \in Adds THEN Pending(op) ELSE MayMark(op) \/ (Marked(op) /\ Linked(op))

RunsOwn(t, op) == own[t] /\ stack[t][1].op = op
OwnersHelp == \A op \in InfoIds : Unfinished(op) => RunsOwn(Owner(op), op)

CallInv(t) ==
    /\ call[t] \in Abstract!SetCalls \cup {NoCall}
    /\ answers[t] \in SUBSET BOOLEAN
    /\ pc[t] = "idle" <=> call[t] = NoCall

(* A thread has the answer TRUE for its own operation when that has had    *)
(* its effect.                                                             *)
OwnInv(t) ==
    IF own[t]
    THEN /\ pc[t] = "help"
         /\ stack[t][1].op \in InfoIds /\ Owner(stack[t][1].op) = t
         /\ call[t].op # "contains"
         /\ HasEffect(stack[t][1].op) \/ call[t] = CallOf(stack[t][1].op)
         /\ TRUE \in answers[t] <=> HasEffect(stack[t][1].op)
    ELSE ~Abstract!Applied(call[t], answers[t])

(* The nodes that a search may still come to: each internal one is on the  *)
(* way to the key, unless it is dead, and a leaf holds an answer that was  *)
(* right during the call.                                                  *)
SetWith(leafKey, key) == IF leafKey = key THEN {key} ELSE {}
SeesFrom(t, n) ==
    \A m \in Path(tree, n, call[t].key) :
        /\ m \in Inner => Dead(m) \/ m \in OnPath(call[t].key)
        /\ m \in Leaves =>
             Abstract!Observed(call[t], SetWith(tree[m].key, call[t].key)) \subseteq answers[t]
Sees(t) ==
    /\ pc[t] = "update" => SeesFrom(t, search[t].l)
    /\ pc[t] \in {"child", "result", "flag"} => SeesFrom(t, search[t].p)

Current(t) ==
    ~Abstract!Applied(call[t], answers[t]) =>
        Abstract!Observed(call[t], Contents(tree)) \subseteq answers[t]

HistoryTypes == DOMAIN own = Threads /\ DOMAIN answers = Threads /\ DOMAIN result = Threads
CallsInv(t) == CallInv(t) /\ OwnInv(t) /\ Sees(t) /\ Current(t)
SetInv ==
    /\ NBBSTInv /\ TreeInv /\ OwnersHelp /\ HistoryTypes
    /\ \A t \in Threads : CallsInv(t)

(* What is left of the ways to the keys when a child of g is swapped. *)
PathsLead(g) ==
    /\ \A key : \A m \in OnPath(key) \cap Inner : m \in OnPath(key)' \/ Dead(m)'
    /\ \A key : \A n \in Nodes :
         (g \in Path(tree, n, key) => g \in OnPath(key)) =>
             Path(tree', n, key) \subseteq Path(tree, n, key) \cup OnPath(key)'

(* The steps that change no child: what moves is one thread.               *)
OnlyMoves(t) ==
    /\ HistoryTypes'
    /\ \A u \in Threads \ {t} :
         /\ pc'[u] = pc[u] /\ search'[u] = search[u] /\ stack'[u] = stack[u]
         /\ own'[u] = own[u] /\ call'[u] = call[u] /\ answers'[u] = answers[u]
Calm == SetInv /\ Keeps /\ Still /\ TreeInv' /\ InfoIds' = InfoIds

(* The steps, one by one: the invariant, and the step of the set.          *)
Refines == [Abstract!SetNext]_(Abstract!setVars)

(* The CAS of a child: it is here that the set changes, for the owner of   *)
(* the operation, whichever thread does it.                                *)
TakesEffect(op, g) ==
    /\ \A n \in Inner : Dead(n) => Dead(n)'
    /\ PathsLead(g)
    /\ \A o \in InfoIds \ {op} : /\ HasEffect(o)' <=> HasEffect(o)
                                 /\ Unfinished(o)' => Unfinished(o)
                                 /\ HasEffect(o) \/ CallOf(o)' = CallOf(o)
    /\ HasEffect(op)' /\ ~HasEffect(op) /\ ~Unfinished(op)' /\ Unfinished(op)
OnlyAnswers(op) ==
    /\ answers' = Abstract!AnswersAfter(Owner(op), Contents(tree'))
    /\ UNCHANGED <<pc, search, own, call, result>>
    /\ \A u \in Threads : stack'[u][1].op = stack[u][1].op

(* What the threads give to the hazard manager: nothing is given back      *)
(* twice, however many threads help an operation, and what a thread has    *)
(* given back is out of the tree when it leaves the helping functions.     *)
(*                                                                         *)
(* What is out for good.  An Info: no word names it but marks.  A leaf: it *)
(* is below removed nodes only, or below the parent that was marked for    *)
(* its removal.  An internal node: it was removed.                         *)
InfoOut(x) == \A n \in Inner : Word(n).info = x => Word(n).state = "MARK"
LeafOut(x) ==
    \A n \in Inner : x \in Kids(n) =>
        Dead(n) \/ (Word(n).state = "MARK" /\ Info(Word(n).info).l = x)
Out(x) ==
    \/ x \in InfoIds /\ InfoOut(x)
    \/ x \in Leaves /\ LeafOut(x)
    \/ x \in Inner /\ Dead(x)

Given(t) == Range(released[t])

(* The node that an operation flags; a word that is clean again names the  *)
(* operation that has flagged the node, and not some other one.            *)
Place(op) == IF op \in Adds THEN Info(op).p ELSE Info(op).gp
CleanLeads ==
    \A n \in Inner : \A x \in InfoIds : Word(n) = Update("CLEAN", x) => n = Place(x)

(* The Info that an adding thread has replaced and will give back when it  *)
(* has taken its flag away: nobody else does that.                         *)
Owed(t) ==
    {i \in {search[t].pupdate.info} \ {NoInfo} : own[t] /\ stack[t][1].op \in Adds}
OwedInv(t) ==
    \A i \in Owed(t) :
        /\ i \in InfoIds /\ Out(i)
        /\ \A u \in Threads : i \notin Given(u) /\ (u # t => i \notin Owed(u))

(* A leaf is given back when its parent is marked, by a thread that goes   *)
(* on to unlink the parent.                                                *)
Awaits(t, op) ==
    \E i \in DOMAIN stack[t] :
        stack[t][i].op = op /\ stack[t][i].at \in {"markedOther", "markedChild"}
Unlinks(t) ==
    \A op \in Removes :
        Marked(op) /\ Linked(op) /\ Info(op).l \in Given(t) => Awaits(t, op)

ReleaseInv ==
    /\ released \in [Threads -> Seq(Nodes \cup InfoIds)]
    /\ ReleasedOnce
    /\ CleanLeads
    /\ \A t \in Threads : \A x \in Given(t) : Out(x)
    /\ \A t \in Threads : OwedInv(t)
    /\ \A t \in Threads : Unlinks(t)
    /\ \A t \in Threads : pc[t] # "help" => stack[t] = <<>>

(* What every step keeps, whatever it does to the tree. *)
Lasting ==
    /\ \A n \in Inner : Dead(n) => Dead(n)'
    /\ \A op \in InfoIds : HasEffect(op) => HasEffect(op)'
    /\ \A n \in Inner' : n \in Inner \/ (Word(n)' = NullUpdate /\ Kids(n)' \cap Nodes = {})
    /\ \A n \in Inner : \A c \in Kids(n)' : c \in Kids(n) \/ c \notin Leaves \/ ~LeafOut(c)
    /\ \A op \in Removes' : op \in InfoIds \/ ~Marked(op)'

(* A step in which thread t gives back `things', in terms of its locals.   *)
OthersSame(t) ==
    \A u \in Threads \ {t} :
        /\ pc'[u] = pc[u] /\ search'[u] = search[u]
        /\ stack'[u] = stack[u] /\ own'[u] = own[u]
GivesOut(t, things) ==
    /\ Release(t, things)
    /\ things \in Seq(Nodes \cup InfoIds)
    /\ \A j, k \in DOMAIN things : things[j] = things[k] => j = k
    /\ \A x \in Range(things) : Out(x)' /\ x \notin Owed(t)' /\ (~Out(x) \/ x \in Owed(t))
OwesNew(t) == \A i \in Owed(t)' : i \in Owed(t) \/ (i \in InfoIds /\ ~Out(i) /\ Out(i)')
GoesOnFor(t, things) ==
    /\ \A op \in Removes : Awaits(t, op) => Awaits(t, op)' \/ ~Linked(op)'
    /\ \A op \in Removes :
           Info(op).l \in Range(things) => ~(Marked(op)' /\ Linked(op)') \/ Awaits(t, op)'
    /\ pc'[t] # "help" => stack'[t] = <<>>

(* The types of the variables that the invariants above leave open. *)
VariableTypes ==
    /\ pc \in [Threads -> Labels]
    /\ own \in [Threads -> BOOLEAN]
    /\ callsLeft \in [Threads -> Nat]
    /\ \A t \in Threads : callsLeft[t] <= MaxCalls[t]
    /\ result \in [Threads -> Abstract!Results]
    /\ seen = [t \in Threads |-> seen[t]]
    /\ call = [t \in Threads |-> call[t]]
    /\ answers = [t \in Threads |-> answers[t]]

(* How a step of t changes them. *)
ControlMoves(t) ==
    /\ pc' = pc \/ \E label \in Labels : pc' = [pc EXCEPT ![t] = label]
    /\ own' = own \/ \E b \in BOOLEAN : own' = [own EXCEPT ![t] = b]
    /\ seen' = [u \in Threads |-> seen'[u]]
    /\ \/ callsLeft' = callsLeft
       \/ callsLeft[t] > 0 /\ callsLeft' = [callsLeft EXCEPT ![t] = @ - 1]
HistoryMoves(t) ==
    /\ call' = [u \in Threads |-> call'[u]]
    /\ answers' = [u \in Threads |-> answers'[u]]
    /\ result' = result \/ \E r \in Abstract!Results : result' = [result EXCEPT ![t] = r]
=============================================================================
