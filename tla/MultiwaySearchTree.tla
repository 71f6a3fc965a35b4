------------------------- MODULE MultiwaySearchTree -------------------------
(***************************************************************************)
(* The lock-free multiway search tree of include/lfmst/                    *)
(* MultiwaySearchTree.hpp.  Every level is a linked list of nodes; the     *)
(* contents of a node (items, children, link) are immutable, and replaced  *)
(* by a CAS.  A key is in the set from the CAS that puts it into a leaf to *)
(* the CAS that takes it out.  An add that draws a height then splits the  *)
(* nodes with its key level by level; traversals go right over links, past *)
(* empty nodes, and clean the children and links that they meet.           *)
(*                                                                         *)
(* A step is one read or one CAS of the contents of a node or of the root. *)
(* Nodes and contents are always new ones (see HazardManager for           *)
(* recycling); what is given back is recorded.                             *)
(***************************************************************************)
EXTENDS Integers, Sequences, SequencesExt, FiniteSets, FiniteSetsExt, Bags

CONSTANTS
    Threads,
    Keys,           \* keys of the calls
    INF,            \* POSITIVE_INFINITY
    EMPTY,          \* a left barrier of flag EMPTY: below all keys
    SetupThread,    \* makes the calls of a setup before the others start
    Setups,         \* sequences of calls, each with the height it draws
    Menu,           \* Menu[t]: the calls that t may make
    Heights,        \* Heights[t]: what randomLevel may give t
    MaxCalls,       \* bound: MaxCalls[t] calls of t, after the setup
    Live            \* threads that are never stopped for ever

ASSUME MultiwayAssumption ==
    /\ SetupThread \in Threads
    /\ Keys \subseteq Int /\ EMPTY \in Int /\ INF \in Int
    /\ EMPTY < INF /\ \A k \in Keys : EMPTY < k /\ k < INF
    /\ Setups \subseteq Seq([op : {"add"}, key : Keys, height : Nat]
                          \cup [op : {"remove"}, key : Keys, height : {0}])
    /\ Heights \in [Threads -> SUBSET Nat]
    /\ MaxCalls \in [Threads -> Nat]
    /\ Live \subseteq Threads

VARIABLES
    contents,   \* node -> its contents
    root,       \* the head node: the leftmost node of the top level, its height
    released,   \* bag of what was given back (history)
    pc,         \* pc[t]: what t is about to do
    my,         \* my[t]: the locals of t
    todo,       \* the calls that the setup has still to make
    callsLeft,  \* callsLeft[t]
    call,       \* call[t]: the call in progress
    answers,    \* answers[t]: the results it may return (history)
    result      \* result[t]: {what the last call returned}

shared  == <<contents, root, released>>
history == <<call, answers, result>>
bounds  == <<todo, callsLeft>>
vars    == <<shared, pc, my, history, bounds>>

-----------------------------------------------------------------------------
(* A node is named by its level and its rank.  The contents of a node have *)
(* a stamp, for a CAS compares pointers; contents can share their keys and *)
(* children with their predecessors, so these carry the stamp of the       *)
(* contents that they were made for.                                       *)
NoNode == <<>>
NoChildren == <<NoNode>>        \* the null pointer of a leaf
Contents(items, children, link) ==
    [items |-> items, children |-> children, link |-> link,
     stamp |-> 0, keysOf |-> 0, childrenOf |-> 0]
NoContents == Contents(<<>>, NoChildren, NoNode)

Adding(cts, n, c) ==
    [m \in DOMAIN cts \cup {n} |-> IF m = n THEN c ELSE cts[m]]

NewName(level) ==
    <<level, Min({i \in 1 .. Cardinality(DOMAIN contents) + 1 :
                    <<level, i>> \notin DOMAIN contents})>>

Next_(c) == [c EXCEPT !.stamp = @ + 1]
WithLink(c, link) == [Next_(c) EXCEPT !.link = link]
WithChildren(c, children) ==
    [Next_(c) EXCEPT !.children = children, !.childrenOf = c.stamp + 1]
WithItems(c, items, children) ==
    [WithChildren(c, children) EXCEPT !.items = items, !.keysOf = c.stamp + 1]

(* search: where the key is or belongs; beyond the last item the search    *)
(* goes on at the link.                                                    *)
IsLeaf(c) == c.children = NoChildren
Index(c, key) == Cardinality({i \in DOMAIN c.items : c.items[i] < key}) + 1
Beyond(c, key) == Index(c, key) > Len(c.items)
Found(c, key) == ~Beyond(c, key) /\ c.items[Index(c, key)] = key
ChildFor(c, key) == c.children[Index(c, key)]

(* The array helpers; the items and the children of a leaf differ in that  *)
(* the latter do not exist.                                                *)
(* Mutant: the child goes where the item goes. *)
FaultyAdded(c, index, key, child, childIndex) ==
    WithItems(c, InsertAt(c.items, index, key),
              IF IsLeaf(c) THEN NoChildren ELSE InsertAt(c.children, index, child))

Added(c, index, key, child, childIndex) ==
    WithItems(c, InsertAt(c.items, index, key),
              IF IsLeaf(c) THEN NoChildren ELSE InsertAt(c.children, childIndex, child))

(* Mutant: the children stay. *)
FaultyRemoved(c, index) == WithItems(c, RemoveAt(c.items, index), c.children)

Removed(c, index) ==
    WithItems(c, RemoveAt(c.items, index),
              IF IsLeaf(c) THEN NoChildren ELSE RemoveAt(c.children, index))

(* The set: what the leaves hold. *)
KeysIn(cts) ==
    Keys \cap UNION {ToSet(cts[n].items) : n \in {m \in DOMAIN cts : IsLeaf(cts[m])}}

Abstract == INSTANCE ConcurrentSet WITH set <- KeysIn(contents)
NoCall == Abstract!NoCall

-----------------------------------------------------------------------------
(* The locals of a call: where it is (node, cts, the level and the left    *)
(* barrier); the Search results of an add with a height; the contents that *)
(* a nested function works on (edit) and what it has read of the neighbor; *)
(* the node, the barrier and the caller of pushRight; the caller of        *)
(* moveForward is in then too.                                             *)
Search(node, c) == [node |-> node, cts |-> c]
NoSearch == Search(NoNode, NoContents)
NoLocals ==
    [height |-> 0, node |-> NoNode, cts |-> NoContents, level |-> 0, barrier |-> EMPTY,
     results |-> <<>>, right |-> NoNode, edit |-> NoContents, adjusted |-> <<>>,
     sibling |-> NoSearch, push |-> NoNode, pushBarrier |-> EMPTY, then |-> "none"]

Init ==
    /\ contents = [n \in {<<0, 1>>} |-> Contents(<<INF>>, NoChildren, NoNode)]
    /\ root = [node |-> <<0, 1>>, height |-> 0]
    /\ released = EmptyBag
    /\ pc = [t \in Threads |-> "idle"]
    /\ my = [t \in Threads |-> NoLocals]
    /\ todo \in Setups
    /\ callsLeft = MaxCalls
    /\ call = [t \in Threads |-> NoCall]
    /\ answers = [t \in Threads |-> {}]
    /\ result = [t \in Threads |-> Abstract!NoResult]

-----------------------------------------------------------------------------
GoTo(t, label) == pc' = [pc EXCEPT ![t] = label]
Become(t, locals) == my' = [my EXCEPT ![t] = locals]
Key(t) == call[t].key
Removing(t) == call[t].op = "remove"
Height(t) == my[t].height

(* Nodes below a node, over links and children. *)
Reachable(cts) ==
    LET below[S \in SUBSET DOMAIN cts] ==
            LET more == S \cup UNION {({cts[n].link} \cup ToSet(cts[n].children)) \ {NoNode} : n \in S}
            IN  IF more = S THEN S ELSE below[more]
    IN  below[{root.node}]

(* When the last call returns nobody remembers contents or a node that is  *)
(* out of the tree, so the model forgets them too.                         *)
Forget(cts) ==
    [n \in Reachable(cts) |->
        [cts[n] EXCEPT !.stamp = 0, !.keysOf = 0, !.childrenOf = 0]]

Return(t, r) ==
    /\ IF \A u \in Threads \ {t} : pc[u] = "idle"
       THEN contents' = Forget(contents) /\ released' = EmptyBag /\ UNCHANGED root
       ELSE UNCHANGED shared
    /\ GoTo(t, "idle")
    /\ Become(t, NoLocals)
    /\ call' = [call EXCEPT ![t] = NoCall]
    /\ answers' = [answers EXCEPT ![t] = {}]
    /\ result' = [result EXCEPT ![t] = {r}]
    /\ UNCHANGED bounds

(* casContents of t, and what the winner gives to the hazard managers: the *)
(* old contents, and of their parts the named ones.                        *)
Pointer(n, c, part) ==
    <<n, part, CASE part = "keys" -> c.keysOf
                 [] part = "children" -> c.childrenOf
                 [] part = "contents" -> c.stamp>>

CanReplace(n, c) == contents[n] = c

ReplaceIn(cts, t, n, c, new, parts) ==
    LET changed == [cts EXCEPT ![n] = new]
        freed == {"contents"} \cup IF IsLeaf(c) THEN parts \ {"children"} ELSE parts
    IN  /\ contents' = changed
        /\ released' = released (+) SetToBag({Pointer(n, c, part) : part \in freed})
        /\ UNCHANGED root
        /\ answers' = IF KeysIn(changed) = KeysIn(contents) THEN answers
                      ELSE Abstract!AnswersAfter(t, KeysIn(changed))
        /\ UNCHANGED <<call, result, bounds>>

Replace(t, n, c, new, parts) == ReplaceIn(contents, t, n, c, new, parts)

(* A call starts: in the setup, then from the menu of the thread. *)
Start(t, c, height) ==
    /\ pc[t] = "idle"
    /\ IF todo # <<>>
       THEN /\ t = SetupThread
            /\ c = [op |-> Head(todo).op, key |-> Head(todo).key]
            /\ height = Head(todo).height
            /\ todo' = Tail(todo)
            /\ UNCHANGED callsLeft
       ELSE /\ pc[SetupThread] = "idle" \/ callsLeft[SetupThread] < MaxCalls[SetupThread]
            /\ c \in Menu[t]
            /\ height \in IF c.op = "add" THEN Heights[t] ELSE {0}
            /\ callsLeft[t] > 0
            /\ callsLeft' = [callsLeft EXCEPT ![t] = @ - 1]
            /\ UNCHANGED todo
    /\ GoTo(t, "root")
    /\ Become(t, [NoLocals EXCEPT !.height = height,
                                  !.results = [i \in 0 .. height |-> NoSearch]])
    /\ call' = [call EXCEPT ![t] = c]
    /\ answers' = [answers EXCEPT ![t] = Abstract!Observed(c, KeysIn(contents))]
    /\ result' = [result EXCEPT ![t] = Abstract!NoResult]
    /\ UNCHANGED shared

-----------------------------------------------------------------------------
(* Where a step leads. *)
Outer(t) ==         \* what survives from one node of a traversal to the next
    [NoLocals EXCEPT !.height = Height(t), !.level = my[t].level,
                     !.results = my[t].results]

GoOn(t, label, node, barrier) ==
    GoTo(t, label) /\ Become(t, [Outer(t) EXCEPT !.node = node, !.barrier = barrier])

(* traverseLeaf goes down to the child, as it was when the node was read.  *)
Down(t) == GoOn(t, "visit", ChildFor(my[t].cts, Key(t)), EMPTY)

PushRightFrom(t, locals, node, barrier, then) ==
    /\ GoTo(t, "push")
    /\ Become(t, [locals EXCEPT !.push = node, !.pushBarrier = barrier, !.then = then])

(* goodSamaritanCleanNeighbor returns c: traverseNonLeaf stores it if the  *)
(* level is wanted, and goes down from the contents that it had itself.    *)
SamaritanReturns(t, from, c) ==
    LET m == my[t]
    IN  /\ GoTo(t, "walk")
        /\ Become(t, [Outer(t) EXCEPT
              !.node = ChildFor(from, Key(t)),
              !.level = m.level - 1,
              !.results = IF m.level <= m.height
                          THEN [@ EXCEPT ![m.level] = Search(m.node, c)] ELSE @])

-----------------------------------------------------------------------------
(* The root. *)
ReadRoot(t) ==
    /\ pc[t] = "root"
    /\ IF Height(t) = 0
       THEN GoOn(t, IF call[t].op = "contains" THEN "scan" ELSE "visit", root.node, EMPTY)
       ELSE IF root.height < Height(t)
       THEN GoTo(t, "growRead") /\ UNCHANGED my
       ELSE /\ GoTo(t, "walk")
            /\ Become(t, [my[t] EXCEPT !.node = root.node, !.level = root.height])
    /\ UNCHANGED <<shared, history, bounds>>

(* increaseRootHeight *)
GrowRead(t) ==
    /\ pc[t] = "growRead"
    /\ GoTo(t, IF root.height < Height(t) THEN "grow" ELSE "walk")
    /\ Become(t, [my[t] EXCEPT !.node = root.node, !.level = root.height])
    /\ UNCHANGED <<shared, history, bounds>>

Grow(t) ==
    LET m == my[t]
        new == NewName(m.level + 1)
    IN  /\ pc[t] = "grow"
        /\ IF root = [node |-> m.node, height |-> m.level]
           THEN /\ contents' = Adding(contents, new, Contents(<<INF>>, <<m.node>>, NoNode))
                /\ root' = [node |-> new, height |-> m.level + 1]
                /\ released' = released (+) SetToBag({<<m.node, "head", m.level>>})
           ELSE UNCHANGED shared
        /\ GoTo(t, "growRead")
        /\ UNCHANGED <<my, history, bounds>>

-----------------------------------------------------------------------------
(* contains cleans nothing. *)
Scan(t) ==
    LET c == contents[my[t].node]
    IN  /\ pc[t] = "scan"
        /\ IF Beyond(c, Key(t))
           THEN GoOn(t, "scan", c.link, EMPTY) /\ UNCHANGED <<shared, history, bounds>>
           ELSE IF ~IsLeaf(c)
           THEN GoOn(t, "scan", ChildFor(c, Key(t)), EMPTY) /\ UNCHANGED <<shared, history, bounds>>
           ELSE Return(t, Found(c, Key(t)))

(* pushRight: past empty nodes, and past nodes that end before the barrier.*)
PushRight(t) ==
    LET m == my[t]
        c == contents[m.push]
    IN  /\ pc[t] = "push"
        /\ IF c.items = <<>> \/ Last(c.items) <= m.pushBarrier
           THEN Become(t, [m EXCEPT !.push = c.link]) /\ UNCHANGED pc
           ELSE GoTo(t, m.then) /\ UNCHANGED my
        /\ UNCHANGED <<shared, history, bounds>>

-----------------------------------------------------------------------------
(* traverseLeaf.  A remove cleans the inner nodes that it comes through.   *)
VisitBeyond(t) ==
    LET c == contents[my[t].node]
    IN  /\ pc[t] = "visit"
        /\ Beyond(c, Key(t))
        /\ PushRightFrom(t, [my[t] EXCEPT !.edit = c,
                                 !.barrier = IF c.items = <<>> THEN @ ELSE Last(c.items)],
                         c.link, EMPTY, "link")
        /\ UNCHANGED <<shared, history, bounds>>

(* cleanNode: the children that the number of items and the index of the   *)
(* key select are pushed right, up to what the item before them says.      *)
Adjusting(c, key) ==
    LET n == Len(c.items)
        i == Index(c, key)
    IN  CASE n <= 2 -> [j \in 1 .. n |-> j]
          [] n > 2 /\ i \in {1, n} -> <<i>>
          [] OTHER -> <<i, i + 1>>

BarrierOf(c, i, barrier) ==
    IF i > 1 THEN c.items[i - 1] ELSE IF c.items[1] <= barrier THEN EMPTY ELSE barrier

Adjust(t, locals) ==
    LET c == locals.edit
        i == Adjusting(c, Key(t))[Len(locals.adjusted) + 1]
    IN  PushRightFrom(t, locals, c.children[i], BarrierOf(c, i, locals.barrier), "adjust")

CleanNode(t, locals) ==
    LET c == locals.edit
    IN  IF Len(c.items) <= 2 /\ c.link # NoNode
        THEN PushRightFrom(t, locals, c.link, EMPTY, "sibling")
        ELSE Adjust(t, locals)

VisitInner(t) ==
    LET c == contents[my[t].node]
    IN  /\ pc[t] = "visit"
        /\ ~Beyond(c, Key(t))
        /\ ~IsLeaf(c)
        /\ IF Removing(t)
           THEN CleanNode(t, [my[t] EXCEPT !.cts = c, !.edit = c])
           ELSE GoOn(t, "visit", ChildFor(c, Key(t)), EMPTY)
        /\ UNCHANGED <<shared, history, bounds>>

VisitLeaf(t) ==
    LET c == contents[my[t].node]
    IN  /\ pc[t] = "visit"
        /\ ~Beyond(c, Key(t))
        /\ IsLeaf(c)
        /\ GoTo(t, IF Removing(t) THEN "remove" ELSE "insert")
        /\ Become(t, [Outer(t) EXCEPT !.node = my[t].node, !.cts = c])
        /\ UNCHANGED <<shared, history, bounds>>

-----------------------------------------------------------------------------
(* cleanLink, for traverseLeaf and for goodSamaritanCleanNeighbor. *)
LinkCleaned(t, c) ==
    IF Height(t) = 0 THEN GoOn(t, "visit", c.link, my[t].barrier)
                     ELSE SamaritanReturns(t, my[t].cts, c)

KeepLink(t) ==
    /\ pc[t] = "link"
    /\ my[t].push = my[t].edit.link
    /\ LinkCleaned(t, my[t].edit)
    /\ UNCHANGED <<shared, history, bounds>>

CleanLink(t) ==
    LET m == my[t]
        new == WithLink(m.edit, m.push)
    IN  /\ pc[t] = "link"
        /\ m.push # m.edit.link
        /\ IF CanReplace(m.node, m.edit)
           THEN Replace(t, m.node, m.edit, new, {}) /\ LinkCleaned(t, new)
           ELSE GoTo(t, "linkRead") /\ UNCHANGED <<my, shared, history, bounds>>

LinkRead(t) ==
    LET c == contents[my[t].node]
    IN  /\ pc[t] = "linkRead"
        /\ PushRightFrom(t, [my[t] EXCEPT !.edit = c], c.link, EMPTY, "link")
        /\ UNCHANGED <<shared, history, bounds>>
-----------------------------------------------------------------------------
(* attemptSlideKey, for cleanNode, and the rest of                         *)
(* goodSamaritanCleanNeighbor: when the first child of the sibling is the  *)
(* last child of the node, the last item goes over to the sibling.         *)
LastItem(t) == Last(my[t].edit.items)

SlideReturns(t, c) ==
    IF Removing(t) THEN Down(t) ELSE SamaritanReturns(t, my[t].cts, c)

NoSlide(t) ==
    IF Removing(t) THEN Adjust(t, [my[t] EXCEPT !.sibling = NoSearch])
                   ELSE SamaritanReturns(t, my[t].cts, my[t].cts)

ReadSibling(t) ==
    LET s == my[t].push
        c == contents[s]
    IN  /\ pc[t] = "sibling"
        /\ IF c.children # <<>>
           THEN PushRightFrom(t, [my[t] EXCEPT !.sibling = Search(s, c)], c.children[1],
                              IF c.items[1] > LastItem(t) THEN LastItem(t) ELSE EMPTY, "nephew")
           ELSE IF Removing(t) THEN NoSlide(t) ELSE GoTo(t, "linkRead") /\ UNCHANGED my
        /\ UNCHANGED <<shared, history, bounds>>

(* A remove compares the nephew that pushRight has found, the samaritan    *)
(* the one that the sibling leads to.                                      *)
Nephew(t) ==
    LET m == my[t]
        nephew == m.sibling.cts.children[1]
        child == Last(m.edit.children)
    IN  /\ pc[t] = "nephew"
        /\ IF (IF Removing(t) THEN m.push ELSE nephew) = child
           THEN GoTo(t, "slide") /\ UNCHANGED my
           ELSE IF ~Removing(t) /\ m.push # nephew
           THEN GoTo(t, "shiftNephew") /\ UNCHANGED my
           ELSE NoSlide(t)
        /\ UNCHANGED <<shared, history, bounds>>

ShiftNephew(t) ==
    LET m == my[t]
        s == m.sibling
    IN  /\ pc[t] = "shiftNephew"
        /\ IF CanReplace(s.node, s.cts)
           THEN Replace(t, s.node, s.cts,
                        WithChildren(s.cts, ReplaceAt(s.cts.children, 1, m.push)), {"children"})
           ELSE UNCHANGED <<shared, history, bounds>>
        /\ SamaritanReturns(t, m.cts, m.cts)

(* slideToNeighbor *)
SlideNeedless(t) ==
    LET c == my[t].sibling.cts
    IN  /\ pc[t] = "slide"
        /\ Index(c, LastItem(t)) > 1 \/ Found(c, LastItem(t))
        /\ IF Found(c, LastItem(t))
           THEN GoTo(t, "unslide") /\ UNCHANGED my
           ELSE SlideReturns(t, my[t].cts)
        /\ UNCHANGED <<shared, history, bounds>>

Slide(t) ==
    LET m == my[t]
        s == m.sibling
    IN  /\ pc[t] = "slide"
        /\ Index(s.cts, LastItem(t)) = 1
        /\ ~Found(s.cts, LastItem(t))
        /\ IF CanReplace(s.node, s.cts)
           THEN /\ Replace(t, s.node, s.cts,
                           Added(s.cts, 1, LastItem(t), Last(m.edit.children), 1),
                           {"keys", "children"})
                /\ GoTo(t, "unslide")
                /\ UNCHANGED my
           ELSE SlideReturns(t, m.cts) /\ UNCHANGED <<shared, history, bounds>>

(* deleteSlidedKey *)
Unslide(t) ==
    LET m == my[t]
        new == Removed(m.edit, Len(m.edit.items))
    IN  /\ pc[t] = "unslide"
        /\ IF CanReplace(m.node, m.edit)
           THEN Replace(t, m.node, m.edit, new, {"keys", "children"}) /\ SlideReturns(t, new)
           ELSE SlideReturns(t, m.edit) /\ UNCHANGED <<shared, history, bounds>>

-----------------------------------------------------------------------------
(* cleanNode1, cleanNode2 and cleanNodeN: what pushRight has found for the *)
(* children in question goes into the node with one CAS; between two items *)
(* that lead to the same child one is dropped.                             *)
Dropping(c, key, adjusted) ==
    Len(c.items) > 2 /\ Len(adjusted) = 2 /\ adjusted[1] = adjusted[2]

Adjusted(c, key, adjusted) ==
    LET i == Index(c, key)
        ch == IF Len(c.items) <= 2 THEN adjusted ELSE ReplaceAt(c.children, i, adjusted[1])
    IN  IF Dropping(c, key, adjusted)
        THEN WithItems(c, RemoveAt(c.items, i), RemoveAt(ch, i + 1))
        ELSE WithChildren(c, ch)

AdjustNext(t) ==
    LET m == my[t]
        l == [m EXCEPT !.adjusted = Append(@, m.push)]
    IN  /\ pc[t] = "adjust"
        /\ IF Len(l.adjusted) < Len(Adjusting(m.edit, Key(t))) THEN Adjust(t, l)
           ELSE IF Adjusted(m.edit, Key(t), l.adjusted).children = m.edit.children
           THEN Down(t)
           ELSE GoTo(t, "shift") /\ Become(t, l)
        /\ UNCHANGED <<shared, history, bounds>>

(* Mutant: the keys are given back although the new contents share them. *)
FaultyShift(t) ==
    LET m == my[t]
    IN  /\ pc[t] = "shift"
        /\ IF CanReplace(m.node, m.edit)
           THEN /\ Replace(t, m.node, m.edit, Adjusted(m.edit, Key(t), m.adjusted),
                           {"keys", "children"})
                /\ Down(t)
           ELSE GoTo(t, "cleanAgain") /\ UNCHANGED <<my, shared, history, bounds>>

Shift(t) ==
    LET m == my[t]
    IN  /\ pc[t] = "shift"
        /\ IF CanReplace(m.node, m.edit)
           THEN /\ Replace(t, m.node, m.edit, Adjusted(m.edit, Key(t), m.adjusted),
                           IF Dropping(m.edit, Key(t), m.adjusted)
                           THEN {"keys", "children"} ELSE {"children"})
                /\ Down(t)
           ELSE GoTo(t, "cleanAgain") /\ UNCHANGED <<my, shared, history, bounds>>

CleanAgain(t) ==
    LET c == contents[my[t].node]
    IN  /\ pc[t] = "cleanAgain"
        /\ IF Beyond(c, Key(t)) THEN Down(t)
           ELSE CleanNode(t, [my[t] EXCEPT !.edit = c, !.adjusted = <<>>, !.sibling = NoSearch])
        /\ UNCHANGED <<shared, history, bounds>>

-----------------------------------------------------------------------------
(* traverseNonLeaf *)
Walk(t) ==
    LET m == my[t]
        c == contents[m.node]
    IN  /\ pc[t] = "walk"
        /\ IF Beyond(c, Key(t)) THEN Become(t, [m EXCEPT !.node = c.link]) /\ UNCHANGED pc
           ELSE IF m.level = 0 THEN GoTo(t, "insert") /\ Become(t, [m EXCEPT !.cts = c])
           ELSE IF c.link = NoNode THEN SamaritanReturns(t, c, c)
           ELSE PushRightFrom(t, [m EXCEPT !.cts = c, !.edit = c], c.link, EMPTY, "sibling")
        /\ UNCHANGED <<shared, history, bounds>>

-----------------------------------------------------------------------------
(* The updates of a leaf: insertLeafLevel, beginInsertOneLevel and         *)
(* removeFromNode.  After a failed CAS moveForward searches again.         *)
Forward(t, then) ==
    /\ GoTo(t, "forward")
    /\ Become(t, [my[t] EXCEPT !.cts = NoContents, !.then = then])
    /\ UNCHANGED <<shared, history, bounds>>

(* Mutant: the node is not read again, and the CAS fails once more. *)
FaultyMoveForward(t) ==
    /\ pc[t] = "forward"
    /\ GoTo(t, my[t].then)
    /\ Become(t, [my[t] EXCEPT !.then = "none"])
    /\ UNCHANGED <<shared, history, bounds>>

(* Mutant: the key is taken to be in the node still. *)
ShortMoveForward(t) ==
    /\ pc[t] = "forward"
    /\ GoTo(t, my[t].then)
    /\ Become(t, [my[t] EXCEPT !.cts = contents[my[t].node], !.then = "none"])
    /\ UNCHANGED <<shared, history, bounds>>

MoveForward(t) ==
    LET m == my[t]
        c == contents[m.node]
    IN  /\ pc[t] = "forward"
        /\ IF Beyond(c, Key(t)) THEN Become(t, [m EXCEPT !.node = c.link]) /\ UNCHANGED pc
           ELSE GoTo(t, m.then) /\ Become(t, [m EXCEPT !.cts = c, !.then = "none"])
        /\ UNCHANGED <<shared, history, bounds>>

AddFindsKey(t) ==
    /\ pc[t] = "insert"
    /\ Found(my[t].cts, Key(t))
    /\ Return(t, FALSE)

Insert(t) ==
    LET m == my[t]
        new == Added(m.cts, Index(m.cts, Key(t)), Key(t), NoNode, 1)
    IN  /\ pc[t] = "insert"
        /\ ~Found(m.cts, Key(t))
        /\ CanReplace(m.node, m.cts)
        /\ Replace(t, m.node, m.cts, new, {"keys", "children"})
        /\ GoTo(t, IF m.height = 0 THEN "done" ELSE "split")
        /\ Become(t, [m EXCEPT !.cts = new])

InsertFails(t) ==
    /\ pc[t] = "insert"
    /\ ~Found(my[t].cts, Key(t))
    /\ ~CanReplace(my[t].node, my[t].cts)
    /\ Forward(t, "insert")

RemoveMissesKey(t) ==
    /\ pc[t] = "remove"
    /\ ~Found(my[t].cts, Key(t))
    /\ Return(t, FALSE)

RemoveItem(t) ==
    LET m == my[t]
    IN  /\ pc[t] = "remove"
        /\ Found(m.cts, Key(t))
        /\ CanReplace(m.node, m.cts)
        /\ Replace(t, m.node, m.cts, Removed(m.cts, Index(m.cts, Key(t))), {"keys", "children"})
        /\ GoTo(t, "done")
        /\ Become(t, NoLocals)

RemoveFails(t) ==
    /\ pc[t] = "remove"
    /\ Found(my[t].cts, Key(t))
    /\ ~CanReplace(my[t].node, my[t].cts)
    /\ Forward(t, "remove")

Done(t) == pc[t] = "done" /\ Return(t, TRUE)

-----------------------------------------------------------------------------
(* The index: at each level below the height of the key the node is split  *)
(* after the key (splitOneLevel), and the level above gets the key and the *)
(* new node (insertOneLevel).                                              *)
LevelDone(t, results) ==
    LET m == my[t]
        s == results[m.level + 1]
    IN  IF m.level + 1 = m.height
        THEN GoTo(t, "done") /\ Become(t, NoLocals)
        ELSE /\ GoTo(t, "split")
             /\ Become(t, [Outer(t) EXCEPT !.level = m.level + 1, !.results = results,
                                           !.node = s.node, !.cts = s.cts])

(* Mutant: whether the key is still in the node does not matter. *)
FaultyUnsplittable(c, key) == Len(c.items) < 2 \/ Index(c, key) = Len(c.items)
Unsplittable(c, key) == ~Found(c, key) \/ Len(c.items) < 2 \/ Index(c, key) = Len(c.items)

SplitNothing(t) ==
    /\ pc[t] = "split"
    /\ Unsplittable(my[t].cts, Key(t))
    /\ LevelDone(t, my[t].results)
    /\ UNCHANGED <<shared, history, bounds>>

LeftPart(c, i, right) ==
    [WithItems(c, SubSeq(c.items, 1, i),
               IF IsLeaf(c) THEN NoChildren ELSE SubSeq(c.children, 1, i))
     EXCEPT !.link = right]

(* Mutant: the item that the node is split at is in both parts. *)
FaultyRightPart(c, i) ==
    Contents(SubSeq(c.items, i, Len(c.items)),
             IF IsLeaf(c) THEN NoChildren ELSE SubSeq(c.children, i, Len(c.children)),
             c.link)

RightPart(c, i) ==
    Contents(SubSeq(c.items, i + 1, Len(c.items)),
             IF IsLeaf(c) THEN NoChildren ELSE SubSeq(c.children, i + 1, Len(c.children)),
             c.link)

SplitOneLevel(t) ==
    LET m == my[t]
        i == Index(m.cts, Key(t))
        right == NewName(m.level)
        up == m.results[m.level + 1]
    IN  /\ pc[t] = "split"
        /\ ~Unsplittable(m.cts, Key(t))
        /\ CanReplace(m.node, m.cts)
        /\ ReplaceIn(Adding(contents, right, RightPart(m.cts, i)),
                     t, m.node, m.cts, LeftPart(m.cts, i, right), {"keys", "children"})
        /\ GoTo(t, "raise")
        /\ Become(t, [m EXCEPT !.node = up.node, !.cts = up.cts, !.right = right])

SplitFails(t) ==
    /\ pc[t] = "split"
    /\ ~Unsplittable(my[t].cts, Key(t))
    /\ ~CanReplace(my[t].node, my[t].cts)
    /\ Forward(t, "split")

RaiseNothing(t) ==
    /\ pc[t] = "raise"
    /\ Found(my[t].cts, Key(t))
    /\ LevelDone(t, my[t].results)
    /\ UNCHANGED <<shared, history, bounds>>

InsertOneLevel(t) ==
    LET m == my[t]
        i == Index(m.cts, Key(t))
        new == Added(m.cts, i, Key(t), m.right, i + 1)
    IN  /\ pc[t] = "raise"
        /\ ~Found(m.cts, Key(t))
        /\ ~Beyond(m.cts, Key(t))
        /\ CanReplace(m.node, m.cts)
        /\ Replace(t, m.node, m.cts, new, {"keys", "children"})
        /\ LevelDone(t, [m.results EXCEPT ![m.level + 1] = Search(m.node, new)])

RaiseFails(t) ==
    /\ pc[t] = "raise"
    /\ ~Found(my[t].cts, Key(t))
    /\ Beyond(my[t].cts, Key(t)) \/ ~CanReplace(my[t].node, my[t].cts)
    /\ Forward(t, "raise")

-----------------------------------------------------------------------------
Traversing(t) ==
    \/ ReadRoot(t) \/ GrowRead(t) \/ Grow(t) \/ Scan(t) \/ PushRight(t)
    \/ VisitBeyond(t) \/ VisitInner(t) \/ VisitLeaf(t) \/ Walk(t)

Cleaning(t) ==
    \/ KeepLink(t) \/ CleanLink(t) \/ LinkRead(t)
    \/ ReadSibling(t) \/ Nephew(t) \/ ShiftNephew(t)
    \/ SlideNeedless(t) \/ Slide(t) \/ Unslide(t)
    \/ AdjustNext(t) \/ Shift(t) \/ CleanAgain(t)

Updating(t) ==
    \/ MoveForward(t) \/ AddFindsKey(t) \/ Insert(t) \/ InsertFails(t)
    \/ RemoveMissesKey(t) \/ RemoveItem(t) \/ RemoveFails(t) \/ Done(t)

Indexing(t) ==
    \/ SplitNothing(t) \/ SplitOneLevel(t) \/ SplitFails(t)
    \/ RaiseNothing(t) \/ InsertOneLevel(t) \/ RaiseFails(t)

Step(t) == Traversing(t) \/ Cleaning(t) \/ Updating(t) \/ Indexing(t)

AllHeights == UNION {Heights[t] : t \in Threads} \cup
              {0} \cup {c.height : c \in UNION {ToSet(s) : s \in Setups}}

Next == \E t \in Threads :
            \/ \E c \in Abstract!SetCalls, h \in AllHeights : Start(t, c, h)
            \/ Step(t)

Spec == Init /\ [][Next]_vars

(* Nobody waits for anybody; a thread outside Live may stop for ever.      *)
FairSpec == Spec /\ \A t \in Live : WF_vars(Step(t))

-----------------------------------------------------------------------------
Labels == {"idle", "root", "growRead", "grow", "scan", "push", "visit", "link", "linkRead",
           "sibling", "nephew", "shiftNephew", "slide", "unslide", "adjust", "shift",
           "cleanAgain", "walk", "forward", "insert", "remove", "done", "split", "raise"}
Nodes == DOMAIN contents

TypeOK ==
    /\ root.node \in Nodes /\ root.height = root.node[1]
    /\ \A n \in Nodes :
        LET c == contents[n]
        IN  /\ ToSet(c.items) \subseteq Keys \cup {INF}
            /\ IsLeaf(c) = (n[1] = 0)
            /\ ~IsLeaf(c) => /\ Len(c.children) = Len(c.items)
                             /\ \A d \in ToSet(c.children) : d \in Nodes /\ d[1] = n[1] - 1
            /\ c.link # NoNode => c.link \in Nodes /\ c.link[1] = n[1]
            /\ c.keysOf \in 0 .. c.stamp /\ c.childrenOf \in 0 .. c.stamp
    /\ pc \in [Threads -> Labels]
    /\ \A t \in Threads : {my[t].node, my[t].push, my[t].right} \subseteq Nodes \cup {NoNode}
    /\ callsLeft \in [Threads -> Nat]
    /\ Abstract!SetTypeOK

(* The calls are linearizable: a key is in the set from the CAS that puts  *)
(* it into a leaf to the CAS that takes it out, and every answer was right *)
(* at some moment of its call, whatever splits and cleaning are under way. *)
ImplementsSet == Abstract!SetSpec

(* The link of a node leads to larger items, and the last node of every    *)
(* level ends with INF.  A leaf does not share a key with its neighbor; an *)
(* inner node does while its last item slides over.                        *)
LevelsAreOrdered ==
    \A n \in Nodes :
        LET items == contents[n].items
            link == contents[n].link
        IN  /\ \A i, j \in DOMAIN items : i < j => items[i] < items[j]
            /\ link = NoNode <=> items # <<>> /\ Last(items) = INF
            /\ link # NoNode /\ items # <<>> => \A i \in DOMAIN contents[link].items :
                    IF n[1] = 0 THEN contents[link].items[i] > Last(items)
                                ELSE contents[link].items[i] >= Last(items)

(* Where the search for a key from a node ends, and where the key belongs: *)
(* in the first leaf that does not end before it.                          *)
EndOfSearch(key) ==
    LET end[n \in Nodes] ==
            LET c == contents[n]
            IN  IF Beyond(c, key) THEN end[c.link]
                ELSE IF IsLeaf(c) THEN n ELSE end[ChildFor(c, key)]
    IN  end

LeafOf(key) ==
    CHOOSE n \in Nodes :
        /\ IsLeaf(contents[n])
        /\ ~Beyond(contents[n], key)
        /\ \A m \in Nodes \ {n} :
            IsLeaf(contents[m]) /\ ~Beyond(contents[m], key)
                => Last(contents[n].items) < Last(contents[m].items)

(* Splits that are not yet known above, children pushed to the right, items*)
(* that slide or are dropped: at every moment the search for each key from *)
(* the root, and from wherever a thread is on its way to its key, ends at  *)
(* the leaf where the key belongs.                                         *)
PathsLead ==
    /\ \A k \in Keys : EndOfSearch(k)[root.node] = LeafOf(k)
    /\ \A t \in Threads : my[t].node # NoNode =>
            EndOfSearch(Key(t))[my[t].node] = LeafOf(Key(t))

(* What a traversal relies on when it goes to the right: a node never      *)
(* takes an item beyond its last one, and an empty node stays empty.       *)
UpperEnd(c) == IF c.items = <<>> THEN EMPTY ELSE Last(c.items)
NodesGiveUpKeys ==
    [][\A n \in Nodes \cap Nodes' : UpperEnd(contents'[n]) <= UpperEnd(contents[n])]_vars

(* Contents share their keys and children with the contents that they      *)
(* replace.  What is given to the hazard managers is given once, and is    *)
(* not part of the contents that a node has now.                           *)
ReleasedOnce ==
    /\ \A p \in BagToSet(released) : released[p] = 1
    /\ \A n \in Nodes : \A part \in {"contents", "keys", "children"} :
            Pointer(n, contents[n], part) \notin BagToSet(released)

(* The tree is not blocked: a call of a thread that keeps running returns, *)
(* wherever the other threads have stopped.                                *)
LiveCallsReturn == \A t \in Live : pc[t] # "idle" ~> pc[t] = "idle"
=============================================================================
