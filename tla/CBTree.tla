------------------------------- MODULE CBTree -------------------------------
(***************************************************************************)
(* The counter-based tree of include/cbtree/CBTree.hpp.  Descents and      *)
(* updates are those of an optimistic tree: no lock on the way down, a     *)
(* version of each node that is validated after a child was read, locks on *)
(* the nodes that change.  There are no heights.  A node that is found or  *)
(* added far below what logSize allows is splayed towards the root;        *)
(* otherwise counters of the accesses decide about a rotation at it and at *)
(* its ancestors.                                                          *)
(*                                                                         *)
(* A step is one read or write of memory that another thread can write or  *)
(* read meanwhile; what a lock of the thread protects, the locks that it   *)
(* gets or gives back go with the next or the last such step.  The         *)
(* counters of the nodes are plain integers that all threads change        *)
(* without a lock: what they decide is left open.  Every node is a new     *)
(* one, and nothing is published in the model.                             *)
(***************************************************************************)
EXTENDS Integers, Sequences, SequencesExt, FiniteSets, FiniteSetsExt, TLC

CONSTANTS
    Threads,
    Keys,           \* keys of the calls
    MinKey,         \* numeric_limits<int>::min(), key of the rootHolder
    NThreads,       \* template parameter Threads
    Threshold,      \* NEW_LOG_CALCULATION_THRESHOLD
    SetupThread,    \* makes the calls of a setup before the others start
    Scenarios,      \* a setup and the calls that each thread may make after it
    MaxCalls,       \* bound: MaxCalls[t] calls of t, after the setup
    MaxShrinks      \* bound: how often a node may be rotated downwards

ASSUME CBTreeAssumption ==
    /\ SetupThread \in Threads
    /\ \A k \in Keys : MinKey < k
    /\ NThreads \in Nat \ {0}
    /\ Threshold \in Nat
    /\ \A s \in Scenarios : s.setup \in Seq([op : {"add", "remove"}, key : Keys])
    /\ MaxCalls \in [Threads -> Nat]
    /\ MaxShrinks \in Nat

VARIABLES
    tree,       \* node -> its fields; lock is the set of its holder
    pc,         \* pc[t]: what t is about to do
    path,       \* path[t]: the activations of attemptGet, attemptUpdate ...
    here,       \* here[t]: the locals child and childOVL of the innermost one
    turn,       \* turn[t]: the locals of the rebalancing functions
    stores,     \* stores[t]: the stores of a rotation or unlink to come
    size, logSize, localSize, tally,    \* see CBTreeSize
    set,        \* the keys in the set (history)
    todo,       \* the calls that the setup has still to make
    menu,       \* menu[t]: the calls that t may make afterwards
    callsLeft,  \* callsLeft[t]
    call,       \* call[t]: the call in progress
    answers,    \* answers[t]: the results it may return (history)
    result      \* result[t]: {what the last call returned}

locals   == <<path, here, turn, stores>>
counting == <<size, logSize, localSize, tally>>
history  == <<set, call, answers, result>>
bounds   == <<todo, menu, callsLeft>>
vars     == <<tree, pc, locals, counting, history, bounds>>

Abstract == INSTANCE ConcurrentSet
NoCall == Abstract!NoCall
Size == INSTANCE CBTreeSize WITH elements <- Cardinality(set)

-----------------------------------------------------------------------------
(* Versions: bit 0 of an unlinked node, bit 1 while the node grows, bit 2  *)
(* while it shrinks, eight bits that count the growths, then the shrinks.  *)
UnlinkedOVL == 1
Bit(ovl, weight) == (ovl \div weight) % 2 = 1
isUnlinked(ovl) == ovl = UnlinkedOVL
isChanging(ovl) == Bit(ovl, 2) \/ Bit(ovl, 4)
isShrinkingOrUnlinked(ovl) == Bit(ovl, 1) \/ Bit(ovl, 4)
hasShrunkOrUnlinked(orig, current) ==
    \/ Bit(orig, 1) # Bit(current, 1)
    \/ Bit(orig, 4) # Bit(current, 4)
    \/ orig \div 2048 # current \div 2048
beginGrow(ovl) == IF Bit(ovl, 2) THEN ovl ELSE ovl + 2
endGrow(ovl) == ovl + 8
beginShrink(ovl) == IF Bit(ovl, 4) THEN ovl ELSE ovl + 4
FaultyEndShrink(ovl) == ovl             \* restores the version
endShrink(ovl) == ovl + 2048

NoNode == <<>>
NodeRecord(key, value, parent) ==
    [key |-> key, value |-> value, changeOVL |-> 0,
     parent |-> parent, left |-> NoNode, right |-> NoNode, lock |-> {}]

rootHolder == <<MinKey, 1>>
NewName(key) ==
    <<key, Min({i \in 1 .. Cardinality(DOMAIN tree) : <<key, i>> \notin DOMAIN tree})>>

(* Both sides of the tree are treated alike. *)
Sides == {"left", "right"}
Opposite(side) == IF side = "left" THEN "right" ELSE "left"
Direction(key, n) == IF key < tree[n].key THEN "left" ELSE "right"
Child(n, side) == tree[n][side]
Children(n) == {tree[n].left, tree[n].right}
SideOf(p, n) == IF tree[p].left = n THEN "left" ELSE "right"

-----------------------------------------------------------------------------
NoPlace == [child |-> NoNode, ovl |-> 0]
NoTurn == [kind |-> "none", nodes |-> <<>>, held |-> 0, level |-> 0]
Activation(n, ovl) == [node |-> n, ovl |-> ovl]

Init ==
    /\ tree = [n \in {rootHolder} |-> NodeRecord(MinKey, FALSE, NoNode)]
    /\ pc = [t \in Threads |-> "idle"]
    /\ path = [t \in Threads |-> <<>>]
    /\ here = [t \in Threads |-> NoPlace]
    /\ turn = [t \in Threads |-> NoTurn]
    /\ stores = [t \in Threads |-> <<>>]
    /\ Abstract!SetInit
    /\ Size!SizeInit
    /\ \E s \in Scenarios : todo = s.setup /\ menu = s.menu
    /\ callsLeft = MaxCalls

-----------------------------------------------------------------------------
GoTo(t, label) == pc' = [pc EXCEPT ![t] = label]

Free(n) == tree[n].lock = {}
Lock(tr, n, t) == [tr EXCEPT ![n].lock = {t}]
UnlockAll(tr, t) == [n \in DOMAIN tr |-> [tr[n] EXCEPT !.lock = @ \ {t}]]

Return(t, r) ==
    /\ tree' = UnlockAll(tree, t)
    /\ GoTo(t, "idle")
    /\ path' = [path EXCEPT ![t] = <<>>]
    /\ here' = [here EXCEPT ![t] = NoPlace]
    /\ turn' = [turn EXCEPT ![t] = NoTurn]
    /\ call' = [call EXCEPT ![t] = NoCall]
    /\ answers' = [answers EXCEPT ![t] = {}]
    /\ result' = [result EXCEPT ![t] = {r}]
    /\ UNCHANGED <<stores, set, counting, bounds>>

(* The set changes on behalf of t, which has to count that later. *)
Changes(t, S) ==
    /\ set' = S
    /\ answers' = Abstract!AnswersAfter(t, S)
    /\ tally' = [tally EXCEPT ![t] = Size!Owes(IF call[t].op = "add" THEN 1 ELSE -1)]
    /\ UNCHANGED <<call, result, size, logSize, localSize>>

(* A call starts: in the setup, then from the menu of the thread. *)
Start(t, c) ==
    /\ pc[t] = "idle"
    /\ IF todo # <<>>
       THEN /\ t = SetupThread
            /\ c = Head(todo)
            /\ todo' = Tail(todo)
            /\ UNCHANGED callsLeft
       ELSE /\ pc[SetupThread] = "idle" \/ callsLeft[SetupThread] < MaxCalls[SetupThread]
            /\ c \in menu[t]
            /\ callsLeft[t] > 0
            /\ callsLeft' = [callsLeft EXCEPT ![t] = @ - 1]
            /\ UNCHANGED todo
    /\ GoTo(t, "child")
    /\ path' = [path EXCEPT ![t] = <<Activation(rootHolder, 0)>>]
    /\ Abstract!SetInvoke(t, c)
    /\ UNCHANGED <<tree, here, turn, stores, counting, menu>>

-----------------------------------------------------------------------------
(* The descent.  The loops of contains, update and remove at the           *)
(* rootHolder are those of attemptGet, attemptUpdate and attemptRemove,    *)
(* with a version that never changes.                                      *)
Node(t) == Last(path[t]).node
Parent(t) == Last(Front(path[t])).node
Height(t) == Len(path[t]) - 1
Key(t) == call[t].key
Reading(t) == call[t].op = "contains"
Valid(t) == ~hasShrunkOrUnlinked(Last(path[t]).ovl, tree[Node(t)].changeOVL)
NextChild(t) == Child(Node(t), Direction(Key(t), Node(t)))
HasKey(t, n) == tree[n].key = Key(t)

(* RETRY: back to the loop of the caller. *)
Retry(t) ==
    /\ GoTo(t, "child")
    /\ path' = [path EXCEPT ![t] = Front(@)]

(* attemptGet looks at the key of the child at once, the others validate   *)
(* the node first.  A key at the root is read without any rebalancing.     *)
ReadChild(t) ==
    LET child == NextChild(t)
    IN  /\ pc[t] = "child"
        /\ here' = [here EXCEPT ![t] = [child |-> child, ovl |-> 0]]
        /\ GoTo(t, IF ~Reading(t) THEN "childRead"
                   ELSE IF child = NoNode THEN "missing"
                   ELSE IF ~HasKey(t, child) THEN "childOVL"
                   ELSE IF Node(t) = rootHolder THEN "value" ELSE "hit")
        /\ UNCHANGED <<tree, path, turn, stores, counting, history, bounds>>

GetMisses(t) ==
    /\ pc[t] = "missing"
    /\ Valid(t)
    /\ Return(t, FALSE)

GetFinds(t) ==
    /\ pc[t] = "value"
    /\ Return(t, tree[here[t].child].value)

RemoveMisses(t) ==
    /\ pc[t] = "childRead"
    /\ Valid(t)
    /\ here[t].child = NoNode
    /\ call[t].op = "remove"
    /\ Return(t, FALSE)

UpdateChild(t) ==
    /\ pc[t] = "childRead"
    /\ Valid(t)
    /\ \/ here[t].child # NoNode /\ GoTo(t, "childOVL")
       \/ here[t].child = NoNode /\ call[t].op = "add" /\ GoTo(t, "insert")
    /\ UNCHANGED <<tree, locals, counting, history, bounds>>

Invalid(t) ==
    /\ pc[t] \in {"missing", "childRead", "revalidate", "validate"}
    /\ ~Valid(t)
    /\ Retry(t)
    /\ UNCHANGED <<tree, here, turn, stores, counting, history, bounds>>

ReadChildOVL(t) ==
    LET ovl == tree[here[t].child].changeOVL
    IN  /\ pc[t] = "childOVL"
        /\ here' = [here EXCEPT ![t].ovl = ovl]
        /\ GoTo(t, IF isShrinkingOrUnlinked(ovl) THEN "wait" ELSE "recheck")
        /\ UNCHANGED <<tree, path, turn, stores, counting, history, bounds>>

(* The loop starts over; attemptGet validates the node before. *)
Again(t) == GoTo(t, IF Reading(t) THEN "revalidate" ELSE "child")

FaultyWaitUntilChangeCompleted(t) ==    \* waits for unlinked nodes too
    /\ pc[t] = "wait"
    /\ tree[here[t].child].changeOVL # here[t].ovl
    /\ Again(t)
    /\ UNCHANGED <<tree, locals, counting, history, bounds>>

waitUntilChangeCompleted(t) ==
    /\ pc[t] = "wait"
    /\ \/ ~isChanging(here[t].ovl)
       \/ tree[here[t].child].changeOVL # here[t].ovl
       \/ Free(here[t].child)
    /\ Again(t)
    /\ UNCHANGED <<tree, locals, counting, history, bounds>>

FaultyRecheck(t) ==                     \* the child may have moved down meanwhile
    /\ pc[t] = "recheck"
    /\ GoTo(t, "validate")
    /\ UNCHANGED <<tree, locals, counting, history, bounds>>

Recheck(t) ==
    /\ pc[t] = "recheck"
    /\ IF NextChild(t) = here[t].child THEN GoTo(t, "validate") ELSE Again(t)
    /\ UNCHANGED <<tree, locals, counting, history, bounds>>

Revalidate(t) ==
    /\ pc[t] = "revalidate"
    /\ Valid(t)
    /\ GoTo(t, "child")
    /\ UNCHANGED <<tree, locals, counting, history, bounds>>

Descend(t) ==
    /\ pc[t] = "validate"
    /\ Valid(t)
    /\ path' = [path EXCEPT ![t] = Append(@, Activation(here[t].child, here[t].ovl))]
    /\ GoTo(t, IF Reading(t) \/ ~HasKey(t, here[t].child) THEN "child"
               ELSE IF call[t].op = "add" THEN "hit" ELSE "nodeValue")
    /\ UNCHANGED <<tree, here, turn, stores, counting, history, bounds>>

-----------------------------------------------------------------------------
(* A key that was found: SemiSplay of its node when it is deep for the     *)
(* logSize, else RebalanceAtTarget.                                        *)
Target(t) == IF Reading(t) THEN here[t].child ELSE Node(t)
TargetParent(t) == IF Reading(t) THEN Node(t) ELSE Parent(t)
TooDeep(t) == Height(t) >= 4 * logSize

Turn(kind, nodes, level) == [kind |-> kind, nodes |-> nodes, held |-> 0, level |-> level]

Hit(t) ==
    /\ pc[t] = "hit"
    /\ IF TooDeep(t)
       THEN turn' = [turn EXCEPT ![t] = Turn("splay", <<Target(t)>>, 0)] /\ GoTo(t, "splay")
       ELSE /\ turn' = [turn EXCEPT ![t] = Turn("none", <<TargetParent(t), Target(t)>>, 0)]
            /\ GoTo(t, "weigh")
    /\ UNCHANGED <<tree, path, here, stores, counting, history, bounds>>

(* attemptUpdate has added the key at path[level]: RebalanceNew for each   *)
(* activation above, then add counts.                                      *)
NextLevel(t, level) ==
    /\ turn' = [turn EXCEPT ![t] = Turn("none", <<>>, level - 1)]
    /\ GoTo(t, IF level > 2 THEN "new" ELSE "count")

(* After a rebalancing: contains reads the value, an add that has found    *)
(* its key sets the value, one that has added it goes on above.            *)
Rebalanced(t) ==
    IF turn[t].level = 0
    THEN /\ turn' = [turn EXCEPT ![t] = NoTurn]
         /\ GoTo(t, IF Reading(t) THEN "value" ELSE "update")
    ELSE NextLevel(t, turn[t].level)

-----------------------------------------------------------------------------
Write(n, field, value) == [node |-> n, field |-> field, value |-> value]
SetParent(n, p) == IF n = NoNode THEN <<>> ELSE <<Write(n, "parent", p)>>

(* The stores are done one by one. *)
Perform(t, writes) ==
    /\ stores' = [stores EXCEPT ![t] = writes]
    /\ GoTo(t, "store")

(* attemptUnlink_nl: possible under the locks of both nodes. *)
CanUnlink(p, n) == n \in Children(p) /\ NoNode \in Children(n)
Splice(n) == IF tree[n].left # NoNode THEN tree[n].left ELSE tree[n].right
FaultyUnlinkWrites(p, n) ==             \* the splice keeps its old parent
    <<Write(n, "changeOVL", UnlinkedOVL), Write(n, "value", FALSE)>>

UnlinkWrites(p, n) ==
    SetParent(Splice(n), p) \o
    <<Write(n, "changeOVL", UnlinkedOVL), Write(n, "value", FALSE)>>

-----------------------------------------------------------------------------
(* attemptInsertIntoEmpty and the insertion of attemptUpdate: the check    *)
(* under the lock, and the store that adds the key.                        *)
InsertFails(t) ==
    /\ pc[t] = "insert"
    /\ Free(Node(t))
    /\ \/ ~Valid(t) /\ Retry(t)
       \/ Valid(t) /\ NextChild(t) # NoNode /\ GoTo(t, "child") /\ UNCHANGED path
    /\ UNCHANGED <<tree, here, turn, stores, counting, history, bounds>>

Insert(t) ==
    LET n   == Node(t)
        new == NewName(Key(t))
        linked == (new :> NodeRecord(Key(t), TRUE, n)) @@
                    [tree EXCEPT ![n][Direction(Key(t), n)] = new]
    IN  /\ pc[t] = "insert"
        /\ Free(n)
        /\ Valid(t)
        /\ NextChild(t) = NoNode
        /\ IF n = rootHolder THEN tree' = linked /\ GoTo(t, "count")
                             ELSE tree' = Lock(linked, n, t) /\ GoTo(t, "added")
        /\ Changes(t, set \cup {Key(t)})
        /\ UNCHANGED <<locals, bounds>>

(* Under the lock logSize decides about a SemiSplay, without it the child  *)
(* to be splayed is read again.                                            *)
FaultyAdded(t) ==                       \* splays under the lock
    /\ pc[t] = "added"
    /\ IF TooDeep(t) THEN GoTo(t, "readAdded") /\ UNCHANGED <<tree, turn>>
                     ELSE tree' = UnlockAll(tree, t) /\ NextLevel(t, Len(path[t]))
    /\ UNCHANGED <<path, here, stores, counting, history, bounds>>

Added(t) ==
    /\ pc[t] = "added"
    /\ tree' = UnlockAll(tree, t)
    /\ IF TooDeep(t) THEN GoTo(t, "readAdded") /\ UNCHANGED turn
                     ELSE NextLevel(t, Len(path[t]))
    /\ UNCHANGED <<path, here, stores, counting, history, bounds>>

ReadAdded(t) ==
    /\ pc[t] = "readAdded"
    /\ turn' = [turn EXCEPT ![t] = Turn("splay", <<NextChild(t)>>, Len(path[t]))]
    /\ GoTo(t, "splay")
    /\ UNCHANGED <<tree, path, here, stores, counting, history, bounds>>

(* attemptNodeUpdate: a remove reads the value and the children without a  *)
(* lock to choose between unlinking the node and clearing its value.       *)
ReadValue(t) ==
    /\ pc[t] = "nodeValue"
    /\ IF tree[Node(t)].value
       THEN GoTo(t, "nodeLeft") /\ UNCHANGED <<tree, locals, counting, history, bounds>>
       ELSE Return(t, FALSE)

ReadLinks(t) ==
    /\ pc[t] \in {"nodeLeft", "nodeRight"}
    /\ LET side == IF pc[t] = "nodeLeft" THEN "left" ELSE "right"
       IN  GoTo(t, IF Child(Node(t), side) = NoNode THEN "unlinkParent"
                   ELSE IF side = "left" THEN "nodeRight" ELSE "update")
    /\ UNCHANGED <<tree, locals, counting, history, bounds>>

(* In place, under the lock of the node. *)
MustRetry(t) ==
    \/ isUnlinked(tree[Node(t)].changeOVL)
    \/ call[t].op = "remove" /\ NoNode \in Children(Node(t))

UpdateRetries(t) ==
    /\ pc[t] = "update"
    /\ Free(Node(t))
    /\ MustRetry(t)
    /\ Retry(t)
    /\ UNCHANGED <<tree, here, turn, stores, counting, history, bounds>>

UpdateRefused(t) ==
    /\ pc[t] = "update"
    /\ Free(Node(t))
    /\ ~MustRetry(t)
    /\ tree[Node(t)].value = (call[t].op = "add")
    /\ Return(t, FALSE)

UpdateValue(t) ==
    LET adding == call[t].op = "add"
    IN  /\ pc[t] = "update"
        /\ Free(Node(t))
        /\ ~MustRetry(t)
        /\ tree[Node(t)].value # adding
        /\ tree' = [tree EXCEPT ![Node(t)].value = adding]
        /\ Changes(t, IF adding THEN set \cup {Key(t)} ELSE set \ {Key(t)})
        /\ IF adding THEN NextLevel(t, Len(path[t])) ELSE GoTo(t, "count") /\ UNCHANGED turn
        /\ UNCHANGED <<path, here, stores, bounds>>

(* By unlinking, under the locks of the parent and the node. *)
LockUnlinkParent(t) ==
    LET p == Parent(t)
    IN  /\ pc[t] = "unlinkParent"
        /\ Free(p)
        /\ IF isUnlinked(tree[p].changeOVL) \/ tree[Node(t)].parent # p
           THEN Retry(t) /\ UNCHANGED tree
           ELSE tree' = Lock(tree, p, t) /\ GoTo(t, "unlinkNode") /\ UNCHANGED path
        /\ UNCHANGED <<here, turn, stores, counting, history, bounds>>

UnlinkRefused(t) ==
    /\ pc[t] = "unlinkNode"
    /\ Free(Node(t))
    /\ ~tree[Node(t)].value
    /\ Return(t, FALSE)

UnlinkRetries(t) ==
    /\ pc[t] = "unlinkNode"
    /\ Free(Node(t))
    /\ tree[Node(t)].value
    /\ ~CanUnlink(Parent(t), Node(t))
    /\ Retry(t)
    /\ tree' = UnlockAll(tree, t)
    /\ UNCHANGED <<here, turn, stores, counting, history, bounds>>

(* The first of the stores of attemptUnlink_nl removes the key. *)
Unlink(t) ==
    LET p == Parent(t)
        n == Node(t)
    IN  /\ pc[t] = "unlinkNode"
        /\ Free(n)
        /\ tree[n].value
        /\ CanUnlink(p, n)
        /\ tree' = Lock([tree EXCEPT ![p][SideOf(p, n)] = Splice(n)], n, t)
        /\ Perform(t, UnlinkWrites(p, n))
        /\ Changes(t, set \ {Key(t)})
        /\ UNCHANGED <<path, here, turn, bounds>>

-----------------------------------------------------------------------------
(* SemiSplay: the nodes above the child are read bottom up, then locked    *)
(* top down.  It is over when the child has reached the root.              *)
ReadNode(t) ==
    LET child == turn[t].nodes[1]
    IN  /\ pc[t] = "splay"
        /\ IF child = NoNode \/ tree[child].parent = rootHolder
           THEN Rebalanced(t)
           ELSE /\ turn' = [turn EXCEPT ![t].nodes = <<tree[child].parent, child>>]
                /\ GoTo(t, "above")
        /\ UNCHANGED <<tree, path, here, stores, counting, history, bounds>>

ReadAbove(t) ==
    LET above == tree[Head(turn[t].nodes)].parent
    IN  /\ pc[t] = "above"
        /\ turn' = [turn EXCEPT ![t].nodes = <<above>> \o @]
        /\ GoTo(t, IF above = rootHolder \/ Len(turn[t].nodes) = 3 THEN "lock" ELSE "above")
        /\ UNCHANGED <<tree, path, here, stores, counting, history, bounds>>

(* RebalanceNew reads the child again, on the way to the new key. *)
RebalanceNew(t) ==
    LET p == path[t][turn[t].level].node
        n == Child(p, Direction(Key(t), p))
    IN  /\ pc[t] = "new"
        /\ IF n = NoNode
           THEN NextLevel(t, turn[t].level)
           ELSE turn' = [turn EXCEPT ![t].nodes = <<p, n>>] /\ GoTo(t, "weigh")
        /\ UNCHANGED <<tree, path, here, stores, counting, history, bounds>>

(* The counters of a node and its parent ask for a rotation, for a double  *)
(* one, or for none.  That of the rootHolder is the largest integer.       *)
WeighNothing(t) ==
    /\ pc[t] = "weigh"
    /\ Rebalanced(t)
    /\ UNCHANGED <<tree, path, here, stores, counting, history, bounds>>

Weigh(t) ==
    LET p == Head(turn[t].nodes)
    IN  /\ pc[t] = "weigh"
        /\ p # rootHolder
        /\ \E kind \in {"single", "double"} :
            turn' = [turn EXCEPT ![t].kind = kind, ![t].nodes = <<tree[p].parent>> \o @]
        /\ GoTo(t, "lock")
        /\ UNCHANGED <<tree, path, here, stores, counting, history, bounds>>

(* A node may be locked when it was found below the one before; then the   *)
(* next one must be a child of it.  SemiSplay looks also whether the node  *)
(* is unlinked, the double rotations look for the inner grandchild.        *)
NextLock(t) == turn[t].nodes[turn[t].held + 1]
LocksLast(t) == turn[t].held + 1 = Len(turn[t].nodes)
Fits(t) ==
    LET f == turn[t]
    IN  /\ ~LocksLast(t) => f.nodes[f.held + 2] \in Children(NextLock(t))
        /\ f.kind = "splay" /\ f.held + 2 = Len(f.nodes)
              => ~isUnlinked(tree[NextLock(t)].changeOVL)
NeedsInner(t) == turn[t].kind = "double" /\ LocksLast(t) /\ Len(turn[t].nodes) = 3
Inner(t) ==
    LET nodes == turn[t].nodes
    IN  Child(nodes[3], Opposite(SideOf(nodes[2], nodes[3])))

(* All locks are given back: SemiSplay tries again, the others do not. *)
Quit(t) ==
    /\ tree' = UnlockAll(tree, t)
    /\ IF turn[t].kind = "splay"
       THEN /\ turn' = [turn EXCEPT ![t] = Turn("splay", <<Last(@.nodes)>>, @.level)]
            /\ GoTo(t, "splay")
       ELSE Rebalanced(t)

LockFails(t) ==
    /\ pc[t] = "lock"
    /\ Free(NextLock(t))
    /\ ~Fits(t) \/ (NeedsInner(t) /\ Inner(t) = NoNode)
    /\ Quit(t)
    /\ UNCHANGED <<path, here, stores, counting, history, bounds>>

LockNext(t) ==
    /\ pc[t] = "lock"
    /\ Free(NextLock(t))
    /\ Fits(t)
    /\ \/ ~LocksLast(t) /\ turn' = [turn EXCEPT ![t].held = @ + 1]
       \/ /\ NeedsInner(t)
          /\ Inner(t) # NoNode
          /\ turn' = [turn EXCEPT ![t].held = @ + 1, ![t].nodes = Append(@, Inner(t))]
    /\ tree' = Lock(tree, NextLock(t), t)
    /\ UNCHANGED <<pc, path, here, stores, counting, history, bounds>>

-----------------------------------------------------------------------------
(* rotateRight and rotateLeft: the child c of n, a child of p, goes up. *)
Rotation(p, n, c) ==
    LET s == SideOf(n, c)
        inner == Child(c, Opposite(s))
        v == tree[n].changeOVL
        w == tree[c].changeOVL
    IN  <<Write(n, "changeOVL", beginShrink(v)), Write(c, "changeOVL", beginGrow(w)),
          Write(n, s, inner), Write(c, Opposite(s), n), Write(p, SideOf(p, n), c),
          Write(c, "parent", p), Write(n, "parent", c)>>
        \o SetParent(inner, n) \o
        <<Write(c, "changeOVL", endGrow(w)), Write(n, "changeOVL", endShrink(v))>>

(* rotateRightOverLeft and rotateLeftOverRight: the inner child g of c. *)
RotationOver(p, n, c, g) ==
    LET s == SideOf(n, c)
        u == tree[n].changeOVL
        v == tree[c].changeOVL
        w == tree[g].changeOVL
    IN  <<Write(n, "changeOVL", beginShrink(u)), Write(c, "changeOVL", beginShrink(v)),
          Write(g, "changeOVL", beginGrow(w)),
          Write(n, s, Child(g, Opposite(s))), Write(c, Opposite(s), Child(g, s)),
          Write(g, s, c), Write(g, Opposite(s), n), Write(p, SideOf(p, n), g),
          Write(g, "parent", p), Write(c, "parent", g), Write(n, "parent", g)>>
        \o SetParent(Child(g, Opposite(s)), n) \o SetParent(Child(g, s), c) \o
        <<Write(g, "changeOVL", endGrow(w)), Write(c, "changeOVL", endShrink(v)),
          Write(n, "changeOVL", endShrink(u))>>

(* Four nodes in a zig-zag need a double rotation; four on one side are    *)
(* rotated at the upper end, and the splay goes on with the third.         *)
Straight(nodes) == SideOf(nodes[2], nodes[3]) = SideOf(nodes[3], nodes[4])

(* The bound: two splays could take the root from each other without end.  *)
Exhausted(n) == tree[n].changeOVL \div 2048 >= MaxShrinks
Busy == {t \in Threads : pc[t] # "idle"}
AtBound(t) ==
    /\ pc[t] = "lock" /\ LocksLast(t) /\ Free(NextLock(t))
    /\ Exhausted(turn[t].nodes[2]) /\ Busy # {t}

Rotate(t) ==
    LET nodes == turn[t].nodes
        over  == Len(nodes) = 4 /\ ~Straight(nodes)
        next  == IF Len(nodes) = 4 /\ Straight(nodes) THEN nodes[3] ELSE Last(nodes)
    IN  /\ pc[t] = "lock"
        /\ ~AtBound(t)
        /\ Free(NextLock(t))
        /\ Fits(t)
        /\ LocksLast(t)
        /\ ~NeedsInner(t)
        /\ tree' = Lock(tree, NextLock(t), t)
        /\ turn' = [turn EXCEPT ![t] = Turn(@.kind, <<next>>, @.level)]
        /\ Perform(t, IF over THEN RotationOver(nodes[1], nodes[2], nodes[3], nodes[4])
                              ELSE Rotation(nodes[1], nodes[2], nodes[3]))
        /\ UNCHANGED <<path, here, counting, history, bounds>>

Store(t) ==
    LET w == Head(stores[t])
    IN  /\ pc[t] = "store"
        /\ stores[t] # <<>>
        /\ tree' = [tree EXCEPT ![w.node][w.field] = w.value]
        /\ stores' = [stores EXCEPT ![t] = Tail(@)]
        /\ UNCHANGED <<pc, path, here, turn, counting, history, bounds>>

StoresDone(t) ==
    /\ pc[t] = "store"
    /\ stores[t] = <<>>
    /\ \/ turn[t] # NoTurn /\ Quit(t)
       \/ /\ turn[t] = NoTurn           \* attemptUnlink_nl
          /\ tree' = UnlockAll(tree, t)
          /\ GoTo(t, "count")
          /\ UNCHANGED turn
    /\ UNCHANGED <<path, here, stores, counting, history, bounds>>

-----------------------------------------------------------------------------
(* add and remove count what they have done and return. *)
Count(t) ==
    /\ pc[t] = "count"
    /\ UNCHANGED <<tree, pc, locals, history, bounds>>
    /\ Size!Counting(t)

Counted(t) ==
    /\ pc[t] = "count"
    /\ tally[t] = Size!Nothing
    /\ Return(t, TRUE)

-----------------------------------------------------------------------------
Descending(t) ==
    \/ ReadChild(t) \/ GetMisses(t) \/ GetFinds(t) \/ RemoveMisses(t)
    \/ UpdateChild(t) \/ Invalid(t) \/ ReadChildOVL(t) \/ waitUntilChangeCompleted(t)
    \/ Recheck(t) \/ Revalidate(t) \/ Descend(t)

Updating(t) ==
    \/ InsertFails(t) \/ Insert(t) \/ Added(t) \/ ReadAdded(t)
    \/ ReadValue(t) \/ ReadLinks(t) \/ UpdateRetries(t) \/ UpdateRefused(t)
    \/ UpdateValue(t) \/ LockUnlinkParent(t) \/ UnlinkRefused(t) \/ UnlinkRetries(t)
    \/ Unlink(t) \/ Count(t) \/ Counted(t)

Rebalancing(t) ==
    \/ Hit(t) \/ ReadNode(t) \/ ReadAbove(t) \/ RebalanceNew(t)
    \/ WeighNothing(t) \/ Weigh(t) \/ LockFails(t) \/ LockNext(t) \/ Rotate(t)
    \/ Store(t) \/ StoresDone(t)

Step(t) == Descending(t) \/ Updating(t) \/ Rebalancing(t)

Next == \E t \in Threads :
            \/ \E c \in Abstract!SetCalls : Start(t, c)
            \/ Step(t)

Spec == Init /\ [][Next]_vars

(* All threads run: a step that stays possible is taken.  Nothing is       *)
(* promised to a thread that waits for a mutex which others take and give  *)
(* back again and again.                                                   *)
FairSpec == Spec /\ \A t \in Threads : WF_vars(Step(t))

-----------------------------------------------------------------------------
(* Type correctness. *)
Nodes == DOMAIN tree
Labels == {"idle", "child", "missing", "value", "hit", "childRead", "childOVL", "wait",
           "recheck", "revalidate", "validate", "insert", "added", "readAdded",
           "nodeValue", "nodeLeft", "nodeRight", "update", "unlinkParent", "unlinkNode",
           "splay", "above", "new", "weigh", "lock", "store", "count"}

TypeOK ==
    /\ rootHolder \in Nodes
    /\ \A n \in Nodes :
        /\ tree[n].key = n[1] /\ n[1] \in Keys \cup {MinKey}
        /\ tree[n].value \in BOOLEAN
        /\ tree[n].changeOVL \in Nat
        /\ {tree[n].parent, tree[n].left, tree[n].right} \subseteq Nodes \cup {NoNode}
        /\ \E t \in Threads : tree[n].lock \subseteq {t}
    /\ pc \in [Threads -> Labels]
    /\ \A t \in Threads :
        /\ \A i \in DOMAIN path[t] : path[t][i].node \in Nodes
        /\ here[t].child \in Nodes \cup {NoNode}
        /\ Range(turn[t].nodes) \subseteq Nodes \cup {NoNode}
        /\ \A i \in DOMAIN stores[t] : stores[t][i].node \in Nodes
    /\ callsLeft \in [Threads -> Nat]
    /\ Size!SizeTypeOK
    /\ Abstract!SetTypeOK

(* The tree below a node: a link is followed at most once per node.        *)
Linked ==
    LET below[S \in SUBSET Nodes] ==
            LET more == S \cup (UNION {Children(n) : n \in S} \ {NoNode})
            IN  IF more = S THEN S ELSE below[more]
    IN  below[{rootHolder}]

SubtreeKeys ==
    LET keys[n \in Nodes] ==
            {tree[n].key} \cup UNION {keys[c] : c \in Children(n) \ {NoNode}}
    IN  keys

Settled == \A t \in Threads : pc[t] # "store"

(* The calls are linearizable: add and remove take effect at the store     *)
(* that links a node, sets or clears a value, or unlinks a node, and every *)
(* answer was right at some moment of its call.                            *)
ImplementsSet == Abstract!SetSpec

(* Whatever splays, rotations and unlinks have interleaved, once their     *)
(* stores are done the nodes form a binary search tree: parent and child   *)
(* agree, no linked node is marked unlinked or changing, and the values    *)
(* are the set.                                                            *)
SearchTree ==
    Settled =>
        LET keys == SubtreeKeys
        IN  /\ \A n \in Linked :
                /\ ~isUnlinked(tree[n].changeOVL) /\ ~isChanging(tree[n].changeOVL)
                /\ \A side \in Sides : Child(n, side) # NoNode =>
                    /\ tree[Child(n, side)].parent = n
                    /\ \A k \in keys[Child(n, side)] :
                        IF side = "left" THEN k < tree[n].key ELSE k > tree[n].key
            /\ set = {tree[n].key : n \in {m \in Linked : tree[m].value}}

(* What a validated version promises to the optimistic descent: as long as *)
(* a node has not shrunk or been unlinked since the descent has read its   *)
(* version, the search for the key still leads through the node, wherever  *)
(* rotations have moved it.                                                *)
ValidPathIsSearchPath ==
    Settled => \A t \in Threads : \A i \in DOMAIN path[t] :
        LET n == path[t][i].node
            leads[m \in Nodes] ==
                \/ m = n
                \/ LET c == Child(m, Direction(Key(t), m))
                   IN  tree[m].key # Key(t) /\ c # NoNode /\ leads[c]
        IN  ~hasShrunkOrUnlinked(path[t][i].ovl, tree[n].changeOVL) => leads[rootHolder]

(* However the accounting of several threads interleaves, in whatever      *)
(* order they get to it, size, the local sizes and what is still to be     *)
(* counted make up the number of the elements.                             *)
SizeIsRight == Size!SizeIsRight

(* The threads never wait for each other in a circle, nor one for a lock   *)
(* that nobody will give back, while splays and rotations lock up to four  *)
(* nodes that they have read from the bottom: one of the calls in progress *)
(* can go on, or has only come to the bound of the model.                  *)
NoDeadlock == Busy # {} => \E t \in Busy : ENABLED Step(t) \/ AtBound(t)

(* Nothing that the other calls leave behind holds a call up for ever: no  *)
(* change bit that stays set, no node that it waits for or splays again    *)
(* and again.  When all the others have returned it returns.               *)
LastCallReturns ==
    \A t \in Threads : <>[](Busy \subseteq {t}) => []<>(t \notin Busy)
=============================================================================
