------------------------------- MODULE AVLTree -------------------------------
(***************************************************************************)
(* The optimistic AVL tree of include/avltree/AVLTree.hpp.  A descent      *)
(* takes no lock: it validates the version of a node after it has read     *)
(* the child, and goes back to the parent when the node has shrunk or has  *)
(* been unlinked.  Updates lock the nodes they change, parent before       *)
(* child; a node with two children is removed by clearing its value, and   *)
(* stays as a routing node.  Heights and rotations are repaired after the  *)
(* update, node by node, by the thread that has done the damage.           *)
(*                                                                         *)
(* A step is one read or write of memory that another thread can write or  *)
(* read meanwhile.  Reads protected by a lock of the thread, acquiring a   *)
(* lock, and releasing locks go with the next or the last such step.       *)
(* Every node is a new one (see HazardManager for recycling), and nothing  *)
(* is published in the model.                                              *)
(***************************************************************************)
EXTENDS Integers, Sequences, SequencesExt, FiniteSets, FiniteSetsExt, TLC

CONSTANTS
    Threads,
    Keys,           \* keys of the calls
    MinKey,         \* numeric_limits<int>::min(), key of the rootHolder
    SetupThread,    \* makes the calls of a setup before the others start
    Setups,         \* sequences of calls
    Menu,           \* Menu[t]: the calls that t may make
    MaxCalls        \* bound: MaxCalls[t] calls of t, after the setup

ASSUME AVLTreeAssumption ==
    /\ SetupThread \in Threads
    /\ Keys \subseteq Int /\ MinKey \in Int
    /\ \A k \in Keys : MinKey < k
    /\ Setups \subseteq Seq([op : {"add", "remove"}, key : Keys])
    /\ MaxCalls \in [Threads -> Nat]

VARIABLES
    tree,       \* node -> its fields; lock is the set of its holder
    pc,         \* pc[t]: what t is about to do
    path,       \* path[t]: the activations of attemptGet or attemptUpdate
    here,       \* here[t]: the locals child and childOVL of the innermost one
    cond,       \* cond[t]: what nodeCondition has read of which node
    fix,        \* fix[t]: the locals of the rebalancing functions
    stores,     \* stores[t]: the stores of a rotation or unlink to come
    after,      \* after[t]: what t does when they are done
    set,        \* the keys in the set (history)
    todo,       \* the calls that the setup has still to make
    callsLeft,  \* callsLeft[t]
    call,       \* call[t]: the call in progress
    answers,    \* answers[t]: the results it may return (history)
    result      \* result[t]: {what the last call returned}

locals  == <<path, here, cond, fix, stores, after>>
history == <<set, call, answers, result>>
bounds  == <<todo, callsLeft>>
vars    == <<tree, pc, locals, history, bounds>>

Abstract == INSTANCE ConcurrentSet
NoCall == Abstract!NoCall

-----------------------------------------------------------------------------
(* Versions: bit 0 while the node shrinks, 2 for an unlinked node. *)
UnlinkedOVL == 2
beginChange(ovl) == IF ovl % 2 = 1 THEN ovl ELSE ovl + 1
FaultyEndChange(ovl) == 4 * (ovl \div 4)       \* restores the version
endChange(ovl) == 4 * (ovl \div 4) + 4
isShrinking(ovl) == ovl % 2 = 1
isUnlinked(ovl) == (ovl \div 2) % 2 = 1
isShrinkingOrUnlinked(ovl) == isShrinking(ovl) \/ isUnlinked(ovl)

NoNode == <<>>
NodeRecord(key, value, parent) ==
    [key |-> key, value |-> value, height |-> 1, version |-> 0,
     parent |-> parent, left |-> NoNode, right |-> NoNode, lock |-> {}]

rootHolder == <<MinKey, 1>>
Adding(tr, n, record) ==
    [m \in DOMAIN tr \cup {n} |-> IF m = n THEN record ELSE tr[m]]
NewName(key) ==
    <<key, Min({i \in 1 .. Cardinality(DOMAIN tree) : <<key, i>> \notin DOMAIN tree})>>

(* Both sides of the tree are treated alike. *)
Sides == {"left", "right"}
Opposite(side) == IF side = "left" THEN "right" ELSE "left"
Direction(key, n) == IF key < tree[n].key THEN "left" ELSE "right"
Child(n, side) == tree[n][side]
SideOf(p, n) == IF tree[p].left = n THEN "left" ELSE "right"
Height(n) == IF n = NoNode THEN 0 ELSE tree[n].height
Larger(a, b) == IF a < b THEN b ELSE a

-----------------------------------------------------------------------------
NoPlace == [child |-> NoNode, ovl |-> 0]
NoCond == [node |-> NoNode, then |-> "none", got |-> <<>>]
NoFix == [n |-> NoNode, p |-> NoNode, side |-> "left", child |-> NoNode,
          inner |-> NoNode, hOther |-> 0, hOuter |-> 0, hInner |-> 0]
NoPlan == [then |-> "none", node |-> NoNode]
Activation(n, ovl) == [node |-> n, ovl |-> ovl]

Init ==
    /\ tree = [n \in {rootHolder} |-> NodeRecord(MinKey, FALSE, NoNode)]
    /\ pc = [t \in Threads |-> "idle"]
    /\ path = [t \in Threads |-> <<>>]
    /\ here = [t \in Threads |-> NoPlace]
    /\ cond = [t \in Threads |-> NoCond]
    /\ fix = [t \in Threads |-> NoFix]
    /\ stores = [t \in Threads |-> <<>>]
    /\ after = [t \in Threads |-> NoPlan]
    /\ todo \in Setups
    /\ callsLeft = MaxCalls
    /\ Abstract!SetInit

-----------------------------------------------------------------------------
GoTo(t, label) == pc' = [pc EXCEPT ![t] = label]

Free(n) == tree[n].lock = {}
Lock(tr, n, t) == [tr EXCEPT ![n].lock = {t}]
Unlock(tr, nodes, t) ==
    [n \in DOMAIN tr |-> IF n \in nodes THEN [tr[n] EXCEPT !.lock = @ \ {t}] ELSE tr[n]]
UnlockAll(tr, t) == Unlock(tr, DOMAIN tr, t)

(* When the last call returns nobody remembers a version or a node that    *)
(* has been unlinked, so the model forgets them too.                       *)
Forget(tr) ==
    [n \in {m \in DOMAIN tr : ~isUnlinked(tr[m].version)} |-> [tr[n] EXCEPT !.version = 0]]

Return(t, r) ==
    /\ tree' = IF \A u \in Threads \ {t} : pc[u] = "idle"
               THEN Forget(UnlockAll(tree, t)) ELSE UnlockAll(tree, t)
    /\ GoTo(t, "idle")
    /\ path' = [path EXCEPT ![t] = <<>>]
    /\ here' = [here EXCEPT ![t] = NoPlace]
    /\ cond' = [cond EXCEPT ![t] = NoCond]
    /\ fix' = [fix EXCEPT ![t] = NoFix]
    /\ stores' = [stores EXCEPT ![t] = <<>>]
    /\ after' = [after EXCEPT ![t] = NoPlan]
    /\ call' = [call EXCEPT ![t] = NoCall]
    /\ answers' = [answers EXCEPT ![t] = {}]
    /\ result' = [result EXCEPT ![t] = {r}]
    /\ UNCHANGED <<set, bounds>>

(* The set changes on behalf of t. *)
Changes(t, S) ==
    /\ set' = S
    /\ answers' = Abstract!AnswersAfter(t, S)
    /\ UNCHANGED <<call, result>>

(* A call starts: in the setup, then from the menu of the thread. *)
Start(t, c) ==
    /\ pc[t] = "idle"
    /\ IF todo # <<>>
       THEN /\ t = SetupThread
            /\ c = Head(todo)
            /\ todo' = Tail(todo)
            /\ UNCHANGED callsLeft
       ELSE /\ pc[SetupThread] = "idle" \/ callsLeft[SetupThread] < MaxCalls[SetupThread]
            /\ c \in Menu[t]
            /\ callsLeft[t] > 0
            /\ callsLeft' = [callsLeft EXCEPT ![t] = @ - 1]
            /\ UNCHANGED todo
    /\ GoTo(t, "child")
    /\ path' = [path EXCEPT ![t] = <<Activation(rootHolder, 0)>>]
    /\ Abstract!SetInvoke(t, c)
    /\ UNCHANGED <<tree, here, cond, fix, stores, after>>

-----------------------------------------------------------------------------
(* The descent.  The loop of contains and of updateUnderRoot at the        *)
(* rootHolder is that of attemptGet and attemptUpdate, with a version that *)
(* never changes.                                                          *)
Node(t) == Last(path[t]).node
Parent(t) == Last(Front(path[t])).node
Key(t) == call[t].key
Reading(t) == call[t].op = "contains"
Valid(t) == tree[Node(t)].version = Last(path[t]).ovl
NextChild(t) == Child(Node(t), Direction(Key(t), Node(t)))
HasKey(t, n) == tree[n].key = Key(t)

(* RETRY: back to the loop of the caller. *)
Retry(t) ==
    /\ GoTo(t, "child")
    /\ path' = [path EXCEPT ![t] = Front(@)]

(* attemptGet looks at the key of the child at once, attemptUpdate         *)
(* validates the node first.                                               *)
ReadChild(t) ==
    /\ pc[t] = "child"
    /\ here' = [here EXCEPT ![t] = [child |-> NextChild(t), ovl |-> 0]]
    /\ GoTo(t, IF ~Reading(t) THEN "childRead"
               ELSE IF NextChild(t) = NoNode THEN "missing"
               ELSE IF HasKey(t, NextChild(t)) THEN "value" ELSE "childOVL")
    /\ UNCHANGED <<tree, path, cond, fix, stores, after, history, bounds>>

GetMisses(t) ==
    /\ pc[t] = "missing"
    /\ Valid(t)
    /\ Return(t, FALSE)

GetFinds(t) ==
    /\ pc[t] = "value"
    /\ Return(t, tree[here[t].child].value)

RemoveMisses(t) ==
    /\ pc[t] = "childRead"
    /\ Valid(t)
    /\ here[t].child = NoNode
    /\ call[t].op = "remove"
    /\ Return(t, FALSE)

UpdateChild(t) ==
    /\ pc[t] = "childRead"
    /\ Valid(t)
    /\ \/ here[t].child # NoNode /\ GoTo(t, "childOVL")
       \/ here[t].child = NoNode /\ call[t].op = "add" /\ GoTo(t, "insert")
    /\ UNCHANGED <<tree, locals, history, bounds>>

Invalid(t) ==
    /\ pc[t] \in {"missing", "childRead", "revalidate", "validate"}
    /\ ~Valid(t)
    /\ Retry(t)
    /\ UNCHANGED <<tree, here, cond, fix, stores, after, history, bounds>>

ReadChildOVL(t) ==
    LET ovl == tree[here[t].child].version
    IN  /\ pc[t] = "childOVL"
        /\ here' = [here EXCEPT ![t].ovl = ovl]
        /\ GoTo(t, IF isShrinkingOrUnlinked(ovl) THEN "wait" ELSE "recheck")
        /\ UNCHANGED <<tree, path, cond, fix, stores, after, history, bounds>>

(* The loop starts over; attemptGet validates the node before. *)
Again(t) == GoTo(t, IF Reading(t) THEN "revalidate" ELSE "child")

waitUntilNotChanging(t) ==
    /\ pc[t] = "wait"
    /\ ~isShrinking(tree[here[t].child].version) \/ Free(here[t].child)
    /\ Again(t)
    /\ UNCHANGED <<tree, locals, history, bounds>>

FaultyRecheck(t) ==                     \* the child may have moved down meanwhile
    /\ pc[t] = "recheck"
    /\ GoTo(t, "validate")
    /\ UNCHANGED <<tree, locals, history, bounds>>

Recheck(t) ==
    /\ pc[t] = "recheck"
    /\ IF NextChild(t) = here[t].child THEN GoTo(t, "validate") ELSE Again(t)
    /\ UNCHANGED <<tree, locals, history, bounds>>

Revalidate(t) ==
    /\ pc[t] = "revalidate"
    /\ Valid(t)
    /\ GoTo(t, "child")
    /\ UNCHANGED <<tree, locals, history, bounds>>

Descend(t) ==
    /\ pc[t] = "validate"
    /\ Valid(t)
    /\ path' = [path EXCEPT ![t] = Append(@, Activation(here[t].child, here[t].ovl))]
    /\ GoTo(t, IF Reading(t) \/ ~HasKey(t, here[t].child) THEN "child"
               ELSE IF call[t].op = "add" THEN "update" ELSE "nodeValue")
    /\ UNCHANGED <<tree, here, cond, fix, stores, after, history, bounds>>

-----------------------------------------------------------------------------
(* Where the rebalancing goes on. *)

(* nodeCondition(n) reads one field per step, then goes to `label'. *)
Examine(t, n, label) ==
    /\ cond' = [cond EXCEPT ![t] = [node |-> n, then |-> label, got |-> <<>>]]
    /\ GoTo(t, "condition")

(* All the locks are released, and fixHeightAndRebalance(n) goes on. *)
Damaged(t, n) ==
    /\ tree' = UnlockAll(tree, t)
    /\ cond' = [cond EXCEPT ![t] = NoCond]
    /\ fix' = [fix EXCEPT ![t] = [NoFix EXCEPT !.n = n]]
    /\ GoTo(t, "fix")

Plan(then, node) == [then |-> then, node |-> node]
Write(n, field, value) == [node |-> n, field |-> field, value |-> value]

(* The stores are done one by one, then `plan'. *)
Perform(t, writes, plan) ==
    /\ stores' = [stores EXCEPT ![t] = writes]
    /\ after' = [after EXCEPT ![t] = plan]
    /\ GoTo(t, "store")

(* attemptUnlink_nl: possible under the locks of both nodes. *)
FaultyCanUnlink(p, n) ==                \* may have got a second child
    n \in {tree[p].left, tree[p].right}

CanUnlink(p, n) ==
    /\ n \in {tree[p].left, tree[p].right}
    /\ NoNode \in {tree[n].left, tree[n].right}
Splice(n) == IF tree[n].left # NoNode THEN tree[n].left ELSE tree[n].right
FaultyUnlinkWrites(p, n) ==             \* the splice keeps its old parent
    <<Write(n, "version", UnlinkedOVL), Write(n, "value", FALSE)>>

UnlinkWrites(p, n) ==
    (IF Splice(n) = NoNode THEN <<>> ELSE <<Write(Splice(n), "parent", p)>>) \o
    <<Write(n, "version", UnlinkedOVL), Write(n, "value", FALSE)>>

-----------------------------------------------------------------------------
(* attemptInsertIntoEmpty and the insertion of attemptUpdate: the check    *)
(* under the lock, and the store that adds the key.                        *)
InsertFails(t) ==
    /\ pc[t] = "insert"
    /\ Free(Node(t))
    /\ \/ ~Valid(t) /\ Retry(t)
       \/ Valid(t) /\ NextChild(t) # NoNode /\ GoTo(t, "child") /\ UNCHANGED path
    /\ UNCHANGED <<tree, here, cond, fix, stores, after, history, bounds>>

Insert(t) ==
    LET n   == Node(t)
        new == NewName(Key(t))
        linked == [tree EXCEPT ![n][Direction(Key(t), n)] = new]
    IN  /\ pc[t] = "insert"
        /\ Free(n)
        /\ Valid(t)
        /\ NextChild(t) = NoNode
        /\ IF n = rootHolder
           THEN /\ tree' = Adding([linked EXCEPT ![n].height = 2], new, NodeRecord(Key(t), TRUE, n))
                /\ GoTo(t, "done")
                /\ UNCHANGED cond
           ELSE /\ tree' = Adding(Lock(linked, n, t), new, NodeRecord(Key(t), TRUE, n))
                /\ Examine(t, n, "fixHeight")
        /\ Changes(t, set \cup {Key(t)})
        /\ UNCHANGED <<path, here, fix, stores, after, bounds>>

Done(t) == pc[t] = "done" /\ Return(t, TRUE)

(* attemptNodeUpdate: a remove reads the value and the children without a  *)
(* lock to choose between unlinking the node and clearing its value.       *)
ReadValue(t) ==
    /\ pc[t] = "nodeValue"
    /\ IF tree[Node(t)].value
       THEN GoTo(t, "nodeLeft") /\ UNCHANGED <<tree, locals, history, bounds>>
       ELSE Return(t, FALSE)

ReadLinks(t) ==
    /\ pc[t] \in {"nodeLeft", "nodeRight"}
    /\ LET side == IF pc[t] = "nodeLeft" THEN "left" ELSE "right"
       IN  GoTo(t, IF Child(Node(t), side) = NoNode THEN "unlinkParent"
                   ELSE IF side = "left" THEN "nodeRight" ELSE "update")
    /\ UNCHANGED <<tree, locals, history, bounds>>

(* In place, under the lock of the node. *)
UpdateRetries(t) ==
    LET n == tree[Node(t)]
    IN  /\ pc[t] = "update"
        /\ Free(Node(t))
        /\ \/ isUnlinked(n.version)
           \/ call[t].op = "remove" /\ n.value /\ NoNode \in {n.left, n.right}
        /\ Retry(t)
        /\ UNCHANGED <<tree, here, cond, fix, stores, after, history, bounds>>

UpdateRefused(t) ==
    /\ pc[t] = "update"
    /\ Free(Node(t))
    /\ ~isUnlinked(tree[Node(t)].version)
    /\ tree[Node(t)].value = (call[t].op = "add")
    /\ Return(t, FALSE)

UpdateValue(t) ==
    LET n == tree[Node(t)]
        adding == call[t].op = "add"
    IN  /\ pc[t] = "update"
        /\ Free(Node(t))
        /\ ~isUnlinked(n.version)
        /\ n.value # adding
        /\ adding \/ NoNode \notin {n.left, n.right}
        /\ tree' = [tree EXCEPT ![Node(t)].value = adding]
        /\ GoTo(t, "done")
        /\ Changes(t, IF adding THEN set \cup {Key(t)} ELSE set \ {Key(t)})
        /\ UNCHANGED <<locals, bounds>>

(* By unlinking, under the locks of the parent and the node. *)
LockUnlinkParent(t) ==
    LET p == Parent(t)
    IN  /\ pc[t] = "unlinkParent"
        /\ Free(p)
        /\ IF isUnlinked(tree[p].version) \/ tree[Node(t)].parent # p
           THEN Retry(t) /\ UNCHANGED tree
           ELSE tree' = Lock(tree, p, t) /\ GoTo(t, "unlinkNode") /\ UNCHANGED path
        /\ UNCHANGED <<here, cond, fix, stores, after, history, bounds>>

UnlinkRefused(t) ==
    /\ pc[t] = "unlinkNode"
    /\ Free(Node(t))
    /\ ~tree[Node(t)].value
    /\ Return(t, FALSE)

UnlinkRetries(t) ==
    /\ pc[t] = "unlinkNode"
    /\ Free(Node(t))
    /\ tree[Node(t)].value
    /\ ~CanUnlink(Parent(t), Node(t))
    /\ Retry(t)
    /\ tree' = UnlockAll(tree, t)
    /\ UNCHANGED <<here, cond, fix, stores, after, history, bounds>>

(* The first of the stores of attemptUnlink_nl removes the key. *)
Unlink(t) ==
    LET p == Parent(t)
        n == Node(t)
    IN  /\ pc[t] = "unlinkNode"
        /\ Free(n)
        /\ tree[n].value
        /\ CanUnlink(p, n)
        /\ tree' = Lock([tree EXCEPT ![p][SideOf(p, n)] = Splice(n)], n, t)
        /\ Perform(t, UnlinkWrites(p, n), Plan("unlinked", p))
        /\ Changes(t, set \ {Key(t)})
        /\ UNCHANGED <<path, here, cond, fix, bounds>>

-----------------------------------------------------------------------------
Store(t) ==
    LET w == Head(stores[t])
    IN  /\ pc[t] = "store"
        /\ stores[t] # <<>>
        /\ tree' = [tree EXCEPT ![w.node][w.field] = w.value]
        /\ stores' = [stores EXCEPT ![t] = Tail(@)]
        /\ UNCHANGED <<pc, path, here, cond, fix, after, history, bounds>>

(* attemptNodeUpdate releases the node before it fixes the parent. *)
StoresDone(t) ==
    /\ pc[t] = "store"
    /\ stores[t] = <<>>
    /\ after' = [after EXCEPT ![t] = NoPlan]
    /\ \/ /\ after[t].then = "damaged"
          /\ Damaged(t, after[t].node)
       \/ /\ after[t].then = "fixHeight"
          /\ Examine(t, after[t].node, "fixHeight")
          /\ UNCHANGED <<tree, fix>>
       \/ /\ after[t].then = "unlinked"
          /\ tree' = Unlock(tree, {Node(t)}, t)
          /\ Examine(t, after[t].node, "fixHeight")
          /\ UNCHANGED fix
       \/ /\ after[t].then = "far"
          /\ GoTo(t, "far")
          /\ UNCHANGED <<tree, cond, fix>>
    /\ UNCHANGED <<path, here, stores, history, bounds>>

-----------------------------------------------------------------------------
(* nodeCondition: left, right, then value if a child is missing, height    *)
(* and the heights of the children otherwise.                              *)
Routing(c) == Len(c.got) = 3 /\ NoNode \in {c.got[1], c.got[2]} /\ c.got[3] = {FALSE}
NextField(c) ==
    LET n == tree[c.node]
    IN  CASE Len(c.got) = 0 -> n.left
          [] Len(c.got) = 1 -> n.right
          [] Len(c.got) = 2 -> {n.value}
          [] Len(c.got) = 3 -> n.height
          [] Len(c.got) = 4 -> Height(c.got[1])
          [] Len(c.got) = 5 -> Height(c.got[2])

nodeCondition(t) ==
    LET c == [cond[t] EXCEPT !.got = Append(@, NextField(cond[t]))]
    IN  /\ pc[t] = "condition"
        /\ cond' = [cond EXCEPT ![t] = c]
        /\ IF Routing(c) \/ Len(c.got) = 6 THEN GoTo(t, c.then) ELSE UNCHANGED pc
        /\ UNCHANGED <<tree, path, here, fix, stores, after, history, bounds>>

UnlinkRequired(t) == Routing(cond[t])
Balance(t) == cond[t].got[5] - cond[t].got[6]
RebalanceRequired(t) == ~UnlinkRequired(t) /\ Balance(t) \notin -1 .. 1
FaultyNewHeight(t) == Larger(cond[t].got[5], cond[t].got[6])   \* forgets the node
NewHeight(t) == 1 + Larger(cond[t].got[5], cond[t].got[6])
HeightRequired(t) ==
    ~UnlinkRequired(t) /\ ~RebalanceRequired(t) /\ NewHeight(t) # cond[t].got[4]
NothingRequired(t) ==
    ~UnlinkRequired(t) /\ ~RebalanceRequired(t) /\ ~HeightRequired(t)

(* fixHeight_nl, under the lock of the node: what it returns is damaged. *)
FixHeightStops(t) ==
    /\ pc[t] = "fixHeight"
    /\ ~HeightRequired(t)
    /\ Damaged(t, IF NothingRequired(t) THEN NoNode ELSE cond[t].node)
    /\ UNCHANGED <<path, here, stores, after, history, bounds>>

FixHeight(t) ==
    /\ pc[t] = "fixHeight"
    /\ HeightRequired(t)
    /\ tree' = [tree EXCEPT ![cond[t].node].height = NewHeight(t)]
    /\ GoTo(t, "fixParent")
    /\ UNCHANGED <<locals, history, bounds>>

FaultyClimb(t) ==                     \* with the lock of the child held
    LET p == tree[cond[t].node].parent
    IN  /\ pc[t] = "fixParent"
        /\ Free(p)
        /\ tree' = Lock(tree, p, t)
        /\ Examine(t, p, "fixHeight")
        /\ UNCHANGED <<path, here, fix, stores, after, history, bounds>>

FixParent(t) ==
    /\ pc[t] = "fixParent"
    /\ Damaged(t, tree[cond[t].node].parent)
    /\ UNCHANGED <<path, here, stores, after, history, bounds>>

-----------------------------------------------------------------------------
(* fixHeightAndRebalance *)
FixEnds(t) ==
    /\ pc[t] = "fix"
    /\ fix[t].n = NoNode \/ fix[t].n = rootHolder
    /\ Return(t, TRUE)

FixExamines(t) ==
    /\ pc[t] = "fix"
    /\ fix[t].n \notin {NoNode, rootHolder}
    /\ Examine(t, fix[t].n, "fixDecide")
    /\ UNCHANGED <<tree, path, here, fix, stores, after, history, bounds>>

FaultyFixDecides(t) ==                  \* repairs unlinked nodes too
    /\ pc[t] = "fixDecide"
    /\ IF NothingRequired(t)
       THEN Return(t, TRUE)
       ELSE /\ GoTo(t, IF HeightRequired(t) THEN "fixLock" ELSE "readParent")
            /\ UNCHANGED <<tree, locals, history, bounds>>

FixDecides(t) ==
    /\ pc[t] = "fixDecide"
    /\ IF NothingRequired(t) \/ isUnlinked(tree[fix[t].n].version)
       THEN Return(t, TRUE)
       ELSE /\ GoTo(t, IF HeightRequired(t) THEN "fixLock" ELSE "readParent")
            /\ UNCHANGED <<tree, locals, history, bounds>>

FixLocks(t) ==
    /\ pc[t] = "fixLock"
    /\ Free(fix[t].n)
    /\ tree' = Lock(tree, fix[t].n, t)
    /\ Examine(t, fix[t].n, "fixHeight")
    /\ UNCHANGED <<path, here, fix, stores, after, history, bounds>>

ReadParent(t) ==
    /\ pc[t] = "readParent"
    /\ fix' = [fix EXCEPT ![t].p = tree[fix[t].n].parent]
    /\ GoTo(t, "lockParent")
    /\ UNCHANGED <<tree, path, here, cond, stores, after, history, bounds>>

LockParent(t) ==
    LET p == fix[t].p
    IN  /\ pc[t] = "lockParent"
        /\ Free(p)
        /\ IF ~isUnlinked(tree[p].version) /\ tree[fix[t].n].parent = p
           THEN tree' = Lock(tree, p, t) /\ GoTo(t, "lockNode") /\ UNCHANGED <<cond, fix>>
           ELSE Damaged(t, fix[t].n)
        /\ UNCHANGED <<path, here, stores, after, history, bounds>>

(* rebalance_nl reads what nodeCondition reads, under both locks. *)
LockNode(t) ==
    /\ pc[t] = "lockNode"
    /\ Free(fix[t].n)
    /\ tree' = Lock(tree, fix[t].n, t)
    /\ Examine(t, fix[t].n, "rebalance")
    /\ UNCHANGED <<path, here, fix, stores, after, history, bounds>>

RebalanceUnlinks(t) ==
    LET p == fix[t].p
        n == fix[t].n
    IN  /\ pc[t] = "rebalance"
        /\ UnlinkRequired(t)
        /\ IF CanUnlink(p, n)
           THEN /\ Perform(t, <<Write(p, SideOf(p, n), Splice(n))>> \o UnlinkWrites(p, n),
                           Plan("fixHeight", p))
                /\ UNCHANGED <<tree, cond, fix>>
           ELSE Damaged(t, n) /\ UNCHANGED <<stores, after>>
        /\ UNCHANGED <<path, here, history, bounds>>

RebalanceHeight(t) ==
    /\ pc[t] = "rebalance"
    /\ HeightRequired(t)
    /\ Perform(t, <<Write(fix[t].n, "height", NewHeight(t))>>, Plan("fixHeight", fix[t].p))
    /\ UNCHANGED <<tree, path, here, cond, fix, history, bounds>>

RebalanceNothing(t) ==
    /\ pc[t] = "rebalance"
    /\ NothingRequired(t)
    /\ Damaged(t, NoNode)
    /\ UNCHANGED <<path, here, stores, after, history, bounds>>

(* rebalanceToRight_nl when the left child is too high, or the mirror      *)
(* image; hOther is the height of the other child.                         *)
RebalanceTo(t) ==
    LET got == cond[t].got
        side == IF Balance(t) > 1 THEN "right" ELSE "left"
    IN  /\ pc[t] = "rebalance"
        /\ RebalanceRequired(t)
        /\ fix' = [fix EXCEPT ![t].side = side,
                              ![t].child = IF side = "right" THEN got[1] ELSE got[2],
                              ![t].hOther = IF side = "right" THEN got[6] ELSE got[5]]
        /\ GoTo(t, "lockChild")
        /\ UNCHANGED <<tree, path, here, cond, stores, after, history, bounds>>

LockChild(t) ==
    LET f == fix[t]
    IN  /\ pc[t] = "lockChild"
        /\ Free(f.child)
        /\ IF tree[f.child].height - f.hOther <= 1
           THEN Damaged(t, f.n)
           ELSE /\ tree' = Lock(tree, f.child, t)
                /\ fix' = [fix EXCEPT ![t].inner = Child(f.child, f.side)]
                /\ GoTo(t, IF f.side = "right" THEN "outerFirst" ELSE "innerFirst")
                /\ UNCHANGED cond
        /\ UNCHANGED <<path, here, stores, after, history, bounds>>

(* The heights of the grandchildren, in the order of the code. *)
ReadOuter(t) ==
    /\ pc[t] \in {"outerFirst", "outerLast"}
    /\ fix' = [fix EXCEPT ![t].hOuter = Height(Child(fix[t].child, Opposite(fix[t].side)))]
    /\ GoTo(t, IF pc[t] = "outerFirst" THEN "innerLast" ELSE "rotate")
    /\ UNCHANGED <<tree, path, here, cond, stores, after, history, bounds>>

ReadInner(t) ==
    /\ pc[t] \in {"innerFirst", "innerLast"}
    /\ fix' = [fix EXCEPT ![t].hInner = Height(fix[t].inner)]
    /\ GoTo(t, IF pc[t] = "innerFirst" THEN "outerLast" ELSE "rotate")
    /\ UNCHANGED <<tree, path, here, cond, stores, after, history, bounds>>

(* Afterwards: damage left at one of the nodes, or the parent to fix. *)
Unbalanced(a, b) == a - b \notin -1 .. 1

SetParent(n, p) == IF n = NoNode THEN <<>> ELSE <<Write(n, "parent", p)>>

(* rotateRight_nl and rotateLeft_nl; hInner is what the caller knows. *)
Rotate(t, hInner) ==
    LET f  == fix[t]
        n  == f.n
        c  == f.child
        hN == 1 + Larger(hInner, f.hOther)
        v  == tree[n].version
    IN  Perform(t,
          <<Write(n, "version", beginChange(v)), Write(n, Opposite(f.side), f.inner)>>
          \o SetParent(f.inner, n) \o
          <<Write(c, f.side, n), Write(n, "parent", c),
            Write(f.p, SideOf(f.p, n), c), Write(c, "parent", f.p),
            Write(n, "height", hN), Write(c, "height", 1 + Larger(f.hOuter, hN)),
            Write(n, "version", endChange(v))>>,
          IF Unbalanced(hInner, f.hOther) THEN Plan("damaged", n)
          ELSE IF Unbalanced(f.hOuter, hN) THEN Plan("damaged", c)
          ELSE Plan("fixHeight", f.p))

(* rotateRightOverLeft_nl and rotateLeftOverRight_nl; hFar is the height   *)
(* of the inner grandchild's child on the side of n, which the second one  *)
(* reads when the versions have begun to change.                           *)
BeginChanges(f) ==
    <<Write(f.n, "version", beginChange(tree[f.n].version)),
      Write(f.child, "version", beginChange(tree[f.child].version))>>

RotateOver(t, hNear, hFar) ==
    LET f  == fix[t]
        n  == f.n
        c  == f.child
        g  == f.inner
        s  == f.side
        hN == 1 + Larger(hFar, f.hOther)
        hC == 1 + Larger(f.hOuter, hNear)
        v  == tree[n].version
        w  == tree[c].version
    IN  Perform(t,
          (IF s = "right" THEN BeginChanges(f) ELSE <<>>) \o
          <<Write(n, Opposite(s), Child(g, s))>> \o SetParent(Child(g, s), n) \o
          <<Write(c, s, Child(g, Opposite(s)))>>
          \o SetParent(Child(g, Opposite(s)), c) \o
          <<Write(g, Opposite(s), c), Write(c, "parent", g),
            Write(g, s, n), Write(n, "parent", g),
            Write(f.p, SideOf(f.p, n), g), Write(g, "parent", f.p),
            Write(n, "height", hN), Write(c, "height", hC),
            Write(g, "height", 1 + Larger(hC, hN)),
            Write(n, "version", endChange(v)), Write(c, "version", endChange(w))>>,
          IF Unbalanced(hFar, f.hOther) THEN Plan("damaged", n)
          ELSE IF Unbalanced(hC, hN) THEN Plan("damaged", g)
          ELSE Plan("fixHeight", f.p))

(* The outer grandchild is the higher one: a single rotation.  With equal  *)
(* heights rebalanceToRight_nl looks at the inner one once more.           *)
SingleAtOnce(f) == f.hOuter > f.hInner \/ (f.side = "left" /\ f.hOuter = f.hInner)

RotateAtOnce(t) ==
    /\ pc[t] = "rotate"
    /\ SingleAtOnce(fix[t])
    /\ Rotate(t, fix[t].hInner)
    /\ UNCHANGED <<tree, path, here, cond, fix, history, bounds>>

(* There is no inner grandchild: the height of the child was stale. *)
NoInner(t) ==
    /\ pc[t] = "rotate"
    /\ ~SingleAtOnce(fix[t])
    /\ fix[t].inner = NoNode
    /\ Damaged(t, fix[t].n)
    /\ UNCHANGED <<path, here, stores, after, history, bounds>>

LockInner(t) ==
    LET f == fix[t]
        h == tree[f.inner].height
    IN  /\ pc[t] = "rotate"
        /\ ~SingleAtOnce(f)
        /\ f.inner # NoNode
        /\ Free(f.inner)
        /\ tree' = Lock(tree, f.inner, t)
        /\ IF f.hOuter >= h THEN Rotate(t, h)
                            ELSE GoTo(t, "near") /\ UNCHANGED <<stores, after>>
        /\ UNCHANGED <<path, here, cond, fix, history, bounds>>

(* The child of the inner grandchild decides between a double rotation and *)
(* a rotation of the child in the other direction.                         *)
ReadNear(t) ==
    LET f == fix[t]
        near == Height(Child(f.inner, Opposite(f.side)))
    IN  /\ pc[t] = "near"
        /\ IF Unbalanced(f.hOuter, near)
           THEN /\ tree' = Unlock(tree, {f.inner}, t)
                /\ fix' = [fix EXCEPT ![t] =
                             [NoFix EXCEPT !.n = f.child, !.p = f.n, !.child = f.inner,
                                           !.side = Opposite(f.side), !.hOther = f.hOuter]]
                /\ GoTo(t, "lockChild")
                /\ UNCHANGED <<stores, after>>
           ELSE /\ fix' = [fix EXCEPT ![t].hInner = near]
                /\ Perform(t, IF f.side = "left" THEN BeginChanges(f) ELSE <<>>,
                           Plan("far", f.inner))
                /\ UNCHANGED tree
        /\ UNCHANGED <<path, here, cond, history, bounds>>

ReadFar(t) ==
    /\ pc[t] = "far"
    /\ RotateOver(t, fix[t].hInner, Height(Child(fix[t].inner, fix[t].side)))
    /\ UNCHANGED <<tree, path, here, cond, fix, history, bounds>>

-----------------------------------------------------------------------------
Descending(t) ==
    \/ ReadChild(t) \/ GetMisses(t) \/ GetFinds(t) \/ RemoveMisses(t)
    \/ UpdateChild(t) \/ Invalid(t) \/ ReadChildOVL(t) \/ waitUntilNotChanging(t)
    \/ Recheck(t) \/ Revalidate(t) \/ Descend(t)

Updating(t) ==
    \/ InsertFails(t) \/ Insert(t) \/ Done(t) \/ ReadValue(t) \/ ReadLinks(t)
    \/ UpdateRetries(t) \/ UpdateRefused(t) \/ UpdateValue(t)
    \/ LockUnlinkParent(t) \/ UnlinkRefused(t) \/ UnlinkRetries(t) \/ Unlink(t)

Fixing(t) ==
    \/ Store(t) \/ StoresDone(t) \/ nodeCondition(t)
    \/ FixHeightStops(t) \/ FixHeight(t) \/ FixParent(t)
    \/ FixEnds(t) \/ FixExamines(t) \/ FixDecides(t) \/ FixLocks(t)
    \/ ReadParent(t) \/ LockParent(t) \/ LockNode(t)

Rebalancing(t) ==
    \/ RebalanceUnlinks(t) \/ RebalanceHeight(t) \/ RebalanceNothing(t)
    \/ RebalanceTo(t) \/ LockChild(t) \/ ReadOuter(t) \/ ReadInner(t)
    \/ RotateAtOnce(t) \/ NoInner(t) \/ LockInner(t) \/ ReadNear(t) \/ ReadFar(t)

Step(t) == Descending(t) \/ Updating(t) \/ Fixing(t) \/ Rebalancing(t)

Next == \E t \in Threads :
            \/ \E c \in Abstract!SetCalls : Start(t, c)
            \/ Step(t)

Spec == Init /\ [][Next]_vars

(* All threads run: a step that stays possible is taken.  Nothing is       *)
(* promised to a thread that waits for a mutex which others take and give  *)
(* back again and again.                                                   *)
FairSpec == Spec /\ \A t \in Threads : WF_vars(Step(t))

-----------------------------------------------------------------------------
(* Type correctness. *)
Nodes == DOMAIN tree
Labels == {"idle", "child", "missing", "value", "childRead", "childOVL", "wait",
           "recheck", "revalidate", "validate", "insert", "done", "nodeValue",
           "nodeLeft", "nodeRight", "update", "unlinkParent", "unlinkNode", "store",
           "condition", "fixHeight", "fixParent", "fix", "fixDecide", "fixLock",
           "readParent", "lockParent", "lockNode", "rebalance", "lockChild",
           "outerFirst", "outerLast", "innerFirst", "innerLast", "rotate", "near", "far"}

TypeOK ==
    /\ rootHolder \in Nodes
    /\ \A n \in Nodes :
        /\ tree[n].key = n[1] /\ n[1] \in Keys \cup {MinKey}
        /\ tree[n].value \in BOOLEAN
        /\ tree[n].height \in Nat \ {0}
        /\ tree[n].version \in Nat
        /\ {tree[n].parent, tree[n].left, tree[n].right} \subseteq Nodes \cup {NoNode}
        /\ \E t \in Threads : tree[n].lock \subseteq {t}
    /\ pc \in [Threads -> Labels]
    /\ \A t \in Threads :
        /\ \A i \in DOMAIN path[t] : path[t][i].node \in Nodes
        /\ here[t].child \in Nodes \cup {NoNode}
        /\ cond[t].node \in Nodes \cup {NoNode}
        /\ {fix[t].n, fix[t].p, fix[t].child, fix[t].inner} \subseteq Nodes \cup {NoNode}
        /\ \A i \in DOMAIN stores[t] : stores[t][i].node \in Nodes
    /\ callsLeft \in [Threads -> Nat]
    /\ Abstract!SetTypeOK

(* The tree below a node: a link is followed at most once per node.        *)
Linked ==
    LET below[S \in SUBSET Nodes] ==
            LET more == S \cup ({tree[n][side] : n \in S, side \in Sides} \ {NoNode})
            IN  IF more = S THEN S ELSE below[more]
    IN  below[{rootHolder}]

SubtreeKeys ==
    LET keys[n \in Nodes] ==
            {tree[n].key} \cup UNION {keys[tree[n][side]] :
                                        side \in {s \in Sides : tree[n][s] # NoNode}}
    IN  keys

Settled == \A t \in Threads : pc[t] \notin {"store", "far"}

(* The calls are linearizable: add and remove take effect at the store     *)
(* that links a node, sets or clears a value, or unlinks a node, and every *)
(* answer was right at some moment of its call.                            *)
ImplementsSet == Abstract!SetSpec

(* When no store of an unlink or a rotation is to come, the links of all   *)
(* nodes that are not unlinked agree, whatever repairs have overlapped: a  *)
(* child points back to its parent, a parent has the node for a child, no  *)
(* node is a child twice, and no link leads to an unlinked node.  A node   *)
(* was unlinked with one child at most, and has no value any more.         *)
StoresEnd == \A t \in Threads : stores[t] = <<>>
LinksAgree ==
    StoresEnd => \A n \in Nodes :
        IF isUnlinked(tree[n].version)
        THEN NoNode \in {tree[n].left, tree[n].right} /\ ~tree[n].value
        ELSE /\ tree[n].left # NoNode => tree[n].left # tree[n].right
             /\ \A side \in Sides : Child(n, side) # NoNode =>
                  /\ ~isUnlinked(tree[Child(n, side)].version)
                  /\ tree[Child(n, side)].parent = n
             /\ n # rootHolder =>
                  /\ n \in {tree[tree[n].parent].left, tree[tree[n].parent].right}
                  /\ ~isUnlinked(tree[tree[n].parent].version)

(* Whatever rotations and unlinks have interleaved, once their stores are  *)
(* done the nodes form a binary search tree: parent and child agree, no    *)
(* linked node is marked unlinked or shrinking, and the values are the set.*)
SearchTree ==
    Settled =>
        LET keys == SubtreeKeys
        IN  /\ \A n \in Linked :
                /\ ~isShrinkingOrUnlinked(tree[n].version)
                /\ \A side \in Sides : Child(n, side) # NoNode =>
                    /\ tree[Child(n, side)].parent = n
                    /\ \A k \in keys[Child(n, side)] :
                        IF side = "left" THEN k < tree[n].key ELSE k > tree[n].key
            /\ set = {tree[n].key : n \in {m \in Linked : tree[m].value}}

(* What a validated version promises to the optimistic descent: as long as *)
(* a node has the version that the descent has read, the search for the    *)
(* key still leads through the node, wherever rotations have moved it.     *)
ValidPathIsSearchPath ==
    Settled => \A t \in Threads : \A i \in DOMAIN path[t] :
        LET n == path[t][i].node
            leads[m \in Nodes] ==
                \/ m = n
                \/ LET c == Child(m, Direction(Key(t), m))
                   IN  tree[m].key # Key(t) /\ c # NoNode /\ leads[c]
        IN  tree[n].version = path[t][i].ovl => leads[rootHolder]

(* The threads never wait for each other in a circle, nor one for a lock   *)
(* that nobody will give back: whatever unlinks, rotations and repairs     *)
(* have locked, parent before child while rotations turn children into     *)
(* parents, one of the calls in progress can go on.                        *)
Busy == {t \in Threads : pc[t] # "idle"}
NoDeadlock == Busy # {} => \E t \in Busy : ENABLED Step(t)

(* Nothing that the other calls leave behind holds a call up for ever: no  *)
(* change bit that stays set, no link or height that it reads and rejects  *)
(* again and again.  When all the others have returned it returns.         *)
LastCallReturns ==
    \A t \in Threads : <>[](Busy \subseteq {t}) => []<>(t \notin Busy)
=============================================================================
