------------------------------- MODULE NBBST -------------------------------
(***************************************************************************)
(* The non-blocking binary search tree of include/nbbst/NBBST.hpp: a       *)
(* leaf-oriented tree whose internal nodes carry an update word.  An add   *)
(* or a remove first flags the update word of the parent (IFLAG) or grand- *)
(* parent (DFLAG) of the leaf with a descriptor (Info) of the whole        *)
(* operation; any thread that meets the flag can finish the operation.     *)
(*                                                                         *)
(* A step is one access to shared memory: a read of an update word or of a *)
(* child, or a CAS.  Fields that never change once a node or an Info is    *)
(* published (internal, key, the fields of Info) are read for free, and so *)
(* are the reads whose value only goes to publish().  Every node and Info  *)
(* is a new one: recycling is the subject of HazardManager, and this tree  *)
(* is modelled as if no node came back while somebody can still name it.   *)
(***************************************************************************)
EXTENDS Integers, Sequences, SequencesExt, FiniteSets

CONSTANTS
    Threads,
    Keys,           \* keys of the calls, strictly between MinKey and MaxKey
    MinKey,         \* numeric_limits<int>::min()
    MaxKey,         \* numeric_limits<int>::max()
    SetupThread,    \* adds the keys of Setup before the others start
    Setup,          \* sequence of keys
    Menu,           \* Menu[t]: the calls that t may make
    MaxCalls,       \* bound: MaxCalls[t] calls of t, after the setup
    Live            \* threads that are never stopped for ever

ASSUME NBBSTAssumption ==
    /\ SetupThread \in Threads
    /\ Keys \cup {MinKey, MaxKey} \subseteq Int
    /\ MinKey < MaxKey
    /\ \A k \in Keys : MinKey < k /\ k < MaxKey
    /\ Setup \in Seq(Keys)
    /\ MaxCalls \in [Threads -> Nat]
    /\ Live \subseteq Threads

VARIABLES
    tree,       \* node -> its fields
    infos,      \* infos[t]: the Infos published by t, in order
    pc,         \* pc[t]: what t is about to do
    search,     \* search[t]: SearchResult; the field l is also Search's l
    seen,       \* seen[t]: the local `result' of add and remove
    stack,      \* stack[t]: the calls of Help* in progress, innermost last
    own,        \* own[t]: the outermost one is for t's own operation
    released,   \* released[t]: nodes and Infos that t gave to releaseNode
    todo,       \* keys that the setup has still to add
    callsLeft,  \* callsLeft[t]
    call,       \* call[t]: the call in progress
    answers,    \* answers[t]: the results it may return (history)
    result      \* result[t]: {what the last call returned}

memory  == <<tree, infos, released>>
control == <<pc, search, seen, stack, own>>
history == <<call, answers, result>>
bounds  == <<todo, callsLeft>>
vars    == <<memory, control, history, bounds>>

-----------------------------------------------------------------------------
(* Update words and nodes. *)

NoInfo == <<>>
NoNode == <<>>
Update(state, info) == [state |-> state, info |-> info]
NullUpdate == Update("CLEAN", NoInfo)

Leaf(key) == [internal |-> FALSE, key |-> key]
Internal(key, update, left, right) ==
    [internal |-> TRUE, key |-> key, update |-> update, left |-> left, right |-> right]

Root    == <<"root">>
MinLeaf == <<"min">>
MaxLeaf == <<"max">>

InitialTree ==
    [n \in {Root, MinLeaf, MaxLeaf} |->
        CASE n = Root    -> Internal(MaxKey, NullUpdate, MinLeaf, MaxLeaf)
          [] n = MinLeaf -> Leaf(MinKey)
          [] n = MaxLeaf -> Leaf(MaxKey)]

(* The fields of an Info; an Info is named by its owner and its rank. *)
Info(op) == infos[op[1]][op[2]]
Owner(op) == op[1]
NewInfo(t) == <<t, Len(infos[t]) + 1>>

(* The nodes of an add are named after its Info. *)
NewNode(op, kind) == <<op[1], op[2], kind>>

-----------------------------------------------------------------------------
(* The set that the tree represents: the keys whose search path ends in a  *)
(* leaf with that key.                                                     *)
Child(tr, n, key) == IF key < tr[n].key THEN tr[n].left ELSE tr[n].right

LeafOf(tr, key) ==
    LET descend[n \in DOMAIN tr] ==
            IF tr[n].internal THEN descend[Child(tr, n, key)] ELSE n
    IN  descend[Root]

Contents(tr) == {k \in Keys : tr[LeafOf(tr, k)].key = k}

Abstract == INSTANCE ConcurrentSet WITH set <- Contents(tree)
NoCall == Abstract!NoCall

-----------------------------------------------------------------------------
NoSearch == [gp |-> NoNode, p |-> NoNode, l |-> NoNode,
             pupdate |-> NullUpdate, gpupdate |-> NullUpdate]

Init ==
    /\ tree = InitialTree
    /\ infos = [t \in Threads |-> <<>>]
    /\ released = [t \in Threads |-> <<>>]
    /\ pc = [t \in Threads |-> "idle"]
    /\ search = [t \in Threads |-> NoSearch]
    /\ seen = [t \in Threads |-> NullUpdate]
    /\ stack = [t \in Threads |-> <<>>]
    /\ own = [t \in Threads |-> FALSE]
    /\ todo = Setup
    /\ callsLeft = MaxCalls
    /\ call = [t \in Threads |-> NoCall]
    /\ answers = [t \in Threads |-> {}]
    /\ result = [t \in Threads |-> Abstract!NoResult]

-----------------------------------------------------------------------------
(* Control: how a thread goes on after a step. *)

GoTo(t, label) == pc' = [pc EXCEPT ![t] = label]

(* The locals of a call die with it; its result is an answer of the set. *)
Return(t, r) ==
    /\ GoTo(t, "idle")
    /\ search' = [search EXCEPT ![t] = NoSearch]
    /\ seen' = [seen EXCEPT ![t] = NullUpdate]
    /\ stack' = [stack EXCEPT ![t] = <<>>]
    /\ own' = [own EXCEPT ![t] = FALSE]
    /\ call' = [call EXCEPT ![t] = NoCall]
    /\ answers' = [answers EXCEPT ![t] = {}]
    /\ result' = [result EXCEPT ![t] = {r}]
    /\ UNCHANGED bounds

(* Back to the head of the while(true): Search again from the root. *)
Retry(t) ==
    /\ GoTo(t, "update")
    /\ search' = [search EXCEPT ![t].l = Root]
    /\ seen' = [seen EXCEPT ![t] = NullUpdate]
    /\ stack' = [stack EXCEPT ![t] = <<>>]
    /\ own' = [own EXCEPT ![t] = FALSE]
    /\ UNCHANGED <<history, bounds>>

(* The activation that Help(u) starts; none for a clean word. *)
Frame(at, op) == [at |-> at, op |-> op]
Help(u) ==
    CASE u.state = "IFLAG" -> <<Frame("insertChild", u.info)>>
      [] u.state = "MARK"  -> <<Frame("markedOther", u.info)>>
      [] u.state = "DFLAG" -> <<Frame("deleteRead", u.info)>>
      [] OTHER             -> <<>>

Run(t, frames, isOwn) ==
    /\ GoTo(t, "help")
    /\ stack' = [stack EXCEPT ![t] = frames]
    /\ own' = [own EXCEPT ![t] = isOwn]
    /\ UNCHANGED <<search, seen, bounds>>

(* Help(u) as the last thing before the loop starts over. *)
FaultyHelpThenRetry(t, u) ==            \* helps the inserts only
    IF u.state # "IFLAG" THEN Retry(t)
                         ELSE Run(t, Help(u), FALSE) /\ UNCHANGED history

HelpThenRetry(t, u) ==
    IF u.state = "CLEAN" THEN Retry(t)
                         ELSE Run(t, Help(u), FALSE) /\ UNCHANGED history

Top(t) == Last(stack[t])
At(t, label) == pc[t] = "help" /\ Top(t).at = label

(* The innermost call goes on with another frame, or calls another. *)
Continue(t, frames) ==
    /\ stack' = [stack EXCEPT ![t] = Front(@) \o frames]
    /\ UNCHANGED <<pc, search, seen, own, bounds>>

(* The innermost call returns `done'. *)
PopFrame(t, done) ==
    IF Len(stack[t]) > 1
    THEN Continue(t, <<>>) /\ UNCHANGED history
    ELSE IF own[t] /\ done THEN Return(t, TRUE) ELSE Retry(t)

(* releaseNode; a clean word without an Info has nothing to release. *)
Release(t, things) == released' = [released EXCEPT ![t] = @ \o things]
InfoOf(u) == IF u.info = NoInfo THEN <<>> ELSE <<u.info>>

SetUpdate(n, u) == tree' = [tree EXCEPT ![n].update = u]

-----------------------------------------------------------------------------
(* A call starts: in the setup, then from the menu of the thread. *)
Start(t, c) ==
    /\ pc[t] = "idle"
    /\ IF todo # <<>>
       THEN /\ t = SetupThread
            /\ c = [op |-> "add", key |-> Head(todo)]
            /\ todo' = Tail(todo)
            /\ UNCHANGED callsLeft
       ELSE /\ pc[SetupThread] = "idle" \/ callsLeft[SetupThread] < MaxCalls[SetupThread]
            /\ c \in Menu[t]
            /\ callsLeft[t] > 0
            /\ callsLeft' = [callsLeft EXCEPT ![t] = @ - 1]
            /\ UNCHANGED todo
    /\ GoTo(t, "update")
    /\ search' = [search EXCEPT ![t].l = Root]
    /\ call' = [call EXCEPT ![t] = c]
    /\ answers' = [answers EXCEPT ![t] = Abstract!Observed(c, Contents(tree))]
    /\ result' = [result EXCEPT ![t] = Abstract!NoResult]
    /\ UNCHANGED <<memory, seen, stack, own>>

-----------------------------------------------------------------------------
(* Search: the update word of a node is read before its child. *)
ReadUpdate(t) ==
    /\ pc[t] = "update"
    /\ search' = [search EXCEPT ![t] =
         [gp |-> @.p, p |-> @.l, l |-> @.l,
          gpupdate |-> @.pupdate, pupdate |-> tree[@.l].update]]
    /\ GoTo(t, "child")
    /\ UNCHANGED <<memory, history, bounds, seen, stack, own>>

NextChild(t) == Child(tree, search[t].p, call[t].key)

ReadChild(t) ==
    /\ pc[t] = "child"
    /\ tree[NextChild(t)].internal
    /\ search' = [search EXCEPT ![t].l = NextChild(t)]
    /\ GoTo(t, "update")
    /\ UNCHANGED <<memory, history, bounds, seen, stack, own>>

(* The last read of Search finds a leaf, and the caller looks at its key. *)
Reaches(t, op, found) ==
    /\ pc[t] = "child"
    /\ call[t].op = op
    /\ ~tree[NextChild(t)].internal
    /\ found = (tree[NextChild(t)].key = call[t].key)

ContainsReturns(t) ==
    \E found \in BOOLEAN :
        /\ Reaches(t, "contains", found)
        /\ Return(t, found)
        /\ UNCHANGED memory

AddFindsKey(t) ==
    /\ Reaches(t, "add", TRUE)
    /\ Return(t, FALSE)
    /\ UNCHANGED memory

RemoveMissesKey(t) ==
    /\ Reaches(t, "remove", FALSE)
    /\ Return(t, FALSE)
    /\ UNCHANGED memory

(* A flag in the way is helped, the grandparent's first in a remove. *)
Obstacle(t) ==
    IF call[t].op = "remove" /\ search[t].gpupdate.state # "CLEAN"
    THEN search[t].gpupdate
    ELSE search[t].pupdate

Proceeds(t) == Reaches(t, "add", FALSE) \/ Reaches(t, "remove", TRUE)

HelpsObstacle(t) ==
    /\ Proceeds(t)
    /\ Obstacle(t).state # "CLEAN"
    /\ HelpThenRetry(t, Obstacle(t))
    /\ UNCHANGED memory

FaultyPreparesOperation(t) ==           \* reads the word after the child
    /\ Proceeds(t)
    /\ Obstacle(t).state = "CLEAN"
    /\ search' = [search EXCEPT ![t].l = NextChild(t),
                                ![t].pupdate = tree[search[t].p].update]
    /\ GoTo(t, "result")
    /\ UNCHANGED <<memory, history, bounds, seen, stack, own>>

PreparesOperation(t) ==
    /\ Proceeds(t)
    /\ Obstacle(t).state = "CLEAN"
    /\ search' = [search EXCEPT ![t].l = NextChild(t)]
    /\ GoTo(t, "result")
    /\ UNCHANGED <<memory, history, bounds, seen, stack, own>>

-----------------------------------------------------------------------------
(* add and remove: read the word, then CAS it.  What the failing CAS has   *)
(* met may be newer than what was read: it is the read word that is helped.*)
FlagNode(t) == IF call[t].op = "add" THEN search[t].p ELSE search[t].gp
Expected(t) == IF call[t].op = "add" THEN search[t].pupdate ELSE search[t].gpupdate

ReadResult(t) ==
    /\ pc[t] = "result"
    /\ seen' = [seen EXCEPT ![t] = tree[FlagNode(t)].update]
    /\ GoTo(t, "flag")
    /\ UNCHANGED <<memory, history, bounds, search, stack, own>>

FlagFails(t) ==
    /\ pc[t] = "flag"
    /\ tree[FlagNode(t)].update # Expected(t)
    /\ HelpThenRetry(t, seen[t])
    /\ UNCHANGED memory

(* The new internal node: the smaller key on the left. *)
Subtree(op, key, oldKey, internal) ==
    [n \in {NewNode(op, kind) : kind \in {"leaf", "sibling", "internal"}} |->
        CASE n = NewNode(op, "leaf")     -> Leaf(key)
          [] n = NewNode(op, "sibling")  -> Leaf(oldKey)
          [] n = NewNode(op, "internal") -> internal]

FaultyNewSubtree(op, key, oldKey) ==    \* always the new leaf on the left
    Subtree(op, key, oldKey,
            Internal(IF key <= oldKey THEN oldKey ELSE key, NullUpdate,
                     NewNode(op, "leaf"), NewNode(op, "sibling")))

OneSidedSubtree(op, key, oldKey) ==     \* stores to left twice
    LET leaf    == NewNode(op, "leaf")
        sibling == NewNode(op, "sibling")
    IN  Subtree(op, key, oldKey,
                IF key <= oldKey THEN Internal(oldKey, NullUpdate, leaf, sibling)
                                 ELSE Internal(key, NullUpdate, leaf, NoNode))

NewSubtree(op, key, oldKey) ==
    LET leaf    == NewNode(op, "leaf")
        sibling == NewNode(op, "sibling")
    IN  Subtree(op, key, oldKey,
                IF key <= oldKey THEN Internal(oldKey, NullUpdate, leaf, sibling)
                                 ELSE Internal(key, NullUpdate, sibling, leaf))

AddNodes(new, tr) ==
    [n \in DOMAIN new \cup DOMAIN tr |-> IF n \in DOMAIN new THEN new[n] ELSE tr[n]]

AddFlags(t) ==
    LET s  == search[t]
        op == NewInfo(t)
    IN  /\ pc[t] = "flag"
        /\ call[t].op = "add"
        /\ tree[s.p].update = s.pupdate
        /\ tree' = AddNodes(NewSubtree(op, call[t].key, tree[s.l].key),
                            [tree EXCEPT ![s.p].update = Update("IFLAG", op)])
        /\ infos' = [infos EXCEPT ![t] = Append(@,
              [p |-> s.p, newInternal |-> NewNode(op, "internal"), l |-> s.l])]
        /\ Run(t, Help(Update("IFLAG", op)), TRUE)
        /\ UNCHANGED <<history, released>>

RemoveFlags(t) ==
    LET s  == search[t]
        op == NewInfo(t)
    IN  /\ pc[t] = "flag"
        /\ call[t].op = "remove"
        /\ tree[s.gp].update = s.gpupdate
        /\ SetUpdate(s.gp, Update("DFLAG", op))
        /\ infos' = [infos EXCEPT ![t] = Append(@,
              [gp |-> s.gp, p |-> s.p, l |-> s.l, pupdate |-> s.pupdate])]
        /\ Release(t, InfoOf(s.gpupdate))
        /\ Run(t, Help(Update("DFLAG", op)), TRUE)
        /\ UNCHANGED history

-----------------------------------------------------------------------------
(* CASChild: the side is chosen by the key of the new node, and whoever    *)
(* swings the pointer releases the old node.  It is here that the set      *)
(* changes, on behalf of the owner of the Info.                            *)
FaultyCASChild(t, op, parent, old, new) ==      \* releases even if it loses
    LET left    == tree[new].key < tree[parent].key
        current == IF left THEN tree[parent].left ELSE tree[parent].right
    IN  /\ IF current = old
           THEN /\ tree' = IF left THEN [tree EXCEPT ![parent].left = new]
                                   ELSE [tree EXCEPT ![parent].right = new]
                /\ answers' = Abstract!AnswersAfter(Owner(op), Contents(tree'))
           ELSE UNCHANGED <<tree, answers>>
        /\ Release(t, <<old>>)

CASChild(t, op, parent, old, new) ==
    LET left    == tree[new].key < tree[parent].key
        current == IF left THEN tree[parent].left ELSE tree[parent].right
    IN  IF current = old
        THEN /\ tree' = IF left THEN [tree EXCEPT ![parent].left = new]
                                ELSE [tree EXCEPT ![parent].right = new]
             /\ answers' = Abstract!AnswersAfter(Owner(op), Contents(tree'))
             /\ Release(t, <<old>>)
        ELSE UNCHANGED <<tree, answers, released>>

(* HelpInsert *)
InsertChild(t) ==
    LET op == Top(t).op
    IN  /\ At(t, "insertChild")
        /\ CASChild(t, op, Info(op).p, Info(op).l, Info(op).newInternal)
        /\ Continue(t, <<Frame("insertUnflag", op)>>)
        /\ UNCHANGED <<infos, call, result>>

(* CAS of an update word from one state of op to another. *)
FaultyCASState(n, op, from, to) == SetUpdate(n, Update(to, op))     \* a store
CASState(n, op, from, to) ==
    IF tree[n].update = Update(from, op) THEN SetUpdate(n, Update(to, op))
                                         ELSE UNCHANGED tree

(* The adding thread releases the Info that its flag replaced. *)
InsertUnflag(t) ==
    LET op == Top(t).op
    IN  /\ At(t, "insertUnflag")
        /\ CASState(Info(op).p, op, "IFLAG", "CLEAN")
        /\ PopFrame(t, TRUE)
        /\ IF own[t] /\ Len(stack[t]) = 1
           THEN Release(t, InfoOf(search[t].pupdate))
           ELSE UNCHANGED released
        /\ UNCHANGED infos

-----------------------------------------------------------------------------
(* HelpDelete *)
DeleteRead(t) ==
    LET op == Top(t).op
    IN  /\ At(t, "deleteRead")
        /\ Continue(t, <<[at |-> "deleteMark", op |-> op,
                          result |-> tree[Info(op).p].update]>>)
        /\ UNCHANGED <<memory, history>>

FaultyDeleteMark(t) ==                  \* leaves the unlinking to others
    LET op == Top(t).op
    IN  /\ At(t, "deleteMark")
        /\ tree[Info(op).p].update = Info(op).pupdate
        /\ SetUpdate(Info(op).p, Update("MARK", op))
        /\ Release(t, InfoOf(Info(op).pupdate) \o <<Info(op).l>>)
        /\ PopFrame(t, FALSE)
        /\ UNCHANGED infos

DeleteMark(t) ==
    LET op == Top(t).op
    IN  /\ At(t, "deleteMark")
        /\ tree[Info(op).p].update = Info(op).pupdate
        /\ SetUpdate(Info(op).p, Update("MARK", op))
        /\ Release(t, InfoOf(Info(op).pupdate) \o <<Info(op).l>>)
        /\ Continue(t, <<Frame("markedOther", op)>>)
        /\ UNCHANGED <<infos, history>>

DeleteMarkFails(t) ==
    /\ At(t, "deleteMark")
    /\ tree[Info(Top(t).op).p].update # Info(Top(t).op).pupdate
    /\ Continue(t, <<[Top(t) EXCEPT !.at = "deleteRecheck"]>>)
    /\ UNCHANGED <<memory, history>>

(* Marked by another for this very operation, or obstructed: help what was *)
(* read before the CAS, then take the flag back.                           *)
DeleteRecheck(t) ==
    LET op == Top(t).op
    IN  /\ At(t, "deleteRecheck")
        /\ Continue(t, IF tree[Info(op).p].update = Update("MARK", op)
                       THEN <<Frame("markedOther", op)>>
                       ELSE <<Frame("backtrack", op)>> \o Help(Top(t).result))
        /\ UNCHANGED <<memory, history>>

Backtrack(t) ==
    LET op == Top(t).op
    IN  /\ At(t, "backtrack")
        /\ CASState(Info(op).gp, op, "DFLAG", "CLEAN")
        /\ PopFrame(t, FALSE)
        /\ UNCHANGED <<infos, released>>

-----------------------------------------------------------------------------
(* HelpMarked: the children of a marked node no longer change (see         *)
(* UpdateProtocol), so they are read in one step.                          *)
MarkedOther(t) ==
    LET op == Top(t).op
        p  == tree[Info(op).p]
    IN  /\ At(t, "markedOther")
        /\ Continue(t, <<[at |-> "markedChild", op |-> op,
                          other |-> IF p.right = Info(op).l THEN p.left ELSE p.right]>>)
        /\ UNCHANGED <<memory, history>>

MarkedChild(t) ==
    LET op == Top(t).op
    IN  /\ At(t, "markedChild")
        /\ CASChild(t, op, Info(op).gp, Info(op).p, Top(t).other)
        /\ Continue(t, <<Frame("markedUnflag", op)>>)
        /\ UNCHANGED <<infos, call, result>>

MarkedUnflag(t) ==
    LET op == Top(t).op
    IN  /\ At(t, "markedUnflag")
        /\ CASState(Info(op).gp, op, "DFLAG", "CLEAN")
        /\ PopFrame(t, TRUE)
        /\ UNCHANGED <<infos, released>>

-----------------------------------------------------------------------------
Searching(t) ==
    \/ ReadUpdate(t)
    \/ ReadChild(t)
    \/ ContainsReturns(t)
    \/ AddFindsKey(t)
    \/ RemoveMissesKey(t)
    \/ HelpsObstacle(t)
    \/ PreparesOperation(t)

Flagging(t) ==
    \/ ReadResult(t)
    \/ FlagFails(t)
    \/ AddFlags(t)
    \/ RemoveFlags(t)

Helping(t) ==
    \/ InsertChild(t)
    \/ InsertUnflag(t)
    \/ DeleteRead(t)
    \/ DeleteMark(t)
    \/ DeleteMarkFails(t)
    \/ DeleteRecheck(t)
    \/ Backtrack(t)
    \/ MarkedOther(t)
    \/ MarkedChild(t)
    \/ MarkedUnflag(t)

Step(t) == Searching(t) \/ Flagging(t) \/ Helping(t)

Next == \E t \in Threads :
            \/ \E c \in Abstract!SetCalls : Start(t, c)
            \/ Step(t)

Spec == Init /\ [][Next]_vars

(* The threads of Live are scheduled again and again; the others may stop  *)
(* for ever after any step, in the middle of an operation.                 *)
FairSpec == Spec /\ \A t \in Live : WF_vars(Step(t))

-----------------------------------------------------------------------------
Nodes == DOMAIN tree
InfoIds == UNION {{t} \X (1 .. Len(infos[t])) : t \in Threads}
States == {"CLEAN", "DFLAG", "IFLAG", "MARK"}
Updates == {NullUpdate} \cup [state : States, info : InfoIds]
Bounds == Keys \cup {MinKey, MaxKey}
Labels == {"idle", "update", "child", "result", "flag", "help"}

TypeOK ==
    /\ \A n \in Nodes :
         \/ tree[n] \in [internal : {FALSE}, key : Bounds]
         \/ tree[n] \in [internal : {TRUE}, key : Bounds, update : Updates,
                         left : Nodes, right : Nodes]
    /\ \A op \in InfoIds :
         \/ Info(op) \in [p : Nodes, newInternal : Nodes, l : Nodes]
         \/ Info(op) \in [gp : Nodes, p : Nodes, l : Nodes, pupdate : Updates]
    /\ released \in [Threads -> Seq(Nodes \cup InfoIds)]
    /\ pc \in [Threads -> Labels]
    /\ \A t \in Threads :
         /\ search[t] \in [gp : Nodes \cup {NoNode}, p : Nodes \cup {NoNode},
                           l : Nodes \cup {NoNode}, pupdate : Updates, gpupdate : Updates]
         /\ pc[t] = "help" <=> stack[t] # <<>>
         /\ pc[t] = "idle" <=> call[t] = NoCall
    /\ seen \in [Threads -> Updates]
    /\ own \in [Threads -> BOOLEAN]
    /\ \A t \in Threads : callsLeft[t] \in 0 .. MaxCalls[t]
    /\ Abstract!SetTypeOK

(* Linearizability: every call returns what the set answered at some       *)
(* moment of the call, and every add or remove that returns true changed   *)
(* the set exactly once, whichever thread did the CAS for it.              *)
ImplementsSet == Abstract!SetSpec

(* The nodes that a search can meet from a node on, and from the root. *)
NodesFrom(start) ==
    LET below[n \in Nodes] ==
            IF tree[n].internal
            THEN {n} \cup below[tree[n].left] \cup below[tree[n].right]
            ELSE {n}
    IN  below[start]
Reachable == NodesFrom(Root)

(* The tree stays a search tree with two children under every internal     *)
(* node: whatever the concurrent CASes of children, the left subtree of a  *)
(* node holds the smaller keys, the right one the others, so that a search *)
(* that finds its key, or does not, is right about it.                     *)
SearchTree ==
    \A n \in Reachable : tree[n].internal =>
        /\ \A m \in NodesFrom(tree[n].left) : tree[m].key < tree[n].key
        /\ \A m \in NodesFrom(tree[n].right) : tree[n].key <= tree[m].key

(* The discipline of the update words.  A word leaves CLEAN for the flag   *)
(* or the mark of an operation, goes back to CLEAN for the same operation, *)
(* and never leaves MARK.  A child changes only under the flag of the      *)
(* operation that changes it: under IFLAG the leaf of the Info, under      *)
(* DFLAG the parent of the Info, which that operation has marked first.    *)
(* So a marked node, and the parent of a marked node, are frozen.          *)
WordStep(u, v) ==
    \/ u.state = "CLEAN" /\ v.state \in {"IFLAG", "DFLAG", "MARK"}
    \/ u.state \in {"IFLAG", "DFLAG"} /\ v = Update("CLEAN", u.info)

ChildStep(n, old) ==
    LET u == tree[n].update
    IN  \/ u.state = "IFLAG" /\ Info(u.info).p = n /\ Info(u.info).l = old
        \/ /\ u.state = "DFLAG" /\ Info(u.info).gp = n /\ Info(u.info).p = old
           /\ tree[old].update = Update("MARK", u.info)

NodeStep(n) ==
    /\ tree'[n].update # tree[n].update => WordStep(tree[n].update, tree'[n].update)
    /\ tree'[n].left # tree[n].left => ChildStep(n, tree[n].left)
    /\ tree'[n].right # tree[n].right => ChildStep(n, tree[n].right)

UpdateProtocol == [][\A n \in Nodes : tree[n].internal => NodeStep(n)]_vars

(* However many threads help an operation, its nodes and Infos are given   *)
(* back to the hazard manager once: releaseNode does not look for doubles. *)
ReleasedOnce ==
    \A t, u \in Threads : \A j \in DOMAIN released[t], k \in DOMAIN released[u] :
        released[t][j] = released[u][k] => t = u /\ j = k

(* A thread recycles what it released when it next asks the manager for a  *)
(* node.  A leaf is released before it is unlinked, but by then it is out: *)
(* no released node can be met from the root, and no update word on the    *)
(* way names a released Info.                                              *)
Named == {tree[n].update.info : n \in {m \in Reachable : tree[m].internal}}

ReleasedIsGone ==
    \A t \in Threads : pc[t] # "help" =>
        Range(released[t]) \cap (Reachable \cup Named) = {}

(* Non-blocking: the calls of the live threads return, though any of the   *)
(* other threads may have stopped for ever in the middle of an operation.  *)
LiveCallsReturn == \A t \in Live : call[t] # NoCall ~> call[t] = NoCall
=============================================================================
