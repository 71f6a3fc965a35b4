------------------------------ MODULE SkipList ------------------------------
(***************************************************************************)
(* The lock-free skip list of include/skiplist/SkipList.hpp.  Every level  *)
(* is a linked list whose pointers carry a mark; a node is in the set from *)
(* the CAS that links it at level 0 to the CAS that marks it there.  The   *)
(* upper levels are an index: an add links them one by one afterwards, a   *)
(* remove marks them first, from the top down, and find snips the marked   *)
(* nodes that it meets.                                                    *)
(*                                                                         *)
(* A step is one read or one CAS of a next pointer; key and topLevel never *)
(* change while a node is in the list.  As in NBBST, every node is a new   *)
(* one: recycling is the subject of HazardManager.                         *)
(***************************************************************************)
EXTENDS Integers, Sequences, SequencesExt, FiniteSets

CONSTANTS
    Threads,
    Keys,           \* keys of the calls, strictly between MinKey and MaxKey
    MinKey,         \* numeric_limits<int>::min()
    MaxKey,         \* numeric_limits<int>::max()
    MaxLevel,       \* MAX_LEVEL
    SetupThread,    \* adds the keys of Setup before the others start
    Setup,          \* sequence of keys
    Menu,           \* Menu[t]: the calls that t may make
    MaxCalls,       \* bound: MaxCalls[t] calls of t, after the setup
    Live            \* threads that are never stopped for ever

ASSUME SkipListAssumption ==
    /\ MaxLevel \in Nat
    /\ SetupThread \in Threads
    /\ Keys \cup {MinKey, MaxKey} \subseteq Int
    /\ MinKey < MaxKey
    /\ \A k \in Keys : MinKey < k /\ k < MaxKey
    /\ Setup \in Seq(Keys)
    /\ MaxCalls \in [Threads -> Nat]
    /\ Live \subseteq Threads

Levels == 0 .. MaxLevel

VARIABLES
    list,       \* node -> its key, its topLevel and its next pointers
    pc,         \* pc[t]: what t is about to do
    here,       \* here[t]: the locals level, pred, curr, succ of t
    preds,      \* preds[t][level]: what the last find of t left
    succs,      \* succs[t][level]
    job,        \* job[t]: why t called find, and the level it was at
    height,     \* height[t]: topLevel of the node to add
    victim,     \* victim[t]: newElement of an add, nodeToRemove of a remove
    released,   \* released[t]: nodes that t gave to releaseNode
    todo,       \* keys that the setup has still to add
    callsLeft,  \* callsLeft[t]
    call,       \* call[t]: the call in progress
    answers,    \* answers[t]: the results it may return (history)
    result      \* result[t]: {what the last call returned}

locals  == <<preds, succs, height, victim>>
history == <<call, answers, result>>
bounds  == <<todo, callsLeft>>
vars    == <<list, released, pc, here, job, locals, history, bounds>>

-----------------------------------------------------------------------------
(* Marked pointers. *)
NoNode == <<>>
Ptr(ref, mark) == [ref |-> ref, mark |-> mark]
Plain(ref) == Ptr(ref, FALSE)
Mark(ptr) == Ptr(ptr.ref, TRUE)
Unmark(ptr) == Ptr(ptr.ref, FALSE)
Null == Plain(NoNode)

Head_ == <<"head">>
Tail_ == <<"tail">>

NodeRecord(key, topLevel, next) == [key |-> key, topLevel |-> topLevel, next |-> next]

InitialList ==
    [n \in {Head_, Tail_} |->
        IF n = Head_ THEN NodeRecord(MinKey, MaxLevel, [i \in Levels |-> Plain(Tail_)])
                     ELSE NodeRecord(MaxKey, 0, [i \in Levels |-> Null])]

(* A node is named by the thread that adds it and its rank. *)
NewName(t) == <<t, Cardinality({n \in DOMAIN list : Len(n) = 2 /\ n[1] = t}) + 1>>

(* The nodes that a level goes through from a node on, the marked ones     *)
(* included: the smallest set that has the node and is closed under next.  *)
Trail(l, level, n, S) == n \in S /\ \A m \in S : m = Tail_ \/ l[m].next[level].ref \in S
From(l, level, n) ==
    CHOOSE S \in SUBSET DOMAIN l :
        /\ Trail(l, level, n, S)
        /\ \A Q \in SUBSET S : Trail(l, level, n, Q) => Q = S

OnLevel(l, level) == From(l, level, Head_)

Contents(l) ==
    LET present == {n \in OnLevel(l, 0) : ~l[n].next[0].mark}
    IN  {k \in Keys : \E n \in present : l[n].key = k}

Abstract == INSTANCE ConcurrentSet WITH set <- Contents(list)
NoCall == Abstract!NoCall

-----------------------------------------------------------------------------
Job(why, level) == [why |-> why, level |-> level]
NoJob == Job("none", 0)
Nowhere == [level |-> 0, pred |-> NoNode, curr |-> Null, succ |-> Null]
NoPath == [level \in Levels |-> NoNode]

Init ==
    /\ list = InitialList
    /\ released = [t \in Threads |-> <<>>]
    /\ pc = [t \in Threads |-> "idle"]
    /\ here = [t \in Threads |-> Nowhere]
    /\ preds = [t \in Threads |-> NoPath]
    /\ succs = [t \in Threads |-> NoPath]
    /\ job = [t \in Threads |-> NoJob]
    /\ height = [t \in Threads |-> 0]
    /\ victim = [t \in Threads |-> NoNode]
    /\ todo = Setup
    /\ callsLeft = MaxCalls
    /\ call = [t \in Threads |-> NoCall]
    /\ answers = [t \in Threads |-> {}]
    /\ result = [t \in Threads |-> Abstract!NoResult]

-----------------------------------------------------------------------------
(* Control: how a thread goes on after a step. *)
GoTo(t, label) == pc' = [pc EXCEPT ![t] = label]
Become(t, place) == here' = [here EXCEPT ![t] = place]

(* The locals of a call die with it. *)
Return(t, r) ==
    /\ GoTo(t, "idle")
    /\ Become(t, Nowhere)
    /\ preds' = [preds EXCEPT ![t] = NoPath]
    /\ succs' = [succs EXCEPT ![t] = NoPath]
    /\ job' = [job EXCEPT ![t] = NoJob]
    /\ height' = [height EXCEPT ![t] = 0]
    /\ victim' = [victim EXCEPT ![t] = NoNode]
    /\ call' = [call EXCEPT ![t] = NoCall]
    /\ answers' = [answers EXCEPT ![t] = {}]
    /\ result' = [result EXCEPT ![t] = {r}]
    /\ UNCHANGED bounds

(* find starts at the top of the head; so does a retry. *)
Top == [Nowhere EXCEPT !.level = MaxLevel, !.pred = Head_]

Find(t, why) ==
    /\ GoTo(t, "findCurr")
    /\ Become(t, Top)
    /\ job' = [job EXCEPT ![t] = Job(why, here[t].level)]

AddNode(n, record, l) == [m \in DOMAIN l \cup {n} |-> IF m = n THEN record ELSE l[m]]
SwingNext(n, level, ptr) == list' = [list EXCEPT ![n].next[level] = ptr]

-----------------------------------------------------------------------------
(* A call starts: in the setup, then from the menu of the thread.  An add  *)
(* draws the level of its node.                                            *)
Start(t, c, level) ==
    /\ pc[t] = "idle"
    /\ IF todo # <<>>
       THEN /\ t = SetupThread
            /\ c = [op |-> "add", key |-> Head(todo)]
            /\ todo' = Tail(todo)
            /\ UNCHANGED callsLeft
       ELSE /\ pc[SetupThread] = "idle" \/ callsLeft[SetupThread] < MaxCalls[SetupThread]
            /\ c \in Menu[t]
            /\ callsLeft[t] > 0
            /\ callsLeft' = [callsLeft EXCEPT ![t] = @ - 1]
            /\ UNCHANGED todo
    /\ level = 0 \/ c.op = "add"
    /\ height' = [height EXCEPT ![t] = level]
    /\ IF c.op = "contains"
       THEN GoTo(t, "scanCurr") /\ Become(t, Top) /\ UNCHANGED job
       ELSE Find(t, c.op)
    /\ call' = [call EXCEPT ![t] = c]
    /\ answers' = [answers EXCEPT ![t] = Abstract!Observed(c, Contents(list))]
    /\ result' = [result EXCEPT ![t] = Abstract!NoResult]
    /\ UNCHANGED <<list, released, preds, succs, victim>>

-----------------------------------------------------------------------------
(* find *)
NextOf(n, level) == list[n].next[level]
FaultyBefore(t, ptr) == list[ptr.ref].key <= call[t].key        \* passes its key
Before(t, ptr) == list[ptr.ref].key < call[t].key

RetryFind(t) == GoTo(t, "findCurr") /\ Become(t, Top)

(* curr = pred->next[level], at the head of a level and after a snip; a    *)
(* marked pointer means that pred itself is being removed.                 *)
FindCurr(t) ==
    LET h == here[t]
        curr == NextOf(h.pred, h.level)
    IN  /\ pc[t] = "findCurr"
        /\ IF curr.mark THEN RetryFind(t)
           ELSE GoTo(t, "findSucc") /\ Become(t, [h EXCEPT !.curr = curr])
        /\ UNCHANGED <<list, released, job, locals, history, bounds>>

(* succ = curr->next[level]: snip a marked node, pass a smaller one. *)
FaultyFindMarked(t) ==                  \* waits for the snip of another thread
    /\ pc[t] = "findSucc"
    /\ NextOf(here[t].curr.ref, here[t].level).mark
    /\ RetryFind(t)
    /\ UNCHANGED <<list, released, job, locals, history, bounds>>

FindMarked(t) ==
    LET h == here[t]
        succ == NextOf(h.curr.ref, h.level)
    IN  /\ pc[t] = "findSucc"
        /\ succ.mark
        /\ GoTo(t, "findSnip")
        /\ Become(t, [h EXCEPT !.succ = succ])
        /\ UNCHANGED <<list, released, job, locals, history, bounds>>

FindForward(t) ==
    LET h == here[t]
        succ == NextOf(h.curr.ref, h.level)
    IN  /\ pc[t] = "findSucc"
        /\ ~succ.mark
        /\ Before(t, h.curr)
        /\ Become(t, [h EXCEPT !.pred = h.curr.ref, !.curr = succ])
        /\ UNCHANGED <<list, released, pc, job, locals, history, bounds>>

FaultyFindSnip(t) ==                    \* goes on after a failed CAS
    LET h == here[t]
    IN  /\ pc[t] = "findSnip"
        /\ IF NextOf(h.pred, h.level) = h.curr
           THEN SwingNext(h.pred, h.level, Unmark(h.succ))
           ELSE UNCHANGED list
        /\ GoTo(t, "findSucc")
        /\ Become(t, [h EXCEPT !.curr = Unmark(h.succ), !.succ = Null])
        /\ UNCHANGED <<released, job, locals, history, bounds>>

FindSnip(t) ==
    LET h == here[t]
    IN  /\ pc[t] = "findSnip"
        /\ IF NextOf(h.pred, h.level) = h.curr
           THEN /\ SwingNext(h.pred, h.level, Unmark(h.succ))
                /\ GoTo(t, "findCurr")
                /\ Become(t, [h EXCEPT !.curr = Null, !.succ = Null])
           ELSE RetryFind(t) /\ UNCHANGED list
        /\ UNCHANGED <<released, job, locals, history, bounds>>

(* The level is done: its preds and succs are known. *)
LevelDone(t) ==
    LET h == here[t]
    IN  /\ pc[t] = "findSucc"
        /\ ~NextOf(h.curr.ref, h.level).mark
        /\ ~Before(t, h.curr)
        /\ preds' = [preds EXCEPT ![t][h.level] = h.pred]
        /\ succs' = [succs EXCEPT ![t][h.level] = h.curr.ref]

FindDown(t) ==
    /\ LevelDone(t)
    /\ here[t].level > 0
    /\ GoTo(t, "findCurr")
    /\ Become(t, [here[t] EXCEPT !.level = @ - 1, !.curr = Null])
    /\ UNCHANGED <<list, released, job, height, victim, history, bounds>>

Found(t) == list[here[t].curr.ref].key = call[t].key

FindEnds(t, why) ==
    /\ pc[t] = "findSucc"
    /\ here[t].level = 0
    /\ ~NextOf(here[t].curr.ref, 0).mark
    /\ ~Before(t, here[t].curr)
    /\ job[t].why = why

-----------------------------------------------------------------------------
(* add.  The new node is private until it is linked, and appears in the    *)
(* model when it is: an add that finds its key drops a node no one knows.  *)
AddFindsKey(t) ==
    /\ FindEnds(t, "add")
    /\ Found(t)
    /\ Return(t, FALSE)
    /\ UNCHANGED <<list, released>>

AddPrepares(t) ==
    /\ FindEnds(t, "add")
    /\ ~Found(t)
    /\ LevelDone(t)
    /\ GoTo(t, "link")
    /\ Become(t, Nowhere)
    /\ UNCHANGED <<list, released, job, height, victim, history, bounds>>

(* The node gets its next pointers, all levels at once, and is linked at   *)
(* level 0.                                                                *)
FaultyLink(t) ==                        \* a CAS that does not see the mark
    LET new == NewName(t)
        next == [i \in Levels |-> IF i <= height[t] THEN Plain(succs[t][i]) ELSE Null]
    IN  /\ pc[t] = "link"
        /\ NextOf(preds[t][0], 0).ref = succs[t][0]
        /\ list' = AddNode(new, NodeRecord(call[t].key, height[t], next),
                           [list EXCEPT ![preds[t][0]].next[0].ref = new])
        /\ answers' = Abstract!AnswersAfter(t, Contents(list'))
        /\ victim' = [victim EXCEPT ![t] = new]
        /\ Become(t, [Nowhere EXCEPT !.level = 1])
        /\ GoTo(t, "linkUpper")
        /\ UNCHANGED <<released, job, preds, succs, height, call, result, bounds>>

Link(t) ==
    LET new == NewName(t)
        next == [i \in Levels |-> IF i <= height[t] THEN Plain(succs[t][i]) ELSE Null]
    IN  /\ pc[t] = "link"
        /\ NextOf(preds[t][0], 0) = Plain(succs[t][0])
        /\ list' = AddNode(new, NodeRecord(call[t].key, height[t], next),
                           [list EXCEPT ![preds[t][0]].next[0] = Plain(new)])
        /\ answers' = Abstract!AnswersAfter(t, Contents(list'))
        /\ victim' = [victim EXCEPT ![t] = new]
        /\ Become(t, [Nowhere EXCEPT !.level = 1])
        /\ GoTo(t, "linkUpper")
        /\ UNCHANGED <<released, job, preds, succs, height, call, result, bounds>>

LinkFails(t) ==
    /\ pc[t] = "link"
    /\ NextOf(preds[t][0], 0) # Plain(succs[t][0])
    /\ Find(t, "add")
    /\ UNCHANGED <<list, released, locals, history, bounds>>

(* The upper levels, bottom up.  After a failed CAS find renews preds and  *)
(* succs, not the next pointers of the node.                               *)
LinkUpper(t) ==
    LET level == here[t].level
    IN  /\ pc[t] = "linkUpper"
        /\ level <= height[t]
        /\ IF NextOf(preds[t][level], level) = Plain(succs[t][level])
           THEN /\ SwingNext(preds[t][level], level, Plain(victim[t]))
                /\ Become(t, [Nowhere EXCEPT !.level = level + 1])
                /\ UNCHANGED <<pc, job>>
           ELSE Find(t, "relink") /\ UNCHANGED list
        /\ UNCHANGED <<released, locals, history, bounds>>

ResumeLinking(t) ==
    /\ FindEnds(t, "relink")
    /\ LevelDone(t)
    /\ Become(t, [Nowhere EXCEPT !.level = job[t].level])
    /\ GoTo(t, "linkUpper")
    /\ UNCHANGED <<list, released, job, height, victim, history, bounds>>

AddReturns(t) ==
    /\ pc[t] = "linkUpper"
    /\ here[t].level > height[t]
    /\ Return(t, TRUE)
    /\ UNCHANGED <<list, released>>

-----------------------------------------------------------------------------
(* remove *)
RemoveMissesKey(t) ==
    /\ FindEnds(t, "remove")
    /\ ~Found(t)
    /\ Return(t, FALSE)
    /\ UNCHANGED <<list, released>>

FaultyRemovePrepares(t) ==              \* does not mark the upper levels
    /\ FindEnds(t, "remove")
    /\ Found(t)
    /\ victim' = [victim EXCEPT ![t] = here[t].curr.ref]
    /\ LevelDone(t)
    /\ Become(t, Nowhere)
    /\ GoTo(t, "readMark")
    /\ UNCHANGED <<list, released, job, height, history, bounds>>

RemovePrepares(t) ==
    LET node == here[t].curr.ref
    IN  /\ FindEnds(t, "remove")
        /\ Found(t)
        /\ victim' = [victim EXCEPT ![t] = node]
        /\ LevelDone(t)
        /\ Become(t, [Nowhere EXCEPT !.level = list[node].topLevel])
        /\ GoTo(t, "readMark")
        /\ UNCHANGED <<list, released, job, height, history, bounds>>

(* succ = nodeToRemove->next[level]: at an upper level a mark found there  *)
(* is as good as one's own; at level 0 it means that another remove won,   *)
(* and the whole call starts over.                                         *)
ReadMark(t) ==
    LET level == here[t].level
        succ == NextOf(victim[t], level)
    IN  /\ pc[t] = "readMark"
        /\ ~succ.mark
        /\ Become(t, [here[t] EXCEPT !.succ = succ])
        /\ GoTo(t, "mark")
        /\ UNCHANGED <<list, released, job, locals, history, bounds>>

UpperMarked(t) ==
    /\ pc[t] = "readMark"
    /\ here[t].level > 0
    /\ NextOf(victim[t], here[t].level).mark
    /\ Become(t, [Nowhere EXCEPT !.level = here[t].level - 1])
    /\ UNCHANGED <<list, released, pc, job, locals, history, bounds>>

FaultyRemoveLoses(t) ==                 \* takes the mark for its own
    /\ pc[t] = "readMark"
    /\ here[t].level = 0
    /\ NextOf(victim[t], 0).mark
    /\ Find(t, "snip")
    /\ UNCHANGED <<list, released, locals, history, bounds>>

RemoveLoses(t) ==
    /\ pc[t] = "readMark"
    /\ here[t].level = 0
    /\ NextOf(victim[t], 0).mark
    /\ Find(t, "remove")
    /\ UNCHANGED <<list, released, locals, history, bounds>>

MarkFails(t) ==
    /\ pc[t] = "mark"
    /\ NextOf(victim[t], here[t].level) # here[t].succ
    /\ GoTo(t, "readMark")
    /\ Become(t, [here[t] EXCEPT !.succ = Null])
    /\ UNCHANGED <<list, released, job, locals, history, bounds>>

MarkUpper(t) ==
    LET level == here[t].level
    IN  /\ pc[t] = "mark"
        /\ level > 0
        /\ NextOf(victim[t], level) = here[t].succ
        /\ SwingNext(victim[t], level, Mark(here[t].succ))
        /\ Become(t, [Nowhere EXCEPT !.level = level - 1])
        /\ GoTo(t, "readMark")
        /\ UNCHANGED <<released, job, locals, history, bounds>>

(* The mark at level 0 removes the key; find then snips the node. *)
MarkBottom(t) ==
    /\ pc[t] = "mark"
    /\ here[t].level = 0
    /\ NextOf(victim[t], 0) = here[t].succ
    /\ SwingNext(victim[t], 0, Mark(here[t].succ))
    /\ answers' = Abstract!AnswersAfter(t, Contents(list'))
    /\ Find(t, "snip")
    /\ UNCHANGED <<released, locals, call, result, bounds>>

RemoveReturns(t) ==
    /\ FindEnds(t, "snip")
    /\ released' = [released EXCEPT ![t] = Append(@, victim[t])]
    /\ Return(t, TRUE)
    /\ UNCHANGED list

-----------------------------------------------------------------------------
(* contains: the marks are passed over, nothing is written. *)
ScanCurr(t) ==
    LET h == here[t]
    IN  /\ pc[t] = "scanCurr"
        /\ Become(t, [h EXCEPT !.curr = Unmark(NextOf(h.pred, h.level))])
        /\ GoTo(t, "scanSucc")
        /\ UNCHANGED <<list, released, job, locals, history, bounds>>

ScanMarked(t) ==
    LET h == here[t]
    IN  /\ pc[t] = "scanSucc"
        /\ NextOf(h.curr.ref, h.level).mark
        /\ GoTo(t, "scanSkip")
        /\ UNCHANGED <<list, released, here, job, locals, history, bounds>>

ScanSkip(t) ==
    LET h == here[t]
    IN  /\ pc[t] = "scanSkip"
        /\ Become(t, [h EXCEPT !.curr = Unmark(NextOf(h.curr.ref, h.level))])
        /\ GoTo(t, "scanSucc")
        /\ UNCHANGED <<list, released, job, locals, history, bounds>>

ScanForward(t) ==
    LET h == here[t]
        succ == NextOf(h.curr.ref, h.level)
    IN  /\ pc[t] = "scanSucc"
        /\ ~succ.mark
        /\ Before(t, h.curr)
        /\ Become(t, [h EXCEPT !.pred = h.curr.ref, !.curr = succ])
        /\ UNCHANGED <<list, released, pc, job, locals, history, bounds>>

ScanDown(t) ==
    LET h == here[t]
    IN  /\ pc[t] = "scanSucc"
        /\ ~NextOf(h.curr.ref, h.level).mark
        /\ ~Before(t, h.curr)
        /\ h.level > 0
        /\ Become(t, [h EXCEPT !.level = h.level - 1, !.curr = Null])
        /\ GoTo(t, "scanCurr")
        /\ UNCHANGED <<list, released, job, locals, history, bounds>>

ContainsReturns(t) ==
    LET h == here[t]
    IN  /\ pc[t] = "scanSucc"
        /\ ~NextOf(h.curr.ref, h.level).mark
        /\ ~Before(t, h.curr)
        /\ h.level = 0
        /\ Return(t, list[h.curr.ref].key = call[t].key)
        /\ UNCHANGED <<list, released>>

-----------------------------------------------------------------------------
Finding(t) ==
    FindCurr(t) \/ FindMarked(t) \/ FindForward(t) \/ FindSnip(t) \/ FindDown(t)

Adding(t) ==
    \/ AddFindsKey(t) \/ AddPrepares(t) \/ Link(t) \/ LinkFails(t)
    \/ LinkUpper(t) \/ ResumeLinking(t) \/ AddReturns(t)

Removing(t) ==
    \/ RemoveMissesKey(t) \/ RemovePrepares(t)
    \/ ReadMark(t) \/ UpperMarked(t) \/ RemoveLoses(t)
    \/ MarkFails(t) \/ MarkUpper(t) \/ MarkBottom(t) \/ RemoveReturns(t)

Scanning(t) ==
    \/ ScanCurr(t) \/ ScanMarked(t) \/ ScanSkip(t) \/ ScanForward(t)
    \/ ScanDown(t) \/ ContainsReturns(t)

Step(t) == Finding(t) \/ Adding(t) \/ Removing(t) \/ Scanning(t)

Next == \E t \in Threads :
            \/ \E c \in Abstract!SetCalls, level \in Levels : Start(t, c, level)
            \/ Step(t)

Spec == Init /\ [][Next]_vars

(* The threads of Live are scheduled again and again; the others may stop  *)
(* for ever after any step, in the middle of an operation.                 *)
FairSpec == Spec /\ \A t \in Live : WF_vars(Step(t))

-----------------------------------------------------------------------------
Nodes == DOMAIN list
Labels == {"idle", "findCurr", "findSucc", "findSnip", "link", "linkUpper",
           "readMark", "mark", "scanCurr", "scanSucc", "scanSkip"}
Pointers == [ref : Nodes \cup {NoNode}, mark : BOOLEAN]

TypeOK ==
    /\ list \in [Nodes -> [key : Keys \cup {MinKey, MaxKey}, topLevel : Levels,
                           next : [Levels -> Pointers]]]
    /\ pc \in [Threads -> Labels]
    /\ here \in [Threads -> [level : 0 .. MaxLevel + 1, pred : Nodes \cup {NoNode},
                             curr : Pointers, succ : Pointers]]
    /\ preds \in [Threads -> [Levels -> Nodes \cup {NoNode}]]
    /\ succs \in [Threads -> [Levels -> Nodes \cup {NoNode}]]
    /\ job \in [Threads -> [why : {"none", "add", "relink", "remove", "snip"}, level : Levels]]
    /\ height \in [Threads -> Levels]
    /\ victim \in [Threads -> Nodes \cup {NoNode}]
    /\ released \in [Threads -> Seq(Nodes \ {Head_, Tail_})]
    /\ callsLeft \in [Threads -> Nat]
    /\ \A t \in Threads : callsLeft[t] <= MaxCalls[t]
    /\ \A t \in Threads : pc[t] = "idle" <=> call[t] = NoCall
    /\ Abstract!SetTypeOK

(* Linearizability: a key is in the set from the CAS that links its node   *)
(* at level 0 to the CAS that marks it there; every call returns what the  *)
(* set answered at some moment of the call, contains too, though it walks  *)
(* over marked and unlinked nodes and restarts nothing.                    *)
ImplementsSet == Abstract!SetSpec

(* The pointers of every node, linked or not, lead to larger keys, at      *)
(* level 0 without doubles: a stale place is never linked to.              *)
KeysAscend ==
    \A n \in Nodes \ {Tail_} : \A level \in 0 .. list[n].topLevel :
        LET next == list[n].next[level].ref
        IN  IF level = 0 THEN list[n].key < list[next].key
                         ELSE list[n].key <= list[next].key

(* Every level leads from the head to the tail in the order of the keys.   *)
(* The upper levels index level 0: a node met there is on level 0 too, or  *)
(* is marked at that level, so that the next find that meets it snips it.  *)
LevelsAreOrdered ==
    /\ KeysAscend
    /\ LET bottom == OnLevel(list, 0)
       IN  \A level \in Levels : \A n \in OnLevel(list, level) \ {Tail_} :
             /\ level <= list[n].topLevel
             /\ n \in bottom \/ list[n].next[level].mark

(* The discipline of the next pointers.  A marked pointer never changes    *)
(* again.  A mark keeps the pointer, and comes from the top level down to  *)
(* level 0.  At level 0 an unmarked pointer is only swung to a new node    *)
(* that points to the same successor, or past a marked successor: no node  *)
(* that is in the set is ever cut off.                                     *)
NextStep(n, level, old, new) ==
    /\ ~old.mark
    /\ IF new.mark
       THEN /\ new.ref = old.ref
            /\ \A upper \in level + 1 .. list[n].topLevel : list[n].next[upper].mark
       ELSE level = 0 =>
            \/ new.ref \notin Nodes /\ list'[new.ref].next[0] = old
            \/ list[old.ref].next[0] = Mark(new)

NextProtocol ==
    [][\A n \in Nodes : \A level \in Levels :
         list'[n].next[level] # list[n].next[level] =>
            NextStep(n, level, list[n].next[level], list'[n].next[level])]_vars

(* Two removes that meet on a node mark it both, and one of them releases  *)
(* it: releaseNode does not look for doubles.                              *)
ReleasedOnce ==
    \A t, u \in Threads : \A j \in DOMAIN released[t], k \in DOMAIN released[u] :
        released[t][j] = released[u][k] => t = u /\ j = k

(* The find of remove has snipped the node, or has seen it snipped, before *)
(* the node is released: it is not on level 0.  Nothing as strong holds of *)
(* the upper levels, where the add may still link the node (README).       *)
ReleasedIsGone ==
    \A n \in OnLevel(list, 0) : \A t \in Threads : n \notin Range(released[t])

(* Lock-freedom: the calls of the live threads return, though any of the   *)
(* other threads may have stopped for ever in the middle of an operation.  *)
LiveCallsReturn == \A t \in Live : call[t] # NoCall ~> call[t] = NoCall
=============================================================================
