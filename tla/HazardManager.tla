--------------------------- MODULE HazardManager ---------------------------
(***************************************************************************)
(* The hazard-pointer manager of include/HazardManager.hpp that all the    *)
(* trees share.  Every thread owns a row of hazard pointers (Pointers), a  *)
(* queue of the nodes it released (LocalQueues) and a queue of nodes ready *)
(* to be handed out (FreeQueues).  Only Pointers is read by other threads: *)
(* getFreeNode scans it, one hazard pointer per step, while the others go  *)
(* on publishing and releasing.                                            *)
(*                                                                         *)
(* The trees are represented by what they do to the manager: `inUse' is    *)
(* the set of nodes they hold, `locals' the pointers that a thread has     *)
(* read from a tree and may publish at any later time, the node being      *)
(* released in between or not.                                             *)
(***************************************************************************)
EXTENDS Naturals, Sequences, SequencesExt, FiniteSets

CONSTANTS
    NThreads,   \* template parameter Threads
    Size,       \* hazard pointers per thread
    Prefill,    \* nodes created per thread by the constructor
    NLocals,    \* bound: tree pointers a thread holds outside its slots
    Nodes,      \* bound: the nodes that `new Node()' can return
    Null        \* nullptr

ASSUME ParameterAssumption ==
    /\ NThreads \in Nat \ {0}       \* static_assert(Threads > 0)
    /\ Size \in Nat \ {0}           \* static_assert(Size > 0)
    /\ Prefill \in Nat
    /\ NLocals \in Nat \ {0}
    /\ Null \notin Nodes

Threads == 0 .. NThreads - 1
Indices == 0 .. Size - 1
Slots   == Threads \X Indices
Locals  == 1 .. NLocals

(* getFreeNode scans only when it has more released nodes than this. *)
Threshold == (Size + 1) * NThreads

VARIABLES
    Pointers,       \* Pointers[tid][i]: the hazard pointers
    LocalQueues,    \* LocalQueues[tid]: released, perhaps still referenced
    FreeQueues,     \* FreeQueues[tid]: ready to be handed out
    call,           \* call[tid]: the call of the manager in progress
    heap,           \* nodes created so far
    inUse,          \* nodes held by the client
    locals,         \* locals[tid][v]: tree pointers held by the client
    guarded         \* slots published while their node was in use (history)

managerVars == <<Pointers, LocalQueues, FreeQueues, call>>
clientVars  == <<heap, inUse, locals, guarded>>
vars        == <<managerVars, clientVars>>

(* A thread is outside the manager, in the loop of releaseAll about to     *)
(* clear slot i, or in the scan of getFreeNode: at position `it' of its    *)
(* local queue, about to compare it with Pointers[tid][i].                 *)
Idle == [op |-> "idle"]
ReleaseAllCalls == [op : {"releaseAll"}, i : Indices]
ScanCalls == [op : {"scan"}, it : Nat \ {0}, tid : Threads, i : Indices]
ScanAt(it, tid, i) == [op |-> "scan", it |-> it, tid |-> tid, i |-> i]
Calls == {Idle} \cup ReleaseAllCalls \cup ScanCalls

LocalNodes(t) == ToSet(LocalQueues[t])
FreeNodes(t)  == ToSet(FreeQueues[t])
Retired == UNION {LocalNodes(t) : t \in Threads}
Free    == UNION {FreeNodes(t) : t \in Threads}

-----------------------------------------------------------------------------
(* The constructor: no hazard pointer, Prefill new nodes per thread. *)
DistinctNodes(queues) ==
    \A t, u \in Threads : \A j, k \in 1 .. Prefill :
        queues[t][j] = queues[u][k] => t = u /\ j = k

Init ==
    /\ Pointers = [t \in Threads |-> [i \in Indices |-> Null]]
    /\ LocalQueues = [t \in Threads |-> <<>>]
    /\ FreeQueues \in [Threads -> [1 .. Prefill -> Nodes]]
    /\ DistinctNodes(FreeQueues)
    /\ call = [t \in Threads |-> Idle]
    /\ heap = Free
    /\ inUse = {}
    /\ locals = [t \in Threads |-> [v \in Locals |-> Null]]
    /\ guarded = {}

-----------------------------------------------------------------------------
(* The client reads a pointer from the tree: the node is in use now, but   *)
(* nothing keeps it so until the pointer is published.                     *)
Read(t, v, n) ==
    /\ call[t] = Idle
    /\ n \in inUse
    /\ locals' = [locals EXCEPT ![t][v] = n]
    /\ UNCHANGED <<managerVars, heap, inUse, guarded>>

publish(t, v, i) ==
    /\ call[t] = Idle
    /\ Pointers' = [Pointers EXCEPT ![t][i] = locals[t][v]]
    /\ guarded' = IF locals[t][v] \in inUse THEN guarded \cup {<<t, i>>}
                                            ELSE guarded \ {<<t, i>>}
    /\ UNCHANGED <<LocalQueues, FreeQueues, call, heap, inUse, locals>>

release(t, i) ==
    /\ call[t] = Idle
    /\ Pointers' = [Pointers EXCEPT ![t][i] = Null]
    /\ guarded' = guarded \ {<<t, i>>}
    /\ UNCHANGED <<LocalQueues, FreeQueues, call, heap, inUse, locals>>

(* releaseAll clears the row one store at a time: a scan can run between. *)
releaseAll(t) ==
    /\ call[t] = Idle
    /\ call' = [call EXCEPT ![t] = [op |-> "releaseAll", i |-> 0]]
    /\ UNCHANGED <<Pointers, LocalQueues, FreeQueues, clientVars>>

ReleaseNext(t) ==
    /\ call[t].op = "releaseAll"
    /\ LET i == call[t].i
       IN  /\ Pointers' = [Pointers EXCEPT ![t][i] = Null]
           /\ guarded' = guarded \ {<<t, i>>}
           /\ call' = [call EXCEPT ![t] =
                         IF i + 1 < Size THEN [@ EXCEPT !.i = i + 1] ELSE Idle]
    /\ UNCHANGED <<LocalQueues, FreeQueues, heap, inUse, locals>>

(* The client gives back a node it holds, once: any thread may, not only   *)
(* the one that was handed the node.                                       *)
FaultyReleaseNode(t, n) ==              \* reuses the node without a scan
    /\ call[t] = Idle
    /\ n \in inUse
    /\ FreeQueues' = [FreeQueues EXCEPT ![t] = Append(@, n)]
    /\ inUse' = inUse \ {n}
    /\ UNCHANGED <<Pointers, LocalQueues, call, heap, locals, guarded>>

releaseNode(t, n) ==
    /\ call[t] = Idle
    /\ n \in inUse
    /\ LocalQueues' = [LocalQueues EXCEPT ![t] = Append(@, n)]
    /\ inUse' = inUse \ {n}
    /\ UNCHANGED <<Pointers, FreeQueues, call, heap, locals, guarded>>

(* The checked variant may be called again for a node the thread has       *)
(* released already.                                                       *)
safe_release_node(t, n) ==
    /\ call[t] = Idle
    /\ n \in inUse \cup LocalNodes(t)
    /\ LocalQueues' = [LocalQueues EXCEPT
                         ![t] = IF Contains(@, n) THEN @ ELSE Append(@, n)]
    /\ inUse' = inUse \ {n}
    /\ UNCHANGED <<Pointers, FreeQueues, call, heap, locals, guarded>>

-----------------------------------------------------------------------------
(* getFreeNode: the front of the free queue when there is one ... *)
PopFree(t) ==
    /\ FreeQueues[t] # <<>>
    /\ FreeQueues' = [FreeQueues EXCEPT ![t] = Tail(@)]
    /\ inUse' = inUse \cup {Head(FreeQueues[t])}

TakeFree(t) ==
    /\ call[t] = Idle
    /\ PopFree(t)
    /\ UNCHANGED <<Pointers, LocalQueues, call, heap, locals, guarded>>

(* ... else a scan of the released nodes when there are enough of them ... *)
StartScan(t) ==
    /\ call[t] = Idle
    /\ FreeQueues[t] = <<>>
    /\ Len(LocalQueues[t]) > Threshold
    /\ call' = [call EXCEPT ![t] = ScanAt(1, 0, 0)]
    /\ UNCHANGED <<Pointers, LocalQueues, FreeQueues, clientVars>>

(* ... else a new node. *)
NewNode(t, n) ==
    /\ call[t] = Idle
    /\ FreeQueues[t] = <<>>
    /\ Len(LocalQueues[t]) <= Threshold
    /\ n \in Nodes \ heap
    /\ heap' = heap \cup {n}
    /\ inUse' = inUse \cup {n}
    /\ UNCHANGED <<managerVars, locals, guarded>>

(* isReferenced: the slots in the order it compares them. *)
Scanning(t) == call[t].op = "scan" /\ call[t].it <= Len(LocalQueues[t])
Candidate(t) == LocalQueues[t][call[t].it]
NextSlot(c) == IF c.i + 1 < Size THEN ScanAt(c.it, c.tid, c.i + 1)
                                 ELSE ScanAt(c.it, c.tid + 1, 0)
FaultyLastSlot(c) == NextSlot(c).tid >= NThreads - 1    \* skips the last row
LastSlot(c) == NextSlot(c).tid = NThreads

(* The slot holds the candidate: it stays in the local queue. *)
FaultySlotMatches(t) ==                 \* starts over instead of ++it
    /\ Scanning(t)
    /\ Pointers[call[t].tid][call[t].i] = Candidate(t)
    /\ call' = [call EXCEPT ![t] = ScanAt(@.it, 0, 0)]
    /\ UNCHANGED <<Pointers, LocalQueues, FreeQueues, clientVars>>

FaultyMatchIgnored(t) ==                \* the match is overwritten by the next slot
    /\ Scanning(t)
    /\ Pointers[call[t].tid][call[t].i] = Candidate(t)
    /\ call' = [call EXCEPT ![t] = IF LastSlot(@) THEN ScanAt(@.it + 1, 0, 0)
                                                  ELSE NextSlot(@)]
    /\ UNCHANGED <<Pointers, LocalQueues, FreeQueues, clientVars>>

SlotMatches(t) ==
    /\ Scanning(t)
    /\ Pointers[call[t].tid][call[t].i] = Candidate(t)
    /\ call' = [call EXCEPT ![t] = ScanAt(@.it + 1, 0, 0)]
    /\ UNCHANGED <<Pointers, LocalQueues, FreeQueues, clientVars>>

SlotDiffers(t) ==
    /\ Scanning(t)
    /\ Pointers[call[t].tid][call[t].i] # Candidate(t)
    /\ ~LastSlot(call[t])
    /\ call' = [call EXCEPT ![t] = NextSlot(@)]
    /\ UNCHANGED <<Pointers, LocalQueues, FreeQueues, clientVars>>

(* No slot held the candidate: it moves to the free queue. *)
FaultyUnreferenced(t) ==                \* push_back without the erase
    /\ Scanning(t)
    /\ Pointers[call[t].tid][call[t].i] # Candidate(t)
    /\ LastSlot(call[t])
    /\ FreeQueues' = [FreeQueues EXCEPT ![t] = Append(@, Candidate(t))]
    /\ call' = [call EXCEPT ![t] = ScanAt(@.it + 1, 0, 0)]
    /\ UNCHANGED <<Pointers, LocalQueues, clientVars>>

SkippingUnreferenced(t) ==              \* ++it after the erase
    /\ Scanning(t)
    /\ Pointers[call[t].tid][call[t].i] # Candidate(t)
    /\ LastSlot(call[t])
    /\ FreeQueues' = [FreeQueues EXCEPT ![t] = Append(@, Candidate(t))]
    /\ LocalQueues' = [LocalQueues EXCEPT ![t] = RemoveAt(@, call[t].it)]
    /\ call' = [call EXCEPT ![t] = ScanAt(@.it + 1, 0, 0)]
    /\ UNCHANGED <<Pointers, clientVars>>

Unreferenced(t) ==
    /\ Scanning(t)
    /\ Pointers[call[t].tid][call[t].i] # Candidate(t)
    /\ LastSlot(call[t])
    /\ FreeQueues' = [FreeQueues EXCEPT ![t] = Append(@, Candidate(t))]
    /\ LocalQueues' = [LocalQueues EXCEPT ![t] = RemoveAt(@, call[t].it)]
    /\ call' = [call EXCEPT ![t] = ScanAt(@.it, 0, 0)]
    /\ UNCHANGED <<Pointers, clientVars>>

(* it == end: the front of the free queue is returned, which is undefined  *)
(* behaviour when the scan found no free node (see ScanFindsFree).         *)
ScanEnded(t) == call[t].op = "scan" /\ call[t].it > Len(LocalQueues[t])

EndScan(t) ==
    /\ ScanEnded(t)
    /\ PopFree(t)
    /\ call' = [call EXCEPT ![t] = Idle]
    /\ UNCHANGED <<Pointers, LocalQueues, heap, locals, guarded>>

-----------------------------------------------------------------------------
Client(t) ==
    \/ \E n \in Nodes :
         \/ \E v \in Locals : Read(t, v, n)
         \/ releaseNode(t, n)
         \/ safe_release_node(t, n)
         \/ NewNode(t, n)
    \/ \E i \in Indices :
         \/ \E v \in Locals : publish(t, v, i)
         \/ release(t, i)
    \/ releaseAll(t)
    \/ TakeFree(t)
    \/ StartScan(t)

(* The steps a thread takes by itself once it is inside the manager. *)
Inside(t) ==
    \/ ReleaseNext(t)
    \/ SlotMatches(t)
    \/ SlotDiffers(t)
    \/ Unreferenced(t)
    \/ EndScan(t)

Next == \E t \in Threads : Client(t) \/ Inside(t)

Spec == Init /\ [][Next]_vars

-----------------------------------------------------------------------------
TypeOK ==
    /\ Pointers \in [Threads -> [Indices -> Nodes \cup {Null}]]
    /\ LocalQueues \in [Threads -> Seq(Nodes)]
    /\ FreeQueues \in [Threads -> Seq(Nodes)]
    /\ call \in [Threads -> Calls]
    /\ heap \subseteq Nodes
    /\ inUse \subseteq Nodes
    /\ locals \in [Threads -> [Locals -> Nodes \cup {Null}]]
    /\ guarded \subseteq Slots

(* Every node created is in exactly one place, once: held by the client,   *)
(* in one local queue or in one free queue.  No interleaving of releases   *)
(* and scans leaks a node or queues it twice, which would hand it to two   *)
(* callers (releaseNode pushes without looking).                           *)
UniqueOwner ==
    /\ heap = inUse \cup Retired \cup Free
    /\ inUse \cap (Retired \cup Free) = {}
    /\ Retired \cap Free = {}
    /\ \A t \in Threads : IsInjective(LocalQueues[t]) /\ IsInjective(FreeQueues[t])
    /\ \A t, u \in Threads : t # u =>
         /\ LocalNodes(t) \cap LocalNodes(u) = {}
         /\ FreeNodes(t) \cap FreeNodes(u) = {}

(* A node published while it was in use is not recycled before its slot is *)
(* overwritten or released, whatever the scan has read so far.             *)
HazardSafety ==
    \A s \in guarded : Pointers[s[1]][s[2]] \in inUse \cup Retired

(* Why the scan may read the slots one by one: a guarded slot that it has  *)
(* passed does not hold the candidate, and cannot come to hold it, for the *)
(* candidate is retired.  HazardSafety is not inductive without it.        *)
Passed(t, s) ==
    \/ s[1] < call[t].tid
    \/ s[1] = call[t].tid /\ s[2] < call[t].i

ScanCovers ==
    \A t \in Threads, s \in guarded :
        Scanning(t) /\ Passed(t, s) => Pointers[s[1]][s[2]] # Candidate(t)

(* The memory that the scans hold back is bounded.  A scan keeps a node    *)
(* only if it has met it in a slot, so however many nodes a thread has     *)
(* released, no more are left than there are slots, and pointers that the  *)
(* other threads may still publish, each just before the scan comes by.    *)
PointerCount == NThreads * Size + (NThreads - 1) * NLocals

ScanLeavesFew ==
    \A t \in Threads : ScanEnded(t) => Len(LocalQueues[t]) <= PointerCount

(* What the comment of getFreeNode promises: a finished scan has a node to *)
(* return.  It had more than Threshold candidates, so it does have one as  *)
(* long as PointerCount is no more than that, and none is left to return   *)
(* when the other threads publish more pointers late.                      *)
ScanFindsFree ==
    \A t \in Threads : ScanEnded(t) => FreeQueues[t] # <<>>

(* The calls are wait-free: while a thread is inside the manager the steps *)
(* of the others leave its call and its local queue alone, and each of its *)
(* own steps brings its return nearer, by at most one pass over all the    *)
(* hazard pointers for each released node.                                 *)
StepsLeft(t) ==
    LET c == call[t]
    IN  CASE c.op = "idle" -> 0
          [] c.op = "releaseAll" -> Size - c.i
          [] OTHER -> 1 + (Len(LocalQueues[t]) + 1 - c.it) * (NThreads * Size)
                        - (c.tid * Size + c.i)

CallsAreBounded ==
    [][\A t \in Threads : call[t] # Idle =>
         \/ UNCHANGED <<call[t], LocalQueues[t]>>
         \/ StepsLeft(t)' < StepsLeft(t)]_vars

(* The manager is a NodePool whose protections are the guarded slots. *)
Pool == INSTANCE NodePool WITH
            NoNode <- Null,
            live <- inUse,
            retired <- Retired,
            protects <- [s \in Slots |->
                           IF s \in guarded THEN Pointers[s[1]][s[2]] ELSE Null]

ImplementsNodePool == Pool!PoolSpec
=============================================================================
