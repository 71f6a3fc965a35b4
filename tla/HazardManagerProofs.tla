------------------------ MODULE HazardManagerProofs ------------------------
(***************************************************************************)
(* Proofs about HazardManager for any number of threads, hazard pointers,  *)
(* prefilled nodes, tree pointers and nodes.                               *)
(***************************************************************************)
EXTENDS HazardManager, SequenceTheorems, FiniteSetTheorems, TLAPS

-----------------------------------------------------------------------------
(* What the queue operations do to the elements of a queue that holds no   *)
(* node twice.                                                             *)

(* push_back adds its node and keeps the queue free of duplicates. *)
LEMMA PushBack ==
 ASSUME NEW S, NEW q \in Seq(S), NEW n \in S
 PROVE  /\ Append(q, n) \in Seq(S)
        /\ ToSet(Append(q, n)) = ToSet(q) \cup {n}
        /\ IsInjective(q) /\ n \notin ToSet(q) => IsInjective(Append(q, n))
<1>1. /\ Append(q, n) \in Seq(S)
      /\ Len(Append(q, n)) = Len(q) + 1
      /\ \A k \in 1 .. Len(q) : Append(q, n)[k] = q[k]
      /\ Append(q, n)[Len(q) + 1] = n
 BY AppendProperties
<1>2. Len(q) \in Nat /\ DOMAIN q = 1 .. Len(q) BY LenProperties
<1>3. DOMAIN Append(q, n) = 1 .. Len(q) + 1 BY <1>1, LenProperties
<1>4. ToSet(Append(q, n)) = ToSet(q) \cup {n} BY <1>1, <1>2, <1>3 DEF ToSet
<1>5. IsInjective(q) /\ n \notin ToSet(q) => IsInjective(Append(q, n))
 BY <1>1, <1>2, <1>3 DEF ToSet, IsInjective
<1> QED BY <1>1, <1>4, <1>5

(* front and pop_front take one node out and leave the others. *)
LEMMA PopFront ==
 ASSUME NEW S, NEW q \in Seq(S), q # <<>>, IsInjective(q)
 PROVE  /\ Head(q) \in S
        /\ Head(q) \in ToSet(q)
        /\ Tail(q) \in Seq(S)
        /\ ToSet(Tail(q)) = ToSet(q) \ {Head(q)}
        /\ IsInjective(Tail(q))
<1>1. /\ Head(q) \in S
      /\ Tail(q) \in Seq(S)
      /\ Len(Tail(q)) = Len(q) - 1
      /\ \A k \in 1 .. Len(Tail(q)) : Tail(q)[k] = q[k + 1]
 BY HeadTailProperties
<1>2. Len(q) \in Nat \ {0} /\ DOMAIN q = 1 .. Len(q) BY LenProperties, EmptySeq
<1>3. DOMAIN Tail(q) = 1 .. Len(q) - 1 BY <1>1, LenProperties
<1>4. Head(q) = q[1] /\ q[1] \in ToSet(q) BY <1>2 DEF ToSet
<1>5. IsInjective(Tail(q)) BY <1>1, <1>2, <1>3 DEF IsInjective
<1>6. ToSet(Tail(q)) = ToSet(q) \ {Head(q)}
 <2>1. ToSet(Tail(q)) \subseteq ToSet(q) \ {Head(q)}
  BY <1>1, <1>2, <1>3, <1>4 DEF ToSet, IsInjective
 <2>2. ASSUME NEW x \in ToSet(q) \ {Head(q)} PROVE x \in ToSet(Tail(q))
  <3>1. PICK k \in 1 .. Len(q) : x = q[k] BY <1>2 DEF ToSet
  <3>2. k - 1 \in 1 .. Len(Tail(q)) /\ Tail(q)[k - 1] = x BY <1>1, <1>2, <1>4, <3>1
  <3> QED BY <1>1, <1>3, <3>2 DEF ToSet
 <2> QED BY <2>1, <2>2
<1> QED BY <1>1, <1>4, <1>5, <1>6

(* erase takes one node out and leaves the others. *)
LEMMA Erase ==
 ASSUME NEW S, NEW q \in Seq(S), NEW it \in 1 .. Len(q), IsInjective(q)
 PROVE  /\ RemoveAt(q, it) \in Seq(S)
        /\ Len(RemoveAt(q, it)) = Len(q) - 1
        /\ ToSet(RemoveAt(q, it)) = ToSet(q) \ {q[it]}
        /\ IsInjective(RemoveAt(q, it))
        /\ \A k \in 1 .. it - 1 : RemoveAt(q, it)[k] = q[k]
<1> DEFINE a == SubSeq(q, 1, it - 1)
           b == SubSeq(q, it + 1, Len(q))
           r == RemoveAt(q, it)
<1>1. Len(q) \in Nat /\ DOMAIN q = 1 .. Len(q) /\ \A k \in 1 .. Len(q) : q[k] \in S BY LenProperties
<1>2. /\ a \in Seq(S) /\ Len(a) = it - 1
      /\ \A k \in 1 .. it - 1 : a[k] = q[k]
 <2>1. 1 \in Int /\ it - 1 \in Int /\ \A k \in 1 .. it - 1 : q[k] \in S BY <1>1
 <2>2. /\ SubSeq(q, 1, it - 1) \in Seq(S)
       /\ Len(SubSeq(q, 1, it - 1)) = IF 1 <= it - 1 THEN (it - 1) - 1 + 1 ELSE 0
       /\ \A k \in 1 .. (it - 1) - 1 + 1 : SubSeq(q, 1, it - 1)[k] = q[1 + k - 1]
  BY <2>1, SubSeqProperties
 <2> QED BY <1>1, <2>2
<1>3. /\ b \in Seq(S) /\ Len(b) = Len(q) - it
      /\ \A k \in 1 .. Len(q) - it : b[k] = q[it + k]
 <2> DEFINE m == it + 1
            n == Len(q)
 <2>1. m \in Int /\ n \in Int /\ \A k \in m .. n : q[k] \in S BY <1>1
 <2> HIDE DEF m, n
 <2>2. /\ SubSeq(q, m, n) \in Seq(S)
       /\ Len(SubSeq(q, m, n)) = IF m <= n THEN n - m + 1 ELSE 0
       /\ \A k \in 1 .. n - m + 1 : SubSeq(q, m, n)[k] = q[m + k - 1]
  BY <2>1, SubSeqProperties
 <2>3. b = SubSeq(q, m, n) BY DEF b, m, n
 <2> HIDE DEF b
 <2>4. /\ b \in Seq(S)
       /\ Len(b) = IF m <= n THEN n - m + 1 ELSE 0
       /\ \A k \in 1 .. n - m + 1 : b[k] = q[m + k - 1]
  BY <2>2, <2>3
 <2>5. Len(b) = Len(q) - it
  <3>1. /\ it \in Nat /\ n \in Nat /\ it <= n
        /\ m = it + 1 /\ n = Len(q)
   BY <1>1 DEF m, n
  <3>2. m <= n => n - m + 1 = n - it BY <3>1
  <3>3. ~(m <= n) => 0 = n - it BY <3>1
  <3>4. Len(b) = IF m <= n THEN n - m + 1 ELSE 0 BY <2>4
  <3>5. Len(b) = n - it BY <3>2, <3>3, <3>4
  <3> QED BY <3>1, <3>5
 <2>6. ASSUME NEW k \in 1 .. Len(q) - it PROVE b[k] = q[it + k]
  <3>1. k \in 1 .. n - m + 1 /\ m + k - 1 = it + k BY <1>1 DEF m, n
  <3> QED BY <2>4, <3>1
 <2> QED BY <2>4, <2>5, <2>6
<1>4. r = a \o b BY DEF RemoveAt
<1> HIDE DEF a, b, r
<1>5. /\ r \in Seq(S)
      /\ Len(r) = Len(a) + Len(b)
      /\ \A k \in 1 .. Len(a) + Len(b) :
           r[k] = IF k <= Len(a) THEN a[k] ELSE b[k - Len(a)]
 BY <1>2, <1>3, <1>4, ConcatProperties
<1>6. Len(r) = Len(q) - 1 /\ DOMAIN r = 1 .. Len(q) - 1 BY <1>1, <1>2, <1>3, <1>5, LenProperties
<1>7. ASSUME NEW k \in 1 .. Len(q) - 1
      PROVE  r[k] = IF k < it THEN q[k] ELSE q[k + 1]
 <2>1. k \in 1 .. Len(a) + Len(b) /\ Len(a) = it - 1 BY <1>1, <1>2, <1>3
 <2>2. CASE k < it BY <1>2, <1>5, <2>1, <2>2
 <2>3. CASE k >= it
  <3>1. r[k] = b[k - Len(a)] /\ k - Len(a) = k - it + 1 BY <1>1, <1>5, <2>1, <2>3
  <3>2. k - it + 1 \in 1 .. Len(q) - it BY <1>1, <2>3
  <3>3. b[k - it + 1] = q[it + (k - it + 1)] /\ it + (k - it + 1) = k + 1 BY <1>1, <1>3, <3>2
  <3> QED BY <1>1, <2>3, <3>1, <3>3
 <2> QED BY <1>1, <2>2, <2>3
<1>8. IsInjective(r) BY <1>1, <1>6, <1>7 DEF IsInjective
<1>9. ASSUME NEW x \in ToSet(r) PROVE x \in ToSet(q) \ {q[it]}
 <2>1. PICK k \in 1 .. Len(q) - 1 : x = r[k] BY <1>6 DEF ToSet
 <2>2. CASE k < it BY <1>1, <1>7, <2>1, <2>2 DEF IsInjective, ToSet
 <2>3. CASE k >= it BY <1>1, <1>7, <2>1, <2>3 DEF IsInjective, ToSet
 <2> QED BY <1>1, <2>2, <2>3
<1>10. ASSUME NEW x \in ToSet(q) \ {q[it]} PROVE x \in ToSet(r)
 <2>1. PICK k \in 1 .. Len(q) : x = q[k] BY <1>1 DEF ToSet
 <2>2. CASE k < it BY <1>1, <1>6, <1>7, <2>1, <2>2 DEF ToSet
 <2>3. CASE k > it
  <3>1. k - 1 \in 1 .. Len(q) - 1 /\ r[k - 1] = x BY <1>1, <1>7, <2>1, <2>3
  <3> QED BY <1>6, <3>1 DEF ToSet
 <2> QED BY <1>1, <2>1, <2>2, <2>3
<1>11. \A k \in 1 .. it - 1 : r[k] = q[k] BY <1>1, <1>7
<1> QED BY <1>5, <1>6, <1>8, <1>9, <1>10, <1>11 DEF r

-----------------------------------------------------------------------------
(* Types. *)

USE ParameterAssumption

(* The constructor establishes the types. *)
LEMMA InitTypeOK == Init => TypeOK
<1> SUFFICES ASSUME Init PROVE TypeOK OBVIOUS
<1>1. Pointers \in [Threads -> [Indices -> Nodes \cup {Null}]] BY DEF Init
<1>2. LocalQueues \in [Threads -> Seq(Nodes)] BY EmptySeq DEF Init
<1>3. FreeQueues \in [Threads -> Seq(Nodes)] BY SMT DEF Init
<1>4. call \in [Threads -> Calls] BY DEF Init, Calls
<1>5. heap \subseteq Nodes BY <1>3 DEF Init, Free, FreeNodes, ToSet
<1>6. inUse \subseteq Nodes /\ guarded \subseteq Slots BY DEF Init
<1>7. locals \in [Threads -> [Locals -> Nodes \cup {Null}]] BY DEF Init
<1> QED BY <1>1, <1>2, <1>3, <1>4, <1>5, <1>6, <1>7 DEF TypeOK

(* A scan in progress stands at a node of the local queue and in a slot. *)
LEMMA ScanPosition ==
 ASSUME TypeOK, NEW t \in Threads, Scanning(t)
 PROVE  /\ call[t] \in ScanCalls
        /\ call[t].it \in 1 .. Len(LocalQueues[t])
        /\ Candidate(t) \in Nodes
        /\ Candidate(t) \in LocalNodes(t)
        /\ ScanAt(call[t].it + 1, 0, 0) \in Calls
        /\ ~LastSlot(call[t]) => NextSlot(call[t]) \in Calls
        /\ ScanAt(call[t].it, 0, 0) \in Calls
<1>1. call[t] \in ScanCalls BY DEF Scanning, TypeOK, Calls, Idle, ScanCalls, ReleaseAllCalls
<1>2. call[t].it \in 1 .. Len(LocalQueues[t]) /\ LocalQueues[t] \in Seq(Nodes)
 BY <1>1, LenProperties DEF Scanning, TypeOK, ScanCalls
<1>3. Candidate(t) \in Nodes BY <1>2, ElementOfSeq DEF Candidate
<1>4. Candidate(t) \in LocalNodes(t) BY <1>2, LenProperties DEF Candidate, LocalNodes, ToSet
<1>5. ScanAt(call[t].it + 1, 0, 0) \in ScanCalls BY <1>1 DEF ScanAt, ScanCalls, Indices, Threads
<1>6. ~LastSlot(call[t]) => NextSlot(call[t]) \in ScanCalls
 BY <1>1 DEF LastSlot, NextSlot, ScanAt, ScanCalls, Indices, Threads
<1>7. ScanAt(call[t].it, 0, 0) \in ScanCalls BY <1>1 DEF ScanAt, ScanCalls, Indices, Threads
<1> QED BY <1>1, <1>2, <1>3, <1>4, <1>5, <1>6, <1>7 DEF Calls

(* Every step keeps the types; the scan relies on the local queue holding  *)
(* no node twice only for what erase returns.                              *)
LEMMA NextTypeOK ==
 ASSUME TypeOK, UniqueOwner, [Next]_vars
 PROVE  TypeOK'
<1>0. CASE UNCHANGED vars BY <1>0 DEF TypeOK, vars, managerVars, clientVars
<1>1. ASSUME NEW t \in Threads, NEW n \in Nodes, NEW v \in Locals, Read(t, v, n)
      PROVE  TypeOK'
 BY <1>1 DEF Read, TypeOK, managerVars
<1>2. ASSUME NEW t \in Threads, NEW n \in Nodes, releaseNode(t, n)
      PROVE  TypeOK'
 <2>1. LocalQueues' \in [Threads -> Seq(Nodes)] BY <1>2, PushBack DEF releaseNode, TypeOK
 <2> QED BY <1>2, <2>1 DEF releaseNode, TypeOK
<1>3. ASSUME NEW t \in Threads, NEW n \in Nodes, safe_release_node(t, n)
      PROVE  TypeOK'
 <2>1. LocalQueues' \in [Threads -> Seq(Nodes)] BY <1>3, PushBack DEF safe_release_node, TypeOK
 <2> QED BY <1>3, <2>1 DEF safe_release_node, TypeOK
<1>4. ASSUME NEW t \in Threads, NEW n \in Nodes, NewNode(t, n)
      PROVE  TypeOK'
 BY <1>4 DEF NewNode, TypeOK, managerVars
<1>5. ASSUME NEW t \in Threads, NEW v \in Locals, NEW i \in Indices, publish(t, v, i)
      PROVE  TypeOK'
 BY <1>5 DEF publish, TypeOK, Slots
<1>6. ASSUME NEW t \in Threads, NEW i \in Indices, release(t, i)
      PROVE  TypeOK'
 BY <1>6 DEF release, TypeOK
<1>7. ASSUME NEW t \in Threads, releaseAll(t)
      PROVE  TypeOK'
 <2>1. [op |-> "releaseAll", i |-> 0] \in Calls BY DEF Calls, ReleaseAllCalls, Indices
 <2> QED BY <1>7, <2>1 DEF releaseAll, TypeOK, clientVars
<1>8. ASSUME NEW t \in Threads, TakeFree(t)
      PROVE  TypeOK'
 <2>1. Head(FreeQueues[t]) \in Nodes /\ Tail(FreeQueues[t]) \in Seq(Nodes)
  BY <1>8, HeadTailProperties DEF TakeFree, PopFree, TypeOK
 <2> QED BY <1>8, <2>1 DEF TakeFree, PopFree, TypeOK
<1>9. ASSUME NEW t \in Threads, StartScan(t)
      PROVE  TypeOK'
 <2>1. ScanAt(1, 0, 0) \in Calls BY DEF Calls, ScanAt, ScanCalls, Indices, Threads
 <2> QED BY <1>9, <2>1 DEF StartScan, TypeOK, clientVars
<1>10. ASSUME NEW t \in Threads, ReleaseNext(t)
       PROVE  TypeOK'
 <2>1. call[t] \in ReleaseAllCalls
  BY <1>10 DEF ReleaseNext, TypeOK, Calls, Idle, ScanCalls, ReleaseAllCalls
 <2>2. call[t].i + 1 < Size => [call[t] EXCEPT !.i = call[t].i + 1] \in Calls
  BY <2>1 DEF ReleaseAllCalls, Calls, Indices
 <2>3. call' \in [Threads -> Calls] BY <1>10, <2>2 DEF ReleaseNext, TypeOK, Calls
 <2> QED BY <1>10, <2>1, <2>3 DEF ReleaseNext, TypeOK, ReleaseAllCalls
<1>12. ASSUME NEW t \in Threads, SlotMatches(t) \/ SlotDiffers(t)
       PROVE  TypeOK'
 BY <1>12, ScanPosition DEF SlotMatches, SlotDiffers, TypeOK, clientVars
<1>13. ASSUME NEW t \in Threads, Unreferenced(t)
       PROVE  TypeOK'
 <2>1. Scanning(t) BY <1>13 DEF Unreferenced
 <2>2. RemoveAt(LocalQueues[t], call[t].it) \in Seq(Nodes)
  BY <2>1, ScanPosition, Erase DEF TypeOK, UniqueOwner
 <2>3. Append(FreeQueues[t], Candidate(t)) \in Seq(Nodes) BY <2>1, ScanPosition, PushBack DEF TypeOK
 <2>4. call' \in [Threads -> Calls] BY <1>13, <2>1, ScanPosition DEF Unreferenced, TypeOK
 <2> QED BY <1>13, <2>2, <2>3, <2>4 DEF Unreferenced, TypeOK, clientVars
<1>14. ASSUME NEW t \in Threads, EndScan(t)
       PROVE  TypeOK'
 <2>1. Head(FreeQueues[t]) \in Nodes /\ Tail(FreeQueues[t]) \in Seq(Nodes)
  BY <1>14, HeadTailProperties DEF EndScan, PopFree, TypeOK
 <2> QED BY <1>14, <2>1 DEF EndScan, PopFree, TypeOK, Calls
<1> QED
 BY <1>0, <1>1, <1>2, <1>3, <1>4, <1>5, <1>6, <1>7, <1>8, <1>9, <1>10, <1>12, <1>13, <1>14 DEF Next,
    Client, Inside

-----------------------------------------------------------------------------
(* Ownership. *)

(* The constructor gives every node it creates to one free queue. *)
LEMMA InitUniqueOwner == Init => UniqueOwner
<1> SUFFICES ASSUME Init PROVE UniqueOwner OBVIOUS
<1>1. \A t \in Threads : LocalQueues[t] = <<>> /\ LocalNodes(t) = {} BY DEF Init, LocalNodes, ToSet
<1>2. \A t \in Threads : DOMAIN FreeQueues[t] = 1 .. Prefill BY DEF Init
<1>3. Retired = {} BY <1>1 DEF Retired
<1>4. \A t \in Threads : IsInjective(LocalQueues[t]) /\ IsInjective(FreeQueues[t])
 BY <1>1, <1>2 DEF Init, DistinctNodes, IsInjective
<1>5. \A t, u \in Threads : t # u =>
        /\ LocalNodes(t) \cap LocalNodes(u) = {}
        /\ FreeNodes(t) \cap FreeNodes(u) = {}
 BY <1>1, <1>2 DEF Init, DistinctNodes, FreeNodes, ToSet
<1>6. heap = Free /\ inUse = {} BY DEF Init
<1> QED BY <1>3, <1>4, <1>5, <1>6 DEF UniqueOwner

(* Nodes of a queue are retired or free. *)
LEMMA QueuedNodes ==
 ASSUME NEW t \in Threads
 PROVE  LocalNodes(t) \subseteq Retired /\ FreeNodes(t) \subseteq Free
 BY DEF Retired, Free

(* A node in use that is released joins one local queue. *)
LEMMA ReleaseKeepsOwner ==
 ASSUME TypeOK, UniqueOwner, NEW t \in Threads, NEW n \in inUse,
        LocalQueues' = [LocalQueues EXCEPT ![t] = Append(@, n)],
        inUse' = inUse \ {n},
        UNCHANGED <<FreeQueues, heap>>
 PROVE  UniqueOwner' /\ Retired' = Retired \cup {n} /\ Free' = Free
<1>1. /\ LocalQueues[t] \in Seq(Nodes) /\ n \in Nodes
      /\ IsInjective(LocalQueues[t]) /\ n \notin ToSet(LocalQueues[t])
 BY QueuedNodes DEF TypeOK, UniqueOwner, LocalNodes
<1>2. /\ LocalNodes(t)' = LocalNodes(t) \cup {n}
      /\ IsInjective(LocalQueues'[t])
 BY <1>1, PushBack DEF TypeOK, LocalNodes
<1>3. \A u \in Threads : u # t => LocalQueues'[u] = LocalQueues[u] BY DEF TypeOK
<1>4. /\ \A u \in Threads : FreeNodes(u)' = FreeNodes(u)
      /\ \A u \in Threads : u # t => LocalNodes(u)' = LocalNodes(u)
      /\ Free' = Free
 BY <1>3 DEF LocalNodes, FreeNodes, Free
<1>5. Retired' = Retired \cup {n} BY <1>2, <1>4 DEF Retired
<1>6. \A u \in Threads : IsInjective(LocalQueues'[u]) /\ IsInjective(FreeQueues'[u])
 BY <1>2, <1>3 DEF UniqueOwner
<1>7. \A u \in Threads : n \notin LocalNodes(u) BY QueuedNodes DEF UniqueOwner
<1>8. \A u, w \in Threads : u # w =>
        /\ LocalNodes(u)' \cap LocalNodes(w)' = {}
        /\ FreeNodes(u)' \cap FreeNodes(w)' = {}
 BY <1>2, <1>4, <1>7 DEF UniqueOwner
<1>9. /\ heap' = inUse' \cup Retired' \cup Free'
      /\ inUse' \cap (Retired' \cup Free') = {}
      /\ Retired' \cap Free' = {}
 BY <1>4, <1>5 DEF UniqueOwner
<1> QED BY <1>4, <1>5, <1>6, <1>8, <1>9 DEF UniqueOwner

(* The front of a free queue becomes a node in use. *)
LEMMA PopKeepsOwner ==
 ASSUME TypeOK, UniqueOwner, NEW t \in Threads, PopFree(t),
        UNCHANGED <<LocalQueues, heap>>
 PROVE  /\ UniqueOwner'
        /\ Head(FreeQueues[t]) \in Free
        /\ Head(FreeQueues[t]) \in Nodes
        /\ inUse' = inUse \cup {Head(FreeQueues[t])}
        /\ Retired' = Retired
<1> DEFINE n == Head(FreeQueues[t])
<1>1. /\ n \in FreeNodes(t) /\ n \in Nodes
      /\ FreeNodes(t)' = FreeNodes(t) \ {n}
      /\ IsInjective(FreeQueues'[t])
 BY PopFront DEF PopFree, TypeOK, UniqueOwner, FreeNodes
<1>2. inUse' = inUse \cup {n} BY DEF PopFree
<1>3. \A u \in Threads : u # t => FreeQueues'[u] = FreeQueues[u] BY DEF TypeOK, PopFree
<1> HIDE DEF n
<1>4. /\ \A u \in Threads : LocalNodes(u)' = LocalNodes(u)
      /\ \A u \in Threads : u # t => FreeNodes(u)' = FreeNodes(u)
      /\ Retired' = Retired
 BY <1>3 DEF LocalNodes, FreeNodes, Retired
<1>5. n \in Free /\ \A u \in Threads : u # t => n \notin FreeNodes(u)
 BY <1>1, QueuedNodes DEF UniqueOwner
<1>6. Free' = Free \ {n} BY <1>1, <1>4, <1>5 DEF Free
<1>7. \A u \in Threads : IsInjective(LocalQueues'[u]) /\ IsInjective(FreeQueues'[u])
 BY <1>1, <1>3 DEF UniqueOwner
<1>8. \A u, w \in Threads : u # w =>
        /\ LocalNodes(u)' \cap LocalNodes(w)' = {}
        /\ FreeNodes(u)' \cap FreeNodes(w)' = {}
 BY <1>1, <1>4 DEF UniqueOwner
<1>9. /\ heap' = inUse' \cup Retired' \cup Free'
      /\ inUse' \cap (Retired' \cup Free') = {}
      /\ Retired' \cap Free' = {}
 BY <1>2, <1>4, <1>5, <1>6 DEF UniqueOwner
<1> QED BY <1>1, <1>2, <1>4, <1>5, <1>7, <1>8, <1>9 DEF UniqueOwner, n

(* A candidate found unreferenced moves from its local to its free queue. *)
LEMMA UnreferencedKeepsOwner ==
 ASSUME TypeOK, UniqueOwner, NEW t \in Threads, Unreferenced(t)
 PROVE  /\ UniqueOwner'
        /\ Candidate(t) \in Retired
        /\ Candidate(t) \in Nodes
        /\ Retired' = Retired \ {Candidate(t)}
<1> DEFINE n == Candidate(t)
<1>1. call[t].it \in 1 .. Len(LocalQueues[t]) BY ScanPosition DEF Unreferenced
<1>2. /\ n \in LocalNodes(t) /\ n \in Nodes BY ScanPosition DEF Unreferenced
<1>3. /\ LocalQueues' = [LocalQueues EXCEPT ![t] = RemoveAt(@, call[t].it)]
      /\ FreeQueues' = [FreeQueues EXCEPT ![t] = Append(@, n)]
      /\ UNCHANGED <<heap, inUse>>
 BY DEF Unreferenced, clientVars
<1>4. /\ LocalNodes(t)' = LocalNodes(t) \ {n}
      /\ IsInjective(LocalQueues'[t])
 BY <1>1, <1>3, Erase DEF TypeOK, UniqueOwner, LocalNodes, Candidate
<1>5. n \in Retired /\ n \notin Free /\ n \notin inUse BY <1>2, QueuedNodes DEF UniqueOwner
<1>6. \A u \in Threads : n \notin FreeNodes(u) BY <1>5, QueuedNodes
<1> HIDE DEF n
<1>7. /\ FreeNodes(t)' = FreeNodes(t) \cup {n}
      /\ IsInjective(FreeQueues'[t])
 BY <1>2, <1>3, <1>6, PushBack DEF TypeOK, UniqueOwner, FreeNodes
<1>8. \A u \in Threads : u # t => /\ FreeQueues'[u] = FreeQueues[u]
                                 /\ LocalQueues'[u] = LocalQueues[u]
 BY <1>3 DEF TypeOK
<1>9. \A u \in Threads : u # t => /\ FreeNodes(u)' = FreeNodes(u)
                                 /\ LocalNodes(u)' = LocalNodes(u)
 BY <1>8 DEF LocalNodes, FreeNodes
<1>10. \A u \in Threads : u # t => n \notin LocalNodes(u) BY <1>2 DEF UniqueOwner
<1>11. Retired' = Retired \ {n} BY <1>4, <1>9, <1>10 DEF Retired
<1>12. Free' = Free \cup {n} BY <1>7, <1>9 DEF Free
<1>13. \A u \in Threads : IsInjective(LocalQueues'[u]) /\ IsInjective(FreeQueues'[u])
 BY <1>4, <1>7, <1>8 DEF UniqueOwner
<1>14. \A u, w \in Threads : u # w =>
        /\ LocalNodes(u)' \cap LocalNodes(w)' = {}
        /\ FreeNodes(u)' \cap FreeNodes(w)' = {}
 BY <1>4, <1>6, <1>7, <1>9 DEF UniqueOwner
<1>15. /\ heap' = inUse' \cup Retired' \cup Free'
       /\ inUse' \cap (Retired' \cup Free') = {}
       /\ Retired' \cap Free' = {}
 BY <1>3, <1>5, <1>11, <1>12 DEF UniqueOwner
<1> QED BY <1>2, <1>5, <1>11, <1>13, <1>14, <1>15 DEF UniqueOwner, n

(* Every step keeps the partition of the nodes. *)
LEMMA NextUniqueOwner ==
 ASSUME TypeOK, UniqueOwner, [Next]_vars
 PROVE  UniqueOwner'
<1>1. CASE UNCHANGED <<LocalQueues, FreeQueues, heap, inUse>>
 BY <1>1 DEF UniqueOwner, Retired, Free, LocalNodes, FreeNodes
<1>2. ASSUME NEW t \in Threads, NEW n \in Nodes, releaseNode(t, n)
      PROVE  UniqueOwner'
 BY <1>2, ReleaseKeepsOwner DEF releaseNode
<1>3. ASSUME NEW t \in Threads, NEW n \in Nodes, safe_release_node(t, n)
      PROVE  UniqueOwner'
 <2>1. n \in ToSet(LocalQueues[t]) <=> Contains(LocalQueues[t], n)
  BY LenProperties DEF TypeOK, ToSet, Contains
 <2>2. CASE Contains(LocalQueues[t], n)
  <3>1. n \notin inUse BY <2>1, <2>2, QueuedNodes DEF UniqueOwner, LocalNodes
  <3> QED BY <1>1, <1>3, <2>2, <3>1 DEF safe_release_node, TypeOK
 <2>3. CASE ~Contains(LocalQueues[t], n)
  BY <1>3, <2>1, <2>3, ReleaseKeepsOwner DEF safe_release_node, LocalNodes
 <2> QED BY <2>2, <2>3
<1>4. ASSUME NEW t \in Threads, NEW n \in Nodes, NewNode(t, n)
      PROVE  UniqueOwner'
 <2>1. /\ n \notin heap /\ heap' = heap \cup {n} /\ inUse' = inUse \cup {n}
       /\ UNCHANGED <<LocalQueues, FreeQueues>>
  BY <1>4 DEF NewNode, managerVars
 <2>2. /\ Retired' = Retired /\ Free' = Free
       /\ \A u \in Threads : LocalNodes(u)' = LocalNodes(u) /\ FreeNodes(u)' = FreeNodes(u)
  BY <2>1 DEF Retired, Free, LocalNodes, FreeNodes
 <2> QED BY <2>1, <2>2 DEF UniqueOwner
<1>5. ASSUME NEW t \in Threads, TakeFree(t) \/ EndScan(t)
      PROVE  UniqueOwner'
 BY <1>5, PopKeepsOwner DEF TakeFree, EndScan
<1>6. ASSUME NEW t \in Threads, Unreferenced(t)
      PROVE  UniqueOwner'
 BY <1>6, UnreferencedKeepsOwner
<1> QED
 BY <1>1, <1>2, <1>3, <1>4, <1>5, <1>6 DEF Next, Client, Inside, Read, publish, release, releaseAll,
    StartScan, ReleaseNext, SlotMatches, SlotDiffers, vars, managerVars, clientVars

(* Every reachable state has the declared types, and every node created is *)
(* in exactly one place: with the client, in one local or one free queue.  *)
THEOREM TypeCorrect == Spec => [](TypeOK /\ UniqueOwner)
<1>1. Init => TypeOK /\ UniqueOwner BY InitTypeOK, InitUniqueOwner
<1>2. TypeOK /\ UniqueOwner /\ [Next]_vars => TypeOK' /\ UniqueOwner' BY NextTypeOK, NextUniqueOwner
<1> QED BY <1>1, <1>2, PTL DEF Spec

-----------------------------------------------------------------------------
(* The hazard pointers. *)

HazardInv == TypeOK /\ UniqueOwner /\ HazardSafety /\ ScanCovers

(* A guarded slot of the row that publish, release or releaseAll writes is *)
(* the slot written or a slot left alone.                                  *)
LEMMA StoreKeepsHazards ==
 ASSUME HazardInv, NEW t \in Threads, NEW i \in Indices, NEW n \in Nodes \cup {Null},
        Pointers' = [Pointers EXCEPT ![t][i] = n],
        \/ guarded' = guarded \ {<<t, i>>}
        \/ n \in inUse /\ guarded' = guarded \cup {<<t, i>>},
        UNCHANGED <<LocalQueues, inUse>>,
        \A u \in Threads : call[u].op = "scan" \/ call'[u].op = "scan"
                          => call'[u] = call[u]
 PROVE  HazardSafety' /\ ScanCovers'
<1>1. \A s \in guarded' : \/ s = <<t, i>> /\ Pointers'[s[1]][s[2]] \in inUse
                          \/ /\ s \in guarded
                             /\ Pointers'[s[1]][s[2]] = Pointers[s[1]][s[2]]
 BY DEF HazardInv, TypeOK, Slots
<1>2. Retired' = Retired BY DEF Retired, LocalNodes
<1>3. HazardSafety' BY <1>1, <1>2 DEF HazardInv, HazardSafety
<1>4. ASSUME NEW u \in Threads, NEW s \in guarded', Scanning(u)', Passed(u, s)'
      PROVE  Pointers'[s[1]][s[2]] # Candidate(u)'
 <2>1. call'[u] = call[u] /\ Scanning(u) /\ Passed(u, s)
       /\ Candidate(u)' = Candidate(u)
  BY <1>4 DEF Scanning, Passed, Candidate
 <2>2. Candidate(u) \in LocalNodes(u) BY <2>1, ScanPosition DEF HazardInv
 <2>3. Candidate(u) \notin inUse BY <2>2, QueuedNodes DEF HazardInv, UniqueOwner
 <2> QED BY <1>1, <2>1, <2>3 DEF HazardInv, ScanCovers
<1> QED BY <1>3, <1>4 DEF ScanCovers

(* A step that stores no hazard pointer keeps the positions that the scans *)
(* have passed clear of their candidates.                                  *)
LEMMA ScanKeepsHazards ==
 ASSUME HazardInv, NEW t \in Threads,
        UNCHANGED <<Pointers, guarded>>,
        \A u \in Threads \ {t} : call'[u] = call[u] /\ LocalQueues'[u] = LocalQueues[u],
        \/ call'[t].op # "scan"
        \/ call'[t].tid = 0 /\ call'[t].i = 0
        \/ SlotDiffers(t)
 PROVE  ScanCovers'
<1> SUFFICES ASSUME NEW u \in Threads, NEW s \in guarded', Scanning(u)', Passed(u, s)'
             PROVE  Pointers'[s[1]][s[2]] # Candidate(u)'
 BY DEF ScanCovers
<1>1. s[1] \in Threads /\ s[2] \in Indices /\ s \in guarded BY DEF HazardInv, TypeOK, Slots
<1>2. CASE u # t BY <1>2 DEF HazardInv, ScanCovers, Scanning, Passed, Candidate
<1>3. CASE u = t /\ SlotDiffers(t)
 <2>1. /\ Scanning(t) /\ ~LastSlot(call[t])
       /\ Pointers[call[t].tid][call[t].i] # Candidate(t)
       /\ LocalQueues' = LocalQueues
  BY <1>3 DEF SlotDiffers
 <2>2. call'[t] = NextSlot(call[t]) BY <1>3 DEF SlotDiffers, HazardInv, TypeOK
 <2>3. call[t] \in ScanCalls BY <2>1, ScanPosition DEF HazardInv
 <2>4. Candidate(t)' = Candidate(t) BY <2>1, <2>2, <2>3 DEF Candidate, NextSlot, ScanAt, ScanCalls
 <2>5. Passed(t, s) \/ (s[1] = call[t].tid /\ s[2] = call[t].i)
  BY <1>1, <1>3, <2>2, <2>3 DEF Passed, NextSlot, ScanAt, ScanCalls, Indices, Threads
 <2> QED BY <1>1, <1>3, <2>1, <2>4, <2>5 DEF HazardInv, ScanCovers
<1>4. CASE u = t /\ (call'[t].op # "scan" \/ (call'[t].tid = 0 /\ call'[t].i = 0))
 BY <1>1, <1>4 DEF Scanning, Passed, Indices, Threads
<1> QED BY <1>2, <1>3, <1>4

(* When the scan has found the last slot different too, no guarded slot    *)
(* holds the candidate.                                                    *)
LEMMA UnreferencedIsUnguarded ==
 ASSUME HazardInv, NEW t \in Threads, Unreferenced(t), NEW s \in guarded
 PROVE  Pointers[s[1]][s[2]] # Candidate(t)
<1>1. /\ Scanning(t) /\ LastSlot(call[t])
      /\ Pointers[call[t].tid][call[t].i] # Candidate(t)
 BY DEF Unreferenced
<1>2. s[1] \in Threads /\ s[2] \in Indices BY DEF HazardInv, TypeOK, Slots
<1>3. call[t] \in ScanCalls BY <1>1, ScanPosition DEF HazardInv
<1>4. Passed(t, s) \/ (s[1] = call[t].tid /\ s[2] = call[t].i)
 BY <1>1, <1>2, <1>3 DEF Passed, LastSlot, NextSlot, ScanAt, ScanCalls, Indices, Threads
<1> QED BY <1>1, <1>4 DEF HazardInv, ScanCovers

(* HazardSafety is inductive together with ScanCovers. *)
LEMMA NextHazards ==
 ASSUME HazardInv, [Next]_vars
 PROVE  HazardSafety' /\ ScanCovers'
<1>0. CASE UNCHANGED <<Pointers, LocalQueues, call, inUse, guarded>>
 BY <1>0 DEF HazardInv, HazardSafety, ScanCovers, Retired, LocalNodes, Scanning, Passed, Candidate
<1>1. ASSUME NEW t \in Threads, NEW v \in Locals, NEW i \in Indices, publish(t, v, i)
      PROVE  HazardSafety' /\ ScanCovers'
 <2>1. locals[t][v] \in Nodes \cup {Null} BY DEF HazardInv, TypeOK
 <2> QED BY <1>1, <2>1, StoreKeepsHazards DEF publish
<1>2. ASSUME NEW t \in Threads, NEW i \in Indices, release(t, i)
      PROVE  HazardSafety' /\ ScanCovers'
 BY <1>2, StoreKeepsHazards DEF release
<1>3. ASSUME NEW t \in Threads, ReleaseNext(t)
      PROVE  HazardSafety' /\ ScanCovers'
 <2>1. call[t] \in ReleaseAllCalls /\ call[t].i \in Indices
  BY <1>3 DEF ReleaseNext, HazardInv, TypeOK, Calls, Idle, ScanCalls, ReleaseAllCalls
 <2>2. call'[t].op # "scan" /\ \A u \in Threads : u # t => call'[u] = call[u]
  BY <1>3, <2>1 DEF ReleaseNext, HazardInv, TypeOK, Idle, ReleaseAllCalls
 <2> QED BY <1>3, <2>1, <2>2, StoreKeepsHazards DEF ReleaseNext
<1>4. ASSUME NEW t \in Threads, NEW n \in Nodes,
             releaseNode(t, n) \/ safe_release_node(t, n)
      PROVE  HazardSafety' /\ ScanCovers'
 <2>1. /\ call[t] = Idle /\ UNCHANGED <<Pointers, call, guarded>>
       /\ inUse' = inUse \ {n}
       /\ \A u \in Threads : u # t => LocalQueues'[u] = LocalQueues[u]
  BY <1>4 DEF releaseNode, safe_release_node, HazardInv, TypeOK
 <2>2. LocalNodes(t)' = LocalNodes(t) \cup {n}
  <3>1. n \in ToSet(LocalQueues[t]) <=> Contains(LocalQueues[t], n)
   BY LenProperties DEF HazardInv, TypeOK, ToSet, Contains
  <3>2. /\ LocalQueues[t] \in Seq(Nodes)
        /\ ToSet(Append(LocalQueues[t], n)) = ToSet(LocalQueues[t]) \cup {n}
   BY PushBack DEF HazardInv, TypeOK
  <3> QED BY <1>4, <3>1, <3>2
          DEF releaseNode, safe_release_node, HazardInv, TypeOK, LocalNodes
 <2>3. Retired' = Retired \cup {n} BY <2>1, <2>2 DEF Retired, LocalNodes
 <2>4. HazardSafety' BY <2>1, <2>3 DEF HazardInv, HazardSafety
 <2> QED BY <2>1, <2>4, ScanKeepsHazards DEF Idle
<1>5. ASSUME NEW t \in Threads, NEW n \in Nodes, NewNode(t, n)
      PROVE  HazardSafety' /\ ScanCovers'
 BY <1>5 DEF NewNode, managerVars, HazardInv, HazardSafety, ScanCovers, Retired, LocalNodes,
    Scanning, Passed, Candidate
<1>6. ASSUME NEW t \in Threads, TakeFree(t) \/ EndScan(t)
      PROVE  HazardSafety' /\ ScanCovers'
 <2>1. /\ UNCHANGED <<Pointers, guarded, LocalQueues>>
       /\ call'[t].op # "scan"
       /\ \A u \in Threads : u # t => call'[u] = call[u]
  BY <1>6 DEF TakeFree, EndScan, HazardInv, TypeOK, Idle
 <2>2. inUse \subseteq inUse' /\ Retired' = Retired
  BY <1>6, PopKeepsOwner DEF TakeFree, EndScan, HazardInv
 <2> QED BY <2>1, <2>2, ScanKeepsHazards DEF HazardInv, HazardSafety
<1>7. ASSUME NEW t \in Threads,
             releaseAll(t) \/ StartScan(t) \/ SlotMatches(t) \/ SlotDiffers(t)
      PROVE  HazardSafety' /\ ScanCovers'
 <2>1. /\ UNCHANGED <<Pointers, guarded, LocalQueues, inUse>>
       /\ \A u \in Threads : u # t => call'[u] = call[u]
  BY <1>7 DEF releaseAll, StartScan, SlotMatches, SlotDiffers, clientVars, HazardInv, TypeOK
 <2>2. \/ call'[t].op # "scan"
       \/ call'[t].tid = 0 /\ call'[t].i = 0
       \/ SlotDiffers(t)
  BY <1>7 DEF releaseAll, StartScan, SlotMatches, HazardInv, TypeOK, ScanAt
 <2>3. HazardSafety' BY <2>1 DEF HazardInv, HazardSafety, Retired, LocalNodes
 <2> QED BY <2>1, <2>2, <2>3, ScanKeepsHazards
<1>8. ASSUME NEW t \in Threads, Unreferenced(t)
      PROVE  HazardSafety' /\ ScanCovers'
 <2>1. /\ UNCHANGED <<Pointers, guarded, inUse>>
       /\ call'[t].tid = 0 /\ call'[t].i = 0
       /\ \A u \in Threads : u # t => call'[u] = call[u] /\ LocalQueues'[u] = LocalQueues[u]
  BY <1>8 DEF Unreferenced, clientVars, HazardInv, TypeOK, ScanAt
 <2>2. Retired' = Retired \ {Candidate(t)} BY <1>8, UnreferencedKeepsOwner DEF HazardInv
 <2>3. HazardSafety' BY <1>8, <2>1, <2>2, UnreferencedIsUnguarded DEF HazardInv, HazardSafety
 <2> QED BY <2>1, <2>3, ScanKeepsHazards
<1> QED
 BY <1>0, <1>1, <1>2, <1>3, <1>4, <1>5, <1>6, <1>7, <1>8 DEF Next, Client, Inside, Read, vars,
    managerVars, clientVars

(* The invariant holds in every reachable state. *)
LEMMA HazardInvariant == Spec => []HazardInv
<1>1. Init => HazardInv
 <2>1. Init => HazardSafety /\ ScanCovers BY DEF Init, HazardSafety, ScanCovers
 <2> QED BY <2>1, InitTypeOK, InitUniqueOwner DEF HazardInv
<1>2. HazardInv /\ [Next]_vars => HazardInv'
 BY NextTypeOK, NextUniqueOwner, NextHazards DEF HazardInv
<1> QED BY <1>1, <1>2, PTL DEF Spec

(* A node published while in use stays in use or retired until its slot is *)
(* overwritten or released, for any number of threads and slots, although  *)
(* the scan reads the slots one at a time.                                 *)
THEOREM HazardsAreSafe == Spec => []HazardSafety
 BY HazardInvariant, PTL DEF HazardInv

(* The scan never passes a guarded slot that holds its candidate. *)
THEOREM ScansAreSound == Spec => []ScanCovers
 BY HazardInvariant, PTL DEF HazardInv

-----------------------------------------------------------------------------
(* The manager implements NodePool. *)

Protects == [s \in Slots |-> IF s \in guarded THEN Pointers[s[1]][s[2]] ELSE Null]

(* A store in slot s changes the protection of s only. *)
LEMMA ProtectsAfterStore ==
 ASSUME HazardInv, NEW t \in Threads, NEW i \in Indices, NEW n \in Nodes \cup {Null},
        Pointers' = [Pointers EXCEPT ![t][i] = n]
 PROVE  /\ guarded' = guarded \cup {<<t, i>>} =>
              Protects' = [Protects EXCEPT ![<<t, i>>] = n]
        /\ guarded' = guarded \ {<<t, i>>} =>
              Protects' = [Protects EXCEPT ![<<t, i>>] = Null]
<1>1. \A s \in Slots : /\ s # <<t, i>> => Pointers'[s[1]][s[2]] = Pointers[s[1]][s[2]]
                       /\ s = <<t, i>> => Pointers'[s[1]][s[2]] = n
 BY DEF HazardInv, TypeOK, Slots
<1>2. <<t, i>> \in Slots BY DEF Slots
<1> QED BY <1>1, <1>2 DEF Protects

(* A node that is neither in use nor retired is not protected. *)
LEMMA ProtectedNodes ==
 ASSUME HazardInv, NEW s \in Slots
 PROVE  Protects[s] \in inUse \cup Retired \cup {Null}
 BY DEF Protects, HazardInv, HazardSafety

(* The initial states of the manager are initial states of the pool. *)
LEMMA PoolInitially == Init => Pool!PoolInit
 BY DEF Init, Pool!PoolInit, Retired, LocalNodes, ToSet

(* Every step of the manager is a step of the pool or leaves it alone. *)
LEMMA PoolStep ==
 ASSUME HazardInv, [Next]_vars
 PROVE  [Pool!PoolNext]_(Pool!poolVars)
<1> DEFINE Same == UNCHANGED <<inUse, Retired, Protects>>
<1>0. Same => UNCHANGED Pool!poolVars BY DEF Pool!poolVars, Protects
<1>1. CASE UNCHANGED <<Pointers, LocalQueues, inUse, guarded>>
 <2>1. Same BY <1>1 DEF Retired, LocalNodes, Protects
 <2> QED BY <1>0, <2>1
<1>2. ASSUME NEW t \in Threads, NEW i \in Indices, NEW n \in Nodes \cup {Null},
             Pointers' = [Pointers EXCEPT ![t][i] = n],
             guarded' = guarded \ {<<t, i>>},
             UNCHANGED <<LocalQueues, inUse>>
      PROVE  Pool!PoolNext
 <2>1. Protects' = [Protects EXCEPT ![<<t, i>>] = Null] BY <1>2, ProtectsAfterStore
 <2>2. Retired' = Retired BY <1>2 DEF Retired, LocalNodes
 <2>3. Pool!Drop(<<t, i>>) BY <1>2, <2>1, <2>2 DEF Pool!Drop, Protects
 <2>4. <<t, i>> \in Slots BY DEF Slots
 <2> QED BY <2>3, <2>4 DEF Pool!PoolNext
<1>3. ASSUME NEW t \in Threads, NEW v \in Locals, NEW i \in Indices, publish(t, v, i)
      PROVE  Pool!PoolNext
 <2>0. locals[t][v] \in Nodes \cup {Null} BY DEF HazardInv, TypeOK
 <2>1. CASE locals[t][v] \in inUse
  <3>1. PICK n \in Nodes : n = locals[t][v] BY <2>1 DEF HazardInv, TypeOK
  <3>2. Protects' = [Protects EXCEPT ![<<t, i>>] = n]
   BY <1>3, <2>0, <2>1, <3>1, ProtectsAfterStore DEF publish
  <3>3. Retired' = Retired /\ inUse' = inUse BY <1>3 DEF publish, Retired, LocalNodes
  <3>4. Pool!Protect(<<t, i>>, n) BY <2>1, <3>1, <3>2, <3>3 DEF Pool!Protect, Protects
  <3>5. <<t, i>> \in Slots BY DEF Slots
  <3> QED BY <3>4, <3>5 DEF Pool!PoolNext
 <2>2. CASE locals[t][v] \notin inUse BY <1>2, <1>3, <2>0, <2>2 DEF publish
 <2> QED BY <2>1, <2>2
<1>4. ASSUME NEW t \in Threads, NEW i \in Indices, release(t, i)
      PROVE  Pool!PoolNext
 BY <1>2, <1>4 DEF release
<1>5. ASSUME NEW t \in Threads, ReleaseNext(t)
      PROVE  Pool!PoolNext
 <2>1. call[t] \in ReleaseAllCalls /\ call[t].i \in Indices
  BY <1>5 DEF ReleaseNext, HazardInv, TypeOK, Calls, Idle, ScanCalls, ReleaseAllCalls
 <2> QED BY <1>2, <1>5, <2>1 DEF ReleaseNext
<1>6. ASSUME NEW t \in Threads, NEW n \in inUse,
             LocalQueues' = [LocalQueues EXCEPT ![t] = Append(@, n)],
             inUse' = inUse \ {n},
             UNCHANGED <<Pointers, FreeQueues, heap, guarded>>
      PROVE  Pool!PoolNext
 <2>1. Retired' = Retired \cup {n} /\ Protects' = Protects /\ n \in Nodes
  BY <1>6, ReleaseKeepsOwner DEF HazardInv, TypeOK, Protects
 <2>2. Pool!Retire(n) BY <1>6, <2>1 DEF Pool!Retire, Protects
 <2> QED BY <2>1, <2>2 DEF Pool!PoolNext
<1>7. ASSUME NEW t \in Threads, NEW n \in Nodes, safe_release_node(t, n)
      PROVE  Pool!PoolNext \/ UNCHANGED Pool!poolVars
 <2>1. n \in ToSet(LocalQueues[t]) <=> Contains(LocalQueues[t], n)
  BY LenProperties DEF HazardInv, TypeOK, ToSet, Contains
 <2>2. CASE Contains(LocalQueues[t], n)
  <3>1. n \notin inUse BY <2>1, <2>2, QueuedNodes DEF HazardInv, UniqueOwner, LocalNodes
  <3> QED BY <1>1, <1>7, <2>2, <3>1 DEF safe_release_node, HazardInv, TypeOK
 <2>3. CASE ~Contains(LocalQueues[t], n) BY <1>6, <1>7, <2>1, <2>3 DEF safe_release_node, LocalNodes
 <2> QED BY <2>2, <2>3
<1>8. ASSUME NEW n \in Nodes \ (inUse \cup Retired),
             inUse' = inUse \cup {n},
             Retired' = Retired,
             UNCHANGED <<Pointers, guarded>>
      PROVE  Pool!PoolNext
 <2>1. Protects' = Protects BY <1>8 DEF Protects
 <2>2. \A s \in Slots : Protects[s] # n BY <1>8, ProtectedNodes
 <2>3. Pool!Alloc(n) BY <1>8, <2>1, <2>2 DEF Pool!Alloc, Pool!Protected, Protects
 <2> QED BY <2>3 DEF Pool!PoolNext
<1>9. ASSUME NEW t \in Threads, NEW n \in Nodes, NewNode(t, n)
      PROVE  Pool!PoolNext
 BY <1>8, <1>9 DEF NewNode, managerVars, HazardInv, UniqueOwner, Retired, LocalNodes
<1>10. ASSUME NEW t \in Threads, TakeFree(t) \/ EndScan(t)
       PROVE  Pool!PoolNext
 BY <1>8, <1>10, PopKeepsOwner DEF TakeFree, EndScan, HazardInv, UniqueOwner
<1>11. ASSUME NEW t \in Threads, Unreferenced(t)
       PROVE  Pool!PoolNext
 <2>1. /\ Retired' = Retired \ {Candidate(t)} /\ Candidate(t) \in Retired \cap Nodes
       /\ inUse' = inUse /\ Protects' = Protects
  BY <1>11, UnreferencedKeepsOwner DEF Unreferenced, clientVars, HazardInv, Protects
 <2>2. Candidate(t) # Null BY <2>1
 <2>3. \A s \in Slots : Protects[s] # Candidate(t)
  BY <1>11, <2>2, UnreferencedIsUnguarded DEF Protects
 <2>4. Pool!Reclaim(Candidate(t)) BY <2>1, <2>3 DEF Pool!Reclaim, Pool!Protected, Protects
 <2> QED BY <2>1, <2>4 DEF Pool!PoolNext
<1> QED
 BY <1>1, <1>3, <1>4, <1>5, <1>6, <1>7, <1>9, <1>10, <1>11 DEF Next, Client, Inside, Read,
    releaseNode, releaseAll, StartScan, SlotMatches, SlotDiffers, vars, managerVars, clientVars

(* The manager keeps the promise of NodePool: what it hands out is not in  *)
(* use, not retired and not protected by any slot.                         *)
THEOREM ManagerImplementsNodePool == Spec => ImplementsNodePool
 BY HazardInvariant, PoolInitially, PoolStep, PTL DEF Spec, ImplementsNodePool, Pool!PoolSpec

-----------------------------------------------------------------------------
(* The calls of the manager are wait-free. *)

(* A slot of the table has a number below NThreads * Size. *)
LEMMA SlotNumber ==
 ASSUME NEW tid \in Threads, NEW i \in Indices
 PROVE  tid * Size + i \in Nat /\ tid * Size + i < NThreads * Size
<1>1. tid + 1 <= NThreads /\ tid \in Nat /\ i \in Nat /\ i < Size BY DEF Threads, Indices
<1>2. (tid + 1) * Size <= NThreads * Size
 <2>1. \A a, b, c \in Nat : a <= b => a * c <= b * c BY Z3
 <2> QED BY <1>1, <2>1
<1>3. (tid + 1) * Size = tid * Size + Size /\ tid * Size \in Nat BY <1>1
<1> QED BY <1>1, <1>2, <1>3

(* Only a thread itself moves its call and its local queue. *)
LEMMA OthersSteps ==
 ASSUME HazardInv, NEW t \in Threads, NEW u \in Threads \ {t}, Client(u) \/ Inside(u)
 PROVE  UNCHANGED <<call[t], LocalQueues[t]>>
<1>1. CASE Client(u)
 BY <1>1 DEF HazardInv, TypeOK, Client, Read, publish, release, releaseAll, releaseNode,
    safe_release_node, TakeFree, StartScan, NewNode, managerVars
<1>2. CASE Inside(u)
 BY <1>2 DEF HazardInv, TypeOK, Inside, ReleaseNext, SlotMatches, SlotDiffers, Unreferenced, EndScan
<1> QED BY <1>1, <1>2

(* While it is inside the manager it moves them by the steps of Inside, and *)
(* it starts a scan from outside only.                                      *)
LEMMA OwnSteps ==
 ASSUME HazardInv, [Next]_vars, NEW t \in Threads, ~Inside(t)
 PROVE  \/ UNCHANGED <<call[t], LocalQueues[t]>>
        \/ call[t] = Idle /\ (call'[t].op = "scan" => StartScan(t))
<1>1. CASE UNCHANGED vars BY <1>1 DEF vars, managerVars
<1>2. ASSUME Client(t)
      PROVE  call[t] = Idle /\ (call'[t].op = "scan" => StartScan(t))
 BY <1>2 DEF HazardInv, TypeOK, Idle, Client, Read, publish, release, releaseAll, releaseNode,
    safe_release_node, TakeFree, NewNode, StartScan, managerVars
<1> QED BY <1>1, <1>2, OthersSteps DEF Next

(* The scan stops at the end of the local queue. *)
ScanBounds ==
    \A t \in Threads : call[t].op = "scan" =>
        \/ call[t].it <= Len(LocalQueues[t])
        \/ call[t] = ScanAt(Len(LocalQueues[t]) + 1, 0, 0)

(* What one step of a scan does to its position and to the local queue.    *)
LEMMA ScanMoves ==
 ASSUME HazardInv, NEW t \in Threads, Scanning(t)
 PROVE  /\ SlotMatches(t) =>
              /\ call'[t] = ScanAt(call[t].it + 1, 0, 0)
              /\ LocalQueues'[t] = LocalQueues[t]
        /\ SlotDiffers(t) =>
              /\ call'[t] = NextSlot(call[t])
              /\ LocalQueues'[t] = LocalQueues[t]
        /\ Unreferenced(t) =>
              /\ call'[t] = ScanAt(call[t].it, 0, 0)
              /\ Len(LocalQueues'[t]) = Len(LocalQueues[t]) - 1
<1>1. Len(RemoveAt(LocalQueues[t], call[t].it)) = Len(LocalQueues[t]) - 1
 BY ScanPosition, Erase DEF HazardInv, TypeOK, UniqueOwner
<1> QED BY <1>1 DEF SlotMatches, SlotDiffers, Unreferenced, HazardInv, TypeOK

(* ScanBounds is inductive. *)
LEMMA ScanBoundsInvariant == Spec => []ScanBounds
<1>1. Init => ScanBounds BY DEF Init, ScanBounds, Idle
<1>2. ASSUME HazardInv, ScanBounds, [Next]_vars, NEW t \in Threads, call'[t].op = "scan"
      PROVE  \/ call'[t].it <= Len(LocalQueues'[t])
             \/ call'[t] = ScanAt(Len(LocalQueues'[t]) + 1, 0, 0)
 <2>0. /\ LocalQueues[t] \in Seq(Nodes) /\ Len(LocalQueues[t]) \in Nat
       /\ call \in [Threads -> Calls]
  BY <1>2, LenProperties DEF HazardInv, TypeOK
 <2>1. CASE Inside(t) /\ Scanning(t)
  <3>1. call[t] \in ScanCalls /\ call[t].it \in 1 .. Len(LocalQueues[t])
   BY <1>2, <2>1, ScanPosition DEF HazardInv
  <3>2. CASE SlotMatches(t)
   <4>1. call'[t] = ScanAt(call[t].it + 1, 0, 0) /\ LocalQueues'[t] = LocalQueues[t]
    BY <1>2, <2>1, <3>2, ScanMoves
   <4>2. CASE call[t].it < Len(LocalQueues[t]) BY <2>0, <3>1, <4>1, <4>2 DEF ScanAt
   <4>3. CASE call[t].it = Len(LocalQueues[t]) BY <4>1, <4>3
   <4> QED BY <2>0, <3>1, <4>2, <4>3
  <3>3. CASE SlotDiffers(t)
   <4>1. call'[t] = NextSlot(call[t]) /\ LocalQueues'[t] = LocalQueues[t]
    BY <1>2, <2>1, <3>3, ScanMoves
   <4>2. call'[t].it = call[t].it BY <4>1 DEF NextSlot, ScanAt
   <4> QED BY <3>1, <4>1, <4>2
  <3>4. CASE Unreferenced(t)
   <4>1. call'[t] = ScanAt(call[t].it, 0, 0)
         /\ Len(LocalQueues'[t]) = Len(LocalQueues[t]) - 1
    BY <1>2, <2>1, <3>4, ScanMoves
   <4>2. CASE call[t].it < Len(LocalQueues[t]) BY <2>0, <3>1, <4>1, <4>2 DEF ScanAt
   <4>3. CASE call[t].it = Len(LocalQueues[t])
    <5>1. Len(LocalQueues'[t]) + 1 = call[t].it BY <2>0, <4>1, <4>3
    <5> QED BY <4>1, <5>1
   <4> QED BY <2>0, <3>1, <4>2, <4>3
  <3> QED BY <2>0, <2>1, <3>1, <3>2, <3>3, <3>4
          DEF Inside, Scanning, ScanCalls, ReleaseNext, EndScan, ScanEnded
 <2>2. CASE Inside(t) /\ ~Scanning(t)
  BY <1>2, <2>0, <2>2 DEF Inside, ReleaseNext, SlotMatches, SlotDiffers, Unreferenced, EndScan,
     Idle, Calls, ReleaseAllCalls, ScanCalls
 <2>3. CASE UNCHANGED <<call[t], LocalQueues[t]>> BY <1>2, <2>3 DEF ScanBounds
 <2>4. CASE StartScan(t)
  <3>1. call'[t] = ScanAt(1, 0, 0) /\ LocalQueues'[t] = LocalQueues[t] BY <2>0, <2>4 DEF StartScan
  <3>2. call'[t].it = 1 BY <3>1 DEF ScanAt
  <3>3. 1 <= Len(LocalQueues[t]) \/ 1 = Len(LocalQueues[t]) + 1 BY <2>0
  <3> QED BY <3>1, <3>2, <3>3
 <2> QED BY <1>2, <2>1, <2>2, <2>3, <2>4, OwnSteps
<1>3. HazardInv /\ ScanBounds /\ [Next]_vars => ScanBounds' BY <1>2 DEF ScanBounds
<1> QED BY <1>1, <1>3, HazardInvariant, PTL DEF Spec

(* Each step of a thread inside the manager brings its return nearer. *)
LEMMA StepsDecrease ==
 ASSUME HazardInv, ScanBounds, NEW t \in Threads, Inside(t)
 PROVE  StepsLeft(t)' < StepsLeft(t)
<1> DEFINE P == NThreads * Size
           L == Len(LocalQueues[t])
<1>0. /\ P \in Nat /\ L \in Nat /\ call \in [Threads -> Calls]
 BY LenProperties DEF HazardInv, TypeOK
<1>1. CASE ReleaseNext(t)
 <2>1. call[t] \in ReleaseAllCalls
  BY <1>0, <1>1 DEF ReleaseNext, Calls, Idle, ScanCalls, ReleaseAllCalls
 <2>2. call'[t] = IF call[t].i + 1 < Size THEN [call[t] EXCEPT !.i = call[t].i + 1] ELSE Idle
  BY <1>0, <1>1 DEF ReleaseNext
 <2> QED BY <2>1, <2>2 DEF StepsLeft, Idle, ReleaseAllCalls, Indices
<1>2. CASE EndScan(t)
 <2>1. call[t] = ScanAt(L + 1, 0, 0)
  BY <1>0, <1>2 DEF EndScan, ScanEnded, ScanBounds, Calls, Idle, ScanCalls, ReleaseAllCalls
 <2>2. StepsLeft(t) = 1 + (L + 1 - (L + 1)) * P - (0 * Size + 0) BY <2>1 DEF StepsLeft, ScanAt
 <2>3. StepsLeft(t) = 1
  <3>1. L + 1 - (L + 1) = 0 /\ 0 * P = 0 /\ 0 * Size + 0 = 0 BY <1>0
  <3> HIDE DEF P, L
  <3> QED BY <2>2, <3>1
 <2>4. StepsLeft(t)' = 0 BY <1>0, <1>2 DEF EndScan, StepsLeft, Idle
 <2> QED BY <2>3, <2>4
<1>3. CASE Scanning(t) /\ (SlotMatches(t) \/ SlotDiffers(t) \/ Unreferenced(t))
 <2> DEFINE it == call[t].it
            tid == call[t].tid
            i == call[t].i
 <2>1. call[t] \in ScanCalls /\ it \in 1 .. L BY <1>3, ScanPosition DEF HazardInv
 <2>2. it \in Nat /\ tid \in Threads /\ i \in Indices /\ call[t].op = "scan" BY <2>1 DEF ScanCalls
 <2>3. StepsLeft(t) = 1 + (L + 1 - it) * P - (tid * Size + i) BY <2>2 DEF StepsLeft
 <2>4. tid * Size + i \in Nat /\ tid * Size + i < P BY <2>2, SlotNumber
 <2>5. (L + 1 - it) * P \in Int /\ (L - it) * P = (L + 1 - it) * P - P BY <1>0, <2>2
 <2>6. CASE SlotMatches(t) \/ Unreferenced(t)
  <3>1. StepsLeft(t)' = 1 + (L - it) * P
   <4>1. CASE SlotMatches(t)
    <5>1. call'[t] = ScanAt(it + 1, 0, 0) /\ Len(LocalQueues'[t]) = L BY <1>3, <4>1, ScanMoves
    <5>2. StepsLeft(t)' = 1 + (L + 1 - (it + 1)) * P - (0 * Size + 0) BY <5>1 DEF StepsLeft, ScanAt
    <5>3. L + 1 - (it + 1) = L - it BY <1>0, <2>2
    <5> QED BY <1>0, <2>2, <2>5, <5>2, <5>3
   <4>2. CASE Unreferenced(t)
    <5>1. call'[t] = ScanAt(it, 0, 0) /\ Len(LocalQueues'[t]) = L - 1 BY <1>3, <4>2, ScanMoves
    <5>2. StepsLeft(t)' = 1 + (L - 1 + 1 - it) * P - (0 * Size + 0) BY <5>1 DEF StepsLeft, ScanAt
    <5>3. L - 1 + 1 - it = L - it BY <1>0, <2>2
    <5> QED BY <1>0, <2>2, <2>5, <5>2, <5>3
   <4> QED BY <2>6, <4>1, <4>2
  <3> HIDE DEF P, L, it, tid, i
  <3> QED BY <1>0, <2>3, <2>4, <2>5, <3>1
 <2>7. CASE SlotDiffers(t)
  <3>1. call'[t] = NextSlot(call[t]) /\ Len(LocalQueues'[t]) = L BY <1>3, <2>7, ScanMoves
  <3>2. CASE i + 1 < Size
   <4>1. call'[t] = ScanAt(it, tid, i + 1) BY <3>1, <3>2 DEF NextSlot
   <4>2. StepsLeft(t)' = 1 + (L + 1 - it) * P - (tid * Size + (i + 1))
    BY <3>1, <4>1 DEF StepsLeft, ScanAt
   <4>3. tid * Size + (i + 1) = (tid * Size + i) + 1 BY <2>2 DEF Threads, Indices
   <4> HIDE DEF P, L, it, tid, i
   <4> QED BY <2>3, <2>4, <2>5, <4>2, <4>3
  <3>3. CASE ~(i + 1 < Size)
   <4>1. call'[t] = ScanAt(it, tid + 1, 0) BY <3>1, <3>3 DEF NextSlot
   <4>2. StepsLeft(t)' = 1 + (L + 1 - it) * P - ((tid + 1) * Size + 0)
    BY <3>1, <4>1 DEF StepsLeft, ScanAt
   <4>3. (tid + 1) * Size + 0 = (tid * Size + i) + 1 BY <2>2, <3>3 DEF Threads, Indices
   <4> HIDE DEF P, L, it, tid, i
   <4> QED BY <2>3, <2>4, <2>5, <4>2, <4>3
  <3> QED BY <3>2, <3>3
 <2> QED BY <1>3, <2>6, <2>7
<1> QED BY <1>1, <1>2, <1>3 DEF Inside, SlotMatches, SlotDiffers, Unreferenced

(* A call of getFreeNode or releaseAll returns after a number of its own   *)
(* steps that is fixed when it starts, whatever the other threads do.      *)
THEOREM CallsBounded == Spec => CallsAreBounded
<1> DEFINE Progress == \A t \in Threads : call[t] # Idle =>
                           \/ UNCHANGED <<call[t], LocalQueues[t]>>
                           \/ StepsLeft(t)' < StepsLeft(t)
<1>1. HazardInv /\ ScanBounds /\ [Next]_vars => Progress BY OwnSteps, StepsDecrease
<1>2. HazardInv /\ ScanBounds /\ [Next]_vars => [Progress]_vars BY <1>1
<1> HIDE DEF Progress
<1>3. Spec => [][Progress]_vars BY <1>2, HazardInvariant, ScanBoundsInvariant, PTL DEF Spec
<1> USE DEF Progress
<1> QED BY <1>3 DEF CallsAreBounded

-----------------------------------------------------------------------------
(* A scan gives up most of the released nodes.                             *)

(* What a scan of t can find published: the nodes in the slots, and those  *)
(* that other threads may still publish; t itself is busy with the scan.   *)
SlotNodes == {Pointers[s[1]][s[2]] : s \in Slots}
HeldNodes(t) == {locals[s[1]][s[2]] : s \in (Threads \ {t}) \X Locals}
MayMatch(t) == SlotNodes \cup HeldNodes(t)

(* The nodes that the scan has kept, and those that it may still keep.     *)
Kept(t) == {LocalQueues[t][k] : k \in 1 .. call[t].it - 1}
Suspects(t) == Kept(t) \cup (LocalNodes(t) \cap MayMatch(t))

(* A scan has as few suspects as there are pointers at its start, for a    *)
(* released node can be published by those only who have read it before.   *)
SuspectsAreFew ==
    \A t \in Threads : call[t].op = "scan" => Cardinality(Suspects(t)) <= PointerCount

LEMMA IntervalSize ==
 ASSUME NEW n \in Nat
 PROVE  /\ IsFiniteSet(1 .. n) /\ Cardinality(1 .. n) = n
        /\ IsFiniteSet(0 .. n - 1) /\ Cardinality(0 .. n - 1) = n
<1>1. /\ IsFiniteSet(1 .. n)
      /\ Cardinality(1 .. n) = IF 1 > n THEN 0 ELSE n - 1 + 1
 BY 1 \in Int, n \in Int, FS_Interval
<1> DEFINE m == n - 1
<1>2. m \in Int OBVIOUS
<1>3. IsFiniteSet(0 .. m) /\ Cardinality(0 .. m) = IF 0 > m THEN 0 ELSE m - 0 + 1
 <2> HIDE DEF m
 <2> QED BY <1>2, 0 \in Int, FS_Interval
<1>4. Cardinality(1 .. n) = n BY <1>1
<1>5. Cardinality(0 .. n - 1) = n BY <1>3
<1> QED BY <1>1, <1>3, <1>4, <1>5

(* A queue without doubles has as many nodes as places. *)
LEMMA QueueSize ==
 ASSUME NEW S, NEW q \in Seq(S), IsInjective(q)
 PROVE  IsFiniteSet(ToSet(q)) /\ Cardinality(ToSet(q)) = Len(q)
<1>1. Len(q) \in Nat /\ DOMAIN q = 1 .. Len(q) /\ q \in [1 .. Len(q) -> S] BY LenProperties
<1>2. q \in [1 .. Len(q) -> ToSet(q)] BY <1>1 DEF ToSet
<1>3. \A x \in ToSet(q) : \E k \in 1 .. Len(q) : q[k] = x BY <1>1 DEF ToSet
<1>4. q \in Surjection(1 .. Len(q), ToSet(q)) /\ q \in Injection(1 .. Len(q), ToSet(q))
 BY <1>2, <1>3 DEF Surjection, Injection
<1>5. IsFiniteSet(1 .. Len(q)) /\ Cardinality(1 .. Len(q)) = Len(q) BY <1>1, IntervalSize
<1> QED BY <1>4, <1>5, FS_Surjection

(* A set that a finite function covers is finite, and not larger.          *)
LEMMA CoverSize ==
 ASSUME NEW D, IsFiniteSet(D), NEW f, DOMAIN f = D, NEW T,
        T = {f[s] : s \in D}, f = [s \in D |-> f[s]]
 PROVE  IsFiniteSet(T) /\ Cardinality(T) <= Cardinality(D)
<1>1. f \in Surjection(D, T) BY DEF Surjection
<1> QED BY <1>1, FS_Surjection

(* The published nodes and the held ones are not more than PointerCount.   *)
LEMMA PointersAreCounted ==
 ASSUME TypeOK, NEW t \in Threads
 PROVE  IsFiniteSet(MayMatch(t)) /\ Cardinality(MayMatch(t)) <= PointerCount
<1>1. /\ IsFiniteSet(Threads) /\ Cardinality(Threads) = NThreads
      /\ IsFiniteSet(Indices) /\ Cardinality(Indices) = Size
      /\ IsFiniteSet(Locals) /\ Cardinality(Locals) = NLocals
 BY ParameterAssumption, IntervalSize DEF Threads, Indices, Locals
<1>2. IsFiniteSet(Slots) /\ Cardinality(Slots) = NThreads * Size BY <1>1, FS_Product DEF Slots
<1>3. IsFiniteSet(Threads \ {t}) /\ Cardinality(Threads \ {t}) = NThreads - 1
 BY <1>1, FS_RemoveElement
<1>4. /\ IsFiniteSet((Threads \ {t}) \X Locals)
      /\ Cardinality((Threads \ {t}) \X Locals) = (NThreads - 1) * NLocals
 BY <1>1, <1>3, FS_Product
<1>5. IsFiniteSet(SlotNodes) /\ Cardinality(SlotNodes) <= NThreads * Size
 <2> DEFINE f == [s \in Slots |-> Pointers[s[1]][s[2]]]
 <2>1. /\ DOMAIN f = Slots /\ SlotNodes = {f[s] : s \in Slots}
       /\ f = [s \in Slots |-> f[s]]
  BY DEF SlotNodes
 <2> HIDE DEF f
 <2> QED BY <1>2, <2>1, CoverSize
<1>6. IsFiniteSet(HeldNodes(t)) /\ Cardinality(HeldNodes(t)) <= (NThreads - 1) * NLocals
 <2> DEFINE D == (Threads \ {t}) \X Locals
            f == [s \in D |-> locals[s[1]][s[2]]]
 <2>1. DOMAIN f = D /\ HeldNodes(t) = {f[s] : s \in D} /\ f = [s \in D |-> f[s]] BY DEF HeldNodes
 <2>2. IsFiniteSet(D) /\ Cardinality(D) = (NThreads - 1) * NLocals BY <1>4
 <2> HIDE DEF f, D
 <2> QED BY <2>1, <2>2, CoverSize
<1>7. /\ IsFiniteSet(MayMatch(t))
      /\ Cardinality(MayMatch(t)) =
           Cardinality(SlotNodes) + Cardinality(HeldNodes(t))
             - Cardinality(SlotNodes \cap HeldNodes(t))
 BY <1>5, <1>6, FS_Union DEF MayMatch
<1>8. Cardinality(SlotNodes \cap HeldNodes(t)) \in Nat
 BY <1>5, <1>6, FS_Intersection, FS_CardinalityType
<1>9. Cardinality(SlotNodes) \in Nat /\ Cardinality(HeldNodes(t)) \in Nat
 BY <1>5, <1>6, FS_CardinalityType
<1>10. NThreads * Size \in Int /\ (NThreads - 1) * NLocals \in Int BY ParameterAssumption
<1> QED BY <1>5, <1>6, <1>7, <1>8, <1>9, <1>10 DEF PointerCount

(* What a step of u does to the pointers that other threads may publish:   *)
(* it reads a node in use, or stores in a slot what it holds, or nothing.  *)
LEMMA PointersMove ==
 ASSUME TypeOK, NEW u \in Threads, Client(u) \/ Inside(u)
 PROVE  /\ \A s \in Slots : \/ Pointers'[s[1]][s[2]] = Pointers[s[1]][s[2]]
                            \/ Pointers'[s[1]][s[2]] = Null
                            \/ call[u] = Idle /\ \E v \in Locals : Pointers'[s[1]][s[2]] = locals[u][v]
        /\ \A s \in Threads \X Locals : \/ locals'[s[1]][s[2]] = locals[s[1]][s[2]]
                                        \/ locals'[s[1]][s[2]] \in inUse
<1>0. CASE UNCHANGED <<Pointers, locals>> BY <1>0
<1>1. ASSUME NEW n \in Nodes, NEW v \in Locals, Read(u, v, n)
      PROVE  /\ Pointers' = Pointers
             /\ \A s \in Threads \X Locals : \/ locals'[s[1]][s[2]] = locals[s[1]][s[2]]
                                             \/ locals'[s[1]][s[2]] \in inUse
 BY <1>1 DEF Read, TypeOK, managerVars
<1>2. ASSUME NEW v \in Locals, NEW i \in Indices, publish(u, v, i)
      PROVE  /\ locals' = locals
             /\ \A s \in Slots : \/ Pointers'[s[1]][s[2]] = Pointers[s[1]][s[2]]
                                 \/ call[u] = Idle /\ Pointers'[s[1]][s[2]] = locals[u][v]
 BY <1>2 DEF publish, TypeOK, Slots
<1>3. ASSUME NEW i \in Indices, Pointers' = [Pointers EXCEPT ![u][i] = Null]
      PROVE  \A s \in Slots : \/ Pointers'[s[1]][s[2]] = Pointers[s[1]][s[2]]
                              \/ Pointers'[s[1]][s[2]] = Null
 BY <1>3 DEF TypeOK, Slots
<1>4. CASE ReleaseNext(u)
 <2>1. call[u].i \in Indices
  BY <1>4 DEF ReleaseNext, TypeOK, Calls, ReleaseAllCalls, ScanCalls, Idle
 <2>2. /\ Pointers' = [Pointers EXCEPT ![u][call[u].i] = Null]
       /\ locals' = locals
  BY <1>4 DEF ReleaseNext
 <2> QED BY <2>1, <2>2, <1>3
<1>5. ASSUME NEW i \in Indices, release(u, i)
      PROVE  Pointers' = [Pointers EXCEPT ![u][i] = Null] /\ locals' = locals
 BY <1>5 DEF release
<1>6. \/ UNCHANGED <<Pointers, locals>>
      \/ \E n \in Nodes, v \in Locals : Read(u, v, n)
      \/ \E v \in Locals, i \in Indices : publish(u, v, i)
      \/ \E i \in Indices : release(u, i)
      \/ ReleaseNext(u)
 <2>1. CASE Client(u)
  BY <2>1 DEF Client, releaseAll, releaseNode, safe_release_node, TakeFree, StartScan, NewNode,
     managerVars, clientVars
 <2>2. CASE Inside(u)
  BY <2>2 DEF Inside, SlotMatches, SlotDiffers, Unreferenced, EndScan, clientVars
 <2> QED BY <2>1, <2>2
<1> QED BY <1>0, <1>1, <1>2, <1>3, <1>4, <1>5, <1>6

(* The released nodes of t that may match do not become more while t scans.*)
LEMMA MatchesShrink ==
 ASSUME TypeOK, UniqueOwner, NEW t \in Threads, call[t].op = "scan", [Next]_vars
 PROVE  LocalNodes(t) \cap MayMatch(t)' \subseteq MayMatch(t)
<1>1. CASE UNCHANGED vars BY <1>1 DEF vars, managerVars, clientVars, MayMatch, SlotNodes, HeldNodes
<1>2. ASSUME NEW u \in Threads, Client(u) \/ Inside(u)
      PROVE  LocalNodes(t) \cap MayMatch(t)' \subseteq MayMatch(t)
 <2>1. /\ \A s \in Slots : \/ Pointers'[s[1]][s[2]] = Pointers[s[1]][s[2]]
                           \/ Pointers'[s[1]][s[2]] = Null
                           \/ call[u] = Idle
                              /\ \E v \in Locals : Pointers'[s[1]][s[2]] = locals[u][v]
       /\ \A s \in Threads \X Locals : \/ locals'[s[1]][s[2]] = locals[s[1]][s[2]]
                                       \/ locals'[s[1]][s[2]] \in inUse
  BY <1>2, PointersMove
 <2>2. LocalNodes(t) \cap inUse = {} /\ Null \notin LocalNodes(t)
  <3>1. LocalQueues[t] \in Seq(Nodes) BY DEF TypeOK
  <3>2. LocalNodes(t) \subseteq Nodes BY <3>1, LenProperties DEF LocalNodes, ToSet
  <3> QED BY <3>2, ParameterAssumption DEF UniqueOwner, Retired
 <2>3. call[u] = Idle => u # t BY DEF Idle
 <2>4. ASSUME NEW s \in Slots, Pointers'[s[1]][s[2]] \in LocalNodes(t)
       PROVE  Pointers'[s[1]][s[2]] \in MayMatch(t)
  <3>1. CASE Pointers'[s[1]][s[2]] = Pointers[s[1]][s[2]] BY <3>1 DEF MayMatch, SlotNodes
  <3>2. ASSUME call[u] = Idle, NEW v \in Locals, Pointers'[s[1]][s[2]] = locals[u][v]
        PROVE  Pointers'[s[1]][s[2]] \in MayMatch(t)
   <4>1. <<u, v>> \in (Threads \ {t}) \X Locals BY <2>3, <3>2
   <4> QED BY <4>1, <3>2 DEF MayMatch, HeldNodes
  <3> QED BY <2>1, <2>2, <2>4, <3>1, <3>2
 <2>5. ASSUME NEW s \in (Threads \ {t}) \X Locals, locals'[s[1]][s[2]] \in LocalNodes(t)
       PROVE  locals'[s[1]][s[2]] \in MayMatch(t)
  <3>1. locals'[s[1]][s[2]] = locals[s[1]][s[2]] BY <2>1, <2>2, <2>5
  <3> QED BY <3>1 DEF MayMatch, HeldNodes
 <2>6. MayMatch(t)' = {Pointers'[s[1]][s[2]] : s \in Slots}
                         \cup {locals'[s[1]][s[2]] : s \in (Threads \ {t}) \X Locals}
  BY DEF MayMatch, SlotNodes, HeldNodes
 <2> QED BY <2>4, <2>5, <2>6
<1> QED BY <1>1, <1>2 DEF Next

(* A smaller set of suspects has a smaller size. *)
LEMMA FewerSuspects ==
 ASSUME NEW S, IsFiniteSet(S), NEW m \in Int, Cardinality(S) <= m, NEW T, T \subseteq S
 PROVE  Cardinality(T) <= m
<1>1. IsFiniteSet(T) /\ Cardinality(T) <= Cardinality(S) BY FS_Subset
<1>2. Cardinality(S) \in Nat /\ Cardinality(T) \in Nat BY <1>1, FS_CardinalityType
<1> QED BY <1>1, <1>2

(* Suspects are released nodes, and so a finite set. *)
LEMMA SuspectsAreReleased ==
 ASSUME HazardInv, ScanBounds, NEW t \in Threads, call[t].op = "scan"
 PROVE  /\ Suspects(t) \subseteq LocalNodes(t)
        /\ IsFiniteSet(Suspects(t))
        /\ ScanEnded(t) => Suspects(t) = LocalNodes(t)
        /\ IsFiniteSet(LocalNodes(t)) /\ Cardinality(LocalNodes(t)) = Len(LocalQueues[t])
<1>0. call[t] \in ScanCalls BY DEF HazardInv, TypeOK, Calls, ScanCalls, ReleaseAllCalls, Idle
<1>1. /\ LocalQueues[t] \in Seq(Nodes) /\ IsInjective(LocalQueues[t])
      /\ call[t].it \in Nat \ {0}
 BY <1>0 DEF HazardInv, TypeOK, UniqueOwner, ScanCalls
<1>2. /\ Len(LocalQueues[t]) \in Nat
      /\ LocalNodes(t) = {LocalQueues[t][k] : k \in 1 .. Len(LocalQueues[t])}
 BY <1>1, LenProperties DEF LocalNodes, ToSet
<1>3. call[t].it - 1 <= Len(LocalQueues[t])
 <2>1. CASE call[t].it <= Len(LocalQueues[t]) BY <1>1, <1>2, <2>1
 <2>2. CASE call[t] = ScanAt(Len(LocalQueues[t]) + 1, 0, 0)
  <3>1. call[t].it = Len(LocalQueues[t]) + 1 BY <2>2 DEF ScanAt
  <3> QED BY <1>2, <3>1
 <2> QED BY <2>1, <2>2 DEF ScanBounds
<1>4. Kept(t) \subseteq LocalNodes(t) BY <1>1, <1>2, <1>3 DEF Kept
<1>5. ScanEnded(t) => Kept(t) = LocalNodes(t)
 <2>1. ScanEnded(t) => call[t].it - 1 = Len(LocalQueues[t]) BY <1>1, <1>2, <1>3 DEF ScanEnded
 <2> QED BY <2>1, <1>2 DEF Kept
<1>6. IsFiniteSet(LocalNodes(t)) /\ Cardinality(LocalNodes(t)) = Len(LocalQueues[t])
 BY <1>1, QueueSize DEF LocalNodes
<1>7. Suspects(t) \subseteq LocalNodes(t) BY <1>4 DEF Suspects
<1>8. IsFiniteSet(Suspects(t)) BY <1>6, <1>7, FS_Subset
<1> QED BY <1>4, <1>5, <1>6, <1>7, <1>8 DEF Suspects

(* A scan that goes on adds no suspect. *)
LEMMA SuspectsShrink ==
 ASSUME HazardInv, ScanBounds, NEW t \in Threads, call[t].op = "scan",
        call'[t].op = "scan", [Next]_vars
 PROVE  Suspects(t)' \subseteq Suspects(t)
<1>1. LocalNodes(t) \cap MayMatch(t)' \subseteq MayMatch(t) BY MatchesShrink DEF HazardInv
<1>2. /\ LocalQueues[t] \in Seq(Nodes) /\ IsInjective(LocalQueues[t])
      /\ call \in [Threads -> Calls] /\ LocalQueues \in [Threads -> Seq(Nodes)]
 BY DEF HazardInv, TypeOK, UniqueOwner
<1>3. Suspects(t)' = Kept(t)' \cup (LocalNodes(t)' \cap MayMatch(t)') BY DEF Suspects
<1>4. ASSUME LocalNodes(t)' \subseteq LocalNodes(t), Kept(t)' \subseteq Suspects(t)
      PROVE  Suspects(t)' \subseteq Suspects(t)
 BY <1>1, <1>3, <1>4 DEF Suspects
<1>5. ASSUME LocalQueues'[t] = LocalQueues[t], call'[t].it = call[t].it
      PROVE  Suspects(t)' \subseteq Suspects(t)
 <2>1. Kept(t)' = Kept(t) /\ LocalNodes(t)' = LocalNodes(t) BY <1>5 DEF Kept, LocalNodes
 <2> QED BY <1>4, <2>1 DEF Suspects
<1>6. CASE UNCHANGED vars BY <1>5, <1>6 DEF vars, managerVars
<1>7. ASSUME NEW u \in Threads \ {t}, Client(u) \/ Inside(u)
      PROVE  UNCHANGED <<call[t], LocalQueues[t]>>
 BY <1>7, OthersSteps
<1>8. ~Client(t)
 BY DEF Client, Read, publish, release, releaseAll, releaseNode, safe_release_node, TakeFree,
    StartScan, NewNode, Idle
<1>9. CASE SlotMatches(t)
 <2>1. /\ Scanning(t) /\ LocalQueues'[t] = LocalQueues[t]
       /\ Pointers[call[t].tid][call[t].i] = Candidate(t)
       /\ call'[t].it = call[t].it + 1
  BY <1>2, <1>9 DEF SlotMatches, ScanAt
 <2>2. call[t] \in ScanCalls /\ call[t].it \in 1 .. Len(LocalQueues[t])
       /\ Candidate(t) \in LocalNodes(t)
  BY <2>1, ScanPosition DEF HazardInv
 <2>3. <<call[t].tid, call[t].i>> \in Slots BY <2>2 DEF ScanCalls, Slots
 <2>4. Candidate(t) \in SlotNodes BY <2>1, <2>3 DEF SlotNodes
 <2>5. Candidate(t) \in Suspects(t) BY <2>2, <2>4 DEF Suspects, MayMatch
 <2>6. Kept(t)' \subseteq Kept(t) \cup {Candidate(t)}
  <3>1. SUFFICES ASSUME NEW x \in Kept(t)' PROVE x \in Kept(t) \cup {Candidate(t)} OBVIOUS
  <3>2. PICK k \in 1 .. call'[t].it - 1 : x = LocalQueues'[t][k] BY DEF Kept
  <3>3. x = LocalQueues[t][k] /\ (k \in 1 .. call[t].it - 1 \/ k = call[t].it) BY <2>1, <2>2, <3>2
  <3> QED BY <3>3 DEF Kept, Candidate
 <2>7. Kept(t)' \subseteq Suspects(t) BY <2>5, <2>6 DEF Suspects
 <2>8. LocalNodes(t)' = LocalNodes(t) BY <2>1 DEF LocalNodes
 <2> QED BY <1>4, <2>7, <2>8
<1>10. CASE SlotDiffers(t)
 <2>1. LocalQueues'[t] = LocalQueues[t] /\ call'[t].it = call[t].it
  BY <1>2, <1>10 DEF SlotDiffers, NextSlot, ScanAt
 <2> QED BY <1>5, <2>1
<1>11. CASE Unreferenced(t)
 <2>1. /\ Scanning(t) /\ LocalQueues'[t] = RemoveAt(LocalQueues[t], call[t].it)
       /\ call'[t].it = call[t].it
  BY <1>2, <1>11 DEF Unreferenced, ScanAt
 <2>2. call[t].it \in 1 .. Len(LocalQueues[t]) BY <2>1, ScanPosition DEF HazardInv
 <2>3. /\ ToSet(LocalQueues'[t]) \subseteq ToSet(LocalQueues[t])
       /\ \A k \in 1 .. call[t].it - 1 : LocalQueues'[t][k] = LocalQueues[t][k]
  BY <1>2, <2>1, <2>2, Erase
 <2>4. LocalNodes(t)' \subseteq LocalNodes(t) BY <2>3 DEF LocalNodes
 <2>5. Kept(t)' \subseteq Kept(t) BY <2>1, <2>3 DEF Kept
 <2> QED BY <1>4, <2>4, <2>5 DEF Suspects
<1>12. ~ReleaseNext(t) /\ ~EndScan(t) BY <1>2 DEF ReleaseNext, EndScan, Idle
<1> QED BY <1>5, <1>6, <1>7, <1>8, <1>9, <1>10, <1>11, <1>12 DEF Next, Inside

(* A scan starts with as many suspects as there are pointers, at most. *)
LEMMA SuspectsAtStart ==
 ASSUME HazardInv, NEW t \in Threads, StartScan(t)
 PROVE  Cardinality(Suspects(t)') <= PointerCount
<1>1. /\ call'[t] = ScanAt(1, 0, 0)
      /\ LocalQueues' = LocalQueues /\ UNCHANGED <<Pointers, locals>>
 BY DEF StartScan, clientVars, HazardInv, TypeOK
<1>2. call'[t].it = 1 BY <1>1 DEF ScanAt
<1>3. 1 .. call'[t].it - 1 = {} BY <1>2
<1>4. Kept(t)' = {} BY <1>3 DEF Kept
<1>5. MayMatch(t)' = MayMatch(t) BY <1>1 DEF MayMatch, SlotNodes, HeldNodes
<1>6. Suspects(t)' \subseteq MayMatch(t) BY <1>4, <1>5 DEF Suspects
<1>7. IsFiniteSet(MayMatch(t)) /\ Cardinality(MayMatch(t)) <= PointerCount
 BY PointersAreCounted DEF HazardInv
<1>8. PointerCount \in Int BY ParameterAssumption DEF PointerCount
<1> DEFINE S == Suspects(t)'
<1>9. S \subseteq MayMatch(t) BY <1>6
<1> HIDE DEF S
<1>10. Cardinality(S) <= PointerCount BY <1>7, <1>8, <1>9, FewerSuspects
<1> QED BY <1>10 DEF S

(* SuspectsAreFew is inductive. *)
LEMMA SuspectsInvariant == Spec => []SuspectsAreFew
<1>1. Init => SuspectsAreFew BY DEF Init, SuspectsAreFew, Idle
<1>2. ASSUME HazardInv, ScanBounds, SuspectsAreFew, [Next]_vars,
             NEW t \in Threads, call'[t].op = "scan"
      PROVE  Cardinality(Suspects(t)') <= PointerCount
 <2>1. CASE call[t].op = "scan"
  <3>1. Suspects(t)' \subseteq Suspects(t) BY <1>2, <2>1, SuspectsShrink
  <3>2. Cardinality(Suspects(t)) <= PointerCount BY <1>2, <2>1 DEF SuspectsAreFew
  <3>3. IsFiniteSet(Suspects(t)) BY <1>2, <2>1, SuspectsAreReleased
  <3>4. PointerCount \in Int BY ParameterAssumption DEF PointerCount
  <3> DEFINE S == Suspects(t)'
  <3>5. S \subseteq Suspects(t) BY <3>1
  <3> HIDE DEF S
  <3>6. Cardinality(S) <= PointerCount BY <3>2, <3>3, <3>4, <3>5, FewerSuspects
  <3> QED BY <3>6 DEF S
 <2>2. CASE call[t].op # "scan"
  <3>1. StartScan(t)
   <4>1. ~(Inside(t) /\ call'[t].op = "scan")
    <5>1. CASE ReleaseNext(t)
     BY <1>2, <2>2, <5>1 DEF HazardInv, TypeOK, ReleaseNext, Calls, ScanCalls, ReleaseAllCalls, Idle
    <5>2. ~(SlotMatches(t) \/ SlotDiffers(t) \/ Unreferenced(t) \/ EndScan(t))
     BY <2>2 DEF SlotMatches, SlotDiffers, Unreferenced, EndScan, Scanning, ScanEnded
    <5> QED BY <5>1, <5>2 DEF Inside
   <4> QED BY <1>2, <2>2, <4>1, OwnSteps
  <3> QED BY <1>2, <3>1, SuspectsAtStart
 <2> QED BY <2>1, <2>2
<1>3. HazardInv /\ ScanBounds /\ SuspectsAreFew /\ [Next]_vars => SuspectsAreFew'
 BY <1>2 DEF SuspectsAreFew
<1> QED BY <1>1, <1>3, HazardInvariant, ScanBoundsInvariant, PTL DEF Spec

(* However many nodes a thread has released: when the scan of getFreeNode  *)
(* is over, its local queue has no more of them than all threads have      *)
(* hazard pointers, and the other threads pointers that they may publish   *)
(* late.                                                                   *)
THEOREM ScansLeaveFew == Spec => []ScanLeavesFew
<1>1. ASSUME HazardInv, ScanBounds, SuspectsAreFew, NEW t \in Threads, ScanEnded(t)
      PROVE  Len(LocalQueues[t]) <= PointerCount
 <2>1. call[t].op = "scan" BY <1>1 DEF ScanEnded
 <2>2. /\ Suspects(t) = LocalNodes(t)
       /\ Cardinality(LocalNodes(t)) = Len(LocalQueues[t])
  BY <1>1, <2>1, SuspectsAreReleased
 <2> QED BY <1>1, <2>1, <2>2 DEF SuspectsAreFew
<1>2. HazardInv /\ ScanBounds /\ SuspectsAreFew => ScanLeavesFew BY <1>1 DEF ScanLeavesFew
<1> QED BY <1>2, HazardInvariant, ScanBoundsInvariant, SuspectsInvariant, PTL

-----------------------------------------------------------------------------
(* What the trees rely on follows from the contract of NodePool alone.     *)
LEMMA PoolTypes == Pool!PoolSpec => []Pool!PoolTypeOK
<1>1. Pool!PoolInit => Pool!PoolTypeOK BY DEF Pool!PoolInit, Pool!PoolTypeOK
<1>2. Pool!PoolTypeOK /\ [Pool!PoolNext]_(Pool!poolVars) => Pool!PoolTypeOK'
 BY DEF Pool!PoolTypeOK, Pool!PoolNext, Pool!poolVars, Pool!Alloc, Pool!Retire, Pool!Reclaim,
    Pool!Protect, Pool!Drop
<1> QED BY <1>1, <1>2, PTL DEF Pool!PoolSpec

(* A protected node is live or retired: getFreeNode never hands it out     *)
(* while the slot that publish filled still protects it.                   *)
THEOREM PoolProtects == Pool!PoolSpec => []Pool!ProtectedStays
<1>1. Pool!PoolInit => Pool!ProtectedStays BY DEF Pool!PoolInit, Pool!ProtectedStays, Pool!Protected
<1>2. ASSUME Pool!PoolTypeOK, Pool!ProtectedStays, [Pool!PoolNext]_(Pool!poolVars)
      PROVE  Pool!ProtectedStays'
 <2>1. ASSUME NEW n \in Nodes, Pool!Alloc(n) \/ Pool!Retire(n) \/ Pool!Reclaim(n)
       PROVE  Pool!ProtectedStays'
  BY <1>2, <2>1 DEF Pool!Alloc, Pool!Retire, Pool!Reclaim, Pool!ProtectedStays, Pool!Protected
 <2>2. ASSUME NEW s \in Slots, Pool!Drop(s) \/ \E n \in Nodes : Pool!Protect(s, n)
       PROVE  Pool!ProtectedStays'
  <3>1. PICK p, q : p = Protects /\ q = Protects' OBVIOUS
  <3>2. p \in [Slots -> Nodes \cup {Null}] /\ \A r \in Slots : p[r] # Null => p[r] \in inUse \cup Retired
   BY <1>2, <3>1 DEF Pool!PoolTypeOK, Pool!ProtectedStays, Pool!Protected, Protects
  <3>3. /\ inUse' = inUse /\ Retired' = Retired
        /\ q = [p EXCEPT ![s] = Null] \/ \E n \in inUse : q = [p EXCEPT ![s] = n]
   BY <2>2, <3>1 DEF Pool!Drop, Pool!Protect, Protects
  <3>4. \A r \in Slots : q[r] # Null => q[r] \in inUse \cup Retired BY <3>2, <3>3
  <3> QED BY <3>1, <3>3, <3>4 DEF Pool!ProtectedStays, Pool!Protected, Protects
 <2>3. CASE UNCHANGED Pool!poolVars
  BY <1>2, <2>3 DEF Pool!poolVars, Pool!ProtectedStays, Pool!Protected
 <2> QED BY <1>2, <2>1, <2>2, <2>3 DEF Pool!PoolNext
<1> QED BY <1>1, <1>2, PoolTypes, PTL DEF Pool!PoolSpec
=============================================================================
