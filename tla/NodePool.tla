------------------------------ MODULE NodePool ------------------------------
(***************************************************************************)
(* What a reclaimer of shared nodes promises to the trees that use it:     *)
(* a node goes round alloc -> retire -> reclaim -> alloc, and a node that  *)
(* some slot protects is neither reclaimed nor handed out again before     *)
(* the slot is dropped.  HazardManager is shown to implement it.           *)
(***************************************************************************)
CONSTANTS
    Nodes,      \* the nodes the allocator can ever create
    Slots,      \* the protection slots, of all the threads
    NoNode      \* content of a slot that protects nothing

VARIABLES
    live,       \* nodes owned by the client
    retired,    \* nodes given back and not yet reclaimed
    protects    \* slot -> the node it keeps from being reclaimed

poolVars == <<live, retired, protects>>

Protected == {protects[s] : s \in Slots} \ {NoNode}

PoolTypeOK ==
    /\ live \subseteq Nodes
    /\ retired \subseteq Nodes
    /\ protects \in [Slots -> Nodes \cup {NoNode}]

PoolInit ==
    /\ live = {}
    /\ retired = {}
    /\ protects = [s \in Slots |-> NoNode]

(* A node is handed out only when nobody owns, retires or protects it. *)
Alloc(n) ==
    /\ n \notin live \cup retired \cup Protected
    /\ live' = live \cup {n}
    /\ UNCHANGED <<retired, protects>>

Retire(n) ==
    /\ n \in live
    /\ live' = live \ {n}
    /\ retired' = retired \cup {n}
    /\ UNCHANGED protects

Reclaim(n) ==
    /\ n \in retired \ Protected
    /\ retired' = retired \ {n}
    /\ UNCHANGED <<live, protects>>

(* Protection counts only when it starts while the node is live. *)
Protect(s, n) ==
    /\ n \in live
    /\ protects' = [protects EXCEPT ![s] = n]
    /\ UNCHANGED <<live, retired>>

Drop(s) ==
    /\ protects' = [protects EXCEPT ![s] = NoNode]
    /\ UNCHANGED <<live, retired>>

PoolNext ==
    \/ \E n \in Nodes : Alloc(n) \/ Retire(n) \/ Reclaim(n)
    \/ \E s \in Slots : Drop(s) \/ \E n \in Nodes : Protect(s, n)

PoolSpec == PoolInit /\ [][PoolNext]_poolVars

(* The point of the contract: a protected node is still the client's or is *)
(* waiting in retirement, never back in circulation.                       *)
ProtectedStays == Protected \subseteq live \cup retired
=============================================================================
