-------------------------- MODULE MCHazardManager --------------------------
(***************************************************************************)
(* HazardManager on a small instance.  The nodes are interchangeable       *)
(* (the manager only compares and stores them), the threads are not: the   *)
(* scan visits them in order.                                              *)
(***************************************************************************)
EXTENDS HazardManager

NodeSymmetry == Permutations(Nodes)

(* A thread releases all the nodes and scans them.  Both threads have read *)
(* nodes before and published one; the other thread publishes those that   *)
(* it holds besides only now, one after the other, as CASChild of the      *)
(* NBBST does with its arguments.                                          *)
Scanner == 0
Publisher == 1

LateNext ==
    \/ \E n \in Nodes : NewNode(Scanner, n) \/ releaseNode(Scanner, n)
    \/ /\ inUse = Nodes
       /\ \/ \E n \in Nodes : \/ Read(Scanner, 1, n)
                             \/ \E v \in Locals : Read(Publisher, v, n)
          \/ publish(Scanner, 1, 0)
    \/ \E v \in Locals : publish(Publisher, v, 0)
    \/ StartScan(Scanner)
    \/ Inside(Scanner)

LateSpec == Init /\ [][LateNext]_vars
=============================================================================
