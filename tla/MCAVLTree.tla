------------------------------ MODULE MCAVLTree ------------------------------
(***************************************************************************)
(* AVLTree on small instances: the setup makes the first calls, then the   *)
(* threads make the calls of their menus.                                  *)
(***************************************************************************)
EXTENDS AVLTree

Calls(ops, keys) == [op : ops, key : keys]
Added(keys) == [i \in DOMAIN keys |-> [op |-> "add", key |-> keys[i]]]

(* Two threads on trees that one more key rotates, once or twice, to       *)
(* either side, with and without subtrees to move, on a tree whose root    *)
(* gets its second child, and on a routing node.                           *)
PairThreads == {0, 1}
PairSetups ==
    {Added(keys) : keys \in {<<3, 2>>, <<3, 1>>, <<1, 2>>, <<1, 3>>, <<2, 1>>}}
    \cup {Added(<<5, 2, 6, 1, 4>>), Added(<<2, 1, 5, 4, 6>>)}
    \cup {Append(Added(<<2, 1, 3>>), [op |-> "remove", key |-> 2])}
PairCalls == [t \in PairThreads |-> 1]
PairMenu == [t \in PairThreads |-> Calls({"add", "remove", "contains"}, 1 .. 3)]

(* Three threads: two removes that take both children of a routing node,   *)
(* and one beside it that unbalances their parent, or an add of its key.   *)
TrioThreads == {0, 1, 2}
TrioSetups == {Append(Added(<<4, 2, 5, 1, 3>>), [op |-> "remove", key |-> 2])}
TrioCalls == [t \in TrioThreads |-> 1]
TrioMenu == [t \in TrioThreads |->
    CASE t = 0 -> Calls({"remove"}, {1})
      [] t = 1 -> Calls({"remove"}, {3})
      [] t = 2 -> Calls({"remove"}, {5}) \cup Calls({"add"}, {2})]
=============================================================================
