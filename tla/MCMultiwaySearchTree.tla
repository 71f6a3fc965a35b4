------------------------ MODULE MCMultiwaySearchTree ------------------------
(***************************************************************************)
(* MultiwaySearchTree on small instances: the setup makes the first calls, *)
(* then the threads make the calls of their menus.                         *)
(***************************************************************************)
EXTENDS MultiwaySearchTree

Calls(ops, keys) == [op : ops, key : keys]
Add(key, height) == [op |-> "add", key |-> key, height |-> height]
Delete(key) == [op |-> "remove", key |-> key, height |-> 0]

(* A flat tree, whose root grows and whose leaf splits; and a tree with two*)
(* levels above the leaves in which a remove has left an empty leaf.       *)
PairThreads == {0, 1}
PairSetups == {<<Add(3, 0)>>, <<Add(1, 2), Add(2, 2), Add(3, 1), Delete(2)>>}
PairHeights == [t \in PairThreads |-> {0, 1}]

(* Thread 0 adds or removes a key in the middle while thread 1 makes two   *)
(* calls of any kind.                                                      *)
PairCalls == [t \in PairThreads |-> IF t = 0 THEN 1 ELSE 2]
PairMenu == [t \in PairThreads |->
    IF t = 0 THEN Calls({"add", "remove"}, {2})
             ELSE Calls({"add", "remove", "contains"}, Keys)]
=============================================================================
