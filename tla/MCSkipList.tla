------------------------------ MODULE MCSkipList ------------------------------
(***************************************************************************)
(* SkipList on small instances: the setup adds the first keys, then the    *)
(* threads make the calls of their menus.                                  *)
(***************************************************************************)
EXTENDS SkipList

Calls(ops, keys) == [op : ops, key : keys]

(* Thread 0 adds and removes under thread 1, which makes a call of any     *)
(* kind.  Thread 0 may stop for ever, thread 1 may not.                    *)
PairThreads == {0, 1}
PairSetup == <<1>>
PairCalls == [t \in PairThreads |-> IF t = 0 THEN 2 ELSE 1]
PairMenu == [t \in PairThreads |-> Calls({"add", "remove", "contains"}, {1, 2})]

(* Three threads: two removes that meet on a node, and an add before it or *)
(* of the same key that may still be linking its upper level.              *)
TrioThreads == {0, 1, 2}
TrioSetup == <<2>>
TrioCalls == [t \in TrioThreads |-> 1]
TrioMenu == [t \in TrioThreads |->
    CASE t = 0 -> Calls({"remove"}, {1, 2})
      [] t = 1 -> Calls({"remove"}, {1, 2})
      [] t = 2 -> Calls({"add", "contains"}, {1, 2})]
=============================================================================
