------------------------------ MODULE MCNBBST ------------------------------
(***************************************************************************)
(* NBBST on small instances: the setup builds a tree by adds of one        *)
(* thread, then the threads make the calls of their menus.                 *)
(***************************************************************************)
EXTENDS NBBST

Calls(ops, keys) == [op : ops, key : keys]

(* Two threads and calls of any kind on two keys.  Thread 0 makes two: it  *)
(* removes and adds again under thread 1, which goes on with the words and *)
(* children it has read.  Thread 0 may stop for ever, thread 1 may not.    *)
PairThreads == {0, 1}
PairSetup == <<1>>
PairCalls == [t \in PairThreads |-> IF t = 0 THEN 2 ELSE 1]
PairMenu == [t \in PairThreads |-> Calls({"add", "remove", "contains"}, {1, 2})]

(* Three threads that meet on the same parents: neighbours are removed     *)
(* while one is added.                                                     *)
TrioThreads == {0, 1, 2}
TrioSetup == <<1, 2>>
TrioCalls == [t \in TrioThreads |-> 1]
TrioMenu == [t \in TrioThreads |->
    CASE t = 0 -> Calls({"remove"}, {1, 2})
      [] t = 1 -> Calls({"remove"}, {2})
      [] t = 2 -> Calls({"add", "contains"}, {2, 3})]
=============================================================================
