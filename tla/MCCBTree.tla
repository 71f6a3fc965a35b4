------------------------------ MODULE MCCBTree ------------------------------
(***************************************************************************)
(* CBTree on small instances: the setup makes the first calls, then the    *)
(* threads make the calls of their menus.                                  *)
(***************************************************************************)
EXTENDS CBTree

Calls(ops, keys) == [op : ops, key : keys]
Adding(keys) == [i \in DOMAIN keys |-> [op |-> "add", key |-> keys[i]]]

PairThreads == {0, 1}
Scenario(calls, first, second) ==
    [setup |-> calls, menu |-> [t \in PairThreads |-> IF t = 0 THEN first ELSE second]]

PairCalls == [t \in PairThreads |-> 1]
PairScenarios ==
    {   (* the empty tree: a remove can count before the add that it follows *)
        Scenario(<<>>, Calls({"add", "remove"}, {1}),
                 Calls({"add", "remove", "contains"}, {1, 2})),
        (* one key: both threads splay, the splays rotate once or twice *)
        Scenario(Adding(<<3>>), Calls({"add"}, {1, 2}),
                 Calls({"add"}, {1, 2, 4}) \cup Calls({"contains"}, {1, 2})),
        Scenario(Adding(<<3>>), Calls({"add"}, {1, 4}), Calls({"remove"}, {3})),
        (* two keys: rotations by the counters under any other call *)
        Scenario(Adding(<<3, 2>>), Calls({"add", "remove"}, 1 .. 3),
                 Calls({"add", "remove", "contains"}, 1 .. 4)),
        (* a routing node *)
        Scenario(Append(Adding(<<3, 2, 1>>), [op |-> "remove", key |-> 2]),
                 Calls({"add"}, {2}) \cup Calls({"remove"}, {1}),
                 Calls({"add", "remove", "contains"}, {2}) \cup Calls({"remove"}, {3})),
        (* three keys: removes, then rotations on two levels *)
        Scenario(Adding(<<2, 1, 3>>), Calls({"remove"}, 1 .. 3), Calls({"remove"}, 1 .. 3)),
        Scenario(Adding(<<2, 1, 3>>), Calls({"remove"}, {3}),
                 Calls({"add", "contains"}, 1 .. 4)),
        Scenario(Adding(<<2, 1, 3>>), Calls({"add"}, {4}), Calls({"add"}, {1, 3, 4})) }

(* An add below two nodes while the upper one is removed; then a lookup of *)
(* a key that nobody has removed.                                          *)
LostCalls == [t \in PairThreads |-> IF t = 0 THEN 1 ELSE 2]
LostScenarios ==
    {Scenario(Adding(<<2, 1, 3>>), Calls({"remove"}, {1}),
              Calls({"add"}, {4}) \cup Calls({"contains"}, {3}))}

(* A key is removed while the thread that has added it splays its node. *)
StuckCalls == [t \in PairThreads |-> 1]
StuckScenarios == {Scenario(Adding(<<3>>), Calls({"remove"}, {1}), Calls({"add"}, {1}))}
=============================================================================
