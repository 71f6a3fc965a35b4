----------------------------- MODULE CBTreeSize -----------------------------
(***************************************************************************)
(* How include/cbtree/CBTree.hpp keeps count of its elements.  A thread    *)
(* that has added or removed one loads logSize, changes size or, when the  *)
(* tree is large, a counter of its own that goes to size in batches, and   *)
(* then moves logSize by one with a CAS when the size that it has seen     *)
(* calls for it.  The accesses depend on logSize: a tree whose estimate is *)
(* too low is splayed at every access.                                     *)
(***************************************************************************)
EXTENDS Integers, FiniteSets, Functions

CONSTANTS
    Threads,
    NThreads,       \* template parameter: the size of a batch
    Threshold       \* NEW_LOG_CALCULATION_THRESHOLD: from this logSize on in batches

VARIABLES
    elements,       \* the number of elements that the tree has
    size,
    logSize,
    localSize,      \* local_size[t]
    tally           \* tally[t]: an addition (1) or a removal (-1) to be counted

sizeVars == <<elements, size, logSize, localSize, tally>>

Nothing == [step |-> "none", delta |-> 0, log |-> 0]

SizeInit ==
    /\ elements = 0
    /\ size = 0
    /\ logSize = -1
    /\ localSize = [t \in Threads |-> 0]
    /\ tally = [t \in Threads |-> Nothing]

(* The tree has changed; it has no fewer than no elements. *)
Owes(delta) == [step |-> "load", delta |-> delta, log |-> 0]
Change(t, delta) ==
    /\ tally[t] = Nothing
    /\ elements + delta \in Nat
    /\ elements' = elements + delta
    /\ tally' = [tally EXCEPT ![t] = Owes(delta)]
    /\ UNCHANGED <<size, logSize, localSize>>

LoadLog(t) ==
    /\ tally[t].step = "load"
    /\ tally' = [tally EXCEPT ![t].step = "count", ![t].log = logSize]
    /\ UNCHANGED <<elements, size, logSize, localSize>>

(* n >= (1 << e): a shift by a negative number may give anything. *)
AtLeastPower(n, e) == IF e >= 0 THEN {n >= 2 ^ e} ELSE BOOLEAN

(* An addition looks at the next power, a removal at this one. *)
CallsForMove(n, log, delta) ==
    IF delta = 1 THEN AtLeastPower(n, log + 1) ELSE {~b : b \in AtLeastPower(n, log)}

Counted(t, newSize) ==
    /\ size' = newSize
    /\ \E moves \in CallsForMove(newSize, tally[t].log, tally[t].delta) :
        tally' = [tally EXCEPT ![t] = IF moves THEN [@ EXCEPT !.step = "move"] ELSE Nothing]

CountDirectly(t) ==
    /\ tally[t].step = "count"
    /\ tally[t].log < Threshold
    /\ Counted(t, size + tally[t].delta)
    /\ UNCHANGED <<elements, logSize, localSize>>

(* An addition looks for NThreads, a removal for -NThreads. *)
FaultyIsBatch(delta, local) == delta * local > NThreads    \* off by one
IsBatch(delta, local) == delta * local >= NThreads

FaultyCountLocally(t) ==                \* the batch is counted again
    LET local == localSize[t] + tally[t].delta
    IN  /\ tally[t].step = "count"
        /\ tally[t].log >= Threshold
        /\ localSize' = [localSize EXCEPT ![t] = local]
        /\ IF IsBatch(tally[t].delta, local)
           THEN Counted(t, size + local)
           ELSE tally' = [tally EXCEPT ![t] = Nothing] /\ UNCHANGED size
        /\ UNCHANGED <<elements, logSize>>

CountLocally(t) ==
    LET local == localSize[t] + tally[t].delta
    IN  /\ tally[t].step = "count"
        /\ tally[t].log >= Threshold
        /\ IF IsBatch(tally[t].delta, local)
           THEN Counted(t, size + local) /\ localSize' = [localSize EXCEPT ![t] = 0]
           ELSE /\ localSize' = [localSize EXCEPT ![t] = local]
                /\ tally' = [tally EXCEPT ![t] = Nothing]
                /\ UNCHANGED size
        /\ UNCHANGED <<elements, logSize>>

MoveLog(t) ==
    /\ tally[t].step = "move"
    /\ logSize' = IF logSize = tally[t].log THEN logSize + tally[t].delta ELSE logSize
    /\ tally' = [tally EXCEPT ![t] = Nothing]
    /\ UNCHANGED <<elements, size, localSize>>

Counting(t) == LoadLog(t) \/ CountDirectly(t) \/ CountLocally(t) \/ MoveLog(t)

SizeNext == \E t \in Threads : Change(t, 1) \/ Change(t, -1) \/ Counting(t)

SizeSpec == SizeInit /\ [][SizeNext]_sizeVars

-----------------------------------------------------------------------------
SizeTypeOK ==
    /\ elements \in Nat
    /\ size \in Int
    /\ logSize \in Int
    /\ localSize \in [Threads -> (1 - NThreads) .. (NThreads - 1)]
    /\ tally \in [Threads -> [step : {"none", "load", "count", "move"},
                             delta : {-1, 0, 1}, log : Int]]

(* However the accounting of several threads interleaves, in whatever      *)
(* order they get to it, size, the local sizes and what is still to be     *)
(* counted make up the number of the elements.                             *)
Uncounted(t) == IF tally[t].step \in {"load", "count"} THEN tally[t].delta ELSE 0
SizeIsRight ==
    elements = size + SumFunction([t \in Threads |-> localSize[t] + Uncounted(t)])
=============================================================================
