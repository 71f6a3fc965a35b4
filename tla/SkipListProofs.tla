--------------------------- MODULE SkipListProofs ---------------------------
(***************************************************************************)
(* Proofs about SkipList for any number of threads, keys and levels.       *)
(* First the accesses of every interleaving stay inside the list, and the  *)
(* marks of its pointers follow the protocol that the algorithm rests on.  *)
(* Then the list is a linearizable set: every call returns what the set    *)
(* answered at some moment of the call, though searches walk over marked   *)
(* and unlinked nodes.                                                     *)
(***************************************************************************)
EXTENDS SkipList, FiniteSetTheorems, TLAPS

-----------------------------------------------------------------------------
(* The inductive invariant. *)

(* A node that has a pointer at a level, and one that may be pointed to.   *)
Inner(n, level) == n \in Nodes \ {Tail_} /\ level \in Levels /\ level <= list[n].topLevel
Linkable(n, level) == n \in Nodes /\ (n = Tail_ \/ level <= list[n].topLevel)

(* The tail ends every level, and a level leads through nodes that have a  *)
(* pointer there.                                                          *)
LevelsEnd ==
    /\ {Head_, Tail_} \subseteq Nodes
    /\ list[Head_].topLevel = MaxLevel
    /\ list[Head_].key = MinKey
    /\ list[Tail_].key = MaxKey
    /\ \A n \in Nodes \ {Head_, Tail_} : list[n].key \in Keys
    /\ \A level \in Levels : ~list[Tail_].next[level].mark
    /\ \A n \in Nodes, level \in Levels :
         Inner(n, level) => Linkable(list[n].next[level].ref, level)

(* The names of the nodes of a thread are its first ranks. *)
Names(t) == {n \in Nodes : Len(n) = 2 /\ n[1] = t}
NamesAreRanks ==
    \A t \in Threads :
        /\ IsFiniteSet(Names(t))
        /\ \A n \in Names(t) : \E i \in 1 .. Cardinality(Names(t)) : n = <<t, i>>

Finds(t) == pc[t] \in {"findCurr", "findSucc", "findSnip"}
Scans(t) == pc[t] \in {"scanCurr", "scanSucc", "scanSkip"}
FindsFor(t, why) == Finds(t) /\ job[t].why = why

(* A traversal never passes the tail, and what it is about to snip is      *)
(* frozen by its mark.                                                     *)
Walks(t) ==
    LET h == here[t]
    IN  /\ Finds(t) \/ Scans(t) => Inner(h.pred, h.level)
        /\ pc[t] \in {"findSucc", "findSnip", "scanSucc", "scanSkip"} =>
             Linkable(h.curr.ref, h.level)
        /\ pc[t] \in {"findSnip", "scanSkip"} => h.curr.ref # Tail_
        /\ pc[t] \in {"findSucc", "findSnip"} => ~h.curr.mark
        /\ pc[t] = "findSnip" => h.succ.mark /\ NextOf(h.curr.ref, h.level) = h.succ

(* find leaves at every level that it has done a place for a link. *)
PathAt(t, level) == Inner(preds[t][level], level) /\ Linkable(succs[t][level], level)
Paths(t) ==
    /\ Finds(t) => \A level \in Levels : level > here[t].level => PathAt(t, level)
    /\ pc[t] \in {"link", "linkUpper"} => \A level \in Levels : PathAt(t, level)

(* An add links its node at the levels that the node has. *)
Links(t) ==
    /\ pc[t] = "linkUpper" \/ FindsFor(t, "relink") =>
         /\ victim[t] \in Nodes \ {Head_, Tail_}
         /\ list[victim[t]].topLevel = height[t]
    /\ pc[t] \in {"idle", "link"} => here[t].level = 0
    /\ pc[t] = "linkUpper" => here[t].level \in 1 .. MaxLevel + 1
    /\ FindsFor(t, "relink") => job[t].level \in Levels \ {0}

(* A remove marks its node from the top down. *)
Marks(t) ==
    /\ pc[t] \in {"readMark", "mark"} \/ FindsFor(t, "snip") =>
         victim[t] \in Nodes \ {Head_, Tail_}
    /\ pc[t] \in {"readMark", "mark"} =>
         /\ Inner(victim[t], here[t].level)
         /\ \A upper \in here[t].level + 1 .. list[victim[t]].topLevel :
              list[victim[t]].next[upper].mark
    /\ pc[t] = "mark" => ~here[t].succ.mark

ThreadInv(t) == Walks(t) /\ Paths(t) /\ Links(t) /\ Marks(t)

SkipListInv ==
    /\ TypeOK
    /\ LevelsEnd
    /\ NamesAreRanks
    /\ \A t \in Threads : ThreadInv(t)

-----------------------------------------------------------------------------
(* What no step undoes: nodes stay, with their key and their levels, and a *)
(* marked pointer is final.                                                *)
Record ==
    [key : Keys \cup {MinKey, MaxKey}, topLevel : Levels, next : [Levels -> Pointers]]

Grows ==
    /\ Nodes \subseteq Nodes'
    /\ \A n \in Nodes :
        /\ list'[n].key = list[n].key
        /\ list'[n].topLevel = list[n].topLevel
        /\ \A level \in Levels :
             list[n].next[level].mark => list'[n].next[level] = list[n].next[level]

ListKept ==
    /\ Grows
    /\ list' \in [Nodes' -> Record']
    /\ LevelsEnd'
    /\ NamesAreRanks'

(* The levels are naturals.                                                *)
LEMMA LevelBounds ==
    /\ MaxLevel \in Nat
    /\ Levels \subseteq Nat
    /\ 0 \in Levels /\ MaxLevel \in Levels
    /\ \A level \in Levels : 0 <= level /\ level <= MaxLevel
 BY SkipListAssumption DEF Levels

(* The keys of calls are strictly inside.                                  *)
LEMMA KeyBounds ==
 ASSUME NEW k \in Keys
 PROVE  MinKey # k /\ MaxKey # k /\ ~(MaxKey < k)
<1>1. k \in Int /\ MinKey \in Int /\ MaxKey \in Int BY SkipListAssumption
<1>2. MinKey < k /\ k < MaxKey BY SkipListAssumption
<1> QED BY <1>1, <1>2

(* A CAS of an unmarked pointer of a node to a node of that level. *)
LEMMA SwingKeeps ==
 ASSUME SkipListInv, NEW n, NEW level, Inner(n, level), ~NextOf(n, level).mark,
        NEW ptr \in Pointers, Linkable(ptr.ref, level), SwingNext(n, level, ptr)
 PROVE  ListKept
<1>1. list \in [Nodes -> Record] BY DEF SkipListInv, TypeOK, Record
<1>2. n \in Nodes \ {Tail_} /\ level \in Levels BY DEF Inner
<1>3. Nodes' = Nodes /\ Pointers' = Pointers /\ Record' = Record
 BY DEF SwingNext, Nodes, Pointers, Record
<1>4. /\ list' \in [Nodes' -> Record']
      /\ \A m \in Nodes : /\ list'[m].key = list[m].key
                          /\ list'[m].topLevel = list[m].topLevel
                          /\ \A k \in Levels : list'[m].next[k] =
                               IF m = n /\ k = level THEN ptr ELSE list[m].next[k]
 BY <1>1, <1>2, <1>3 DEF SwingNext, Record
<1>5. Grows BY <1>3, <1>4 DEF Grows, NextOf
<1>6. LevelsEnd'
 <2>1. LevelsEnd BY DEF SkipListInv
 <2>2. \A m, k : (Inner(m, k)' <=> Inner(m, k)) /\ (Linkable(m, k)' <=> Linkable(m, k))
  BY <1>3, <1>4 DEF Inner, Linkable
 <2>3. ASSUME NEW m \in Nodes, NEW k \in Levels, Inner(m, k)
       PROVE  Linkable(list[m].next[k].ref, k)'
  <3>1. Linkable(list[m].next[k].ref, k) BY <2>1, <2>3 DEF LevelsEnd
  <3>2. \E x : x = list'[m].next[k].ref /\ Linkable(x, k) BY <1>4, <3>1
  <3> QED BY <1>3, <1>4, <3>2 DEF Linkable
 <2>4. Head_ \in Nodes /\ Tail_ \in Nodes /\ Tail_ # n BY <1>2, <2>1 DEF LevelsEnd
 <2>5. list'[Head_].topLevel = MaxLevel /\ list'[Head_].key = MinKey /\ list'[Tail_].key = MaxKey
  BY <1>4, <2>1, <2>4 DEF LevelsEnd
 <2>6. \A m \in Nodes' \ {Head_, Tail_} : list'[m].key \in Keys BY <1>3, <1>4, <2>1 DEF LevelsEnd
 <2>7. \A k \in Levels : ~list'[Tail_].next[k].mark BY <1>4, <2>1, <2>4 DEF LevelsEnd
 <2>8. \A m \in Nodes', k \in Levels : Inner(m, k)' => Linkable(list[m].next[k].ref, k)'
  BY <1>3, <2>2, <2>3
 <2> QED BY <1>3, <2>4, <2>5, <2>6, <2>7, <2>8 DEF LevelsEnd
<1>7. NamesAreRanks' BY <1>3 DEF SkipListInv, NamesAreRanks, Names
<1> QED BY <1>4, <1>5, <1>6, <1>7 DEF ListKept

(* No CAS at all. *)
LEMMA UnchangedKeeps ==
 ASSUME SkipListInv, UNCHANGED list
 PROVE  ListKept
<1>1. Nodes' = Nodes /\ Record' = Record BY DEF Nodes, Record, Pointers
<1>2. Grows BY <1>1 DEF Grows
<1>3. LevelsEnd' BY <1>1 DEF SkipListInv, LevelsEnd, Inner, Linkable
<1>4. NamesAreRanks' BY <1>1 DEF SkipListInv, NamesAreRanks, Names
<1> QED BY <1>1, <1>2, <1>3, <1>4 DEF ListKept, SkipListInv, TypeOK, Record

(* The name of a new node is new. *)
LEMMA NamesAreNew ==
 ASSUME SkipListInv, NEW t \in Threads
 PROVE  NewName(t) \notin Nodes
<1> DEFINE c == Cardinality(Names(t))
<1>1. IsFiniteSet(Names(t)) /\ \A n \in Names(t) : \E i \in 1 .. c : n = <<t, i>>
 BY DEF SkipListInv, NamesAreRanks
<1>2. c \in Nat BY <1>1, FS_CardinalityType
<1>3. NewName(t) = <<t, c + 1>> BY DEF NewName, Names, Nodes
<1> HIDE DEF c
<1>4. SUFFICES ASSUME <<t, c + 1>> \in Nodes PROVE FALSE BY <1>3
<1>5. <<t, c + 1>> \in Names(t) BY <1>4 DEF Names
<1>6. PICK i \in 1 .. c : <<t, c + 1>> = <<t, i>> BY <1>1, <1>5
<1> QED BY <1>2, <1>6

(* What the type invariant says of one thread, and of the rest. *)
Place == [level : 0 .. MaxLevel + 1, pred : Nodes \cup {NoNode},
          curr : Pointers, succ : Pointers]

TypesOf(t) ==
    /\ pc[t] \in Labels
    /\ here[t] \in Place
    /\ preds[t] \in [Levels -> Nodes \cup {NoNode}]
    /\ succs[t] \in [Levels -> Nodes \cup {NoNode}]
    /\ job[t] \in [why : {"none", "add", "relink", "remove", "snip"}, level : Levels]
    /\ height[t] \in Levels
    /\ victim[t] \in Nodes \cup {NoNode}

HistoryTypes ==
    /\ released \in [Threads -> Seq(Nodes \ {Head_, Tail_})]
    /\ callsLeft \in [Threads -> Nat]
    /\ \A t \in Threads : callsLeft[t] <= MaxCalls[t]
    /\ \A t \in Threads : pc[t] = "idle" <=> call[t] = NoCall
    /\ Abstract!SetTypeOK

(* The parts of the invariant that a step of one thread needs.             *)
LEMMA Types ==
 ASSUME SkipListInv, NEW t \in Threads
 PROVE  /\ list \in [Nodes -> Record]
        /\ TypesOf(t)
        /\ pc[t] # "idle" => call[t] \in Abstract!SetCalls /\ call[t].key \in Keys
        /\ ThreadInv(t)
        /\ LevelsEnd
<1>1. TypeOK /\ ThreadInv(t) /\ LevelsEnd BY DEF SkipListInv
<1>2. pc[t] # "idle" => call[t] \in Abstract!SetCalls /\ call[t].key \in Keys
 BY <1>1 DEF TypeOK, Abstract!SetTypeOK, Abstract!SetCalls, NoCall
<1> QED BY <1>1, <1>2 DEF TypeOK, TypesOf, Record, Place

(* The CAS of Link, which brings the new node along. *)
LEMMA LinkKeeps ==
 ASSUME SkipListInv, NEW t \in Threads, Link(t)
 PROVE  /\ ListKept
        /\ NewName(t) \in Nodes' \ {Head_, Tail_}
        /\ list'[NewName(t)].topLevel = height[t]
        /\ NewName(t) \notin Nodes
        /\ list'[NewName(t)].next[0] = NextOf(preds[t][0], 0)
        /\ \A n \in Nodes, level \in Levels :
             list'[n].next[level] # list[n].next[level] =>
               /\ n = preds[t][0] /\ level = 0
               /\ ~list[n].next[level].mark
               /\ list'[n].next[level] = Plain(NewName(t))
<1> DEFINE new == NewName(t)
           p == preds[t][0]
           next == [i \in Levels |-> IF i <= height[t] THEN Plain(succs[t][i]) ELSE Null]
           rec == NodeRecord(call[t].key, height[t], next)
<1>1. /\ pc[t] = "link"
      /\ NextOf(p, 0) = Plain(succs[t][0])
      /\ list' = AddNode(new, rec, [list EXCEPT ![p].next[0] = Plain(new)])
 BY DEF Link
<1>2. new \notin Nodes BY NamesAreNew
<1>3. \A level \in Levels : PathAt(t, level) BY <1>1, Types DEF ThreadInv, Paths
<1>4. p \in Nodes \ {Tail_} /\ list \in [Nodes -> Record]
 BY <1>3, LevelBounds, Types DEF PathAt, Inner
<1>5. /\ height[t] \in Levels
      /\ succs[t] \in [Levels -> Nodes \cup {NoNode}]
      /\ call[t].key \in Keys
 BY <1>1, Types DEF TypesOf
<1> HIDE DEF new, p
<1>6. Nodes' = Nodes \cup {new} BY <1>1, <1>4 DEF Nodes, AddNode
<1>7. list'[new] = rec BY <1>1, <1>6 DEF Nodes, AddNode
<1>8. \A m \in Nodes : list'[m] = [list EXCEPT ![p].next[0] = Plain(new)][m]
 BY <1>1, <1>2, <1>6 DEF Nodes, AddNode
<1>9. \A m \in Nodes : /\ list'[m].key = list[m].key
                       /\ list'[m].topLevel = list[m].topLevel
                       /\ list'[m].next \in [Levels -> Pointers']
                       /\ \A k \in Levels : list'[m].next[k] =
                            IF m = p /\ k = 0 THEN Plain(new) ELSE list[m].next[k]
 <2>1. Pointers \subseteq Pointers' /\ Plain(new) \in Pointers' BY <1>6 DEF Pointers, Plain, Ptr
 <2> QED BY <1>4, <1>8, <2>1 DEF Record, Nodes
<1>10. list' \in [Nodes' -> Record']
 <2>1. next \in [Levels -> Pointers'] BY <1>5, <1>6 DEF Pointers, Plain, Ptr, Null, NoNode
 <2>2. rec \in Record' BY <1>5, <2>1 DEF Record, NodeRecord
 <2>3. \A m \in Nodes : list'[m] \in Record' BY <1>4, <1>8, <1>9 DEF Record
 <2>4. list' = [m \in Nodes' |-> list'[m]] BY <1>1, <1>6 DEF Nodes, AddNode
 <2> QED BY <1>6, <1>7, <2>2, <2>3, <2>4
<1>11. ~list[p].next[0].mark BY <1>1 DEF NextOf, Plain, Ptr
<1>12. Grows BY <1>6, <1>9, <1>11 DEF Grows
<1>13. LevelsEnd'
 <2>1. LevelsEnd BY DEF SkipListInv
 <2>2. Head_ \in Nodes /\ Tail_ \in Nodes /\ Head_ # new /\ Tail_ # new BY <1>2, <2>1 DEF LevelsEnd
 <2>3. list'[new].key \in Keys /\ list'[new].topLevel = height[t] /\ list'[new].next = next
  BY <1>5, <1>7 DEF NodeRecord
 <2>4. \A m, k : Linkable(m, k) => Linkable(m, k)' BY <1>6, <1>9 DEF Linkable
 <2>5. ASSUME NEW m \in Nodes', NEW k \in Levels, Inner(m, k)'
       PROVE  \E x : x = list'[m].next[k].ref /\ Linkable(x, k)'
  <3>1. CASE m = new
   <4>1. k <= height[t] /\ list'[m].next[k] = Plain(succs[t][k]) BY <1>5, <2>3, <2>5, <3>1 DEF Inner
   <4>2. Linkable(succs[t][k], k) BY <1>3 DEF PathAt
   <4> QED BY <2>4, <4>1, <4>2 DEF Plain, Ptr
  <3>2. CASE m = p /\ k = 0
   <4>1. list'[m].next[k].ref = new BY <1>4, <1>9, <3>2 DEF Plain, Ptr
   <4>2. \E x : x = new /\ Linkable(x, 0)' BY <1>5, <1>6, <2>3, LevelBounds DEF Linkable
   <4> QED BY <3>2, <4>1, <4>2
  <3>3. CASE m # new /\ ~(m = p /\ k = 0)
   <4>1. m \in Nodes /\ Inner(m, k) /\ list'[m].next[k] = list[m].next[k]
    BY <1>6, <1>9, <2>5, <3>3 DEF Inner
   <4>2. Linkable(list[m].next[k].ref, k) BY <2>1, <4>1 DEF LevelsEnd
   <4> QED BY <2>4, <4>1, <4>2
  <3> QED BY <3>1, <3>2, <3>3
 <2>6. \A m \in Nodes', k \in Levels : Inner(m, k)' => Linkable(list[m].next[k].ref, k)'
  BY <2>5 DEF Linkable
 <2>7. list'[Head_].topLevel = MaxLevel /\ list'[Head_].key = MinKey /\ list'[Tail_].key = MaxKey
  BY <1>9, <2>1, <2>2 DEF LevelsEnd
 <2>8. \A k \in Levels : ~list'[Tail_].next[k].mark BY <1>4, <1>9, <2>1, <2>2 DEF LevelsEnd
 <2>9. \A m \in Nodes' \ {Head_, Tail_} : list'[m].key \in Keys
  BY <1>6, <1>9, <2>1, <2>3 DEF LevelsEnd
 <2> QED BY <1>6, <2>2, <2>6, <2>7, <2>8, <2>9 DEF LevelsEnd
<1>14. NamesAreRanks'
 <2>1. NamesAreRanks BY DEF SkipListInv
 <2>2. new = <<t, Cardinality(Names(t)) + 1>> BY DEF new, NewName, Names, Nodes
 <2>3. Names(t)' = Names(t) \cup {new} BY <1>6, <2>2 DEF Names
 <2>4. ASSUME NEW u \in Threads \ {t} PROVE Names(u)' = Names(u) BY <1>6, <2>2 DEF Names
 <2>5. /\ IsFiniteSet(Names(t)')
       /\ Cardinality(Names(t)') = Cardinality(Names(t)) + 1
       /\ Cardinality(Names(t)) \in Nat
  <3>1. IsFiniteSet(Names(t)) /\ new \notin Names(t) BY <1>2, <2>1 DEF NamesAreRanks, Names
  <3>2. /\ IsFiniteSet(Names(t) \cup {new})
        /\ Cardinality(Names(t) \cup {new}) = Cardinality(Names(t)) + 1
   BY <3>1, FS_AddElement
  <3>3. Cardinality(Names(t)) \in Nat BY <3>1, FS_CardinalityType
  <3> QED BY <2>3, <3>2, <3>3
 <2>6. \A n \in Names(t)' : \E i \in 1 .. Cardinality(Names(t)') : n = <<t, i>>
  BY <2>1, <2>2, <2>3, <2>5 DEF NamesAreRanks
 <2> QED BY <2>1, <2>4, <2>5, <2>6 DEF NamesAreRanks
<1>15. new # Head_ /\ new # Tail_ BY <1>2 DEF SkipListInv, LevelsEnd
<1>16. list'[new].next[0] = NextOf(p, 0) BY <1>1, <1>5, <1>7, LevelBounds DEF NodeRecord
<1>17. list'[new].topLevel = height[t] BY <1>7 DEF NodeRecord
<1>18. \A n \in Nodes, level \in Levels :
          list'[n].next[level] # list[n].next[level] =>
            /\ n = p /\ level = 0
            /\ ~list[n].next[level].mark
            /\ list'[n].next[level] = Plain(new)
 BY <1>9, <1>11
<1> QED BY <1>2, <1>6, <1>10, <1>12, <1>13, <1>14, <1>15, <1>16, <1>17, <1>18
        DEF ListKept, new, p

-----------------------------------------------------------------------------
(* A step of one thread. *)
Acts(t) ==
    /\ pc' = [pc EXCEPT ![t] = pc'[t]]
    /\ here' = [here EXCEPT ![t] = here'[t]]
    /\ preds' = [preds EXCEPT ![t] = preds'[t]]
    /\ succs' = [succs EXCEPT ![t] = succs'[t]]
    /\ job' = [job EXCEPT ![t] = job'[t]]
    /\ height' = [height EXCEPT ![t] = height'[t]]
    /\ victim' = [victim EXCEPT ![t] = victim'[t]]

(* What is true of a thread stays true while others change the list. *)
LEMMA OthersKeep ==
 ASSUME SkipListInv, ListKept, NEW t \in Threads, Acts(t), NEW u \in Threads \ {t}
 PROVE  TypesOf(u)' /\ ThreadInv(u)'
<1>1. /\ pc'[u] = pc[u] /\ here'[u] = here[u]
      /\ preds'[u] = preds[u] /\ succs'[u] = succs[u]
      /\ job'[u] = job[u] /\ height'[u] = height[u] /\ victim'[u] = victim[u]
 BY DEF Acts, SkipListInv, TypeOK
<1>2. Grows /\ LevelsEnd /\ TypesOf(u) /\ ThreadInv(u) BY Types DEF ListKept
<1>3. \A n, level : (Inner(n, level) => Inner(n, level)')
                    /\ (Linkable(n, level) => Linkable(n, level)')
 BY <1>2 DEF Grows, Inner, Linkable
<1>4. TypesOf(u)' BY <1>1, <1>2 DEF TypesOf, Grows, Place, Pointers
<1>5. Walks(u)'
 <2>1. /\ Finds(u) \/ Scans(u) => Inner(here[u].pred, here[u].level)
       /\ pc[u] \in {"findSucc", "findSnip", "scanSucc", "scanSkip"} =>
            Linkable(here[u].curr.ref, here[u].level)
  BY <1>2 DEF ThreadInv, Walks
 <2>2. pc[u] = "findSnip" =>
         /\ here[u].succ.mark
         /\ list'[here[u].curr.ref].next[here[u].level] = here[u].succ
  <3>1. pc[u] = "findSnip" =>
          /\ here[u].succ.mark
          /\ NextOf(here[u].curr.ref, here[u].level) = here[u].succ
          /\ here[u].curr.ref \in Nodes /\ here[u].level \in Levels
   BY <1>2, <2>1 DEF ThreadInv, Walks, Finds, Inner, Linkable
  <3> QED BY <1>2, <3>1 DEF Grows, NextOf
 <2> QED BY <1>1, <1>2, <1>3, <2>1, <2>2 DEF ThreadInv, Walks, Finds, Scans, NextOf, Inner, Linkable
<1>6. Paths(u)' BY <1>1, <1>2, <1>3 DEF ThreadInv, Paths, PathAt, Finds, Inner, Linkable
<1>7. Links(u)' BY <1>1, <1>2 DEF ThreadInv, Links, Grows, Finds, FindsFor
<1>8. Marks(u)'
 <2>1. pc[u] \in {"readMark", "mark"} =>
         \A upper \in here[u].level + 1 .. list[victim[u]].topLevel :
           /\ upper \in Levels
           /\ list[victim[u]].next[upper].mark
  BY <1>2, Types, LevelBounds DEF ThreadInv, Marks, Inner, Record, Levels
 <2> QED BY <1>1, <1>2, <1>3, <2>1 DEF ThreadInv, Marks, Grows, Finds, FindsFor, Inner
<1> QED BY <1>4, <1>5, <1>6, <1>7, <1>8 DEF ThreadInv

(* The invariant holds after a step if it holds of the thread that took it. *)
LEMMA Preserves ==
 ASSUME SkipListInv, ListKept, NEW t \in Threads, Acts(t), TypesOf(t)', ThreadInv(t)', HistoryTypes'
 PROVE  SkipListInv'
<1>1. \A u \in Threads : TypesOf(u)' /\ ThreadInv(u)' BY OthersKeep
<1>2. TypeOK'
 <2>1. /\ pc' = [u \in Threads |-> pc'[u]] /\ here' = [u \in Threads |-> here'[u]]
       /\ preds' = [u \in Threads |-> preds'[u]] /\ succs' = [u \in Threads |-> succs'[u]]
       /\ job' = [u \in Threads |-> job'[u]] /\ height' = [u \in Threads |-> height'[u]]
       /\ victim' = [u \in Threads |-> victim'[u]]
  BY DEF Acts, SkipListInv, TypeOK
 <2> QED BY <1>1, <2>1 DEF TypesOf, Place, HistoryTypes, TypeOK, ListKept, Record
<1> QED BY <1>1, <1>2 DEF ListKept, SkipListInv

(* The history changes at the start and the end of a call, and with the    *)
(* set.                                                                    *)
LEMMA HistoryKept ==
 ASSUME SkipListInv, ListKept, NEW t \in Threads, Acts(t),
        pc[t] # "idle", pc'[t] # "idle",
        UNCHANGED <<released, call, result, bounds>>,
        answers' \in [Threads -> SUBSET BOOLEAN]
 PROVE  HistoryTypes'
<1>1. TypeOK BY DEF SkipListInv
<1>2. released' \in [Threads -> Seq(Nodes' \ {Head_, Tail_})] BY <1>1 DEF TypeOK, ListKept, Grows
<1>3. callsLeft' \in [Threads -> Nat] /\ \A u \in Threads : callsLeft'[u] <= MaxCalls[u]
 BY <1>1 DEF TypeOK, bounds
<1>4. \A u \in Threads : pc'[u] = "idle" <=> call'[u] = NoCall BY <1>1 DEF TypeOK, Acts
<1>5. Abstract!SetTypeOK' BY <1>1 DEF TypeOK, Abstract!SetTypeOK, Contents
<1> QED BY <1>2, <1>3, <1>4, <1>5 DEF HistoryTypes

(* The answers after a change of the set are Booleans.                     *)
LEMMA AnswersAreTyped ==
 ASSUME SkipListInv, NEW t \in Threads, NEW S
 PROVE  Abstract!AnswersAfter(t, S) \in [Threads -> SUBSET BOOLEAN]
<1>1. answers \in [Threads -> SUBSET BOOLEAN] BY DEF SkipListInv, TypeOK, Abstract!SetTypeOK
<1>2. \A c : Abstract!Observed(c, S) \in SUBSET BOOLEAN BY DEF Abstract!Observed
<1> QED BY <1>1, <1>2 DEF Abstract!AnswersAfter

(* Most steps change nothing but the locals of their thread. *)
LEMMA QuietStep ==
 ASSUME SkipListInv, NEW t \in Threads, Acts(t),
        UNCHANGED <<list, released, history, bounds>>,
        pc[t] # "idle", pc'[t] # "idle",
        TypesOf(t)', ThreadInv(t)'
 PROVE  SkipListInv'
<1>1. ListKept BY UnchangedKeeps
<1>2. answers' \in [Threads -> SUBSET BOOLEAN]
 BY DEF history, SkipListInv, TypeOK, Abstract!SetTypeOK
<1>3. HistoryTypes' BY <1>1, <1>2, HistoryKept DEF history
<1> QED BY <1>1, <1>3, Preserves

-----------------------------------------------------------------------------
(* The steps of find. *)

(* A search that starts, or starts over. *)
LEMMA TopIsInner ==
 ASSUME SkipListInv, ListKept, NEW t \in Threads,
        pc'[t] \in {"findCurr", "scanCurr"}, here'[t] = Top
 PROVE  here'[t] \in Place' /\ Walks(t)' /\ Paths(t)'
<1>1. LevelsEnd' /\ list' \in [Nodes' -> Record'] BY DEF ListKept
<1>2. Inner(Head_, MaxLevel)' BY <1>1, LevelBounds DEF LevelsEnd, Inner, Head_, Tail_
<1>3. Top = [level |-> MaxLevel, pred |-> Head_, curr |-> Null, succ |-> Null] BY DEF Top, Nowhere
<1>4. here'[t] \in Place' BY <1>2, <1>3, LevelBounds DEF Place, Inner, Pointers, Null, Plain, Ptr
<1>5. Walks(t)' BY <1>2, <1>3 DEF Walks, Finds, Scans, Inner
<1>6. Paths(t)' BY <1>3, LevelBounds DEF Paths, Finds
<1> QED BY <1>4, <1>5, <1>6

(* Reading a pointer of pred: a retry, or a node of the level.             *)
LEMMA FindCurrKeeps ==
 ASSUME SkipListInv, NEW t \in Threads, FindCurr(t)
 PROVE  SkipListInv'
<1> DEFINE h == here[t]
           curr == NextOf(h.pred, h.level)
<1>1. ListKept BY UnchangedKeeps DEF FindCurr
<1>2. /\ list \in [Nodes -> Record] /\ TypesOf(t) /\ ThreadInv(t) /\ LevelsEnd
      /\ pc[t] = "findCurr"
      /\ UNCHANGED <<list, preds, succs, job, height, victim>>
 BY Types DEF FindCurr, locals
<1>3. Acts(t) BY DEF FindCurr, RetryFind, GoTo, Become, Acts, locals, SkipListInv, TypeOK
<1>4. Inner(h.pred, h.level) /\ curr \in Pointers /\ Linkable(curr.ref, h.level)
 BY <1>2 DEF ThreadInv, Walks, Finds, Inner, LevelsEnd, NextOf, Record
<1>5. pc'[t] \in {"findCurr", "findSucc"} BY <1>2 DEF FindCurr, RetryFind, GoTo, SkipListInv, TypeOK
<1>6. here'[t] \in Place' /\ Walks(t)' /\ Paths(t)'
 <2>1. CASE curr.mark
  <3>1. pc'[t] = "findCurr" /\ here'[t] = Top
   BY <2>1 DEF FindCurr, RetryFind, GoTo, Become, SkipListInv, TypeOK
  <3> QED BY <1>1, <3>1, TopIsInner
 <2>2. CASE ~curr.mark
  <3>1. pc'[t] = "findSucc" /\ here'[t] = [h EXCEPT !.curr = curr]
   BY <2>2 DEF FindCurr, RetryFind, GoTo, Become, SkipListInv, TypeOK
  <3>2. here'[t] \in Place' BY <1>2, <1>4, <3>1 DEF TypesOf, Place, Nodes, Pointers
  <3>3. Walks(t)'
   BY <1>2, <1>4, <2>2, <3>1 DEF TypesOf, Place, Walks, Finds, Scans, Inner, Linkable, Nodes
  <3>4. Paths(t)'
   BY <1>2, <3>1 DEF TypesOf, Place, ThreadInv, Paths, PathAt, Finds, Inner, Linkable, Nodes
  <3> QED BY <3>2, <3>3, <3>4
 <2> QED BY <2>1, <2>2
<1>7. TypesOf(t)' BY <1>2, <1>5, <1>6 DEF TypesOf, Labels, Nodes
<1>8. ThreadInv(t)' BY <1>2, <1>5, <1>6 DEF ThreadInv, Links, Marks, Finds, FindsFor, Nodes
<1> QED BY <1>2, <1>3, <1>5, <1>7, <1>8, QuietStep DEF FindCurr

(* A marked pointer is never the tail's.                                   *)
LEMMA FindMarkedKeeps ==
 ASSUME SkipListInv, NEW t \in Threads, FindMarked(t)
 PROVE  SkipListInv'
<1> DEFINE h == here[t]
           succ == NextOf(h.curr.ref, h.level)
<1>2. /\ list \in [Nodes -> Record] /\ TypesOf(t) /\ ThreadInv(t) /\ LevelsEnd
      /\ pc[t] = "findSucc" /\ succ.mark
      /\ UNCHANGED <<list, preds, succs, job, height, victim>>
 BY Types DEF FindMarked, locals
<1>3. Acts(t) /\ pc'[t] = "findSnip" /\ here'[t] = [h EXCEPT !.succ = succ]
 BY DEF FindMarked, GoTo, Become, Acts, locals, SkipListInv, TypeOK
<1>4. /\ Inner(h.pred, h.level) /\ Linkable(h.curr.ref, h.level)
      /\ h.curr.ref # Tail_ /\ succ \in Pointers
 BY <1>2 DEF ThreadInv, Walks, Finds, Inner, Linkable, LevelsEnd, NextOf, Record
<1>5. TypesOf(t)' BY <1>2, <1>3, <1>4 DEF TypesOf, Labels, Place, Nodes, Pointers
<1>6. Walks(t)'
 BY <1>2, <1>3, <1>4 DEF TypesOf, Place, ThreadInv, Walks, Finds, Scans, Inner, Linkable, NextOf,
    Nodes
<1>7. Paths(t)'
 BY <1>2, <1>3 DEF TypesOf, Place, ThreadInv, Paths, PathAt, Finds, Inner, Linkable, Nodes
<1>8. Links(t)' /\ Marks(t)' BY <1>2, <1>3 DEF ThreadInv, Links, Marks, Finds, FindsFor, Nodes
<1> QED BY <1>2, <1>3, <1>5, <1>6, <1>7, <1>8, QuietStep DEF FindMarked, ThreadInv

(* find never walks past the tail, whose key is no call's.                 *)
LEMMA FindForwardKeeps ==
 ASSUME SkipListInv, NEW t \in Threads, FindForward(t)
 PROVE  SkipListInv'
<1> DEFINE h == here[t]
           succ == NextOf(h.curr.ref, h.level)
<1>2. /\ list \in [Nodes -> Record] /\ TypesOf(t) /\ ThreadInv(t) /\ LevelsEnd
      /\ pc[t] = "findSucc" /\ ~succ.mark
      /\ call[t].key \in Keys /\ list[h.curr.ref].key < call[t].key
      /\ UNCHANGED <<list, preds, succs, job, height, victim>>
 BY Types DEF FindForward, locals, Before
<1>3. Acts(t) /\ pc'[t] = "findSucc" /\ here'[t] = [h EXCEPT !.pred = h.curr.ref, !.curr = succ]
 BY <1>2 DEF FindForward, Become, Acts, locals, SkipListInv, TypeOK
<1>4. h.curr.ref # Tail_ BY <1>2, KeyBounds DEF LevelsEnd
<1>5. /\ h.level \in Levels /\ Inner(h.curr.ref, h.level)
      /\ succ \in Pointers /\ Linkable(succ.ref, h.level)
 BY <1>2, <1>4 DEF ThreadInv, Walks, Finds, Inner, Linkable, LevelsEnd, NextOf, Record
<1>6. TypesOf(t)' BY <1>2, <1>3, <1>5 DEF TypesOf, Labels, Place, Nodes, Pointers, Inner
<1>7. Walks(t)' BY <1>2, <1>3, <1>5 DEF TypesOf, Place, Walks, Finds, Scans, Inner, Linkable, Nodes
<1>8. Paths(t)'
 BY <1>2, <1>3 DEF TypesOf, Place, ThreadInv, Paths, PathAt, Finds, Inner, Linkable, Nodes
<1>9. Links(t)' /\ Marks(t)' BY <1>2, <1>3 DEF ThreadInv, Links, Marks, Finds, FindsFor, Nodes
<1> QED BY <1>2, <1>3, <1>6, <1>7, <1>8, <1>9, QuietStep DEF FindForward, ThreadInv

(* The snip swings the predecessor past a pointer that is frozen. *)
LEMMA SnipSwings ==
 ASSUME SkipListInv, NEW t \in Threads, FindSnip(t),
        NextOf(here[t].pred, here[t].level) = here[t].curr
 PROVE  /\ ListKept
        /\ ~NextOf(here[t].pred, here[t].level).mark
        /\ NextOf(here[t].curr.ref, here[t].level) = Mark(Unmark(here[t].succ))
        /\ SwingNext(here[t].pred, here[t].level, Unmark(here[t].succ))
<1> DEFINE h == here[t]
<1>1. /\ list \in [Nodes -> Record] /\ TypesOf(t) /\ Walks(t) /\ LevelsEnd
      /\ pc[t] = "findSnip" /\ SwingNext(h.pred, h.level, Unmark(h.succ))
 BY Types DEF FindSnip, ThreadInv
<1>2. /\ Inner(h.pred, h.level) /\ Linkable(h.curr.ref, h.level) /\ h.curr.ref # Tail_
      /\ ~h.curr.mark /\ h.succ.mark /\ NextOf(h.curr.ref, h.level) = h.succ
 BY <1>1 DEF Walks, Finds
<1>3. Inner(h.curr.ref, h.level) BY <1>2 DEF Inner, Linkable
<1>4. h.succ \in Pointers /\ Linkable(h.succ.ref, h.level)
 BY <1>1, <1>2, <1>3 DEF TypesOf, Place, LevelsEnd, NextOf, Inner
<1>5. Unmark(h.succ) \in Pointers /\ Linkable(Unmark(h.succ).ref, h.level)
 BY <1>4 DEF Unmark, Ptr, Pointers
<1>6. h.succ = Mark(Unmark(h.succ)) BY <1>2, <1>4 DEF Mark, Unmark, Ptr, Pointers
<1>7. ~NextOf(h.pred, h.level).mark BY <1>2
<1>8. ListKept BY <1>1, <1>2, <1>5, <1>7, SwingKeeps
<1> QED BY <1>1, <1>2, <1>6, <1>7, <1>8

(* The snip, and the retry when its CAS fails.                             *)
LEMMA FindSnipKeeps ==
 ASSUME SkipListInv, NEW t \in Threads, FindSnip(t)
 PROVE  SkipListInv'
<1> DEFINE h == here[t]
<1>1. /\ TypesOf(t) /\ ThreadInv(t)
      /\ pc[t] = "findSnip"
      /\ UNCHANGED <<preds, succs, job, height, victim>>
 BY Types DEF FindSnip, locals
<1>2. ListKept BY SnipSwings, UnchangedKeeps DEF FindSnip
<1>3. Acts(t) /\ pc'[t] = "findCurr"
 BY DEF FindSnip, RetryFind, GoTo, Become, Acts, locals, SkipListInv, TypeOK
<1>4. \A n, level : (Inner(n, level) => Inner(n, level)')
                    /\ (Linkable(n, level) => Linkable(n, level)')
 BY <1>2 DEF ListKept, Grows, Inner, Linkable
<1>5. here'[t] \in Place' /\ Walks(t)' /\ Paths(t)'
 <2>1. CASE here'[t] = Top BY <1>2, <1>3, <2>1, TopIsInner
 <2>2. CASE here'[t] = [h EXCEPT !.curr = Null, !.succ = Null]
  <3>1. here'[t] \in Place'
   <4>1. Nodes \subseteq Nodes' BY <1>2 DEF ListKept, Grows
   <4>2. h.level \in 0 .. MaxLevel + 1 /\ h.pred \in Nodes' \cup {NoNode}
    BY <1>1, <4>1 DEF TypesOf, Place
   <4>3. Null \in Pointers' BY DEF Pointers, Null, Plain, Ptr
   <4>4. here'[t] = [level |-> h.level, pred |-> h.pred, curr |-> Null, succ |-> Null]
    BY <1>1, <2>2 DEF TypesOf, Place
   <4> QED BY <4>2, <4>3, <4>4 DEF Place
  <3>2. here'[t].pred = h.pred /\ here'[t].level = h.level BY <1>1, <2>2 DEF TypesOf, Place
  <3>3. Walks(t)' BY <1>1, <1>3, <1>4, <3>2 DEF ThreadInv, Walks, Finds, Scans
  <3>4. Paths(t)' BY <1>1, <1>3, <1>4, <3>2 DEF ThreadInv, Paths, PathAt, Finds
  <3> QED BY <3>1, <3>3, <3>4
 <2> QED BY <2>1, <2>2 DEF FindSnip, RetryFind, Become, SkipListInv, TypeOK
<1>6. TypesOf(t)' BY <1>1, <1>2, <1>3, <1>5 DEF TypesOf, ListKept, Grows, Labels
<1>7. Links(t)' /\ Marks(t)'
 BY <1>1, <1>2, <1>3 DEF ThreadInv, Links, Marks, Finds, FindsFor, ListKept, Grows
<1>8. answers' \in [Threads -> SUBSET BOOLEAN]
 BY DEF FindSnip, history, SkipListInv, TypeOK, Abstract!SetTypeOK
<1>9. HistoryTypes' BY <1>1, <1>2, <1>3, <1>8, HistoryKept DEF FindSnip, history
<1> QED BY <1>2, <1>3, <1>5, <1>6, <1>7, <1>9, Preserves DEF ThreadInv

(* A level that is done leaves a place for a link at that level. *)
LEMMA DoneLevelIsPath ==
 ASSUME SkipListInv, NEW t \in Threads, LevelDone(t), UNCHANGED list
 PROVE  /\ preds' = [preds EXCEPT ![t] = preds'[t]]
        /\ succs' = [succs EXCEPT ![t] = succs'[t]]
        /\ preds'[t] \in [Levels -> Nodes \cup {NoNode}]
        /\ succs'[t] \in [Levels -> Nodes \cup {NoNode}]
        /\ here[t].level \in Levels
        /\ \A level \in Levels : level >= here[t].level => PathAt(t, level)'
<1> DEFINE h == here[t]
<1>1. /\ TypesOf(t) /\ ThreadInv(t) /\ pc[t] = "findSucc"
      /\ preds' = [preds EXCEPT ![t][h.level] = h.pred]
      /\ succs' = [succs EXCEPT ![t][h.level] = h.curr.ref]
 BY Types DEF LevelDone
<1>2. preds \in [Threads -> [Levels -> Nodes \cup {NoNode}]]
      /\ succs \in [Threads -> [Levels -> Nodes \cup {NoNode}]]
 BY DEF SkipListInv, TypeOK
<1>3. Inner(h.pred, h.level) /\ Linkable(h.curr.ref, h.level) BY <1>1 DEF ThreadInv, Walks, Finds
<1>4. h.level \in Levels /\ h.pred \in Nodes /\ h.curr.ref \in Nodes BY <1>3 DEF Inner, Linkable
<1>5. /\ preds'[t] = [preds[t] EXCEPT ![h.level] = h.pred]
      /\ succs'[t] = [succs[t] EXCEPT ![h.level] = h.curr.ref]
 BY <1>1, <1>2
<1>6. ASSUME NEW level \in Levels, level >= h.level
      PROVE  PathAt(t, level)'
 <2>1. CASE level = h.level
  <3>1. preds'[t][level] = h.pred /\ succs'[t][level] = h.curr.ref BY <1>2, <1>4, <1>5, <2>1
  <3> QED BY <1>3, <2>1, <3>1 DEF PathAt, Inner, Linkable, Nodes
 <2>2. CASE level > h.level
  <3>1. preds'[t][level] = preds[t][level] /\ succs'[t][level] = succs[t][level]
   BY <1>2, <1>4, <1>5, <2>2, LevelBounds
  <3>2. PathAt(t, level) BY <1>1, <2>2 DEF ThreadInv, Paths, Finds
  <3> QED BY <3>1, <3>2 DEF PathAt, Inner, Linkable, Nodes
 <2>3. level \in Int /\ h.level \in Int BY <1>4, SMT DEF Levels
 <2> QED BY <1>6, <2>1, <2>2, <2>3
<1> QED BY <1>1, <1>2, <1>4, <1>5, <1>6

(* A level down, with a place remembered for the level that is done.       *)
LEMMA FindDownKeeps ==
 ASSUME SkipListInv, NEW t \in Threads, FindDown(t)
 PROVE  SkipListInv'
<1> DEFINE h == here[t]
<1>1. /\ list \in [Nodes -> Record] /\ TypesOf(t) /\ ThreadInv(t)
      /\ pc[t] = "findSucc" /\ h.level > 0
      /\ UNCHANGED <<list, job, height, victim>>
 BY Types DEF FindDown, LevelDone
<1>2. /\ preds' = [preds EXCEPT ![t] = preds'[t]]
      /\ succs' = [succs EXCEPT ![t] = succs'[t]]
      /\ preds'[t] \in [Levels -> Nodes \cup {NoNode}]
      /\ succs'[t] \in [Levels -> Nodes \cup {NoNode}]
      /\ h.level \in Levels
      /\ \A level \in Levels : level >= h.level => PathAt(t, level)'
 BY <1>1, DoneLevelIsPath DEF FindDown
<1>3. /\ Acts(t) /\ pc'[t] = "findCurr"
      /\ here'[t] = [h EXCEPT !.level = h.level - 1, !.curr = Null]
 BY <1>1, <1>2 DEF FindDown, GoTo, Become, Acts, SkipListInv, TypeOK
<1>4. here'[t] = [level |-> h.level - 1, pred |-> h.pred, curr |-> Null, succ |-> h.succ]
 BY <1>1, <1>3 DEF TypesOf, Place
<1>5. h.level - 1 \in Levels /\ h.level - 1 \in 0 .. MaxLevel + 1
 BY <1>1, <1>2, LevelBounds DEF Levels
<1>6. Inner(h.pred, h.level - 1)
 <2>1. Inner(h.pred, h.level) BY <1>1 DEF ThreadInv, Walks, Finds
 <2>2. list[h.pred].topLevel \in Nat /\ h.level \in Nat /\ h.level <= list[h.pred].topLevel
  BY <1>1, <1>2, <2>1, LevelBounds DEF Inner, Record
 <2>3. h.level - 1 <= list[h.pred].topLevel BY <2>2
 <2> QED BY <1>5, <2>1, <2>3 DEF Inner
<1>7. TypesOf(t)'
 <2>1. Null \in Pointers BY DEF Pointers, Null, Plain, Ptr
 <2>2. here'[t] \in Place BY <1>1, <1>4, <1>5, <2>1 DEF TypesOf, Place
 <2> QED BY <1>1, <1>2, <1>3, <2>2 DEF TypesOf, Place, Pointers, Labels, Nodes
<1>8. Walks(t)' BY <1>1, <1>3, <1>4, <1>6 DEF Walks, Finds, Scans, Inner, Nodes
<1>9. Paths(t)'
 <2>1. ASSUME NEW level \in Levels, level > h.level - 1 PROVE level >= h.level
  <3>1. h.level \in Int /\ level \in Int BY <1>2, SMT DEF Levels
  <3> QED BY <2>1, <3>1
 <2>2. \A level \in Levels : level > h.level - 1 => PathAt(t, level)' BY <1>2, <2>1
 <2> QED BY <1>3, <1>4, <2>2 DEF Paths, Finds
<1>10. Links(t)' /\ Marks(t)' BY <1>1, <1>3 DEF ThreadInv, Links, Marks, Finds, FindsFor, Nodes
<1> QED BY <1>1, <1>3, <1>7, <1>8, <1>9, <1>10, QuietStep DEF FindDown, ThreadInv

-----------------------------------------------------------------------------
(* Calls that return, and calls that search (again). *)
LEMMA ReturnKeeps ==
 ASSUME SkipListInv, NEW t \in Threads, NEW r \in BOOLEAN, Return(t, r),
        UNCHANGED list,
        released' \in [Threads -> Seq(Nodes \ {Head_, Tail_})]
 PROVE  SkipListInv'
<1>1. ListKept BY UnchangedKeeps
<1>2. /\ Acts(t) /\ pc'[t] = "idle" /\ here'[t] = Nowhere
      /\ preds'[t] = NoPath /\ succs'[t] = NoPath
      /\ job'[t] = NoJob /\ height'[t] = 0 /\ victim'[t] = NoNode
 BY DEF Return, GoTo, Become, Acts, SkipListInv, TypeOK
<1>3. TypesOf(t)'
 <2>1. NoPath \in [Levels -> Nodes' \cup {NoNode}] BY DEF NoPath
 <2>2. NoJob \in [why : {"none", "add", "relink", "remove", "snip"}, level : Levels]
  BY LevelBounds DEF NoJob, Job
 <2>3. Nowhere \in Place' BY LevelBounds DEF Nowhere, Place, Pointers, Null, Plain, Ptr
 <2> QED BY <1>2, <2>1, <2>2, <2>3, LevelBounds DEF TypesOf, Labels
<1>4. ThreadInv(t)'
 BY <1>2 DEF ThreadInv, Walks, Paths, Links, Marks, Finds, Scans, FindsFor, Nowhere
<1>5. HistoryTypes'
 <2>1. TypeOK BY DEF SkipListInv
 <2>2. Abstract!SetTypeOK'
  <3>1. NoCall \in Abstract!SetCalls \cup {NoCall} OBVIOUS
  <3> QED BY <2>1, <3>1 DEF TypeOK, Return, Abstract!SetTypeOK, Contents, Abstract!Results, NoCall
 <2>3. \A u \in Threads : pc'[u] = "idle" <=> call'[u] = NoCall
  BY <2>1 DEF TypeOK, Return, GoTo, Abstract!SetTypeOK
 <2> QED BY <2>1, <2>2, <2>3 DEF TypeOK, Return, HistoryTypes, bounds, Nodes
<1> QED BY <1>1, <1>2, <1>3, <1>4, <1>5, Preserves

(* A search that starts over for any of the reasons.                       *)
LEMMA FindStarts ==
 ASSUME SkipListInv, ListKept, NEW t \in Threads, pc[t] # "idle",
        NEW why \in {"add", "relink", "remove", "snip"}, Find(t, why),
        here[t].level \in Levels,
        why \in {"relink", "snip"} => victim[t] \in Nodes \ {Head_, Tail_},
        why = "relink" => list[victim[t]].topLevel = height[t] /\ here[t].level # 0,
        UNCHANGED <<released, locals, call, result, bounds>>,
        answers' \in [Threads -> SUBSET BOOLEAN]
 PROVE  SkipListInv'
<1>1. TypesOf(t) /\ Grows BY Types DEF ListKept
<1>2. /\ Acts(t) /\ pc'[t] = "findCurr" /\ here'[t] = Top
      /\ job'[t] = Job(why, here[t].level)
      /\ UNCHANGED <<preds, succs, height, victim>>
 BY DEF Find, GoTo, Become, Acts, locals, SkipListInv, TypeOK
<1>3. here'[t] \in Place' /\ Walks(t)' /\ Paths(t)' BY <1>2, TopIsInner
<1>4. TypesOf(t)' BY <1>1, <1>2, <1>3 DEF TypesOf, Grows, Labels, Job
<1>5. Links(t)' /\ Marks(t)' BY <1>1, <1>2 DEF Links, Marks, Finds, FindsFor, Grows, Job
<1>6. HistoryTypes' BY <1>2, HistoryKept
<1> QED BY <1>2, <1>3, <1>4, <1>5, <1>6, Preserves DEF ThreadInv

(* The calls that change nothing when they return. *)
LEMMA PlainReturnsKeep ==
 ASSUME SkipListInv, NEW t \in Threads,
        AddFindsKey(t) \/ AddReturns(t) \/ RemoveMissesKey(t) \/ ContainsReturns(t)
 PROVE  SkipListInv'
<1>1. PICK r \in BOOLEAN : Return(t, r)
 BY DEF AddFindsKey, AddReturns, RemoveMissesKey, ContainsReturns
<1>2. UNCHANGED <<list, released>> BY DEF AddFindsKey, AddReturns, RemoveMissesKey, ContainsReturns
<1>3. released \in [Threads -> Seq(Nodes \ {Head_, Tail_})] BY DEF SkipListInv, TypeOK
<1> QED BY <1>1, <1>2, <1>3, ReturnKeeps

(* The remove that won hands its node to the manager.                      *)
LEMMA RemoveReturnsKeeps ==
 ASSUME SkipListInv, NEW t \in Threads, RemoveReturns(t)
 PROVE  SkipListInv'
<1>1. FindsFor(t, "snip") /\ ThreadInv(t) BY Types DEF RemoveReturns, FindEnds, FindsFor, Finds
<1>2. victim[t] \in Nodes \ {Head_, Tail_} BY <1>1 DEF ThreadInv, Marks
<1>3. released \in [Threads -> Seq(Nodes \ {Head_, Tail_})] BY DEF SkipListInv, TypeOK
<1>4. Append(released[t], victim[t]) \in Seq(Nodes \ {Head_, Tail_}) BY <1>2, <1>3
<1>5. released' \in [Threads -> Seq(Nodes \ {Head_, Tail_})] BY <1>3, <1>4 DEF RemoveReturns
<1> QED BY <1>5, ReturnKeeps DEF RemoveReturns

-----------------------------------------------------------------------------
(* The steps of add. *)
LEMMA AddPreparesKeeps ==
 ASSUME SkipListInv, NEW t \in Threads, AddPrepares(t)
 PROVE  SkipListInv'
<1>1. /\ TypesOf(t) /\ pc[t] = "findSucc" /\ here[t].level = 0
      /\ UNCHANGED <<list, job, height, victim>>
 BY Types DEF AddPrepares, LevelDone, FindEnds
<1>2. /\ preds' = [preds EXCEPT ![t] = preds'[t]]
      /\ succs' = [succs EXCEPT ![t] = succs'[t]]
      /\ preds'[t] \in [Levels -> Nodes \cup {NoNode}]
      /\ succs'[t] \in [Levels -> Nodes \cup {NoNode}]
      /\ \A level \in Levels : PathAt(t, level)'
 BY <1>1, DoneLevelIsPath, LevelBounds DEF AddPrepares
<1>3. Acts(t) /\ pc'[t] = "link" /\ here'[t] = Nowhere
 BY <1>1, <1>2 DEF AddPrepares, GoTo, Become, Acts, SkipListInv, TypeOK
<1>4. TypesOf(t)'
 <2>1. Nowhere \in Place' BY LevelBounds DEF Nowhere, Place, Pointers, Null, Plain, Ptr
 <2> QED BY <1>1, <1>2, <1>3, <2>1 DEF TypesOf, Labels, Nodes
<1>5. ThreadInv(t)'
 BY <1>2, <1>3 DEF ThreadInv, Walks, Paths, Links, Marks, Finds, Scans, FindsFor, Nowhere
<1> QED BY <1>1, <1>3, <1>4, <1>5, QuietStep DEF AddPrepares

(* The node that is linked at level 0 has the height that the call drew.   *)
LEMMA LinkStepKeeps ==
 ASSUME SkipListInv, NEW t \in Threads, Link(t)
 PROVE  SkipListInv'
<1> DEFINE new == NewName(t)
<1>1. /\ TypesOf(t) /\ ThreadInv(t) /\ pc[t] = "link"
      /\ UNCHANGED <<preds, succs, job, height>>
 BY Types DEF Link
<1>2. /\ ListKept /\ new \in Nodes' \ {Head_, Tail_}
      /\ list'[new].topLevel = height[t]
 BY LinkKeeps
<1>3. /\ victim' = [victim EXCEPT ![t] = new]
      /\ here' = [here EXCEPT ![t] = [Nowhere EXCEPT !.level = 1]]
      /\ pc' = [pc EXCEPT ![t] = "linkUpper"]
      /\ answers' = Abstract!AnswersAfter(t, Contents(list'))
      /\ UNCHANGED <<released, call, result, bounds>>
 BY DEF Link, GoTo, Become
<1> HIDE DEF new
<1>4. /\ Acts(t) /\ pc'[t] = "linkUpper" /\ victim'[t] = new
      /\ here'[t] = [level |-> 1, pred |-> NoNode, curr |-> Null, succ |-> Null]
 BY <1>1, <1>3 DEF Acts, SkipListInv, TypeOK, Nowhere
<1>5. TypesOf(t)'
 <2>1. Nodes \subseteq Nodes' BY <1>2 DEF ListKept, Grows
 <2>2. here'[t] \in Place' BY <1>4, LevelBounds DEF Place, Pointers, Null, Plain, Ptr
 <2> QED BY <1>1, <1>2, <1>4, <2>1, <2>2 DEF TypesOf, Labels
<1>6. Paths(t)'
 <2>1. Grows BY <1>2 DEF ListKept
 <2>2. \A level \in Levels : PathAt(t, level) BY <1>1 DEF ThreadInv, Paths
 <2>3. \A level \in Levels : PathAt(t, level)'
  BY <1>1, <2>1, <2>2 DEF PathAt, Inner, Linkable, Grows
 <2> QED BY <1>4, <2>3 DEF Paths, Finds
<1>7. Walks(t)' /\ Marks(t)' BY <1>4 DEF Walks, Marks, Finds, Scans, FindsFor
<1>8. Links(t)' BY <1>1, <1>2, <1>4, LevelBounds DEF Links, Finds, FindsFor
<1>9. HistoryTypes'
 <2>1. answers' \in [Threads -> SUBSET BOOLEAN] BY <1>3, AnswersAreTyped
 <2> QED BY <1>1, <1>2, <1>3, <1>4, <2>1, HistoryKept
<1> QED BY <1>2, <1>4, <1>5, <1>6, <1>7, <1>8, <1>9, Preserves DEF ThreadInv

(* Another thread changed the place: the add searches again.               *)
LEMMA LinkFailsKeeps ==
 ASSUME SkipListInv, NEW t \in Threads, LinkFails(t)
 PROVE  SkipListInv'
<1>1. ListKept BY UnchangedKeeps DEF LinkFails
<1>2. pc[t] = "link" /\ here[t].level = 0 BY Types DEF LinkFails, ThreadInv, Links
<1>3. answers' \in [Threads -> SUBSET BOOLEAN]
 BY DEF LinkFails, history, SkipListInv, TypeOK, Abstract!SetTypeOK
<1> QED BY <1>1, <1>2, <1>3, FindStarts, LevelBounds DEF LinkFails, history

(* A CAS that links the node at an upper level. *)
LEMMA LinkUpperSwings ==
 ASSUME SkipListInv, NEW t \in Threads, LinkUpper(t),
        NextOf(preds[t][here[t].level], here[t].level) = Plain(succs[t][here[t].level])
 PROVE  /\ ListKept
        /\ here[t].level \in Levels \ {0}
        /\ preds[t][here[t].level] \in Nodes
        /\ SwingNext(preds[t][here[t].level], here[t].level, Plain(victim[t]))
        /\ ~NextOf(preds[t][here[t].level], here[t].level).mark
<1> DEFINE level == here[t].level
           p == preds[t][level]
<1>1. /\ TypesOf(t) /\ ThreadInv(t) /\ pc[t] = "linkUpper" /\ level <= height[t]
      /\ SwingNext(p, level, Plain(victim[t]))
 BY Types DEF LinkUpper
<1>2. level \in 1 .. MaxLevel + 1 /\ height[t] \in 0 .. MaxLevel
 BY <1>1 DEF ThreadInv, Links, TypesOf, Levels
<1>3. level \in Levels \ {0} BY <1>1, <1>2, LevelBounds DEF Levels
<1>4. Inner(p, level) BY <1>1, <1>3 DEF ThreadInv, Paths, PathAt
<1>5. Plain(victim[t]) \in Pointers /\ Linkable(Plain(victim[t]).ref, level)
 BY <1>1 DEF ThreadInv, Links, Pointers, Linkable, Plain, Ptr
<1>6. ~NextOf(p, level).mark BY DEF Plain, Ptr
<1>7. ListKept BY <1>1, <1>4, <1>5, <1>6, SwingKeeps
<1> QED BY <1>1, <1>3, <1>4, <1>6, <1>7 DEF Inner

(* The CAS at an upper level, and the search when it fails.                *)
LEMMA LinkUpperKeeps ==
 ASSUME SkipListInv, NEW t \in Threads, LinkUpper(t)
 PROVE  SkipListInv'
<1> DEFINE level == here[t].level
           p == preds[t][level]
<1>1. /\ TypesOf(t) /\ ThreadInv(t) /\ pc[t] = "linkUpper" /\ level <= height[t]
      /\ UNCHANGED <<released, locals, history, bounds>>
      /\ UNCHANGED <<preds, succs, height, victim>>
 BY Types DEF LinkUpper, locals
<1>2. level \in 1 .. MaxLevel + 1 /\ height[t] \in 0 .. MaxLevel
 BY <1>1 DEF ThreadInv, Links, TypesOf, Levels
<1>3. level \in Levels \ {0} /\ level + 1 \in 1 .. MaxLevel + 1
 BY <1>1, <1>2, LevelBounds DEF Levels
<1>4. answers' \in [Threads -> SUBSET BOOLEAN]
 BY <1>1 DEF history, SkipListInv, TypeOK, Abstract!SetTypeOK
<1>5. victim[t] \in Nodes \ {Head_, Tail_} /\ list[victim[t]].topLevel = height[t]
 BY <1>1 DEF ThreadInv, Links
<1>6. CASE NextOf(p, level) = Plain(succs[t][level])
 <2>1. ListKept /\ Grows BY <1>6, LinkUpperSwings DEF ListKept
 <2>2. /\ pc' = pc /\ job' = job
       /\ here' = [here EXCEPT ![t] = [Nowhere EXCEPT !.level = level + 1]]
  BY <1>6 DEF LinkUpper, Become
 <2>3. /\ Acts(t) /\ pc'[t] = "linkUpper"
       /\ here'[t] = [level |-> level + 1, pred |-> NoNode, curr |-> Null, succ |-> Null]
  BY <1>1, <2>2 DEF Acts, SkipListInv, TypeOK, Nowhere
 <2>4. TypesOf(t)'
  <3>1. here'[t] \in Place' BY <1>3, <2>3, LevelBounds DEF Place, Pointers, Null, Plain, Ptr
  <3> QED BY <1>1, <2>1, <2>2, <2>3, <3>1 DEF TypesOf, Labels, Grows
 <2>5. Paths(t)'
  <3>1. \A k \in Levels : PathAt(t, k) BY <1>1 DEF ThreadInv, Paths
  <3>2. \A k \in Levels : PathAt(t, k)' BY <1>1, <2>1, <3>1 DEF PathAt, Inner, Linkable, Grows
  <3> QED BY <2>3, <3>2 DEF Paths, Finds
 <2>6. Walks(t)' /\ Marks(t)' BY <2>3 DEF Walks, Marks, Finds, Scans, FindsFor
 <2>7. Links(t)' BY <1>1, <1>3, <1>5, <2>1, <2>3 DEF Links, Finds, FindsFor, Grows
 <2>8. HistoryTypes' BY <1>1, <1>4, <2>1, <2>3, HistoryKept DEF history
 <2> QED BY <2>1, <2>3, <2>4, <2>5, <2>6, <2>7, <2>8, Preserves DEF ThreadInv
<1>7. CASE NextOf(p, level) # Plain(succs[t][level])
 <2>1. Find(t, "relink") /\ ListKept BY <1>7, UnchangedKeeps DEF LinkUpper
 <2> QED BY <1>1, <1>3, <1>4, <1>5, <2>1, FindStarts DEF history
<1> QED BY <1>6, <1>7

(* The add goes on at the level that failed.                               *)
LEMMA ResumeLinkingKeeps ==
 ASSUME SkipListInv, NEW t \in Threads, ResumeLinking(t)
 PROVE  SkipListInv'
<1>1. /\ TypesOf(t) /\ ThreadInv(t) /\ pc[t] = "findSucc" /\ here[t].level = 0
      /\ FindsFor(t, "relink")
      /\ UNCHANGED <<list, job, height, victim>>
 BY Types DEF ResumeLinking, LevelDone, FindEnds, FindsFor, Finds
<1>2. /\ preds' = [preds EXCEPT ![t] = preds'[t]]
      /\ succs' = [succs EXCEPT ![t] = succs'[t]]
      /\ preds'[t] \in [Levels -> Nodes \cup {NoNode}]
      /\ succs'[t] \in [Levels -> Nodes \cup {NoNode}]
      /\ \A level \in Levels : PathAt(t, level)'
 BY <1>1, DoneLevelIsPath, LevelBounds DEF ResumeLinking
<1>3. job[t].level \in 1 .. MaxLevel BY <1>1, LevelBounds DEF ThreadInv, Links, Levels
<1>4. /\ Acts(t) /\ pc'[t] = "linkUpper"
      /\ here'[t] = [level |-> job[t].level, pred |-> NoNode, curr |-> Null, succ |-> Null]
 BY <1>1, <1>2 DEF ResumeLinking, GoTo, Become, Acts, SkipListInv, TypeOK, Nowhere
<1>5. TypesOf(t)'
 <2>1. here'[t] \in Place' BY <1>3, <1>4, LevelBounds DEF Place, Pointers, Null, Plain, Ptr
 <2> QED BY <1>1, <1>2, <1>4, <2>1 DEF TypesOf, Labels, Nodes
<1>6. Walks(t)' /\ Paths(t)' /\ Marks(t)'
 BY <1>2, <1>4 DEF Walks, Paths, Marks, Finds, Scans, FindsFor
<1>7. Links(t)'
 <2>1. here'[t].level \in 1 .. MaxLevel + 1 BY <1>3, <1>4, LevelBounds
 <2> QED BY <1>1, <1>4, <2>1 DEF ThreadInv, Links, Finds, FindsFor, Nodes
<1> QED BY <1>1, <1>4, <1>5, <1>6, <1>7, QuietStep DEF ResumeLinking, ThreadInv

-----------------------------------------------------------------------------
(* The steps of remove. *)
LEMMA RemovePreparesKeeps ==
 ASSUME SkipListInv, NEW t \in Threads, RemovePrepares(t)
 PROVE  SkipListInv'
<1> DEFINE node == here[t].curr.ref
           level == list[node].topLevel
<1>1. /\ list \in [Nodes -> Record] /\ LevelsEnd /\ TypesOf(t) /\ ThreadInv(t)
      /\ pc[t] = "findSucc" /\ here[t].level = 0
      /\ list[node].key = call[t].key /\ call[t].key \in Keys
      /\ UNCHANGED <<list, job, height>>
 BY Types DEF RemovePrepares, FindEnds, Found
<1>2. /\ preds' = [preds EXCEPT ![t] = preds'[t]]
      /\ succs' = [succs EXCEPT ![t] = succs'[t]]
      /\ preds'[t] \in [Levels -> Nodes \cup {NoNode}]
      /\ succs'[t] \in [Levels -> Nodes \cup {NoNode}]
 BY <1>1, DoneLevelIsPath DEF RemovePrepares
<1>3. node \in Nodes BY <1>1 DEF ThreadInv, Walks, Linkable
<1>4. node # Tail_ /\ node # Head_ BY <1>1, KeyBounds DEF LevelsEnd
<1>5. level \in Levels /\ Inner(node, level)
 BY <1>1, <1>3, <1>4, LevelBounds DEF Record, Inner, Levels
<1>6. /\ Acts(t) /\ pc'[t] = "readMark" /\ victim'[t] = node
      /\ here'[t] = [level |-> level, pred |-> NoNode, curr |-> Null, succ |-> Null]
 BY <1>1, <1>2 DEF RemovePrepares, GoTo, Become, Acts, SkipListInv, TypeOK, Nowhere
<1>7. TypesOf(t)'
 <2>1. here'[t] \in Place' BY <1>5, <1>6, LevelBounds DEF Place, Pointers, Null, Plain, Ptr, Levels
 <2> QED BY <1>1, <1>2, <1>3, <1>6, <2>1 DEF TypesOf, Labels, Nodes
<1>8. Walks(t)' /\ Paths(t)' /\ Links(t)' BY <1>6 DEF Walks, Paths, Links, Finds, Scans, FindsFor
<1>9. Marks(t)'
 <2>1. level + 1 .. level = {} BY <1>5, LevelBounds DEF Levels
 <2> QED BY <1>1, <1>3, <1>4, <1>5, <1>6, <2>1 DEF Marks, Finds, FindsFor, Inner, Nodes
<1> QED BY <1>1, <1>6, <1>7, <1>8, <1>9, QuietStep DEF RemovePrepares, ThreadInv

(* The next level to mark, when a level is marked. *)
DownOne(n, level) ==
    /\ Inner(n, level - 1)
    /\ \A upper \in level - 1 + 1 .. list[n].topLevel : list[n].next[upper].mark

(* When a level and those above it are marked, the next one can be.        *)
LEMMA DownOneLevel ==
 ASSUME SkipListInv, NEW n, NEW level, Inner(n, level), level > 0,
        list[n].next[level].mark,
        \A upper \in level + 1 .. list[n].topLevel : list[n].next[upper].mark
 PROVE  DownOne(n, level)
<1>1. list[n].topLevel \in Levels /\ level \in Levels /\ level <= list[n].topLevel
 BY DEF Inner, SkipListInv, TypeOK
<1>2. list[n].topLevel \in Nat /\ level \in Nat BY <1>1, LevelBounds
<1>3. level - 1 \in Levels /\ level - 1 <= list[n].topLevel BY <1>1, <1>2, LevelBounds DEF Levels
<1>4. \A upper \in level - 1 + 1 .. list[n].topLevel :
          upper = level \/ upper \in level + 1 .. list[n].topLevel
 BY <1>2
<1> QED BY <1>3, <1>4 DEF DownOne, Inner

(* Reading the pointer that is to be marked.                               *)
LEMMA ReadMarkKeeps ==
 ASSUME SkipListInv, NEW t \in Threads, ReadMark(t)
 PROVE  SkipListInv'
<1> DEFINE succ == NextOf(victim[t], here[t].level)
<1>1. /\ list \in [Nodes -> Record] /\ TypesOf(t) /\ ThreadInv(t)
      /\ pc[t] = "readMark" /\ ~succ.mark
      /\ UNCHANGED <<list, preds, succs, job, height, victim>>
 BY Types DEF ReadMark, locals
<1>2. Acts(t) /\ pc'[t] = "mark" /\ here'[t] = [here[t] EXCEPT !.succ = succ]
 BY <1>1 DEF ReadMark, GoTo, Become, Acts, SkipListInv, TypeOK
<1>3. succ \in Pointers BY <1>1 DEF ThreadInv, Marks, Inner, NextOf, Record
<1>4. TypesOf(t)' BY <1>1, <1>2, <1>3 DEF TypesOf, Labels, Place, Nodes, Pointers
<1>5. here'[t].succ = succ /\ here'[t].level = here[t].level BY <1>1, <1>2 DEF TypesOf, Place
<1>6. Marks(t)' BY <1>1, <1>2, <1>5 DEF ThreadInv, Marks, Finds, FindsFor, Inner, Nodes
<1>7. Walks(t)' /\ Paths(t)' /\ Links(t)' BY <1>2 DEF Walks, Paths, Links, Finds, Scans, FindsFor
<1> QED BY <1>1, <1>2, <1>4, <1>6, <1>7, QuietStep DEF ReadMark, ThreadInv

(* A level that another remove has marked is passed.                       *)
LEMMA UpperMarkedKeeps ==
 ASSUME SkipListInv, NEW t \in Threads, UpperMarked(t)
 PROVE  SkipListInv'
<1> DEFINE level == here[t].level
           v == victim[t]
<1>1. /\ list \in [Nodes -> Record] /\ TypesOf(t) /\ ThreadInv(t)
      /\ pc[t] = "readMark" /\ level > 0 /\ list[v].next[level].mark
      /\ UNCHANGED <<list, pc, preds, succs, job, height, victim>>
 BY Types DEF UpperMarked, locals, NextOf
<1>2. /\ Acts(t) /\ pc'[t] = "readMark"
      /\ here'[t] = [level |-> level - 1, pred |-> NoNode, curr |-> Null, succ |-> Null]
 BY <1>1 DEF UpperMarked, Become, Acts, SkipListInv, TypeOK, Nowhere
<1>3. /\ Inner(v, level) /\ v \in Nodes \ {Head_, Tail_}
      /\ \A upper \in level + 1 .. list[v].topLevel : list[v].next[upper].mark
 BY <1>1 DEF ThreadInv, Marks
<1>4. DownOne(v, level) BY <1>1, <1>3, DownOneLevel
<1>5. TypesOf(t)'
 <2>1. here'[t] \in Place'
  BY <1>2, <1>4, LevelBounds DEF DownOne, Place, Pointers, Null, Plain, Ptr, Inner, Levels
 <2> QED BY <1>1, <1>2, <2>1 DEF TypesOf, Labels, Nodes
<1>6. Marks(t)' BY <1>1, <1>2, <1>3, <1>4 DEF DownOne, Marks, Finds, FindsFor, Inner, Nodes
<1>7. Walks(t)' /\ Paths(t)' /\ Links(t)' BY <1>2 DEF Walks, Paths, Links, Finds, Scans, FindsFor
<1> QED BY <1>1, <1>2, <1>5, <1>6, <1>7, QuietStep DEF UpperMarked, ThreadInv

(* Another remove marked level 0: the whole call starts over.              *)
LEMMA RemoveLosesKeeps ==
 ASSUME SkipListInv, NEW t \in Threads, RemoveLoses(t)
 PROVE  SkipListInv'
<1>1. ListKept BY UnchangedKeeps DEF RemoveLoses
<1>2. answers' \in [Threads -> SUBSET BOOLEAN]
 BY DEF RemoveLoses, history, SkipListInv, TypeOK, Abstract!SetTypeOK
<1> QED BY <1>1, <1>2, FindStarts, LevelBounds DEF RemoveLoses, history

(* The pointer changed since it was read: it is read again.                *)
LEMMA MarkFailsKeeps ==
 ASSUME SkipListInv, NEW t \in Threads, MarkFails(t)
 PROVE  SkipListInv'
<1>1. /\ list \in [Nodes -> Record] /\ TypesOf(t) /\ ThreadInv(t)
      /\ pc[t] = "mark"
      /\ UNCHANGED <<list, preds, succs, job, height, victim>>
 BY Types DEF MarkFails, locals
<1>2. Acts(t) /\ pc'[t] = "readMark" /\ here'[t] = [here[t] EXCEPT !.succ = Null]
 BY <1>1 DEF MarkFails, GoTo, Become, Acts, SkipListInv, TypeOK
<1>3. Null \in Pointers BY DEF Pointers, Null, Plain, Ptr
<1>4. TypesOf(t)' BY <1>1, <1>2, <1>3 DEF TypesOf, Labels, Place, Nodes, Pointers
<1>5. here'[t].level = here[t].level BY <1>1, <1>2 DEF TypesOf, Place
<1>6. Marks(t)' BY <1>1, <1>2, <1>5 DEF ThreadInv, Marks, Finds, FindsFor, Inner, Nodes
<1>7. Walks(t)' /\ Paths(t)' /\ Links(t)' BY <1>2 DEF Walks, Paths, Links, Finds, Scans, FindsFor
<1> QED BY <1>1, <1>2, <1>4, <1>6, <1>7, QuietStep DEF MarkFails, ThreadInv

(* The CAS that marks a pointer keeps where it points. *)
LEMMA MarkSwings ==
 ASSUME SkipListInv, NEW t \in Threads, pc[t] = "mark",
        NextOf(victim[t], here[t].level) = here[t].succ,
        SwingNext(victim[t], here[t].level, Mark(here[t].succ))
 PROVE  /\ ListKept
        /\ Inner(victim[t], here[t].level)
        /\ ~NextOf(victim[t], here[t].level).mark
        /\ list'[victim[t]].next[here[t].level] = Mark(here[t].succ)
        /\ \A upper \in here[t].level + 1 .. list[victim[t]].topLevel :
             /\ upper \in Levels
             /\ list[victim[t]].next[upper].mark
<1> DEFINE level == here[t].level
           v == victim[t]
           succ == here[t].succ
<1>1. /\ list \in [Nodes -> Record] /\ TypesOf(t) /\ Marks(t) /\ LevelsEnd BY Types DEF ThreadInv
<1>2. /\ Inner(v, level) /\ ~succ.mark
      /\ \A upper \in level + 1 .. list[v].topLevel : list[v].next[upper].mark
 BY <1>1 DEF Marks
<1>3. v \in Nodes \ {Tail_} /\ level \in Levels BY <1>2 DEF Inner
<1>4. Linkable(succ.ref, level) /\ succ \in Pointers
 BY <1>1, <1>2, <1>3 DEF LevelsEnd, NextOf, TypesOf, Place
<1>5. Mark(succ) \in Pointers /\ Linkable(Mark(succ).ref, level) BY <1>4 DEF Mark, Ptr, Pointers
<1>6. ListKept BY <1>2, <1>5, SwingKeeps
<1>7. list'[v].next[level] = Mark(succ) BY <1>1, <1>3 DEF SwingNext, Record
<1>8. \A upper \in level + 1 .. list[v].topLevel : upper \in Levels
 <2>1. list[v].topLevel \in 0 .. MaxLevel /\ level \in 0 .. MaxLevel /\ MaxLevel \in Nat
  BY <1>1, <1>3, LevelBounds DEF Record, Levels
 <2> QED BY <2>1 DEF Levels
<1> QED BY <1>2, <1>6, <1>7, <1>8

(* The mark of an upper level.                                             *)
LEMMA MarkUpperKeeps ==
 ASSUME SkipListInv, NEW t \in Threads, MarkUpper(t)
 PROVE  SkipListInv'
<1> DEFINE level == here[t].level
           v == victim[t]
<1>1. /\ list \in [Nodes -> Record] /\ TypesOf(t) /\ ThreadInv(t)
      /\ pc[t] = "mark" /\ level > 0
      /\ UNCHANGED <<released, locals, history, bounds>>
      /\ UNCHANGED <<preds, succs, job, height, victim>>
 BY Types DEF MarkUpper, locals
<1>2. /\ ListKept /\ Grows /\ Inner(v, level)
      /\ list'[v].next[level] = Mark(here[t].succ)
      /\ \A upper \in level + 1 .. list[v].topLevel :
           upper \in Levels /\ list[v].next[upper].mark
 BY <1>1, MarkSwings DEF MarkUpper, ListKept
<1>3. /\ Acts(t) /\ pc'[t] = "readMark"
      /\ here'[t] = [level |-> level - 1, pred |-> NoNode, curr |-> Null, succ |-> Null]
 BY <1>1 DEF MarkUpper, GoTo, Become, Acts, SkipListInv, TypeOK, Nowhere
<1>4. v \in Nodes \ {Head_, Tail_} BY <1>1 DEF ThreadInv, Marks
<1>5. /\ level \in Nat /\ list[v].topLevel \in Nat /\ level <= list[v].topLevel
      /\ level - 1 \in Levels /\ list'[v].topLevel = list[v].topLevel
 BY <1>1, <1>2, <1>4, LevelBounds DEF Inner, Record, Grows, Levels
<1>6. Marks(t)'
 <2>1. \A upper \in level - 1 + 1 .. list[v].topLevel :
         upper = level \/ upper \in level + 1 .. list[v].topLevel
  BY <1>5
 <2>2. list'[v].next[level].mark BY <1>2 DEF Mark, Ptr
 <2>3. \A upper \in level + 1 .. list[v].topLevel : list'[v].next[upper].mark
  BY <1>2, <1>4 DEF Grows
 <2>4. \A upper \in level - 1 + 1 .. list'[v].topLevel : list'[v].next[upper].mark
  BY <1>5, <2>1, <2>2, <2>3
 <2>5. v \in Nodes' \ {Head_, Tail_} BY <1>2, <1>4 DEF Grows
 <2>6. level - 1 <= list'[v].topLevel BY <1>5
 <2>7. Inner(victim[t], here[t].level)' BY <1>1, <1>3, <1>5, <2>5, <2>6 DEF Inner
 <2> QED BY <1>1, <1>3, <2>4, <2>5, <2>7 DEF Marks, Finds, FindsFor
<1>7. TypesOf(t)'
 <2>1. here'[t] \in Place' BY <1>3, <1>5, LevelBounds DEF Place, Pointers, Null, Plain, Ptr, Levels
 <2> QED BY <1>1, <1>2, <1>3, <2>1 DEF TypesOf, Labels, Grows
<1>8. Walks(t)' /\ Paths(t)' /\ Links(t)' BY <1>3 DEF Walks, Paths, Links, Finds, Scans, FindsFor
<1>9. HistoryTypes'
 <2>1. answers' \in [Threads -> SUBSET BOOLEAN]
  BY <1>1 DEF history, SkipListInv, TypeOK, Abstract!SetTypeOK
 <2> QED BY <1>1, <1>2, <1>3, <2>1, HistoryKept DEF history
<1> QED BY <1>2, <1>3, <1>6, <1>7, <1>8, <1>9, Preserves DEF ThreadInv

(* The mark that takes the key out of the set.                             *)
LEMMA MarkBottomKeeps ==
 ASSUME SkipListInv, NEW t \in Threads, MarkBottom(t)
 PROVE  SkipListInv'
<1>1. ListKept BY MarkSwings DEF MarkBottom
<1>2. victim[t] \in Nodes \ {Head_, Tail_} BY Types DEF MarkBottom, ThreadInv, Marks
<1>3. answers' \in [Threads -> SUBSET BOOLEAN] BY AnswersAreTyped DEF MarkBottom
<1> QED BY <1>1, <1>2, <1>3, FindStarts, LevelBounds DEF MarkBottom

-----------------------------------------------------------------------------
(* The steps of contains, which leave everything but here and pc alone.    *)
LEMMA ScanStep ==
 ASSUME SkipListInv, NEW t \in Threads, Scans(t),
        pc' = [pc EXCEPT ![t] = pc'[t]], pc'[t] \in {"scanCurr", "scanSucc", "scanSkip"},
        here' = [here EXCEPT ![t] = here'[t]], here'[t] \in Place,
        UNCHANGED <<list, released, job, locals, history, bounds>>,
        Walks(t)'
 PROVE  SkipListInv'
<1>1. TypesOf(t) /\ UNCHANGED <<preds, succs, height, victim>> BY Types DEF locals
<1>2. Acts(t) BY <1>1 DEF Acts, SkipListInv, TypeOK
<1>3. TypesOf(t)' BY <1>1 DEF TypesOf, Place, Pointers, Labels, Nodes
<1>4. Paths(t)' /\ Links(t)' /\ Marks(t)' BY DEF Paths, Links, Marks, Finds, FindsFor
<1> QED BY <1>2, <1>3, <1>4, QuietStep DEF ThreadInv, Scans

(* contains reads a pointer without its mark.                              *)
LEMMA ScanCurrKeeps ==
 ASSUME SkipListInv, NEW t \in Threads, ScanCurr(t)
 PROVE  SkipListInv'
<1> DEFINE h == here[t]
           next == NextOf(h.pred, h.level)
<1>1. /\ list \in [Nodes -> Record] /\ TypesOf(t) /\ ThreadInv(t) /\ LevelsEnd
      /\ pc[t] = "scanCurr" /\ UNCHANGED list
 BY Types DEF ScanCurr
<1>2. /\ pc' = [pc EXCEPT ![t] = pc'[t]] /\ pc'[t] = "scanSucc"
      /\ here' = [here EXCEPT ![t] = here'[t]]
      /\ here'[t] = [h EXCEPT !.curr = Unmark(next)]
 BY DEF ScanCurr, GoTo, Become, SkipListInv, TypeOK
<1>3. Inner(h.pred, h.level) /\ next \in Pointers /\ Linkable(next.ref, h.level)
 BY <1>1 DEF ThreadInv, Walks, Scans, Inner, LevelsEnd, NextOf, Record
<1>4. Unmark(next) \in Pointers /\ Unmark(next).ref = next.ref BY <1>3 DEF Unmark, Ptr, Pointers
<1>5. /\ here'[t].level = h.level /\ here'[t].pred = h.pred
      /\ here'[t].curr = Unmark(next) /\ here'[t] \in Place
 BY <1>1, <1>2, <1>4 DEF TypesOf, Place
<1>6. Walks(t)' BY <1>1, <1>2, <1>3, <1>4, <1>5 DEF Walks, Finds, Scans, Inner, Linkable, Nodes
<1> QED BY <1>1, <1>2, <1>5, <1>6, ScanStep DEF ScanCurr, Scans

(* contains has met a marked node.                                         *)
LEMMA ScanMarkedKeeps ==
 ASSUME SkipListInv, NEW t \in Threads, ScanMarked(t)
 PROVE  SkipListInv'
<1> DEFINE h == here[t]
<1>1. /\ TypesOf(t) /\ ThreadInv(t) /\ LevelsEnd
      /\ pc[t] = "scanSucc" /\ UNCHANGED <<list, here>>
      /\ list[h.curr.ref].next[h.level].mark
 BY Types DEF ScanMarked, NextOf
<1>2. /\ pc' = [pc EXCEPT ![t] = pc'[t]] /\ pc'[t] = "scanSkip"
      /\ here' = [here EXCEPT ![t] = here'[t]] /\ here'[t] \in Place
 BY <1>1 DEF ScanMarked, GoTo, SkipListInv, TypeOK, TypesOf
<1>3. Inner(h.pred, h.level) /\ Linkable(h.curr.ref, h.level) BY <1>1 DEF ThreadInv, Walks, Scans
<1>4. h.curr.ref # Tail_ BY <1>1, <1>3 DEF LevelsEnd, Inner
<1>5. Walks(t)' BY <1>1, <1>2, <1>3, <1>4 DEF Walks, Finds, Scans, Inner, Linkable, Nodes
<1> QED BY <1>1, <1>2, <1>5, ScanStep DEF ScanMarked, Scans

(* contains passes the marked node, which is not the tail.                 *)
LEMMA ScanSkipKeeps ==
 ASSUME SkipListInv, NEW t \in Threads, ScanSkip(t)
 PROVE  SkipListInv'
<1> DEFINE h == here[t]
           next == NextOf(h.curr.ref, h.level)
<1>1. /\ list \in [Nodes -> Record] /\ TypesOf(t) /\ ThreadInv(t) /\ LevelsEnd
      /\ pc[t] = "scanSkip" /\ UNCHANGED list
 BY Types DEF ScanSkip
<1>2. /\ pc' = [pc EXCEPT ![t] = pc'[t]] /\ pc'[t] = "scanSucc"
      /\ here' = [here EXCEPT ![t] = here'[t]]
      /\ here'[t] = [h EXCEPT !.curr = Unmark(next)]
 BY DEF ScanSkip, GoTo, Become, SkipListInv, TypeOK
<1>3. Inner(h.pred, h.level) /\ Inner(h.curr.ref, h.level)
 BY <1>1 DEF ThreadInv, Walks, Scans, Inner, Linkable
<1>4. next \in Pointers /\ Linkable(next.ref, h.level)
 BY <1>1, <1>3 DEF Inner, LevelsEnd, NextOf, Record
<1>5. Unmark(next) \in Pointers /\ Unmark(next).ref = next.ref BY <1>4 DEF Unmark, Ptr, Pointers
<1>6. /\ here'[t].level = h.level /\ here'[t].pred = h.pred
      /\ here'[t].curr = Unmark(next) /\ here'[t] \in Place
 BY <1>1, <1>2, <1>5 DEF TypesOf, Place
<1>7. Walks(t)'
 BY <1>1, <1>2, <1>3, <1>4, <1>5, <1>6 DEF Walks, Finds, Scans, Inner, Linkable, Nodes
<1> QED BY <1>1, <1>2, <1>6, <1>7, ScanStep DEF ScanSkip, Scans

(* contains never walks past the tail either.                              *)
LEMMA ScanForwardKeeps ==
 ASSUME SkipListInv, NEW t \in Threads, ScanForward(t)
 PROVE  SkipListInv'
<1> DEFINE h == here[t]
           succ == NextOf(h.curr.ref, h.level)
<1>1. /\ list \in [Nodes -> Record] /\ TypesOf(t) /\ ThreadInv(t) /\ LevelsEnd
      /\ pc[t] = "scanSucc" /\ UNCHANGED <<list, pc>>
      /\ call[t].key \in Keys /\ list[h.curr.ref].key < call[t].key
 BY Types DEF ScanForward, Before
<1>2. /\ pc' = [pc EXCEPT ![t] = pc'[t]] /\ pc'[t] = "scanSucc"
      /\ here' = [here EXCEPT ![t] = here'[t]]
      /\ here'[t] = [h EXCEPT !.pred = h.curr.ref, !.curr = succ]
 BY <1>1 DEF ScanForward, Become, SkipListInv, TypeOK
<1>3. h.curr.ref # Tail_ BY <1>1, KeyBounds DEF LevelsEnd
<1>4. h.level \in Levels /\ Inner(h.curr.ref, h.level)
 BY <1>1, <1>3 DEF ThreadInv, Walks, Scans, Inner, Linkable
<1>5. succ \in Pointers /\ Linkable(succ.ref, h.level)
 BY <1>1, <1>4 DEF Inner, LevelsEnd, NextOf, Record
<1>6. /\ here'[t].level = h.level /\ here'[t].pred = h.curr.ref
      /\ here'[t].curr = succ /\ here'[t] \in Place
 BY <1>1, <1>2, <1>4, <1>5 DEF TypesOf, Place, Inner
<1>7. Walks(t)' BY <1>1, <1>2, <1>4, <1>5, <1>6 DEF Walks, Finds, Scans, Inner, Linkable, Nodes
<1> QED BY <1>1, <1>2, <1>6, <1>7, ScanStep DEF ScanForward, Scans

(* contains goes down a level where it is.                                 *)
LEMMA ScanDownKeeps ==
 ASSUME SkipListInv, NEW t \in Threads, ScanDown(t)
 PROVE  SkipListInv'
<1> DEFINE h == here[t]
<1>1. /\ list \in [Nodes -> Record] /\ TypesOf(t) /\ ThreadInv(t)
      /\ pc[t] = "scanSucc" /\ h.level > 0 /\ UNCHANGED list
 BY Types DEF ScanDown
<1>2. /\ pc' = [pc EXCEPT ![t] = pc'[t]] /\ pc'[t] = "scanCurr"
      /\ here' = [here EXCEPT ![t] = here'[t]]
      /\ here'[t] = [h EXCEPT !.level = h.level - 1, !.curr = Null]
 BY DEF ScanDown, GoTo, Become, SkipListInv, TypeOK
<1>3. Inner(h.pred, h.level) BY <1>1 DEF ThreadInv, Walks, Scans
<1>4. /\ h.level \in Nat /\ list[h.pred].topLevel \in Nat
      /\ h.level <= list[h.pred].topLevel /\ h.level - 1 \in Levels
 BY <1>1, <1>3, LevelBounds DEF Inner, Record, Levels
<1>5. Inner(h.pred, h.level - 1)
 <2>1. h.level - 1 <= list[h.pred].topLevel BY <1>4
 <2> QED BY <1>3, <1>4, <2>1 DEF Inner
<1>6. Null \in Pointers BY DEF Pointers, Null, Plain, Ptr
<1>7. here'[t] = [level |-> h.level - 1, pred |-> h.pred, curr |-> Null, succ |-> h.succ]
 BY <1>1, <1>2 DEF TypesOf, Place
<1>8. here'[t] \in Place BY <1>1, <1>4, <1>6, <1>7, LevelBounds DEF TypesOf, Place, Levels
<1>9. Walks(t)' BY <1>1, <1>2, <1>5, <1>7 DEF Walks, Finds, Scans, Inner, Nodes
<1> QED BY <1>1, <1>2, <1>8, <1>9, ScanStep DEF ScanDown, Scans

-----------------------------------------------------------------------------
(* A call starts. *)
LEMMA StartKeeps ==
 ASSUME SkipListInv, NEW t \in Threads, NEW c \in Abstract!SetCalls,
        NEW level \in Levels, Start(t, c, level)
 PROVE  SkipListInv'
<1>1. ListKept BY UnchangedKeeps DEF Start
<1>2. /\ TypesOf(t) /\ ThreadInv(t) /\ pc[t] = "idle" /\ here[t].level = 0
      /\ UNCHANGED <<list, released, preds, succs, victim>>
 BY Types DEF Start, ThreadInv, Links
<1>3. c.op \in {"add", "remove", "contains"} BY DEF Abstract!SetCalls
<1>4. /\ Acts(t) /\ height'[t] = level /\ here'[t] = Top
      /\ pc'[t] \in {"findCurr", "scanCurr"}
      /\ \/ pc'[t] = "scanCurr" /\ job'[t] = job[t]
         \/ pc'[t] = "findCurr" /\ job'[t] = Job(c.op, 0) /\ c.op # "contains"
 <2>1. CASE c.op = "contains" BY <1>2, <2>1 DEF Start, Acts, GoTo, Become, SkipListInv, TypeOK
 <2>2. CASE c.op # "contains" BY <1>2, <2>2 DEF Start, Acts, Find, GoTo, Become, SkipListInv, TypeOK
 <2> QED BY <2>1, <2>2
<1>5. here'[t] \in Place' /\ Walks(t)' /\ Paths(t)' BY <1>1, <1>4, TopIsInner
<1>6. TypesOf(t)' BY <1>2, <1>3, <1>4, <1>5, LevelBounds DEF TypesOf, Labels, Job, Nodes
<1>7. Links(t)' /\ Marks(t)' BY <1>3, <1>4 DEF Links, Marks, Finds, FindsFor, Job
<1>8. HistoryTypes'
 <2>1. TypeOK BY DEF SkipListInv
 <2>2. released' \in [Threads -> Seq(Nodes' \ {Head_, Tail_})] BY <1>2, <2>1 DEF TypeOK, Nodes
 <2>3. callsLeft' \in [Threads -> Nat] /\ \A u \in Threads : callsLeft'[u] <= MaxCalls[u]
  <3>1. MaxCalls \in [Threads -> Nat] BY SkipListAssumption
  <3>2. CASE UNCHANGED callsLeft BY <2>1, <3>2 DEF TypeOK
  <3>3. CASE callsLeft[t] > 0 /\ callsLeft' = [callsLeft EXCEPT ![t] = @ - 1]
   BY <2>1, <3>1, <3>3 DEF TypeOK
  <3> QED BY <3>2, <3>3 DEF Start
 <2>4. \A u \in Threads : pc'[u] = "idle" <=> call'[u] = NoCall
  <3>1. c # NoCall BY <1>3 DEF NoCall, Abstract!NoCall
  <3>2. call' = [call EXCEPT ![t] = c] BY DEF Start
  <3> QED BY <1>4, <2>1, <3>1, <3>2 DEF TypeOK, Acts, Abstract!SetTypeOK
 <2>5. Abstract!SetTypeOK'
  <3>1. Abstract!Observed(c, Contents(list)) \in SUBSET BOOLEAN BY DEF Abstract!Observed
  <3>2. Abstract!NoResult \in Abstract!Results BY DEF Abstract!NoResult, Abstract!Results
  <3> QED BY <2>1, <3>1, <3>2 DEF TypeOK, Start, Abstract!SetTypeOK, Contents
 <2> QED BY <2>2, <2>3, <2>4, <2>5 DEF HistoryTypes
<1> QED BY <1>1, <1>4, <1>5, <1>6, <1>7, <1>8, Preserves DEF ThreadInv

-----------------------------------------------------------------------------
(* The initial list. *)
LEMMA InitHolds == Init => SkipListInv
<1> SUFFICES ASSUME Init PROVE SkipListInv OBVIOUS
<1> USE LevelBounds
<1>1. Nodes = {Head_, Tail_} /\ Head_ # Tail_ BY DEF Init, InitialList, Nodes, Head_, Tail_
<1>2. /\ list[Head_] = [key |-> MinKey, topLevel |-> MaxLevel,
                        next |-> [i \in Levels |-> Plain(Tail_)]]
      /\ list[Tail_] = [key |-> MaxKey, topLevel |-> 0, next |-> [i \in Levels |-> Null]]
      /\ list = [n \in Nodes |-> list[n]]
 BY <1>1 DEF Init, InitialList, NodeRecord
<1>3. Null \in Pointers /\ Plain(Tail_) \in Pointers BY <1>1 DEF Pointers, Null, Plain, Ptr
<1>4. list \in [Nodes -> Record] BY <1>1, <1>2, <1>3 DEF Record
<1>5. LevelsEnd BY <1>1, <1>2 DEF LevelsEnd, Inner, Linkable, Null, Plain, Ptr
<1>6. NamesAreRanks
 <2>1. \A t \in Threads : Names(t) = {} BY <1>1 DEF Names, Head_, Tail_
 <2> QED BY <2>1, FS_EmptySet DEF NamesAreRanks
<1>7. ASSUME NEW t \in Threads PROVE TypesOf(t) /\ ThreadInv(t)
 <2>1. /\ pc[t] = "idle" /\ here[t] = Nowhere /\ preds[t] = NoPath /\ succs[t] = NoPath
       /\ job[t] = NoJob /\ height[t] = 0 /\ victim[t] = NoNode
  BY DEF Init
 <2>2. TypesOf(t) BY <1>3, <2>1 DEF TypesOf, Labels, Nowhere, Place, NoPath, NoJob, Job
 <2>3. ThreadInv(t)
  BY <2>1 DEF ThreadInv, Walks, Paths, Links, Marks, Finds, Scans, FindsFor, Nowhere
 <2> QED BY <2>2, <2>3
<1>8. HistoryTypes
 <2>1. released \in [Threads -> Seq(Nodes \ {Head_, Tail_})] BY DEF Init
 <2>2. callsLeft \in [Threads -> Nat] /\ \A u \in Threads : callsLeft[u] <= MaxCalls[u]
  BY SkipListAssumption DEF Init
 <2>3. \A u \in Threads : pc[u] = "idle" <=> call[u] = NoCall BY DEF Init
 <2>4. Abstract!SetTypeOK
  BY DEF Init, Abstract!SetTypeOK, Contents, Abstract!NoResult, Abstract!Results, NoCall
 <2> QED BY <2>1, <2>2, <2>3, <2>4 DEF HistoryTypes
<1>9. TypeOK
 <2>1. /\ pc = [t \in Threads |-> pc[t]] /\ here = [t \in Threads |-> here[t]]
       /\ preds = [t \in Threads |-> preds[t]] /\ succs = [t \in Threads |-> succs[t]]
       /\ job = [t \in Threads |-> job[t]] /\ height = [t \in Threads |-> height[t]]
       /\ victim = [t \in Threads |-> victim[t]]
  BY DEF Init
 <2> QED BY <1>4, <1>7, <1>8, <2>1 DEF TypesOf, Place, HistoryTypes, TypeOK, Record
<1> QED BY <1>5, <1>6, <1>7, <1>9 DEF SkipListInv

-----------------------------------------------------------------------------
(* Every step keeps the invariant.                                         *)
LEMMA StepKeeps ==
 ASSUME SkipListInv, [Next]_vars
 PROVE  SkipListInv'
<1>1. CASE UNCHANGED vars
 <2>1. UNCHANGED <<list, pc, here, preds, succs, job, height, victim, released,
                   callsLeft, call, answers, result>>
  BY <1>1 DEF vars, locals, history, bounds
 <2> QED BY <2>1, UnchangedKeeps DEF ListKept, SkipListInv, TypeOK, Record, Nodes, Pointers,
           Abstract!SetTypeOK, Contents, ThreadInv, Walks, Paths, PathAt, Links, Marks,
           Finds, Scans, FindsFor, Inner, Linkable, NextOf
<1>2. ASSUME NEW t \in Threads, NEW c \in Abstract!SetCalls, NEW level \in Levels,
             Start(t, c, level)
      PROVE  SkipListInv'
 BY <1>2, StartKeeps
<1>3. ASSUME NEW t \in Threads, Finding(t) PROVE SkipListInv'
 BY <1>3, FindCurrKeeps, FindMarkedKeeps, FindForwardKeeps, FindSnipKeeps, FindDownKeeps DEF Finding
<1>4. ASSUME NEW t \in Threads, Adding(t) PROVE SkipListInv'
 BY <1>4, PlainReturnsKeep, AddPreparesKeeps, LinkStepKeeps, LinkFailsKeeps, LinkUpperKeeps,
    ResumeLinkingKeeps DEF Adding
<1>5. ASSUME NEW t \in Threads, Removing(t) PROVE SkipListInv'
 BY <1>5, PlainReturnsKeep, RemovePreparesKeeps, ReadMarkKeeps, UpperMarkedKeeps, RemoveLosesKeeps,
    MarkFailsKeeps, MarkUpperKeeps, MarkBottomKeeps, RemoveReturnsKeeps DEF Removing
<1>6. ASSUME NEW t \in Threads, Scanning(t) PROVE SkipListInv'
 BY <1>6, PlainReturnsKeep, ScanCurrKeeps, ScanMarkedKeeps, ScanSkipKeeps, ScanForwardKeeps,
    ScanDownKeeps DEF Scanning
<1> QED BY <1>1, <1>2, <1>3, <1>4, <1>5, <1>6 DEF Next, Step

(* The invariant holds of every execution.                                 *)
LEMMA InvariantHolds == Spec => []SkipListInv
 BY InitHolds, StepKeeps, PTL DEF Spec

(* Whatever the others have linked, marked and snipped since a thread read *)
(* its pointers: every level leads from node to node of that level to the  *)
(* tail; the predecessor that find and contains stand at, the nodes they   *)
(* look at, the places that find leaves for the links of an add, and the   *)
(* node that a remove marks have the level at which they are accessed; and *)
(* no traversal goes on from the tail.                                     *)
THEOREM TraversalsStayOnLevels ==
    Spec => [](TypeOK /\ LevelsEnd /\ \A t \in Threads : Walks(t) /\ Paths(t) /\ Marks(t))
<1>1. SkipListInv => TypeOK /\ LevelsEnd /\ \A t \in Threads : Walks(t) /\ Paths(t) /\ Marks(t)
 BY DEF SkipListInv, ThreadInv
<1> QED BY <1>1, InvariantHolds, PTL

-----------------------------------------------------------------------------
(* The protocol of the next pointers. *)
PointerChanges(n, level) == list'[n].next[level] # list[n].next[level]
StepAt(n, level) == NextStep(n, level, list[n].next[level], list'[n].next[level])
ListStep == \A n \in Nodes : \A level \in Levels : PointerChanges(n, level) => StepAt(n, level)

(* A CAS changes one pointer. *)
LEMMA SwingChanges ==
 ASSUME SkipListInv, NEW n \in Nodes, NEW level \in Levels, NEW ptr, SwingNext(n, level, ptr),
        NEW m \in Nodes, NEW k \in Levels, PointerChanges(m, k)
 PROVE  m = n /\ k = level /\ list'[m].next[k] = ptr
<1>1. list \in [Nodes -> Record] BY DEF SkipListInv, TypeOK, Record
<1> QED BY <1>1 DEF SwingNext, PointerChanges, Record

(* The snip swings past a successor that is marked.                        *)
LEMMA SnipFollows ==
 ASSUME SkipListInv, NEW t \in Threads, FindSnip(t)
 PROVE  ListStep
<1> DEFINE h == here[t]
<1> SUFFICES ASSUME NEW n \in Nodes, NEW level \in Levels, PointerChanges(n, level)
             PROVE  StepAt(n, level)
 BY DEF ListStep
<1>1. NextOf(h.pred, h.level) = h.curr BY DEF FindSnip, PointerChanges
<1>2. /\ ~NextOf(h.pred, h.level).mark
      /\ NextOf(h.curr.ref, h.level) = Mark(Unmark(h.succ))
      /\ SwingNext(h.pred, h.level, Unmark(h.succ))
 BY <1>1, SnipSwings
<1>3. h.pred \in Nodes /\ h.level \in Levels BY Types DEF FindSnip, ThreadInv, Walks, Finds, Inner
<1>4. n = h.pred /\ level = h.level /\ list'[n].next[level] = Unmark(h.succ)
 BY <1>2, <1>3, SwingChanges
<1>5. ~Unmark(h.succ).mark BY DEF Unmark, Ptr
<1> QED BY <1>1, <1>2, <1>4, <1>5 DEF StepAt, NextStep, NextOf

(* The link inserts a new node.                                            *)
LEMMA LinkFollows ==
 ASSUME SkipListInv, NEW t \in Threads, Link(t)
 PROVE  ListStep
<1> DEFINE new == NewName(t)
<1>1. /\ new \notin Nodes
      /\ list'[new].next[0] = NextOf(preds[t][0], 0)
      /\ \A n \in Nodes, level \in Levels :
           PointerChanges(n, level) =>
             /\ n = preds[t][0] /\ level = 0
             /\ ~list[n].next[level].mark
             /\ list'[n].next[level] = Plain(new)
 BY LinkKeeps DEF PointerChanges
<1>2. ~Plain(new).mark /\ Plain(new).ref = new BY DEF Plain, Ptr
<1> HIDE DEF new
<1> QED BY <1>1, <1>2 DEF ListStep, StepAt, NextStep, NextOf

(* An upper level is swung to any node, and never marked by it.            *)
LEMMA LinkUpperFollows ==
 ASSUME SkipListInv, NEW t \in Threads, LinkUpper(t)
 PROVE  ListStep
<1> DEFINE l == here[t].level
           p == preds[t][l]
<1> SUFFICES ASSUME NEW n \in Nodes, NEW level \in Levels, PointerChanges(n, level)
             PROVE  StepAt(n, level)
 BY DEF ListStep
<1>1. NextOf(p, l) = Plain(succs[t][l]) BY DEF LinkUpper, PointerChanges
<1>2. /\ l \in Levels \ {0} /\ p \in Nodes
      /\ SwingNext(p, l, Plain(victim[t])) /\ ~NextOf(p, l).mark
 BY <1>1, LinkUpperSwings
<1>3. n = p /\ level = l /\ list'[n].next[level] = Plain(victim[t]) BY <1>2, SwingChanges
<1>4. ~Plain(victim[t]).mark BY DEF Plain, Ptr
<1> QED BY <1>2, <1>3, <1>4 DEF StepAt, NextStep, NextOf

(* A mark keeps the pointer and comes from the top down.                   *)
LEMMA MarkFollows ==
 ASSUME SkipListInv, NEW t \in Threads, MarkUpper(t) \/ MarkBottom(t)
 PROVE  ListStep
<1> DEFINE l == here[t].level
           v == victim[t]
           succ == here[t].succ
<1> SUFFICES ASSUME NEW n \in Nodes, NEW level \in Levels, PointerChanges(n, level)
             PROVE  StepAt(n, level)
 BY DEF ListStep
<1>1. pc[t] = "mark" /\ NextOf(v, l) = succ /\ SwingNext(v, l, Mark(succ))
 BY DEF MarkUpper, MarkBottom
<1>2. /\ Inner(v, l) /\ ~NextOf(v, l).mark
      /\ \A upper \in l + 1 .. list[v].topLevel : list[v].next[upper].mark
 BY <1>1, MarkSwings
<1>3. n = v /\ level = l /\ list'[n].next[level] = Mark(succ) BY <1>1, <1>2, SwingChanges DEF Inner
<1>4. Mark(succ).mark /\ Mark(succ).ref = succ.ref BY DEF Mark, Ptr
<1> QED BY <1>1, <1>2, <1>3, <1>4 DEF StepAt, NextStep, NextOf

(* The steps that do not touch the list. *)
LEMMA OnlyCasesChange ==
 ASSUME NEW t \in Threads, Step(t)
 PROVE  \/ FindSnip(t) \/ Link(t) \/ LinkUpper(t) \/ MarkUpper(t) \/ MarkBottom(t)
        \/ UNCHANGED list
<1>1. Finding(t) => FindSnip(t) \/ UNCHANGED list
 BY DEF Finding, FindCurr, FindMarked, FindForward, FindDown
<1>2. Adding(t) => Link(t) \/ LinkUpper(t) \/ UNCHANGED list
 BY DEF Adding, AddFindsKey, AddPrepares, LinkFails, ResumeLinking, AddReturns
<1>3. Removing(t) => MarkUpper(t) \/ MarkBottom(t) \/ UNCHANGED list
 BY DEF Removing, RemoveMissesKey, RemovePrepares, ReadMark, UpperMarked, RemoveLoses, MarkFails,
    RemoveReturns
<1>4. Scanning(t) => UNCHANGED list
 BY DEF Scanning, ScanCurr, ScanMarked, ScanSkip, ScanForward, ScanDown, ContainsReturns
<1> QED BY <1>1, <1>2, <1>3, <1>4 DEF Step

(* No step breaks the protocol.                                            *)
LEMMA EveryStepFollows ==
 ASSUME SkipListInv, [Next]_vars
 PROVE  ListStep
<1>1. CASE UNCHANGED list BY <1>1 DEF ListStep, PointerChanges
<1>2. CASE UNCHANGED vars BY <1>1, <1>2 DEF vars
<1>3. ASSUME NEW t \in Threads, NEW c, NEW level, Start(t, c, level) PROVE ListStep
 BY <1>1, <1>3 DEF Start
<1>4. ASSUME NEW t \in Threads, Step(t) PROVE ListStep
 BY <1>1, <1>4, OnlyCasesChange, SnipFollows, LinkFollows, LinkUpperFollows, MarkFollows
<1> QED BY <1>2, <1>3, <1>4 DEF Next

(* For any number of threads, keys and levels: a marked pointer never      *)
(* changes again, a node is marked from the top down, and at level 0 a     *)
(* pointer is swung to a new node that goes on to the old successor, or    *)
(* past a successor that is marked and goes on there.  No interleaving of  *)
(* adds, removes and snips cuts off a node of the set.                     *)
THEOREM PointersFollowProtocol == Spec => NextProtocol
<1>1. SkipListInv /\ [Next]_vars =>
          [\A n \in Nodes : \A level \in Levels :
               list'[n].next[level] # list[n].next[level] =>
                  NextStep(n, level, list[n].next[level], list'[n].next[level])]_vars
 BY EveryStepFollows DEF ListStep, PointerChanges, StepAt
<1> QED BY <1>1, InvariantHolds, PTL DEF Spec, NextProtocol

-----------------------------------------------------------------------------
(* Who releases a node: the remove whose CAS marked it at level 0.  From   *)
(* that CAS on the node is the winner's alone, and it is handed to the     *)
(* manager when the winner's last find is done.                            *)
Snips(t) == FindsFor(t, "snip")

OwnersDiffer ==
    /\ \A t \in Threads : Snips(t) => list[victim[t]].next[0].mark
    /\ \A t \in Threads : \A j \in DOMAIN released[t] : list[released[t][j]].next[0].mark
    /\ \A t, u \in Threads : Snips(t) /\ Snips(u) /\ victim[t] = victim[u] => t = u
    /\ \A t, u \in Threads : Snips(t) =>
         \A j \in DOMAIN released[u] : released[u][j] # victim[t]
    /\ ReleasedOnce

(* What no step undoes. *)
LEMMA StepsGrow ==
 ASSUME SkipListInv, [Next]_vars
 PROVE  ListKept
<1>1. CASE UNCHANGED list BY <1>1, UnchangedKeeps
<1>2. ASSUME NEW t \in Threads, Step(t) PROVE ListKept
 BY <1>1, <1>2, OnlyCasesChange, SnipSwings, LinkKeeps, LinkUpperSwings, MarkSwings DEF FindSnip,
    LinkUpper, MarkUpper, MarkBottom
<1> QED BY <1>1, <1>2 DEF Next, Start, vars

(* Steps that release nothing and give nobody a node to snip.              *)
LEMMA NeutralKeeps ==
 ASSUME SkipListInv, ListKept, OwnersDiffer, UNCHANGED released,
        \A u \in Threads : Snips(u)' => Snips(u) /\ victim'[u] = victim[u]
 PROVE  OwnersDiffer'
<1>1. \A n \in Nodes : list[n].next[0].mark => list'[n].next[0].mark
 BY LevelBounds DEF ListKept, Grows
<1>2. \A u \in Threads : Snips(u) => victim[u] \in Nodes BY DEF SkipListInv, ThreadInv, Marks, Snips
<1>3. \A u \in Threads : \A j \in DOMAIN released[u] : released[u][j] \in Nodes
 BY DEF SkipListInv, TypeOK
<1> QED BY <1>1, <1>2, <1>3 DEF OwnersDiffer, ReleasedOnce

(* A thread whose find is for something else gets no node to snip. *)
LEMMA OthersAreNeutral ==
 ASSUME SkipListInv, OwnersDiffer, ListKept, NEW t \in Threads, UNCHANGED released,
        Acts(t), Snips(t)' => Snips(t) /\ victim'[t] = victim[t]
 PROVE  OwnersDiffer'
<1>1. ASSUME NEW u \in Threads \ {t} PROVE Snips(u)' => Snips(u) /\ victim'[u] = victim[u]
 BY DEF Acts, Snips, FindsFor, Finds, SkipListInv, TypeOK
<1> QED BY <1>1, NeutralKeeps

(* The mark of level 0 is set once: its node is nobody else's.             *)
LEMMA MarkBottomOwns ==
 ASSUME SkipListInv, OwnersDiffer, ListKept, NEW t \in Threads, MarkBottom(t)
 PROVE  OwnersDiffer'
<1> DEFINE v == victim[t]
<1>1. /\ ~list[v].next[0].mark /\ list'[v].next[0].mark
 BY MarkSwings DEF MarkBottom, NextOf, Mark, Ptr
<1>2. UNCHANGED <<released, victim>>
      /\ \A u \in Threads \ {t} : Snips(u)' <=> Snips(u)
 BY DEF MarkBottom, Find, GoTo, locals, Snips, FindsFor, Finds, SkipListInv, TypeOK
<1>3. /\ \A u \in Threads : Snips(u) => victim[u] # v
      /\ \A u \in Threads : \A j \in DOMAIN released[u] : released[u][j] # v
 BY <1>1 DEF OwnersDiffer
<1>4. \A n \in Nodes : list[n].next[0].mark => list'[n].next[0].mark
 BY LevelBounds DEF ListKept, Grows
<1>5. /\ \A u \in Threads : Snips(u) => victim[u] \in Nodes
      /\ \A u \in Threads : \A j \in DOMAIN released[u] : released[u][j] \in Nodes
 BY DEF SkipListInv, TypeOK, ThreadInv, Marks, Snips
<1>6. \A u \in Threads : Snips(u)' => list'[victim'[u]].next[0].mark
 BY <1>1, <1>2, <1>4, <1>5 DEF OwnersDiffer
<1>7. \A u, w \in Threads : Snips(u)' /\ Snips(w)' /\ victim'[u] = victim'[w] => u = w
 BY <1>2, <1>3 DEF OwnersDiffer
<1>8. \A u, w \in Threads : Snips(u)' =>
          \A j \in DOMAIN released'[w] : released'[w][j] # victim'[u]
 BY <1>2, <1>3 DEF OwnersDiffer
<1>9. \A u \in Threads : \A j \in DOMAIN released'[u] : list'[released'[u][j]].next[0].mark
 BY <1>2, <1>4, <1>5 DEF OwnersDiffer
<1>10. ReleasedOnce' BY <1>2 DEF OwnersDiffer, ReleasedOnce
<1> QED BY <1>6, <1>7, <1>8, <1>9, <1>10 DEF OwnersDiffer

(* The winner releases the node that it alone had.                         *)
LEMMA RemoveReturnsOwns ==
 ASSUME SkipListInv, OwnersDiffer, NEW t \in Threads, RemoveReturns(t)
 PROVE  OwnersDiffer'
<1> DEFINE v == victim[t]
           mine == released[t]
<1>1. Snips(t) /\ v \in Nodes \ {Head_, Tail_}
 BY Types DEF RemoveReturns, FindEnds, Snips, FindsFor, Finds, ThreadInv, Marks
<1>2. released \in [Threads -> Seq(Nodes \ {Head_, Tail_})] BY DEF SkipListInv, TypeOK
<1>3. /\ released' = [released EXCEPT ![t] = Append(mine, v)]
      /\ UNCHANGED list /\ ~Snips(t)'
      /\ \A u \in Threads \ {t} : (Snips(u)' <=> Snips(u)) /\ victim'[u] = victim[u]
 BY DEF RemoveReturns, Return, GoTo, Snips, FindsFor, Finds, SkipListInv, TypeOK
<1>4. mine \in Seq(Nodes \ {Head_, Tail_}) BY <1>2
<1>5. /\ DOMAIN Append(mine, v) = DOMAIN mine \cup {Len(mine) + 1}
      /\ \A j \in DOMAIN mine : Append(mine, v)[j] = mine[j]
      /\ Append(mine, v)[Len(mine) + 1] = v
      /\ Len(mine) + 1 \notin DOMAIN mine
 BY <1>1, <1>4
<1>6. \A u \in Threads : \A j \in DOMAIN released'[u] :
          \/ j \in DOMAIN released[u] /\ released'[u][j] = released[u][j]
          \/ u = t /\ j = Len(mine) + 1 /\ released'[u][j] = v
 BY <1>2, <1>3, <1>5
<1>7. /\ \A u \in Threads : \A j \in DOMAIN released[u] : released[u][j] # v
      /\ \A u \in Threads \ {t} : Snips(u) => victim[u] # v
      /\ list[v].next[0].mark
 BY <1>1 DEF OwnersDiffer
<1>8. \A u \in Threads : Snips(u)' => list'[victim'[u]].next[0].mark BY <1>3 DEF OwnersDiffer
<1>9. ASSUME NEW u \in Threads, NEW j \in DOMAIN released'[u]
      PROVE  list'[released'[u][j]].next[0].mark
 <2>1. list' = list BY <1>3
 <2>2. CASE j \in DOMAIN released[u] /\ released'[u][j] = released[u][j]
  BY <2>1, <2>2 DEF OwnersDiffer
 <2>3. CASE released'[u][j] = v BY <1>7, <2>1, <2>3
 <2> QED BY <1>6, <2>2, <2>3
<1>10. \A u, w \in Threads : Snips(u)' /\ Snips(w)' /\ victim'[u] = victim'[w] => u = w
 BY <1>3 DEF OwnersDiffer
<1>11. \A u, w \in Threads : Snips(u)' =>
          \A j \in DOMAIN released'[w] : released'[w][j] # victim'[u]
 BY <1>3, <1>6, <1>7 DEF OwnersDiffer
<1>12. ReleasedOnce' BY <1>6, <1>7 DEF OwnersDiffer, ReleasedOnce
<1> QED BY <1>8, <1>9, <1>10, <1>11, <1>12 DEF OwnersDiffer

(* The steps that release nothing and mark nothing at level 0. *)
LEMMA QuietStepsAreNeutral ==
 ASSUME SkipListInv, NEW t \in Threads, Step(t), ~MarkBottom(t), ~RemoveReturns(t)
 PROVE  Acts(t) /\ UNCHANGED released /\ (Snips(t)' => Snips(t) /\ victim'[t] = victim[t])
<1> USE DEF Acts, Snips, FindsFor, Finds, GoTo, Become, locals, SkipListInv, TypeOK
<1>1. CASE Finding(t)
 <2>1. CASE FindCurr(t) BY <2>1 DEF FindCurr, RetryFind
 <2>2. CASE FindMarked(t) BY <2>2 DEF FindMarked
 <2>3. CASE FindForward(t) BY <2>3 DEF FindForward
 <2>4. CASE FindSnip(t) BY <2>4 DEF FindSnip, RetryFind
 <2>5. CASE FindDown(t) BY <2>5 DEF FindDown, LevelDone
 <2> QED BY <1>1, <2>1, <2>2, <2>3, <2>4, <2>5 DEF Finding
<1>2. CASE AddFindsKey(t) \/ AddReturns(t) \/ RemoveMissesKey(t) \/ ContainsReturns(t)
 <2>1. \E r : Return(t, r) /\ UNCHANGED released
  BY <1>2 DEF AddFindsKey, AddReturns, RemoveMissesKey, ContainsReturns
 <2> QED BY <2>1 DEF Return
<1>3. CASE LinkFails(t) \/ RemoveLoses(t) BY <1>3 DEF LinkFails, RemoveLoses, Find, Job
<1>4. CASE LinkUpper(t) BY <1>4 DEF LinkUpper, Find, Job
<1>5. CASE AddPrepares(t) \/ ResumeLinking(t) BY <1>5 DEF AddPrepares, ResumeLinking, LevelDone
<1>6. CASE Link(t) BY <1>6 DEF Link
<1>7. CASE RemovePrepares(t) BY <1>7 DEF RemovePrepares, LevelDone
<1>8. CASE ReadMark(t) \/ UpperMarked(t) \/ MarkFails(t) \/ MarkUpper(t)
 BY <1>8 DEF ReadMark, UpperMarked, MarkFails, MarkUpper
<1>9. CASE ScanCurr(t) \/ ScanMarked(t) \/ ScanSkip(t) \/ ScanForward(t) \/ ScanDown(t)
 BY <1>9 DEF ScanCurr, ScanMarked, ScanSkip, ScanForward, ScanDown
<1> QED BY <1>1, <1>2, <1>3, <1>4, <1>5, <1>6, <1>7, <1>8, <1>9
        DEF Step, Adding, Removing, Scanning

(* Every step keeps one owner per removed node.                            *)
LEMMA StepOwns ==
 ASSUME SkipListInv, OwnersDiffer, [Next]_vars
 PROVE  OwnersDiffer'
<1>1. ListKept BY StepsGrow
<1>2. CASE UNCHANGED vars
 <2>1. UNCHANGED <<released, victim, pc, job>> BY <1>2 DEF vars, locals
 <2> QED BY <1>1, <2>1, NeutralKeeps DEF Snips, FindsFor, Finds
<1>3. ASSUME NEW t \in Threads, NEW c \in Abstract!SetCalls, NEW level, Start(t, c, level)
      PROVE  OwnersDiffer'
 <2>1. c.op # "snip" BY DEF Abstract!SetCalls
 <2>2. /\ UNCHANGED <<released, victim>>
       /\ \A u \in Threads : Snips(u)' => Snips(u)
  BY <1>3, <2>1 DEF Start, Find, GoTo, Job, Snips, FindsFor, Finds, SkipListInv, TypeOK
 <2> QED BY <1>1, <2>2, NeutralKeeps
<1>4. ASSUME NEW t \in Threads, Step(t) PROVE OwnersDiffer'
 BY <1>1, <1>4, MarkBottomOwns, RemoveReturnsOwns, QuietStepsAreNeutral, OthersAreNeutral
<1> QED BY <1>2, <1>3, <1>4 DEF Next

(* At first nothing is removed.                                            *)
LEMMA NoOwnersYet == Init => OwnersDiffer
 BY DEF Init, OwnersDiffer, ReleasedOnce, Snips, FindsFor, Finds

(* However many removes meet on a node, one of them gives it to the        *)
(* manager of the hazard pointers, and gives it once.                      *)
THEOREM NodesAreReleasedOnce == Spec => []ReleasedOnce
<1>1. OwnersDiffer => ReleasedOnce BY DEF OwnersDiffer
<1>2. Spec => []OwnersDiffer BY InvariantHolds, NoOwnersYet, StepOwns, PTL DEF Spec
<1> QED BY <1>1, <1>2, PTL

-----------------------------------------------------------------------------
(***************************************************************************)
(* The order of the keys, for any number of threads, keys and levels: a    *)
(* place that find has seen may be stale when it is used, but what the CAS *)
(* compares is enough to keep every list sorted.                           *)
(***************************************************************************)

(* The place for the key of the call, at a level that find has done.       *)
KeysAt(t, level) ==
    /\ list[preds[t][level]].key < call[t].key
    /\ call[t].key <= list[succs[t][level]].key

KeysFit(t) ==
    /\ Finds(t) =>
         /\ list[here[t].pred].key < call[t].key
         /\ \A level \in Levels : level > here[t].level => KeysAt(t, level)
    /\ pc[t] \in {"link", "linkUpper"} => \A level \in Levels : KeysAt(t, level)
    /\ pc[t] = "link" => call[t].key < list[succs[t][0]].key
    /\ pc[t] = "linkUpper" \/ FindsFor(t, "relink") => list[victim[t]].key = call[t].key

OrderInv == KeysAscend /\ \A t \in Threads : KeysFit(t)

(* Keys are integers. *)
LEMMA KeysAreIntegers ==
 ASSUME SkipListInv
 PROVE  /\ \A n \in Nodes : list[n].key \in Int
        /\ \A t \in Threads : pc[t] # "idle" => call[t].key \in Keys /\ call[t].key \in Int
<1>1. Keys \subseteq Int /\ MinKey \in Int /\ MaxKey \in Int BY SkipListAssumption
<1>2. \A n \in Nodes : list[n].key \in Keys \cup {MinKey, MaxKey} BY DEF SkipListInv, TypeOK
<1> QED BY <1>1, <1>2, Types

(* The nodes that a thread looks at keep their keys. *)
LEMMA KeysStay ==
 ASSUME SkipListInv, Grows, NEW t \in Threads
 PROVE  /\ Finds(t) =>
             /\ list'[here[t].pred].key = list[here[t].pred].key
             /\ \A level \in Levels : level > here[t].level =>
                  /\ list'[preds[t][level]].key = list[preds[t][level]].key
                  /\ list'[succs[t][level]].key = list[succs[t][level]].key
        /\ pc[t] \in {"link", "linkUpper"} => \A level \in Levels :
             /\ list'[preds[t][level]].key = list[preds[t][level]].key
             /\ list'[succs[t][level]].key = list[succs[t][level]].key
        /\ pc[t] = "linkUpper" \/ FindsFor(t, "relink") =>
             list'[victim[t]].key = list[victim[t]].key
<1>1. Walks(t) /\ Paths(t) /\ Links(t) BY Types DEF ThreadInv
<1> QED BY <1>1 DEF Grows, Walks, Paths, Links, PathAt, Inner, Linkable

(* The other threads. *)
LEMMA OthersFit ==
 ASSUME SkipListInv, OrderInv, ListKept, NEW t \in Threads, Acts(t),
        NEW u \in Threads \ {t}, call'[u] = call[u]
 PROVE  KeysFit(u)'
<1>1. /\ pc'[u] = pc[u] /\ here'[u] = here[u]
      /\ preds'[u] = preds[u] /\ succs'[u] = succs[u]
      /\ job'[u] = job[u] /\ victim'[u] = victim[u]
 BY DEF Acts, SkipListInv, TypeOK
<1>2. KeysFit(u) /\ Grows BY DEF OrderInv, ListKept
<1> QED BY <1>1, <1>2, KeysStay, LevelBounds DEF KeysFit, KeysAt, Finds, FindsFor

(* A step that keeps the order, and what it says of its own thread.        *)
LEMMA OrderKept ==
 ASSUME SkipListInv, OrderInv, ListKept, KeysAscend', NEW t \in Threads, Acts(t),
        \A u \in Threads \ {t} : call'[u] = call[u],
        KeysFit(t)'
 PROVE  OrderInv'
 BY OthersFit DEF OrderInv

(* The pointers that are not swung keep their order. *)
LEMMA SameOrder ==
 ASSUME SkipListInv, OrderInv, UNCHANGED list
 PROVE  KeysAscend'
 BY DEF OrderInv, KeysAscend, Nodes

Ordered(n, level) ==
    LET next == list[n].next[level].ref
    IN  /\ list[n].key <= list[next].key
        /\ level = 0 => list[n].key < list[next].key

(* What the order says of one pointer.                                     *)
LEMMA PointersAreOrdered ==
 ASSUME SkipListInv, OrderInv, NEW n, NEW level, Inner(n, level)
 PROVE  Ordered(n, level) /\ list[n].next[level].ref \in Nodes
<1>1. /\ list \in [Nodes -> Record] /\ n \in Nodes \ {Tail_} /\ level \in Levels
      /\ level <= list[n].topLevel
 BY DEF SkipListInv, TypeOK, Record, Inner
<1>2. level \in 0 .. list[n].topLevel BY <1>1, SMT DEF Record, Levels
<1>3. list[n].next[level].ref \in Nodes BY <1>1 DEF SkipListInv, LevelsEnd, Linkable
<1>4. list[n].key \in Int /\ list[list[n].next[level].ref].key \in Int
 BY <1>1, <1>3, KeysAreIntegers
<1>5. IF level = 0 THEN list[n].key < list[list[n].next[level].ref].key
                   ELSE list[n].key <= list[list[n].next[level].ref].key
 BY <1>1, <1>2 DEF OrderInv, KeysAscend
<1> QED BY <1>3, <1>4, <1>5 DEF Ordered

(* A CAS to a larger key keeps the order.                                  *)
LEMMA SwingOrders ==
 ASSUME SkipListInv, OrderInv, NEW n, NEW level, Inner(n, level),
        NEW ptr, ptr.ref \in Nodes, SwingNext(n, level, ptr),
        list[n].key <= list[ptr.ref].key,
        level = 0 => list[n].key < list[ptr.ref].key
 PROVE  KeysAscend'
<1>1. list \in [Nodes -> Record] /\ n \in Nodes /\ level \in Levels
 BY DEF SkipListInv, TypeOK, Record, Inner
<1>2. /\ Nodes' = Nodes
      /\ \A m \in Nodes : /\ list'[m].key = list[m].key
                          /\ list'[m].topLevel = list[m].topLevel
                          /\ \A k \in Levels : list'[m].next[k] =
                               IF m = n /\ k = level THEN ptr ELSE list[m].next[k]
 BY <1>1 DEF SwingNext, Record, Nodes
<1>3. \A m \in Nodes : \A k \in 0 .. list[m].topLevel : k \in Levels
 <2>1. \A m \in Nodes : list[m].topLevel \in 0 .. MaxLevel BY <1>1 DEF Record, Levels
 <2> QED BY <2>1, LevelBounds DEF Levels
<1>4. ASSUME NEW m \in Nodes \ {Tail_}, NEW k \in 0 .. list[m].topLevel
      PROVE  LET next == list'[m].next[k].ref
             IN  IF k = 0 THEN list'[m].key < list'[next].key
                          ELSE list'[m].key <= list'[next].key
 <2>1. k \in Levels BY <1>3
 <2>2. CASE m = n /\ k = level BY <1>2, <2>1, <2>2
 <2>3. CASE ~(m = n /\ k = level)
  <3>1. list'[m].next[k].ref = list[m].next[k].ref BY <1>2, <2>1, <2>3
  <3>2. list[m].next[k].ref \in Nodes
   <4>1. Inner(m, k)
    <5>1. k <= list[m].topLevel BY <1>1, LevelBounds DEF Record, Levels
    <5> QED BY <2>1, <5>1 DEF Inner
   <4> QED BY <2>1, <4>1 DEF SkipListInv, LevelsEnd, Linkable
  <3> QED BY <1>2, <3>1, <3>2 DEF OrderInv, KeysAscend
 <2> QED BY <2>2, <2>3
<1> QED BY <1>2, <1>4 DEF KeysAscend

-----------------------------------------------------------------------------
(* A search that starts, or starts over, is at the head.                   *)
LEMMA TopFits ==
 ASSUME SkipListInv, ListKept, NEW t \in Threads, call'[t].key \in Keys,
        pc'[t] = "findCurr", here'[t] = Top,
        job'[t].why = "relink" => list'[victim'[t]].key = call'[t].key
 PROVE  KeysFit(t)'
<1>1. Top.pred = Head_ /\ Top.level = MaxLevel BY DEF Top, Nowhere
<1>2. list'[Head_].key = MinKey BY DEF ListKept, LevelsEnd
<1>3. MinKey < call'[t].key BY SkipListAssumption
<1>4. \A level \in Levels : ~(level > MaxLevel) BY LevelBounds
<1> QED BY <1>1, <1>2, <1>3, <1>4 DEF KeysFit, Finds, FindsFor

(* Threads that neither find nor link have nothing to fit.                 *)
LEMMA NothingToFit ==
 ASSUME NEW t \in Threads,
        pc'[t] \notin {"findCurr", "findSucc", "findSnip", "link", "linkUpper"}
 PROVE  KeysFit(t)'
 BY DEF KeysFit, Finds, FindsFor

(* find goes on, at the same place or further on its level.                *)
LEMMA FindFits ==
 ASSUME SkipListInv, OrderInv, ListKept, NEW t \in Threads,
        Finds(t), pc'[t] \in {"findCurr", "findSucc", "findSnip"},
        UNCHANGED <<preds, succs, job, victim, call>>,
        here'[t].level = here[t].level,
        list'[here'[t].pred].key < call[t].key
 PROVE  KeysFit(t)'
<1>1. KeysFit(t) /\ Grows BY DEF OrderInv, ListKept
<1> QED BY <1>1, KeysStay, LevelBounds DEF KeysFit, KeysAt, Finds, FindsFor

(* What a finished level leaves fits the key. *)
LEMMA DoneLevelFits ==
 ASSUME SkipListInv, OrderInv, NEW t \in Threads, LevelDone(t), UNCHANGED list
 PROVE  /\ \A level \in Levels : level >= here[t].level =>
             /\ list[preds'[t][level]].key < call[t].key
             /\ call[t].key <= list[succs'[t][level]].key
        /\ succs'[t][here[t].level] = here[t].curr.ref
        /\ here[t].curr.ref \in Nodes
<1> DEFINE h == here[t]
<1>1. /\ TypesOf(t) /\ Walks(t) /\ KeysFit(t) /\ pc[t] = "findSucc"
      /\ preds' = [preds EXCEPT ![t][h.level] = h.pred]
      /\ succs' = [succs EXCEPT ![t][h.level] = h.curr.ref]
      /\ ~(list[h.curr.ref].key < call[t].key)
 BY Types DEF LevelDone, OrderInv, ThreadInv, Before
<1>2. /\ preds \in [Threads -> [Levels -> Nodes \cup {NoNode}]]
      /\ succs \in [Threads -> [Levels -> Nodes \cup {NoNode}]]
 BY DEF SkipListInv, TypeOK
<1>3. h.level \in Levels /\ h.curr.ref \in Nodes BY <1>1 DEF Walks, Finds, Inner, Linkable
<1>4. /\ preds'[t] = [preds[t] EXCEPT ![h.level] = h.pred]
      /\ succs'[t] = [succs[t] EXCEPT ![h.level] = h.curr.ref]
 BY <1>1, <1>2
<1>5. list[h.pred].key < call[t].key /\ call[t].key <= list[h.curr.ref].key
 <2>1. list[h.curr.ref].key \in Int /\ call[t].key \in Int BY <1>1, <1>3, KeysAreIntegers
 <2> QED BY <1>1, <2>1 DEF KeysFit, Finds
<1>6. ASSUME NEW level \in Levels, level >= h.level
      PROVE  /\ list[preds'[t][level]].key < call[t].key
             /\ call[t].key <= list[succs'[t][level]].key
 <2>1. CASE level = h.level BY <1>2, <1>3, <1>4, <1>5, <2>1
 <2>2. CASE level > h.level
  <3>1. KeysAt(t, level) BY <1>1, <2>2 DEF KeysFit, Finds
  <3>2. preds'[t][level] = preds[t][level] /\ succs'[t][level] = succs[t][level]
   BY <1>2, <1>3, <1>4, <2>2, LevelBounds
  <3> QED BY <3>1, <3>2 DEF KeysAt
 <2>3. level = h.level \/ level > h.level BY <1>3, <1>6, SMT DEF Levels
 <2> QED BY <2>1, <2>2, <2>3
<1> QED BY <1>1, <1>2, <1>3, <1>4, <1>6

(* The locals of find. *)
LEMMA FindingOrders ==
 ASSUME SkipListInv, OrderInv, ListKept, NEW t \in Threads, Finding(t)
 PROVE  OrderInv'
<1> DEFINE h == here[t]
<1>1. /\ TypesOf(t) /\ Walks(t) /\ KeysFit(t) /\ Grows
      /\ Finds(t) /\ pc[t] # "idle"
      /\ call[t].key \in Keys
 BY Types DEF Finding, FindCurr, FindMarked, FindForward, FindSnip, FindDown, LevelDone, Finds,
    ThreadInv, OrderInv, ListKept
<1>2. Acts(t) /\ UNCHANGED <<call, job, victim>>
 <2> USE DEF Acts, GoTo, Become, locals, history, SkipListInv, TypeOK
 <2>1. CASE FindCurr(t) BY <2>1 DEF FindCurr, RetryFind
 <2>2. CASE FindMarked(t) BY <2>2 DEF FindMarked
 <2>3. CASE FindForward(t) BY <2>3 DEF FindForward
 <2>4. CASE FindSnip(t) BY <2>4 DEF FindSnip, RetryFind
 <2>5. CASE FindDown(t) BY <2>5 DEF FindDown, LevelDone
 <2> QED BY <2>1, <2>2, <2>3, <2>4, <2>5 DEF Finding
<1>3. \/ pc'[t] = "findCurr" /\ here'[t] = Top
      \/ /\ pc'[t] \in {"findCurr", "findSucc", "findSnip"}
         /\ UNCHANGED <<preds, succs>>
         /\ here'[t].level = h.level
         /\ \/ here'[t].pred = h.pred
            \/ UNCHANGED list /\ here'[t].pred = h.curr.ref /\ Before(t, h.curr)
      \/ FindDown(t)
 <2> USE <1>1 DEF TypesOf, Place, GoTo, Become, locals, SkipListInv, TypeOK
 <2>1. CASE FindCurr(t) BY <2>1 DEF FindCurr, RetryFind
 <2>2. CASE FindMarked(t) BY <2>2 DEF FindMarked
 <2>3. CASE FindForward(t) BY <2>3 DEF FindForward
 <2>4. CASE FindSnip(t)
  <3>1. /\ pc'[t] = "findCurr" /\ UNCHANGED <<preds, succs>>
        /\ here'[t] = Top \/ here'[t] = [h EXCEPT !.curr = Null, !.succ = Null]
   BY <2>4 DEF FindSnip, RetryFind
  <3>2. [h EXCEPT !.curr = Null, !.succ = Null].pred = h.pred
        /\ [h EXCEPT !.curr = Null, !.succ = Null].level = h.level
   BY <1>1
  <3> QED BY <3>1, <3>2
 <2> QED BY <2>1, <2>2, <2>3, <2>4 DEF Finding
<1>4. KeysFit(t)'
 <2>1. CASE pc'[t] = "findCurr" /\ here'[t] = Top
  <3>1. job'[t].why = "relink" => list'[victim'[t]].key = call'[t].key
   <4>1. job'[t] = job[t] /\ victim'[t] = victim[t] /\ call'[t] = call[t] BY <1>2
   <4>2. FindsFor(t, "relink") =>
           list[victim[t]].key = call[t].key /\ list'[victim[t]].key = list[victim[t]].key
    BY <1>1, KeysStay DEF KeysFit
   <4> QED BY <1>1, <4>1, <4>2 DEF FindsFor
  <3> QED BY <1>1, <1>2, <2>1, <3>1, TopFits
 <2>2. CASE /\ pc'[t] \in {"findCurr", "findSucc", "findSnip"}
            /\ UNCHANGED <<preds, succs>>
            /\ here'[t].level = h.level
            /\ \/ here'[t].pred = h.pred
               \/ UNCHANGED list /\ here'[t].pred = h.curr.ref /\ Before(t, h.curr)
  <3>1. list'[here'[t].pred].key < call[t].key BY <1>1, <2>2, KeysStay DEF KeysFit, Before
  <3> QED BY <1>1, <1>2, <2>2, <3>1, FindFits
 <2>3. CASE FindDown(t)
  <3>1. /\ UNCHANGED list /\ LevelDone(t) /\ h.level > 0 /\ pc'[t] = "findCurr"
        /\ here'[t].level = h.level - 1 /\ here'[t].pred = h.pred
   BY <1>1, <2>3 DEF FindDown, GoTo, Become, TypesOf, Place, SkipListInv, TypeOK
  <3>2. \A level \in Levels : level >= h.level =>
          /\ list[preds'[t][level]].key < call[t].key
          /\ call[t].key <= list[succs'[t][level]].key
   BY <3>1, DoneLevelFits
  <3>3. \A level \in Levels : level > h.level - 1 => level >= h.level
   BY <1>1, SMT DEF Walks, Inner, Levels
  <3>4. \A level \in Levels : level > h.level - 1 => KeysAt(t, level)'
   BY <1>2, <3>1, <3>2, <3>3 DEF KeysAt
  <3> QED BY <1>1, <1>2, <3>1, <3>4 DEF KeysFit, Finds, FindsFor
 <2> QED BY <1>3, <2>1, <2>2, <2>3
<1>5. KeysAscend'
 <2>1. CASE UNCHANGED list BY <2>1, SameOrder
 <2>2. CASE FindSnip(t) /\ NextOf(h.pred, h.level) = h.curr
  <3>1. /\ NextOf(h.curr.ref, h.level) = Mark(Unmark(h.succ))
        /\ SwingNext(h.pred, h.level, Unmark(h.succ))
   BY <2>2, SnipSwings
  <3>2. Inner(h.pred, h.level) /\ Inner(h.curr.ref, h.level)
   BY <1>1, <2>2 DEF FindSnip, Walks, Finds, Inner, Linkable
  <3>3. /\ list[h.pred].next[h.level].ref = h.curr.ref
        /\ list[h.curr.ref].next[h.level].ref = Unmark(h.succ).ref
   BY <2>2, <3>1 DEF NextOf, Mark, Unmark, Ptr
  <3>4. /\ Ordered(h.pred, h.level) /\ Ordered(h.curr.ref, h.level)
        /\ Unmark(h.succ).ref \in Nodes
   BY <3>2, <3>3, PointersAreOrdered
  <3>5. /\ list[h.pred].key \in Int /\ list[h.curr.ref].key \in Int
        /\ list[Unmark(h.succ).ref].key \in Int
   BY <3>2, <3>4, KeysAreIntegers DEF Inner
  <3>6. /\ list[h.pred].key <= list[Unmark(h.succ).ref].key
        /\ h.level = 0 => list[h.pred].key < list[Unmark(h.succ).ref].key
   BY <3>3, <3>4, <3>5 DEF Ordered
  <3> QED BY <3>1, <3>2, <3>4, <3>6, SwingOrders
 <2> QED BY <2>1, <2>2
         DEF Finding, FindCurr, FindMarked, FindForward, FindSnip, FindDown
<1> QED BY <1>2, <1>4, <1>5, OrderKept

(* The steps after which the thread neither finds nor links, and that      *)
(* leave the list alone.                                                   *)
LEMMA QuietStepsOrder ==
 ASSUME SkipListInv, OrderInv, ListKept, NEW t \in Threads,
        \/ \E r : Return(t, r) /\ UNCHANGED list
        \/ RemovePrepares(t) \/ ReadMark(t) \/ UpperMarked(t) \/ MarkFails(t)
        \/ Scanning(t) /\ ~ContainsReturns(t)
 PROVE  OrderInv'
<1> USE DEF Acts, GoTo, Become, locals, history, SkipListInv, TypeOK
<1>1. /\ Acts(t) /\ UNCHANGED list
      /\ pc'[t] \notin {"findCurr", "findSucc", "findSnip", "link", "linkUpper"}
      /\ \A u \in Threads \ {t} : call'[u] = call[u]
 <2>1. CASE \E r : Return(t, r) /\ UNCHANGED list BY <2>1 DEF Return, Abstract!SetTypeOK
 <2>2. CASE RemovePrepares(t) BY <2>2 DEF RemovePrepares, LevelDone
 <2>3. CASE ReadMark(t) \/ UpperMarked(t) \/ MarkFails(t)
  BY <2>3 DEF ReadMark, UpperMarked, MarkFails
 <2>4. CASE ScanCurr(t) \/ ScanMarked(t) \/ ScanSkip(t) \/ ScanForward(t) \/ ScanDown(t)
  BY <2>4 DEF ScanCurr, ScanMarked, ScanSkip, ScanForward, ScanDown
 <2> QED BY <2>1, <2>2, <2>3, <2>4 DEF Scanning
<1> HIDE DEF Acts, GoTo, Become, locals, history, SkipListInv, TypeOK
<1>2. KeysFit(t)' BY <1>1, NothingToFit
<1>3. KeysAscend' BY <1>1, SameOrder
<1> QED BY <1>1, <1>2, <1>3, OrderKept

(* The steps that search again, from the head. *)
LEMMA FindStartsOrder ==
 ASSUME SkipListInv, OrderInv, ListKept, KeysAscend', NEW t \in Threads, NEW why,
        pc[t] # "idle", Find(t, why), UNCHANGED <<locals, call>>,
        why = "relink" => list'[victim[t]].key = call[t].key
 PROVE  OrderInv'
<1>1. /\ Acts(t) /\ pc'[t] = "findCurr" /\ here'[t] = Top /\ job'[t].why = why
      /\ UNCHANGED <<call, victim>>
 BY DEF Find, GoTo, Become, Job, locals, Acts, SkipListInv, TypeOK
<1>2. call'[t].key \in Keys BY <1>1, KeysAreIntegers
<1>3. KeysFit(t)' BY <1>1, <1>2, TopFits
<1> QED BY <1>1, <1>3, OrderKept

(* An add that has not found its key has a strict place at level 0.        *)
LEMMA AddPreparesOrders ==
 ASSUME SkipListInv, OrderInv, ListKept, NEW t \in Threads, AddPrepares(t)
 PROVE  OrderInv'
<1>1. /\ pc[t] = "findSucc" /\ here[t].level = 0 /\ LevelDone(t)
      /\ ~Before(t, here[t].curr) /\ ~Found(t)
      /\ UNCHANGED <<list, job, victim, call>>
 BY DEF AddPrepares, LevelDone, FindEnds, history
<1>2. Acts(t) /\ pc'[t] = "link"
 BY DEF AddPrepares, LevelDone, GoTo, Become, Acts, SkipListInv, TypeOK
<1>3. /\ \A level \in Levels :
           /\ list[preds'[t][level]].key < call[t].key
           /\ call[t].key <= list[succs'[t][level]].key
      /\ succs'[t][0] = here[t].curr.ref /\ here[t].curr.ref \in Nodes
 BY <1>1, DoneLevelFits, LevelBounds
<1>4. call[t].key < list[succs'[t][0]].key
 <2>1. list[here[t].curr.ref].key \in Int /\ call[t].key \in Int BY <1>1, <1>3, KeysAreIntegers
 <2> QED BY <1>1, <1>3, <2>1 DEF Before, Found
<1>5. KeysFit(t)' BY <1>1, <1>2, <1>3, <1>4 DEF KeysFit, KeysAt, Finds, FindsFor
<1>6. KeysAscend' BY <1>1, SameOrder
<1> QED BY <1>1, <1>2, <1>5, <1>6, OrderKept

(* The search of an add that goes on renews every place.                   *)
LEMMA ResumeLinkingOrders ==
 ASSUME SkipListInv, OrderInv, ListKept, NEW t \in Threads, ResumeLinking(t)
 PROVE  OrderInv'
<1>1. /\ pc[t] = "findSucc" /\ here[t].level = 0 /\ LevelDone(t)
      /\ FindsFor(t, "relink")
      /\ UNCHANGED <<list, job, victim, call>>
 BY DEF ResumeLinking, LevelDone, FindEnds, history, FindsFor, Finds
<1>2. Acts(t) /\ pc'[t] = "linkUpper"
 BY DEF ResumeLinking, LevelDone, GoTo, Become, Acts, SkipListInv, TypeOK
<1>3. \A level \in Levels :
           /\ list[preds'[t][level]].key < call[t].key
           /\ call[t].key <= list[succs'[t][level]].key
 BY <1>1, DoneLevelFits, LevelBounds
<1>4. list[victim[t]].key = call[t].key BY <1>1 DEF OrderInv, KeysFit
<1>5. KeysFit(t)' BY <1>1, <1>2, <1>3, <1>4 DEF KeysFit, KeysAt, Finds, FindsFor
<1>6. KeysAscend' BY <1>1, SameOrder
<1> QED BY <1>1, <1>2, <1>5, <1>6, OrderKept

(* The place of the link may be stale, but its predecessor still points to *)
(* the successor that find has compared.                                   *)
LEMMA LinkOrders ==
 ASSUME SkipListInv, OrderInv, ListKept, NEW t \in Threads, Link(t)
 PROVE  OrderInv'
<1> DEFINE new == NewName(t)
           p == preds[t][0]
           next == [i \in Levels |-> IF i <= height[t] THEN Plain(succs[t][i]) ELSE Null]
           rec == NodeRecord(call[t].key, height[t], next)
           k == call[t].key
<1>1. /\ pc[t] = "link" /\ KeysFit(t) /\ TypesOf(t) /\ Paths(t) /\ Grows
      /\ k \in Int
      /\ list \in [Nodes -> Record]
 BY Types, KeysAreIntegers DEF Link, OrderInv, ThreadInv, ListKept
<1>2. list' = AddNode(new, rec, [list EXCEPT ![p].next[0] = Plain(new)]) BY DEF Link
<1>3. /\ new \notin Nodes
      /\ \A n \in Nodes, level \in Levels :
           list'[n].next[level] # list[n].next[level] =>
             n = p /\ level = 0 /\ list'[n].next[level] = Plain(new)
 BY LinkKeeps
<1>4. /\ UNCHANGED <<call, preds, succs, job, height>>
      /\ Acts(t) /\ pc'[t] = "linkUpper" /\ victim'[t] = new
 BY DEF Link, GoTo, Become, Acts, SkipListInv, TypeOK
<1>5. \A level \in Levels : PathAt(t, level) /\ KeysAt(t, level) BY <1>1 DEF Paths, KeysFit
<1>6. /\ p \in Nodes /\ list[p].key < k /\ k < list[succs[t][0]].key
      /\ \A level \in Levels : succs[t][level] \in Nodes
 BY <1>1, <1>5, LevelBounds DEF PathAt, Inner, Linkable, KeysAt, KeysFit
<1> HIDE DEF new
<1>7. Nodes' = Nodes \cup {new} /\ list'[new] = rec BY <1>1, <1>2 DEF Nodes, AddNode
<1>8. /\ list'[new].key = k /\ list'[new].topLevel = height[t]
      /\ \A level \in 0 .. height[t] : list'[new].next[level].ref = succs[t][level]
 BY <1>1, <1>7, LevelBounds, SMT DEF TypesOf, NodeRecord, Plain, Ptr, Levels
<1>9. KeysAscend'
 <2>1. ASSUME NEW n \in Nodes' \ {Tail_}, NEW level \in 0 .. list'[n].topLevel
       PROVE  LET q == list'[n].next[level].ref
              IN  IF level = 0 THEN list'[n].key < list'[q].key
                               ELSE list'[n].key <= list'[q].key
  <3>1. CASE n = new
   <4>1. level \in Levels /\ list'[new].next[level].ref = succs[t][level]
    <5>1. level \in 0 .. height[t] /\ height[t] \in 0 .. MaxLevel /\ MaxLevel \in Nat
     BY <1>1, <1>8, <2>1, <3>1, LevelBounds DEF TypesOf, Levels
    <5>2. level \in Levels BY <5>1 DEF Levels
    <5> QED BY <1>8, <5>1, <5>2
   <4>2. list'[succs[t][level]].key = list[succs[t][level]].key BY <1>1, <1>6, <4>1 DEF Grows
   <4> QED BY <1>5, <1>6, <1>8, <3>1, <4>1, <4>2 DEF KeysAt
  <3>2. CASE n = p /\ level = 0 /\ list'[n].next[level] = Plain(new)
   <4>1. list'[n].key = list[p].key /\ list'[n].next[level].ref = new
    BY <1>1, <1>6, <3>2 DEF Grows, Plain, Ptr
   <4> QED BY <1>6, <1>8, <3>2, <4>1
  <3>3. CASE n # new /\ list'[n].next[level] = list[n].next[level]
   <4>1. n \in Nodes \ {Tail_} /\ level \in 0 .. list[n].topLevel
    BY <1>1, <1>7, <2>1, <3>3 DEF Grows
   <4>2. Inner(n, level) BY <1>1, <4>1, LevelBounds, SMT DEF Inner, Record, Levels
   <4>3. list[n].next[level].ref \in Nodes BY <4>2, PointersAreOrdered
   <4> QED BY <1>1, <3>3, <4>1, <4>3 DEF Grows, OrderInv, KeysAscend
  <3>4. n # new => level \in Levels
   <4>1. n # new => list'[n].topLevel = list[n].topLevel /\ list[n].topLevel \in Levels
    BY <1>1, <1>7 DEF Grows, Record
   <4> QED BY <2>1, <4>1, LevelBounds, SMT DEF Levels
  <3> QED BY <1>3, <1>7, <3>1, <3>2, <3>3, <3>4
 <2> QED BY <2>1 DEF KeysAscend
<1>10. KeysFit(t)'
 <2>1. \A level \in Levels : KeysAt(t, level)'
  BY <1>1, <1>4, <1>5 DEF KeysAt, PathAt, Inner, Linkable, Grows
 <2> QED BY <1>4, <1>8, <2>1 DEF KeysFit, Finds, FindsFor
<1> QED BY <1>4, <1>9, <1>10, OrderKept

(* The same at an upper level, whose place has the same comparison.        *)
LEMMA LinkUpperOrders ==
 ASSUME SkipListInv, OrderInv, ListKept, NEW t \in Threads, LinkUpper(t)
 PROVE  OrderInv'
<1> DEFINE level == here[t].level
           p == preds[t][level]
           v == victim[t]
<1>1. /\ pc[t] = "linkUpper" /\ KeysFit(t) /\ Paths(t) /\ Links(t) /\ Grows
      /\ UNCHANGED <<locals, call, preds, succs, victim>>
 BY Types DEF LinkUpper, OrderInv, ThreadInv, ListKept, locals, history
<1>2. v \in Nodes /\ list[v].key = call[t].key /\ list'[v].key = list[v].key
 BY <1>1 DEF Links, KeysFit, Grows
<1>3. \A k \in Levels : PathAt(t, k) /\ KeysAt(t, k) BY <1>1 DEF Paths, KeysFit
<1>4. CASE NextOf(p, level) = Plain(succs[t][level])
 <2>1. level \in Levels \ {0} /\ SwingNext(p, level, Plain(v)) BY <1>4, LinkUpperSwings
 <2>2. Acts(t) /\ pc'[t] = "linkUpper"
  BY <1>1, <1>4 DEF LinkUpper, Become, Acts, locals, SkipListInv, TypeOK
 <2>3. Inner(p, level) /\ list[p].key < list[v].key BY <1>2, <1>3, <2>1 DEF PathAt, KeysAt
 <2>4. list[p].key \in Int /\ list[v].key \in Int BY <1>2, <2>3, KeysAreIntegers DEF Inner
 <2>5. KeysAscend'
  <3>1. list[p].key <= list[v].key /\ Plain(v).ref = v BY <2>3, <2>4 DEF Plain, Ptr
  <3> QED BY <1>2, <2>1, <2>3, <3>1, SwingOrders
 <2>6. KeysFit(t)'
  <3>1. \A k \in Levels : KeysAt(t, k)' BY <1>1, <1>3 DEF KeysAt, PathAt, Inner, Linkable, Grows
  <3> QED BY <1>1, <1>2, <2>2, <3>1 DEF KeysFit, Finds, FindsFor
 <2> QED BY <1>1, <2>2, <2>5, <2>6, OrderKept
<1>5. CASE NextOf(p, level) # Plain(succs[t][level])
 <2>1. Find(t, "relink") /\ UNCHANGED list BY <1>5 DEF LinkUpper
 <2>2. KeysAscend' BY <2>1, SameOrder
 <2> QED BY <1>1, <1>2, <2>1, <2>2, FindStartsOrder
<1> QED BY <1>4, <1>5

(* A mark keeps the pointer, and with it the order. *)
LEMMA MarkOrders ==
 ASSUME SkipListInv, OrderInv, ListKept, NEW t \in Threads,
        pc[t] = "mark", NextOf(victim[t], here[t].level) = here[t].succ,
        SwingNext(victim[t], here[t].level, Mark(here[t].succ))
 PROVE  KeysAscend'
<1> DEFINE v == victim[t]
           level == here[t].level
<1>1. Inner(v, level) BY MarkSwings
<1>2. Mark(here[t].succ).ref = list[v].next[level].ref BY DEF NextOf, Mark, Ptr
<1>3. Ordered(v, level) /\ Mark(here[t].succ).ref \in Nodes BY <1>1, <1>2, PointersAreOrdered
<1> QED BY <1>1, <1>2, <1>3, SwingOrders DEF Ordered

(* Every step keeps the order.                                             *)
LEMMA StepOrders ==
 ASSUME SkipListInv, OrderInv, [Next]_vars
 PROVE  OrderInv'
<1>1. ListKept BY StepsGrow
<1>2. CASE UNCHANGED vars
 BY <1>2 DEF vars, locals, history, OrderInv, KeysAscend, KeysFit, KeysAt, Finds, FindsFor, Nodes
<1>3. ASSUME NEW t \in Threads, NEW c \in Abstract!SetCalls, NEW level \in Levels,
             Start(t, c, level)
      PROVE  OrderInv'
 <2>1. /\ UNCHANGED <<list, preds, succs, victim>> /\ here'[t] = Top
       /\ call' = [call EXCEPT ![t] = c]
       /\ call'[t].key \in Keys
       /\ \A u \in Threads \ {t} : call'[u] = call[u]
  BY <1>3 DEF Start, Find, Become, SkipListInv, TypeOK, Abstract!SetTypeOK, Abstract!SetCalls
 <2>2. Acts(t) BY <1>3 DEF Start, Find, GoTo, Become, Acts, SkipListInv, TypeOK
 <2>3. KeysAscend' BY <2>1, SameOrder
 <2>4. KeysFit(t)'
  <3>1. CASE c.op = "contains"
   <4>1. pc'[t] = "scanCurr" BY <1>3, <3>1 DEF Start, GoTo, SkipListInv, TypeOK
   <4> QED BY <4>1, NothingToFit
  <3>2. CASE c.op # "contains"
   <4>1. pc'[t] = "findCurr" /\ job'[t].why = c.op
    BY <1>3, <3>2 DEF Start, Find, GoTo, Job, SkipListInv, TypeOK
   <4>2. c.op # "relink" BY DEF Abstract!SetCalls
   <4> QED BY <1>1, <2>1, <4>1, <4>2, TopFits
  <3> QED BY <3>1, <3>2
 <2> QED BY <1>1, <2>1, <2>2, <2>3, <2>4, OrderKept
<1>4. ASSUME NEW t \in Threads, Finding(t) PROVE OrderInv' BY <1>1, <1>4, FindingOrders
<1>5. ASSUME NEW t \in Threads, AddFindsKey(t) \/ AddReturns(t) \/ RemoveMissesKey(t)
             \/ RemoveReturns(t) \/ ContainsReturns(t)
      PROVE  OrderInv'
 <2>1. \E r : Return(t, r) /\ UNCHANGED list
  BY <1>5 DEF AddFindsKey, AddReturns, RemoveMissesKey, RemoveReturns, ContainsReturns
 <2> QED BY <1>1, <2>1, QuietStepsOrder
<1>6. ASSUME NEW t \in Threads, LinkFails(t) \/ RemoveLoses(t) PROVE OrderInv'
 <2>1. \E why \in {"add", "remove"} : Find(t, why) BY <1>6 DEF LinkFails, RemoveLoses
 <2>2. pc[t] # "idle" /\ UNCHANGED <<list, locals, call>>
  BY <1>6 DEF LinkFails, RemoveLoses, history
 <2>3. KeysAscend' BY <2>2, SameOrder
 <2> QED BY <1>1, <2>1, <2>2, <2>3, FindStartsOrder
<1>7. ASSUME NEW t \in Threads, MarkUpper(t) PROVE OrderInv'
 <2>1. KeysAscend' BY <1>1, <1>7, MarkOrders DEF MarkUpper
 <2>2. Acts(t) /\ pc'[t] = "readMark" /\ UNCHANGED call
  BY <1>7 DEF MarkUpper, GoTo, Become, locals, history, Acts, SkipListInv, TypeOK
 <2>3. KeysFit(t)' BY <2>2, NothingToFit
 <2> QED BY <1>1, <2>1, <2>2, <2>3, OrderKept
<1>8. ASSUME NEW t \in Threads, MarkBottom(t) PROVE OrderInv'
 <2>1. KeysAscend' BY <1>1, <1>8, MarkOrders DEF MarkBottom
 <2>2. pc[t] # "idle" /\ Find(t, "snip") /\ UNCHANGED <<locals, call>> BY <1>8 DEF MarkBottom
 <2> QED BY <1>1, <2>1, <2>2, FindStartsOrder
<1>9. ASSUME NEW t \in Threads, AddPrepares(t) \/ Link(t) \/ LinkUpper(t) \/ ResumeLinking(t)
      PROVE  OrderInv'
 BY <1>1, <1>9, AddPreparesOrders, LinkOrders, LinkUpperOrders, ResumeLinkingOrders
<1>10. ASSUME NEW t \in Threads,
              \/ RemovePrepares(t) \/ ReadMark(t) \/ UpperMarked(t) \/ MarkFails(t)
              \/ Scanning(t) /\ ~ContainsReturns(t)
       PROVE  OrderInv'
 BY <1>1, <1>10, QuietStepsOrder
<1> QED BY <1>2, <1>3, <1>4, <1>5, <1>6, <1>7, <1>8, <1>9, <1>10
        DEF Next, Step, Adding, Removing

(* The empty list is in order.                                             *)
LEMMA InitOrders == Init => OrderInv
<1> SUFFICES ASSUME Init PROVE OrderInv OBVIOUS
<1>1. /\ Nodes = {Head_, Tail_}
      /\ list[Head_].key = MinKey /\ list[Tail_].key = MaxKey
      /\ list[Head_].topLevel = MaxLevel
      /\ \A level \in Levels : list[Head_].next[level].ref = Tail_
 BY DEF Init, InitialList, NodeRecord, Nodes, Head_, Tail_, Plain, Ptr
<1>2. MinKey \in Int /\ MaxKey \in Int /\ MinKey < MaxKey BY SkipListAssumption
<1>3. KeysAscend BY <1>1, <1>2 DEF KeysAscend, Levels
<1>4. \A t \in Threads : KeysFit(t) BY DEF Init, KeysFit, Finds, FindsFor
<1> QED BY <1>3, <1>4 DEF OrderInv

(* The pointers of every node lead to larger keys, strictly at level 0, in *)
(* every interleaving: the places that find remembers go stale, but a CAS  *)
(* that still finds the remembered successor keeps the list sorted, and no *)
(* key comes to be on level 0 twice.                                       *)
THEOREM KeysAreOrdered == Spec => []KeysAscend
<1>1. OrderInv => KeysAscend BY DEF OrderInv
<1>2. Spec => []OrderInv BY InvariantHolds, InitOrders, StepOrders, PTL DEF Spec
<1> QED BY <1>1, <1>2, PTL

-----------------------------------------------------------------------------
(* Reachability.  The smallest closed set exists if there is any.          *)
LEMMA FromIsLeast ==
 ASSUME NEW l, NEW level, NEW n, NEW A \in SUBSET DOMAIN l, Trail(l, level, n, A)
 PROVE  /\ From(l, level, n) \in SUBSET DOMAIN l
        /\ Trail(l, level, n, From(l, level, n))
        /\ \A S \in SUBSET DOMAIN l :
             Trail(l, level, n, S) => From(l, level, n) \subseteq S
<1> DEFINE I == {m \in DOMAIN l :
                   \A S \in SUBSET DOMAIN l : Trail(l, level, n, S) => m \in S}
           Least(S) == /\ Trail(l, level, n, S)
                       /\ \A Q \in SUBSET S : Trail(l, level, n, Q) => Q = S
           F == From(l, level, n)
<1>1. Trail(l, level, n, I) BY DEF Trail
<1>2. \A Q \in SUBSET I : Trail(l, level, n, Q) => Q = I OBVIOUS
<1>3. I \in SUBSET DOMAIN l /\ Least(I) BY <1>1, <1>2
<1>4. F = CHOOSE S \in SUBSET DOMAIN l : Least(S) BY DEF From
<1>5. F \in SUBSET DOMAIN l /\ Least(F)
 <2> HIDE DEF Least, F, I
 <2> QED BY <1>3, <1>4
<1>6. ASSUME NEW S \in SUBSET DOMAIN l, Trail(l, level, n, S) PROVE F \subseteq S
 <2>1. Trail(l, level, n, F \cap S) BY <1>5, <1>6 DEF Trail
 <2>2. F \cap S = F
  <3> HIDE DEF F
  <3> QED BY <1>5, <2>1
 <2> HIDE DEF F
 <2> QED BY <2>2
<1> HIDE DEF F
<1> QED BY <1>5, <1>6 DEF F

(* A list whose level 0 leads from every node to a larger one.             *)
NextIn(l, m) == l[m].next[0].ref
Sorted(l) ==
    /\ {Head_, Tail_} \subseteq DOMAIN l
    /\ \A m \in DOMAIN l : l[m].key \in Int
    /\ \A m \in DOMAIN l \ {Tail_} :
         NextIn(l, m) \in DOMAIN l /\ l[m].key < l[NextIn(l, m)].key

Ahead(l, n) == From(l, 0, n)
Shut(l, S) == \A m \in S \ {Tail_} : NextIn(l, m) \in S

(* What is ahead of a node is the smallest closed set that has it.         *)
LEMMA AheadIsLeast ==
 ASSUME NEW l, Sorted(l), NEW n \in DOMAIN l
 PROVE  /\ Ahead(l, n) \in SUBSET DOMAIN l
        /\ n \in Ahead(l, n)
        /\ Shut(l, Ahead(l, n))
        /\ \A S \in SUBSET DOMAIN l : n \in S /\ Shut(l, S) => Ahead(l, n) \subseteq S
<1>1. \A S : Trail(l, 0, n, S) <=> n \in S /\ Shut(l, S) BY DEF Trail, Shut, NextIn
<1>2. Trail(l, 0, n, DOMAIN l) BY <1>1 DEF Sorted, Shut
<1>3. /\ From(l, 0, n) \in SUBSET DOMAIN l
      /\ Trail(l, 0, n, From(l, 0, n))
      /\ \A S \in SUBSET DOMAIN l : Trail(l, 0, n, S) => From(l, 0, n) \subseteq S
 <2>1. DOMAIN l \in SUBSET DOMAIN l OBVIOUS
 <2> QED BY <1>2, <2>1, FromIsLeast
<1> QED BY <1>1, <1>3 DEF Ahead

(* What is ahead of a node ahead is ahead.                                 *)
LEMMA AheadIsTransitive ==
 ASSUME NEW l, Sorted(l), NEW n \in DOMAIN l, NEW m \in Ahead(l, n)
 PROVE  Ahead(l, m) \subseteq Ahead(l, n)
 BY AheadIsLeast

(* The node itself, then what is ahead of the next one.                    *)
LEMMA AheadUnfolds ==
 ASSUME NEW l, Sorted(l), NEW n \in DOMAIN l
 PROVE  /\ n = Tail_ => Ahead(l, n) = {Tail_}
        /\ n # Tail_ => /\ NextIn(l, n) \in Ahead(l, n)
                        /\ Ahead(l, NextIn(l, n)) \subseteq Ahead(l, n)
                        /\ Ahead(l, n) \subseteq {n} \cup Ahead(l, NextIn(l, n))
<1>1. CASE n = Tail_
 <2>1. {Tail_} \in SUBSET DOMAIN l /\ Shut(l, {Tail_}) BY DEF Sorted, Shut
 <2> QED BY <1>1, <2>1, AheadIsLeast
<1>2. CASE n # Tail_
 <2> DEFINE next == NextIn(l, n)
            S == {n} \cup Ahead(l, next)
 <2>1. next \in DOMAIN l BY <1>2 DEF Sorted
 <2>2. next \in Ahead(l, n) BY <1>2, AheadIsLeast DEF Shut
 <2>3. Ahead(l, next) \subseteq Ahead(l, n) BY <2>2, AheadIsTransitive
 <2>4. S \in SUBSET DOMAIN l /\ Shut(l, S) BY <2>1, AheadIsLeast DEF Shut
 <2>5. Ahead(l, n) \subseteq S BY <2>4, AheadIsLeast
 <2> QED BY <1>2, <2>2, <2>3, <2>5
<1> QED BY <1>1, <1>2

(* What is ahead is larger. *)
LEMMA AheadIsLarger ==
 ASSUME NEW l, Sorted(l), NEW n \in DOMAIN l, NEW m \in Ahead(l, n), m # n
 PROVE  l[n].key < l[m].key
<1> DEFINE S == {n} \cup {x \in DOMAIN l : l[n].key < l[x].key}
<1>1. ASSUME NEW x \in S \ {Tail_} PROVE NextIn(l, x) \in S
 <2>1. /\ x \in DOMAIN l \ {Tail_} /\ NextIn(l, x) \in DOMAIN l
       /\ l[x].key < l[NextIn(l, x)].key
       /\ l[n].key \in Int /\ l[x].key \in Int /\ l[NextIn(l, x)].key \in Int
  BY DEF Sorted
 <2>2. l[n].key < l[NextIn(l, x)].key BY <2>1
 <2> QED BY <2>1, <2>2
<1>2. S \in SUBSET DOMAIN l /\ Shut(l, S) BY <1>1 DEF Shut
<1>3. Ahead(l, n) \subseteq S BY <1>2, AheadIsLeast
<1> QED BY <1>3

(* Of two nodes ahead of a third one is ahead of the other.                *)
LEMMA AheadIsTotal ==
 ASSUME NEW l, Sorted(l), NEW n \in DOMAIN l, NEW a \in Ahead(l, n), NEW b \in Ahead(l, n)
 PROVE  a \in Ahead(l, b) \/ b \in Ahead(l, a)
<1> DEFINE A == Ahead(l, n)
           S == {x \in A : \A y \in A : x \in Ahead(l, y) \/ y \in Ahead(l, x)}
<1>1. A \in SUBSET DOMAIN l /\ n \in A /\ Shut(l, A) BY AheadIsLeast
<1>2. n \in S BY <1>1
<1>3. ASSUME NEW x \in S \ {Tail_} PROVE NextIn(l, x) \in S
 <2> DEFINE next == NextIn(l, x)
 <2>1. x \in DOMAIN l /\ next \in A BY <1>1, <1>3 DEF Shut
 <2>2. ASSUME NEW y \in A PROVE next \in Ahead(l, y) \/ y \in Ahead(l, next)
  <3>1. y \in DOMAIN l BY <1>1
  <3>2. CASE x \in Ahead(l, y) BY <1>3, <3>1, <3>2, AheadIsLeast DEF Shut
  <3>3. CASE y \in Ahead(l, x)
   <4>1. y = x \/ y \in Ahead(l, next) BY <1>3, <2>1, <3>3, AheadUnfolds
   <4>2. next \in Ahead(l, x) BY <1>3, <2>1, AheadUnfolds
   <4> QED BY <4>1, <4>2
  <3> QED BY <1>3, <3>2, <3>3
 <2> QED BY <2>1, <2>2
<1>4. S \in SUBSET DOMAIN l /\ Shut(l, S) BY <1>1, <1>3 DEF Shut
<1>5. A \subseteq S BY <1>2, <1>4, AheadIsLeast
<1> QED BY <1>5

(* The nodes ahead of a third one are in the order of their keys.          *)
LEMMA AheadByKey ==
 ASSUME NEW l, Sorted(l), NEW n \in DOMAIN l,
        NEW a \in Ahead(l, n), NEW b \in Ahead(l, n), l[a].key <= l[b].key
 PROVE  /\ b \in Ahead(l, a)
        /\ l[a].key = l[b].key => a = b
        /\ a # b => a # Tail_ /\ b \in Ahead(l, NextIn(l, a))
<1>1. a \in DOMAIN l /\ b \in DOMAIN l /\ l[a].key \in Int /\ l[b].key \in Int
 BY AheadIsLeast DEF Sorted
<1>2. a \in Ahead(l, b) => a = b
 <2> SUFFICES ASSUME a \in Ahead(l, b), a # b PROVE FALSE OBVIOUS
 <2>1. l[b].key < l[a].key BY <1>1, AheadIsLarger
 <2> QED BY <1>1, <2>1
<1>3. b \in Ahead(l, a) BY <1>1, <1>2, AheadIsTotal, AheadIsLeast
<1>4. l[a].key = l[b].key => a = b
 <2> SUFFICES ASSUME l[a].key = l[b].key, a # b PROVE FALSE OBVIOUS
 <2>1. l[a].key < l[b].key BY <1>1, <1>3, AheadIsLarger
 <2> QED BY <1>1, <2>1
<1>5. a # b => a # Tail_ /\ b \in Ahead(l, NextIn(l, a)) BY <1>1, <1>3, AheadUnfolds
<1> QED BY <1>3, <1>4, <1>5

-----------------------------------------------------------------------------
(* The three ways in which a CAS changes what is ahead on level 0.         *)
(* Marks, and all CASes of the upper levels, change nothing there.         *)
LEMMA SameRefs ==
 ASSUME NEW l, Sorted(l), NEW k, Sorted(k), DOMAIN k = DOMAIN l,
        \A m \in DOMAIN l : NextIn(k, m) = NextIn(l, m),
        NEW n \in DOMAIN l
 PROVE  Ahead(k, n) = Ahead(l, n)
<1>1. \A S \in SUBSET DOMAIN l : Shut(k, S) <=> Shut(l, S) BY DEF Shut
<1>2. Ahead(k, n) \subseteq Ahead(l, n) BY <1>1, AheadIsLeast
<1>3. Ahead(l, n) \subseteq Ahead(k, n) BY <1>1, AheadIsLeast
<1> QED BY <1>2, <1>3

(* A link puts a new node behind its predecessor.                          *)
LEMMA Inserted ==
 ASSUME NEW l, Sorted(l), NEW k, Sorted(k), NEW new, new \notin DOMAIN l,
        DOMAIN k = DOMAIN l \cup {new},
        NEW p \in DOMAIN l \ {Tail_}, NextIn(k, p) = new, NextIn(k, new) = NextIn(l, p),
        \A m \in DOMAIN l \ {p} : NextIn(k, m) = NextIn(l, m),
        NEW n \in DOMAIN l
 PROVE  /\ Ahead(l, n) \subseteq Ahead(k, n)
        /\ Ahead(k, n) \subseteq Ahead(l, n) \cup {new}
        /\ p \in Ahead(l, n) => new \in Ahead(k, n)
<1>1. NextIn(l, p) \in DOMAIN l /\ new # Tail_ BY DEF Sorted
<1>2. Ahead(l, n) \subseteq Ahead(k, n)
 <2> DEFINE A == Ahead(k, n)
            S == A \cap DOMAIN l
 <2>1. A \in SUBSET DOMAIN k /\ n \in A /\ Shut(k, A) BY AheadIsLeast
 <2>2. ASSUME NEW m \in S \ {Tail_} PROVE NextIn(l, m) \in S
  <3>1. NextIn(l, m) \in DOMAIN l /\ NextIn(k, m) \in A BY <2>1, <2>2 DEF Sorted, Shut
  <3>2. CASE m = p BY <1>1, <2>1, <3>1, <3>2 DEF Shut
  <3>3. CASE m # p BY <3>1, <3>3
  <3> QED BY <3>2, <3>3
 <2>3. S \in SUBSET DOMAIN l /\ n \in S /\ Shut(l, S) BY <2>1, <2>2 DEF Shut
 <2>4. Ahead(l, n) \subseteq S BY <2>3, AheadIsLeast
 <2> QED BY <2>4
<1>3. p \in Ahead(l, n) => new \in Ahead(k, n) BY <1>2, AheadIsLeast DEF Shut
<1>4. Ahead(k, n) \subseteq Ahead(l, n) \cup {new}
 <2> DEFINE A == Ahead(l, n)
            S == A \cup (IF p \in A THEN {new} ELSE {})
 <2>1. A \in SUBSET DOMAIN l /\ n \in A /\ Shut(l, A) BY AheadIsLeast
 <2>2. ASSUME NEW m \in S \ {Tail_} PROVE NextIn(k, m) \in S
  <3>1. CASE m = new BY <2>1, <2>2, <3>1 DEF Shut
  <3>2. CASE m = p BY <2>1, <2>2, <3>2
  <3>3. CASE m # p /\ m # new BY <2>1, <2>2, <3>3 DEF Shut
  <3> QED BY <3>1, <3>2, <3>3
 <2>3. S \in SUBSET DOMAIN k /\ n \in S /\ Shut(k, S) BY <2>1, <2>2 DEF Shut
 <2>4. Ahead(k, n) \subseteq S BY <2>3, AheadIsLeast
 <2> QED BY <2>4
<1> QED BY <1>2, <1>3, <1>4

(* A snip cuts one node out, which nothing on the level leads to any more. *)
LEMMA CutOut ==
 ASSUME NEW l, Sorted(l), NEW k, Sorted(k), DOMAIN k = DOMAIN l,
        NEW p \in DOMAIN l \ {Tail_}, NEW c \in DOMAIN l \ {Tail_},
        NextIn(l, p) = c, NextIn(k, p) = NextIn(l, c),
        \A m \in DOMAIN l \ {p} : NextIn(k, m) = NextIn(l, m),
        NEW n \in DOMAIN l
 PROVE  /\ Ahead(k, n) \subseteq Ahead(l, n)
        /\ Ahead(l, n) \subseteq Ahead(k, n) \cup {c}
        /\ p \in Ahead(l, n) /\ n # c => c \notin Ahead(k, n)
<1>1. l[p].key < l[c].key /\ l[p].key \in Int /\ l[c].key \in Int /\ p # c BY DEF Sorted
<1>2. Ahead(k, n) \subseteq Ahead(l, n)
 <2> DEFINE A == Ahead(l, n)
 <2>1. A \in SUBSET DOMAIN l /\ n \in A /\ Shut(l, A) BY AheadIsLeast
 <2>2. Shut(k, A) BY <2>1 DEF Shut
 <2> QED BY <2>1, <2>2, AheadIsLeast
<1>3. Ahead(l, n) \subseteq Ahead(k, n) \cup {c}
 <2> DEFINE A == Ahead(k, n)
            S == A \cup (IF p \in A THEN {c} ELSE {})
 <2>1. A \in SUBSET DOMAIN l /\ n \in A /\ Shut(k, A) BY AheadIsLeast
 <2>2. ASSUME NEW m \in S \ {Tail_} PROVE NextIn(l, m) \in S
  <3>1. CASE m = p BY <2>1, <2>2, <3>1, <1>1
  <3>2. CASE m = c BY <1>1, <2>1, <2>2, <3>2 DEF Shut
  <3>3. CASE m # p /\ m # c BY <2>1, <2>2, <3>3 DEF Shut
  <3> QED BY <3>1, <3>2, <3>3
 <2>3. S \in SUBSET DOMAIN l /\ n \in S /\ Shut(l, S) BY <2>1, <2>2 DEF Shut
 <2>4. Ahead(l, n) \subseteq S BY <2>3, AheadIsLeast
 <2> QED BY <2>4
<1>4. ASSUME p \in Ahead(l, n), n # c PROVE c \notin Ahead(k, n)
 <2> DEFINE A == Ahead(l, n)
            S == A \ {c}
 <2>1. A \in SUBSET DOMAIN l /\ n \in A /\ Shut(l, A) BY AheadIsLeast
 <2>2. ASSUME NEW m \in S \ {Tail_} PROVE NextIn(k, m) \in S
  <3>1. m \in DOMAIN l /\ NextIn(l, m) \in A /\ NextIn(l, m) \in DOMAIN l
        /\ l[m].key < l[NextIn(l, m)].key
        /\ l[m].key \in Int
   BY <2>1 DEF Shut, Sorted
  <3>2. CASE m = p
   <4>1. NextIn(l, c) \in A /\ NextIn(l, c) # c BY <1>1, <1>4, <2>1, <3>1, <3>2 DEF Shut, Sorted
   <4> QED BY <3>2, <4>1
  <3>3. CASE m # p
   <4>1. NextIn(l, m) # c
    <5> SUFFICES ASSUME NextIn(l, m) = c PROVE FALSE OBVIOUS
    <5>1. CASE l[m].key <= l[p].key
     <6>1. p \in Ahead(l, c) BY <1>4, <2>2, <3>3, <5>1, AheadByKey
     <6>2. l[c].key < l[p].key BY <1>1, <6>1, AheadIsLarger
     <6> QED BY <1>1, <6>2
    <5>2. CASE l[p].key <= l[m].key
     <6>1. m \in Ahead(l, c) BY <1>4, <2>2, <3>3, <5>2, AheadByKey
     <6>2. m = c
      <7> SUFFICES ASSUME m # c PROVE FALSE OBVIOUS
      <7>1. l[c].key < l[m].key BY <6>1, AheadIsLarger
      <7> QED BY <1>1, <3>1, <7>1
     <6> QED BY <2>2, <6>2
    <5> QED BY <1>1, <3>1, <5>1, <5>2
   <4> QED BY <3>1, <3>3, <4>1
  <3> QED BY <3>2, <3>3
 <2>3. S \in SUBSET DOMAIN l /\ n \in S /\ Shut(k, S) BY <1>4, <2>1, <2>2 DEF Shut
 <2>4. Ahead(k, n) \subseteq S BY <2>3, AheadIsLeast
 <2> QED BY <2>4
<1> QED BY <1>2, <1>3, <1>4

-----------------------------------------------------------------------------
(* The inductive invariant.  What level 0 leads to:                        *)
Reach(n) == Ahead(list, n)
Bottom == Reach(Head_)

In(n) == ~list[n].next[0].mark          \* not removed, once it is linked

(* A node that is not removed is on level 0, and a node that is removed is *)
(* marked at every level that it has.                                      *)
Kept == \A n \in Nodes : In(n) => n \in Bottom
MarksDescend ==
    \A n \in Nodes : \A level \in Levels :
        Inner(n, level) /\ ~In(n) => list[n].next[level].mark

(* Where a call is, and what it may still answer.                          *)
Pending(t, op) == call[t].op = op /\ TRUE \notin answers[t]
Done(t, op) == call[t].op = op /\ answers[t] = {TRUE}

CallFits(t) ==
    /\ Finds(t) => job[t].why # "none"
    /\ FindsFor(t, "add") \/ pc[t] = "link" => Pending(t, "add")
    /\ FindsFor(t, "relink") \/ pc[t] = "linkUpper" => Done(t, "add")
    /\ FindsFor(t, "remove") \/ pc[t] \in {"readMark", "mark"} => Pending(t, "remove")
    /\ Snips(t) => Done(t, "remove")
    /\ Scans(t) => call[t].op = "contains"
    /\ pc[t] \in {"readMark", "mark"} \/ Snips(t) => list[victim[t]].key = call[t].key

Observes(t) ==
    pc[t] # "idle" /\ ~Abstract!Applied(call[t], answers[t]) =>
        Abstract!Observed(call[t], Contents(list)) \subseteq answers[t]

(* A search that must not miss a node: the find of a remove, for the node  *)
(* that it is about to release, and the searches that may report a key as  *)
(* absent, as long as the key was there at every moment of the call.       *)
Seeks(t) == Scans(t) \/ FindsFor(t, "remove") \/ Snips(t)
Sought(t, x) ==
    IF Snips(t) THEN x = victim[t] /\ x \in Bottom
                ELSE FALSE \notin answers[t] /\ In(x) /\ list[x].key = call[t].key

(* The node is still ahead.                                                *)
Leads(t) ==
    /\ Seeks(t) => \A x \in Nodes : Sought(t, x) =>
         /\ x \in Reach(here[t].pred)
         /\ pc[t] \in {"findSucc", "scanSucc", "scanSkip"} /\ here[t].level = 0 =>
              x \in Reach(here[t].curr.ref)
    /\ Scans(t) => list[here[t].pred].key < call[t].key
    /\ pc[t] = "scanSkip" => NextOf(here[t].curr.ref, here[t].level).mark

(* A released node is off level 0. *)
Gone == \A t \in Threads : \A j \in DOMAIN released[t] : released[t][j] \notin Bottom

SetInv ==
    /\ Kept
    /\ MarksDescend
    /\ Gone
    /\ \A t \in Threads : CallFits(t) /\ Observes(t) /\ Leads(t)

-----------------------------------------------------------------------------
(* What is known of the list from the other invariants.                    *)
Sound == SkipListInv /\ OrderInv /\ OwnersDiffer /\ Sorted(list)

(* A node other than the tail has a pointer at level 0. *)
LEMMA BottomPointer ==
 ASSUME SkipListInv, NEW n \in Nodes
 PROVE  n # Tail_ => Inner(n, 0)
<1>1. list \in [Nodes -> Record] BY Types DEF SkipListInv, TypeOK, Record
<1>2. list[n].topLevel \in Levels BY <1>1 DEF Record
<1> QED BY <1>2, LevelBounds DEF Inner

(* Level 0 leads to larger keys. *)
LEMMA ListIsSorted ==
 ASSUME SkipListInv, OrderInv
 PROVE  Sorted(list)
<1>1. {Head_, Tail_} \subseteq Nodes /\ \A n \in Nodes : list[n].key \in Int
 BY KeysAreIntegers DEF SkipListInv, LevelsEnd
<1>2. ASSUME NEW n \in Nodes \ {Tail_}
      PROVE  NextIn(list, n) \in Nodes /\ list[n].key < list[NextIn(list, n)].key
 BY BottomPointer, PointersAreOrdered DEF Ordered, NextIn
<1> QED BY <1>1, <1>2 DEF Sorted, Nodes

(* The keys in the set are those of the nodes that are not removed.        *)
LEMMA ContentsArePresent ==
 ASSUME NEW l, Sorted(l),
        \A n \in DOMAIN l : ~l[n].next[0].mark => n \in Ahead(l, Head_)
 PROVE  Contents(l) = {k \in Keys : \E n \in DOMAIN l : l[n].key = k /\ ~l[n].next[0].mark}
<1>1. OnLevel(l, 0) = Ahead(l, Head_) BY DEF OnLevel, Ahead
<1>2. Ahead(l, Head_) \subseteq DOMAIN l BY AheadIsLeast DEF Sorted
<1>3. {n \in OnLevel(l, 0) : ~l[n].next[0].mark} = {n \in DOMAIN l : ~l[n].next[0].mark}
 BY <1>1, <1>2
<1> QED BY <1>3 DEF Contents

(* A node that is not removed: it is unmarked at some level. *)
LEMMA UnmarkedIsIn ==
 ASSUME MarksDescend, NEW n \in Nodes, NEW level \in Levels, Inner(n, level),
        ~NextOf(n, level).mark
 PROVE  In(n)
 BY DEF MarksDescend, NextOf

-----------------------------------------------------------------------------
(* What a step does to level 0. *)
Moves ==
    /\ Kept'
    /\ \A n \in Nodes : \A x \in Reach(n) : x \in Bottom' => x \in Reach(n)'
    /\ \A x \in Nodes : x \in Bottom' => x \in Bottom

(* A mark is never taken back. *)
LEMMA InBefore ==
 ASSUME ListKept, NEW n \in Nodes, In(n)'
 PROVE  In(n)
 BY LevelBounds DEF ListKept, Grows, In

(* A CAS changes one pointer and keeps the rest. *)
LEMMA SwingEffect ==
 ASSUME SkipListInv, NEW n \in Nodes, NEW level \in Levels, NEW ptr, SwingNext(n, level, ptr)
 PROVE  /\ Nodes' = Nodes
        /\ \A m \in Nodes : \A k \in Levels :
             list'[m].next[k] = IF m = n /\ k = level THEN ptr ELSE list[m].next[k]
<1>1. list \in [Nodes -> Record] BY DEF SkipListInv, TypeOK, Record
<1> QED BY <1>1 DEF SwingNext, Nodes, Record

(* Steps that leave the pointers of level 0 where they point. *)
LEMMA QuietMoves ==
 ASSUME SkipListInv, ListKept, Sorted(list), Sorted(list'), Kept, Nodes' = Nodes,
        \A n \in Nodes : NextIn(list', n) = NextIn(list, n)
 PROVE  Moves
<1>1. \A n \in Nodes : Reach(n)' = Reach(n) BY SameRefs DEF Reach, Nodes
<1>2. Head_ \in Nodes BY DEF SkipListInv, LevelsEnd
<1>3. Bottom' = Bottom BY <1>1, <1>2 DEF Bottom
<1>4. Kept' BY <1>3, InBefore DEF Kept
<1> QED BY <1>1, <1>3, <1>4 DEF Moves

(* The link of a node. *)
LEMMA LinkMoves ==
 ASSUME SkipListInv, ListKept, Sorted(list), Sorted(list'), Kept, NEW t \in Threads, Link(t)
 PROVE  /\ Moves
        /\ Nodes' = Nodes \cup {NewName(t)}
        /\ ~list'[NewName(t)].next[0].mark
        /\ list'[NewName(t)].key = call[t].key
        /\ preds[t][0] \in Nodes \ {Tail_} /\ In(preds[t][0])
        /\ NextIn(list, preds[t][0]) = succs[t][0]
<1> DEFINE new == NewName(t)
           p == preds[t][0]
           next == [i \in Levels |-> IF i <= height[t] THEN Plain(succs[t][i]) ELSE Null]
           rec == NodeRecord(call[t].key, height[t], next)
<1>1. /\ new \notin Nodes
      /\ list'[new].next[0] = NextOf(p, 0)
      /\ \A n \in Nodes, level \in Levels :
           list'[n].next[level] # list[n].next[level] =>
             /\ n = p /\ level = 0
             /\ list'[n].next[level] = Plain(new)
 BY LinkKeeps
<1>2. /\ pc[t] = "link"
      /\ NextOf(p, 0) = Plain(succs[t][0])
      /\ list' = AddNode(new, rec, [list EXCEPT ![p].next[0] = Plain(new)])
 BY DEF Link
<1>3. p \in Nodes \ {Tail_} /\ list \in [Nodes -> Record]
 BY <1>2, Types, LevelBounds DEF ThreadInv, Paths, PathAt, Inner
<1>4. Nodes' = Nodes \cup {new} /\ list'[new] = rec BY <1>1, <1>2, <1>3 DEF Nodes, AddNode
<1>5. list'[new].key = call[t].key BY <1>4 DEF NodeRecord
<1>6. list'[p].next[0] = Plain(new)
 <2> HIDE DEF new
 <2>1. p # new BY <1>1, <1>3
 <2>2. list'[p] = [list EXCEPT ![p].next[0] = Plain(new)][p] BY <1>2, <1>3, <2>1 DEF AddNode, Nodes
 <2> QED BY <1>3, <2>2, LevelBounds DEF Record
<1>7. /\ ~NextOf(p, 0).mark /\ NextOf(p, 0).ref = succs[t][0]
      /\ Plain(new).ref = new
 BY <1>2 DEF Plain, Ptr
<1> HIDE DEF new, p, next, rec
<1>8. ~list'[new].next[0].mark /\ In(p) /\ NextIn(list, p) = succs[t][0]
 BY <1>1, <1>7 DEF In, NextOf, NextIn
<1>9. /\ NextIn(list', p) = new /\ NextIn(list', new) = NextIn(list, p)
      /\ \A n \in Nodes \ {p} : NextIn(list', n) = NextIn(list, n)
 BY <1>1, <1>6, <1>7, LevelBounds DEF NextIn, NextOf
<1>10. \A n \in Nodes :
          /\ Ahead(list, n) \subseteq Ahead(list', n)
          /\ Ahead(list', n) \subseteq Ahead(list, n) \cup {new}
          /\ p \in Ahead(list, n) => new \in Ahead(list', n)
 BY <1>1, <1>3, <1>4, <1>9, Inserted DEF Nodes
<1>11. Head_ \in Nodes /\ p \in Bottom BY <1>3, <1>8 DEF SkipListInv, LevelsEnd, Kept
<1>12. Kept'
 <2>1. \A n \in Nodes : In(n)' => n \in Bottom' BY <1>10, <1>11, InBefore DEF Kept, Bottom, Reach
 <2>2. new \in Bottom' BY <1>10, <1>11 DEF Bottom, Reach
 <2> QED BY <1>4, <2>1, <2>2 DEF Kept
<1>13. Moves BY <1>1, <1>10, <1>11, <1>12 DEF Moves, Bottom, Reach
<1> QED BY <1>3, <1>4, <1>5, <1>8, <1>13 DEF new, p

(* The snip of a marked node. *)
LEMMA SnipMoves ==
 ASSUME SkipListInv, ListKept, Sorted(list), Sorted(list'), Kept,
        NEW t \in Threads, FindSnip(t), here[t].level = 0, NextOf(here[t].pred, 0) = here[t].curr
 PROVE  Moves
<1> DEFINE h == here[t]
           p == h.pred
           c == h.curr.ref
<1>1. /\ ~NextOf(p, 0).mark
      /\ NextOf(c, 0) = Mark(Unmark(h.succ))
      /\ SwingNext(p, 0, Unmark(h.succ))
 BY SnipSwings
<1>2. p \in Nodes \ {Tail_} /\ c \in Nodes \ {Tail_} /\ Head_ \in Nodes /\ 0 \in Levels
 BY Types, LevelBounds DEF FindSnip, ThreadInv, Walks, Finds, Inner, Linkable, LevelsEnd
<1>3. /\ Nodes' = Nodes
      /\ \A m \in Nodes : list'[m].next[0] = IF m = p THEN Unmark(h.succ) ELSE list[m].next[0]
 BY <1>1, <1>2, SwingEffect
<1>4. /\ NextIn(list, p) = c /\ NextIn(list', p) = NextIn(list, c)
      /\ \A m \in Nodes \ {p} : NextIn(list', m) = NextIn(list, m)
 BY <1>1, <1>2, <1>3 DEF NextIn, NextOf, Mark, Unmark, Ptr
<1>5. In(p) /\ ~In(c) /\ p # c BY <1>1, <1>2 DEF In, NextOf, Mark, Ptr
<1>6. \A n \in Nodes :
          /\ Ahead(list', n) \subseteq Ahead(list, n)
          /\ Ahead(list, n) \subseteq Ahead(list', n) \cup {c}
          /\ p \in Ahead(list, n) /\ n # c => c \notin Ahead(list', n)
 BY <1>2, <1>3, <1>4, CutOut DEF Nodes
<1>7. c # Head_
 <2>1. list[p].key < list[c].key /\ list[p].key \in Int /\ list[Head_].key = MinKey
  BY <1>2, <1>4, KeysAreIntegers DEF Sorted, Nodes, SkipListInv, LevelsEnd
 <2>2. list[p].key \in Keys \cup {MinKey, MaxKey} BY <1>2, Types DEF Record
 <2>3. MinKey \in Int /\ MinKey < MaxKey /\ \A k \in Keys : MinKey < k BY SkipListAssumption
 <2> QED BY <2>1, <2>2, <2>3
<1>8. p \in Bottom BY <1>2, <1>5 DEF Kept
<1>9. c \notin Bottom' BY <1>2, <1>6, <1>7, <1>8 DEF Bottom, Reach
<1>10. Kept'
 <2>1. ASSUME NEW n \in Nodes, In(n)' PROVE n \in Bottom'
  <3>1. In(n) /\ n \in Bottom BY <2>1, InBefore DEF Kept
  <3>2. n # c BY <1>5, <3>1
  <3> QED BY <1>2, <1>6, <3>1, <3>2 DEF Bottom, Reach
 <2> QED BY <1>3, <2>1 DEF Kept
<1> QED BY <1>2, <1>6, <1>9, <1>10 DEF Moves, Bottom, Reach

(* The steps that only the upper levels, or nothing, can tell. *)
LEMMA StepsMove ==
 ASSUME Sound, Sound', Kept, [Next]_vars
 PROVE  Moves
<1>1. SkipListInv /\ Sorted(list) /\ Sorted(list') /\ ListKept BY StepsGrow DEF Sound
<1>2. CASE UNCHANGED list BY <1>1, <1>2, QuietMoves DEF Nodes, NextIn
<1>3. ASSUME NEW n \in Nodes, NEW level \in Levels, NEW ptr, SwingNext(n, level, ptr),
             level = 0 => ptr.ref = list[n].next[0].ref
      PROVE  Moves
 <2>1. /\ Nodes' = Nodes
       /\ \A m \in Nodes : list'[m].next[0] =
            IF m = n /\ 0 = level THEN ptr ELSE list[m].next[0]
  BY <1>1, <1>3, SwingEffect, LevelBounds
 <2>2. \A m \in Nodes : NextIn(list', m) = NextIn(list, m) BY <1>3, <2>1 DEF NextIn
 <2> QED BY <1>1, <2>1, <2>2, QuietMoves
<1>4. ASSUME NEW t \in Threads, FindSnip(t) PROVE Moves
 <2> DEFINE h == here[t]
 <2>1. h.pred \in Nodes /\ h.level \in Levels
  BY <1>1, <1>4, Types DEF FindSnip, ThreadInv, Walks, Finds, Inner
 <2>2. CASE NextOf(h.pred, h.level) # h.curr BY <1>2, <1>4, <2>2 DEF FindSnip
 <2>3. CASE NextOf(h.pred, h.level) = h.curr /\ h.level = 0 BY <1>1, <1>4, <2>3, SnipMoves
 <2>4. CASE NextOf(h.pred, h.level) = h.curr /\ h.level # 0
  BY <1>1, <1>3, <1>4, <2>1, <2>4, SnipSwings
 <2> QED BY <2>2, <2>3, <2>4
<1>5. ASSUME NEW t \in Threads, LinkUpper(t) PROVE Moves
 <2>1. CASE NextOf(preds[t][here[t].level], here[t].level) = Plain(succs[t][here[t].level])
  BY <1>1, <1>3, <1>5, <2>1, LinkUpperSwings
 <2>2. CASE NextOf(preds[t][here[t].level], here[t].level) # Plain(succs[t][here[t].level])
  BY <1>2, <1>5, <2>2 DEF LinkUpper
 <2> QED BY <2>1, <2>2
<1>6. ASSUME NEW t \in Threads, MarkUpper(t) \/ MarkBottom(t) PROVE Moves
 <2>1. /\ pc[t] = "mark" /\ NextOf(victim[t], here[t].level) = here[t].succ
       /\ SwingNext(victim[t], here[t].level, Mark(here[t].succ))
  BY <1>6 DEF MarkUpper, MarkBottom
 <2>2. victim[t] \in Nodes /\ here[t].level \in Levels BY <1>1, <2>1, MarkSwings DEF Inner
 <2>3. here[t].level = 0 => Mark(here[t].succ).ref = list[victim[t]].next[0].ref
  BY <2>1 DEF NextOf, Mark, Ptr
 <2> QED BY <1>3, <2>1, <2>2, <2>3
<1>7. ASSUME NEW t \in Threads, Step(t) PROVE Moves
 BY <1>1, <1>2, <1>4, <1>5, <1>6, <1>7, OnlyCasesChange, LinkMoves
<1> QED BY <1>2, <1>7 DEF Next, Start, vars

(* New nodes come with the link. *)
LEMMA OnlyLinkAdds ==
 ASSUME SkipListInv, [Next]_vars, Nodes' # Nodes
 PROVE  \E t \in Threads : Link(t)
<1>1. list' # list BY DEF Nodes
<1>2. ASSUME NEW t \in Threads, FindSnip(t) \/ LinkUpper(t) \/ MarkUpper(t) \/ MarkBottom(t)
      PROVE  FALSE
 <2>1. \E n, level, ptr : SwingNext(n, level, ptr)
  BY <1>1, <1>2 DEF FindSnip, LinkUpper, MarkUpper, MarkBottom
 <2>2. DOMAIN list' = DOMAIN list BY <2>1 DEF SwingNext
 <2> QED BY <2>2 DEF Nodes
<1>3. ASSUME NEW t \in Threads, Step(t) PROVE Link(t) BY <1>1, <1>2, <1>3, OnlyCasesChange
<1> QED BY <1>1, <1>3 DEF Next, Start, vars

(* Nodes are marked from the top down, and are not marked when they come.  *)
LEMMA MarksGoDown ==
 ASSUME Sound, Sound', Kept, MarksDescend, [Next]_vars
 PROVE  MarksDescend'
<1>1. /\ SkipListInv /\ ListKept /\ ListStep /\ Nodes \subseteq Nodes'
      /\ list \in [Nodes -> Record]
 BY StepsGrow, EveryStepFollows DEF Sound, ListKept, Grows, SkipListInv, TypeOK, Record
<1> SUFFICES ASSUME NEW n \in Nodes', NEW level \in Levels, Inner(n, level)', ~In(n)'
             PROVE  list'[n].next[level].mark
 BY DEF MarksDescend
<1>2. CASE n \notin Nodes
 <2>1. PICK t \in Threads : Link(t) BY <1>1, <1>2, OnlyLinkAdds
 <2>2. Nodes' = Nodes \cup {NewName(t)} /\ ~list'[NewName(t)].next[0].mark
  BY <1>1, <2>1, LinkMoves DEF Sound
 <2> QED BY <1>2, <2>2 DEF In
<1>3. CASE n \in Nodes
 <2>1. n # Tail_ /\ Inner(n, level) /\ list'[n].topLevel = list[n].topLevel
  BY <1>1, <1>3 DEF Inner, ListKept, Grows
 <2>2. CASE ~In(n)
  <3>1. list[n].next[level].mark BY <1>3, <2>1, <2>2 DEF MarksDescend
  <3> QED BY <1>1, <1>3, <3>1 DEF ListKept, Grows
 <2>3. CASE In(n)
  <3>1. PointerChanges(n, 0) /\ list'[n].next[0].mark BY <2>3 DEF PointerChanges, In
  <3>2. \A upper \in 0 + 1 .. list[n].topLevel : list[n].next[upper].mark
   BY <1>1, <1>3, <3>1, LevelBounds DEF ListStep, StepAt, NextStep
  <3>3. CASE level = 0 BY <3>1, <3>3
  <3>4. CASE level # 0
   <4>1. level \in Nat /\ level <= list[n].topLevel /\ list[n].topLevel \in Nat
    BY <1>1, <1>3, <2>1, LevelBounds DEF Inner, Record
   <4>2. level \in 0 + 1 .. list[n].topLevel BY <3>4, <4>1
   <4>3. list[n].next[level].mark BY <3>2, <4>2
   <4> QED BY <1>1, <1>3, <4>3 DEF ListKept, Grows
  <3> QED BY <3>3, <3>4
 <2> QED BY <2>2, <2>3
<1> QED BY <1>2, <1>3

-----------------------------------------------------------------------------
(* What a step does to the set. *)
LEMMA ContentsNow ==
 ASSUME Sound, Kept
 PROVE  Contents(list) = {k \in Keys : \E n \in Nodes : list[n].key = k /\ In(n)}
<1>1. \A n \in DOMAIN list : ~list[n].next[0].mark => n \in Ahead(list, Head_)
 BY DEF Kept, In, Bottom, Reach, Nodes
<1>2. Sorted(list) BY DEF Sound
<1> QED BY <1>1, <1>2, ContentsArePresent DEF In, Nodes

(* The same after the step. *)
LEMMA ContentsThen ==
 ASSUME Sound', Kept'
 PROVE  Contents(list') = {k \in Keys : \E n \in Nodes' : list'[n].key = k /\ In(n)'}
<1>1. \A n \in DOMAIN list' : ~list'[n].next[0].mark => n \in Ahead(list', Head_)
 BY DEF Kept, In, Bottom, Reach, Nodes
<1>2. Sorted(list') BY DEF Sound
<1> QED BY <1>1, <1>2, ContentsArePresent DEF In, Nodes

(* A node of the list is alone with its key. *)
LEMMA KeyIsUnique ==
 ASSUME Sound, Kept, NEW n \in Nodes, NEW m \in Nodes, In(n), In(m),
        list[n].key = list[m].key
 PROVE  n = m
<1>1. Head_ \in DOMAIN list /\ Sorted(list) /\ list[n].key \in Int BY DEF Sound, Sorted, Nodes
<1>2. n \in Ahead(list, Head_) /\ m \in Ahead(list, Head_) /\ list[n].key <= list[m].key
 BY <1>1 DEF Kept, Bottom, Reach
<1> QED BY <1>1, <1>2, AheadByKey

(* A link adds its key, which was not there. *)
LEMMA LinkAdds ==
 ASSUME Sound, Sound', Kept, NEW t \in Threads, Link(t)
 PROVE  /\ Kept'
        /\ call[t].key \in Keys
        /\ call[t].key \notin Contents(list)
        /\ Contents(list') = Contents(list) \cup {call[t].key}
        /\ \A x \in Nodes' \ Nodes : list'[x].key = call[t].key
<1> DEFINE new == NewName(t)
           p == preds[t][0]
           s == succs[t][0]
           k == call[t].key
<1>1. /\ SkipListInv /\ OrderInv /\ Sorted(list) /\ Sorted(list') /\ ListKept /\ pc[t] = "link"
 BY LinkKeeps DEF Sound, Link
<1>2. /\ Kept' /\ Nodes' = Nodes \cup {new} /\ ~list'[new].next[0].mark
      /\ list'[new].key = k /\ p \in Nodes \ {Tail_} /\ In(p) /\ NextIn(list, p) = s
 BY <1>1, LinkMoves DEF Moves
<1>3. new \notin Nodes BY <1>1, LinkKeeps
<1> HIDE DEF new
<1>4. k \in Keys /\ k \in Int /\ list[p].key < k /\ k < list[s].key
 BY <1>1, KeysAreIntegers, LevelBounds DEF OrderInv, KeysFit, KeysAt
<1>5. /\ s \in Nodes /\ Head_ \in Nodes
      /\ \A n \in Nodes : list[n].key \in Int
      /\ \A n \in Nodes : In(n) => n \in Ahead(list, Head_)
 BY <1>1, <1>2 DEF Sorted, Nodes, Kept, Bottom, Reach
<1>6. k \notin Contents(list)
 <2> SUFFICES ASSUME NEW n \in Nodes, In(n), list[n].key = k PROVE FALSE BY <1>4, ContentsNow
 <2>1. list[p].key <= list[n].key /\ p # n BY <1>2, <1>4, <1>5
 <2>2. n \in Ahead(list, s) BY <1>1, <1>2, <1>5, <2>1, AheadByKey DEF Nodes
 <2>3. n # s => list[s].key < list[n].key BY <1>1, <1>5, <2>2, AheadIsLarger DEF Nodes
 <2> QED BY <1>4, <1>5, <2>3
<1>7. \A n \in Nodes : list'[n].key = list[n].key /\ (In(n)' <=> In(n))
 <2>1. \A n \in Nodes : list'[n].key = list[n].key /\ (In(n)' => In(n))
  BY <1>1, InBefore DEF ListKept, Grows
 <2>2. \A n \in Nodes : list'[n].next[0] # list[n].next[0] => list'[n].next[0] = Plain(NewName(t))
  BY <1>1, LinkKeeps, LevelBounds
 <2>3. ~Plain(NewName(t)).mark BY DEF Plain, Ptr
 <2>4. ASSUME NEW n \in Nodes, In(n) PROVE In(n)'
  <3>1. CASE list'[n].next[0] = list[n].next[0] BY <2>4, <3>1 DEF In
  <3>2. CASE list'[n].next[0] = Plain(NewName(t)) BY <2>3, <3>2 DEF In
  <3> QED BY <2>2, <3>1, <3>2
 <2> QED BY <2>1, <2>4
<1>8. Contents(list') = Contents(list) \cup {k}
 <2>1. Contents(list') = {q \in Keys : \E n \in Nodes' : list'[n].key = q /\ In(n)'}
  BY <1>2, ContentsThen
 <2>2. Contents(list) = {q \in Keys : \E n \in Nodes : list[n].key = q /\ In(n)} BY ContentsNow
 <2>3. \A n \in Nodes' :
         \/ (list'[n].key = k /\ n = new /\ In(n)')
         \/ (n \in Nodes /\ list'[n].key = list[n].key /\ (In(n)' <=> In(n)))
  BY <1>2, <1>7 DEF In
 <2>4. list'[new].key = k /\ ~list'[new].next[0].mark /\ new \in Nodes' BY <1>2
 <2>5. \A q \in Keys :
         (\E n \in Nodes' : list'[n].key = q /\ In(n)')
           <=> (q = k \/ \E n \in Nodes : list[n].key = q /\ In(n))
  <3>1. \A q \in Keys : (\E n \in Nodes' : list'[n].key = q /\ In(n)')
            => (q = k \/ \E n \in Nodes : list[n].key = q /\ In(n))
   BY <2>3
  <3>2. (\E n \in Nodes' : list'[n].key = k /\ In(n)') BY <2>4 DEF In
  <3>3. \A n \in Nodes : n \in Nodes' /\ list'[n].key = list[n].key /\ (In(n)' <=> In(n))
   BY <1>2, <1>7
  <3>4. \A q \in Keys : (\E n \in Nodes : list[n].key = q /\ In(n))
            => \E n \in Nodes' : list'[n].key = q /\ In(n)'
   BY <3>3
  <3> QED BY <3>1, <3>2, <3>4
 <2> QED BY <1>4, <2>1, <2>2, <2>5
<1> QED BY <1>2, <1>3, <1>4, <1>6, <1>8

(* The mark at level 0 removes its key, which was there once. *)
LEMMA MarkRemoves ==
 ASSUME Sound, Sound', Kept, Kept', NEW t \in Threads, CallFits(t), MarkBottom(t)
 PROVE  /\ call[t].key \in Contents(list)
        /\ Contents(list') = Contents(list) \ {call[t].key}
        /\ Nodes' = Nodes
<1> DEFINE v == victim[t]
           k == call[t].key
<1>1. /\ SkipListInv /\ pc[t] = "mark" /\ here[t].level = 0
      /\ NextOf(v, 0) = here[t].succ
      /\ SwingNext(v, 0, Mark(here[t].succ))
 BY DEF Sound, MarkBottom
<1>2. ListKept /\ Inner(v, 0) /\ ~NextOf(v, 0).mark BY <1>1, MarkSwings
<1>3. v \in Nodes /\ In(v) /\ list[v].key = k BY <1>1, <1>2 DEF Inner, In, NextOf, CallFits
<1>4. k \in Keys BY <1>1, Types
<1>5. /\ Nodes' = Nodes
      /\ \A n \in Nodes : list'[n].next[0] =
           IF n = v THEN Mark(here[t].succ) ELSE list[n].next[0]
      /\ \A n \in Nodes : list'[n].key = list[n].key
 BY <1>1, <1>2, <1>3, SwingEffect, LevelBounds DEF ListKept, Grows
<1>6. \A n \in Nodes : In(n)' <=> (In(n) /\ n # v) BY <1>5 DEF In, Mark, Ptr
<1>7. \A n \in Nodes : In(n) /\ list[n].key = k => n = v BY <1>3, KeyIsUnique
<1>8. Contents(list) = {q \in Keys : \E n \in Nodes : list[n].key = q /\ In(n)} BY ContentsNow
<1>9. Contents(list') = {q \in Keys : \E n \in Nodes : list[n].key = q /\ In(n) /\ n # v}
 BY <1>5, <1>6, ContentsThen
<1> QED BY <1>3, <1>4, <1>5, <1>7, <1>8, <1>9

(* No other step changes the set. *)
LEMMA OthersKeepContents ==
 ASSUME Sound, Sound', Kept, [Next]_vars,
        \A t \in Threads : ~Link(t) /\ ~MarkBottom(t)
 PROVE  Nodes' = Nodes /\ Contents(list') = Contents(list)
<1>1. SkipListInv /\ ListKept /\ Kept' /\ Nodes' = Nodes
 BY StepsGrow, StepsMove, OnlyLinkAdds DEF Sound, Moves
<1>2. CASE UNCHANGED list BY <1>1, <1>2
<1>3. ASSUME \A n \in Nodes : In(n) => In(n)'
      PROVE  Contents(list') = Contents(list)
 <2>1. \A n \in Nodes : list'[n].key = list[n].key /\ (In(n)' <=> In(n))
  BY <1>1, <1>3, InBefore DEF ListKept, Grows
 <2> QED BY <1>1, <2>1, ContentsNow, ContentsThen
<1>4. ASSUME NEW n \in Nodes, NEW level \in Levels, NEW ptr, SwingNext(n, level, ptr),
             level = 0 => ~ptr.mark
      PROVE  Contents(list') = Contents(list)
 <2>1. \A m \in Nodes : list'[m].next[0] =
          IF m = n /\ 0 = level THEN ptr ELSE list[m].next[0]
  BY <1>1, <1>4, SwingEffect, LevelBounds
 <2> QED BY <1>3, <1>4, <2>1 DEF In
<1>5. ASSUME NEW t \in Threads, FindSnip(t) PROVE Contents(list') = Contents(list)
 <2> DEFINE h == here[t]
 <2>1. h.pred \in Nodes /\ h.level \in Levels /\ ~Unmark(h.succ).mark
  BY <1>1, <1>5, Types DEF FindSnip, ThreadInv, Walks, Finds, Inner, Unmark, Ptr
 <2>2. CASE NextOf(h.pred, h.level) # h.curr BY <1>2, <1>5, <2>2 DEF FindSnip
 <2>3. CASE NextOf(h.pred, h.level) = h.curr BY <1>1, <1>4, <1>5, <2>1, <2>3, SnipSwings
 <2> QED BY <2>2, <2>3
<1>6. ASSUME NEW t \in Threads, LinkUpper(t) PROVE Contents(list') = Contents(list)
 <2>1. CASE NextOf(preds[t][here[t].level], here[t].level) = Plain(succs[t][here[t].level])
  BY <1>1, <1>4, <1>6, <2>1, LinkUpperSwings
 <2>2. CASE NextOf(preds[t][here[t].level], here[t].level) # Plain(succs[t][here[t].level])
  BY <1>2, <1>6, <2>2 DEF LinkUpper
 <2> QED BY <2>1, <2>2
<1>7. ASSUME NEW t \in Threads, MarkUpper(t) PROVE Contents(list') = Contents(list)
 <2>1. /\ pc[t] = "mark" /\ NextOf(victim[t], here[t].level) = here[t].succ
       /\ SwingNext(victim[t], here[t].level, Mark(here[t].succ))
       /\ here[t].level # 0
  BY <1>1, <1>7, LevelBounds DEF MarkUpper
 <2>2. victim[t] \in Nodes /\ here[t].level \in Levels BY <1>1, <2>1, MarkSwings DEF Inner
 <2> QED BY <1>4, <2>1, <2>2
<1>8. ASSUME NEW t \in Threads, Step(t) PROVE Contents(list') = Contents(list)
 BY <1>2, <1>5, <1>6, <1>7, <1>8, OnlyCasesChange
<1> QED BY <1>1, <1>2, <1>8 DEF Next, Start, vars

-----------------------------------------------------------------------------
(* What the other threads hear of a step. *)
Hears(u) ==
    \/ (answers'[u] = answers[u] /\ Contents(list') = Contents(list))
    \/ answers'[u] = IF Abstract!Applied(call[u], answers[u]) THEN answers[u]
                     ELSE answers[u] \cup Abstract!Observed(call[u], Contents(list'))

NewAreAbsent == \A x \in Nodes' \ Nodes : list'[x].key \notin Contents(list)

(* What the calls observe. *)
LEMMA AddObserves ==
 ASSUME NEW c, NEW S, c.op = "add"
 PROVE  Abstract!Observed(c, S) = IF c.key \in S THEN {FALSE} ELSE {}
 BY DEF Abstract!Observed

(* An add or a remove that has not changed the set observes no TRUE.       *)
LEMMA RemoveObserves ==
 ASSUME NEW c, NEW S, c.op = "remove"
 PROVE  Abstract!Observed(c, S) = IF c.key \in S THEN {} ELSE {FALSE}
 BY DEF Abstract!Observed

(* A contains observes one answer in every set. *)
LEMMA ContainsObserves ==
 ASSUME NEW c, NEW S, c.op = "contains"
 PROVE  /\ c.key \in S => Abstract!Observed(c, S) = {TRUE}
        /\ c.key \notin S => Abstract!Observed(c, S) = {FALSE}
<1>1. Abstract!Observed(c, S) = {c.key \in S} BY DEF Abstract!Observed
<1>2. CASE c.key \in S
 <2>1. (c.key \in S) = TRUE BY <1>2
 <2> QED BY <1>1, <1>2, <2>1
<1>3. CASE c.key \notin S
 <2>1. (c.key \in S) = FALSE BY <1>3
 <2> QED BY <1>1, <1>3, <2>1
<1> QED BY <1>2, <1>3

(* A thread stays where it is in its call while another one steps.         *)
LEMMA CallFitsStays ==
 ASSUME SkipListInv, ListKept, NEW u \in Threads, CallFits(u), Hears(u),
        UNCHANGED <<pc[u], job[u], victim[u], call[u]>>
 PROVE  CallFits(u)'
<1>1. \A op \in {"add", "remove"} : Pending(u, op) => Pending(u, op)'
 <2> SUFFICES ASSUME NEW op \in {"add", "remove"}, Pending(u, op) PROVE Pending(u, op)' OBVIOUS
 <2>1. call[u].op = op /\ TRUE \notin answers[u] BY DEF Pending
 <2>2. TRUE \notin Abstract!Observed(call[u], Contents(list'))
  <3>1. CASE op = "add" BY <2>1, <3>1, AddObserves
  <3>2. CASE op = "remove" BY <2>1, <3>2, RemoveObserves
  <3> QED BY <3>1, <3>2
 <2>3. TRUE \notin answers'[u] BY <2>1, <2>2 DEF Hears
 <2> QED BY <2>1, <2>3 DEF Pending
<1>2. \A op \in {"add", "remove"} : Done(u, op) => Done(u, op)' BY DEF Done, Hears, Abstract!Applied
<1>3. pc[u] \in {"readMark", "mark"} \/ Snips(u) => list'[victim[u]].key = list[victim[u]].key
 BY Types DEF ThreadInv, Marks, Snips, ListKept, Grows
<1> QED BY <1>1, <1>2, <1>3 DEF CallFits, Finds, Scans, FindsFor, Snips

(* It has heard every answer that the set gives. *)
LEMMA ObservesStays ==
 ASSUME NEW u \in Threads, Observes(u), Hears(u), UNCHANGED <<pc[u], call[u]>>
 PROVE  Observes(u)'
<1> SUFFICES ASSUME pc'[u] # "idle", ~Abstract!Applied(call'[u], answers'[u])
             PROVE  Abstract!Observed(call'[u], Contents(list')) \subseteq answers'[u]
 BY DEF Observes, Abstract!Applied, Abstract!Observed
<1>1. CASE answers'[u] = answers[u] /\ Contents(list') = Contents(list) BY <1>1 DEF Observes
<1>2. CASE answers'[u] = IF Abstract!Applied(call[u], answers[u]) THEN answers[u]
                         ELSE answers[u] \cup Abstract!Observed(call[u], Contents(list'))
 BY <1>2
<1> QED BY <1>1, <1>2 DEF Hears

(* What a search looks for is what it looked for before, and still there.  *)
LEMMA SoughtBefore ==
 ASSUME Sound, Sound', SetInv, ListKept, Moves, NewAreAbsent,
        NEW u \in Threads, Seeks(u), Hears(u), Snips(u)' <=> Snips(u),
        UNCHANGED <<victim[u], call[u]>>,
        NEW x \in Nodes', Sought(u, x)'
 PROVE  x \in Nodes /\ Sought(u, x) /\ x \in Bottom'
<1>1. /\ SkipListInv /\ CallFits(u) /\ Observes(u)
      /\ pc[u] # "idle"
 BY DEF Sound, SetInv, Seeks, Scans, Snips, FindsFor, Finds
<1>2. answers[u] \subseteq answers'[u] BY DEF Hears
<1>3. CASE Snips(u)
 <2>1. x = victim[u] /\ x \in Bottom' /\ x \in Nodes
  BY <1>1, <1>3, Types DEF Sought, ThreadInv, Marks, Snips
 <2> QED BY <1>3, <2>1 DEF Sought, Moves
<1>4. CASE ~Snips(u)
 <2>1. FALSE \notin answers'[u] /\ In(x)' /\ list'[x].key = call[u].key BY <1>1, <1>4 DEF Sought
 <2>2. x \in Bottom' BY <2>1 DEF Moves, Kept
 <2>3. call[u].op \in {"remove", "contains"} /\ ~Abstract!Applied(call[u], answers[u])
  BY <1>1, <1>4 DEF CallFits, Seeks, Pending, Abstract!Applied
 <2>4. call[u].key \in Contents(list)
  <3> SUFFICES ASSUME call[u].key \notin Contents(list) PROVE FALSE OBVIOUS
  <3>1. FALSE \in Abstract!Observed(call[u], Contents(list))
   <4>1. CASE call[u].op = "remove" BY <4>1, RemoveObserves
   <4>2. CASE call[u].op = "contains" BY <4>2, ContainsObserves
   <4> QED BY <2>3, <4>1, <4>2
  <3> QED BY <1>1, <1>2, <2>1, <2>3, <3>1 DEF Observes
 <2>5. x \in Nodes BY <2>1, <2>4 DEF NewAreAbsent
 <2>6. In(x) /\ list[x].key = call[u].key BY <2>1, <2>5, InBefore DEF ListKept, Grows
 <2>7. Sought(u, x) BY <1>2, <1>4, <2>1, <2>6 DEF Sought
 <2> QED BY <2>2, <2>5, <2>7
<1> QED BY <1>3, <1>4

(* What it looks for is still ahead. *)
LEMMA LeadsStays ==
 ASSUME Sound, Sound', SetInv, ListKept, Moves, NewAreAbsent, NEW u \in Threads, Hears(u),
        UNCHANGED <<pc[u], here[u], job[u], victim[u], call[u]>>
 PROVE  Leads(u)'
<1> DEFINE h == here[u]
<1>1. SkipListInv /\ Leads(u) BY DEF Sound, SetInv
<1>2. /\ Seeks(u) => h.pred \in Nodes
      /\ pc[u] \in {"findSucc", "scanSucc", "scanSkip"} => h.curr.ref \in Nodes
 BY <1>1, Types DEF ThreadInv, Walks, Inner, Linkable, Seeks, Snips, FindsFor
<1>3. ASSUME Seeks(u)', NEW x \in Nodes', Sought(u, x)'
      PROVE  /\ x \in Reach(h.pred)'
             /\ pc[u] \in {"findSucc", "scanSucc", "scanSkip"} /\ h.level = 0 =>
                  x \in Reach(h.curr.ref)'
 <2>1. Seeks(u) /\ (Snips(u)' <=> Snips(u)) BY <1>3 DEF Seeks, Scans, Snips, FindsFor, Finds
 <2>2. x \in Nodes /\ Sought(u, x) /\ x \in Bottom' BY <1>3, <2>1, SoughtBefore
 <2>3. /\ x \in Reach(h.pred)
       /\ pc[u] \in {"findSucc", "scanSucc", "scanSkip"} /\ h.level = 0 =>
            x \in Reach(h.curr.ref)
  BY <1>1, <2>1, <2>2 DEF Leads
 <2>4. \A n \in Nodes : x \in Reach(n) => x \in Reach(n)' BY <2>2 DEF Moves
 <2>5. x \in Reach(h.pred)' BY <1>2, <2>1, <2>3, <2>4 DEF Reach
 <2> QED BY <1>2, <2>3, <2>4, <2>5 DEF Reach
<1>4. Scans(u)' => list'[h.pred].key < call[u].key
 <2>1. Scans(u) => h.pred \in Nodes BY <1>1, Types DEF ThreadInv, Walks, Inner
 <2> QED BY <1>1, <2>1 DEF Leads, Scans, ListKept, Grows
<1>5. pc[u] = "scanSkip" => list'[h.curr.ref].next[h.level].mark
 <2>1. pc[u] = "scanSkip" => h.curr.ref \in Nodes /\ h.level \in Levels
  BY <1>1, Types DEF ThreadInv, Walks, Scans, Inner, Linkable
 <2> QED BY <1>1, <2>1 DEF Leads, NextOf, ListKept, Grows
<1> QED BY <1>3, <1>4, <1>5 DEF Leads, NextOf, Reach

(* The other threads. *)
LEMMA OthersStay ==
 ASSUME Sound, Sound', SetInv, ListKept, Moves, NewAreAbsent, NEW t \in Threads, Acts(t),
        NEW u \in Threads \ {t}, call'[u] = call[u], Hears(u)
 PROVE  CallFits(u)' /\ Observes(u)' /\ Leads(u)'
<1>1. UNCHANGED <<pc[u], here[u], job[u], victim[u], call[u]>>
 BY DEF Acts, Sound, SkipListInv, TypeOK
<1>2. SkipListInv /\ CallFits(u) /\ Observes(u) BY DEF Sound, SetInv
<1> QED BY <1>1, <1>2, CallFitsStays, ObservesStays, LeadsStays

(* All that a step starts from. *)
Steady == Sound /\ Sound' /\ SetInv /\ ListKept /\ Moves /\ MarksDescend'

(* Every step does. *)
LEMMA StepsAreSteady ==
 ASSUME Sound, Sound', SetInv, [Next]_vars
 PROVE  Steady
<1>1. SkipListInv /\ Kept /\ MarksDescend BY DEF Sound, SetInv
<1> QED BY <1>1, StepsGrow, StepsMove, MarksGoDown DEF Steady

(* A released node stays off level 0. *)
LEMMA GoneStays ==
 ASSUME Steady, UNCHANGED released
 PROVE  Gone'
<1>1. \A t \in Threads : \A j \in DOMAIN released[t] : released[t][j] \in Nodes
 BY DEF Steady, Sound, SkipListInv, TypeOK
<1>2. \A t \in Threads : \A j \in DOMAIN released[t] : released[t][j] \notin Bottom
 BY DEF Steady, SetInv, Gone
<1>3. \A x \in Nodes : x \notin Bottom => x \notin Bottom' BY DEF Steady, Moves
<1>4. \A t \in Threads : \A j \in DOMAIN released[t] : released[t][j] \notin Bottom'
 BY <1>1, <1>2, <1>3
<1> QED BY <1>4 DEF Gone

(* One thread steps, and the others hear of it. *)
LEMMA SetKept ==
 ASSUME Steady, NewAreAbsent, Gone', NEW t \in Threads, Acts(t),
        \A u \in Threads \ {t} : call'[u] = call[u] /\ Hears(u),
        CallFits(t)', Observes(t)', Leads(t)'
 PROVE  SetInv'
<1>1. Sound /\ Sound' /\ SetInv /\ ListKept /\ Moves /\ MarksDescend' BY DEF Steady
<1>2. \A u \in Threads \ {t} : CallFits(u)' /\ Observes(u)' /\ Leads(u)' BY <1>1, OthersStay
<1> QED BY <1>1, <1>2 DEF SetInv, Moves

(* The steps that leave the set alone. *)
LEMMA QuietContents ==
 ASSUME Steady, [Next]_vars, NEW t \in Threads, Acts(t), ~Link(t), ~MarkBottom(t)
 PROVE  Nodes' = Nodes /\ Contents(list') = Contents(list)
<1>1. Sound /\ Sound' /\ Kept /\ pc \in [Threads -> Labels]
 BY DEF Steady, SetInv, Sound, SkipListInv, TypeOK
<1>2. \A u \in Threads \ {t} : pc'[u] = pc[u] BY <1>1 DEF Acts
<1>3. ASSUME NEW u \in Threads, Link(u) \/ MarkBottom(u) PROVE u = t
 <2>1. pc'[u] # pc[u] BY <1>1, <1>3 DEF Link, MarkBottom, Find, GoTo
 <2> QED BY <1>2, <2>1
<1> QED BY <1>1, <1>3, OthersKeepContents

(* They keep the invariant when their own thread does. *)
LEMMA QuietKeeps ==
 ASSUME Steady, [Next]_vars, NEW t \in Threads, Acts(t), ~Link(t), ~MarkBottom(t), Gone',
        \A u \in Threads \ {t} : call'[u] = call[u] /\ answers'[u] = answers[u],
        CallFits(t)', Observes(t)', Leads(t)'
 PROVE  SetInv'
<1>1. Nodes' = Nodes /\ Contents(list') = Contents(list) BY QuietContents
<1>2. NewAreAbsent BY <1>1 DEF NewAreAbsent
<1>3. \A u \in Threads \ {t} : call'[u] = call[u] /\ Hears(u) BY <1>1 DEF Hears
<1> QED BY <1>2, <1>3, SetKept

(* The steps in the middle of a call. *)
LEMMA PlainKeeps ==
 ASSUME Steady, [Next]_vars, NEW t \in Threads, Step(t),
        ~Link(t), ~MarkBottom(t), ~RemoveReturns(t), pc[t] # "idle",
        UNCHANGED <<call, answers>>,
        CallFits(t)', Leads(t)'
 PROVE  SetInv'
<1>1. Acts(t) /\ UNCHANGED released BY QuietStepsAreNeutral DEF Steady, Sound
<1>2. Gone' BY <1>1, GoneStays
<1>3. Contents(list') = Contents(list) BY <1>1, QuietContents
<1>4. Observes(t)' BY <1>3 DEF Observes, Steady, SetInv, Abstract!Applied, Abstract!Observed
<1> QED BY <1>1, <1>2, <1>4, QuietKeeps

-----------------------------------------------------------------------------
(* What a thread knows of its call in the middle of a phase. *)
LEMMA SamePhase ==
 ASSUME Steady, NEW t \in Threads, UNCHANGED <<call, answers, victim>>,
        \/ Finds(t) /\ Finds(t)' /\ job'[t] = job[t]
        \/ Scans(t) /\ Scans(t)'
        \/ pc[t] \in {"readMark", "mark"} /\ pc'[t] \in {"readMark", "mark"}
        \/ pc[t] = "linkUpper" /\ pc'[t] = "linkUpper"
 PROVE  CallFits(t)'
<1>1. SkipListInv /\ CallFits(t) BY DEF Steady, Sound, SetInv
<1>2. pc[t] \in {"readMark", "mark"} \/ Snips(t) => list'[victim[t]].key = list[victim[t]].key
 BY <1>1, Types DEF ThreadInv, Marks, Snips, Steady, ListKept, Grows
<1> QED BY <1>1, <1>2 DEF CallFits, Finds, Scans, FindsFor, Snips, Pending, Done

(* A find or a scan starts, or starts over, at the head. *)
LEMMA TopLeads ==
 ASSUME Steady, NEW t \in Threads, pc'[t] \in {"findCurr", "scanCurr"}, here'[t] = Top,
        call'[t].key \in Keys
 PROVE  Leads(t)'
<1>1. Top.pred = Head_ BY DEF Top, Nowhere
<1>2. list'[Head_].key = MinKey /\ Kept' BY DEF Steady, Moves, ListKept, LevelsEnd
<1>3. list'[Head_].key < call'[t].key BY <1>2, SkipListAssumption
<1>4. ASSUME NEW x \in Nodes', Sought(t, x)' PROVE x \in Bottom' BY <1>2, <1>4 DEF Sought, Kept
<1>5. \A x \in Nodes' : Sought(t, x)' => x \in Reach(here[t].pred)' BY <1>1, <1>4 DEF Bottom, Reach
<1> QED BY <1>1, <1>3, <1>5 DEF Leads

(* A phase that searches for nothing. *)
LEMMA NoSearch ==
 ASSUME NEW t \in Threads, ~Seeks(t)'
 PROVE  Leads(t)'
 BY DEF Leads, Seeks, Scans

(* A search goes on to a place that what it looks for is ahead of. *)
LEMMA SearchGoes ==
 ASSUME Steady, NewAreAbsent, NEW t \in Threads, Hears(t), Seeks(t),
        Snips(t)' <=> Snips(t), UNCHANGED <<victim[t], call[t]>>,
        NEW p \in Nodes, here'[t].pred = p,
        \A x \in Nodes : Sought(t, x) => x \in Reach(p),
        NEW c, here'[t].curr.ref = c,
        pc'[t] \in {"findSucc", "scanSucc", "scanSkip"} /\ here'[t].level = 0 =>
          c \in Nodes /\ \A x \in Nodes : Sought(t, x) => x \in Reach(c),
        Scans(t)' => list[p].key < call[t].key,
        pc'[t] = "scanSkip" => list'[c].next[here'[t].level].mark
 PROVE  Leads(t)'
<1>1. Sound /\ Sound' /\ SetInv /\ ListKept /\ Moves BY DEF Steady
<1>2. \A x \in Nodes' : Sought(t, x)' => x \in Nodes /\ Sought(t, x) /\ x \in Bottom'
 BY <1>1, SoughtBefore
<1>3. \A n \in Nodes : \A x \in Reach(n) : x \in Bottom' => x \in Reach(n)' BY <1>1 DEF Moves
<1>4. \A x \in Nodes' : Sought(t, x)' =>
        /\ x \in Ahead(list', p)
        /\ pc'[t] \in {"findSucc", "scanSucc", "scanSkip"} /\ here'[t].level = 0 =>
             x \in Ahead(list', c)
 BY <1>2, <1>3 DEF Reach
<1>5. Scans(t)' => list'[p].key < call'[t].key BY <1>1 DEF ListKept, Grows
<1> QED BY <1>4, <1>5 DEF Leads, NextOf, Reach

(* What a search looks for has the key of the call. *)
LEMMA SoughtKey ==
 ASSUME Steady, NEW t \in Threads, Seeks(t), NEW x \in Nodes, Sought(t, x)
 PROVE  /\ list[x].key = call[t].key /\ x \in Bottom
        /\ call[t].key \in Keys /\ call[t].key \in Int /\ list[x].key \in Int
<1>1. SkipListInv /\ CallFits(t) /\ Kept /\ pc[t] # "idle"
 BY DEF Steady, Sound, SetInv, Seeks, Scans, Snips, FindsFor, Finds
<1>2. list[x].key = call[t].key /\ x \in Bottom BY <1>1 DEF Sought, CallFits, Kept
<1> QED BY <1>1, <1>2, KeysAreIntegers

(* It is behind a node of a smaller key, and behind the next one too.      *)
LEMMA BehindPred ==
 ASSUME Steady, NEW t \in Threads, Seeks(t), NEW x \in Nodes, Sought(t, x),
        NEW p \in Nodes, list[p].key < call[t].key, x \in Reach(p)
 PROVE  x \in Reach(NextIn(list, p))
<1>1. x # p /\ Sorted(list) BY SoughtKey DEF Steady, Sound
<1> QED BY <1>1, AheadUnfolds DEF Reach, Nodes

(* It is behind every node of a smaller key that is in the set. *)
LEMMA BehindIn ==
 ASSUME Steady, NEW t \in Threads, Seeks(t), NEW x \in Nodes, Sought(t, x),
        NEW c \in Nodes, In(c), list[c].key < call[t].key
 PROVE  x \in Reach(c)
<1>1. Sorted(list) /\ Head_ \in Nodes /\ Kept /\ list[c].key \in Int
 BY KeysAreIntegers DEF Steady, Sound, SetInv, SkipListInv, LevelsEnd
<1>2. c \in Bottom /\ x \in Bottom /\ list[c].key <= list[x].key BY <1>1, SoughtKey DEF Kept
<1> QED BY <1>1, <1>2, AheadByKey DEF Bottom, Reach, Nodes

(* An unmarked node of a smaller key is in the set. *)
LEMMA PassedIsIn ==
 ASSUME Steady, NEW t \in Threads, pc[t] # "idle", NEW c, NEW level \in Levels,
        Linkable(c, level), ~NextOf(c, level).mark, list[c].key < call[t].key
 PROVE  c \in Nodes /\ c # Tail_ /\ In(c)
<1>1. SkipListInv /\ MarksDescend /\ LevelsEnd /\ call[t].key \in Keys
 BY Types DEF Steady, Sound, SetInv
<1>2. c # Tail_ BY <1>1, KeyBounds DEF LevelsEnd
<1>3. c \in Nodes /\ Inner(c, level) BY <1>2 DEF Linkable, Inner
<1> QED BY <1>1, <1>2, <1>3, UnmarkedIsIn

(* A step that leaves the set and the answers alone is heard as such.      *)
LEMMA QuietIsHeard ==
 ASSUME Steady, [Next]_vars, NEW t \in Threads, Acts(t), ~Link(t), ~MarkBottom(t),
        answers'[t] = answers[t]
 PROVE  NewAreAbsent /\ Hears(t)
 BY QuietContents DEF NewAreAbsent, Hears

(* The steps of find. *)
LEMMA FindIsPlain ==
 ASSUME Steady, NEW t \in Threads, Finding(t)
 PROVE  /\ Finds(t) /\ Finds(t)' /\ UNCHANGED <<job, victim, call, answers>>
        /\ Step(t) /\ ~Link(t) /\ ~MarkBottom(t) /\ ~RemoveReturns(t)
        /\ Acts(t) /\ SkipListInv /\ KeysFit(t) /\ Leads(t)
<1>1. SkipListInv /\ KeysFit(t) /\ Leads(t) /\ pc \in [Threads -> Labels]
 BY DEF Steady, Sound, OrderInv, SetInv, SkipListInv, TypeOK
<1>2. Finds(t) /\ Finds(t)' /\ UNCHANGED <<job, victim, call, answers>>
 <2> USE <1>1 DEF GoTo, Finds, locals, history
 <2>1. CASE FindCurr(t) BY <2>1 DEF FindCurr, RetryFind
 <2>2. CASE FindMarked(t) BY <2>2 DEF FindMarked
 <2>3. CASE FindForward(t) BY <2>3 DEF FindForward
 <2>4. CASE FindSnip(t) BY <2>4 DEF FindSnip, RetryFind
 <2>5. CASE FindDown(t) BY <2>5 DEF FindDown, LevelDone
 <2> QED BY <2>1, <2>2, <2>3, <2>4, <2>5 DEF Finding
<1>3. ~Link(t) /\ ~MarkBottom(t) /\ ~RemoveReturns(t)
 BY <1>1, <1>2 DEF Link, MarkBottom, RemoveReturns, Return, GoTo, Finds
<1>4. Step(t) BY DEF Step
<1> QED BY <1>1, <1>2, <1>3, <1>4, QuietStepsAreNeutral

(* find starts over. *)
LEMMA FindRetries ==
 ASSUME Steady, [Next]_vars, NEW t \in Threads, Finding(t), RetryFind(t)
 PROVE  SetInv'
<1>1. /\ Finds(t) /\ Finds(t)' /\ UNCHANGED <<job, victim, call, answers>>
      /\ Step(t) /\ ~Link(t) /\ ~MarkBottom(t) /\ ~RemoveReturns(t)
      /\ SkipListInv
 BY FindIsPlain
<1>2. pc'[t] = "findCurr" /\ here'[t] = Top BY <1>1 DEF RetryFind, GoTo, Become, SkipListInv, TypeOK
<1>3. pc[t] # "idle" /\ call'[t].key \in Keys BY <1>1, Types DEF Finds
<1>4. CallFits(t)' BY <1>1, SamePhase
<1>5. Leads(t)' BY <1>2, <1>3, TopLeads
<1> QED BY <1>1, <1>3, <1>4, <1>5, PlainKeeps

(* find goes on. *)
LEMMA FindGoes ==
 ASSUME Steady, [Next]_vars, NEW t \in Threads, Finding(t),
        NEW p \in Nodes, here'[t].pred = p, NEW c, here'[t].curr.ref = c,
        Seeks(t) => \A x \in Nodes : Sought(t, x) => x \in Reach(p),
        pc'[t] = "findSucc" /\ here'[t].level = 0 =>
          /\ c \in Nodes
          /\ Seeks(t) => \A x \in Nodes : Sought(t, x) => x \in Reach(c)
 PROVE  SetInv'
<1>1. /\ Finds(t) /\ Finds(t)' /\ UNCHANGED <<job, victim, call, answers>>
      /\ Step(t) /\ ~Link(t) /\ ~MarkBottom(t) /\ ~RemoveReturns(t)
      /\ Acts(t) /\ SkipListInv
 BY FindIsPlain
<1>2. pc[t] # "idle" /\ ~Scans(t)' /\ ~Scans(t) BY <1>1 DEF Finds, Scans
<1>3. (Seeks(t)' <=> Seeks(t)) /\ (Snips(t)' <=> Snips(t)) BY <1>1, <1>2 DEF Seeks, Snips, FindsFor
<1>4. CallFits(t)' BY <1>1, SamePhase
<1>5. NewAreAbsent /\ Hears(t) BY <1>1, QuietIsHeard
<1>6. CASE Seeks(t)
 <2>1. pc'[t] # "scanSkip" /\ pc'[t] \notin {"scanSucc", "scanSkip"} BY <1>2 DEF Scans
 <2>2. Leads(t)' BY <1>1, <1>2, <1>3, <1>5, <1>6, <2>1, SearchGoes
 <2> QED BY <1>1, <1>2, <1>4, <2>2, PlainKeeps
<1>7. CASE ~Seeks(t)
 <2>1. Leads(t)' BY <1>3, <1>7, NoSearch
 <2> QED BY <1>1, <1>2, <1>4, <2>1, PlainKeeps
<1> QED BY <1>6, <1>7

(* The pointer of a node of a level leads to a node. *)
LEMMA NextIsNode ==
 ASSUME SkipListInv, NEW n, NEW level, Inner(n, level)
 PROVE  NextOf(n, level).ref \in Nodes
 BY DEF SkipListInv, LevelsEnd, Inner, Linkable, NextOf

(* Each step of find keeps the invariant. *)
LEMMA FindingKeepsSet ==
 ASSUME Steady, [Next]_vars, NEW t \in Threads, Finding(t)
 PROVE  SetInv'
<1> DEFINE h == here[t]
<1>1. /\ Finds(t) /\ Finds(t)' /\ SkipListInv /\ KeysFit(t) /\ Leads(t) /\ pc[t] # "idle"
 BY FindIsPlain DEF Finds
<1>2. Inner(h.pred, h.level) /\ h.pred \in Nodes /\ h.level \in Levels
 BY <1>1, Types DEF ThreadInv, Walks, Inner
<1>3. list[h.pred].key < call[t].key BY <1>1 DEF KeysFit
<1>4. Seeks(t) => \A x \in Nodes : Sought(t, x) => x \in Reach(h.pred) BY <1>1 DEF Leads
<1>5. here \in [Threads -> Place] /\ pc \in [Threads -> Labels]
 BY <1>1 DEF SkipListInv, TypeOK, Place
<1>6. CASE FindCurr(t)
 <2>1. CASE NextOf(h.pred, h.level).mark BY <1>6, <2>1, FindRetries DEF FindCurr
 <2>2. CASE ~NextOf(h.pred, h.level).mark
  <3>1. here'[t].pred = h.pred /\ here'[t].level = h.level
        /\ here'[t].curr.ref = NextOf(h.pred, h.level).ref
   BY <1>5, <1>6, <2>2 DEF FindCurr, Become, Place
  <3>2. NextOf(h.pred, h.level).ref \in Nodes BY <1>1, <1>2, NextIsNode
  <3>3. h.level = 0 => NextOf(h.pred, h.level).ref = NextIn(list, h.pred) BY DEF NextOf, NextIn
  <3>4. Seeks(t) => \A x \in Nodes : Sought(t, x) => x \in Reach(NextIn(list, h.pred))
   BY <1>2, <1>3, <1>4, BehindPred
  <3>5. h.level = 0 => (Seeks(t) => \A x \in Nodes : Sought(t, x) =>
                           x \in Reach(NextOf(h.pred, h.level).ref))
   BY <3>3, <3>4
  <3> QED BY <1>2, <1>4, <3>1, <3>2, <3>5, FindGoes
 <2> QED BY <2>1, <2>2
<1>7. CASE FindMarked(t)
 <2>1. here'[t].pred = h.pred /\ pc'[t] = "findSnip"
  BY <1>5, <1>7 DEF FindMarked, GoTo, Become, Place
 <2> QED BY <1>2, <1>4, <2>1, FindGoes
<1>8. CASE FindForward(t)
 <2> DEFINE c == h.curr.ref
            n == NextOf(c, h.level).ref
 <2>1. /\ here'[t].pred = c /\ here'[t].curr.ref = n /\ here'[t].level = h.level
       /\ pc[t] = "findSucc" /\ ~NextOf(c, h.level).mark /\ list[c].key < call[t].key
  BY <1>5, <1>8 DEF FindForward, Become, Place, Before
 <2>2. Linkable(c, h.level) BY <1>1, <2>1, Types DEF ThreadInv, Walks
 <2>3. c \in Nodes /\ c # Tail_ /\ In(c) BY <1>1, <1>2, <2>1, <2>2, PassedIsIn
 <2>4. n \in Nodes BY <1>1, <1>2, <2>2, <2>3, NextIsNode DEF Linkable, Inner
 <2>5. Seeks(t) => \A x \in Nodes : Sought(t, x) => x \in Reach(c) BY <2>1, <2>3, BehindIn
 <2>6. Seeks(t) => \A x \in Nodes : Sought(t, x) => x \in Reach(NextIn(list, c))
  BY <2>1, <2>3, <2>5, BehindPred
 <2>7. h.level = 0 => n = NextIn(list, c) BY DEF NextOf, NextIn
 <2>8. h.level = 0 => (Seeks(t) => \A x \in Nodes : Sought(t, x) => x \in Reach(n)) BY <2>6, <2>7
 <2> HIDE DEF c, n
 <2> QED BY <2>1, <2>3, <2>4, <2>5, <2>8, FindGoes
<1>9. CASE FindSnip(t)
 <2>1. CASE NextOf(h.pred, h.level) = h.curr
  <3>1. here'[t].pred = h.pred /\ pc'[t] = "findCurr"
   BY <1>5, <1>9, <2>1 DEF FindSnip, GoTo, Become, Place
  <3> QED BY <1>2, <1>4, <3>1, FindGoes
 <2>2. CASE NextOf(h.pred, h.level) # h.curr BY <1>9, <2>2, FindRetries DEF FindSnip
 <2> QED BY <2>1, <2>2
<1>10. CASE FindDown(t)
 <2>1. here'[t].pred = h.pred /\ pc'[t] = "findCurr"
  BY <1>5, <1>10 DEF FindDown, GoTo, Become, Place
 <2> QED BY <1>2, <1>4, <2>1, FindGoes
<1> QED BY <1>6, <1>7, <1>8, <1>9, <1>10 DEF Finding

(* The steps of contains. *)
LEMMA ScanGoes ==
 ASSUME Steady, [Next]_vars, NEW t \in Threads, Scanning(t), Scans(t), Scans(t)',
        UNCHANGED <<job, victim, call, answers>>,
        NEW p \in Nodes, here'[t].pred = p, NEW c, here'[t].curr.ref = c,
        \A x \in Nodes : Sought(t, x) => x \in Reach(p),
        pc'[t] \in {"scanSucc", "scanSkip"} /\ here'[t].level = 0 =>
          c \in Nodes /\ \A x \in Nodes : Sought(t, x) => x \in Reach(c),
        list[p].key < call[t].key,
        pc'[t] = "scanSkip" => list'[c].next[here'[t].level].mark
 PROVE  SetInv'
<1>1. SkipListInv /\ pc[t] # "idle" /\ Step(t) BY DEF Steady, Sound, Scans, Step
<1>2. ~Link(t) /\ ~MarkBottom(t) /\ ~RemoveReturns(t)
 BY DEF Link, MarkBottom, RemoveReturns, FindEnds, Scans
<1>3. Seeks(t) /\ ~Snips(t) /\ ~Snips(t)' /\ pc'[t] # "findSucc"
 BY DEF Seeks, Snips, FindsFor, Finds, Scans
<1>4. CallFits(t)' BY SamePhase
<1>5. NewAreAbsent /\ Hears(t) BY <1>1, <1>2, QuietStepsAreNeutral, QuietIsHeard
<1>6. Leads(t)' BY <1>3, <1>5, SearchGoes
<1> QED BY <1>1, <1>2, <1>4, <1>6, PlainKeeps

(* Each step of contains but the last keeps the invariant. *)
LEMMA ScanningKeepsSet ==
 ASSUME Steady, [Next]_vars, NEW t \in Threads, Scanning(t), ~ContainsReturns(t)
 PROVE  SetInv'
<1> DEFINE h == here[t]
<1>1. SkipListInv /\ Leads(t) BY DEF Steady, Sound, SetInv
<1>2. here \in [Threads -> Place] /\ pc \in [Threads -> Labels]
 BY <1>1 DEF SkipListInv, TypeOK, Place
<1>3. Scans(t) /\ Scans(t)' /\ UNCHANGED <<job, victim, call, answers, list>>
 <2> USE <1>2 DEF GoTo, Scans, locals, history
 <2>1. CASE ScanCurr(t) BY <2>1 DEF ScanCurr
 <2>2. CASE ScanMarked(t) BY <2>2 DEF ScanMarked
 <2>3. CASE ScanSkip(t) BY <2>3 DEF ScanSkip
 <2>4. CASE ScanForward(t) BY <2>4 DEF ScanForward
 <2>5. CASE ScanDown(t) BY <2>5 DEF ScanDown
 <2> QED BY <2>1, <2>2, <2>3, <2>4, <2>5 DEF Scanning
<1>4. Inner(h.pred, h.level) /\ h.pred \in Nodes /\ h.level \in Levels /\ pc[t] # "idle"
 BY <1>1, <1>3, Types DEF ThreadInv, Walks, Inner, Scans
<1>5. /\ Seeks(t) /\ ~Snips(t) /\ list[h.pred].key < call[t].key
      /\ \A x \in Nodes : Sought(t, x) => x \in Reach(h.pred)
      /\ \A x \in Nodes : Sought(t, x) => In(x)
 BY <1>1, <1>3 DEF Leads, Seeks, Scans, Snips, FindsFor, Finds, Sought
<1>6. CASE ScanCurr(t)
 <2> DEFINE n == NextOf(h.pred, h.level).ref
 <2>1. /\ here'[t].pred = h.pred /\ here'[t].level = h.level /\ here'[t].curr.ref = n
       /\ pc'[t] = "scanSucc"
  BY <1>2, <1>6 DEF ScanCurr, Become, GoTo, Place, Unmark, Ptr
 <2>2. n \in Nodes BY <1>1, <1>4, NextIsNode
 <2>3. h.level = 0 => n = NextIn(list, h.pred) BY DEF NextOf, NextIn
 <2>4. \A x \in Nodes : Sought(t, x) => x \in Reach(NextIn(list, h.pred)) BY <1>4, <1>5, BehindPred
 <2>5. h.level = 0 => \A x \in Nodes : Sought(t, x) => x \in Reach(n) BY <2>3, <2>4
 <2> HIDE DEF n
 <2> QED BY <1>3, <1>4, <1>5, <2>1, <2>2, <2>5, ScanGoes
<1>7. CASE ScanMarked(t)
 <2> DEFINE c == h.curr.ref
 <2>1. /\ here'[t].pred = h.pred /\ here'[t].level = h.level /\ here'[t].curr.ref = c
       /\ pc[t] = "scanSucc" /\ NextOf(c, h.level).mark
  BY <1>7 DEF ScanMarked
 <2>2. c \in Nodes /\ list'[c].next[h.level].mark
  BY <1>1, <1>3, <2>1, Types DEF ThreadInv, Walks, Linkable, NextOf
 <2>3. h.level = 0 => \A x \in Nodes : Sought(t, x) => x \in Reach(c) BY <1>1, <1>5, <2>1 DEF Leads
 <2> HIDE DEF c
 <2> QED BY <1>3, <1>4, <1>5, <2>1, <2>2, <2>3, ScanGoes
<1>8. CASE ScanSkip(t)
 <2> DEFINE c == h.curr.ref
            n == NextOf(c, h.level).ref
 <2>1. /\ here'[t].pred = h.pred /\ here'[t].level = h.level /\ here'[t].curr.ref = n
       /\ pc[t] = "scanSkip" /\ pc'[t] = "scanSucc"
  BY <1>2, <1>8 DEF ScanSkip, Become, GoTo, Place, Unmark, Ptr
 <2>2. Linkable(c, h.level) /\ c # Tail_ /\ c \in Nodes /\ NextOf(c, h.level).mark
  BY <1>1, <2>1, Types DEF ThreadInv, Walks, Leads, Linkable
 <2>3. n \in Nodes BY <1>1, <1>4, <2>2, NextIsNode DEF Linkable, Inner
 <2>4. ASSUME h.level = 0, NEW x \in Nodes, Sought(t, x) PROVE x \in Reach(n)
  <3>1. x \in Reach(c) /\ x # c BY <1>1, <1>5, <2>1, <2>2, <2>4 DEF Leads, In, NextOf
  <3>2. x \in Reach(NextIn(list, c)) BY <2>2, <3>1, AheadUnfolds DEF Reach, Nodes, Steady, Sound
  <3> QED BY <2>4, <3>2 DEF NextOf, NextIn
 <2> HIDE DEF c, n
 <2> QED BY <1>3, <1>4, <1>5, <2>1, <2>3, <2>4, ScanGoes
<1>9. CASE ScanForward(t)
 <2> DEFINE c == h.curr.ref
            n == NextOf(c, h.level).ref
 <2>1. /\ here'[t].pred = c /\ here'[t].curr.ref = n /\ here'[t].level = h.level
       /\ pc[t] = "scanSucc" /\ pc'[t] = "scanSucc"
       /\ ~NextOf(c, h.level).mark /\ list[c].key < call[t].key
  BY <1>2, <1>9 DEF ScanForward, Become, Place, Before
 <2>2. Linkable(c, h.level) BY <1>1, <2>1, Types DEF ThreadInv, Walks
 <2>3. c \in Nodes /\ c # Tail_ /\ In(c) BY <1>4, <2>1, <2>2, PassedIsIn
 <2>4. n \in Nodes BY <1>1, <1>4, <2>2, <2>3, NextIsNode DEF Linkable, Inner
 <2>5. \A x \in Nodes : Sought(t, x) => x \in Reach(c) BY <1>5, <2>1, <2>3, BehindIn
 <2>6. \A x \in Nodes : Sought(t, x) => x \in Reach(NextIn(list, c))
  BY <1>5, <2>1, <2>3, <2>5, BehindPred
 <2>7. h.level = 0 => n = NextIn(list, c) BY DEF NextOf, NextIn
 <2>8. h.level = 0 => \A x \in Nodes : Sought(t, x) => x \in Reach(n) BY <2>6, <2>7
 <2> HIDE DEF c, n
 <2> QED BY <1>3, <2>1, <2>3, <2>4, <2>5, <2>8, ScanGoes
<1>10. CASE ScanDown(t)
 <2>1. here'[t].pred = h.pred /\ pc'[t] = "scanCurr"
  BY <1>2, <1>10 DEF ScanDown, GoTo, Become, Place
 <2> QED BY <1>3, <1>4, <1>5, <2>1, ScanGoes
<1> QED BY <1>6, <1>7, <1>8, <1>9, <1>10 DEF Scanning

(* A find that starts, or starts over, for the call. *)
LEMMA FindStartsSet ==
 ASSUME Steady, [Next]_vars, NEW t \in Threads, Step(t), NEW why, Find(t, why),
        pc[t] # "idle", ~Link(t), ~MarkBottom(t), ~RemoveReturns(t),
        UNCHANGED <<call, answers, victim>>,
        \/ why = "add" /\ Pending(t, "add")
        \/ why = "remove" /\ Pending(t, "remove")
        \/ why = "relink" /\ Done(t, "add")
 PROVE  SetInv'
<1>1. SkipListInv BY DEF Steady, Sound
<1>2. pc'[t] = "findCurr" /\ here'[t] = Top /\ job'[t].why = why
 BY <1>1 DEF Find, GoTo, Become, Job, SkipListInv, TypeOK
<1>3. call'[t].key \in Keys BY <1>1, Types
<1>4. Leads(t)' BY <1>2, <1>3, TopLeads
<1>5. CallFits(t)' BY <1>2 DEF CallFits, Finds, Scans, FindsFor, Snips, Pending, Done
<1> QED BY <1>4, <1>5, PlainKeeps

(* The steps of an add before and after its link. *)
LEMMA AddingKeepsSet ==
 ASSUME Steady, [Next]_vars, NEW t \in Threads,
        AddPrepares(t) \/ LinkFails(t) \/ LinkUpper(t) \/ ResumeLinking(t)
 PROVE  SetInv'
<1>1. SkipListInv /\ CallFits(t) /\ pc \in [Threads -> Labels]
 BY DEF Steady, Sound, SetInv, SkipListInv, TypeOK
<1>2. Step(t) /\ UNCHANGED <<call, answers, victim>> /\ pc[t] # "idle"
 BY DEF Step, Adding, AddPrepares, LinkFails, LinkUpper, ResumeLinking, FindEnds, locals, history
<1>3. CASE AddPrepares(t)
 <2>1. pc[t] = "findSucc" /\ job[t].why = "add" /\ pc'[t] = "link"
  BY <1>1, <1>3 DEF AddPrepares, FindEnds, GoTo
 <2>2. ~Link(t) /\ ~MarkBottom(t) /\ ~RemoveReturns(t)
  BY <2>1 DEF Link, MarkBottom, RemoveReturns, FindEnds
 <2>3. Pending(t, "add") BY <1>1, <2>1 DEF CallFits, FindsFor, Finds
 <2>4. CallFits(t)' BY <1>2, <2>1, <2>3 DEF CallFits, Finds, Scans, FindsFor, Snips, Pending
 <2>5. Leads(t)' BY <2>1, NoSearch DEF Seeks, Scans, Snips, FindsFor, Finds
 <2> QED BY <1>2, <2>2, <2>4, <2>5, PlainKeeps
<1>4. CASE LinkFails(t)
 <2>1. pc[t] = "link" /\ Find(t, "add") /\ Pending(t, "add") BY <1>1, <1>4 DEF LinkFails, CallFits
 <2>2. ~Link(t) /\ ~MarkBottom(t) /\ ~RemoveReturns(t)
  BY <1>4, <2>1 DEF LinkFails, Link, MarkBottom, RemoveReturns, FindEnds
 <2> QED BY <1>2, <2>1, <2>2, FindStartsSet
<1>5. CASE LinkUpper(t)
 <2>1. pc[t] = "linkUpper" /\ Done(t, "add") BY <1>1, <1>5 DEF LinkUpper, CallFits
 <2>2. ~Link(t) /\ ~MarkBottom(t) /\ ~RemoveReturns(t)
  BY <2>1 DEF Link, MarkBottom, RemoveReturns, FindEnds
 <2>3. CASE Find(t, "relink") BY <1>2, <2>1, <2>2, <2>3, FindStartsSet
 <2>4. CASE UNCHANGED <<pc, job>>
  <3>1. CallFits(t)' BY <1>2, <2>1, <2>4, SamePhase
  <3>2. Leads(t)' BY <2>1, <2>4, NoSearch DEF Seeks, Scans, Snips, FindsFor, Finds
  <3> QED BY <1>2, <2>2, <3>1, <3>2, PlainKeeps
 <2> QED BY <1>5, <2>3, <2>4 DEF LinkUpper
<1>6. CASE ResumeLinking(t)
 <2>1. pc[t] = "findSucc" /\ job[t].why = "relink" /\ pc'[t] = "linkUpper"
  BY <1>1, <1>6 DEF ResumeLinking, FindEnds, GoTo
 <2>2. ~Link(t) /\ ~MarkBottom(t) /\ ~RemoveReturns(t)
  BY <2>1 DEF Link, MarkBottom, RemoveReturns, FindEnds
 <2>3. Done(t, "add") BY <1>1, <2>1 DEF CallFits, FindsFor, Finds
 <2>4. CallFits(t)' BY <1>2, <2>1, <2>3 DEF CallFits, Finds, Scans, FindsFor, Snips, Done
 <2>5. Leads(t)' BY <2>1, NoSearch DEF Seeks, Scans, Snips, FindsFor, Finds
 <2> QED BY <1>2, <2>2, <2>4, <2>5, PlainKeeps
<1> QED BY <1>3, <1>4, <1>5, <1>6

(* The steps of a remove before its mark at level 0. *)
LEMMA RemovingKeepsSet ==
 ASSUME Steady, [Next]_vars, NEW t \in Threads,
        \/ RemovePrepares(t) \/ ReadMark(t) \/ UpperMarked(t) \/ RemoveLoses(t)
        \/ MarkFails(t) \/ MarkUpper(t)
 PROVE  SetInv'
<1>1. /\ SkipListInv /\ CallFits(t) /\ ListKept
      /\ pc \in [Threads -> Labels] /\ victim \in [Threads -> Nodes \cup {NoNode}]
 BY DEF Steady, Sound, SetInv, SkipListInv, TypeOK
<1>2. Step(t) /\ UNCHANGED <<call, answers>> /\ pc[t] # "idle"
 BY DEF Step, Removing, RemovePrepares, ReadMark, UpperMarked, RemoveLoses, MarkFails, MarkUpper,
    FindEnds, locals, history
<1>3. CASE RemovePrepares(t)
 <2> DEFINE node == here[t].curr.ref
 <2>1. /\ pc[t] = "findSucc" /\ job[t].why = "remove" /\ pc'[t] = "readMark"
       /\ victim'[t] = node /\ list[node].key = call[t].key
  BY <1>1, <1>3 DEF RemovePrepares, FindEnds, GoTo, Found
 <2>2. ~Link(t) /\ ~MarkBottom(t) /\ ~RemoveReturns(t)
  BY <2>1 DEF Link, MarkBottom, RemoveReturns, FindEnds
 <2>3. Pending(t, "remove") BY <1>1, <2>1 DEF CallFits, FindsFor, Finds
 <2>4. node \in Nodes BY <1>1, <2>1, Types DEF ThreadInv, Walks, Linkable
 <2>5. list'[victim'[t]].key = call'[t].key BY <1>1, <1>2, <2>1, <2>4 DEF ListKept, Grows
 <2>6. CallFits(t)' BY <1>2, <2>1, <2>3, <2>5 DEF CallFits, Finds, Scans, FindsFor, Snips, Pending
 <2>7. Leads(t)' BY <2>1, NoSearch DEF Seeks, Scans, Snips, FindsFor, Finds
 <2> QED BY <1>2, <2>2, <2>6, <2>7, PlainKeeps
<1>4. CASE RemoveLoses(t)
 <2>1. pc[t] = "readMark" /\ Find(t, "remove") /\ Pending(t, "remove") /\ UNCHANGED victim
  BY <1>1, <1>4 DEF RemoveLoses, CallFits, locals
 <2>2. ~Link(t) /\ ~MarkBottom(t) /\ ~RemoveReturns(t)
  BY <2>1 DEF Link, MarkBottom, RemoveReturns, FindEnds
 <2> QED BY <1>2, <2>1, <2>2, FindStartsSet
<1>5. CASE ReadMark(t) \/ UpperMarked(t) \/ MarkFails(t) \/ MarkUpper(t)
 <2>1. /\ pc[t] \in {"readMark", "mark"} /\ pc'[t] \in {"readMark", "mark"}
       /\ UNCHANGED victim
  BY <1>1, <1>5 DEF ReadMark, UpperMarked, MarkFails, MarkUpper, GoTo, locals
 <2>2. ~MarkBottom(t) BY <1>1, <2>1 DEF MarkBottom, Find, GoTo
 <2>3. ~Link(t) /\ ~RemoveReturns(t) BY <2>1 DEF Link, RemoveReturns, FindEnds
 <2>4. CallFits(t)' BY <1>2, <2>1, SamePhase
 <2>5. Leads(t)' BY <2>1, NoSearch DEF Seeks, Scans, Snips, FindsFor, Finds
 <2> QED BY <1>2, <2>2, <2>3, <2>4, <2>5, PlainKeeps
<1> QED BY <1>3, <1>4, <1>5

-----------------------------------------------------------------------------
(* What the returns may answer.  The key that a search has found is in the *)
(* set now, and the call has observed it.                                  *)
LEMMA FoundIsObserved ==
 ASSUME Steady, NEW t \in Threads, pc[t] # "idle", ~Abstract!Applied(call[t], answers[t]),
        NEW c \in Nodes, In(c), list[c].key = call[t].key
 PROVE  call[t].key \in Contents(list)
        /\ Abstract!Observed(call[t], Contents(list)) \subseteq answers[t]
<1>1. Sound /\ Kept /\ Observes(t) /\ call[t].key \in Keys
 BY KeysAreIntegers DEF Steady, Sound, SetInv
<1>2. call[t].key \in Contents(list) BY <1>1, ContentsNow
<1> QED BY <1>1, <1>2 DEF Observes

(* A key that a search has passed by was absent at some moment.            *)
LEMMA MissedWasAbsent ==
 ASSUME Steady, NEW t \in Threads, Scans(t) \/ FindsFor(t, "remove"),
        pc[t] \in {"findSucc", "scanSucc"}, here[t].level = 0,
        call[t].key < list[here[t].curr.ref].key
 PROVE  FALSE \in answers[t]
<1> DEFINE c == here[t].curr.ref
           k == call[t].key
<1>1. /\ Sound /\ Kept /\ CallFits(t) /\ Observes(t) /\ Leads(t) /\ SkipListInv
      /\ Seeks(t) /\ ~Snips(t) /\ pc[t] # "idle"
 BY DEF Steady, Sound, SetInv, Seeks, Snips, Scans, FindsFor, Finds
<1>2. call[t].op \in {"remove", "contains"} /\ ~Abstract!Applied(call[t], answers[t])
 BY <1>1 DEF CallFits, Pending, Abstract!Applied
<1> SUFFICES ASSUME FALSE \notin answers[t] PROVE FALSE OBVIOUS
<1>3. k \in Contents(list)
 <2> SUFFICES ASSUME k \notin Contents(list) PROVE FALSE OBVIOUS
 <2>1. FALSE \in Abstract!Observed(call[t], Contents(list))
  <3>1. CASE call[t].op = "remove" BY <3>1, RemoveObserves
  <3>2. CASE call[t].op = "contains" BY <3>2, ContainsObserves
  <3> QED BY <1>2, <3>1, <3>2
 <2> QED BY <1>1, <1>2, <2>1 DEF Observes
<1>4. PICK x \in Nodes : list[x].key = k /\ In(x) BY <1>1, <1>3, ContentsNow
<1>5. Sought(t, x) BY <1>1, <1>4 DEF Sought
<1>6. x \in Reach(c) BY <1>1, <1>5 DEF Leads
<1>7. c \in Nodes /\ list[c].key \in Int /\ k \in Int
 <2>1. c \in Nodes BY <1>1, Types DEF ThreadInv, Walks, Linkable
 <2> QED BY <1>1, <2>1, KeysAreIntegers
<1>8. x = c \/ list[c].key < list[x].key BY <1>1, <1>6, <1>7, AheadIsLarger DEF Reach, Nodes, Sound
<1> QED BY <1>4, <1>7, <1>8

(* Each call returns an answer that it has observed, or the one it made.   *)
LEMMA ReturnsAreAnswers ==
 ASSUME Steady, NEW t \in Threads,
        \/ AddFindsKey(t) \/ AddReturns(t) \/ RemoveMissesKey(t) \/ RemoveReturns(t)
        \/ ContainsReturns(t)
 PROVE  /\ pc[t] # "idle" /\ UNCHANGED list
        /\ \E r \in BOOLEAN : r \in answers[t] /\ Return(t, r)
<1> DEFINE c == here[t].curr.ref
<1>1. /\ SkipListInv /\ CallFits(t) /\ MarksDescend /\ here[t] \in Place
      /\ \A n \in Nodes : list[n].key \in Int
      /\ pc[t] # "idle" => call[t].key \in Keys /\ call[t].key \in Int
 BY KeysAreIntegers DEF Steady, Sound, SetInv, SkipListInv, TypeOK, Place
<1>2. /\ pc[t] \in {"findSucc", "scanSucc"} => c \in Nodes /\ list[c].key \in Int
 BY <1>1, Types DEF ThreadInv, Walks, Linkable
<1>3. CASE AddFindsKey(t)
 <2>1. /\ pc[t] = "findSucc" /\ job[t].why = "add" /\ In(c) /\ list[c].key = call[t].key
       /\ Return(t, FALSE) /\ UNCHANGED list
  BY <1>3 DEF AddFindsKey, FindEnds, Found, In, NextOf
 <2>2. call[t].op = "add" /\ ~Abstract!Applied(call[t], answers[t])
  BY <1>1, <2>1 DEF CallFits, FindsFor, Finds, Pending, Abstract!Applied
 <2>3. FALSE \in answers[t] BY <1>2, <2>1, <2>2, FoundIsObserved, AddObserves
 <2> QED BY <2>1, <2>3
<1>4. CASE AddReturns(t)
 <2>1. Return(t, TRUE) /\ UNCHANGED list /\ pc[t] = "linkUpper" BY <1>4 DEF AddReturns
 <2>2. TRUE \in answers[t] BY <1>1, <2>1 DEF CallFits, Done
 <2> QED BY <2>1, <2>2
<1>5. CASE RemoveMissesKey(t)
 <2>1. /\ Return(t, FALSE) /\ UNCHANGED list /\ pc[t] = "findSucc" /\ job[t].why = "remove"
       /\ here[t].level = 0 /\ ~(list[c].key < call[t].key) /\ list[c].key # call[t].key
  BY <1>5 DEF RemoveMissesKey, FindEnds, Found, Before
 <2>2. call[t].key < list[c].key /\ FindsFor(t, "remove") BY <1>1, <1>2, <2>1 DEF FindsFor, Finds
 <2>3. FALSE \in answers[t] BY <2>1, <2>2, MissedWasAbsent
 <2> QED BY <2>1, <2>3
<1>6. CASE RemoveReturns(t)
 <2>1. Return(t, TRUE) /\ UNCHANGED list /\ pc[t] = "findSucc" /\ job[t].why = "snip"
  BY <1>6 DEF RemoveReturns, FindEnds
 <2>2. TRUE \in answers[t] BY <1>1, <2>1 DEF CallFits, Done, Snips, FindsFor, Finds
 <2> QED BY <2>1, <2>2
<1>7. CASE ContainsReturns(t)
 <2>1. /\ UNCHANGED list /\ pc[t] = "scanSucc" /\ Return(t, list[c].key = call[t].key)
       /\ here[t].level = 0 /\ ~(list[c].key < call[t].key) /\ In(c)
  BY <1>7 DEF ContainsReturns, Before, In, NextOf
 <2>2. Scans(t) /\ call[t].op = "contains" BY <1>1, <2>1 DEF Scans, CallFits
 <2>3. CASE list[c].key = call[t].key
  <3>1. Return(t, TRUE)
   <4>1. (list[c].key = call[t].key) = TRUE BY <2>3
   <4> QED BY <2>1, <4>1
  <3>2. TRUE \in answers[t]
   <4>1. ~Abstract!Applied(call[t], answers[t]) /\ pc[t] # "idle" BY <2>1, <2>2 DEF Abstract!Applied
   <4>2. /\ call[t].key \in Contents(list)
         /\ Abstract!Observed(call[t], Contents(list)) \subseteq answers[t]
    BY <1>2, <2>1, <2>3, <4>1, FoundIsObserved
   <4>3. Abstract!Observed(call[t], Contents(list)) = {TRUE} BY <2>2, <4>2, ContainsObserves
   <4> QED BY <4>2, <4>3
  <3> QED BY <2>1, <3>1, <3>2
 <2>4. CASE list[c].key # call[t].key
  <3>1. Return(t, FALSE)
   <4>1. (list[c].key = call[t].key) = FALSE BY <2>4
   <4> QED BY <2>1, <4>1
  <3>2. call[t].key < list[c].key BY <1>1, <1>2, <2>1, <2>4
  <3>3. FALSE \in answers[t] BY <2>1, <2>2, <3>2, MissedWasAbsent
  <3> QED BY <2>1, <3>1, <3>3
 <2> QED BY <2>3, <2>4
<1> QED BY <1>3, <1>4, <1>5, <1>6, <1>7

(* The find of a remove has passed the place of its node: it is not there. *)
LEMMA ReleasesTheGone ==
 ASSUME Steady, NEW t \in Threads, RemoveReturns(t)
 PROVE  victim[t] \notin Bottom
<1> DEFINE c == here[t].curr.ref
           v == victim[t]
<1>1. /\ Sound /\ SkipListInv /\ CallFits(t) /\ Leads(t)
      /\ \A n \in Nodes : list[n].key \in Int
      /\ pc[t] # "idle" => call[t].key \in Int
 BY KeysAreIntegers DEF Steady, Sound, SetInv
<1>2. /\ pc[t] = "findSucc" /\ job[t].why = "snip" /\ here[t].level = 0
      /\ In(c) /\ ~(list[c].key < call[t].key)
 BY DEF RemoveReturns, FindEnds, In, NextOf, Before
<1>3. Snips(t) /\ Seeks(t) BY <1>2 DEF Snips, Seeks, FindsFor, Finds
<1>4. v \in Nodes /\ c \in Nodes /\ list[v].key = call[t].key /\ ~In(v)
 BY <1>1, <1>2, <1>3, Types DEF ThreadInv, Marks, Walks, Linkable, Snips, CallFits, Sound,
    OwnersDiffer, In
<1> SUFFICES ASSUME v \in Bottom PROVE FALSE OBVIOUS
<1>5. v \in Reach(c) BY <1>1, <1>2, <1>3, <1>4 DEF Leads, Sought
<1>6. v # c BY <1>2, <1>4
<1>7. list[c].key < list[v].key BY <1>1, <1>4, <1>5, <1>6, AheadIsLarger DEF Reach, Nodes, Sound
<1> QED BY <1>1, <1>2, <1>4, <1>7

(* A return keeps the invariant. *)
LEMMA ReturnsKeepSet ==
 ASSUME Steady, [Next]_vars, NEW t \in Threads,
        \/ AddFindsKey(t) \/ AddReturns(t) \/ RemoveMissesKey(t) \/ RemoveReturns(t)
        \/ ContainsReturns(t)
 PROVE  SetInv'
<1>1. PICK r \in BOOLEAN : Return(t, r) /\ UNCHANGED list /\ pc[t] # "idle" BY ReturnsAreAnswers
<1>2. TypeOK BY DEF Steady, Sound, SkipListInv
<1>3. /\ Acts(t) /\ pc'[t] = "idle"
      /\ \A u \in Threads \ {t} : call'[u] = call[u] /\ answers'[u] = answers[u]
 BY <1>1, <1>2 DEF Return, GoTo, Become, Acts, TypeOK, Abstract!SetTypeOK
<1>4. ~Link(t) /\ ~MarkBottom(t) BY <1>2, <1>3 DEF Link, MarkBottom, Find, GoTo, TypeOK
<1>5. CallFits(t)' /\ Observes(t)' /\ Leads(t)'
 BY <1>3 DEF CallFits, Observes, Leads, Seeks, Finds, Scans, FindsFor, Snips
<1>6. Gone'
 <2>1. CASE UNCHANGED released BY <2>1, GoneStays
 <2>2. CASE RemoveReturns(t)
  <3>1. victim[t] \notin Bottom BY <2>2, ReleasesTheGone
  <3>2. /\ released \in [Threads -> Seq(Nodes \ {Head_, Tail_})]
        /\ released' = [released EXCEPT ![t] = Append(@, victim[t])]
   BY <1>2, <2>2 DEF RemoveReturns, TypeOK
  <3>3. Bottom' = Bottom BY <1>1 DEF Bottom, Reach
  <3>4. Gone BY DEF Steady, SetInv
  <3>5. ASSUME NEW u \in Threads, NEW j \in DOMAIN released'[u]
        PROVE  released'[u][j] \notin Bottom
   <4>1. CASE u # t BY <3>2, <3>4, <3>5, <4>1 DEF Gone
   <4>2. CASE u = t
    <5>1. released'[t] = Append(released[t], victim[t])
          /\ released[t] \in Seq(Nodes \ {Head_, Tail_})
     BY <3>2
    <5>2. j \in 1 .. Len(released[t]) + 1 BY <3>5, <4>2, <5>1
    <5>3. CASE j = Len(released[t]) + 1 BY <3>1, <4>2, <5>1, <5>3
    <5>4. CASE j # Len(released[t]) + 1
     <6>1. j \in DOMAIN released[t] /\ released'[t][j] = released[t][j] BY <5>1, <5>2, <5>4
     <6> QED BY <3>4, <4>2, <6>1 DEF Gone
    <5> QED BY <5>3, <5>4
   <4> QED BY <4>1, <4>2
  <3> QED BY <3>3, <3>5 DEF Gone
 <2> QED BY <2>1, <2>2 DEF AddFindsKey, AddReturns, RemoveMissesKey, ContainsReturns
<1> QED BY <1>3, <1>4, <1>5, <1>6, QuietKeeps

(* A call that starts has observed the set as it is. *)
LEMMA StartKeepsSet ==
 ASSUME Steady, [Next]_vars, NEW t \in Threads, NEW c \in Abstract!SetCalls,
        NEW level \in Levels, Start(t, c, level)
 PROVE  SetInv'
<1>1. TypeOK /\ SkipListInv BY DEF Steady, Sound, SkipListInv
<1>2. /\ pc[t] = "idle" /\ UNCHANGED <<list, released, victim>>
      /\ call' = [call EXCEPT ![t] = c]
      /\ answers' = [answers EXCEPT ![t] = Abstract!Observed(c, Contents(list))]
 BY DEF Start
<1>3. /\ call'[t] = c /\ answers'[t] = Abstract!Observed(c, Contents(list))
      /\ \A u \in Threads \ {t} : call'[u] = call[u] /\ answers'[u] = answers[u]
 BY <1>1, <1>2 DEF TypeOK, Abstract!SetTypeOK
<1>4. Acts(t) /\ here'[t] = Top BY <1>1 DEF Start, Find, GoTo, Become, Acts, TypeOK
<1>5. /\ c.op = "contains" => pc'[t] = "scanCurr"
      /\ c.op # "contains" => pc'[t] = "findCurr" /\ job'[t].why = c.op
 BY <1>1 DEF Start, Find, GoTo, Job, TypeOK
<1>6. ~Link(t) /\ ~MarkBottom(t) BY <1>2 DEF Link, MarkBottom
<1>7. c.op \in {"add", "remove", "contains"} /\ c.key \in Keys BY DEF Abstract!SetCalls
<1>8. c.op # "contains" => TRUE \notin Abstract!Observed(c, Contents(list))
 <2>1. CASE c.op = "add" BY <2>1, AddObserves
 <2>2. CASE c.op = "remove" BY <2>2, RemoveObserves
 <2> QED BY <1>7, <2>1, <2>2
<1>9. CallFits(t)' BY <1>3, <1>5, <1>7, <1>8 DEF CallFits, Finds, Scans, FindsFor, Snips, Pending
<1>10. Observes(t)' BY <1>2, <1>3 DEF Observes
<1>11. Leads(t)' BY <1>3, <1>4, <1>5, <1>7, TopLeads
<1>12. Gone' BY <1>2, GoneStays
<1> QED BY <1>3, <1>4, <1>6, <1>9, <1>10, <1>11, <1>12, QuietKeeps

(* The changes of the set, which every other call hears. *)
LEMMA AllHear ==
 ASSUME SkipListInv, NEW t \in Threads, answers' = Abstract!AnswersAfter(t, Contents(list')),
        UNCHANGED call
 PROVE  /\ answers'[t] = {TRUE}
        /\ \A u \in Threads \ {t} : call'[u] = call[u] /\ Hears(u)
 BY DEF Abstract!AnswersAfter, Hears

(* The link of a node. *)
LEMMA LinkKeepsSet ==
 ASSUME Steady, [Next]_vars, NEW t \in Threads, Link(t)
 PROVE  SetInv'
<1>1. SkipListInv /\ TypeOK /\ Sound /\ Sound' /\ Kept /\ CallFits(t)
 BY DEF Steady, Sound, SetInv, SkipListInv
<1>2. /\ pc[t] = "link" /\ pc'[t] = "linkUpper" /\ UNCHANGED <<released, call>>
      /\ answers' = Abstract!AnswersAfter(t, Contents(list'))
 BY <1>1 DEF Link, GoTo, TypeOK
<1>3. Acts(t)
 BY <1>1, <1>2, QuietStepsAreNeutral DEF Step, Adding, MarkBottom, RemoveReturns, FindEnds
<1>4. answers'[t] = {TRUE} /\ \A u \in Threads \ {t} : call'[u] = call[u] /\ Hears(u)
 BY <1>1, <1>2, AllHear
<1>5. call[t].op = "add" BY <1>1, <1>2 DEF CallFits, Pending
<1>6. CallFits(t)' BY <1>2, <1>4, <1>5 DEF CallFits, Finds, Scans, FindsFor, Snips, Done
<1>7. Observes(t)' BY <1>2, <1>4, <1>5 DEF Observes, Abstract!Applied
<1>8. Leads(t)' BY <1>2, NoSearch DEF Seeks, Scans, Snips, FindsFor, Finds
<1>9. NewAreAbsent BY <1>1, LinkAdds DEF NewAreAbsent
<1>10. Gone' BY <1>2, GoneStays
<1> QED BY <1>3, <1>4, <1>6, <1>7, <1>8, <1>9, <1>10, SetKept

(* The mark at level 0. *)
LEMMA MarkKeepsSet ==
 ASSUME Steady, [Next]_vars, NEW t \in Threads, MarkBottom(t)
 PROVE  SetInv'
<1>1. /\ SkipListInv /\ TypeOK /\ Sound /\ Sound' /\ Kept /\ Kept' /\ CallFits(t) /\ ListKept
 BY DEF Steady, Sound, SetInv, SkipListInv, Moves
<1>2. /\ pc[t] = "mark" /\ pc'[t] = "findCurr" /\ here'[t] = Top /\ job'[t].why = "snip"
      /\ UNCHANGED <<released, call, victim>>
      /\ answers' = Abstract!AnswersAfter(t, Contents(list'))
 BY <1>1 DEF MarkBottom, Find, GoTo, Become, Job, TypeOK, locals
<1>3. Acts(t) BY <1>1 DEF MarkBottom, Find, GoTo, Become, Acts, TypeOK, locals
<1>4. answers'[t] = {TRUE} /\ \A u \in Threads \ {t} : call'[u] = call[u] /\ Hears(u)
 BY <1>1, <1>2, AllHear
<1>5. call[t].op = "remove" /\ list[victim[t]].key = call[t].key /\ call[t].key \in Keys
 BY <1>1, <1>2, Types DEF CallFits, Pending
<1>6. list'[victim[t]].key = list[victim[t]].key
 BY <1>1, <1>2, Types DEF ThreadInv, Marks, ListKept, Grows
<1>7. CallFits(t)' BY <1>2, <1>4, <1>5, <1>6 DEF CallFits, Finds, Scans, FindsFor, Snips, Done
<1>8. Observes(t)' BY <1>2, <1>4, <1>5 DEF Observes, Abstract!Applied
<1>9. Leads(t)' BY <1>2, <1>5, TopLeads
<1>10. NewAreAbsent BY <1>1, MarkRemoves DEF NewAreAbsent
<1>11. Gone' BY <1>2, GoneStays
<1> QED BY <1>3, <1>4, <1>7, <1>8, <1>9, <1>10, <1>11, SetKept

(* Every step keeps the invariant. *)
LEMMA StepKeepsSet ==
 ASSUME Sound, Sound', SetInv, [Next]_vars
 PROVE  SetInv'
<1>1. Steady BY StepsAreSteady
<1>2. CASE UNCHANGED vars
 <2>1. UNCHANGED <<list, released, pc, here, job, victim, call, answers>>
  BY <1>2 DEF vars, locals, history
 <2>2. Kept' /\ MarksDescend' /\ Gone' BY <1>1, <2>1, GoneStays DEF Steady, Moves
 <2>3. NewAreAbsent /\ \A t \in Threads : Hears(t) BY <2>1 DEF NewAreAbsent, Hears, Nodes
 <2>4. \A t \in Threads : CallFits(t)' /\ Observes(t)' /\ Leads(t)'
  BY <1>1, <2>1, <2>3, CallFitsStays, ObservesStays, LeadsStays DEF Steady, Sound, SetInv
 <2> QED BY <2>2, <2>4 DEF SetInv
<1>3. ASSUME NEW t \in Threads, NEW c \in Abstract!SetCalls, NEW level \in Levels,
             Start(t, c, level)
      PROVE  SetInv'
 BY <1>1, <1>3, StartKeepsSet
<1>4. ASSUME NEW t \in Threads, Step(t) PROVE SetInv'
 <2>1. CASE Finding(t) BY <1>1, <2>1, FindingKeepsSet
 <2>2. CASE \/ AddFindsKey(t) \/ AddReturns(t) \/ RemoveMissesKey(t) \/ RemoveReturns(t)
            \/ ContainsReturns(t)
  BY <1>1, <2>2, ReturnsKeepSet
 <2>3. CASE AddPrepares(t) \/ LinkFails(t) \/ LinkUpper(t) \/ ResumeLinking(t)
  BY <1>1, <2>3, AddingKeepsSet
 <2>4. CASE Link(t) BY <1>1, <2>4, LinkKeepsSet
 <2>5. CASE \/ RemovePrepares(t) \/ ReadMark(t) \/ UpperMarked(t) \/ RemoveLoses(t)
            \/ MarkFails(t) \/ MarkUpper(t)
  BY <1>1, <2>5, RemovingKeepsSet
 <2>6. CASE MarkBottom(t) BY <1>1, <2>6, MarkKeepsSet
 <2>7. CASE Scanning(t) /\ ~ContainsReturns(t) BY <1>1, <2>7, ScanningKeepsSet
 <2> QED BY <1>4, <2>1, <2>2, <2>3, <2>4, <2>5, <2>6, <2>7 DEF Step, Adding, Removing
<1> QED BY <1>2, <1>3, <1>4 DEF Next

(* The empty list. *)
LEMMA InitSet == Init => Sound /\ SetInv
<1> SUFFICES ASSUME Init PROVE Sound /\ SetInv OBVIOUS
<1>1. Sound BY InitHolds, InitOrders, NoOwnersYet, ListIsSorted DEF Sound
<1>2. /\ Nodes = {Head_, Tail_} /\ Head_ # Tail_
      /\ NextIn(list, Head_) = Tail_ /\ \A n \in Nodes : In(n)
 BY LevelBounds DEF Init, InitialList, NodeRecord, Nodes, Head_, Tail_, Plain, Null, Ptr, NextIn, In
<1>3. Kept
 <2>1. Head_ \in Ahead(list, Head_) /\ Tail_ \in Ahead(list, Head_)
  BY <1>1, <1>2, AheadIsLeast, AheadUnfolds DEF Sound, Nodes
 <2> QED BY <1>2, <2>1 DEF Kept, Bottom, Reach
<1>4. MarksDescend BY <1>2 DEF MarksDescend
<1>5. Gone BY DEF Init, Gone
<1>6. \A t \in Threads : CallFits(t) /\ Observes(t) /\ Leads(t)
 BY DEF Init, CallFits, Observes, Leads, Seeks, Finds, Scans, FindsFor, Snips
<1> QED BY <1>1, <1>3, <1>4, <1>5, <1>6 DEF SetInv

(* The list stays sound. *)
LEMMA SoundHolds == Spec => []Sound
<1>1. Spec => []SkipListInv BY InvariantHolds
<1>2. Spec => []OrderInv BY InvariantHolds, InitOrders, StepOrders, PTL DEF Spec
<1>3. Spec => []OwnersDiffer BY InvariantHolds, NoOwnersYet, StepOwns, PTL DEF Spec
<1>4. SkipListInv /\ OrderInv /\ OwnersDiffer => Sound BY ListIsSorted DEF Sound
<1> QED BY <1>1, <1>2, <1>3, <1>4, PTL

(* The inductive invariant holds. *)
LEMMA SetHolds == Spec => []SetInv
<1>1. Init => SetInv BY InitSet
<1>2. Sound /\ Sound' /\ SetInv /\ [Next]_vars => SetInv' BY StepKeepsSet
<1>3. Spec => []Sound BY SoundHolds
<1> QED BY <1>1, <1>2, <1>3, PTL DEF Spec

-----------------------------------------------------------------------------
(* Every step of the list is a step of the set, or none. *)
LEMMA StepsImplement ==
 ASSUME Steady, [Next]_vars
 PROVE  [Abstract!SetNext]_(Abstract!setVars)
<1>1. TypeOK /\ SkipListInv /\ Sound /\ Sound' /\ Kept /\ Kept'
 BY DEF Steady, Sound, SkipListInv, SetInv, Moves
<1>2. CASE UNCHANGED vars BY <1>2 DEF vars, history, Abstract!setVars
<1>3. ASSUME NEW t \in Threads, NEW c \in Abstract!SetCalls, NEW level \in Levels,
             Start(t, c, level)
      PROVE  Abstract!SetNext
 <2>1. Abstract!SetInvoke(t, c)
  <3>1. call[t] = NoCall BY <1>1, <1>3 DEF Start, TypeOK
  <3>2. /\ call' = [call EXCEPT ![t] = c]
        /\ answers' = [answers EXCEPT ![t] = Abstract!Observed(c, Contents(list))]
        /\ result' = [result EXCEPT ![t] = Abstract!NoResult]
        /\ Contents(list') = Contents(list)
   BY <1>3 DEF Start
  <3> QED BY <3>1, <3>2 DEF Abstract!SetInvoke, NoCall
 <2> QED BY <2>1 DEF Abstract!SetNext
<1>4. ASSUME NEW t \in Threads, Link(t) PROVE Abstract!SetNext
 <2>1. pc[t] = "link" /\ Pending(t, "add") BY <1>4 DEF Link, Steady, SetInv, CallFits
 <2>2. /\ answers' = Abstract!AnswersAfter(t, Contents(list')) /\ UNCHANGED <<call, result>>
  BY <1>4 DEF Link
 <2>3. /\ call[t].key \notin Contents(list)
       /\ Contents(list') = Contents(list) \cup {call[t].key}
  BY <1>1, <1>4, LinkAdds
 <2>4. Abstract!SetAdd(t) BY <2>1, <2>2, <2>3 DEF Abstract!SetAdd, Pending, Abstract!Applied
 <2> QED BY <2>4 DEF Abstract!SetNext
<1>5. ASSUME NEW t \in Threads, MarkBottom(t) PROVE Abstract!SetNext
 <2>1. pc[t] = "mark" /\ CallFits(t) /\ Pending(t, "remove")
  BY <1>5 DEF MarkBottom, Steady, SetInv, CallFits
 <2>2. /\ answers' = Abstract!AnswersAfter(t, Contents(list')) /\ UNCHANGED <<call, result>>
  BY <1>5 DEF MarkBottom
 <2>3. /\ call[t].key \in Contents(list)
       /\ Contents(list') = Contents(list) \ {call[t].key}
  BY <1>1, <1>5, <2>1, MarkRemoves
 <2>4. Abstract!SetRemove(t) BY <2>1, <2>2, <2>3 DEF Abstract!SetRemove, Pending, Abstract!Applied
 <2> QED BY <2>4 DEF Abstract!SetNext
<1>6. ASSUME NEW t \in Threads,
             \/ AddFindsKey(t) \/ AddReturns(t) \/ RemoveMissesKey(t) \/ RemoveReturns(t)
             \/ ContainsReturns(t)
      PROVE  Abstract!SetNext
 <2>1. PICK r \in BOOLEAN : /\ r \in answers[t] /\ Return(t, r)
                            /\ UNCHANGED list /\ pc[t] # "idle"
  BY <1>6, ReturnsAreAnswers
 <2>2. call[t] # NoCall BY <1>1, <2>1 DEF TypeOK
 <2>3. Abstract!SetReturn(t, r) BY <2>1, <2>2 DEF Return, Abstract!SetReturn, NoCall
 <2> QED BY <2>3 DEF Abstract!SetNext
<1>7. ASSUME NEW t \in Threads, Step(t), ~Link(t), ~MarkBottom(t), UNCHANGED history,
             ~RemoveReturns(t)
      PROVE  UNCHANGED Abstract!setVars
 <2>1. Acts(t) BY <1>1, <1>7, QuietStepsAreNeutral
 <2>2. Contents(list') = Contents(list) BY <1>7, <2>1, QuietContents
 <2> QED BY <1>7, <2>2 DEF history, Abstract!setVars
<1>8. ASSUME NEW t \in Threads, Step(t), ~Link(t), ~MarkBottom(t),
             ~AddFindsKey(t), ~AddReturns(t), ~RemoveMissesKey(t), ~RemoveReturns(t),
             ~ContainsReturns(t)
      PROVE  UNCHANGED history
 <2>1. CASE Finding(t) BY <2>1 DEF Finding, FindCurr, FindMarked, FindForward, FindSnip, FindDown
 <2>2. CASE AddPrepares(t) \/ LinkFails(t) \/ LinkUpper(t) \/ ResumeLinking(t)
  BY <2>2 DEF AddPrepares, LinkFails, LinkUpper, ResumeLinking
 <2>3. CASE \/ RemovePrepares(t) \/ ReadMark(t) \/ UpperMarked(t) \/ RemoveLoses(t)
            \/ MarkFails(t) \/ MarkUpper(t)
  BY <2>3 DEF RemovePrepares, ReadMark, UpperMarked, RemoveLoses, MarkFails, MarkUpper
 <2>4. CASE ScanCurr(t) \/ ScanMarked(t) \/ ScanSkip(t) \/ ScanForward(t) \/ ScanDown(t)
  BY <2>4 DEF ScanCurr, ScanMarked, ScanSkip, ScanForward, ScanDown
 <2> QED BY <1>8, <2>1, <2>2, <2>3, <2>4 DEF Step, Adding, Removing, Scanning
<1>9. ASSUME NEW t \in Threads, Step(t) PROVE [Abstract!SetNext]_(Abstract!setVars)
 BY <1>4, <1>5, <1>6, <1>7, <1>8, <1>9
<1> QED BY <1>2, <1>3, <1>9 DEF Next

(* The empty list is the empty set. *)
LEMMA InitIsEmpty == Init => Abstract!SetInit
<1> SUFFICES ASSUME Init PROVE Abstract!SetInit OBVIOUS
<1>1. Sound /\ Kept BY InitSet DEF SetInv
<1>2. Nodes = {Head_, Tail_} /\ list[Head_].key = MinKey /\ list[Tail_].key = MaxKey
 BY DEF Init, InitialList, NodeRecord, Nodes, Head_, Tail_
<1>3. Contents(list) = {} BY <1>1, <1>2, ContentsNow, KeyBounds
<1> QED BY <1>3 DEF Init, Abstract!SetInit, NoCall

(* Linearizability.  add, remove and contains return what the set answered *)
(* at some moment of the call: a search that reports a key as absent may   *)
(* have passed by it, over marked and unlinked nodes, but then there was a *)
(* moment of the call without the key.                                     *)
THEOREM ListIsASet == Spec => ImplementsSet
<1>1. Init => Abstract!SetInit BY InitIsEmpty
<1>2. Sound /\ Sound' /\ SetInv /\ [Next]_vars => [Abstract!SetNext]_(Abstract!setVars)
 BY StepsAreSteady, StepsImplement
<1>3. Spec => []Sound BY SoundHolds
<1>4. Spec => []SetInv BY SetHolds
<1> QED BY <1>1, <1>2, <1>3, <1>4, PTL DEF Spec, ImplementsSet, Abstract!SetSpec

(* The upper levels index level 0: what a search meets there is on level 0 *)
(* too, or it is marked at that level, so that the next find snips it.     *)
THEOREM LevelsStayOrdered == Spec => []LevelsAreOrdered
<1>1. Sound /\ SetInv => LevelsAreOrdered
 <2> SUFFICES ASSUME Sound, SetInv PROVE LevelsAreOrdered OBVIOUS
 <2>1. SkipListInv /\ KeysAscend /\ LevelsEnd /\ Kept /\ MarksDescend
  BY DEF Sound, OrderInv, SkipListInv, SetInv
 <2>2. OnLevel(list, 0) = Bottom BY DEF OnLevel, Bottom, Reach, Ahead
 <2>3. ASSUME NEW level \in Levels, NEW n \in OnLevel(list, level) \ {Tail_}
       PROVE  Inner(n, level)
  <3> DEFINE A == {m \in Nodes : Linkable(m, level)}
  <3>1. ASSUME NEW m \in A, m # Tail_ PROVE list[m].next[level].ref \in A
   BY <2>1, <3>1 DEF LevelsEnd, Inner, Linkable
  <3>2. Head_ \in A BY <2>1, LevelBounds DEF LevelsEnd, Linkable
  <3>3. Trail(list, level, Head_, A) /\ A \in SUBSET DOMAIN list BY <3>1, <3>2 DEF Trail, Nodes
  <3>4. From(list, level, Head_) \subseteq A BY <3>3, FromIsLeast
  <3> QED BY <2>3, <3>4 DEF OnLevel, Inner, Linkable
 <2>4. ASSUME NEW level \in Levels, NEW n \in OnLevel(list, level) \ {Tail_}
       PROVE  /\ level <= list[n].topLevel
              /\ n \in OnLevel(list, 0) \/ list[n].next[level].mark
  BY <2>1, <2>2, <2>3, <2>4 DEF Inner, Kept, MarksDescend
 <2> QED BY <2>1, <2>4 DEF LevelsAreOrdered
<1> QED BY <1>1, SoundHolds, SetHolds, PTL

(* No node is released while a search that starts now could still meet it  *)
(* on level 0: the find of its remove has passed the place where it was.   *)
THEOREM ReleasedAreGone == Spec => []ReleasedIsGone
<1>1. SetInv => ReleasedIsGone
 <2> SUFFICES ASSUME SetInv PROVE ReleasedIsGone OBVIOUS
 <2>1. OnLevel(list, 0) = Bottom BY DEF OnLevel, Bottom, Reach, Ahead
 <2> QED BY <2>1 DEF SetInv, Gone, ReleasedIsGone, Range
<1> QED BY <1>1, SetHolds, PTL
=============================================================================
