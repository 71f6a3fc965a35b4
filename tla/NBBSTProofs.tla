---------------------------- MODULE NBBSTProofs -----------------------------
(***************************************************************************)
(* NBBST for any number of threads and keys.  However many threads help an *)
(* operation, and however late, the update words and the children follow   *)
(* the protocol that the tree rests on; and the calls are those of a       *)
(* linearizable set, which is read off the search paths of the tree, the   *)
(* parts included in which a slow search still walks after they were cut.  *)
(***************************************************************************)
EXTENDS NBBSTInvariants, SequenceTheorems, WellFoundedInduction, TLAPS

-----------------------------------------------------------------------------

(* An Info is named by its owner and its rank. *)
LEMMA IdsOfInfos == \A op : op \in InfoIds <=> \E t \in Threads : \E i \in 1 .. Len(infos[t]) : op = <<t, i>>
 BY DEF InfoIds

(* The Info that a thread publishes has a name of its own. *)
LEMMA NewInfoIsNew ==
 ASSUME Shape, NEW t \in Threads, NEW rec, NEW op, op = NewInfo(t),
        infos' = [infos EXCEPT ![t] = Append(@, rec)]
 PROVE  /\ InfoIds' = InfoIds \cup {op}
        /\ op \notin InfoIds
        /\ Info(op)' = rec
        /\ \A x \in InfoIds : Info(x)' = Info(x)
<1> DEFINE n == Len(infos[t])
<1>1. infos[t] \in Seq(AddInfo \cup RemoveInfo) /\ n \in Nat /\ DOMAIN infos = Threads BY DEF Shape
<1>2. /\ infos'[t] = Append(infos[t], rec)
      /\ \A u \in Threads \ {t} : infos'[u] = infos[u]
 BY <1>1
<1>3. /\ Len(infos'[t]) = n + 1
      /\ infos'[t][n + 1] = rec
      /\ \A i \in 1 .. n : infos'[t][i] = infos[t][i]
 BY <1>1, <1>2
<1>4. op = <<t, n + 1>> BY DEF NewInfo
<1>5. \A x : x \in InfoIds' <=> \E u \in Threads : \E i \in 1 .. Len(infos'[u]) : x = <<u, i>>
 BY IdsOfInfos DEF InfoIds
<1>6. \A i : i \in 1 .. n + 1 <=> i \in 1 .. n \/ i = n + 1 BY <1>1
<1>7. \A x : x \in InfoIds' <=> x \in InfoIds \/ x = op BY <1>2, <1>3, <1>4, <1>5, <1>6, IdsOfInfos
<1>8. op \notin InfoIds BY <1>1, <1>4, IdsOfInfos
<1>9. Info(op)' = rec BY <1>3, <1>4 DEF Info
<1>10. \A x \in InfoIds : Info(x)' = Info(x) BY <1>2, <1>3, IdsOfInfos DEF Info
<1> QED BY <1>7, <1>8, <1>9, <1>10

(* The sets of the invariant only grow. *)
LEMMA SetsGrow ==
 ASSUME Grows
 PROVE  /\ Nodes \subseteq Nodes' /\ Inner \subseteq Inner' /\ Leaves \subseteq Leaves'
        /\ InfoIds \subseteq InfoIds' /\ Words \subseteq Words' /\ CleanWords \subseteq CleanWords'
        /\ AddInfo \subseteq AddInfo' /\ RemoveInfo \subseteq RemoveInfo'
        /\ Adds \subseteq Adds' /\ Removes \subseteq Removes'
<1>1. Nodes \subseteq Nodes' /\ Inner \subseteq Inner' /\ Leaves \subseteq Leaves' BY DEF Grows, Inner, Leaves
<1>2. InfoIds \subseteq InfoIds' BY DEF Grows
<1>3. Words \subseteq Words' /\ CleanWords \subseteq CleanWords' BY <1>2 DEF Words, CleanWords
<1>4. AddInfo \subseteq AddInfo' /\ RemoveInfo \subseteq RemoveInfo' BY <1>1, <1>3 DEF AddInfo, RemoveInfo
<1>5. Adds \subseteq Adds' /\ Removes \subseteq Removes' BY <1>2, <1>4 DEF Grows, Adds, Removes
<1> QED BY <1>1, <1>2, <1>3, <1>4, <1>5

(* A mark stays, and with it the children of the marked node. *)
LEMMA MarksStay ==
 ASSUME Grows, NEW op \in Removes, Marked(op)
 PROVE Marked(op)' /\ SameKids(Info(op).p) /\ Other(op)' = Other(op)
<1>1. PICK i : i = Info(op) OBVIOUS
<1>2. i.p \in Inner /\ op \in InfoIds /\ Info(op)' = i BY <1>1 DEF Removes, RemoveInfo, Grows
<1>3. Word(i.p).state = "MARK" /\ Word(i.p) = Update("MARK", op) BY <1>1 DEF Marked, Update
<1>4. SameKids(i.p) /\ Word(i.p)' = Word(i.p) BY <1>2, <1>3 DEF Grows
<1>5. Marked(op)' BY <1>2, <1>3, <1>4 DEF Marked, Word, Update
<1>6. Other(op)' = Other(op) BY <1>1, <1>2, <1>4 DEF Other, SameKids
<1> QED BY <1>1, <1>4, <1>5, <1>6

(* A sound word stays sound. *)
LEMMA SoundStays ==
 ASSUME Grows, NEW u, Sound(u)
 PROVE Sound(u)'
 BY SetsGrow, MarksStay DEF Sound

(* A word goes on leading to the Info of its operation. *)
LEMMA LeadsStays ==
 ASSUME Grows, NEW n, NEW u, Leads(u, n)
 PROVE Leads(u, n)'
<1>1. u.state \in {"IFLAG", "MARK", "DFLAG"} => u.info \in InfoIds BY DEF Leads, Sound, Adds, Removes
<1> QED BY <1>1, SoundStays DEF Leads, Grows

(* A word that was read once does not come back as a flag. *)
LEMMA RememberedStays ==
 ASSUME Grows, NEW n \in Inner, NEW u, Remembered(n, u)
 PROVE Remembered(n, u)'
<1>1. u.state = "CLEAN" => u.info \in InfoIds \cup {NoInfo} /\ ~Flagged(n, u.info) BY DEF Remembered, Sound, Words
<1>2. u.state = "CLEAN" => ~Flagged(n, u.info)' BY <1>1 DEF Grows
<1> QED BY <1>2, SoundStays DEF Remembered

(* As long as a parent has the word that was read, it has the child that was read. *)
LEMMA FollowsStays ==
 ASSUME Grows, NEW parent \in Inner, NEW u, Remembered(parent, u), NEW n, Follows(parent, u, n)
 PROVE Follows(parent, u, n)'
<1>1. SUFFICES ASSUME u.state = "CLEAN", Word(parent)' = u
               PROVE n \in Kids(parent)'
 BY DEF Follows
<1>2. u = Update("CLEAN", u.info) /\ u.info \in InfoIds \cup {NoInfo} /\ ~Flagged(parent, u.info)
 BY <1>1 DEF Remembered, Sound, Words, Update
<1>3. Word(parent) = u BY <1>1, <1>2 DEF Grows
<1>4. n \in Kids(parent) /\ SameKids(parent) BY <1>1, <1>3 DEF Follows, Grows
<1> QED BY <1>4 DEF Kids, SameKids

(* A parent that could not be marked before cannot be marked later. *)
LEMMA MayMarkGoes ==
 ASSUME Grows, NEW op \in Removes, RemoveInv(op), ~MayMark(op)
 PROVE ~MayMark(op)'
<1>1. /\ Info(op) \in RemoveInfo /\ op \in InfoIds /\ Info(op)' = Info(op)
      /\ Info(op).p \in Inner /\ Info(op).pupdate \in CleanWords
 BY DEF Grows, Removes, RemoveInfo
<1>2. /\ Info(op).pupdate = Update("CLEAN", Info(op).pupdate.info)
      /\ Info(op).pupdate.info \in InfoIds \cup {NoInfo}
      /\ Info(op).pupdate.state = "CLEAN"
 BY <1>1 DEF CleanWords, Update
<1>3. ~Flagged(Info(op).p, Info(op).pupdate.info) BY <1>2 DEF RemoveInv, Remembered
<1> QED BY <1>1, <1>2, <1>3 DEF Grows, MayMark, Word

(* What a call of Help* relies on stays true while it does not move. *)
LEMMA FramesStay ==
 ASSUME Grows, \A op \in Removes : RemoveInv(op)
 PROVE FrameSet \subseteq FrameSet'
<1>1. Adds \subseteq Adds' /\ Removes \subseteq Removes' /\ Nodes \subseteq Nodes' BY SetsGrow
<1>2. SoundWords \subseteq SoundWords' BY SoundStays, SetsGrow DEF SoundWords
<1>3. \A op \in Adds : Detached(op) => Detached(op)' BY DEF Grows
<1>4. \A op \in Removes : ~MayMark(op) => ~MayMark(op)' BY MayMarkGoes
<1>5. \A op \in Removes : ~MayMark(op) /\ ~Marked(op) => ~Marked(op)' BY DEF Grows
<1>6. \A op \in Removes : Marked(op) => Marked(op)' /\ Other(op)' = Other(op) BY MarksStay
<1>7. \A op \in Removes : Marked(op) /\ Cut(op) => Cut(op)' BY DEF Grows
<1>8. SUFFICES ASSUME NEW f \in FrameSet PROVE f \in FrameSet' OBVIOUS
<1>9. CASE f \in [at : {"insertChild"}, op : Adds] BY <1>1, <1>9 DEF FrameSet
<1>10. CASE f \in {g \in [at : {"insertUnflag"}, op : Adds] : Detached(g.op)} BY <1>1, <1>3, <1>10 DEF FrameSet
<1>11. CASE f \in [at : {"deleteRead"}, op : Removes] BY <1>1, <1>11 DEF FrameSet
<1>12. CASE f \in [at : {"deleteMark"}, op : Removes, result : SoundWords] BY <1>1, <1>2, <1>12 DEF FrameSet
<1>13. CASE f \in {g \in [at : {"deleteRecheck"}, op : Removes, result : SoundWords] : ~MayMark(g.op)}
 BY <1>1, <1>2, <1>4, <1>13 DEF FrameSet
<1>14. CASE f \in {g \in [at : {"backtrack"}, op : Removes] : ~MayMark(g.op) /\ ~Marked(g.op)}
 BY <1>1, <1>4, <1>5, <1>14 DEF FrameSet
<1>15. CASE f \in {g \in [at : {"markedOther"}, op : Removes] : Marked(g.op)} BY <1>1, <1>6, <1>15 DEF FrameSet
<1>16. CASE f \in {g \in [at : {"markedChild"}, op : Removes, other : Nodes] :
                      Marked(g.op) /\ g.other = Other(g.op)}
 BY <1>1, <1>6, <1>16 DEF FrameSet
<1>17. CASE f \in {g \in [at : {"markedUnflag"}, op : Removes] : Marked(g.op) /\ Cut(g.op)}
 BY <1>1, <1>6, <1>7, <1>17 DEF FrameSet
<1> QED BY <1>8, <1>9, <1>10, <1>11, <1>12, <1>13, <1>14, <1>15, <1>16, <1>17 DEF FrameSet

(* No node has the name NoNode, and no new node that of the first three. *)
LEMMA NoNodeIsNoNode ==
 ASSUME Shape
 PROVE  /\ NoNode \notin Nodes
        /\ \A op, k : NewNode(op, k) \notin {NoNode, Root, MinLeaf, MaxLeaf}
<1>1. \A op, k : NewNode(op, k) \notin {NoNode, Root, MinLeaf, MaxLeaf}
 BY DEF NewNode, NoNode, Root, MinLeaf, MaxLeaf
<1>2. NoNode \notin {Root, MinLeaf, MaxLeaf} BY DEF NoNode, Root, MinLeaf, MaxLeaf
<1> QED BY <1>1, <1>2 DEF Shape, NewNames

(* What a search has found stays true while others move. *)
LEMMA SearchStays ==
 ASSUME Grows, NEW s, SearchInv(s)
 PROVE SearchInv(s)'
<1>1. SoundWords \subseteq SoundWords' BY SoundStays, SetsGrow DEF SoundWords
<1>2. Searches \subseteq Searches' BY <1>1, SetsGrow DEF Searches
<1>3. s.gp \in Inner /\ Remembered(s.gp, s.gpupdate) => Remembered(s.gp, s.gpupdate)' BY RememberedStays
<1>4. s.p \in Inner /\ Remembered(s.p, s.pupdate) => Remembered(s.p, s.pupdate)' BY RememberedStays
<1>5. s \in Searches => s.gp \in Inner \cup {NoNode} /\ s.p \in Inner \cup {NoNode} BY DEF Searches
<1> QED BY <1>2, <1>3, <1>4, <1>5 DEF SearchInv

(* What is said of a thread that does not move stays true. *)
LEMMA OthersStay ==
 ASSUME GlobalInv, Grows, NEW t \in Threads, ThreadInv(t),
        pc'[t] = pc[t], search'[t] = search[t], seen'[t] = seen[t],
        stack'[t] = stack[t], call'[t] = call[t]
 PROVE ThreadInv(t)'
<1> DEFINE s == search[t]
<1>1. Nodes \subseteq Nodes' /\ Inner \subseteq Inner' /\ Leaves \subseteq Leaves' BY SetsGrow
<1>2. SearchInv(s) => SearchInv(s)' BY SearchStays
<1>3. AtUpdate(s) /\ SearchInv(s) => AtUpdate(s)'
 <2>1. SUFFICES ASSUME AtUpdate(s), SearchInv(s) PROVE AtUpdate(s)' OBVIOUS
 <2>2. s.p \in Inner => s.p # NoNode BY NoNodeIsNoNode DEF GlobalInv, Inner
 <2>3. s.p \in Inner /\ Follows(s.p, s.pupdate, s.l) => Follows(s.p, s.pupdate, s.l)'
  BY <2>1, <2>2, FollowsStays DEF SearchInv
 <2> QED BY <1>1, <2>1, <2>3 DEF AtUpdate
<1>4. AtNode(s) /\ SearchInv(s) => AtNode(s)'
 <2>1. SUFFICES ASSUME AtNode(s), SearchInv(s) PROVE AtNode(s)' OBVIOUS
 <2>2. s.gp \in Inner => s.gp # NoNode BY NoNodeIsNoNode DEF GlobalInv, Inner
 <2>3. s.gp \in Inner /\ Follows(s.gp, s.gpupdate, s.p) => Follows(s.gp, s.gpupdate, s.p)'
  BY <2>1, <2>2, FollowsStays DEF SearchInv
 <2> QED BY <1>1, <2>1, <2>3 DEF AtNode
<1>5. AtNode(s) /\ SearchInv(s) /\ AtLeaf(s, call[t]) => AtLeaf(s, call[t])'
 <2>1. SUFFICES ASSUME AtNode(s), SearchInv(s), AtLeaf(s, call[t]) PROVE AtLeaf(s, call[t])' OBVIOUS
 <2>2. s.p # NoNode /\ s.p \in Inner /\ s.l \in Nodes /\ s.p \in Nodes
  BY <2>1, NoNodeIsNoNode DEF GlobalInv, Inner, AtNode, AtLeaf, Leaves
 <2>3. Follows(s.p, s.pupdate, s.l)' BY <2>1, <2>2, FollowsStays DEF SearchInv, AtLeaf
 <2>4. tree'[s.p].key = tree[s.p].key /\ tree'[s.l].key = tree[s.l].key BY <2>2 DEF Grows
 <2> QED BY <1>1, <2>1, <2>3, <2>4 DEF AtLeaf
<1>6. stack[t] \in Seq(FrameSet) => stack[t] \in Seq(FrameSet') BY FramesStay DEF GlobalInv
<1> QED BY <1>2, <1>3, <1>4, <1>5, <1>6, SoundStays DEF ThreadInv

-----------------------------------------------------------------------------

(* What Shape says of a node and of an Info. *)
LEMMA NodeTypes ==
 ASSUME Shape
 PROVE  /\ \A n \in Nodes : tree[n].internal \in BOOLEAN /\ tree[n].key \in Bounds
        /\ \A n \in Inner :
             /\ n \in Nodes /\ tree[n] \in InnerRecords
             /\ Word(n) \in Words /\ tree[n].left \in Nodes /\ tree[n].right \in Nodes
        /\ \A n \in Leaves : n \in Nodes /\ tree[n] \in LeafRecords
        /\ \A n \in Nodes : n \in Inner <=> n \notin Leaves
 BY DEF Shape, Inner, Leaves, LeafRecords, InnerRecords, Word

(* Keys can be compared. *)
LEMMA KeysAreIntegers == Bounds \subseteq Int /\ Keys \subseteq Bounds
 BY NBBSTAssumption DEF Bounds

(* Every Info is that of an add or that of a remove. *)
LEMMA InfoTypes ==
 ASSUME Shape, NEW op \in InfoIds
 PROVE  /\ op \in Adds \cup Removes
        /\ op \in Adds => /\ Info(op) \in AddInfo /\ Info(op).p \in Inner
                          /\ Info(op).newInternal \in Inner /\ Info(op).l \in Leaves
        /\ op \in Removes => /\ Info(op) \in RemoveInfo /\ Info(op).gp \in Inner
                             /\ Info(op).p \in Inner /\ Info(op).l \in Leaves
                             /\ Info(op).pupdate \in CleanWords
<1>0. PICK t \in Threads : \E i \in 1 .. Len(infos[t]) : op = <<t, i>> BY IdsOfInfos
<1>1. PICK i \in 1 .. Len(infos[t]) : op = <<t, i>> BY <1>0
<1>2. Info(op) = infos[t][i] BY <1>1 DEF Info
<1>3. infos[t] \in Seq(AddInfo \cup RemoveInfo) BY DEF Shape
<1>4. Info(op) \in AddInfo \cup RemoveInfo BY <1>1, <1>2, <1>3
<1> QED BY <1>4 DEF Adds, Removes, AddInfo, RemoveInfo

(* A new node that nobody has seen is not seen by a search that moves on.  *)
LEMMA UnseenStays ==
 ASSUME Shape, SearchMoves, NEW op, NEW k, Unseen(NewNode(op, k)),
        \A m \in Inner' : NewNode(op, k) \notin Kids(m)'
 PROVE Unseen(NewNode(op, k))'
<1> DEFINE n == NewNode(op, k)
<1>1. n \notin {NoNode, Root} BY NoNodeIsNoNode
<1>2. \A t \in Threads : n \notin {search[t].gp, search[t].p, search[t].l} BY DEF Unseen
<1>3. \A t \in Threads : n \notin {search'[t].gp, search'[t].p, search'[t].l} BY <1>1, <1>2 DEF SearchMoves, Unseen
<1>4. n' = n BY DEF NewNode
<1> HIDE DEF n
<1> QED BY <1>3, <1>4 DEF Unseen, n

(* A step that leaves the memory alone undoes nothing. *)
LEMMA QuietGrows ==
 ASSUME UNCHANGED <<tree, infos>>
 PROVE Grows
<1>1. Nodes' = Nodes /\ InfoIds' = InfoIds /\ \A op : Info(op)' = Info(op) BY DEF Nodes, InfoIds, Info
<1>2. \A n : Word(n)' = Word(n) /\ SameKids(n) BY DEF Word, SameKids
<1>3. \A op : Detached(op)' = Detached(op) /\ Marked(op)' = Marked(op) /\ Cut(op)' = Cut(op)
 BY <1>1, <1>2 DEF Detached, Marked, Cut, Misses, Other, Kids, SameKids
<1>4. \A n, x : Flagged(n, x)' = Flagged(n, x) BY <1>2 DEF Flagged
<1> QED BY <1>1, <1>2, <1>3, <1>4 DEF Grows

(* A step that leaves the memory alone keeps what is said of it. *)
LEMMA QuietKeeps ==
 ASSUME GlobalInv, UNCHANGED <<tree, infos>>, SearchMoves
 PROVE GlobalInv'
<1>1. /\ Nodes' = Nodes /\ InfoIds' = InfoIds /\ \A op : Info(op)' = Info(op)
      /\ Inner' = Inner /\ Leaves' = Leaves
      /\ Words' = Words /\ CleanWords' = CleanWords
      /\ AddInfo' = AddInfo /\ RemoveInfo' = RemoveInfo
      /\ Adds' = Adds /\ Removes' = Removes /\ NewNames' = NewNames
 BY DEF Nodes, InfoIds, Info, Inner, Leaves, Words, CleanWords, AddInfo, RemoveInfo, Adds, Removes, NewNames
<1>2. \A n : Word(n)' = Word(n) /\ Kids(n)' = Kids(n) BY DEF Word, Kids
<1>3. \A n : Dead(n)' = Dead(n) BY <1>1, <1>2 DEF Dead
<1>4. \A u : Sound(u)' = Sound(u) BY <1>1, <1>2 DEF Sound, Marked
<1>5. Shape' BY <1>1 DEF GlobalInv, Shape, LeafRecords, InnerRecords
<1>6. WordsLead' BY <1>1, <1>2, <1>4 DEF GlobalInv, WordsLead, Leads
<1>7. KidsAreOrdered' /\ OneParent' /\ DeadBelowDead'
 BY <1>1, <1>2, <1>3 DEF GlobalInv, KidsAreOrdered, OneParent, DeadBelowDead
<1>8. SpineEnds' BY <1>1 DEF GlobalInv, SpineEnds, IsSpine
<1>9. ASSUME NEW op \in Adds PROVE AddInv(op)'
 <2>1. AddInv(op) /\ NewNode(op, "internal")' = NewNode(op, "internal") BY DEF GlobalInv, NewNode
 <2>2. Replaced(op) => Replaced(op)' BY <1>1, <1>2, <1>3 DEF Replaced, Detached
 <2>3. Pending(op) => Pending(op)'
  <3>1. ASSUME Pending(op) PROVE Unseen(Info(op).newInternal)'
   BY <1>1, <1>2, <2>1, <3>1, UnseenStays DEF GlobalInv, Pending, AddInv, Unseen
  <3> QED BY <1>1, <1>2, <3>1 DEF Pending, LeftmostStays
 <2> QED BY <1>1, <1>2, <2>1, <2>2, <2>3 DEF AddInv
<1>10. ASSUME NEW op \in Removes PROVE RemoveInv(op)'
 <2>1. RemoveInv(op) BY DEF GlobalInv
 <2>2. Marked(op)' = Marked(op) /\ Cut(op)' = Cut(op) BY <1>1, <1>2 DEF Marked, Cut, Misses, Other
 <2> QED BY <1>1, <1>2, <1>4, <2>1, <2>2 DEF RemoveInv, Remembered, Flagged
<1> QED BY <1>1, <1>5, <1>6, <1>7, <1>8, <1>9, <1>10 DEF GlobalInv

-----------------------------------------------------------------------------

(* A word has one state and one operation. *)
LEMMA FlagsAndMarks ==
    \A n, op, x : /\ Flagged(n, x) => Word(n).state \in {"IFLAG", "DFLAG"} /\ Word(n).info = x
                  /\ Marked(op) => Word(Info(op).p).state = "MARK" /\ Word(Info(op).p).info = op
 BY DEF Flagged, Marked, Update

(* A change of one word that WordMay allows undoes nothing. *)
LEMMA WordGrows ==
 ASSUME GlobalInv, NEW n \in Inner, NEW u, OnlyWord(n, u), WordMay(n, u)
 PROVE Grows
<1>1. ASSUME NEW m \in Inner, NEW x \in InfoIds \cup {NoInfo}, ~Flagged(m, x)
      PROVE  /\ ~Flagged(m, x)'
             /\ Word(m) # Update("CLEAN", x) => Word(m)' # Update("CLEAN", x)
 <2>1. CASE m # n BY <1>1, <2>1 DEF OnlyWord, Flagged
 <2>2. CASE m = n
  <3>1. Word(m)' = u BY <2>2 DEF OnlyWord
  <3>2. u # Update("IFLAG", x) /\ u # Update("DFLAG", x) BY DEF WordMay, Update
  <3>3. u # Update("CLEAN", x) BY <1>1, <2>2 DEF WordMay, Update
  <3> QED BY <3>1, <3>2, <3>3 DEF Flagged
 <2> QED BY <2>1, <2>2
<1>2. ASSUME NEW op \in InfoIds, Info(op).p \in Inner, Marked(op)', ~Marked(op)
      PROVE op = u.info /\ MayMark(op)
 <2>1. Info(op)' = Info(op) /\ Word(Info(op).p)' = Update("MARK", op) BY <1>2 DEF OnlyWord, Marked, Word
 <2>2. Info(op).p = n /\ u = Update("MARK", op) BY <1>2, <2>1 DEF OnlyWord, Marked
 <2> QED BY <2>2 DEF WordMay, Update
<1>3. ASSUME NEW op \in Adds, Detached(op) PROVE Detached(op)'
 BY <1>3 DEF OnlyWord, Adds, AddInfo, Detached, Kids, SameKids
<1>4. ASSUME NEW op \in Removes, Marked(op), Cut(op) PROVE Cut(op)'
 <2>1. Info(op) \in RemoveInfo /\ Info(op)' = Info(op) BY DEF Removes, OnlyWord
 <2>2. SameKids(Info(op).p) /\ SameKids(Info(op).gp) BY <2>1 DEF RemoveInfo, OnlyWord
 <2>3. Info(op).p \in Inner /\ Info(op).gp \in Nodes /\ Info(op).p \in Nodes BY <2>1 DEF RemoveInfo, Inner
 <2>4. Other(op)' = Other(op) /\ Other(op) \in Nodes BY <2>1, <2>2, <2>3, NodeTypes DEF GlobalInv, Other, SameKids
 <2>5. Misses(op)' = Misses(op) BY <2>1, <2>3, <2>4 DEF OnlyWord, Misses
 <2> QED BY <1>4, <2>1, <2>2, <2>5 DEF Cut, Kids, SameKids
<1>5. ASSUME NEW m \in Inner, Word(m).state = "MARK" PROVE Word(m)' = Word(m) BY <1>5 DEF OnlyWord, WordMay
<1>6. \A op \in Removes : op \in InfoIds /\ Info(op).p \in Inner BY DEF Removes, RemoveInfo
<1> QED BY <1>1, <1>2, <1>3, <1>4, <1>5, <1>6 DEF Grows, OnlyWord

(* A change of one word that WordMay allows leaves the dead nodes dead, and only them. *)
LEMMA WordKeepsDead ==
 ASSUME GlobalInv, NEW n \in Inner, NEW u, OnlyWord(n, u), WordMay(n, u)
 PROVE \A m \in Inner : Dead(m)' = Dead(m)
<1>1. SUFFICES ASSUME NEW m \in Inner PROVE Dead(m)' = Dead(m) OBVIOUS
<1>2. CASE m # n
 <2>1. Word(m)' = Word(m) BY <1>2 DEF OnlyWord
 <2>2. Word(m).state = "MARK" => /\ Word(m).info \in InfoIds
                                 /\ Info(Word(m).info).gp \in Inner
  BY InfoTypes DEF GlobalInv, WordsLead, Leads, Sound, Removes
 <2>3. ASSUME Word(m).state = "MARK"
       PROVE  /\ Info(Word(m).info)' = Info(Word(m).info)
              /\ Kids(Info(Word(m).info).gp)' = Kids(Info(Word(m).info).gp)
  BY <2>1, <2>2, <2>3, Zenon DEF OnlyWord, Kids, SameKids, Info
 <2> QED BY <2>1, <2>3 DEF Dead
<1>3. CASE m = n
 <2>1. ~Dead(n) BY DEF Dead, WordMay
 <2>2. ASSUME u.state = "MARK" PROVE n \in Kids(Info(u.info).gp)'
  <3>1. u.info \in Removes /\ MayMark(u.info) /\ Info(u.info).p = n BY <2>2 DEF WordMay
  <3>2. /\ n \in Kids(Info(u.info).gp) /\ u.info \in InfoIds
        /\ Info(u.info).gp \in Inner
   BY <3>1 DEF GlobalInv, RemoveInv, MayMark, Removes, RemoveInfo
  <3> QED BY <3>2 DEF OnlyWord, Kids, SameKids
 <2>3. Word(n)' = u /\ (u.state = "MARK" => Info(u.info)' = Info(u.info)) BY DEF OnlyWord, WordMay, Removes
 <2> QED BY <1>3, <2>1, <2>2, <2>3 DEF Dead, Info
<1> QED BY <1>2, <1>3

(* What is said of the adds survives the change of one word. *)
LEMMA WordKeepsAdds ==
 ASSUME GlobalInv, SearchMoves, NEW n \in Inner, NEW u, OnlyWord(n, u), WordMay(n, u)
 PROVE \A op \in Adds : AddInv(op)'
<1>1. SUFFICES ASSUME NEW op \in Adds PROVE AddInv(op)' OBVIOUS
<1> DEFINE i == Info(op)
<1>2. /\ op \in InfoIds /\ i' = i /\ AddInv(op)
      /\ i.p \in Inner /\ i.newInternal \in Inner /\ i.l \in Leaves
      /\ i.p \in Nodes /\ i.newInternal \in Nodes /\ i.l \in Nodes
 BY InfoTypes, NodeTypes DEF Adds, OnlyWord, GlobalInv
<1>3. NewNode(op, "internal")' = NewNode(op, "internal") BY DEF NewNode
<1>4. \A m \in Inner' : \A c \in Nodes : c \in Kids(m)' => m \in Inner /\ c \in Kids(m)
 BY DEF OnlyWord, Kids, SameKids
<1>5. ASSUME Pending(op) PROVE Pending(op)'
 <2>1. i.newInternal # n /\ Word(i.newInternal)' = NullUpdate BY <1>2, <1>5 DEF WordMay, OnlyWord, Pending
 <2>2. i.p # n BY <1>5 DEF Pending, Detached, WordMay
 <2>3. Word(i.p)' = Update("IFLAG", op) /\ i.l \in Kids(i.p)'
  BY <1>2, <1>5, <2>2 DEF OnlyWord, Pending, Kids, SameKids
 <2>4. Unseen(i.newInternal) /\ i.newInternal = NewNode(op, "internal") BY <1>2, <1>5 DEF Pending, AddInv
 <2>5. Unseen(NewNode(op, "internal"))'
  <3>1. \A m \in Inner' : NewNode(op, "internal") \notin Kids(m)' BY <1>2, <1>4, <2>4 DEF Unseen
  <3> QED BY <2>4, <3>1, UnseenStays DEF GlobalInv
 <2>6. LeftmostStays(op)'
  <3>1. tree[i.newInternal].left \in Nodes /\ tree'[i.newInternal].left = tree[i.newInternal].left
   BY <1>2, NodeTypes DEF OnlyWord, SameKids, GlobalInv
  <3> QED BY <1>2, <1>5, <3>1 DEF Pending, LeftmostStays, OnlyWord
 <2> QED BY <1>2, <1>3, <2>1, <2>3, <2>4, <2>5, <2>6 DEF Pending, Word, Kids, Unseen
<1>6. ASSUME Replaced(op) PROVE Replaced(op)'
 <2>1. Detached(op)' BY <1>2, <1>6 DEF Replaced, Detached, OnlyWord, Kids, SameKids
 <2>2. \A m \in Inner' : i.l \in Kids(m)' => Dead(m)' BY <1>2, <1>4, <1>6, WordKeepsDead DEF Replaced
 <2> QED BY <1>2, <2>1, <2>2 DEF Replaced
<1>7. /\ tree'[i.newInternal].key = tree[i.newInternal].key
      /\ tree'[i.p].key = tree[i.p].key /\ tree'[i.l].key = tree[i.l].key
 BY <1>2 DEF OnlyWord
<1> QED BY <1>2, <1>3, <1>5, <1>6, <1>7 DEF AddInv

(* What is said of the removes survives the change of one word. *)
LEMMA WordKeepsRemoves ==
 ASSUME GlobalInv, NEW n \in Inner, NEW u, OnlyWord(n, u), WordMay(n, u)
 PROVE \A op \in Removes : RemoveInv(op)'
<1>1. SUFFICES ASSUME NEW op \in Removes PROVE RemoveInv(op)' OBVIOUS
<1> DEFINE i == Info(op)
<1>2. /\ op \in InfoIds /\ i' = i /\ RemoveInv(op) /\ i.pupdate.state = "CLEAN"
      /\ i.p \in Inner /\ i.gp \in Inner /\ i.l \in Nodes
 BY InfoTypes, NodeTypes DEF Removes, OnlyWord, GlobalInv, CleanWords
<1>3. Grows BY WordGrows
<1>4. Remembered(i.p, i.pupdate)' BY <1>2, <1>3, RememberedStays DEF RemoveInv
<1>5. \A m \in Inner : Kids(m)' = Kids(m) BY DEF OnlyWord, Kids, SameKids
<1>6. ASSUME Word(i.p)' = i.pupdate
      PROVE Word(i.gp)' = Update("DFLAG", op) /\ i.p \in Kids(i.gp)' /\ i.l \in Kids(i.p)'
 <2>1. MayMark(op) BY <1>2, <1>3, <1>6, MayMarkGoes DEF MayMark, Word
 <2>2. Word(i.gp) = Update("DFLAG", op) /\ i.p \in Kids(i.gp) /\ i.l \in Kids(i.p)
  BY <1>2, <2>1 DEF RemoveInv, MayMark
 <2>3. i.gp # n BY <2>1, <2>2 DEF WordMay
 <2> QED BY <1>2, <1>5, <2>2, <2>3 DEF OnlyWord
<1>7. ASSUME Marked(op)'
      PROVE i.l \in Kids(i.p)' /\ (Word(i.gp)' = Update("DFLAG", op) \/ Cut(op)')
 <2>1. CASE Marked(op)
  <3>1. Marked(op) /\ Cut(op) => Cut(op)' BY <1>3 DEF Grows
  <3>2. i.l \in Kids(i.p)' /\ (Word(i.gp) = Update("DFLAG", op) \/ Cut(op)) BY <1>2, <1>5, <2>1 DEF RemoveInv
  <3> QED BY <1>2, <2>1, <3>1, <3>2 DEF WordMay, OnlyWord
 <2>2. CASE ~Marked(op)
  <3>1. Word(i.p)' = Update("MARK", op) BY <1>2, <1>7 DEF Marked, Word
  <3>2. i.p = n /\ u = Update("MARK", op) BY <1>2, <2>2, <3>1 DEF OnlyWord, Marked
  <3>3. MayMark(op) BY <3>2 DEF WordMay, Update
  <3>4. Word(i.gp) = Update("DFLAG", op) /\ i.l \in Kids(i.p) /\ Word(n).state = "CLEAN"
   BY <1>2, <3>2, <3>3 DEF RemoveInv, MayMark
  <3>5. i.gp # n BY <3>4 DEF Update
  <3> QED BY <1>2, <1>5, <3>4, <3>5 DEF OnlyWord
 <2> QED BY <2>1, <2>2
<1>8. tree'[i.l].key = tree[i.l].key BY <1>2 DEF OnlyWord
<1>9. (Marked(op) => i.l \in Kids(i.p) /\ (Word(i.gp) = Update("DFLAG", op) \/ Cut(op)))'
 BY <1>2, <1>7 DEF Kids, Word
<1>10. (Word(i.p) = i.pupdate =>
           Word(i.gp) = Update("DFLAG", op) /\ i.p \in Kids(i.gp) /\ i.l \in Kids(i.p))'
 BY <1>2, <1>6 DEF Kids, Word
<1> QED BY <1>2, <1>4, <1>8, <1>9, <1>10 DEF RemoveInv, Remembered, Flagged, Word

(* What a store of an update word changes, and what not. *)
LEMMA SetsWord ==
 ASSUME Shape, InfosStay, NEW n \in Inner, NEW u, SetUpdate(n, u)
 PROVE  /\ OnlyWord(n, u)
        /\ Nodes' = Nodes /\ Inner' = Inner /\ Leaves' = Leaves
        /\ \A m \in Nodes : tree'[m] = IF m = n THEN [tree[m] EXCEPT !.update = u] ELSE tree[m]
<1>1. Nodes' = Nodes /\ n \in Nodes BY NodeTypes DEF Nodes, SetUpdate
<1>2. \A m \in Nodes : tree'[m] = IF m = n THEN [tree[m] EXCEPT !.update = u] ELSE tree[m]
 BY <1>1, NodeTypes DEF Nodes, SetUpdate
<1>3. PICK r \in InnerRecords : r = tree[n] /\ tree'[n] = [r EXCEPT !.update = u] BY <1>1, <1>2, NodeTypes
<1>4. /\ tree'[n].internal = tree[n].internal /\ tree'[n].key = tree[n].key
      /\ tree'[n].left = tree[n].left /\ tree'[n].right = tree[n].right /\ tree'[n].update = u
 BY <1>1, <1>2, <1>3 DEF InnerRecords
<1>5. Inner' = Inner /\ Leaves' = Leaves BY <1>1, <1>2, <1>4 DEF Inner, Leaves
<1>6. \A m \in Inner : m \in Nodes BY DEF Inner
<1>7. OnlyWord(n, u) BY <1>1, <1>2, <1>4, <1>5, <1>6 DEF OnlyWord, SameKids, Word, InfosStay
<1> QED BY <1>1, <1>2, <1>5, <1>7

(* A change of one word that WordMay allows keeps the invariant. *)
LEMMA WordKeepsTree ==
 ASSUME GlobalInv, InfosStay, SearchMoves, NEW n \in Inner, NEW u, WordMay(n, u), SetUpdate(n, u),
        infos' \in [Threads -> Seq(AddInfo \cup RemoveInfo)],
        Leads(u, n)'
 PROVE  /\ Grows /\ Inner' = Inner
        /\ Shape' /\ WordsLead' /\ KidsAreOrdered'
        /\ OneParent' /\ DeadBelowDead' /\ SpineEnds'
        /\ \A op \in Adds : AddInv(op)'
        /\ \A op \in Removes : RemoveInv(op)'
<1>1. /\ OnlyWord(n, u)
      /\ Nodes' = Nodes /\ Inner' = Inner /\ Leaves' = Leaves
      /\ \A m \in Nodes : tree'[m] = IF m = n THEN [tree[m] EXCEPT !.update = u] ELSE tree[m]
 BY SetsWord DEF GlobalInv
<1>2. Grows BY <1>1, WordGrows
<1>3. Shape'
 <2>1. tree' \in [Nodes' -> LeafRecords' \cup InnerRecords']
  <3>2. tree' = [m \in Nodes' |-> tree'[m]] BY DEF Nodes, SetUpdate
  <3>3. ASSUME NEW m \in Nodes PROVE tree'[m] \in LeafRecords' \cup InnerRecords'
   <4>1. CASE m = n
    <5>1. PICK r \in InnerRecords : tree'[m] = [r EXCEPT !.update = u] BY <1>1, <4>1, NodeTypes DEF GlobalInv
    <5>2. u \in Words' /\ Bounds' = Bounds BY DEF Bounds, Leads, Sound
    <5> QED BY <1>1, <5>1, <5>2 DEF InnerRecords
   <4>2. CASE m # n
    <5>1. tree'[m] = tree[m] /\ tree[m] \in LeafRecords \cup InnerRecords BY <1>1, <4>2 DEF GlobalInv, Shape
    <5>2. Words \subseteq Words' /\ Bounds' = Bounds BY <1>2, SetsGrow DEF Bounds
    <5>3. LeafRecords \subseteq LeafRecords' /\ InnerRecords \subseteq InnerRecords'
     BY <1>1, <5>2 DEF InnerRecords, LeafRecords
    <5> QED BY <5>1, <5>3
   <4> QED BY <4>1, <4>2
  <3> QED BY <1>1, <3>2, <3>3
 <2>2. AddInfo \subseteq AddInfo' /\ RemoveInfo \subseteq RemoveInfo' BY <1>2, SetsGrow
 <2>3. infos' \in [Threads -> Seq(AddInfo' \cup RemoveInfo')] BY <2>2
 <2>4. Root \in Inner' /\ tree'[Root].key = MaxKey BY <1>1, <1>2 DEF GlobalInv, Shape, Grows, Inner
 <2>5. NewNames \subseteq NewNames' BY <1>2 DEF NewNames, Grows, NewNode
 <2> QED BY <1>1, <2>1, <2>3, <2>4, <2>5 DEF Shape, GlobalInv
<1>4. WordsLead'
 <2>1. ASSUME NEW m \in Inner PROVE Leads(Word(m), m)'
  <3>1. PICK w : w = tree'[m].update OBVIOUS
  <3>2. Leads(w, m)'
   <4>1. CASE m = n BY <1>1, <3>1, <4>1 DEF OnlyWord, Word
   <4>2. CASE m # n
    <5>1. w = Word(m) BY <1>1, <3>1, <4>2 DEF OnlyWord, Word
    <5>2. Leads(w, m) BY <5>1 DEF GlobalInv, WordsLead
    <5> QED BY <1>2, <5>2, LeadsStays
   <4> QED BY <4>1, <4>2
  <3> QED BY <3>1, <3>2, Zenon DEF Leads, Sound, Word, Marked, Info
 <2> QED BY <1>1, <2>1 DEF WordsLead
<1>5. \A m \in Inner : Kids(m)' = Kids(m) /\ SameKids(m) BY <1>1 DEF OnlyWord, Kids, SameKids
<1>6. KidsAreOrdered' BY <1>1, <1>5, NodeTypes DEF GlobalInv, KidsAreOrdered, OnlyWord, SameKids
<1>7. \A m \in Inner : Dead(m)' = Dead(m) BY <1>1, WordKeepsDead
<1>8. OneParent' /\ DeadBelowDead' BY <1>1, <1>5, <1>7 DEF GlobalInv, OneParent, DeadBelowDead
<1>9. SpineEnds'
 <2>1. PICK S \in SUBSET Nodes : IsSpine(S) BY DEF GlobalInv, SpineEnds
 <2>2. IsSpine(S)'
  <3>1. ASSUME NEW m \in S
        PROVE IF tree'[m].internal THEN tree'[m].left \in S ELSE tree'[m].key = MinKey
   <4>1. tree'[m].internal = tree[m].internal /\ tree'[m].key = tree[m].key BY <1>1, <2>1 DEF OnlyWord
   <4>2. tree[m].internal => tree'[m].left = tree[m].left BY <1>5, <2>1 DEF Inner, SameKids
   <4> QED BY <2>1, <4>1, <4>2 DEF IsSpine
  <3> QED BY <2>1, <3>1 DEF IsSpine
 <2> QED BY <1>1, <2>2 DEF SpineEnds
<1> QED BY <1>1, <1>2, <1>3, <1>4, <1>6, <1>8, <1>9, WordKeepsAdds, WordKeepsRemoves

(* Such a step follows the protocol if the word does. *)
LEMMA WordNodeSteps ==
 ASSUME NEW n \in Inner, NEW u, OnlyWord(n, u), WordStep(Word(n), u)
 PROVE \A m \in Inner : NodeStep(m)
 BY DEF OnlyWord, SameKids, NodeStep, Word

(* The Infos that were published stay what they are. *)
LEMMA SameInfos ==
 ASSUME UNCHANGED infos, Nodes' = Nodes, Inner' = Inner, Leaves' = Leaves
 PROVE  /\ InfoIds' = InfoIds /\ InfosStay /\ Words' = Words
        /\ AddInfo' = AddInfo /\ RemoveInfo' = RemoveInfo
        /\ Adds' = Adds /\ Removes' = Removes
<1>1. InfoIds' = InfoIds /\ \A op : Info(op)' = Info(op) BY DEF InfoIds, Info
<1>2. AddInfo' = AddInfo /\ RemoveInfo' = RemoveInfo /\ Words' = Words
 BY <1>1 DEF AddInfo, RemoveInfo, CleanWords, Words
<1> QED BY <1>1, <1>2 DEF Adds, Removes, InfosStay

(* The CAS back to CLEAN by InsertUnflag, Backtrack and MarkedUnflag. *)
LEMMA UnflagKeeps ==
 ASSUME GlobalInv, SearchMoves, UNCHANGED infos,
        NEW op \in InfoIds, Done(op), NEW n \in Inner, NEW from \in {"IFLAG", "DFLAG"},
        CASState(n, op, from, "CLEAN")
 PROVE Grows /\ GlobalInv' /\ \A m \in Inner : NodeStep(m)
<1>1. CASE Word(n) # Update(from, op)
 <2>1. UNCHANGED <<tree, infos>> BY <1>1 DEF CASState, Word
 <2> QED BY <2>1, QuietGrows, QuietKeeps DEF NodeStep
<1>2. CASE Word(n) = Update(from, op)
 <2> DEFINE u == Update("CLEAN", op)
 <2>1. SetUpdate(n, u) BY <1>2 DEF CASState, Word
 <2>2. Word(n).state = from /\ Word(n).info = op /\ u.state = "CLEAN" /\ u.info = op BY <1>2 DEF Update
 <2>3. InfosStay /\ Shape /\ infos \in [Threads -> Seq(AddInfo \cup RemoveInfo)]
  BY DEF InfosStay, InfoIds, Info, GlobalInv, Shape
 <2> HIDE DEF u
 <2>4. /\ OnlyWord(n, u) /\ Nodes' = Nodes /\ Inner' = Inner /\ Leaves' = Leaves BY <2>1, <2>3, SetsWord
 <2>5. Adds \cap Removes = {}
  <3>1. \A o \in Adds : DOMAIN Info(o) = {"p", "newInternal", "l"} BY DEF Adds, AddInfo
  <3>2. \A o \in Removes : DOMAIN Info(o) = {"gp", "p", "l", "pupdate"} BY DEF Removes, RemoveInfo
  <3>3. "gp" \notin {"p", "newInternal", "l"} OBVIOUS
  <3> QED BY <3>1, <3>2, <3>3
 <2>7. WordMay(n, u)
  <3>1. \A o \in Adds : Word(n) = Update("IFLAG", o) => Detached(o) BY <1>2, <2>2, <2>5 DEF Done, Update
  <3>2. \A o \in Removes :
          Word(n) = Update("DFLAG", o) => ~MayMark(o) /\ (Marked(o) => Cut(o))
   BY <1>2, <2>2, <2>5 DEF Done, Update
  <3>3. \A o \in Adds : Pending(o) => Info(o).newInternal # n BY <2>2 DEF Pending, NullUpdate, Update
  <3>4. Flagged(n, op) BY <1>2 DEF Flagged
  <3> QED BY <2>2, <3>1, <3>2, <3>3, <3>4 DEF WordMay
 <2>8. Leads(u, n)'
  <3>1. u \in Words' BY <2>4, SameInfos DEF u, Words, Update, States
  <3> QED BY <2>2, <3>1 DEF Leads, Sound
 <2>9. infos' \in [Threads -> Seq(AddInfo \cup RemoveInfo)] BY <2>3
 <2>10. /\ Grows /\ Shape' /\ WordsLead' /\ KidsAreOrdered'
        /\ OneParent' /\ DeadBelowDead' /\ SpineEnds'
        /\ \A o \in Adds : AddInv(o)'
        /\ \A o \in Removes : RemoveInv(o)'
  BY <2>1, <2>3, <2>7, <2>8, <2>9, WordKeepsTree
 <2>11. Adds' = Adds /\ Removes' = Removes BY <2>4, SameInfos
 <2>12. GlobalInv' BY <2>10, <2>11 DEF GlobalInv
 <2>13. WordStep(Word(n), u) BY <2>2 DEF WordStep, u
 <2> QED BY <2>4, <2>10, <2>12, <2>13, WordNodeSteps
<1> QED BY <1>1, <1>2

(* The mark of a parent that still has the word that was read. *)
LEMMA MarkKeeps ==
 ASSUME GlobalInv, SearchMoves, UNCHANGED infos,
        NEW op \in Removes, MayMark(op), SetUpdate(Info(op).p, Update("MARK", op))
 PROVE Grows /\ GlobalInv' /\ Marked(op)' /\ \A m \in Inner : NodeStep(m)
<1>1. PICK n : n = Info(op).p OBVIOUS
<1>2. PICK u : u = Update("MARK", op) /\ u.state = "MARK" /\ u.info = op BY DEF Update
<1>3. SetUpdate(n, u) BY <1>1, <1>2
<1>4. InfosStay /\ Shape /\ infos' \in [Threads -> Seq(AddInfo \cup RemoveInfo)]
 BY DEF InfosStay, InfoIds, Info, GlobalInv, Shape
<1>5. /\ op \in InfoIds /\ n \in Inner /\ Info(op).pupdate \in CleanWords
      /\ Info(op).gp \in Inner
 BY <1>1, <1>4, InfoTypes DEF Removes
<1>6. /\ Word(n) = Info(op).pupdate /\ Word(n).state = "CLEAN"
      /\ n \in Kids(Info(op).gp)
 BY <1>1, <1>5 DEF MayMark, CleanWords, GlobalInv, RemoveInv
<1>7. WordMay(n, u)
 <2>1. \A o : Word(n) # Update("IFLAG", o) /\ Word(n) # Update("DFLAG", o) BY <1>6 DEF Update
 <2>2. \A o \in Adds : Pending(o) => Info(o).newInternal # n BY <1>5, <1>6 DEF Pending, Unseen
 <2> QED BY <1>1, <1>2, <1>6, <2>1, <2>2 DEF WordMay
<1>8. /\ OnlyWord(n, u) /\ Nodes' = Nodes /\ Inner' = Inner /\ Leaves' = Leaves BY <1>3, <1>4, <1>5, SetsWord
<1>9. Adds' = Adds /\ Removes' = Removes /\ Words' = Words /\ InfoIds' = InfoIds /\ Info(op)' = Info(op)
 BY <1>8, SameInfos DEF InfosStay, Removes
<1>10. Marked(op)' BY <1>1, <1>2, <1>5, <1>8, <1>9 DEF Marked, OnlyWord, Word
<1>11. Leads(u, n)'
 <2>1. u \in Words' BY <1>2, <1>5, <1>9 DEF Words, Update, States
 <2> QED BY <1>1, <1>2, <1>9, <1>10, <2>1 DEF Leads, Sound, Info
<1>12. /\ Grows /\ Shape' /\ WordsLead' /\ KidsAreOrdered'
       /\ OneParent' /\ DeadBelowDead' /\ SpineEnds'
       /\ \A o \in Adds : AddInv(o)'
       /\ \A o \in Removes : RemoveInv(o)'
 BY <1>3, <1>4, <1>5, <1>7, <1>11, WordKeepsTree
<1>13. GlobalInv' BY <1>9, <1>12 DEF GlobalInv
<1>14. WordStep(Word(n), u) BY <1>2, <1>6 DEF WordStep
<1> QED BY <1>5, <1>8, <1>10, <1>12, <1>13, <1>14, WordNodeSteps

(* The flag of a remove, with its new Info. *)
LEMMA RemoveFlagKeeps ==
 ASSUME GlobalInv, SearchMoves, NEW t \in Threads, NEW op, op = NewInfo(t),
        NEW rec \in RemoveInfo, infos' = [infos EXCEPT ![t] = Append(@, rec)],
        SetUpdate(rec.gp, Update("DFLAG", op)), Word(rec.gp).state = "CLEAN",
        \A o \in Adds : Pending(o) => Info(o).newInternal # rec.gp,
        tree[rec.l].key \in Keys, Remembered(rec.p, rec.pupdate),
        rec.p \in Kids(rec.gp), Word(rec.p) = rec.pupdate => rec.l \in Kids(rec.p)
 PROVE Grows /\ GlobalInv' /\ op \in Removes' /\ \A m \in Inner : NodeStep(m)
<1>1. PICK n : n = rec.gp OBVIOUS
<1>2. PICK u : u = Update("DFLAG", op) /\ u.state = "DFLAG" /\ u.info = op BY DEF Update
<1>3. /\ InfoIds' = InfoIds \cup {op} /\ op \notin InfoIds
      /\ Info(op)' = rec /\ \A x \in InfoIds : Info(x)' = Info(x)
 BY NewInfoIsNew DEF GlobalInv
<1>4. InfosStay /\ Shape /\ SetUpdate(n, u) BY <1>1, <1>2, <1>3 DEF InfosStay, GlobalInv
<1>5. infos' \in [Threads -> Seq(AddInfo \cup RemoveInfo)] BY DEF GlobalInv, Shape
<1>6. /\ n \in Inner /\ rec.p \in Inner /\ rec.l \in Leaves
      /\ rec.pupdate \in CleanWords
 BY <1>1 DEF RemoveInfo
<1>7. op # NoInfo BY DEF NewInfo, NoInfo
<1>8. WordMay(n, u)
 <2>1. \A o : Word(n) # Update("IFLAG", o) /\ Word(n) # Update("DFLAG", o) BY <1>1 DEF Update
 <2> QED BY <1>1, <1>2, <1>3, <1>7, <2>1 DEF WordMay
<1>9. /\ OnlyWord(n, u) /\ Nodes' = Nodes /\ Inner' = Inner /\ Leaves' = Leaves BY <1>4, <1>6, SetsWord
<1>10. Grows BY <1>6, <1>8, <1>9, WordGrows
<1>11. AddInfo' = AddInfo /\ RemoveInfo \subseteq RemoveInfo' /\ Removes \subseteq Removes'
 BY <1>9, <1>10, SetsGrow DEF AddInfo
<1>12. op \in Removes' BY <1>3, <1>11 DEF Removes, Info
<1>13. Leads(u, n)'
 <2>1. u \in Words' BY <1>2, <1>3 DEF Words, Update, States
 <2> QED BY <1>1, <1>2, <1>3, <1>12, <2>1 DEF Leads, Sound, Info
<1>14. /\ Shape' /\ WordsLead' /\ KidsAreOrdered'
       /\ OneParent' /\ DeadBelowDead' /\ SpineEnds'
       /\ \A o \in Adds : AddInv(o)'
       /\ \A o \in Removes : RemoveInv(o)'
 BY <1>4, <1>5, <1>6, <1>8, <1>13, WordKeepsTree
<1>15. \A o \in Adds' : o \in Adds
 <2>1. rec \notin AddInfo
  <3>1. rec \in AddInfo => DOMAIN rec = {"p", "newInternal", "l"} BY DEF AddInfo
  <3>2. DOMAIN rec = {"gp", "p", "l", "pupdate"} BY DEF RemoveInfo
  <3>3. "gp" \notin {"p", "newInternal", "l"} OBVIOUS
  <3> QED BY <3>1, <3>2, <3>3
 <2>2. \A o : o \in Adds' => o \in InfoIds' /\ Info(o)' \in AddInfo BY <1>11 DEF Adds
 <2>3. \A o \in InfoIds : Info(o) \in AddInfo => o \in Adds BY DEF Adds
 <2> QED BY <1>3, <2>1, <2>2, <2>3
<1>16. \A o \in Removes' : o \in Removes \/ o = op
 <2>1. ASSUME NEW o \in InfoIds, Info(o) \in RemoveInfo' PROVE Info(o) \in RemoveInfo
  <3>1. Info(o) \in AddInfo \/ Info(o) \in RemoveInfo BY <1>4, InfoTypes DEF Adds, Removes
  <3>2. Info(o) \in AddInfo => Info(o) \notin RemoveInfo'
   <4>1. Info(o) \in AddInfo => DOMAIN Info(o) = {"p", "newInternal", "l"} BY DEF AddInfo
   <4>2. DOMAIN Info(o) = {"gp", "p", "l", "pupdate"} BY <2>1 DEF RemoveInfo
   <4>3. "gp" \notin {"p", "newInternal", "l"} OBVIOUS
   <4> QED BY <4>1, <4>2, <4>3
  <3> QED BY <2>1, <3>1, <3>2
 <2> QED BY <1>3, <2>1 DEF Removes, Info
<1>17. RemoveInv(op)'
 <2>1. tree'[rec.l].key \in Keys BY <1>6, <1>10 DEF Grows, Leaves
 <2>2. Remembered(rec.p, rec.pupdate)' BY <1>6, <1>10, RememberedStays
 <2>3. \A m \in Inner : Kids(m)' = Kids(m) BY <1>9 DEF OnlyWord, Kids, SameKids
 <2>4. Word(n)' = u /\ \A m \in Inner : m # n => Word(m)' = Word(m) BY <1>6, <1>9 DEF OnlyWord
 <2>5. Word(rec.p)' = rec.pupdate =>
         Word(n)' = u /\ rec.p \in Kids(n)' /\ rec.l \in Kids(rec.p)'
  <3>1. ASSUME Word(rec.p)' = rec.pupdate PROVE rec.l \in Kids(rec.p)
   <4>1. rec.p # n BY <1>2, <1>6, <2>4, <3>1 DEF CleanWords
   <4> QED BY <1>6, <2>4, <3>1, <4>1
  <3> QED BY <1>1, <1>6, <2>3, <2>4, <3>1
 <2>6. Word(rec.p)' # Update("MARK", op)
  <3>1. CASE rec.p = n BY <1>2, <2>4, <3>1 DEF Update
  <3>2. CASE rec.p # n
   <4>1. Word(rec.p)' = Word(rec.p) /\ Sound(Word(rec.p)) BY <1>6, <2>4, <3>2 DEF GlobalInv, WordsLead, Leads
   <4>2. Word(rec.p).info \in InfoIds \cup {NoInfo} BY <4>1 DEF Sound, Words
   <4> QED BY <1>3, <1>7, <4>1, <4>2 DEF Update
  <3> QED BY <3>1, <3>2
 <2>7. (Word(Info(op).p) = Info(op).pupdate =>
          Word(Info(op).gp) = Update("DFLAG", op) /\ Info(op).p \in Kids(Info(op).gp)
          /\ Info(op).l \in Kids(Info(op).p))'
  BY <1>1, <1>2, <1>3, <2>5, Zenon DEF Word, Kids, Info
 <2>8. ~Marked(op)' BY <1>3, <2>6, Zenon DEF Marked, Word, Info
 <2>9. Remembered(Info(op).p, Info(op).pupdate)' BY <1>3, <2>2, Zenon DEF Remembered, Sound, Flagged, Word, Info, Marked
 <2>10. (tree[Info(op).l].key \in Keys)' BY <1>3, <2>1 DEF Info
 <2> QED BY <2>7, <2>8, <2>9, <2>10 DEF RemoveInv
<1>18. GlobalInv' BY <1>14, <1>15, <1>16, <1>17 DEF GlobalInv
<1>19. WordStep(Word(n), u) BY <1>1, <1>2 DEF WordStep
<1> QED BY <1>6, <1>9, <1>10, <1>12, <1>18, <1>19, WordNodeSteps

-----------------------------------------------------------------------------

(* The nodes of a new Info are new. *)
LEMMA NamesAreNew ==
 ASSUME Shape, NEW t \in Threads, NEW op, op = NewInfo(t), op \notin InfoIds, NEW kind
 PROVE NewNode(op, kind) \notin Nodes
<1>1. SUFFICES ASSUME NewNode(op, kind) \in NewNames PROVE FALSE BY NoNodeIsNoNode DEF Shape
<1>2. PICK o \in InfoIds : \E k \in {"leaf", "sibling", "internal"} : NewNode(op, kind) = NewNode(o, k)
 BY <1>1 DEF NewNames
<1>3. op[1] = o[1] /\ op[2] = o[2] BY <1>2 DEF NewNode
<1>4. op = <<op[1], op[2]>> BY DEF NewInfo
<1>5. o = <<o[1], o[2]>> BY IdsOfInfos
<1> QED BY <1>3, <1>4, <1>5

(* The tree after the flag of an add, node by node. *)
LEMMA FlagsAddNodes ==
 ASSUME Shape, NEW t \in Threads, NEW op, op = NewInfo(t), op \notin InfoIds,
        NEW p \in Inner, NEW key, NEW oldKey, FlagsAdd(p, op, key, oldKey),
        NEW leaf, leaf = NewNode(op, "leaf"), NEW sibling, sibling = NewNode(op, "sibling"),
        NEW internal, internal = NewNode(op, "internal"), NEW u, u = Update("IFLAG", op)
 PROVE  /\ Nodes' = Nodes \cup {leaf, sibling, internal}
        /\ {leaf, sibling, internal} \cap Nodes = {}
        /\ leaf # sibling /\ leaf # internal /\ sibling # internal
        /\ \A m \in Nodes : tree'[m] = IF m = p THEN [tree[m] EXCEPT !.update = u] ELSE tree[m]
        /\ tree'[leaf] = Leaf(key) /\ tree'[sibling] = Leaf(oldKey)
        /\ tree'[internal] = Sides(op, key, oldKey)
        /\ tree' = [m \in Nodes' |-> tree'[m]]
<1> DEFINE new == NewSubtree(op, key, oldKey)
<1> DEFINE old == [tree EXCEPT ![p].update = u]
<1>1. {leaf, sibling, internal} \cap Nodes = {} BY NamesAreNew
<1>2. leaf # sibling /\ leaf # internal /\ sibling # internal BY DEF NewNode
<1>3. {NewNode(op, kind) : kind \in {"leaf", "sibling", "internal"}} = {leaf, sibling, internal} OBVIOUS
<1>4. new = [n \in {leaf, sibling, internal} |->
               CASE n = leaf -> Leaf(key)
                 [] n = sibling -> Leaf(oldKey)
                 [] n = internal -> Sides(op, key, oldKey)]
 BY <1>3 DEF NewSubtree, Subtree, Sides
<1> HIDE DEF new
<1>5. /\ DOMAIN new = {leaf, sibling, internal}
      /\ new[leaf] = Leaf(key) /\ new[sibling] = Leaf(oldKey)
      /\ new[internal] = Sides(op, key, oldKey)
 BY <1>2, <1>4
<1>6. DOMAIN old = Nodes BY DEF Nodes
<1>7. \A m \in Nodes : old[m] = IF m = p THEN [tree[m] EXCEPT !.update = u] ELSE tree[m] BY DEF Nodes, Shape
<1>8. tree' = AddNodes(new, old) BY DEF FlagsAdd, new
<1> HIDE DEF old
<1>9. tree' = [n \in DOMAIN new \cup DOMAIN old |-> IF n \in DOMAIN new THEN new[n] ELSE old[n]]
 BY <1>8 DEF AddNodes
<1>10. Nodes' = Nodes \cup {leaf, sibling, internal} BY <1>5, <1>6, <1>9 DEF Nodes
<1>11. /\ tree'[leaf] = new[leaf] /\ tree'[sibling] = new[sibling]
       /\ tree'[internal] = new[internal]
       /\ \A m \in Nodes : tree'[m] = old[m]
 BY <1>1, <1>5, <1>6, <1>9
<1>12. tree' = [m \in Nodes' |-> tree'[m]] BY <1>5, <1>6, <1>9, <1>10
<1> QED BY <1>1, <1>2, <1>5, <1>7, <1>10, <1>11, <1>12

(* The new internal node has the smaller key on the left. *)
LEMMA SidesAreOrdered ==
 ASSUME NEW op, NEW key \in Keys, NEW oldKey \in Bounds, key # oldKey,
        NEW leaf, leaf = NewNode(op, "leaf"), NEW sibling, sibling = NewNode(op, "sibling"),
        NEW r, r = Sides(op, key, oldKey)
 PROVE  /\ r.internal /\ r.update = NullUpdate /\ r.key \in {key, oldKey}
        /\ r = [internal |-> TRUE, key |-> r.key, update |-> r.update,
                left |-> r.left, right |-> r.right]
        /\ key <= r.key /\ oldKey <= r.key
        /\ \/ key < oldKey /\ r.key = oldKey /\ r.left = leaf /\ r.right = sibling
           \/ oldKey < key /\ r.key = key /\ r.left = sibling /\ r.right = leaf
<1>1. key \in Int /\ oldKey \in Int BY KeysAreIntegers
<1>2. CASE key <= oldKey
 <2>1. r = [internal |-> TRUE, key |-> oldKey, update |-> NullUpdate, left |-> leaf, right |-> sibling]
  BY <1>2 DEF Sides, Internal
 <2> QED BY <1>1, <1>2, <2>1
<1>3. CASE ~(key <= oldKey)
 <2>1. r = [internal |-> TRUE, key |-> key, update |-> NullUpdate, left |-> sibling, right |-> leaf]
  BY <1>3 DEF Sides, Internal
 <2> QED BY <1>1, <1>3, <2>1
<1> QED BY <1>2, <1>3

(* The flag of an add keeps the invariant: its new nodes are not in the tree. *)
LEMMA AddFlagKeeps ==
 ASSUME GlobalInv, UNCHANGED search,
        \A v \in Threads : {search[v].gp, search[v].p, search[v].l} \subseteq Nodes \cup {NoNode},
        NEW t \in Threads, NEW op, op = NewInfo(t), NEW p \in Inner, NEW l \in Leaves, NEW key \in Keys,
        infos' = [infos EXCEPT ![t] = Append(@,
                    [p |-> p, newInternal |-> NewNode(op, "internal"), l |-> l])],
        FlagsAdd(p, op, key, tree[l].key), Word(p).state = "CLEAN", l \in Kids(p), tree[l].key # key,
        key < tree[p].key <=> tree[l].key < tree[p].key,
        \A o \in Adds : Pending(o) => Info(o).newInternal # p
 PROVE Grows /\ GlobalInv' /\ op \in Adds' /\ \A m \in Inner : NodeStep(m)
<1>1. PICK leaf, sibling, internal, u, oldKey :
          /\ leaf = NewNode(op, "leaf") /\ sibling = NewNode(op, "sibling")
          /\ internal = NewNode(op, "internal") /\ u = Update("IFLAG", op)
          /\ oldKey = tree[l].key
 OBVIOUS
<1>2. PICK rec : rec = [p |-> p, newInternal |-> internal, l |-> l] OBVIOUS
<1>3. Shape /\ oldKey \in Bounds /\ p \in Nodes /\ l \in Nodes /\ oldKey \in Int /\ key \in Int
 BY <1>1, NodeTypes, KeysAreIntegers DEF GlobalInv
<1>4. /\ InfoIds' = InfoIds \cup {op} /\ op \notin InfoIds
      /\ Info(op)' = rec /\ \A x \in InfoIds : Info(x)' = Info(x)
 BY <1>1, <1>2, <1>3, NewInfoIsNew
<1>5. /\ Nodes' = Nodes \cup {leaf, sibling, internal}
      /\ {leaf, sibling, internal} \cap Nodes = {}
      /\ leaf # sibling /\ leaf # internal /\ sibling # internal
      /\ \A m \in Nodes : tree'[m] = IF m = p THEN [tree[m] EXCEPT !.update = u] ELSE tree[m]
      /\ tree'[leaf] = Leaf(key) /\ tree'[sibling] = Leaf(oldKey)
      /\ tree'[internal] = Sides(op, key, oldKey)
      /\ tree' = [m \in Nodes' |-> tree'[m]]
 BY <1>1, <1>3, <1>4, FlagsAddNodes
<1>6. /\ tree'[leaf] = [internal |-> FALSE, key |-> key]
      /\ tree'[sibling] = [internal |-> FALSE, key |-> oldKey]
 BY <1>5 DEF Leaf
<1>7. PICK r : /\ r = tree'[internal]
               /\ r.internal /\ r.update = NullUpdate /\ r.key \in {key, oldKey}
               /\ r = [internal |-> TRUE, key |-> r.key, update |-> r.update,
                       left |-> r.left, right |-> r.right]
               /\ key <= r.key /\ oldKey <= r.key
               /\ \/ key < oldKey /\ r.key = oldKey /\ r.left = leaf /\ r.right = sibling
                  \/ oldKey < key /\ r.key = key /\ r.left = sibling /\ r.right = leaf
 BY <1>1, <1>3, <1>5, SidesAreOrdered
<1>8. PICK q \in InnerRecords : q = tree[p] /\ tree'[p] = [q EXCEPT !.update = u] BY <1>3, <1>5, NodeTypes
<1>9. /\ q.internal = TRUE
      /\ tree'[p].internal = q.internal /\ tree'[p].key = q.key
      /\ tree'[p].left = q.left /\ tree'[p].right = q.right /\ tree'[p].update = u
      /\ tree'[p] = [internal |-> TRUE, key |-> q.key, update |-> u,
                     left |-> q.left, right |-> q.right]
 BY <1>8 DEF InnerRecords
<1>10. \A m \in Nodes : m # p => tree'[m] = tree[m] BY <1>5
<1>11. \A m \in Nodes : /\ tree'[m].internal = tree[m].internal
                         /\ tree'[m].key = tree[m].key
 BY <1>8, <1>9, <1>10
<1>12. Inner' = Inner \cup {internal} /\ Leaves' = Leaves \cup {leaf, sibling}
 BY <1>5, <1>6, <1>7, <1>11 DEF Inner, Leaves
<1>13. \A m \in Inner : SameKids(m) /\ Word(m)' = IF m = p THEN u ELSE Word(m)
 BY <1>8, <1>9, <1>10 DEF SameKids, Word, Inner
<1>14. Kids(internal)' = {leaf, sibling} BY <1>7 DEF Kids
<1>15. \A m \in Inner : Kids(m)' = Kids(m) /\ Kids(m) \subseteq Nodes BY <1>3, <1>13, NodeTypes DEF Kids, SameKids
<1>16. OnlyWord(p, u) BY <1>4, <1>5, <1>11, <1>12, <1>13, <1>14 DEF OnlyWord
<1>17. u.state = "IFLAG" /\ u.info = op /\ op # NoInfo BY <1>1 DEF Update, NewInfo, NoInfo
<1>18. WordMay(p, u)
 <2>1. \A o : Word(p) # Update("IFLAG", o) /\ Word(p) # Update("DFLAG", o) BY DEF Update
 <2> QED BY <1>4, <1>17, <2>1 DEF WordMay
<1>19. SearchMoves BY DEF SearchMoves
<1>20. /\ Grows
       /\ \A o \in Adds : AddInv(o)'
       /\ \A o \in Removes : RemoveInv(o)'
       /\ \A m \in Inner : Dead(m)' = Dead(m)
 BY <1>16, <1>18, <1>19, WordGrows, WordKeepsAdds, WordKeepsRemoves, WordKeepsDead
<1>21. rec \in AddInfo' /\ op \in Adds'
 <2>1. p \in Inner' /\ internal \in Inner' /\ l \in Leaves' BY <1>12
 <2>2. rec \in AddInfo' BY <1>2, <2>1 DEF AddInfo
 <2>3. op \in InfoIds' /\ Info(op)' \in AddInfo' BY <1>4, <2>2
 <2> QED BY <2>2, <2>3 DEF Adds
<1>22. Shape'
 <2>1. tree' \in [Nodes' -> LeafRecords' \cup InnerRecords']
  <3>1. Words \subseteq Words' /\ Nodes \subseteq Nodes' /\ Bounds' = Bounds /\ Keys \subseteq Bounds
   BY <1>20, SetsGrow DEF Bounds
  <3>2. LeafRecords \subseteq LeafRecords' /\ InnerRecords \subseteq InnerRecords'
   BY <3>1 DEF LeafRecords, InnerRecords
  <3>3. tree'[leaf] \in LeafRecords' /\ tree'[sibling] \in LeafRecords' BY <1>3, <1>6, <3>1 DEF LeafRecords
  <3>4. tree'[internal] \in InnerRecords'
   <4>1. NullUpdate \in Words' BY DEF NullUpdate, Update, Words, States
   <4>2. r.key \in Bounds' /\ r.left \in Nodes' /\ r.right \in Nodes' BY <1>3, <1>5, <1>7, <3>1
   <4> QED BY <1>7, <4>1, <4>2 DEF InnerRecords
  <3>5. tree'[p] \in InnerRecords'
   <4>1. u \in Words' BY <1>1, <1>4 DEF Update, Words, States
   <4>2. q \in InnerRecords' BY <3>2
   <4> QED BY <1>9, <4>1, <4>2 DEF InnerRecords
  <3>6. \A m \in Nodes : m # p => tree'[m] \in LeafRecords' \cup InnerRecords' BY <1>10, <3>2 DEF GlobalInv, Shape
  <3> QED BY <1>5, <3>3, <3>4, <3>5, <3>6
 <2>2. infos' \in [Threads -> Seq(AddInfo' \cup RemoveInfo')]
  <3>1. AddInfo \cup RemoveInfo \subseteq AddInfo' \cup RemoveInfo' BY <1>20, SetsGrow
  <3>2. infos \in [Threads -> Seq(AddInfo' \cup RemoveInfo')] BY <3>1 DEF GlobalInv, Shape
  <3> HIDE DEF GlobalInv
  <3> QED BY <1>1, <1>2, <1>21, <3>2
 <2>3. Root \in Inner' /\ tree'[Root].key = MaxKey BY <1>11, <1>12 DEF GlobalInv, Shape, Inner
 <2>4. NewNames \subseteq NewNames' /\ {leaf, sibling, internal} \subseteq NewNames'
  BY <1>1, <1>4 DEF NewNames, NewNode
 <2> QED BY <1>5, <2>1, <2>2, <2>3, <2>4 DEF Shape, GlobalInv
<1>23. WordsLead'
 <2>1. Leads(u, p)'
  <3>1. u \in Words' BY <1>1, <1>4 DEF Words, Update, States
  <3>2. Info(op)'.p = p BY <1>2, <1>4
  <3> QED BY <1>17, <1>21, <3>1, <3>2 DEF Leads, Sound, Info
 <2>2. ASSUME NEW m \in Inner' PROVE Leads(Word(m), m)'
  <3>1. PICK w : w = tree'[m].update OBVIOUS
  <3>2. Leads(w, m)'
   <4>1. CASE m = p BY <1>9, <2>1, <3>1, <4>1
   <4>2. CASE m \in Inner /\ m # p
    <5>1. w = Word(m) BY <1>13, <3>1, <4>2 DEF Word
    <5>2. Leads(w, m) BY <4>2, <5>1 DEF GlobalInv, WordsLead
    <5> QED BY <1>20, <5>2, LeadsStays
   <4>3. CASE m = internal
    <5>1. w = NullUpdate BY <1>7, <3>1, <4>3
    <5>2. w.state = "CLEAN" /\ w \in Words' BY <5>1 DEF NullUpdate, Update, Words, States
    <5> QED BY <5>2 DEF Leads, Sound
   <4> QED BY <1>12, <4>1, <4>2, <4>3
  <3> QED BY <3>1, <3>2, Zenon DEF Leads, Sound, Word, Marked, Info
 <2> QED BY <2>2 DEF WordsLead
<1>24. KidsAreOrdered'
 <2>1. ASSUME NEW m \in Inner
       PROVE tree'[tree'[m].left].key < tree'[m].key /\ tree'[m].key <= tree'[tree'[m].right].key
  <3>1. tree'[m].left = tree[m].left /\ tree'[m].right = tree[m].right BY <1>13 DEF SameKids
  <3>2. tree[m].left \in Nodes /\ tree[m].right \in Nodes /\ m \in Nodes BY <1>3, NodeTypes
  <3> QED BY <1>11, <3>1, <3>2 DEF GlobalInv, KidsAreOrdered
 <2>2. tree'[r.left].key < r.key /\ r.key <= tree'[r.right].key BY <1>3, <1>6, <1>7
 <2> QED BY <1>7, <1>12, <2>1, <2>2 DEF KidsAreOrdered
<1>25. OneParent'
 <2>1. SUFFICES ASSUME NEW m \in Inner', NEW n \in Inner', NEW c \in Kids(m)' \cap Kids(n)'
                PROVE m = n \/ Dead(m)' \/ Dead(n)'
  BY DEF OneParent
 <2>2. CASE m \in Inner /\ n \in Inner BY <1>15, <1>20, <2>2 DEF GlobalInv, OneParent
 <2>3. CASE m = internal \/ n = internal BY <1>5, <1>12, <1>14, <1>15, <2>3
 <2> QED BY <1>12, <2>2, <2>3
<1>26. DeadBelowDead'
 <2>1. SUFFICES ASSUME NEW m \in Inner', NEW c \in Kids(m)', c \in Inner', Dead(c)'
                PROVE Dead(m)'
  BY DEF DeadBelowDead
 <2>2. m \in Inner BY <1>5, <1>12, <1>14, <2>1 DEF Inner
 <2>3. c \in Nodes /\ c \in Inner BY <1>5, <1>12, <1>15, <2>1, <2>2
 <2> QED BY <1>15, <1>20, <2>1, <2>2, <2>3 DEF GlobalInv, DeadBelowDead
<1>27. SpineEnds'
 <2>1. PICK S \in SUBSET Nodes : IsSpine(S) BY DEF GlobalInv, SpineEnds
 <2>2. ASSUME NEW m \in S
       PROVE IF tree'[m].internal THEN tree'[m].left \in S ELSE tree'[m].key = MinKey
  <3>1. tree[m].internal => tree'[m].left = tree[m].left BY <1>13, <2>1 DEF Inner, SameKids
  <3> QED BY <1>11, <2>1, <3>1 DEF IsSpine
 <2>3. IsSpine(S)' BY <2>1, <2>2 DEF IsSpine
 <2> QED BY <1>5, <2>3 DEF SpineEnds
<1>28. AddInv(op)'
 <2>1. rec.p = p /\ rec.newInternal = internal /\ rec.l = l BY <1>2
 <2>2. r.key < tree'[p].key <=> tree'[l].key < tree'[p].key
  <3>1. tree'[p].key = tree[p].key /\ tree[p].key \in Int /\ tree'[l].key = oldKey
   BY <1>1, <1>3, <1>11, NodeTypes, KeysAreIntegers
  <3> QED BY <1>1, <1>3, <1>7, <3>1
 <2>3. Word(p)' = Update("IFLAG", op) /\ l \in Kids(p)' /\ Word(internal)' = NullUpdate
  BY <1>1, <1>7, <1>13, <1>15 DEF Word
 <2>4. Unseen(internal)'
  <3>1. \A m \in Inner' : internal \notin Kids(m)' BY <1>5, <1>12, <1>14, <1>15
  <3>2. \A v \in Threads : internal \notin {search[v].gp, search[v].p, search[v].l}
   BY <1>1, <1>5, NoNodeIsNoNode, <1>3
  <3> QED BY <3>1, <3>2 DEF Unseen
 <2>5. oldKey = MinKey => ~tree'[r.left].internal /\ tree'[r.left].key = MinKey
  <3>1. MinKey < key BY NBBSTAssumption
  <3> QED BY <1>3, <1>6, <1>7, <3>1, NBBSTAssumption
 <2>6. tree'[l].key = oldKey BY <1>1, <1>3, <1>11
 <2>7. LeftmostStays(op)' BY <1>4, <1>7, <2>1, <2>5, <2>6, Zenon DEF LeftmostStays, Info
 <2>8. Pending(op)' BY <1>4, <2>1, <2>3, <2>4, <2>7, Zenon DEF Pending, Info, Word, Kids, Unseen
 <2>9. (Info(op).newInternal = NewNode(op, "internal"))' BY <1>1, <1>4, <2>1 DEF Info, NewNode
 <2>10. (tree[Info(op).newInternal].key < tree[Info(op).p].key
           <=> tree[Info(op).l].key < tree[Info(op).p].key)'
  BY <1>4, <1>7, <2>1, <2>2 DEF Info
 <2> QED BY <2>8, <2>9, <2>10 DEF AddInv
<1>29. \A o : o \in Adds' => o \in Adds \/ o = op
 <2>1. ASSUME NEW o \in InfoIds, Info(o) \in AddInfo' PROVE Info(o) \in AddInfo
  <3>1. Info(o) \in RemoveInfo => DOMAIN Info(o) = {"gp", "p", "l", "pupdate"} BY DEF RemoveInfo
  <3>2. DOMAIN Info(o) = {"p", "newInternal", "l"} BY <2>1 DEF AddInfo
  <3>3. "gp" \notin {"p", "newInternal", "l"} OBVIOUS
  <3> QED BY <1>3, <3>1, <3>2, <3>3, InfoTypes DEF Adds, Removes
 <2>2. \A o : o \in Adds' => o \in InfoIds' /\ Info(o)' \in AddInfo' BY DEF Adds
 <2>3. \A o \in InfoIds : Info(o) \in AddInfo => o \in Adds BY DEF Adds
 <2> QED BY <1>4, <2>1, <2>2, <2>3
<1>30. \A o : o \in Removes' => o \in Removes
 <2>1. ASSUME NEW o \in InfoIds, Info(o) \in RemoveInfo' PROVE Info(o) \in RemoveInfo
  <3>1. Info(o) \in AddInfo => DOMAIN Info(o) = {"p", "newInternal", "l"} BY DEF AddInfo
  <3>2. DOMAIN Info(o) = {"gp", "p", "l", "pupdate"} BY <2>1 DEF RemoveInfo
  <3>3. "gp" \notin {"p", "newInternal", "l"} OBVIOUS
  <3> QED BY <1>3, <3>1, <3>2, <3>3, InfoTypes DEF Adds, Removes
 <2>2. \A o : o \in Removes' => o \in InfoIds' /\ Info(o)' \in RemoveInfo' BY DEF Removes
 <2>3. \A o \in InfoIds : Info(o) \in RemoveInfo => o \in Removes BY DEF Removes
 <2>4. rec \notin RemoveInfo'
  <3>1. rec \in RemoveInfo' => DOMAIN rec = {"gp", "p", "l", "pupdate"} BY DEF RemoveInfo
  <3>2. DOMAIN rec = {"p", "newInternal", "l"} BY <1>2
  <3>3. "gp" \notin {"p", "newInternal", "l"} OBVIOUS
  <3> QED BY <3>1, <3>2, <3>3
 <2> QED BY <1>4, <2>1, <2>2, <2>3, <2>4
<1>31. GlobalInv' BY <1>20, <1>22, <1>23, <1>24, <1>25, <1>26, <1>27, <1>28, <1>29, <1>30 DEF GlobalInv
<1>32. WordStep(Word(p), u) BY <1>17 DEF WordStep
<1> QED BY <1>16, <1>20, <1>21, <1>31, <1>32, WordNodeSteps

-----------------------------------------------------------------------------

(* CASChild swings the pointer, or leaves the tree alone. *)
LEMMA CASChildCases ==
 ASSUME NEW t, NEW op, NEW n, NEW old, NEW new, CASChild(t, op, n, old, new)
 PROVE IF CurrentChild(n, new) = old THEN SetChild(n, new) ELSE UNCHANGED tree
 BY DEF CASChild, CurrentChild, SetChild

(* A pointer that is swung: what changes, and what not. *)
LEMMA SetChildSwaps ==
 ASSUME Shape, NEW n \in Inner, NEW old, NEW new \in Nodes, CurrentChild(n, new) = old, SetChild(n, new)
 PROVE Swaps(n, old, new)
<1>1. n \in Nodes /\ Nodes' = Nodes BY NodeTypes DEF SetChild, Nodes
<1>2. PICK r \in InnerRecords : r = tree[n] BY NodeTypes
<1>3. \A m \in Nodes : m # n => tree'[m] = tree[m] BY DEF SetChild, Shape
<1>4. PICK q \in InnerRecords :
        /\ q = tree'[n] /\ q.internal = r.internal /\ q.key = r.key /\ q.update = r.update
        /\ \/ /\ tree[new].key < tree[n].key
              /\ r.left = old /\ q.left = new /\ q.right = r.right
           \/ /\ ~(tree[new].key < tree[n].key)
              /\ r.right = old /\ q.right = new /\ q.left = r.left
 <2>1. CASE tree[new].key < tree[n].key
  <3>1. tree'[n] = [r EXCEPT !.left = new] BY <1>1, <1>2, <2>1 DEF SetChild, Shape
  <3>2. PICK q : q = [r EXCEPT !.left = new] OBVIOUS
  <3>3. q \in InnerRecords BY <3>2 DEF InnerRecords
  <3>4. q.internal = r.internal /\ q.key = r.key /\ q.update = r.update /\ q.left = new /\ q.right = r.right
   BY <3>2 DEF InnerRecords
  <3> QED BY <1>2, <2>1, <3>1, <3>2, <3>3, <3>4 DEF CurrentChild
 <2>2. CASE ~(tree[new].key < tree[n].key)
  <3>1. tree'[n] = [r EXCEPT !.right = new] BY <1>1, <1>2, <2>2 DEF SetChild, Shape
  <3>2. PICK q : q = [r EXCEPT !.right = new] OBVIOUS
  <3>3. q \in InnerRecords BY <3>2 DEF InnerRecords
  <3>4. q.internal = r.internal /\ q.key = r.key /\ q.update = r.update /\ q.right = new /\ q.left = r.left
   BY <3>2 DEF InnerRecords
  <3> QED BY <1>2, <2>2, <3>1, <3>2, <3>3, <3>4 DEF CurrentChild
 <2> QED BY <2>1, <2>2
<1>5. \A m \in Nodes : tree'[m].internal = tree[m].internal /\ tree'[m].key = tree[m].key BY <1>2, <1>3, <1>4
<1>6. Inner' = Inner /\ Leaves' = Leaves BY <1>1, <1>5 DEF Inner, Leaves
<1>7. tree' \in [Nodes -> LeafRecords \cup InnerRecords]
 <2>1. \A m \in Nodes : tree'[m] \in LeafRecords \cup InnerRecords BY <1>3, <1>4 DEF Shape
 <2>2. tree' = [m \in Nodes |-> tree'[m]] BY <1>1 DEF SetChild, Nodes
 <2> QED BY <2>1, <2>2
<1>8. \A m \in Inner : Word(m)' = Word(m) /\ (m # n => SameKids(m)) BY <1>2, <1>3, <1>4 DEF Word, SameKids, Inner
<1> QED BY <1>1, <1>2, <1>4, <1>5, <1>6, <1>7, <1>8 DEF Swaps

(* Of such a step, when the node is flagged and undoes nothing. *)
LEMMA SwapKeepsShape ==
 ASSUME GlobalInv, UNCHANGED infos, Grows, NEW n \in Inner, NEW old, NEW new \in Nodes, Swaps(n, old, new)
 PROVE Shape' /\ WordsLead' /\ KidsAreOrdered'
<1>1. Nodes' = Nodes /\ Inner' = Inner /\ Leaves' = Leaves BY DEF Swaps
<1>2. /\ InfoIds' = InfoIds /\ InfosStay /\ Words' = Words
      /\ AddInfo' = AddInfo /\ RemoveInfo' = RemoveInfo
 BY <1>1, SameInfos
<1>3. Shape'
 <2>1. LeafRecords' = LeafRecords /\ InnerRecords' = InnerRecords /\ NewNames' = NewNames
  BY <1>1, <1>2 DEF LeafRecords, InnerRecords, NewNames, Bounds, NewNode
 <2>2. tree'[Root].key = MaxKey /\ Root \in Inner BY DEF Swaps, GlobalInv, Shape, Inner
 <2> QED BY <1>1, <1>2, <2>1, <2>2 DEF Shape, GlobalInv, Swaps
<1>4. WordsLead'
 <2>1. ASSUME NEW m \in Inner PROVE Leads(Word(m), m)'
  <3>1. PICK w : w = tree'[m].update /\ w = Word(m) BY DEF Swaps, Word
  <3>2. Leads(w, m)' BY <3>1, LeadsStays DEF GlobalInv, WordsLead
  <3> QED BY <3>1, <3>2, Zenon DEF Leads, Sound, Word, Marked, Info
 <2> QED BY <1>1, <2>1 DEF WordsLead
<1>5. KidsAreOrdered'
 <2>1. ASSUME NEW m \in Inner
       PROVE tree'[tree'[m].left].key < tree'[m].key /\ tree'[m].key <= tree'[tree'[m].right].key
  <3>1. /\ tree[m].left \in Nodes /\ tree[m].right \in Nodes /\ m \in Nodes
        /\ tree[m].key \in Int /\ tree[new].key \in Int
   BY NodeTypes, KeysAreIntegers DEF GlobalInv
  <3>2. tree[tree[m].left].key < tree[m].key /\ tree[m].key <= tree[tree[m].right].key
   BY DEF GlobalInv, KidsAreOrdered
  <3>3. /\ tree'[m].key = tree[m].key /\ tree'[new].key = tree[new].key
        /\ tree'[tree[m].left].key = tree[tree[m].left].key
        /\ tree'[tree[m].right].key = tree[tree[m].right].key
   BY <3>1 DEF Swaps
  <3>4. CASE m # n BY <3>2, <3>3, <3>4 DEF Swaps, SameKids
  <3>5. CASE m = n BY <3>1, <3>2, <3>3, <3>5 DEF Swaps
  <3> QED BY <3>4, <3>5
 <2> QED BY <1>1, <2>1 DEF KidsAreOrdered
<1> QED BY <1>3, <1>4, <1>5

(* The children after the swap. *)
LEMMA SwapKids ==
 ASSUME GlobalInv, NEW n \in Inner, NEW old, NEW new \in Nodes, Swaps(n, old, new)
 PROVE  /\ \A m \in Inner : m # n => Kids(m)' = Kids(m)
        /\ new \in Kids(n)' /\ old \in Kids(n) /\ (old # new => old \notin Kids(n)')
        /\ \A c : c # new /\ c # old => (c \in Kids(n)' <=> c \in Kids(n))
        /\ \A m \in Inner : \A c \in Kids(m)' : (c = new /\ m = n) \/ c \in Kids(m)
<1>1. tree[tree[n].left].key < tree[n].key /\ tree[n].key <= tree[tree[n].right].key
 BY DEF GlobalInv, KidsAreOrdered
<1>2. /\ tree[n].left \in Nodes /\ tree[n].right \in Nodes /\ n \in Nodes
      /\ \A m \in Nodes : tree[m].key \in Int
 BY NodeTypes, KeysAreIntegers DEF GlobalInv
<1>3. tree[n].left # tree[n].right BY <1>1, <1>2
<1>4. \A m \in Inner : m # n => Kids(m)' = Kids(m) BY DEF Swaps, SameKids, Kids
<1>5. /\ new \in Kids(n)' /\ old \in Kids(n) /\ (old # new => old \notin Kids(n)')
      /\ \A c : c # new /\ c # old => (c \in Kids(n)' <=> c \in Kids(n))
 BY <1>3 DEF Swaps, Kids
<1>6. \A c \in Kids(n)' : c = new \/ c \in Kids(n) BY <1>5
<1> QED BY <1>4, <1>5, <1>6

(* What is said of the removes survives the swap of a child. *)
LEMMA SwapKeepsRemoves ==
 ASSUME GlobalInv, Grows, UNCHANGED infos, NEW n \in Inner, NEW old, NEW new \in Nodes, Swaps(n, old, new),
        Word(n).state \in {"IFLAG", "DFLAG"},
        \A o \in Removes : Word(n) = Update("DFLAG", o) => ~MayMark(o)
 PROVE \A op \in Removes : RemoveInv(op)'
<1>1. SUFFICES ASSUME NEW op \in Removes PROVE RemoveInv(op)' OBVIOUS
<1> DEFINE i == Info(op)
<1>2. /\ op \in InfoIds /\ i' = i /\ RemoveInv(op) /\ i.pupdate.state = "CLEAN"
      /\ i.p \in Inner /\ i.gp \in Inner /\ i.l \in Nodes
 BY InfoTypes, NodeTypes DEF Removes, Grows, GlobalInv, CleanWords
<1>3. \A m \in Inner : Word(m)' = Word(m) /\ (m # n => Kids(m)' = Kids(m)) BY SwapKids DEF Swaps
<1>4. Remembered(i.p, i.pupdate)' BY <1>2, RememberedStays DEF RemoveInv
<1>5. ASSUME Word(i.p)' = i.pupdate
      PROVE Word(i.gp)' = Update("DFLAG", op) /\ i.p \in Kids(i.gp)' /\ i.l \in Kids(i.p)'
 <2>1. MayMark(op) BY <1>2, <1>3, <1>5 DEF MayMark
 <2>2. Word(i.gp) = Update("DFLAG", op) /\ i.p \in Kids(i.gp) /\ i.l \in Kids(i.p)
  BY <1>2, <2>1 DEF RemoveInv, MayMark
 <2>3. i.gp # n /\ i.p # n BY <1>2, <2>1, <2>2 DEF MayMark
 <2> QED BY <1>2, <1>3, <2>2, <2>3
<1>6. ASSUME Marked(op)'
      PROVE i.l \in Kids(i.p)' /\ (Word(i.gp)' = Update("DFLAG", op) \/ Cut(op)')
 <2>1. Word(i.p)' = Update("MARK", op) BY <1>2, <1>6 DEF Marked, Word
 <2>2. Marked(op) /\ i.p # n BY <1>2, <1>3, <2>1, FlagsAndMarks DEF Marked
 <2>3. Marked(op) /\ Cut(op) => Cut(op)' BY DEF Grows
 <2> QED BY <1>2, <1>3, <2>2, <2>3 DEF RemoveInv
<1>7. tree'[i.l].key = tree[i.l].key BY <1>2 DEF Swaps
<1>8. (Marked(op) => i.l \in Kids(i.p) /\ (Word(i.gp) = Update("DFLAG", op) \/ Cut(op)))'
 BY <1>2, <1>6 DEF Kids, Word
<1>9. (Word(i.p) = i.pupdate =>
           Word(i.gp) = Update("DFLAG", op) /\ i.p \in Kids(i.gp) /\ i.l \in Kids(i.p))'
 BY <1>2, <1>5 DEF Kids, Word
<1> QED BY <1>2, <1>4, <1>7, <1>8, <1>9 DEF RemoveInv, Remembered, Flagged, Word

(* What is said of an add survives the swap of a child of another operation. *)
LEMMA SwapKeepsAdd ==
 ASSUME GlobalInv, Grows, SearchMoves, UNCHANGED infos,
        NEW n \in Inner, NEW old, NEW new \in Nodes, Swaps(n, old, new),
        Word(n).state \in {"IFLAG", "DFLAG"}, NEW op \in Adds, Word(n) # Update("IFLAG", op),
        Pending(op) => new # Info(op).newInternal, Replaced(op) => new # Info(op).l,
        \A m \in Inner : Dead(m) => Dead(m)'
 PROVE AddInv(op)'
<1> DEFINE i == Info(op)
<1>1. /\ op \in InfoIds /\ i' = i /\ AddInv(op)
      /\ i.p \in Inner /\ i.newInternal \in Inner /\ i.l \in Leaves
      /\ i.p \in Nodes /\ i.newInternal \in Nodes /\ i.l \in Nodes
 BY InfoTypes, NodeTypes DEF Adds, Grows, GlobalInv
<1>2. NewNode(op, "internal")' = NewNode(op, "internal") BY DEF NewNode
<1>3. /\ Inner' = Inner /\ \A m \in Inner : Word(m)' = Word(m)
      /\ \A m \in Inner : m # n => Kids(m)' = Kids(m) /\ SameKids(m)
      /\ \A m \in Inner : \A c \in Kids(m)' : c = new \/ c \in Kids(m)
 BY SwapKids DEF Swaps
<1>4. ASSUME Pending(op) PROVE Pending(op)'
 <2>1. Word(i.newInternal) = NullUpdate /\ Word(i.p) = Update("IFLAG", op) BY <1>4 DEF Pending
 <2>2. i.newInternal # n /\ i.p # n BY <2>1 DEF NullUpdate, Update
 <2>3. Word(i.p)' = Update("IFLAG", op) /\ i.l \in Kids(i.p)' /\ Word(i.newInternal)' = NullUpdate
  BY <1>1, <1>3, <1>4, <2>1, <2>2 DEF Pending
 <2>4. Unseen(i.newInternal) /\ i.newInternal = NewNode(op, "internal") BY <1>1, <1>4 DEF Pending, AddInv
 <2>5. Unseen(NewNode(op, "internal"))'
  <3>1. \A m \in Inner' : NewNode(op, "internal") \notin Kids(m)' BY <1>3, <1>4, <2>4 DEF Unseen
  <3> QED BY <2>4, <3>1, UnseenStays DEF GlobalInv
 <2>6. LeftmostStays(op)'
  <3>1. tree[i.newInternal].left \in Nodes /\ tree'[i.newInternal].left = tree[i.newInternal].left
   BY <1>1, <1>3, <2>2, NodeTypes DEF SameKids, GlobalInv
  <3> QED BY <1>1, <1>4, <3>1 DEF Pending, LeftmostStays, Swaps
 <2> QED BY <1>1, <1>2, <2>3, <2>4, <2>5, <2>6 DEF Pending, Word, Kids, Unseen
<1>5. ASSUME Replaced(op) PROVE Replaced(op)'
 <2>1. Detached(op)' BY <1>5 DEF Replaced, Grows
 <2>2. \A m \in Inner' : i.l \in Kids(m)' => Dead(m)' BY <1>1, <1>3, <1>5 DEF Replaced
 <2> QED BY <1>1, <2>1, <2>2 DEF Replaced
<1>6. /\ tree'[i.newInternal].key = tree[i.newInternal].key
      /\ tree'[i.p].key = tree[i.p].key /\ tree'[i.l].key = tree[i.l].key
 BY <1>1 DEF Swaps
<1> QED BY <1>1, <1>2, <1>4, <1>5, <1>6 DEF AddInv

(* The leaf of an add is replaced by the new node. *)
LEMMA InsertKeeps ==
 ASSUME GlobalInv, SearchMoves, UNCHANGED infos, NEW op \in Adds,
        Swaps(Info(op).p, Info(op).l, Info(op).newInternal)
 PROVE Grows /\ GlobalInv' /\ Detached(op)' /\ \A m \in Inner : NodeStep(m)
<1>1. PICK n, old, new : n = Info(op).p /\ old = Info(op).l /\ new = Info(op).newInternal OBVIOUS
<1>2. /\ op \in InfoIds /\ n \in Inner /\ new \in Inner /\ old \in Leaves
      /\ n \in Nodes /\ new \in Nodes /\ old \in Nodes /\ Swaps(n, old, new)
      /\ AddInv(op)
 BY <1>1, InfoTypes, NodeTypes DEF Adds, GlobalInv
<1>3. /\ \A m \in Inner : m # n => Kids(m)' = Kids(m) /\ SameKids(m)
      /\ new \in Kids(n)' /\ old \in Kids(n) /\ (old # new => old \notin Kids(n)')
      /\ \A c : c # new /\ c # old => (c \in Kids(n)' <=> c \in Kids(n))
      /\ \A m \in Inner : \A c \in Kids(m)' : (c = new /\ m = n) \/ c \in Kids(m)
 <2>1. \A m \in Inner : m # n => SameKids(m) BY <1>2 DEF Swaps
 <2>2. /\ \A m \in Inner : m # n => Kids(m)' = Kids(m)
       /\ new \in Kids(n)' /\ old \in Kids(n) /\ (old # new => old \notin Kids(n)')
       /\ \A c : c # new /\ c # old => (c \in Kids(n)' <=> c \in Kids(n))
       /\ \A m \in Inner : \A c \in Kids(m)' : (c = new /\ m = n) \/ c \in Kids(m)
  <3> HIDE DEF GlobalInv, Swaps
  <3> QED BY <1>2, SwapKids
 <2> QED BY <2>1, <2>2
<1>4. Pending(op) BY <1>1, <1>2, <1>3 DEF AddInv, Replaced, Detached
<1>5. /\ Word(n) = Update("IFLAG", op) /\ Word(n).state = "IFLAG" /\ Word(n).info = op
      /\ Word(new) = NullUpdate /\ Word(new).state = "CLEAN"
      /\ \A m \in Inner : new \notin Kids(m)
      /\ old # new /\ new # n
 BY <1>1, <1>2, <1>4 DEF Pending, Unseen, NullUpdate, Update, Leaves, Inner
<1>6. /\ Nodes' = Nodes /\ Inner' = Inner /\ Leaves' = Leaves
      /\ \A m \in Inner : Word(m)' = Word(m)
      /\ \A m \in Nodes : tree'[m].internal = tree[m].internal /\ tree'[m].key = tree[m].key
 BY <1>2 DEF Swaps
<1>7. /\ InfoIds' = InfoIds /\ InfosStay /\ Adds' = Adds /\ Removes' = Removes BY <1>6, SameInfos
<1>8. ASSUME NEW o \in Removes, Marked(o)
      PROVE  /\ Info(o) \in RemoveInfo /\ Info(o)' = Info(o) /\ o \in InfoIds
             /\ Info(o).p \in Inner /\ Info(o).gp \in Inner
             /\ Info(o).p # n /\ Info(o).p # new /\ Info(o).p # old
 <2>1. Info(o) \in RemoveInfo /\ o \in InfoIds BY DEF Removes
 <2>2. Info(o).p \in Inner /\ Info(o).gp \in Inner BY <2>1 DEF RemoveInfo
 <2>3. Word(Info(o).p).state = "MARK" BY <1>8, FlagsAndMarks
 <2> QED BY <1>2, <1>5, <1>7, <2>1, <2>2, <2>3 DEF InfosStay, Leaves, Inner
<1>9. Grows
 <2>1. ASSUME NEW o \in Adds, Detached(o) PROVE Detached(o)'
  <3>1. Info(o).l \in Leaves /\ Info(o).p \in Inner /\ Info(o)' = Info(o) BY <1>7 DEF Adds, AddInfo, InfosStay
  <3>2. Info(o).l # new BY <1>2, <3>1 DEF Leaves, Inner
  <3>3. Info(o).l \notin Kids(Info(o).p)' BY <1>3, <2>1, <3>1, <3>2 DEF Detached
  <3> QED BY <3>1, <3>3 DEF Detached, Kids
 <2>2. ASSUME NEW o \in Removes, Marked(o), Cut(o) PROVE Cut(o)'
  <3>1. /\ Info(o)' = Info(o)
        /\ Info(o).p \in Inner /\ Info(o).gp \in Inner
        /\ Info(o).p # n /\ Info(o).p # new /\ Info(o).p # old
   BY <1>8, <2>2
  <3>2. Info(o).p \notin Kids(Info(o).gp) => Info(o).p \notin Kids(Info(o).gp)' BY <1>3, <3>1
  <3>3. Other(o)' = Other(o) /\ Other(o) \in Nodes
   <4>1. tree'[Info(o).p].left = tree[Info(o).p].left /\ tree'[Info(o).p].right = tree[Info(o).p].right
    BY <1>3, <3>1 DEF SameKids
   <4>2. tree[Info(o).p].left \in Nodes /\ tree[Info(o).p].right \in Nodes BY <3>1, NodeTypes DEF GlobalInv
   <4> QED BY <3>1, <4>1, <4>2 DEF Other
  <3>4. Misses(o)' = Misses(o) BY <1>6, <3>1, <3>3, NodeTypes DEF Misses, GlobalInv
  <3> QED BY <2>2, <3>1, <3>2, <3>4 DEF Cut, Kids
 <2>3. ASSUME NEW o \in Removes, Marked(o)' PROVE Marked(o)
  <3>1. Info(o)' = Info(o) /\ Info(o).p \in Inner BY <1>7 DEF Removes, RemoveInfo, InfosStay
  <3> QED BY <1>6, <2>3, <3>1 DEF Marked, Word
 <2>4. \A m \in Inner : \A x : Flagged(m, x)' = Flagged(m, x) BY <1>6 DEF Flagged, Word
 <2>5. \A m \in Inner : Word(m).state \in {"CLEAN", "MARK"} => SameKids(m) BY <1>3, <1>5
 <2> QED BY <1>6, <1>7, <2>1, <2>2, <2>3, <2>4, <2>5 DEF Grows, InfosStay
<1>10. \A m \in Inner : Dead(m)' = Dead(m)
 <2>1. SUFFICES ASSUME NEW m \in Inner PROVE Dead(m)' = Dead(m) OBVIOUS
 <2>2. CASE Word(m).state # "MARK" BY <1>6, <2>2 DEF Dead
 <2>3. CASE Word(m).state = "MARK"
  <3>1. PICK o : o = Word(m).info OBVIOUS
  <3>2. o \in Removes /\ Info(o).p = m /\ Marked(o) BY <2>3, <3>1 DEF GlobalInv, WordsLead, Leads, Sound
  <3>3. m # new /\ m # old /\ Info(o).gp \in Inner /\ Info(o)' = Info(o) BY <1>8, <3>2
  <3>4. m \in Kids(Info(o).gp)' <=> m \in Kids(Info(o).gp) BY <1>3, <3>3
  <3> QED BY <1>6, <3>1, <3>3, <3>4, Zenon DEF Dead, Kids, Word, Info
 <2> QED BY <2>2, <2>3
<1>11. Shape' /\ WordsLead' /\ KidsAreOrdered' BY <1>2, <1>9, SwapKeepsShape
<1>12. OneParent' BY <1>3, <1>5, <1>6, <1>10 DEF GlobalInv, OneParent
<1>13. DeadBelowDead'
 <2>1. ~Dead(new) BY <1>5 DEF Dead
 <2> QED BY <1>3, <1>6, <1>10, <2>1 DEF GlobalInv, DeadBelowDead
<1>14. SpineEnds'
 <2>1. PICK S \in SUBSET Nodes : IsSpine(S) BY DEF GlobalInv, SpineEnds
 <2>2. PICK left : left = tree[new].left OBVIOUS
 <2>3. left \in Nodes /\ tree'[new].left = left BY <1>2, <1>3, <1>5, <2>2, NodeTypes DEF GlobalInv, SameKids
 <2>4. CASE old \in S
  <3> DEFINE T == S \cup {new, left}
  <3>1. tree[old].key = MinKey BY <1>2, <2>1, <2>4 DEF IsSpine, Leaves
  <3>2. ~tree[left].internal /\ tree[left].key = MinKey BY <1>1, <1>4, <2>2, <3>1 DEF Pending, LeftmostStays
  <3>3. ASSUME NEW m \in T
        PROVE IF tree'[m].internal THEN tree'[m].left \in T ELSE tree'[m].key = MinKey
   <4>1. m \in Nodes BY <1>2, <2>1, <2>3
   <4>2. CASE m = left BY <1>6, <2>3, <3>2, <4>2
   <4>3. CASE m = new BY <2>3, <1>2, <1>6, <4>3 DEF Inner
   <4>4. CASE m = n /\ m \in S
    <5>1. tree[n].left \in S /\ tree'[n].internal BY <1>2, <1>6, <2>1, <4>4 DEF IsSpine, Inner
    <5> QED BY <1>2, <4>4, <5>1 DEF Swaps
   <4>5. CASE m # n /\ m \in S
    <5>1. tree[m].internal => tree'[m].left = tree[m].left BY <1>3, <4>1, <4>5 DEF Inner, SameKids
    <5> QED BY <1>6, <2>1, <4>1, <4>5, <5>1 DEF IsSpine
   <4> QED BY <4>2, <4>3, <4>4, <4>5
  <3>4. T \in SUBSET Nodes /\ Root \in T BY <1>2, <2>1, <2>3 DEF IsSpine
  <3> HIDE DEF T
  <3>5. IsSpine(T)' BY <3>3, <3>4 DEF IsSpine
  <3> QED BY <1>6, <3>4, <3>5 DEF SpineEnds
 <2>5. CASE old \notin S
  <3>1. ASSUME NEW m \in S
        PROVE IF tree'[m].internal THEN tree'[m].left \in S ELSE tree'[m].key = MinKey
   <4>1. m \in Nodes BY <2>1
   <4>2. tree[m].internal => tree'[m].left = tree[m].left
    <5>1. CASE m = n
     <6>1. tree[n].left \in S BY <1>2, <2>1, <5>1 DEF IsSpine, Inner
     <6> QED BY <1>2, <2>5, <5>1, <6>1 DEF Swaps
    <5>2. CASE m # n BY <1>3, <4>1, <5>2 DEF Inner, SameKids
    <5> QED BY <5>1, <5>2
   <4> QED BY <1>6, <2>1, <4>1, <4>2 DEF IsSpine
  <3>2. IsSpine(S)' BY <2>1, <3>1 DEF IsSpine
  <3> QED BY <1>6, <2>1, <3>2 DEF SpineEnds
 <2> QED BY <2>4, <2>5
<1>15. \A o \in Removes : RemoveInv(o)'
 <2>1. \A o \in Removes : Word(n) # Update("DFLAG", o) BY <1>5 DEF Update
 <2> QED BY <1>2, <1>5, <1>9, <2>1, SwapKeepsRemoves
<1>16. Detached(op)'
 <2>1. Info(op)' = Info(op) BY <1>2, <1>7 DEF InfosStay
 <2> QED BY <1>1, <1>3, <1>5, <2>1 DEF Detached, Kids
<1>17. ASSUME NEW o \in Adds PROVE AddInv(o)'
 <2>1. CASE o = op
  <3>1. Info(op)' = Info(op) /\ NewNode(op, "internal")' = NewNode(op, "internal")
   BY <1>2, <1>7 DEF InfosStay, NewNode
  <3>2. \A m \in Inner : old \in Kids(m)' => Dead(m)'
   <4>1. SUFFICES ASSUME NEW m \in Inner, old \in Kids(m)' PROVE Dead(m)' OBVIOUS
   <4>2. m # n /\ old \in Kids(m) \cap Kids(n) BY <1>3, <1>5, <4>1
   <4>3. ~Dead(n) BY <1>5 DEF Dead
   <4> QED BY <1>2, <1>10, <4>2, <4>3 DEF GlobalInv, OneParent
  <3>3. Replaced(op)' BY <1>1, <1>6, <1>16, <3>1, <3>2 DEF Replaced, Kids
  <3>4. (tree[Info(op).newInternal].key < tree[Info(op).p].key
           <=> tree[Info(op).l].key < tree[Info(op).p].key)'
   BY <1>1, <1>2, <1>6, <3>1 DEF AddInv
  <3> QED BY <1>2, <2>1, <3>1, <3>3, <3>4 DEF AddInv
 <2>2. CASE o # op
  <3>1. Word(n) # Update("IFLAG", o) BY <1>5, <2>2 DEF Update
  <3>2. new # Info(o).newInternal
   <4>1. new = NewNode(op, "internal") /\ Info(o).newInternal = NewNode(o, "internal")
    BY <1>1, <1>2 DEF AddInv, GlobalInv
   <4>2. op = <<op[1], op[2]>> BY <1>2, IdsOfInfos
   <4>3. o \in InfoIds BY DEF Adds
   <4>4. o = <<o[1], o[2]>> BY <4>3, IdsOfInfos
   <4> QED BY <2>2, <4>1, <4>2, <4>4 DEF NewNode
  <3>3. new # Info(o).l BY <1>2 DEF Adds, AddInfo, Leaves, Inner
  <3> QED BY <1>2, <1>5, <1>9, <1>10, <3>1, <3>2, <3>3, SwapKeepsAdd
 <2> QED BY <2>1, <2>2
<1>18. GlobalInv' BY <1>7, <1>11, <1>12, <1>13, <1>14, <1>15, <1>17 DEF GlobalInv
<1>19. \A m \in Inner : NodeStep(m)
 <2>1. ASSUME NEW m \in Inner, m # n PROVE NodeStep(m) BY <1>3, <1>6, <2>1 DEF NodeStep, SameKids, Word
 <2>2. NodeStep(n)
  <3>1. tree'[n].update = tree[n].update /\ tree[n].update.state = "IFLAG" /\ tree[n].update.info = op
   BY <1>2, <1>5, <1>6 DEF Word
  <3>2. tree'[n].left # tree[n].left => tree[n].left = old BY <1>2 DEF Swaps
  <3>3. tree'[n].right # tree[n].right => tree[n].right = old BY <1>2 DEF Swaps
  <3> QED BY <1>1, <3>1, <3>2, <3>3 DEF NodeStep, ChildStep
 <2> QED BY <2>1, <2>2
<1> QED BY <1>9, <1>16, <1>18, <1>19

(* The parent of a removed leaf makes place for its other child. *)
LEMMA UnlinkKeeps ==
 ASSUME GlobalInv, SearchMoves, UNCHANGED infos, NEW op \in Removes, Marked(op),
        Swaps(Info(op).gp, Info(op).p, Other(op))
 PROVE Grows /\ GlobalInv' /\ Cut(op)' /\ \A m \in Inner : NodeStep(m)
<1>1. PICK n, old, new, l : /\ n = Info(op).gp /\ old = Info(op).p
                            /\ new = Other(op) /\ l = Info(op).l
 OBVIOUS
<1>2. /\ op \in InfoIds /\ n \in Inner /\ old \in Inner /\ l \in Leaves
      /\ n \in Nodes /\ old \in Nodes /\ l \in Nodes /\ Swaps(n, old, new)
      /\ RemoveInv(op) /\ Info(op).pupdate.state = "CLEAN"
      /\ tree[old].left \in Nodes /\ tree[old].right \in Nodes
 BY <1>1, InfoTypes, NodeTypes DEF Removes, GlobalInv, CleanWords
<1>3. /\ l \in Kids(old) /\ new \in Nodes /\ new \in Kids(old)
      /\ \/ l = tree[old].right /\ new = tree[old].left
         \/ l = tree[old].left /\ new = tree[old].right
 BY <1>1, <1>2 DEF RemoveInv, Other, Kids
<1>4. /\ \A m \in Inner : m # n => Kids(m)' = Kids(m)
      /\ new \in Kids(n)' /\ old \in Kids(n) /\ (old # new => old \notin Kids(n)')
      /\ \A c : c # new /\ c # old => (c \in Kids(n)' <=> c \in Kids(n))
      /\ \A m \in Inner : \A c \in Kids(m)' : (c = new /\ m = n) \/ c \in Kids(m)
 BY <1>2, <1>3, SwapKids
<1>5. \A m \in Inner : m # n => SameKids(m) BY <1>2 DEF Swaps
<1>6. ~Misses(op)
 <2>1. tree[tree[n].left].key < tree[n].key /\ tree[n].key <= tree[tree[n].right].key
  BY <1>2 DEF GlobalInv, KidsAreOrdered
 <2>2. tree[n].key \in Int /\ tree[old].key \in Int /\ tree[new].key \in Int
  BY <1>2, <1>3, NodeTypes, KeysAreIntegers DEF GlobalInv
 <2>3. tree[new].key < tree[n].key <=> tree[old].key < tree[n].key BY <1>2, <2>1, <2>2 DEF Swaps
 <2> QED BY <1>1, <2>3 DEF Misses
<1>7. /\ Word(n) = Update("DFLAG", op) /\ Word(n).state = "DFLAG" /\ Word(n).info = op
      /\ Word(old) = Update("MARK", op) /\ Word(old).state = "MARK" /\ Word(old).info = op
      /\ n # old
 BY <1>1, <1>2, <1>4, <1>6 DEF RemoveInv, Cut, Marked, Update
<1>8. ~Dead(old) /\ ~Dead(n) BY <1>1, <1>4, <1>7 DEF Dead
<1>9. old # new
 <2>1. old \notin Kids(old) BY <1>2, <1>4, <1>7, <1>8 DEF GlobalInv, OneParent
 <2> QED BY <1>3, <2>1
<1>10. new \in Inner => ~Dead(new) BY <1>2, <1>3, <1>8 DEF GlobalInv, DeadBelowDead
<1>11. /\ Nodes' = Nodes /\ Inner' = Inner /\ Leaves' = Leaves
       /\ \A m \in Inner : Word(m)' = Word(m)
       /\ \A m \in Nodes : tree'[m].internal = tree[m].internal /\ tree'[m].key = tree[m].key
 BY <1>2 DEF Swaps
<1>12. /\ InfoIds' = InfoIds /\ InfosStay /\ Adds' = Adds /\ Removes' = Removes BY <1>11, SameInfos
<1>13. ASSUME NEW o \in Removes, Marked(o)
       PROVE  /\ Info(o) \in RemoveInfo /\ Info(o)' = Info(o) /\ o \in InfoIds
              /\ Info(o).p \in Inner /\ Info(o).gp \in Inner /\ Info(o).p # n
              /\ Info(o).p \notin Kids(Info(o).gp) => Info(o).p \notin Kids(Info(o).gp)'
 <2>1. Info(o) \in RemoveInfo /\ o \in InfoIds /\ Info(o)' = Info(o) BY <1>12 DEF Removes, InfosStay
 <2>2. Info(o).p \in Inner /\ Info(o).gp \in Inner BY <2>1 DEF RemoveInfo
 <2>3. Word(Info(o).p).state = "MARK" /\ Word(Info(o).p).info = o BY <1>13, FlagsAndMarks
 <2>4. ASSUME Info(o).p \notin Kids(Info(o).gp), Info(o).p = new PROVE FALSE BY <1>10, <2>2, <2>3, <2>4 DEF Dead
 <2> QED BY <1>4, <1>7, <2>1, <2>2, <2>3, <2>4
<1>14. Grows
 <2>1. ASSUME NEW o \in Adds, Detached(o) PROVE Detached(o)'
  <3>1. Info(o).l \in Leaves /\ Info(o).p \in Inner /\ Info(o)' = Info(o) BY <1>12 DEF Adds, AddInfo, InfosStay
  <3>2. Replaced(o) BY <2>1 DEF GlobalInv, AddInv, Pending, Detached
  <3>3. Info(o).l # new BY <1>2, <1>3, <1>8, <3>2 DEF Replaced
  <3>4. Info(o).l \notin Kids(Info(o).p)' BY <1>4, <2>1, <3>1, <3>3 DEF Detached
  <3> QED BY <3>1, <3>4 DEF Detached, Kids
 <2>2. ASSUME NEW o \in Removes, Marked(o), Cut(o) PROVE Cut(o)'
  <3>1. /\ Info(o)' = Info(o)
        /\ Info(o).p \in Inner /\ Info(o).gp \in Inner /\ Info(o).p # n
        /\ Info(o).p \notin Kids(Info(o).gp) => Info(o).p \notin Kids(Info(o).gp)'
   BY <1>13, <2>2
  <3>2. Other(o)' = Other(o) /\ Other(o) \in Nodes
   <4>1. tree'[Info(o).p].left = tree[Info(o).p].left /\ tree'[Info(o).p].right = tree[Info(o).p].right
    BY <1>5, <3>1 DEF SameKids
   <4>2. tree[Info(o).p].left \in Nodes /\ tree[Info(o).p].right \in Nodes BY <3>1, NodeTypes DEF GlobalInv
   <4> QED BY <3>1, <4>1, <4>2 DEF Other
  <3>3. Misses(o)' = Misses(o) BY <1>11, <3>1, <3>2, NodeTypes DEF Misses, GlobalInv
  <3> QED BY <2>2, <3>1, <3>3 DEF Cut, Kids
 <2>3. ASSUME NEW o \in Removes, Marked(o)' PROVE Marked(o)
  <3>1. Info(o)' = Info(o) /\ Info(o).p \in Inner BY <1>12 DEF Removes, RemoveInfo, InfosStay
  <3> QED BY <1>11, <2>3, <3>1 DEF Marked, Word
 <2>4. \A m \in Inner : \A x : Flagged(m, x)' = Flagged(m, x) BY <1>11 DEF Flagged, Word
 <2>5. \A m \in Inner : Word(m).state \in {"CLEAN", "MARK"} => SameKids(m) BY <1>5, <1>7
 <2> QED BY <1>11, <1>12, <2>1, <2>2, <2>3, <2>4, <2>5 DEF Grows, InfosStay
<1>15. \A m \in Inner : (Dead(m) => Dead(m)') /\ (Dead(m)' => Dead(m) \/ m = old)
 <2>1. SUFFICES ASSUME NEW m \in Inner
                PROVE (Dead(m) => Dead(m)') /\ (Dead(m)' => Dead(m) \/ m = old)
  OBVIOUS
 <2>2. CASE Word(m).state # "MARK" BY <1>11, <2>2 DEF Dead
 <2>3. CASE Word(m).state = "MARK"
  <3>1. PICK o : o = Word(m).info OBVIOUS
  <3>2. o \in Removes /\ Info(o).p = m /\ Marked(o) BY <2>3, <3>1 DEF GlobalInv, WordsLead, Leads, Sound
  <3>3. /\ Info(o).gp \in Inner /\ Info(o)' = Info(o)
        /\ m \notin Kids(Info(o).gp) => m \notin Kids(Info(o).gp)'
   BY <1>13, <3>2
  <3>4. m # old /\ m \in Kids(Info(o).gp) => m \in Kids(Info(o).gp)' BY <1>4, <3>3
  <3> QED BY <1>11, <3>1, <3>3, <3>4, Zenon DEF Dead, Kids, Word, Info
 <2> QED BY <2>2, <2>3
<1>16. Info(op)' = Info(op) BY <1>2, <1>12 DEF InfosStay
<1>17. Dead(old)'
 <2>1. Word(old)'.state = "MARK" /\ Word(old)'.info = op BY <1>2, <1>7, <1>11
 <2> QED BY <1>1, <1>4, <1>9, <1>16, <2>1, Zenon DEF Dead, Kids, Word, Info
<1>18. Shape' /\ WordsLead' /\ KidsAreOrdered' BY <1>2, <1>3, <1>14, SwapKeepsShape
<1>19. OneParent'
 <2>1. SUFFICES ASSUME NEW a \in Inner, NEW b \in Inner, NEW c \in Kids(a)' \cap Kids(b)',
                       a # b
                PROVE Dead(a)' \/ Dead(b)'
  BY <1>11 DEF OneParent
 <2>2. CASE c \in Kids(a) \cap Kids(b) BY <1>15, <2>1, <2>2 DEF GlobalInv, OneParent
 <2>3. ASSUME NEW x \in Inner, new \in Kids(x), x # n PROVE Dead(x)'
  BY <1>2, <1>3, <1>8, <1>15, <1>17, <2>3 DEF GlobalInv, OneParent
 <2> QED BY <1>4, <2>1, <2>2, <2>3
<1>20. DeadBelowDead'
 <2>1. SUFFICES ASSUME NEW a \in Inner, NEW c \in Kids(a)' \cap Inner, Dead(c)'
                PROVE Dead(a)'
  BY <1>11 DEF DeadBelowDead
 <2>2. CASE c = old
  <3>1. a # n /\ old \in Kids(a) \cap Kids(n) BY <1>4, <1>9, <2>1, <2>2
  <3> QED BY <1>2, <1>8, <1>15, <3>1 DEF GlobalInv, OneParent
 <2>3. CASE c # old
  <3>1. Dead(c) BY <1>15, <2>1, <2>3
  <3>2. c \in Kids(a) BY <1>4, <1>10, <2>1, <3>1
  <3> QED BY <1>15, <2>1, <3>1, <3>2 DEF GlobalInv, DeadBelowDead
 <2> QED BY <2>2, <2>3
<1>21. SpineEnds'
 <2>1. PICK S \in SUBSET Nodes : IsSpine(S) BY DEF GlobalInv, SpineEnds
 <2>2. old \in S => new \in S
  <3>1. SUFFICES ASSUME old \in S PROVE new \in S OBVIOUS
  <3>2. tree[old].left \in S BY <1>2, <2>1, <3>1 DEF IsSpine, Inner
  <3>3. l \notin S
   <4>1. tree[l].key \in Keys BY <1>1, <1>2 DEF RemoveInv
   <4>2. tree[l].key # MinKey BY <4>1, NBBSTAssumption
   <4> QED BY <1>2, <2>1, <4>2 DEF IsSpine, Leaves
  <3> QED BY <1>3, <3>2, <3>3
 <2>3. ASSUME NEW m \in S
       PROVE IF tree'[m].internal THEN tree'[m].left \in S ELSE tree'[m].key = MinKey
  <3>1. m \in Nodes BY <2>1
  <3>2. tree[m].internal => tree'[m].left \in S
   <4>1. tree[m].internal => tree[m].left \in S BY <2>1 DEF IsSpine
   <4>2. m = n => tree'[m].left \in {tree[m].left, new} /\ (tree'[m].left = new => tree[m].left = old \/ tree[m].left = new)
    BY <1>2 DEF Swaps
   <4>3. m # n /\ tree[m].internal => tree'[m].left = tree[m].left BY <1>5, <3>1 DEF Inner, SameKids
   <4> QED BY <2>2, <4>1, <4>2, <4>3
  <3> QED BY <1>11, <2>1, <3>1, <3>2 DEF IsSpine
 <2>4. IsSpine(S)' BY <2>1, <2>3 DEF IsSpine
 <2> QED BY <1>11, <2>1, <2>4 DEF SpineEnds
<1>22. \A o \in Removes : RemoveInv(o)'
 <2>1. ~MayMark(op) BY <1>1, <1>2, <1>7 DEF MayMark
 <2>2. \A o \in Removes : Word(n) = Update("DFLAG", o) => ~MayMark(o) BY <1>7, <2>1 DEF Update
 <2> QED BY <1>2, <1>3, <1>7, <1>14, <2>2, SwapKeepsRemoves
<1>23. ASSUME NEW o \in Adds PROVE AddInv(o)'
 <2>1. Word(n) # Update("IFLAG", o) BY <1>7 DEF Update
 <2>2. Pending(o) => new # Info(o).newInternal BY <1>2, <1>3 DEF Pending, Unseen
 <2>3. Replaced(o) => new # Info(o).l BY <1>2, <1>3, <1>8 DEF Replaced
 <2> QED BY <1>2, <1>3, <1>7, <1>14, <1>15, <2>1, <2>2, <2>3, SwapKeepsAdd
<1>24. GlobalInv' BY <1>12, <1>18, <1>19, <1>20, <1>21, <1>22, <1>23 DEF GlobalInv
<1>25. Cut(op)' BY <1>1, <1>4, <1>9, <1>16 DEF Cut, Kids
<1>26. \A m \in Inner : NodeStep(m)
 <2>1. ASSUME NEW m \in Inner, m # n PROVE NodeStep(m) BY <1>5, <1>11, <2>1 DEF NodeStep, SameKids, Word
 <2>2. NodeStep(n)
  <3>1. /\ tree'[n].update = tree[n].update
        /\ tree[n].update.state = "DFLAG" /\ tree[n].update.info = op
        /\ tree[old].update = Update("MARK", op)
   BY <1>2, <1>7, <1>11 DEF Word
  <3>2. tree'[n].left # tree[n].left => tree[n].left = old BY <1>2 DEF Swaps
  <3>3. tree'[n].right # tree[n].right => tree[n].right = old BY <1>2 DEF Swaps
  <3> QED BY <1>1, <3>1, <3>2, <3>3 DEF NodeStep, ChildStep
 <2> QED BY <2>1, <2>2
<1> QED BY <1>14, <1>24, <1>25, <1>26

-----------------------------------------------------------------------------

(* It is enough to look at the memory and at the thread that moves. *)
LEMMA ThreadsKeep ==
 ASSUME NBBSTInv, Grows, GlobalInv', NEW t \in Threads, Moves(t), ThreadInv(t)'
 PROVE NBBSTInv'
<1>1. ASSUME NEW u \in Threads, u # t PROVE ThreadInv(u)' BY <1>1, OthersStay DEF NBBSTInv, Moves
<1> QED BY <1>1 DEF NBBSTInv, Moves

(* A search whose node l is another one. *)
LEMMA SearchFields ==
 ASSUME NEW s \in Searches, NEW n, NEW r, r = [s EXCEPT !.l = n]
 PROVE  /\ r.gp = s.gp /\ r.p = s.p /\ r.l = n
        /\ r.pupdate = s.pupdate /\ r.gpupdate = s.gpupdate
        /\ s.pupdate \in SoundWords /\ s.gpupdate \in SoundWords
        /\ s.gp \in Inner \cup {NoNode} /\ s.p \in Inner \cup {NoNode}
        /\ (n \in Nodes => r \in Searches)
 BY DEF Searches

(* A call that returns forgets its locals. *)
LEMMA ReturnMoves ==
 ASSUME ControlTypes, NEW t \in Threads, NEW r, Return(t, r)
 PROVE Moves(t) /\ (Grows => ThreadInv(t)')
<1>1. /\ pc'[t] = "idle" /\ search'[t] = NoSearch /\ seen'[t] = NullUpdate /\ stack'[t] = <<>>
      /\ \A u \in Threads \ {t} : /\ pc'[u] = pc[u] /\ search'[u] = search[u]
                                  /\ seen'[u] = seen[u] /\ stack'[u] = stack[u]
                                  /\ call'[u] = call[u]
      /\ ControlTypes'
 BY DEF Return, GoTo, ControlTypes
<1>2. NoSearch.gp = NoNode /\ NoSearch.p = NoNode /\ NoSearch.l = NoNode BY DEF NoSearch
<1>3. SearchMoves BY <1>1, <1>2 DEF SearchMoves
<1>4. NullUpdate.state = "CLEAN" /\ NullUpdate \in Words' BY DEF NullUpdate, Update, Words, States
<1>5. Sound(NullUpdate)' BY <1>4 DEF Sound, NullUpdate
<1>6. NullUpdate \in SoundWords' BY <1>4, <1>5 DEF SoundWords
<1>7. NoSearch \in Searches' BY <1>6 DEF Searches, NoSearch
<1>8. SearchInv(NoSearch)' BY <1>2, <1>7 DEF SearchInv, NoSearch
<1>9. SearchInv(search[t])' /\ Sound(seen[t])'
 BY <1>1, <1>5, <1>8 DEF SearchInv, Sound, Remembered, Flagged, Word, Marked
<1>10. <<>> \in Seq(FrameSet') OBVIOUS
<1>11. ThreadInv(t)' BY <1>1, <1>9, <1>10 DEF ThreadInv
<1> QED BY <1>1, <1>3, <1>11 DEF Moves

(* A retry searches from the root again and keeps the words that it has read. *)
LEMMA RetryMoves ==
 ASSUME NBBSTInv, NEW t \in Threads, pc[t] # "idle", Retry(t)
 PROVE Moves(t) /\ (Grows => ThreadInv(t)')
<1>1. PICK s : s = search[t] OBVIOUS
<1>2. PICK r : r = [s EXCEPT !.l = Root] OBVIOUS
<1>3. /\ pc'[t] = "update" /\ search'[t] = r /\ seen'[t] = NullUpdate /\ stack'[t] = <<>>
      /\ call'[t] = call[t]
      /\ \A u \in Threads \ {t} : /\ pc'[u] = pc[u] /\ search'[u] = search[u]
                                  /\ seen'[u] = seen[u] /\ stack'[u] = stack[u]
                                  /\ call'[u] = call[u]
      /\ ControlTypes'
 BY <1>1, <1>2 DEF NBBSTInv, Retry, GoTo, ControlTypes, history
<1>4. SearchInv(s) /\ s \in Searches /\ call[t].key \in Keys /\ Root \in Inner /\ Root \in Nodes
 BY <1>1 DEF NBBSTInv, ThreadInv, SearchInv, GlobalInv, Shape, Inner
<1>5. /\ r.gp = s.gp /\ r.p = s.p /\ r.l = Root
      /\ r.pupdate = s.pupdate /\ r.gpupdate = s.gpupdate
 BY <1>2, <1>4, SearchFields
<1>6. SearchMoves BY <1>1, <1>3, <1>5 DEF SearchMoves
<1>7. ASSUME Grows PROVE ThreadInv(t)'
 <2>1. SearchInv(s)' /\ Root \in Nodes' /\ Root \in Inner' BY <1>4, <1>7, SearchStays, SetsGrow
 <2>2. r \in Searches' BY <1>2, <2>1 DEF SearchInv, Searches
 <2>3. SearchInv(r)' BY <1>5, <2>1, <2>2 DEF SearchInv, Remembered, Sound, Flagged, Word, Marked
 <2>4. SearchInv(search[t])' BY <1>3, <2>3 DEF SearchInv, Remembered, Sound, Flagged, Word, Marked
 <2>5. AtUpdate(search[t])' BY <1>3, <1>5, <2>1 DEF AtUpdate
 <2>6. Sound(seen[t])'
  <3>1. NullUpdate.state = "CLEAN" /\ NullUpdate \in Words' BY DEF NullUpdate, Update, Words, States
  <3> QED BY <1>3, <3>1 DEF Sound
 <2>7. <<>> \in Seq(FrameSet') OBVIOUS
 <2> QED BY <1>3, <1>4, <2>4, <2>5, <2>6, <2>7 DEF ThreadInv
<1> QED BY <1>3, <1>6, <1>7 DEF Moves

(* A thread that helps needs frames that are justified. *)
LEMMA HelpingMoves ==
 ASSUME NBBSTInv, NEW t \in Threads, pc[t] # "idle", NEW frames, HelpsWith(t, frames)
 PROVE Moves(t) /\ (Grows /\ frames \in Seq(FrameSet') /\ frames # <<>> => ThreadInv(t)')
<1>1. /\ pc'[t] = "help" /\ search'[t] = search[t] /\ seen'[t] = seen[t] /\ stack'[t] = frames
      /\ call'[t] = call[t]
      /\ \A u \in Threads \ {t} : /\ pc'[u] = pc[u] /\ search'[u] = search[u]
                                  /\ seen'[u] = seen[u] /\ stack'[u] = stack[u]
                                  /\ call'[u] = call[u]
      /\ ControlTypes'
 BY DEF HelpsWith, NBBSTInv, ControlTypes
<1>2. SearchMoves BY DEF HelpsWith, SearchMoves
<1>3. SearchInv(search[t]) /\ Sound(seen[t]) /\ call[t].key \in Keys BY DEF NBBSTInv, ThreadInv
<1>4. ASSUME Grows, frames \in Seq(FrameSet'), frames # <<>> PROVE ThreadInv(t)'
 <2>1. PICK s, u : s = search[t] /\ u = seen[t] OBVIOUS
 <2>2. SearchInv(s)' /\ Sound(u)' BY <1>3, <1>4, <2>1, SearchStays, SoundStays
 <2>3. SearchInv(search[t])' /\ Sound(seen[t])'
  BY <1>1, <2>1, <2>2 DEF SearchInv, Remembered, Sound, Flagged, Word, Marked
 <2> QED BY <1>1, <1>3, <1>4, <2>3 DEF ThreadInv
<1> QED BY <1>1, <1>2, <1>4 DEF Moves

(* The stack of a thread in Help*. *)
LEMMA StackFacts ==
 ASSUME NEW S, NEW q \in Seq(S), q # <<>>
 PROVE  /\ Last(q) \in S /\ Front(q) \in Seq(S)
        /\ Len(q) > 1 => Front(q) # <<>>
        /\ Len(Front(q)) = Len(q) - 1
<1>1. Len(q) \in Nat /\ Len(q) # 0 /\ \A i \in 1 .. Len(q) : q[i] \in S OBVIOUS
<1>2. Last(q) \in S BY <1>1 DEF Last
<1>3. /\ SubSeq(q, 1, Len(q) - 1) \in Seq(S)
      /\ Len(SubSeq(q, 1, Len(q) - 1)) = Len(q) - 1
 <2>1. PICK n \in Int : n = Len(q) - 1 /\ n >= 0 /\ \A i \in 1 .. n : q[i] \in S BY <1>1
 <2>2. 1 \in Int OBVIOUS
 <2>3. /\ SubSeq(q, 1, n) \in Seq(S)
       /\ Len(SubSeq(q, 1, n)) = IF 1 <= n THEN n - 1 + 1 ELSE 0
  BY <2>1, <2>2, SubSeqProperties
 <2> QED BY <2>1, <2>3
<1>4. Front(q) \in Seq(S) /\ Len(Front(q)) = Len(q) - 1 BY <1>3 DEF Front
<1>5. Len(q) > 1 => Len(Front(q)) # 0 BY <1>1, <1>4
<1> QED BY <1>2, <1>4, <1>5

(* The innermost call of Help* is one of FrameSet. *)
LEMMA TopIsFrame ==
 ASSUME NBBSTInv, NEW t \in Threads, pc[t] = "help"
 PROVE Top(t) \in FrameSet /\ stack[t] \in Seq(FrameSet) /\ stack[t] # <<>>
<1>1. stack[t] \in Seq(FrameSet) /\ stack[t] # <<>> BY DEF NBBSTInv, ThreadInv
<1> QED BY <1>1, StackFacts DEF Top

(* The innermost call goes on with other frames. *)
LEMMA ContinueMoves ==
 ASSUME NBBSTInv, NEW t \in Threads, pc[t] = "help", NEW frames, Continue(t, frames),
        UNCHANGED call
 PROVE  /\ Moves(t)
        /\ Grows /\ frames \in Seq(FrameSet') /\ (frames # <<>> \/ Len(stack[t]) > 1)
             => ThreadInv(t)'
<1>1. stack[t] \in Seq(FrameSet) /\ stack[t] # <<>> BY TopIsFrame
<1>2. PICK rest : rest = Front(stack[t]) OBVIOUS
<1>3. rest \in Seq(FrameSet) /\ (Len(stack[t]) > 1 => rest # <<>>) BY <1>1, <1>2, StackFacts
<1>4. PICK new : new = rest \o frames OBVIOUS
<1>5. HelpsWith(t, new) /\ pc[t] # "idle" BY <1>2, <1>4 DEF Continue, HelpsWith
<1>6. Moves(t) /\ (Grows /\ new \in Seq(FrameSet') /\ new # <<>> => ThreadInv(t)') BY <1>5, HelpingMoves
<1>7. ASSUME Grows, frames \in Seq(FrameSet'), frames # <<>> \/ Len(stack[t]) > 1
      PROVE new \in Seq(FrameSet') /\ new # <<>>
 <2>1. FrameSet \subseteq FrameSet' BY <1>7, FramesStay DEF NBBSTInv, GlobalInv
 <2>2. rest \in Seq(FrameSet') BY <1>3, <2>1
 <2>3. new \in Seq(FrameSet') /\ Len(new) = Len(rest) + Len(frames) BY <1>4, <1>7, <2>2
 <2>4. Len(rest) \in Nat /\ Len(frames) \in Nat /\ (Len(rest) # 0 \/ Len(frames) # 0) BY <1>3, <1>7, <2>2
 <2> QED BY <2>3, <2>4
<1> QED BY <1>6, <1>7

(* The innermost call returns, to its caller or to the loop of add or remove. *)
LEMMA PopMoves ==
 ASSUME NBBSTInv, NEW t \in Threads, pc[t] = "help", NEW done, PopFrame(t, done)
 PROVE Moves(t) /\ (Grows => ThreadInv(t)')
<1>1. CASE Len(stack[t]) > 1
 <2>1. Continue(t, <<>>) /\ UNCHANGED call BY <1>1 DEF PopFrame, history
 <2>2. <<>> \in Seq(FrameSet') OBVIOUS
 <2> QED BY <1>1, <2>1, <2>2, ContinueMoves
<1>2. CASE ~(Len(stack[t]) > 1)
 <2>1. Return(t, TRUE) \/ Retry(t) BY <1>2 DEF PopFrame
 <2> QED BY <2>1, ReturnMoves, RetryMoves DEF NBBSTInv
<1> QED BY <1>1, <1>2

(* The frames of FrameSet, one kind at a time. *)
LEMMA FrameKinds ==
 ASSUME NEW f \in FrameSet
 PROVE  /\ f.at = "insertChild" => f.op \in Adds
        /\ f.at = "insertUnflag" => f.op \in Adds /\ Detached(f.op)
        /\ f.at = "deleteRead" => f.op \in Removes
        /\ f.at = "deleteMark" => f.op \in Removes /\ f.result \in SoundWords
              /\ f = [at |-> "deleteMark", op |-> f.op, result |-> f.result]
        /\ f.at = "deleteRecheck" => f.op \in Removes /\ f.result \in SoundWords /\ ~MayMark(f.op)
        /\ f.at = "backtrack" => f.op \in Removes /\ ~MayMark(f.op) /\ ~Marked(f.op)
        /\ f.at = "markedOther" => f.op \in Removes /\ Marked(f.op)
        /\ f.at = "markedChild" => f.op \in Removes /\ Marked(f.op) /\ f.other = Other(f.op)
        /\ f.at = "markedUnflag" => f.op \in Removes /\ Marked(f.op) /\ Cut(f.op)
<1>1. CASE f \in [at : {"insertChild"}, op : Adds] BY <1>1
<1>2. CASE f \in {g \in [at : {"insertUnflag"}, op : Adds] : Detached(g.op)} BY <1>2
<1>3. CASE f \in [at : {"deleteRead"}, op : Removes] BY <1>3
<1>4. CASE f \in [at : {"deleteMark"}, op : Removes, result : SoundWords] BY <1>4
<1>5. CASE f \in {g \in [at : {"deleteRecheck"}, op : Removes, result : SoundWords] : ~MayMark(g.op)} BY <1>5
<1>6. CASE f \in {g \in [at : {"backtrack"}, op : Removes] : ~MayMark(g.op) /\ ~Marked(g.op)} BY <1>6
<1>7. CASE f \in {g \in [at : {"markedOther"}, op : Removes] : Marked(g.op)} BY <1>7
<1>8. CASE f \in {g \in [at : {"markedChild"}, op : Removes, other : Nodes] :
                      Marked(g.op) /\ g.other = Other(g.op)}
 BY <1>8
<1>9. CASE f \in {g \in [at : {"markedUnflag"}, op : Removes] : Marked(g.op) /\ Cut(g.op)} BY <1>9
<1> QED BY <1>1, <1>2, <1>3, <1>4, <1>5, <1>6, <1>7, <1>8, <1>9 DEF FrameSet

(* The frames that the steps build. *)
LEMMA FrameMade ==
    /\ \A op \in Adds : Frame("insertChild", op) \in FrameSet
    /\ \A op \in Adds : Detached(op) => Frame("insertUnflag", op) \in FrameSet
    /\ \A op \in Removes :
         /\ Frame("deleteRead", op) \in FrameSet
         /\ \A u \in SoundWords :
              /\ [at |-> "deleteMark", op |-> op, result |-> u] \in FrameSet
              /\ ~MayMark(op) => [at |-> "deleteRecheck", op |-> op, result |-> u] \in FrameSet
         /\ ~MayMark(op) /\ ~Marked(op) => Frame("backtrack", op) \in FrameSet
         /\ Marked(op) => Frame("markedOther", op) \in FrameSet
         /\ \A c \in Nodes : Marked(op) /\ c = Other(op) =>
              [at |-> "markedChild", op |-> op, other |-> c] \in FrameSet
         /\ Marked(op) /\ Cut(op) => Frame("markedUnflag", op) \in FrameSet
 BY DEF Frame, FrameSet

(* Help(u) starts what the state of a sound word justifies. *)
LEMMA HelpFrames ==
 ASSUME NEW u, Sound(u)
 PROVE Help(u) \in Seq(FrameSet) /\ (u.state # "CLEAN" => Help(u) # <<>>)
<1>1. u.state \in States BY DEF Sound, Words
<1>2. CASE u.state = "IFLAG"
 <2>1. Help(u) = <<Frame("insertChild", u.info)>> /\ u.info \in Adds BY <1>2 DEF Help, Sound
 <2> QED BY <2>1, FrameMade
<1>3. CASE u.state = "MARK"
 <2>1. Help(u) = <<Frame("markedOther", u.info)>> /\ u.info \in Removes /\ Marked(u.info) BY <1>3 DEF Help, Sound
 <2> QED BY <2>1, FrameMade
<1>4. CASE u.state = "DFLAG"
 <2>1. Help(u) = <<Frame("deleteRead", u.info)>> /\ u.info \in Removes BY <1>4 DEF Help, Sound
 <2> QED BY <2>1, FrameMade
<1>5. CASE u.state = "CLEAN" BY <1>5 DEF Help
<1> QED BY <1>1, <1>2, <1>3, <1>4, <1>5 DEF States

-----------------------------------------------------------------------------

(* A step that leaves the memory alone and moves one thread. *)
LEMMA QuietSteps ==
 ASSUME NBBSTInv, UNCHANGED <<tree, infos>>, NEW t \in Threads, Moves(t),
        Grows => ThreadInv(t)'
 PROVE Keeps
<1>1. Grows BY QuietGrows
<1>2. GlobalInv' BY QuietKeeps DEF NBBSTInv, Moves
<1>3. \A m \in Inner : NodeStep(m) BY DEF NodeStep
<1> QED BY <1>1, <1>2, <1>3, ThreadsKeep DEF Keeps

(* The thread that such a step moves, by its new locals. *)
LEMMA QuietThread ==
 ASSUME NBBSTInv, UNCHANGED <<tree, infos>>, NEW t \in Threads, NEW at, NEW s, NEW u, NEW c, NEW q,
        pc'[t] = at, search'[t] = s, seen'[t] = u, call'[t] = c, stack'[t] = q,
        SearchInv(s), Sound(u), at # "idle" => c.key \in Keys,
        at = "update" => AtUpdate(s),
        at \in {"child", "result", "flag"} => AtNode(s),
        at = "child" => s.l = s.p,
        at \in {"result", "flag"} => AtLeaf(s, c),
        q \in Seq(FrameSet), at = "help" => q # <<>>
 PROVE ThreadInv(t)'
<1>1. Grows BY QuietGrows
<1>2. SearchInv(s)' /\ Sound(u)' /\ FrameSet \subseteq FrameSet'
 BY <1>1, SearchStays, SoundStays, FramesStay DEF NBBSTInv, GlobalInv
<1>3. q \in Seq(FrameSet') BY <1>2
<1>4. Inner' = Inner /\ Leaves' = Leaves BY DEF Inner, Leaves, Nodes
<1>5. SearchInv(search[t])' /\ Sound(seen[t])' BY <1>2 DEF SearchInv, Remembered, Sound, Flagged, Word, Marked
<1>6. /\ AtUpdate(s) => AtUpdate(search[t])'
      /\ AtNode(s) => AtNode(search[t])'
      /\ AtLeaf(s, c) => AtLeaf(search[t], call[t])'
 BY <1>4 DEF AtUpdate, AtNode, AtLeaf, Follows, Word, Kids
<1> QED BY <1>3, <1>5, <1>6 DEF ThreadInv

(* A step of Search moves the search of its thread only. *)
LEMMA SearchingMoves ==
 ASSUME NBBSTInv, NEW t \in Threads, NEW at, NEW s,
        pc' = [pc EXCEPT ![t] = at], search' = [search EXCEPT ![t] = s],
        UNCHANGED <<seen, stack, call>>, ComesFrom(s, search[t])
 PROVE  /\ Moves(t) /\ pc'[t] = at /\ search'[t] = s
        /\ seen'[t] = seen[t] /\ stack'[t] = stack[t] /\ call'[t] = call[t]
<1>1. /\ pc'[t] = at /\ search'[t] = s
      /\ \A u \in Threads \ {t} : pc'[u] = pc[u] /\ search'[u] = search[u]
      /\ ControlTypes'
 BY DEF NBBSTInv, ControlTypes
<1>2. SearchMoves BY <1>1 DEF SearchMoves, ComesFrom
<1> QED BY <1>1, <1>2 DEF Moves

(* Search reads the update word of a node: the parent becomes the grandparent. *)
LEMMA ReadUpdateKeeps ==
 ASSUME NBBSTInv, NEW t \in Threads, ReadUpdate(t)
 PROVE Keeps
<1>1. PICK s : s = search[t] OBVIOUS
<1>2. PICK q : q = [gp |-> s.p, p |-> s.l, l |-> s.l,
                    gpupdate |-> s.pupdate, pupdate |-> tree[s.l].update]
 OBVIOUS
<1>3. /\ q.gp = s.p /\ q.p = s.l /\ q.l = s.l
      /\ q.gpupdate = s.pupdate /\ q.pupdate = Word(s.l)
 BY <1>2 DEF Word
<1>4. /\ SearchInv(s) /\ Sound(seen[t]) /\ call[t].key \in Keys /\ AtUpdate(s)
      /\ stack[t] \in Seq(FrameSet)
 BY <1>1 DEF NBBSTInv, ThreadInv, ReadUpdate
<1>5. /\ pc' = [pc EXCEPT ![t] = "child"] /\ search' = [search EXCEPT ![t] = q]
      /\ UNCHANGED <<tree, infos, seen, stack, call>>
 BY <1>1, <1>2 DEF ReadUpdate, GoTo, memory, history
<1>6. s.l \in Inner /\ s.l \in Nodes /\ s.p \in Inner \cup {NoNode} BY <1>4 DEF AtUpdate, Inner, SearchInv, Searches
<1>7. Sound(Word(s.l)) /\ Word(s.l) \in SoundWords /\ s.pupdate \in SoundWords
 BY <1>4, <1>6 DEF NBBSTInv, GlobalInv, WordsLead, Leads, SearchInv, Searches, SoundWords, Sound
<1>8. Remembered(s.l, Word(s.l)) BY <1>7 DEF Remembered, Flagged, Update
<1>9. SearchInv(q)
 <2>1. q \in Searches BY <1>2, <1>6, <1>7 DEF Searches, Word
 <2> QED BY <1>3, <1>4, <1>8, <2>1 DEF SearchInv
<1>10. AtNode(q) BY <1>3, <1>4 DEF AtNode, AtUpdate
<1>11. Moves(t) /\ pc'[t] = "child" /\ search'[t] = q
       /\ seen'[t] = seen[t] /\ stack'[t] = stack[t] /\ call'[t] = call[t]
 <2>1. ComesFrom(q, search[t]) BY <1>1, <1>3 DEF ComesFrom
 <2> QED BY <1>5, <2>1, SearchingMoves
<1>12. ThreadInv(t)' BY <1>3, <1>4, <1>5, <1>9, <1>10, <1>11, QuietThread
<1> QED BY <1>5, <1>11, <1>12, QuietSteps

(* The child on the side of the key; below the root it is an inner node or MinKey. *)
LEMMA NextChildFacts ==
 ASSUME GlobalInv, NEW t \in Threads, search[t].p \in Inner, call[t].key \in Keys, NEW n, n = NextChild(t)
 PROVE  /\ n \in Kids(search[t].p) /\ n \in Nodes
        /\ call[t].key < tree[search[t].p].key <=> tree[n].key < tree[search[t].p].key
        /\ search[t].p = Root => tree[n].internal \/ tree[n].key = MinKey
<1>1. PICK p, k : p = search[t].p /\ k = call[t].key OBVIOUS
<1>2. n = IF k < tree[p].key THEN tree[p].left ELSE tree[p].right BY <1>1 DEF NextChild, Child
<1>3. /\ p \in Inner /\ tree[p].left \in Nodes /\ tree[p].right \in Nodes /\ p \in Nodes
      /\ k \in Int /\ \A m \in Nodes : tree[m].key \in Int
 BY <1>1, NodeTypes, KeysAreIntegers DEF GlobalInv
<1>4. tree[tree[p].left].key < tree[p].key /\ tree[p].key <= tree[tree[p].right].key
 BY <1>3 DEF GlobalInv, KidsAreOrdered
<1>5. ASSUME p = Root PROVE tree[n].internal \/ tree[n].key = MinKey
 <2>1. n = tree[Root].left
  <3>1. tree[Root].key = MaxKey /\ k < MaxKey BY <1>1, NBBSTAssumption DEF GlobalInv, Shape
  <3> QED BY <1>2, <1>5, <3>1
 <2>2. PICK S \in SUBSET Nodes : IsSpine(S) BY DEF GlobalInv, SpineEnds
 <2>3. n \in S BY <1>3, <1>5, <2>1, <2>2 DEF IsSpine, Inner
 <2> QED BY <2>2, <2>3 DEF IsSpine
<1> QED BY <1>1, <1>2, <1>3, <1>4, <1>5 DEF Kids

(* A search that goes to a child. *)
LEMMA ChildSearch ==
 ASSUME NBBSTInv, NEW t \in Threads, pc[t] = "child", NEW s, s = search[t],
        NEW n, n = NextChild(t), NEW r, r = [s EXCEPT !.l = n]
 PROVE  /\ r.gp = s.gp /\ r.p = s.p /\ r.l = n
        /\ r.pupdate = s.pupdate /\ r.gpupdate = s.gpupdate
        /\ n \in Nodes /\ SearchInv(r) /\ AtNode(r) /\ Follows(r.p, r.pupdate, n)
        /\ call[t].key < tree[r.p].key <=> tree[n].key < tree[r.p].key
        /\ r.p = Root => tree[n].internal \/ tree[n].key = MinKey
        /\ ComesFrom(r, s)
        /\ Sound(seen[t]) /\ call[t].key \in Keys /\ stack[t] \in Seq(FrameSet)
<1>1. /\ SearchInv(s) /\ s \in Searches /\ Sound(seen[t]) /\ call[t].key \in Keys
      /\ AtNode(s) /\ stack[t] \in Seq(FrameSet)
 BY DEF NBBSTInv, ThreadInv, SearchInv
<1>2. s.p \in Inner BY <1>1 DEF AtNode
<1>3. /\ n \in Kids(s.p) /\ n \in Nodes
      /\ call[t].key < tree[s.p].key <=> tree[n].key < tree[s.p].key
      /\ s.p = Root => tree[n].internal \/ tree[n].key = MinKey
 BY <1>1, <1>2, NextChildFacts DEF NBBSTInv
<1>4. /\ r.gp = s.gp /\ r.p = s.p /\ r.l = n
      /\ r.pupdate = s.pupdate /\ r.gpupdate = s.gpupdate /\ r \in Searches
 BY <1>1, <1>3, SearchFields
<1>5. SearchInv(r) /\ AtNode(r) /\ Follows(r.p, r.pupdate, n) BY <1>1, <1>3, <1>4 DEF SearchInv, AtNode, Follows
<1>6. ComesFrom(r, s) BY <1>2, <1>3, <1>4 DEF ComesFrom
<1> QED BY <1>1, <1>3, <1>4, <1>5, <1>6

(* Search goes down to an internal node. *)
LEMMA ReadChildKeeps ==
 ASSUME NBBSTInv, NEW t \in Threads, ReadChild(t)
 PROVE Keeps
<1>1. PICK s, n : s = search[t] /\ n = NextChild(t) OBVIOUS
<1>2. PICK r : r = [s EXCEPT !.l = n] OBVIOUS
<1>3. pc[t] = "child" /\ tree[n].internal BY <1>1 DEF ReadChild
<1>4. /\ r.p = s.p /\ r.l = n
      /\ n \in Nodes /\ SearchInv(r) /\ AtNode(r) /\ Follows(r.p, r.pupdate, n)
      /\ ComesFrom(r, s)
      /\ Sound(seen[t]) /\ call[t].key \in Keys /\ stack[t] \in Seq(FrameSet)
 BY <1>1, <1>2, <1>3, ChildSearch
<1>5. /\ pc' = [pc EXCEPT ![t] = "update"] /\ search' = [search EXCEPT ![t] = r]
      /\ UNCHANGED <<tree, infos, seen, stack, call>>
 BY <1>1, <1>2 DEF ReadChild, GoTo, memory, history
<1>6. AtUpdate(r) BY <1>3, <1>4 DEF AtUpdate, AtNode, Inner
<1>7. Moves(t) /\ pc'[t] = "update" /\ search'[t] = r
      /\ seen'[t] = seen[t] /\ stack'[t] = stack[t] /\ call'[t] = call[t]
 <2>1. ComesFrom(r, search[t]) BY <1>1, <1>4
 <2> QED BY <1>5, <2>1, SearchingMoves
<1>8. ThreadInv(t)' BY <1>4, <1>5, <1>6, <1>7, QuietThread
<1> QED BY <1>5, <1>7, <1>8, QuietSteps

(* Search has found a leaf, and no flag is in the way. *)
LEMMA PreparesKeeps ==
 ASSUME NBBSTInv, NEW t \in Threads, PreparesOperation(t)
 PROVE Keeps
<1>1. PICK s, n, c : s = search[t] /\ n = NextChild(t) /\ c = call[t] OBVIOUS
<1>2. PICK r : r = [s EXCEPT !.l = n] OBVIOUS
<1>3. /\ pc[t] = "child" /\ ~tree[n].internal
      /\ \/ c.op = "add" /\ tree[n].key # c.key
         \/ c.op = "remove" /\ tree[n].key = c.key
 BY <1>1 DEF PreparesOperation, Proceeds, Reaches
<1>4. /\ r.gp = s.gp /\ r.p = s.p /\ r.l = n
      /\ r.pupdate = s.pupdate /\ r.gpupdate = s.gpupdate
      /\ n \in Nodes /\ SearchInv(r) /\ AtNode(r) /\ Follows(r.p, r.pupdate, n)
      /\ c.key < tree[r.p].key <=> tree[n].key < tree[r.p].key
      /\ r.p = Root => tree[n].internal \/ tree[n].key = MinKey
      /\ ComesFrom(r, s)
      /\ Sound(seen[t]) /\ c.key \in Keys /\ stack[t] \in Seq(FrameSet)
 BY <1>1, <1>2, <1>3, ChildSearch
<1>5. s.pupdate.state = "CLEAN" /\ (c.op = "remove" => s.gpupdate.state = "CLEAN")
 BY <1>1 DEF PreparesOperation, Obstacle
<1>6. AtLeaf(r, c)
 <2>1. n \in Leaves BY <1>3, <1>4 DEF Leaves
 <2>2. c.op # "add" => tree[n].key = c.key /\ r.p # Root /\ r.gpupdate.state = "CLEAN"
  <3>1. c.key # MinKey BY <1>4, NBBSTAssumption
  <3> QED BY <1>3, <1>4, <1>5, <3>1
 <2>3. r.pupdate.state = "CLEAN" /\ (c.op = "add" => tree[n].key # c.key) BY <1>3, <1>4, <1>5
 <2> QED BY <1>4, <2>1, <2>2, <2>3 DEF AtLeaf
<1>7. /\ pc' = [pc EXCEPT ![t] = "result"] /\ search' = [search EXCEPT ![t] = r]
      /\ UNCHANGED <<tree, infos, seen, stack, call>>
 BY <1>1, <1>2 DEF PreparesOperation, GoTo, memory, history
<1>8. Moves(t) /\ pc'[t] = "result" /\ search'[t] = r
      /\ seen'[t] = seen[t] /\ stack'[t] = stack[t] /\ call'[t] = c
 <2>1. ComesFrom(r, search[t]) BY <1>1, <1>4
 <2>2. /\ Moves(t) /\ pc'[t] = "result" /\ search'[t] = r
       /\ seen'[t] = seen[t] /\ stack'[t] = stack[t] /\ call'[t] = call[t]
  BY <1>7, <2>1, SearchingMoves
 <2> QED BY <1>1, <2>2
<1>9. ThreadInv(t)' BY <1>4, <1>6, <1>7, <1>8, QuietThread
<1> QED BY <1>7, <1>8, <1>9, QuietSteps

(* A call returns what Search has found. *)
LEMMA ReturnKeeps ==
 ASSUME NBBSTInv, NEW t \in Threads, NEW r, Return(t, r), UNCHANGED memory
 PROVE Keeps
 BY ReturnMoves, QuietSteps DEF NBBSTInv, memory

(* A word that is in the way is helped, then the call starts over. *)
LEMMA HelpThenRetryKeeps ==
 ASSUME NBBSTInv, NEW t \in Threads, pc[t] # "idle", NEW u, Sound(u), HelpThenRetry(t, u),
        UNCHANGED memory
 PROVE Keeps
<1>1. UNCHANGED <<tree, infos>> /\ Grows BY QuietGrows DEF memory
<1>2. CASE u.state = "CLEAN"
 <2>1. Retry(t) BY <1>2 DEF HelpThenRetry
 <2> QED BY <1>1, <2>1, RetryMoves, QuietSteps
<1>3. CASE u.state # "CLEAN"
 <2>1. PICK frames : frames = Help(u) OBVIOUS
 <2>2. HelpsWith(t, frames)
  <3>1. Run(t, frames, FALSE) /\ UNCHANGED history BY <1>3, <2>1 DEF HelpThenRetry
  <3>2. UNCHANGED call BY <3>1 DEF history
  <3>3. pc' = [pc EXCEPT ![t] = "help"] BY <3>1 DEF Run, GoTo
  <3>4. stack' = [stack EXCEPT ![t] = frames] BY <3>1 DEF Run
  <3>5. UNCHANGED <<search, seen>> BY <3>1 DEF Run
  <3> QED BY <3>2, <3>3, <3>4, <3>5 DEF HelpsWith
 <2>3. frames \in Seq(FrameSet) /\ frames # <<>> BY <1>3, <2>1, HelpFrames
 <2>4. FrameSet \subseteq FrameSet' BY <1>1, FramesStay DEF NBBSTInv, GlobalInv
 <2>5. frames \in Seq(FrameSet') BY <2>3, <2>4
 <2>6. Moves(t) /\ (Grows /\ frames \in Seq(FrameSet') /\ frames # <<>> => ThreadInv(t)') BY <2>2, HelpingMoves
 <2> QED BY <1>1, <2>3, <2>5, <2>6, QuietSteps
<1> QED BY <1>2, <1>3

(* The words that Search has read are sound, so they may be helped. *)
LEMMA HelpsObstacleKeeps ==
 ASSUME NBBSTInv, NEW t \in Threads, HelpsObstacle(t)
 PROVE Keeps
<1>1. PICK u : u = Obstacle(t) OBVIOUS
<1>2. search[t].pupdate \in SoundWords /\ search[t].gpupdate \in SoundWords
 BY DEF NBBSTInv, ThreadInv, SearchInv, Searches
<1>3. Sound(u) BY <1>1, <1>2 DEF Obstacle, SoundWords
<1>4. pc[t] # "idle" BY DEF HelpsObstacle, Proceeds, Reaches
<1> QED BY <1>1, <1>3, <1>4, HelpThenRetryKeeps DEF HelpsObstacle

(* The second read of the word that is about to be flagged. *)
LEMMA FlagNodeIsInternal ==
 ASSUME NBBSTInv, NEW t \in Threads, pc[t] \in {"result", "flag"}
 PROVE FlagNode(t) \in Inner
<1>1. AtNode(search[t]) /\ AtLeaf(search[t], call[t]) BY DEF NBBSTInv, ThreadInv
<1> QED BY <1>1 DEF AtNode, AtLeaf, FlagNode

(* The word is read once more before the CAS. *)
LEMMA ReadResultKeeps ==
 ASSUME NBBSTInv, NEW t \in Threads, ReadResult(t)
 PROVE Keeps
<1>1. PICK u, s, c, q : u = Word(FlagNode(t)) /\ s = search[t] /\ c = call[t] /\ q = stack[t] OBVIOUS
<1>2. pc[t] = "result" /\ FlagNode(t) \in Inner BY FlagNodeIsInternal DEF ReadResult
<1>3. Sound(u) BY <1>1, <1>2 DEF NBBSTInv, GlobalInv, WordsLead, Leads
<1>4. /\ pc' = [pc EXCEPT ![t] = "flag"] /\ seen' = [seen EXCEPT ![t] = u]
      /\ UNCHANGED <<tree, infos, search, stack, call>>
 BY <1>1 DEF ReadResult, GoTo, memory, history, Word
<1>5. /\ pc'[t] = "flag" /\ seen'[t] = u /\ search'[t] = s /\ call'[t] = c /\ stack'[t] = q
      /\ \A v \in Threads \ {t} : pc'[v] = pc[v] /\ seen'[v] = seen[v]
      /\ ControlTypes'
 BY <1>1, <1>4 DEF NBBSTInv, ControlTypes
<1>6. SearchMoves BY <1>4 DEF SearchMoves
<1>7. Moves(t) BY <1>4, <1>5, <1>6 DEF Moves
<1>8. /\ SearchInv(s) /\ c.key \in Keys /\ AtNode(s) /\ AtLeaf(s, c) /\ q \in Seq(FrameSet)
 BY <1>1, <1>2 DEF NBBSTInv, ThreadInv
<1>9. ThreadInv(t)' BY <1>3, <1>4, <1>5, <1>8, QuietThread
<1> QED BY <1>4, <1>7, <1>9, QuietSteps

(* A CAS of the flag that fails. *)
LEMMA FlagFailsKeeps ==
 ASSUME NBBSTInv, NEW t \in Threads, FlagFails(t)
 PROVE Keeps
<1>1. PICK u : u = seen[t] OBVIOUS
<1>2. Sound(u) /\ pc[t] # "idle" /\ HelpThenRetry(t, u) /\ UNCHANGED memory
 BY <1>1 DEF FlagFails, NBBSTInv, ThreadInv
<1> QED BY <1>2, HelpThenRetryKeeps

(* A call starts at the root. *)
LEMMA StartKeeps ==
 ASSUME NBBSTInv, NEW t \in Threads, NEW c \in Abstract!SetCalls, Start(t, c)
 PROVE Keeps
<1>1. PICK s : s = search[t] OBVIOUS
<1>2. PICK r : r = [s EXCEPT !.l = Root] OBVIOUS
<1>3. /\ pc' = [pc EXCEPT ![t] = "update"] /\ search' = [search EXCEPT ![t] = r]
      /\ call' = [call EXCEPT ![t] = c] /\ UNCHANGED <<tree, infos, seen, stack>>
 BY <1>1, <1>2 DEF Start, GoTo, memory
<1>4. /\ SearchInv(s) /\ s \in Searches /\ Sound(seen[t]) /\ stack[t] \in Seq(FrameSet)
      /\ Root \in Inner /\ Root \in Nodes
 BY <1>1 DEF NBBSTInv, ThreadInv, SearchInv, GlobalInv, Shape, Inner
<1>5. /\ r.gp = s.gp /\ r.p = s.p /\ r.l = Root
      /\ r.pupdate = s.pupdate /\ r.gpupdate = s.gpupdate /\ r \in Searches
 BY <1>2, <1>4, SearchFields
<1>6. /\ pc'[t] = "update" /\ search'[t] = r /\ call'[t] = c
      /\ seen'[t] = seen[t] /\ stack'[t] = stack[t]
      /\ \A v \in Threads \ {t} : pc'[v] = pc[v] /\ search'[v] = search[v] /\ call'[v] = call[v]
      /\ ControlTypes'
 BY <1>3 DEF NBBSTInv, ControlTypes
<1>7. SearchMoves BY <1>1, <1>5, <1>6 DEF SearchMoves
<1>8. Moves(t) BY <1>3, <1>6, <1>7 DEF Moves
<1>9. SearchInv(r) /\ AtUpdate(r) BY <1>4, <1>5 DEF SearchInv, AtUpdate
<1>10. c.key \in Keys BY DEF Abstract!SetCalls
<1>11. ThreadInv(t)' BY <1>3, <1>4, <1>6, <1>9, <1>10, QuietThread
<1> QED BY <1>3, <1>8, <1>11, QuietSteps

-----------------------------------------------------------------------------
(* The flags.  The flagged word is clean, still the one that was read, so  *)
(* the children are those that the search has gone through.                *)

(* Run starts the helping of t's own operation. *)
LEMMA RunHelps ==
 ASSUME NEW t, NEW frames, NEW isOwn, Run(t, frames, isOwn), UNCHANGED history
 PROVE HelpsWith(t, frames)
 BY DEF Run, GoTo, HelpsWith, history

(* IFLAG: the leaf is still below the parent, and the key on its side. *)
LEMMA AddFlagsKeeps ==
 ASSUME NBBSTInv, NEW t \in Threads, AddFlags(t)
 PROVE Keeps
<1>1. PICK s, op, c, p, l : /\ s = search[t] /\ op = NewInfo(t) /\ c = call[t]
                            /\ p = s.p /\ l = s.l
 OBVIOUS
<1>2. /\ pc[t] = "flag" /\ c.op = "add" /\ Word(p) = s.pupdate
      /\ FlagsAdd(p, op, c.key, tree[l].key)
      /\ infos' = [infos EXCEPT ![t] = Append(@,
            [p |-> p, newInternal |-> NewNode(op, "internal"), l |-> l])]
      /\ Run(t, Help(Update("IFLAG", op)), TRUE) /\ UNCHANGED history
 BY <1>1 DEF AddFlags, FlagsAdd, Word
<1>3. SearchInv(s) /\ AtNode(s) /\ AtLeaf(s, c) /\ c.key \in Keys BY <1>1, <1>2 DEF NBBSTInv, ThreadInv
<1>4. /\ p \in Inner /\ l \in Leaves /\ Word(p).state = "CLEAN" /\ l \in Kids(p)
      /\ tree[l].key # c.key /\ (c.key < tree[p].key <=> tree[l].key < tree[p].key)
 BY <1>1, <1>2, <1>3 DEF AtNode, AtLeaf, Follows
<1>5. UNCHANGED search BY <1>2 DEF Run
<1>6. \A v \in Threads : {search[v].gp, search[v].p, search[v].l} \subseteq Nodes \cup {NoNode}
 BY DEF NBBSTInv, ThreadInv, SearchInv, Searches, Inner
<1>7. \A o \in Adds : Pending(o) => Info(o).newInternal # p BY <1>1 DEF Pending, Unseen
<1>8. Grows /\ GlobalInv' /\ op \in Adds' /\ \A m \in Inner : NodeStep(m)
 BY <1>1, <1>2, <1>3, <1>4, <1>5, <1>6, <1>7, AddFlagKeeps DEF NBBSTInv
<1>9. PICK f, frames : f = Frame("insertChild", op) /\ frames = <<f>> OBVIOUS
<1>10. frames = Help(Update("IFLAG", op)) BY <1>9 DEF Help, Update
<1>11. HelpsWith(t, frames) BY <1>2, <1>10, RunHelps
<1>12. f \in FrameSet'
 <2>1. f \in [at : {"insertChild"}, op : Adds'] BY <1>8, <1>9 DEF Frame
 <2> QED BY <2>1 DEF FrameSet
<1>13. frames \in Seq(FrameSet') /\ frames # <<>> BY <1>9, <1>12
<1>14. Moves(t) /\ ThreadInv(t)' BY <1>2, <1>8, <1>11, <1>13, HelpingMoves
<1> QED BY <1>8, <1>14, ThreadsKeep DEF Keeps

(* DFLAG: the parent is still below the grandparent. *)
LEMMA RemoveFlagsKeeps ==
 ASSUME NBBSTInv, NEW t \in Threads, RemoveFlags(t)
 PROVE Keeps
<1>1. PICK s, op, c, rec : /\ s = search[t] /\ op = NewInfo(t) /\ c = call[t]
                           /\ rec = [gp |-> s.gp, p |-> s.p, l |-> s.l, pupdate |-> s.pupdate]
 OBVIOUS
<1>2. /\ pc[t] = "flag" /\ c.op = "remove" /\ Word(rec.gp) = s.gpupdate
      /\ SetUpdate(rec.gp, Update("DFLAG", op))
      /\ infos' = [infos EXCEPT ![t] = Append(@, rec)]
      /\ Run(t, Help(Update("DFLAG", op)), TRUE) /\ UNCHANGED history
 BY <1>1 DEF RemoveFlags, Word
<1>3. SearchInv(s) /\ s \in Searches /\ AtNode(s) /\ AtLeaf(s, c) /\ c.key \in Keys
 BY <1>1, <1>2 DEF NBBSTInv, ThreadInv, SearchInv
<1>4. /\ rec.gp = s.gp /\ rec.p = s.p /\ rec.l = s.l /\ rec.pupdate = s.pupdate BY <1>1
<1>5. /\ s.p # Root /\ s.gpupdate.state = "CLEAN" /\ s.pupdate.state = "CLEAN"
      /\ tree[s.l].key = c.key
 BY <1>2, <1>3 DEF AtLeaf
<1>6. s.gp \in Inner /\ s.p \in Inner /\ s.l \in Leaves /\ s.p # NoNode
 BY <1>3, <1>5, NoNodeIsNoNode DEF AtNode, AtLeaf, NBBSTInv, GlobalInv, Inner
<1>7. s.pupdate \in CleanWords
 <2>1. s.pupdate \in Words BY <1>3 DEF Searches, SoundWords
 <2> QED BY <1>5, <2>1 DEF Words, CleanWords
<1>8. rec \in RemoveInfo BY <1>1, <1>6, <1>7 DEF RemoveInfo
<1>9. /\ Word(rec.gp).state = "CLEAN" /\ tree[rec.l].key \in Keys
      /\ Remembered(rec.p, rec.pupdate) /\ rec.p \in Kids(rec.gp)
      /\ Word(rec.p) = rec.pupdate => rec.l \in Kids(rec.p)
 BY <1>2, <1>3, <1>4, <1>5, <1>6 DEF AtNode, AtLeaf, Follows, SearchInv
<1>10. \A o \in Adds : Pending(o) => Info(o).newInternal # rec.gp BY <1>1, <1>4 DEF Pending, Unseen
<1>11. SearchMoves BY <1>2 DEF Run, SearchMoves
<1>12. Grows /\ GlobalInv' /\ op \in Removes' /\ \A m \in Inner : NodeStep(m)
 BY <1>1, <1>2, <1>8, <1>9, <1>10, <1>11, RemoveFlagKeeps DEF NBBSTInv
<1>13. PICK f, frames : f = Frame("deleteRead", op) /\ frames = <<f>> OBVIOUS
<1>14. frames = Help(Update("DFLAG", op)) BY <1>13 DEF Help, Update
<1>15. HelpsWith(t, frames) BY <1>2, <1>14, RunHelps
<1>16. f \in FrameSet'
 <2>1. f \in [at : {"deleteRead"}, op : Removes'] BY <1>12, <1>13 DEF Frame
 <2> QED BY <2>1 DEF FrameSet
<1>17. frames \in Seq(FrameSet') /\ frames # <<>> BY <1>13, <1>16
<1>18. Moves(t) /\ ThreadInv(t)' BY <1>2, <1>12, <1>15, <1>17, HelpingMoves
<1> QED BY <1>12, <1>18, ThreadsKeep DEF Keeps

-----------------------------------------------------------------------------
(* The steps of Help*: what is left to show once the tree has been.        *)
LEMMA ContinueKeeps ==
 ASSUME NBBSTInv, NEW t \in Threads, pc[t] = "help", NEW f, Continue(t, <<f>>), UNCHANGED call,
        Grows, GlobalInv', \A m \in Inner : NodeStep(m), f \in FrameSet'
 PROVE Keeps
<1>1. PICK frames : frames = <<f>> OBVIOUS
<1>2. frames \in Seq(FrameSet') /\ frames # <<>> /\ Continue(t, frames) BY <1>1
<1>3. Moves(t) /\ ThreadInv(t)' BY <1>2, ContinueMoves
<1> QED BY <1>3, ThreadsKeep DEF Keeps

(* The innermost call returns after a step that keeps the tree right. *)
LEMMA PopKeeps ==
 ASSUME NBBSTInv, NEW t \in Threads, pc[t] = "help", NEW done, PopFrame(t, done),
        Grows, GlobalInv', \A m \in Inner : NodeStep(m)
 PROVE Keeps
 BY PopMoves, ThreadsKeep DEF Keeps

(* A step of Help* that reads only. *)
LEMMA ReadKeeps ==
 ASSUME NBBSTInv, NEW t \in Threads, pc[t] = "help", NEW f \in FrameSet,
        Continue(t, <<f>>), UNCHANGED <<memory, history>>
 PROVE Keeps
<1>1. UNCHANGED <<tree, infos>> /\ UNCHANGED call BY DEF memory, history
<1>2. Grows /\ \A m \in Inner : NodeStep(m) BY <1>1, QuietGrows DEF NodeStep
<1>3. SearchMoves BY DEF Continue, SearchMoves
<1>4. GlobalInv' BY <1>1, <1>3, QuietKeeps DEF NBBSTInv
<1>5. f \in FrameSet' BY <1>2, FramesStay DEF NBBSTInv, GlobalInv
<1> QED BY <1>1, <1>2, <1>4, <1>5, ContinueKeeps

(* The side that CASChild looks at is where the old node is, if anywhere. *)
LEMMA CurrentIsOld ==
 ASSUME GlobalInv, NEW n \in Inner, NEW old \in Nodes, NEW new, CurrentChild(n, new) # old, old \in Kids(n)
 PROVE ~(tree[new].key < tree[n].key <=> tree[old].key < tree[n].key)
<1>1. /\ tree[n].left \in Nodes /\ tree[n].right \in Nodes /\ n \in Nodes
      /\ \A m \in Nodes : tree[m].key \in Int
 BY NodeTypes, KeysAreIntegers DEF GlobalInv
<1>2. tree[tree[n].left].key < tree[n].key /\ tree[n].key <= tree[tree[n].right].key
 BY DEF GlobalInv, KidsAreOrdered
<1>3. CASE old = tree[n].left
 <2>1. tree[old].key < tree[n].key BY <1>2, <1>3
 <2>2. ~(tree[new].key < tree[n].key) BY <1>3 DEF CurrentChild
 <2> QED BY <2>1, <2>2
<1>4. CASE old = tree[n].right
 <2>1. ~(tree[old].key < tree[n].key) BY <1>1, <1>2, <1>4
 <2>2. tree[new].key < tree[n].key BY <1>4 DEF CurrentChild
 <2> QED BY <2>1, <2>2
<1> QED BY <1>3, <1>4 DEF Kids

(* HelpInsert: the leaf is replaced, or was before. *)
LEMMA InsertChildKeeps ==
 ASSUME NBBSTInv, NEW t \in Threads, InsertChild(t)
 PROVE Keeps
<1>1. PICK op : op = Top(t).op OBVIOUS
<1>2. PICK n, old, new : n = Info(op).p /\ old = Info(op).l /\ new = Info(op).newInternal OBVIOUS
<1>3. PICK f : f = Frame("insertUnflag", op) OBVIOUS
<1>4. /\ pc[t] = "help" /\ Top(t).at = "insertChild"
      /\ CASChild(t, op, n, old, new) /\ Continue(t, <<f>>)
      /\ UNCHANGED <<infos, call>>
 BY <1>1, <1>2, <1>3 DEF InsertChild, At
<1>5. op \in Adds /\ op \in InfoIds /\ AddInv(op) /\ Shape
 BY <1>1, <1>4, TopIsFrame, FrameKinds DEF NBBSTInv, GlobalInv, Adds
<1>6. n \in Inner /\ new \in Inner /\ new \in Nodes /\ old \in Nodes BY <1>2, <1>5, InfoTypes, NodeTypes
<1>7. SearchMoves BY <1>4 DEF Continue, SearchMoves
<1>8. Grows /\ GlobalInv' /\ Detached(op)' /\ \A m \in Inner : NodeStep(m)
 <2>1. CASE CurrentChild(n, new) = old
  <3>1. SetChild(n, new) BY <1>4, <2>1, CASChildCases
  <3>2. Swaps(n, old, new) BY <1>5, <1>6, <2>1, <3>1, SetChildSwaps
  <3>3. Swaps(Info(op).p, Info(op).l, Info(op).newInternal) /\ UNCHANGED infos BY <1>2, <1>4, <3>2
  <3> QED BY <1>5, <1>7, <3>3, InsertKeeps DEF NBBSTInv
 <2>2. CASE CurrentChild(n, new) # old
  <3>1. UNCHANGED <<tree, infos>> BY <1>4, <2>2, CASChildCases
  <3>2. Grows /\ GlobalInv' /\ \A m \in Inner : NodeStep(m)
   BY <1>7, <3>1, QuietGrows, QuietKeeps DEF NBBSTInv, NodeStep
  <3>3. Detached(op)
   <4>1. tree[new].key < tree[n].key <=> tree[old].key < tree[n].key BY <1>2, <1>5 DEF AddInv
   <4>2. old \notin Kids(n) BY <1>6, <2>2, <4>1, CurrentIsOld DEF NBBSTInv
   <4> QED BY <1>2, <4>2 DEF Detached
  <3>4. Detached(op)' BY <1>5, <3>2, <3>3 DEF Grows
  <3> QED BY <3>2, <3>4
 <2> QED BY <2>1, <2>2
<1>9. f \in FrameSet'
 <2>1. op \in Adds' BY <1>5, <1>8, SetsGrow
 <2>3. op \in Adds' /\ Detached(op)' => Frame("insertUnflag", op) \in FrameSet' BY DEF FrameSet, Frame
 <2> QED BY <1>3, <1>8, <2>1, <2>3
<1> QED BY <1>4, <1>8, <1>9, ContinueKeeps

(* The flag of an add is taken back: its leaf has been replaced. *)
LEMMA InsertUnflagKeeps ==
 ASSUME NBBSTInv, NEW t \in Threads, InsertUnflag(t)
 PROVE Keeps
<1>1. PICK op : op = Top(t).op OBVIOUS
<1>2. PICK n : n = Info(op).p OBVIOUS
<1>3. /\ pc[t] = "help" /\ Top(t).at = "insertUnflag"
      /\ CASState(n, op, "IFLAG", "CLEAN") /\ PopFrame(t, TRUE) /\ UNCHANGED infos
 BY <1>1, <1>2 DEF InsertUnflag, At
<1>4. op \in Adds /\ op \in InfoIds /\ Detached(op) /\ Shape
 BY <1>1, <1>3, TopIsFrame, FrameKinds DEF NBBSTInv, GlobalInv, Adds
<1>5. n \in Inner /\ Done(op) BY <1>2, <1>4, InfoTypes DEF Done
<1>6. SearchMoves BY <1>3, PopMoves DEF Moves
<1>7. Grows /\ GlobalInv' /\ \A m \in Inner : NodeStep(m) BY <1>3, <1>4, <1>5, <1>6, UnflagKeeps DEF NBBSTInv
<1> QED BY <1>3, <1>7, PopKeeps

(* HelpDelete: the word of the parent is read for the case that the mark fails. *)
LEMMA DeleteReadKeeps ==
 ASSUME NBBSTInv, NEW t \in Threads, DeleteRead(t)
 PROVE Keeps
<1>1. PICK op : op = Top(t).op OBVIOUS
<1>2. PICK u : u = Word(Info(op).p) OBVIOUS
<1>3. PICK f : f = [at |-> "deleteMark", op |-> op, result |-> u] OBVIOUS
<1>4. /\ pc[t] = "help" /\ Top(t).at = "deleteRead"
      /\ Continue(t, <<f>>) /\ UNCHANGED <<memory, history>>
 BY <1>1, <1>2, <1>3 DEF DeleteRead, At, Word
<1>5. op \in Removes /\ Info(op).p \in Inner BY <1>1, <1>4, TopIsFrame, FrameKinds DEF Removes, RemoveInfo
<1>6. u \in SoundWords BY <1>2, <1>5 DEF NBBSTInv, GlobalInv, WordsLead, Leads, Sound, SoundWords
<1>7. f \in FrameSet BY <1>3, <1>5, <1>6, FrameMade
<1> QED BY <1>4, <1>7, ReadKeeps

(* The mark: the parent has the word that Search has read. *)
LEMMA DeleteMarkKeeps ==
 ASSUME NBBSTInv, NEW t \in Threads, DeleteMark(t)
 PROVE Keeps
<1>1. PICK op : op = Top(t).op OBVIOUS
<1>2. PICK f : f = Frame("markedOther", op) OBVIOUS
<1>3. /\ pc[t] = "help" /\ Top(t).at = "deleteMark" /\ MayMark(op)
      /\ SetUpdate(Info(op).p, Update("MARK", op))
      /\ Continue(t, <<f>>) /\ UNCHANGED infos /\ UNCHANGED call
 BY <1>1, <1>2 DEF DeleteMark, At, MayMark, Word, history
<1>4. op \in Removes BY <1>1, <1>3, TopIsFrame, FrameKinds
<1>5. SearchMoves BY <1>3 DEF Continue, SearchMoves
<1>6. Grows /\ GlobalInv' /\ Marked(op)' /\ \A m \in Inner : NodeStep(m) BY <1>3, <1>4, <1>5, MarkKeeps DEF NBBSTInv
<1>7. f \in FrameSet'
 <2>1. op \in Removes' BY <1>4, <1>6, SetsGrow
 <2>2. op \in Removes' /\ Marked(op)' => Frame("markedOther", op) \in FrameSet' BY DEF FrameSet, Frame
 <2> QED BY <1>2, <1>6, <2>1, <2>2
<1> QED BY <1>3, <1>6, <1>7, ContinueKeeps

(* A mark that fails: the parent will never have that word again. *)
LEMMA DeleteMarkFailsKeeps ==
 ASSUME NBBSTInv, NEW t \in Threads, DeleteMarkFails(t)
 PROVE Keeps
<1>1. PICK g, op : g = Top(t) /\ op = g.op OBVIOUS
<1>2. PICK f : f = [g EXCEPT !.at = "deleteRecheck"] OBVIOUS
<1>3. /\ pc[t] = "help" /\ g.at = "deleteMark" /\ ~MayMark(op)
      /\ Continue(t, <<f>>) /\ UNCHANGED <<memory, history>>
 BY <1>1, <1>2 DEF DeleteMarkFails, At, MayMark, Word
<1>4. g \in FrameSet BY <1>1, <1>3, TopIsFrame
<1>5. g \in [at : {"deleteMark"}, op : Removes, result : SoundWords] BY <1>3, <1>4 DEF FrameSet
<1>6. f = [at |-> "deleteRecheck", op |-> op, result |-> g.result] BY <1>1, <1>2, <1>5
<1>7. op \in Removes /\ g.result \in SoundWords BY <1>1, <1>5
<1>8. f \in FrameSet BY <1>3, <1>6, <1>7, FrameMade
<1> QED BY <1>3, <1>8, ReadKeeps

(* A mark is not the word that the remove has read. *)
LEMMA MarkedIsMarked ==
 ASSUME NEW op \in Removes, Marked(op)
 PROVE ~MayMark(op)
 BY DEF Removes, RemoveInfo, CleanWords, Marked, MayMark, Update

(* Marked by a helper, or obstructed for ever. *)
LEMMA DeleteRecheckKeeps ==
 ASSUME NBBSTInv, NEW t \in Threads, DeleteRecheck(t)
 PROVE Keeps
<1>1. PICK g, op : g = Top(t) /\ op = g.op OBVIOUS
<1>2. /\ pc[t] = "help" /\ g.at = "deleteRecheck" /\ UNCHANGED <<memory, history>>
      /\ Continue(t, IF Marked(op) THEN <<Frame("markedOther", op)>>
                                   ELSE <<Frame("backtrack", op)>> \o Help(g.result))
 BY <1>1 DEF DeleteRecheck, At, Marked, Word
<1>3. op \in Removes /\ g.result \in SoundWords /\ ~MayMark(op) BY <1>1, <1>2, TopIsFrame, FrameKinds
<1>4. CASE Marked(op)
 <2>1. PICK f : f = Frame("markedOther", op) OBVIOUS
 <2>2. Continue(t, <<f>>) /\ f \in FrameSet BY <1>2, <1>3, <1>4, <2>1, FrameMade
 <2> QED BY <1>2, <2>2, ReadKeeps
<1>5. CASE ~Marked(op)
 <2>1. PICK f, help : f = Frame("backtrack", op) /\ help = Help(g.result) OBVIOUS
 <2>2. PICK frames : frames = <<f>> \o help OBVIOUS
 <2>3. Continue(t, frames) BY <1>2, <1>5, <2>1, <2>2
 <2>4. f \in FrameSet /\ help \in Seq(FrameSet) BY <1>3, <1>5, <2>1, FrameMade, HelpFrames DEF SoundWords
 <2>5. UNCHANGED <<tree, infos>> /\ UNCHANGED call BY <1>2 DEF memory, history
 <2>6. Grows /\ FrameSet \subseteq FrameSet' BY <2>5, QuietGrows, FramesStay DEF NBBSTInv, GlobalInv
 <2>7. <<f>> \in Seq(FrameSet') /\ help \in Seq(FrameSet') /\ Len(<<f>>) = 1 BY <2>4, <2>6
 <2>8. frames \in Seq(FrameSet') /\ frames # <<>>
  <3>1. PICK one : one = <<f>> OBVIOUS
  <3>2. frames \in Seq(FrameSet') /\ Len(frames) = 1 + Len(help) /\ Len(help) \in Nat BY <2>2, <2>7, <3>1
  <3> QED BY <3>2
 <2>9. Moves(t) /\ ThreadInv(t)' BY <1>2, <2>3, <2>5, <2>6, <2>8, ContinueMoves
 <2> QED BY <2>5, <2>9, QuietSteps
<1> QED BY <1>4, <1>5

(* The flag of a remove that can no longer mark its parent is taken back. *)
LEMMA BacktrackKeeps ==
 ASSUME NBBSTInv, NEW t \in Threads, Backtrack(t)
 PROVE Keeps
<1>1. PICK op : op = Top(t).op OBVIOUS
<1>2. PICK n : n = Info(op).gp OBVIOUS
<1>3. /\ pc[t] = "help" /\ Top(t).at = "backtrack"
      /\ CASState(n, op, "DFLAG", "CLEAN") /\ PopFrame(t, FALSE) /\ UNCHANGED infos
 BY <1>1, <1>2 DEF Backtrack, At
<1>4. op \in Removes /\ op \in InfoIds /\ ~MayMark(op) /\ ~Marked(op) /\ Shape
 BY <1>1, <1>3, TopIsFrame, FrameKinds DEF NBBSTInv, GlobalInv, Removes
<1>5. n \in Inner /\ Done(op) BY <1>2, <1>4, InfoTypes DEF Done
<1>6. SearchMoves BY <1>3, PopMoves DEF Moves
<1>7. Grows /\ GlobalInv' /\ \A m \in Inner : NodeStep(m) BY <1>3, <1>4, <1>5, <1>6, UnflagKeeps DEF NBBSTInv
<1> QED BY <1>3, <1>7, PopKeeps

(* HelpMarked: the children of a marked node are final. *)
LEMMA MarkedOtherKeeps ==
 ASSUME NBBSTInv, NEW t \in Threads, MarkedOther(t)
 PROVE Keeps
<1>1. PICK op, c : op = Top(t).op /\ c = Other(op) OBVIOUS
<1>2. PICK f : f = [at |-> "markedChild", op |-> op, other |-> c] OBVIOUS
<1>3. /\ pc[t] = "help" /\ Top(t).at = "markedOther"
      /\ Continue(t, <<f>>) /\ UNCHANGED <<memory, history>>
 BY <1>1, <1>2 DEF MarkedOther, At, Other
<1>4. op \in Removes /\ Marked(op) /\ Info(op).p \in Inner
 BY <1>1, <1>3, TopIsFrame, FrameKinds DEF Removes, RemoveInfo
<1>5. c \in Nodes BY <1>1, <1>4, NodeTypes DEF Other, NBBSTInv, GlobalInv
<1>6. f \in FrameSet BY <1>1, <1>2, <1>4, <1>5, FrameMade
<1> QED BY <1>3, <1>6, ReadKeeps

(* The marked parent is unlinked, or was before: the side that CASChild looks at tells. *)
LEMMA MarkedChildKeeps ==
 ASSUME NBBSTInv, NEW t \in Threads, MarkedChild(t)
 PROVE Keeps
<1>1. PICK op : op = Top(t).op OBVIOUS
<1>2. PICK n, old, new : n = Info(op).gp /\ old = Info(op).p /\ new = Top(t).other OBVIOUS
<1>3. PICK f : f = Frame("markedUnflag", op) OBVIOUS
<1>4. /\ pc[t] = "help" /\ Top(t).at = "markedChild"
      /\ CASChild(t, op, n, old, new) /\ Continue(t, <<f>>)
      /\ UNCHANGED <<infos, call>>
 BY <1>1, <1>2, <1>3 DEF MarkedChild, At
<1>5. op \in Removes /\ op \in InfoIds /\ Marked(op) /\ new = Other(op) /\ Shape
 BY <1>1, <1>2, <1>4, TopIsFrame, FrameKinds DEF NBBSTInv, GlobalInv, Removes
<1>6. n \in Inner /\ old \in Inner /\ new \in Nodes /\ old \in Nodes BY <1>2, <1>5, InfoTypes, NodeTypes DEF Other
<1>7. SearchMoves BY <1>4 DEF Continue, SearchMoves
<1>8. Grows /\ GlobalInv' /\ Cut(op)' /\ \A m \in Inner : NodeStep(m)
 <2>1. CASE CurrentChild(n, new) = old
  <3>1. SetChild(n, new) BY <1>4, <2>1, CASChildCases
  <3>2. Swaps(n, old, new) BY <1>5, <1>6, <2>1, <3>1, SetChildSwaps
  <3>3. Swaps(Info(op).gp, Info(op).p, Other(op)) /\ UNCHANGED infos BY <1>2, <1>4, <1>5, <3>2
  <3> QED BY <1>5, <1>7, <3>3, UnlinkKeeps DEF NBBSTInv
 <2>2. CASE CurrentChild(n, new) # old
  <3>1. UNCHANGED <<tree, infos>> BY <1>4, <2>2, CASChildCases
  <3>2. Grows /\ GlobalInv' /\ \A m \in Inner : NodeStep(m)
   BY <1>7, <3>1, QuietGrows, QuietKeeps DEF NBBSTInv, NodeStep
  <3>3. Cut(op)
   <4>1. old \in Kids(n) =>
           ~(tree[new].key < tree[n].key <=> tree[old].key < tree[n].key)
    BY <1>6, <2>2, CurrentIsOld DEF NBBSTInv
   <4> QED BY <1>2, <1>5, <4>1 DEF Cut, Misses
  <3>4. Cut(op)' BY <1>5, <3>2, <3>3 DEF Grows
  <3> QED BY <3>2, <3>4
 <2> QED BY <2>1, <2>2
<1>9. f \in FrameSet'
 <2>1. op \in Removes' /\ Marked(op)' BY <1>5, <1>8, SetsGrow, MarksStay
 <2>2. op \in Removes' /\ Marked(op)' /\ Cut(op)' => Frame("markedUnflag", op) \in FrameSet' BY DEF FrameSet, Frame
 <2> QED BY <1>3, <1>8, <2>1, <2>2
<1> QED BY <1>4, <1>8, <1>9, ContinueKeeps

(* The flag of a remove is taken back when the parent is out. *)
LEMMA MarkedUnflagKeeps ==
 ASSUME NBBSTInv, NEW t \in Threads, MarkedUnflag(t)
 PROVE Keeps
<1>1. PICK op : op = Top(t).op OBVIOUS
<1>2. PICK n : n = Info(op).gp OBVIOUS
<1>3. /\ pc[t] = "help" /\ Top(t).at = "markedUnflag"
      /\ CASState(n, op, "DFLAG", "CLEAN") /\ PopFrame(t, TRUE) /\ UNCHANGED infos
 BY <1>1, <1>2 DEF MarkedUnflag, At
<1>4. op \in Removes /\ op \in InfoIds /\ Marked(op) /\ Cut(op) /\ Shape
 BY <1>1, <1>3, TopIsFrame, FrameKinds DEF NBBSTInv, GlobalInv, Removes
<1>5. n \in Inner /\ Done(op) BY <1>2, <1>4, InfoTypes, MarkedIsMarked DEF Done
<1>6. SearchMoves BY <1>3, PopMoves DEF Moves
<1>7. Grows /\ GlobalInv' /\ \A m \in Inner : NodeStep(m) BY <1>3, <1>4, <1>5, <1>6, UnflagKeeps DEF NBBSTInv
<1> QED BY <1>3, <1>7, PopKeeps

-----------------------------------------------------------------------------
(* The empty tree: the root and its two leaves. *)
LEMMA InitialTreeFacts ==
 ASSUME tree = InitialTree
 PROVE  /\ Nodes = {Root, MinLeaf, MaxLeaf} /\ Inner = {Root}
        /\ Leaves = {MinLeaf, MaxLeaf}
        /\ tree[Root] = [internal |-> TRUE, key |-> MaxKey, update |-> NullUpdate,
                         left |-> MinLeaf, right |-> MaxLeaf]
        /\ tree[MinLeaf] = [internal |-> FALSE, key |-> MinKey]
        /\ tree[MaxLeaf] = [internal |-> FALSE, key |-> MaxKey]
        /\ tree = [n \in {Root, MinLeaf, MaxLeaf} |-> tree[n]]
<1>1. Root # MinLeaf /\ Root # MaxLeaf /\ MinLeaf # MaxLeaf BY DEF Root, MinLeaf, MaxLeaf
<1>2. /\ tree[Root] = [internal |-> TRUE, key |-> MaxKey, update |-> NullUpdate,
                       left |-> MinLeaf, right |-> MaxLeaf]
      /\ tree[MinLeaf] = [internal |-> FALSE, key |-> MinKey]
      /\ tree[MaxLeaf] = [internal |-> FALSE, key |-> MaxKey]
 BY <1>1 DEF InitialTree, Internal, Leaf
<1>3. Nodes = {Root, MinLeaf, MaxLeaf} BY DEF InitialTree, Nodes
<1>4. Inner = {Root} /\ Leaves = {MinLeaf, MaxLeaf} BY <1>1, <1>2, <1>3 DEF Inner, Leaves
<1>5. tree = [n \in {Root, MinLeaf, MaxLeaf} |-> tree[n]] BY DEF InitialTree
<1> QED BY <1>2, <1>3, <1>4, <1>5

(* The invariant holds of the empty tree. *)
LEMMA InitHolds ==
 ASSUME Init
 PROVE NBBSTInv
<1>1. /\ Nodes = {Root, MinLeaf, MaxLeaf} /\ Inner = {Root}
      /\ Leaves = {MinLeaf, MaxLeaf}
      /\ tree[Root] = [internal |-> TRUE, key |-> MaxKey, update |-> NullUpdate,
                       left |-> MinLeaf, right |-> MaxLeaf]
      /\ tree[MinLeaf] = [internal |-> FALSE, key |-> MinKey]
      /\ tree[MaxLeaf] = [internal |-> FALSE, key |-> MaxKey]
      /\ tree = [n \in {Root, MinLeaf, MaxLeaf} |-> tree[n]]
 BY InitialTreeFacts DEF Init
<1>2. InfoIds = {} /\ Adds = {} /\ Removes = {}
 <2>1. \A t \in Threads : Len(infos[t]) = 0 BY DEF Init
 <2>2. \A op : op \notin InfoIds BY <2>1, IdsOfInfos
 <2> QED BY <2>2 DEF Adds, Removes
<1>3. NullUpdate \in Words /\ NullUpdate.state = "CLEAN" /\ NullUpdate.info = NoInfo
 BY DEF NullUpdate, Update, Words, States
<1>4. Sound(NullUpdate) /\ NullUpdate \in SoundWords BY <1>3 DEF Sound, SoundWords
<1>5. MinKey \in Int /\ MaxKey \in Int /\ MinKey < MaxKey BY NBBSTAssumption
<1>6. Shape
 <2>1. tree[Root] \in InnerRecords BY <1>1, <1>3 DEF InnerRecords, Bounds
 <2>2. tree[MinLeaf] \in LeafRecords /\ tree[MaxLeaf] \in LeafRecords BY <1>1 DEF LeafRecords, Bounds
 <2>3. \A n \in Nodes : tree[n] \in LeafRecords \cup InnerRecords BY <1>1, <2>1, <2>2
 <2>4. tree \in [Nodes -> LeafRecords \cup InnerRecords] BY <1>1, <2>3
 <2>5. <<>> \in Seq(AddInfo \cup RemoveInfo) OBVIOUS
 <2>6. infos \in [Threads -> Seq(AddInfo \cup RemoveInfo)] BY <2>5 DEF Init
 <2> QED BY <1>1, <2>4, <2>6 DEF Shape
<1>7. WordsLead BY <1>1, <1>3, <1>4 DEF WordsLead, Leads, Word
<1>8. KidsAreOrdered BY <1>1, <1>5 DEF KidsAreOrdered
<1>9. OneParent /\ DeadBelowDead BY <1>1 DEF OneParent, DeadBelowDead, Kids
<1>10. SpineEnds
 <2>1. PICK S : S = {Root, MinLeaf} OBVIOUS
 <2>2. IsSpine(S) /\ S \in SUBSET Nodes BY <1>1, <2>1 DEF IsSpine
 <2> QED BY <2>2 DEF SpineEnds
<1>11. ControlTypes BY DEF Init, ControlTypes
<1>12. ASSUME NEW t \in Threads PROVE ThreadInv(t)
 <2>1. /\ pc[t] = "idle" /\ search[t] = NoSearch /\ seen[t] = NullUpdate /\ stack[t] = <<>> BY DEF Init
 <2>2. /\ NoSearch.gp = NoNode /\ NoSearch.p = NoNode /\ NoSearch \in Searches BY <1>4 DEF NoSearch, Searches
 <2>3. SearchInv(search[t]) /\ Sound(seen[t]) /\ <<>> \in Seq(FrameSet) BY <1>4, <2>1, <2>2 DEF SearchInv
 <2> QED BY <2>1, <2>3 DEF ThreadInv
<1> QED BY <1>2, <1>6, <1>7, <1>8, <1>9, <1>10, <1>11, <1>12 DEF NBBSTInv, GlobalInv

(* Every step keeps it, and follows the protocol. *)
LEMMA NextKeeps ==
 ASSUME NBBSTInv, Next
 PROVE Keeps
<1>1. PICK t \in Threads : (\E c \in Abstract!SetCalls : Start(t, c)) \/ Step(t) BY DEF Next
<1>2. CASE \E c \in Abstract!SetCalls : Start(t, c) BY <1>2, StartKeeps
<1>3. CASE Searching(t)
 <2>1. CASE ReadUpdate(t) BY <2>1, ReadUpdateKeeps
 <2>2. CASE ReadChild(t) BY <2>2, ReadChildKeeps
 <2>3. CASE ContainsReturns(t) BY <2>3, ReturnKeeps DEF ContainsReturns
 <2>4. CASE AddFindsKey(t) BY <2>4, ReturnKeeps DEF AddFindsKey
 <2>5. CASE RemoveMissesKey(t) BY <2>5, ReturnKeeps DEF RemoveMissesKey
 <2>6. CASE HelpsObstacle(t) BY <2>6, HelpsObstacleKeeps
 <2>7. CASE PreparesOperation(t) BY <2>7, PreparesKeeps
 <2> QED BY <1>3, <2>1, <2>2, <2>3, <2>4, <2>5, <2>6, <2>7 DEF Searching
<1>4. CASE Flagging(t)
 <2>1. CASE ReadResult(t) BY <2>1, ReadResultKeeps
 <2>2. CASE FlagFails(t) BY <2>2, FlagFailsKeeps
 <2>3. CASE AddFlags(t) BY <2>3, AddFlagsKeeps
 <2>4. CASE RemoveFlags(t) BY <2>4, RemoveFlagsKeeps
 <2> QED BY <1>4, <2>1, <2>2, <2>3, <2>4 DEF Flagging
<1>5. CASE Helping(t)
 <2>1. CASE InsertChild(t) BY <2>1, InsertChildKeeps
 <2>2. CASE InsertUnflag(t) BY <2>2, InsertUnflagKeeps
 <2>3. CASE DeleteRead(t) BY <2>3, DeleteReadKeeps
 <2>4. CASE DeleteMark(t) BY <2>4, DeleteMarkKeeps
 <2>5. CASE DeleteMarkFails(t) BY <2>5, DeleteMarkFailsKeeps
 <2>6. CASE DeleteRecheck(t) BY <2>6, DeleteRecheckKeeps
 <2>7. CASE Backtrack(t) BY <2>7, BacktrackKeeps
 <2>8. CASE MarkedOther(t) BY <2>8, MarkedOtherKeeps
 <2>9. CASE MarkedChild(t) BY <2>9, MarkedChildKeeps
 <2>10. CASE MarkedUnflag(t) BY <2>10, MarkedUnflagKeeps
 <2> QED BY <1>5, <2>1, <2>2, <2>3, <2>4, <2>5, <2>6, <2>7, <2>8, <2>9, <2>10 DEF Helping
<1> QED BY <1>1, <1>2, <1>3, <1>4, <1>5 DEF Step

(* A stuttering step changes nothing. *)
LEMMA StutterKeeps ==
 ASSUME NBBSTInv, UNCHANGED vars
 PROVE NBBSTInv'
<1>1. UNCHANGED <<tree, infos, pc, search, seen, stack, call>> BY DEF vars, memory, control, history
<1>2. Grows /\ SearchMoves /\ ControlTypes' BY <1>1, QuietGrows DEF SearchMoves, NBBSTInv, ControlTypes
<1>3. GlobalInv' BY <1>1, <1>2, QuietKeeps DEF NBBSTInv
<1>4. \A t \in Threads : ThreadInv(t)' BY <1>1, <1>2, OthersStay DEF NBBSTInv
<1> QED BY <1>2, <1>3, <1>4 DEF NBBSTInv

(* The invariant holds for ever. *)
THEOREM NBBSTInvHolds == Spec => []NBBSTInv
<1>1. Init => NBBSTInv BY InitHolds
<1>2. NBBSTInv /\ [Next]_vars => NBBSTInv' BY NextKeeps, StutterKeeps DEF Keeps
<1> QED BY <1>1, <1>2, PTL DEF Spec

(* However many threads there are, and however late they help: a word      *)
(* leaves CLEAN for a flag or a mark and comes back for the same           *)
(* operation, a mark stays, and a child changes only under the flag of the *)
(* operation whose Info names it, after the mark in the case of a remove.  *)
THEOREM UpdateWordsFollowProtocol == Spec => UpdateProtocol
<1>1. NBBSTInv /\ [Next]_vars => [\A n \in Nodes : tree[n].internal => NodeStep(n)]_vars
 <2>1. SUFFICES ASSUME NBBSTInv, Next
                PROVE \A n \in Nodes : tree[n].internal => NodeStep(n)
  OBVIOUS
 <2>2. Keeps BY <2>1, NextKeeps
 <2> QED BY <2>2 DEF Keeps, Inner
<1> QED BY <1>1, NBBSTInvHolds, PTL DEF Spec, UpdateProtocol

(* The parts of the invariant that a reader of the code rests on: below an *)
(* internal node the left child has a smaller key and the right one has    *)
(* not; a node that is still in the tree has one parent in the tree.       *)
THEOREM TreeIsWellFormed == Spec => [](KidsAreOrdered /\ OneParent /\ SpineEnds)
<1>1. NBBSTInv => KidsAreOrdered /\ OneParent /\ SpineEnds BY DEF NBBSTInv, GlobalInv
<1> QED BY <1>1, NBBSTInvHolds, PTL

-----------------------------------------------------------------------------

(* A child is a node. *)
LEMMA ChildIsNode ==
 ASSUME NEW tr, IsLinked(tr), NEW n \in DOMAIN tr, tr[n].internal, NEW key
 PROVE Child(tr, n, key) \in DOMAIN tr /\ Child(tr, n, key) \in {tr[n].left, tr[n].right}
 BY DEF IsLinked, Child

(* The path from a node is closed, and the smallest such set. *)
LEMMA PathIsLeast ==
 ASSUME NEW tr, IsLinked(tr), NEW n \in DOMAIN tr, NEW key
 PROVE  /\ n \in Path(tr, n, key) /\ Path(tr, n, key) \subseteq DOMAIN tr
        /\ PathClosed(tr, key, Path(tr, n, key))
        /\ \A S \in SUBSET DOMAIN tr :
             n \in S /\ PathClosed(tr, key, S) => Path(tr, n, key) \subseteq S
<1>1. n \in Path(tr, n, key) /\ Path(tr, n, key) \subseteq DOMAIN tr BY DEF Path
<1>2. \A S \in SUBSET DOMAIN tr :
        n \in S /\ PathClosed(tr, key, S) => Path(tr, n, key) \subseteq S
 BY DEF Path
<1>3. PathClosed(tr, key, Path(tr, n, key))
 <2>1. SUFFICES ASSUME NEW m \in Path(tr, n, key), tr[m].internal
                PROVE Child(tr, m, key) \in Path(tr, n, key)
  BY DEF PathClosed
 <2>2. m \in DOMAIN tr /\ Child(tr, m, key) \in DOMAIN tr BY <2>1, <1>1, ChildIsNode
 <2>3. ASSUME NEW S \in SUBSET DOMAIN tr, n \in S, PathClosed(tr, key, S)
       PROVE Child(tr, m, key) \in S
  BY <2>1, <2>3, <1>2 DEF PathClosed
 <2> QED BY <2>2, <2>3 DEF Path
<1> QED BY <1>1, <1>2, <1>3

(* A path that has reached a node goes on like the path from there. *)
LEMMA PathGoesOn ==
 ASSUME NEW tr, IsLinked(tr), NEW n \in DOMAIN tr, NEW key, NEW m \in Path(tr, n, key)
 PROVE Path(tr, m, key) \subseteq Path(tr, n, key)
<1>1. Path(tr, n, key) \in SUBSET DOMAIN tr /\ PathClosed(tr, key, Path(tr, n, key)) BY PathIsLeast
<1> QED BY <1>1, PathIsLeast

(* One step of a path. *)
LEMMA PathUnfolds ==
 ASSUME NEW tr, IsLinked(tr), NEW n \in DOMAIN tr, NEW key
 PROVE  /\ tr[n].internal => Path(tr, n, key) = {n} \cup Path(tr, Child(tr, n, key), key)
        /\ ~tr[n].internal => Path(tr, n, key) = {n}
<1>1. CASE tr[n].internal
 <2>1. PICK c : c = Child(tr, n, key) OBVIOUS
 <2>2. c \in DOMAIN tr BY <1>1, <2>1, ChildIsNode
 <2>3. c \in Path(tr, n, key) BY <1>1, <2>1, PathIsLeast DEF PathClosed
 <2>4. {n} \cup Path(tr, c, key) \subseteq Path(tr, n, key) BY <2>3, PathGoesOn, PathIsLeast
 <2>5. PathClosed(tr, key, {n} \cup Path(tr, c, key)) BY <2>1, <2>2, PathIsLeast DEF PathClosed
 <2>6. Path(tr, n, key) \subseteq {n} \cup Path(tr, c, key) BY <2>2, <2>5, PathIsLeast
 <2> QED BY <1>1, <2>1, <2>4, <2>6
<1>2. CASE ~tr[n].internal
 <2>1. PathClosed(tr, key, {n}) BY <1>2 DEF PathClosed
 <2> QED BY <1>2, <2>1, PathIsLeast
<1> QED BY <1>1, <1>2

(* The nodes below a node are closed under both children, and the smallest such set. *)
LEMMA BelowIsLeast ==
 ASSUME NEW tr, IsLinked(tr), NEW n \in DOMAIN tr
 PROVE  /\ n \in Below(tr, n) /\ Below(tr, n) \subseteq DOMAIN tr
        /\ BelowClosed(tr, Below(tr, n))
        /\ \A S \in SUBSET DOMAIN tr :
             n \in S /\ BelowClosed(tr, S) => Below(tr, n) \subseteq S
<1>1. n \in Below(tr, n) /\ Below(tr, n) \subseteq DOMAIN tr BY DEF Below
<1>2. \A S \in SUBSET DOMAIN tr :
        n \in S /\ BelowClosed(tr, S) => Below(tr, n) \subseteq S
 BY DEF Below
<1>3. BelowClosed(tr, Below(tr, n))
 <2>1. SUFFICES ASSUME NEW m \in Below(tr, n), tr[m].internal, NEW c \in {tr[m].left, tr[m].right}
                PROVE c \in Below(tr, n)
  BY DEF BelowClosed
 <2>2. c \in DOMAIN tr BY <2>1, <1>1 DEF IsLinked
 <2>3. ASSUME NEW S \in SUBSET DOMAIN tr, n \in S, BelowClosed(tr, S)
       PROVE c \in S
  BY <2>1, <2>3, <1>2 DEF BelowClosed
 <2> QED BY <2>2, <2>3 DEF Below
<1> QED BY <1>1, <1>2, <1>3

(* What is below a node below n is below n. *)
LEMMA BelowGoesOn ==
 ASSUME NEW tr, IsLinked(tr), NEW n \in DOMAIN tr, NEW m \in Below(tr, n)
 PROVE Below(tr, m) \subseteq Below(tr, n)
<1>1. Below(tr, n) \in SUBSET DOMAIN tr /\ BelowClosed(tr, Below(tr, n)) BY BelowIsLeast
<1> QED BY <1>1, BelowIsLeast

(* One step down. *)
LEMMA BelowUnfolds ==
 ASSUME NEW tr, IsLinked(tr), NEW n \in DOMAIN tr
 PROVE  /\ tr[n].internal =>
             Below(tr, n) = {n} \cup Below(tr, tr[n].left) \cup Below(tr, tr[n].right)
        /\ ~tr[n].internal => Below(tr, n) = {n}
<1>1. CASE tr[n].internal
 <2>1. PICK l, r, S : /\ l = tr[n].left /\ r = tr[n].right
                      /\ S = {n} \cup Below(tr, l) \cup Below(tr, r)
  OBVIOUS
 <2>2. l \in DOMAIN tr /\ r \in DOMAIN tr BY <1>1, <2>1 DEF IsLinked
 <2>3. l \in Below(tr, n) /\ r \in Below(tr, n) /\ n \in Below(tr, n) BY <1>1, <2>1, BelowIsLeast DEF BelowClosed
 <2>4. S \subseteq Below(tr, n) BY <2>1, <2>3, BelowGoesOn
 <2>5. BelowClosed(tr, Below(tr, l)) /\ BelowClosed(tr, Below(tr, r))
       /\ l \in Below(tr, l) /\ r \in Below(tr, r)
  BY <2>2, BelowIsLeast
 <2>6. BelowClosed(tr, S) BY <2>1, <2>5 DEF BelowClosed
 <2>7. S \in SUBSET DOMAIN tr /\ n \in S BY <2>1, <2>2, BelowIsLeast
 <2>8. Below(tr, n) \subseteq S BY <2>6, <2>7, BelowIsLeast
 <2> QED BY <1>1, <2>1, <2>4, <2>8
<1>2. CASE ~tr[n].internal
 <2>1. BelowClosed(tr, {n}) BY <1>2 DEF BelowClosed
 <2> QED BY <1>2, <2>1, BelowIsLeast
<1> QED BY <1>1, <1>2

(* A search from n stays below n. *)
LEMMA PathIsBelow ==
 ASSUME NEW tr, IsLinked(tr), NEW n \in DOMAIN tr, NEW key
 PROVE Path(tr, n, key) \subseteq Below(tr, n)
<1>1. n \in Below(tr, n) /\ Below(tr, n) \in SUBSET DOMAIN tr /\ BelowClosed(tr, Below(tr, n)) BY BelowIsLeast
<1>2. PathClosed(tr, key, Below(tr, n)) BY <1>1, ChildIsNode DEF PathClosed, BelowClosed
<1> QED BY <1>1, <1>2, PathIsLeast

-----------------------------------------------------------------------------

(* A set of nodes has one of the lowest rank. *)
LEMMA LowestRank ==
 ASSUME NEW D, NEW f \in [D -> Nat], NEW S \in SUBSET D, S # {}
 PROVE \E n \in S : \A m \in S : f[n] <= f[m]
<1> DEFINE less == {ss \in Nat \X Nat : ss[1] < ss[2]}
<1>1. PICK T : T = {f[n] : n \in S} OBVIOUS
<1>2. T \subseteq Nat /\ T # {} BY <1>1
<1>3. PICK x \in T : \A y \in T : ~(<<y, x>> \in less)
 <2>1. IsWellFoundedOn(less, Nat) BY NatLessThanWellFounded, Zenon DEF OpToRel
 <2> HIDE DEF less
 <2> QED BY <1>2, <2>1, WFMin
<1>4. \A y \in T : ~(y < x) BY <1>2, <1>3
<1>5. \A y \in T : x <= y BY <1>2, <1>4
<1> QED BY <1>1, <1>5

(* Every path has a leaf. *)
LEMMA PathHasLeaf ==
 ASSUME NEW tr, IsLinked(tr), NEW f, Ranks(tr, f), NEW n \in DOMAIN tr, NEW key
 PROVE \E m \in Path(tr, n, key) : ~tr[m].internal
<1>1. PICK S : S = Path(tr, n, key) OBVIOUS
<1>2. n \in S /\ S \in SUBSET DOMAIN tr /\ PathClosed(tr, key, S) BY <1>1, PathIsLeast
<1>3. PICK m \in S : \A x \in S : f[m] <= f[x] BY <1>2, LowestRank DEF Ranks
<1>4. ~tr[m].internal
 <2>1. SUFFICES ASSUME tr[m].internal PROVE FALSE OBVIOUS
 <2>2. PICK c : c = Child(tr, m, key) OBVIOUS
 <2>3. c \in S /\ c \in {tr[m].left, tr[m].right} /\ m \in DOMAIN tr /\ c \in DOMAIN tr
  BY <1>2, <2>1, <2>2, ChildIsNode DEF PathClosed
 <2>4. f[c] < f[m] /\ f[m] <= f[c] /\ f[c] \in Nat /\ f[m] \in Nat BY <1>3, <2>1, <2>3 DEF Ranks
 <2> QED BY <2>4
<1> QED BY <1>1, <1>4

(* LeafOf runs down the path: its descent takes one value on the whole path, *)
(* and from a leaf the leaf.                                               *)
LEMMA LeafOfDescends ==
 ASSUME NEW tr, IsLinked(tr), Root \in DOMAIN tr, NEW key
 PROVE  \E f : /\ LeafOf(tr, key) = f[Root]
               /\ \A n \in DOMAIN tr : f[n] = IF tr[n].internal THEN f[Child(tr, n, key)] ELSE n
<1> DEFINE Ends(n) == {m \in Path(tr, n, key) : ~tr[m].internal}
           End(n) == IF Ends(n) # {} THEN CHOOSE m : m \in Ends(n) ELSE Root
           Solves(f) == f = [n \in DOMAIN tr |-> IF tr[n].internal THEN f[Child(tr, n, key)] ELSE n]
<1>1. PICK h : h = [n \in DOMAIN tr |-> End(n)] OBVIOUS
<1>2. ASSUME NEW n \in DOMAIN tr
      PROVE End(n) = IF tr[n].internal THEN End(Child(tr, n, key)) ELSE n
 <2>1. CASE tr[n].internal
  <3>1. Ends(n) = Ends(Child(tr, n, key)) BY <2>1, PathUnfolds
  <3> HIDE DEF Ends
  <3> QED BY <2>1, <3>1
 <2>2. CASE ~tr[n].internal
  <3>1. Ends(n) = {n} BY <2>2, PathUnfolds
  <3> QED BY <2>2, <3>1
 <2> QED BY <2>1, <2>2
<1>3. Solves(h)
 <2> HIDE DEF End
 <2>1. \A n \in DOMAIN tr : tr[n].internal => Child(tr, n, key) \in DOMAIN tr BY ChildIsNode
 <2> QED BY <1>1, <1>2, <2>1
<1>4. PICK f : f = CHOOSE g : Solves(g) OBVIOUS
<1>5. Solves(f)
 <2> HIDE DEF Solves
 <2> QED BY <1>3, <1>4
<1>6. LeafOf(tr, key) = f[Root] BY <1>4 DEF LeafOf
<1>7. \A n \in DOMAIN tr : f[n] = IF tr[n].internal THEN f[Child(tr, n, key)] ELSE n BY <1>5
<1> QED BY <1>6, <1>7

(* So it is the leaf on the path from the root, and the only one. *)
LEMMA LeafOnPath ==
 ASSUME NEW tr, IsLinked(tr), Root \in DOMAIN tr, NEW f, Ranks(tr, f), NEW key
 PROVE  /\ LeafOf(tr, key) \in Path(tr, Root, key) /\ ~tr[LeafOf(tr, key)].internal
        /\ \A m \in Path(tr, Root, key) : ~tr[m].internal => m = LeafOf(tr, key)
<1>1. PICK g : /\ LeafOf(tr, key) = g[Root]
               /\ \A n \in DOMAIN tr : g[n] = IF tr[n].internal THEN g[Child(tr, n, key)] ELSE n
 BY LeafOfDescends
<1>2. PICK S : S = {n \in DOMAIN tr : g[n] = g[Root]} OBVIOUS
<1>3. Root \in S /\ S \in SUBSET DOMAIN tr /\ PathClosed(tr, key, S) BY <1>1, <1>2, ChildIsNode DEF PathClosed
<1>4. Path(tr, Root, key) \subseteq S BY <1>3, PathIsLeast
<1>5. \A m \in Path(tr, Root, key) : ~tr[m].internal => m = LeafOf(tr, key) BY <1>1, <1>2, <1>4
<1> QED BY <1>5, PathHasLeaf

(* The set, read at the end of a path. *)
LEMMA ContentsOnPath ==
 ASSUME NEW tr, IsLinked(tr), Root \in DOMAIN tr, NEW f, Ranks(tr, f), NEW key \in Keys,
        NEW m \in Path(tr, Root, key), ~tr[m].internal
 PROVE key \in Contents(tr) <=> tr[m].key = key
<1>1. m = LeafOf(tr, key) BY LeafOnPath
<1> QED BY <1>1 DEF Contents

(* Where a node lies below another it has a parent. *)
LEMMA BelowHasParent ==
 ASSUME NEW tr, IsLinked(tr), NEW n \in DOMAIN tr, NEW c \in Below(tr, n), c # n
 PROVE \E m \in Below(tr, n) : tr[m].internal /\ c \in {tr[m].left, tr[m].right}
<1>1. SUFFICES ASSUME \A m \in Below(tr, n) : tr[m].internal => c \notin {tr[m].left, tr[m].right}
               PROVE FALSE
 OBVIOUS
<1>2. PICK S : S = Below(tr, n) \ {c} OBVIOUS
<1>3. n \in S /\ S \in SUBSET DOMAIN tr /\ BelowClosed(tr, S) BY <1>1, <1>2, BelowIsLeast DEF BelowClosed
<1>4. Below(tr, n) \subseteq S BY <1>3, BelowIsLeast
<1> QED BY <1>2, <1>4

-----------------------------------------------------------------------------
(* The tree is linked. *)
LEMMA TreeIsLinked ==
 ASSUME Shape
 PROVE IsLinked(tree) /\ Root \in DOMAIN tree /\ Nodes = DOMAIN tree
 BY NodeTypes DEF IsLinked, Nodes, Inner, Shape

(* The root and what is in the tree were not removed. *)
LEMMA InTreeIsLive ==
 ASSUME GlobalInv, RootIsTop, NEW n \in InTree \cap Inner
 PROVE ~Dead(n)
<1>1. IsLinked(tree) /\ Root \in DOMAIN tree /\ Nodes = DOMAIN tree /\ Root \in Inner
 BY TreeIsLinked DEF GlobalInv, Shape
<1>2. PICK S : S = {m \in Nodes : m \in Inner => ~Dead(m)} OBVIOUS
<1>3. ~Dead(Root) BY <1>1 DEF GlobalInv, WordsLead, Leads, Sound, RootIsTop, Dead
<1>4. \A m \in Inner : m \in Nodes /\ Kids(m) \subseteq Nodes BY NodeTypes DEF GlobalInv, Kids
<1>5. \A m \in S : tree[m].internal => m \in Inner BY <1>2 DEF Inner
<1>6. ASSUME NEW m \in S, tree[m].internal, NEW c \in Kids(m)
      PROVE c \in S
 BY <1>2, <1>4, <1>5, <1>6 DEF GlobalInv, DeadBelowDead
<1>7. BelowClosed(tree, S) BY <1>6 DEF BelowClosed, Kids
<1>8. InTree \subseteq S BY <1>1, <1>2, <1>3, <1>7, BelowIsLeast DEF InTree
<1> QED BY <1>2, <1>8

(* The path to a node that lies below another leads through that one. *)
LEMMA PathLeadsThrough ==
 ASSUME GlobalInv, RootIsTop, NEW key, NEW q \in InTree \cap Inner, NEW n \in OnPath(key)
 PROVE  /\ n \in Below(tree, tree[q].left) => q \in OnPath(key) /\ key < tree[q].key
        /\ n \in Below(tree, tree[q].right) => q \in OnPath(key) /\ ~(key < tree[q].key)
<1> DEFINE l == tree[q].left
           r == tree[q].right
           Through(m) ==
              /\ m \in Below(tree, l) => q \in OnPath(key) /\ key < tree[q].key
              /\ m \in Below(tree, r) => q \in OnPath(key) /\ ~(key < tree[q].key)
<1>1. IsLinked(tree) /\ Root \in DOMAIN tree /\ Nodes = DOMAIN tree /\ Root \in Inner
 BY TreeIsLinked DEF GlobalInv, Shape
<1>2. PICK S : S = {m \in OnPath(key) : Through(m)} OBVIOUS
<1>3. l \in Nodes /\ r \in Nodes /\ l # Root /\ r # Root /\ l # r
 <2>1. l \in Nodes /\ r \in Nodes /\ l # Root /\ r # Root BY NodeTypes DEF GlobalInv, RootIsTop, Kids
 <2>2. tree[l].key < tree[q].key /\ tree[q].key <= tree[r].key BY DEF GlobalInv, KidsAreOrdered
 <2>3. tree[l].key \in Int /\ tree[q].key \in Int BY <2>1, NodeTypes, KeysAreIntegers DEF GlobalInv
 <2> QED BY <2>1, <2>2, <2>3
<1>4. /\ Root \in OnPath(key) /\ OnPath(key) \subseteq Nodes
      /\ PathClosed(tree, key, OnPath(key)) /\ OnPath(key) \subseteq InTree
 BY <1>1, PathIsLeast, PathIsBelow DEF OnPath, InTree
<1>5. InTree \subseteq Nodes /\ BelowClosed(tree, InTree) BY <1>1, BelowIsLeast DEF InTree
<1>6. ASSUME NEW x \in {l, r}, NEW c \in Below(tree, x), c # x
      PROVE \E m \in Below(tree, x) \cap InTree \cap Inner : c \in Kids(m)
 <2>1. PICK m \in Below(tree, x) : tree[m].internal /\ c \in {tree[m].left, tree[m].right}
  BY <1>1, <1>3, <1>6, BelowHasParent
 <2>2. x \in InTree BY <1>5 DEF BelowClosed, Inner
 <2>3. m \in InTree BY <1>1, <2>1, <2>2, BelowGoesOn DEF InTree
 <2> QED BY <1>5, <2>1, <2>3 DEF Inner, Kids
<1>7. Root \in S
 <2>1. ASSUME NEW x \in {l, r} PROVE Root \notin Below(tree, x) BY <1>3, <1>6 DEF RootIsTop
 <2> QED BY <1>2, <1>4, <2>1
<1>8. ASSUME NEW m \in S, tree[m].internal
      PROVE Child(tree, m, key) \in S
 <2>1. PICK c : c = Child(tree, m, key) OBVIOUS
 <2>2. m \in Inner /\ m \in InTree /\ m \in OnPath(key) /\ Through(m) BY <1>2, <1>4, <1>8 DEF Inner
 <2>3. c \in OnPath(key) /\ c \in Kids(m) BY <1>4, <1>8, <2>1, <2>2, <1>1, ChildIsNode DEF PathClosed, Kids
 <2>4. \A x \in InTree \cap Inner : c \in Kids(x) => x = m BY <2>2, <2>3, InTreeIsLive DEF GlobalInv, OneParent
 <2>5. CASE c = l
  <3>1. m = q BY <2>4, <2>5 DEF Kids
  <3>2. key < tree[q].key BY <1>3, <2>1, <2>5, <3>1 DEF Child
  <3>3. c \notin Below(tree, r)
   <4>1. SUFFICES ASSUME c \in Below(tree, r) PROVE FALSE OBVIOUS
   <4>2. q \in Below(tree, r) BY <1>3, <1>6, <2>4, <2>5, <3>1, <4>1
   <4> QED BY <2>2, <3>1, <3>2, <4>2
  <3> QED BY <1>2, <2>1, <2>2, <2>3, <3>1, <3>2, <3>3
 <2>6. CASE c = r
  <3>1. m = q BY <2>4, <2>6 DEF Kids
  <3>2. ~(key < tree[q].key) BY <1>3, <2>1, <2>6, <3>1 DEF Child
  <3>3. c \notin Below(tree, l)
   <4>1. SUFFICES ASSUME c \in Below(tree, l) PROVE FALSE OBVIOUS
   <4>2. q \in Below(tree, l) BY <1>3, <1>6, <2>4, <2>6, <3>1, <4>1
   <4> QED BY <2>2, <3>1, <3>2, <4>2
  <3> QED BY <1>2, <2>1, <2>2, <2>3, <3>1, <3>2, <3>3
 <2>7. CASE c \notin {l, r}
  <3>1. ASSUME NEW x \in {l, r}, c \in Below(tree, x)
        PROVE m \in Below(tree, x)
   BY <1>6, <2>4, <2>7, <3>1
  <3> QED BY <1>2, <2>1, <2>2, <2>3, <3>1
 <2> QED BY <2>5, <2>6, <2>7
<1>9. OnPath(key) \subseteq S
 <2>1. PathClosed(tree, key, S) BY <1>8 DEF PathClosed
 <2>2. S \in SUBSET DOMAIN tree BY <1>1, <1>2, <1>4
 <2> QED BY <1>1, <1>7, <2>1, <2>2, PathIsLeast DEF OnPath
<1> QED BY <1>2, <1>9

(* A node in the tree is on the search path of its key. *)
LEMMA InTreeIsOnPath ==
 ASSUME GlobalInv, Ordered, NEW n \in InTree
 PROVE n \in OnPath(tree[n].key)
<1>1. IsLinked(tree) /\ Root \in DOMAIN tree /\ Nodes = DOMAIN tree /\ Root \in Inner
 BY TreeIsLinked DEF GlobalInv, Shape
<1>2. InTree \subseteq Nodes /\ BelowClosed(tree, InTree) /\ Root \in InTree BY <1>1, BelowIsLeast DEF InTree
<1>3. PICK S : S = {m \in InTree : \A x \in Below(tree, m) : m \in OnPath(tree[x].key)} OBVIOUS
<1>4. Root \in S BY <1>1, <1>2, <1>3, PathIsLeast DEF OnPath
<1>5. ASSUME NEW m \in S, tree[m].internal, NEW c \in {tree[m].left, tree[m].right}
      PROVE c \in S
 <2>1. m \in InTree /\ m \in Inner /\ c \in InTree /\ c \in Nodes BY <1>2, <1>3, <1>5 DEF BelowClosed, Inner
 <2>2. ASSUME NEW x \in Below(tree, c) PROVE c \in OnPath(tree[x].key)
  <3>1. x \in Below(tree, m)
   <4>1. m \in Nodes /\ tree[m].internal BY <1>2, <1>5, <2>1
   <4>2. Below(tree, m) = {m} \cup Below(tree, tree[m].left) \cup Below(tree, tree[m].right)
    BY <1>1, <4>1, BelowUnfolds
   <4> QED BY <1>5, <4>2
  <3>2. m \in OnPath(tree[x].key) /\ x \in Nodes BY <1>1, <1>3, <2>1, <3>1, BelowIsLeast
  <3>3. c = Child(tree, m, tree[x].key)
   <4>1. KeysAreOrdered(m) BY <2>1 DEF Ordered
   <4>2. tree[x].key \in Int /\ tree[m].key \in Int BY <2>1, <3>2, NodeTypes, KeysAreIntegers DEF GlobalInv
   <4> QED BY <1>5, <2>2, <4>1, <4>2 DEF KeysAreOrdered, Child
  <3> QED BY <1>1, <1>5, <3>2, <3>3, PathIsLeast DEF PathClosed, OnPath
 <2> QED BY <1>3, <2>1, <2>2
<1>6. InTree \subseteq S
 <2>1. BelowClosed(tree, S) BY <1>5 DEF BelowClosed
 <2> QED BY <1>1, <1>2, <1>3, <1>4, <2>1, BelowIsLeast DEF InTree
<1>7. n \in Below(tree, n) BY <1>1, <1>2, BelowIsLeast
<1> QED BY <1>3, <1>6, <1>7

-----------------------------------------------------------------------------

(* The types of the fields link a tree. *)
LEMMA RecordsAreLinked ==
 ASSUME NEW tr, NEW D, NEW W,
        tr \in [D -> LeafRecords \cup [internal : {TRUE}, key : Bounds, update : W, left : D, right : D]]
 PROVE IsLinked(tr) /\ DOMAIN tr = D
<1>1. DOMAIN tr = D OBVIOUS
<1>2. ASSUME NEW n \in D, tr[n].internal
      PROVE tr[n] \in [internal : {TRUE}, key : Bounds, update : W, left : D, right : D]
 BY <1>2 DEF LeafRecords
<1>3. \A n \in D : tr[n].internal => tr[n].left \in D /\ tr[n].right \in D BY <1>2
<1> QED BY <1>1, <1>3 DEF IsLinked

(* It leaves the paths from the old nodes alone, and what is below them. *)
LEMMA StillPaths ==
 ASSUME Shape, Shape', Still, NEW n \in Nodes
 PROVE  /\ \A key : Path(tree', n, key) = Path(tree, n, key)
        /\ Below(tree', n) = Below(tree, n)
<1>1. IsLinked(tree) /\ Nodes = DOMAIN tree BY TreeIsLinked
<1>2. IsLinked(tree') /\ Nodes' = DOMAIN tree'
 <2>1. PICK D, W : D = Nodes' /\ W = Words' OBVIOUS
 <2>2. tree' \in [D -> LeafRecords \cup [internal : {TRUE}, key : Bounds, update : W, left : D, right : D]]
  BY <2>1 DEF Shape, InnerRecords
 <2> QED BY <2>1, <2>2, RecordsAreLinked
<1>3. Nodes \subseteq Nodes' /\ n \in Nodes' BY DEF Still
<1>4. ASSUME NEW m \in Nodes
      PROVE  /\ tree'[m].internal = tree[m].internal /\ tree'[m].key = tree[m].key
             /\ tree[m].internal => tree'[m].left = tree[m].left /\ tree'[m].right = tree[m].right
 BY DEF Still, Inner, SameKids
<1>5. ASSUME NEW key PROVE Path(tree', n, key) = Path(tree, n, key)
 <2>1. PathClosed(tree', key, Path(tree, n, key)) BY <1>1, <1>4, PathIsLeast DEF PathClosed, Child
 <2>2. Path(tree', n, key) \subseteq Path(tree, n, key) BY <1>1, <1>2, <1>3, <2>1, PathIsLeast
 <2>3. PathClosed(tree, key, Path(tree', n, key)) /\ n \in Path(tree', n, key)
       /\ Path(tree', n, key) \in SUBSET Nodes
  <3>1. n \in Path(tree', n, key) /\ PathClosed(tree', key, Path(tree', n, key)) BY <1>2, <1>3, PathIsLeast
  <3>2. Path(tree', n, key) \in SUBSET Nodes BY <1>1, <2>2, PathIsLeast
  <3> QED BY <1>4, <3>1, <3>2 DEF PathClosed, Child
 <2> QED BY <1>1, <2>2, <2>3, PathIsLeast
<1>6. Below(tree', n) = Below(tree, n)
 <2>1. BelowClosed(tree', Below(tree, n)) BY <1>1, <1>4, BelowIsLeast DEF BelowClosed
 <2>2. Below(tree', n) \subseteq Below(tree, n) BY <1>1, <1>2, <1>3, <2>1, BelowIsLeast
 <2>3. BelowClosed(tree, Below(tree', n)) /\ n \in Below(tree', n)
       /\ Below(tree', n) \in SUBSET Nodes
  <3>1. n \in Below(tree', n) /\ BelowClosed(tree', Below(tree', n)) BY <1>2, <1>3, BelowIsLeast
  <3>2. Below(tree', n) \in SUBSET Nodes BY <1>1, <2>2, BelowIsLeast
  <3> QED BY <1>4, <3>1, <3>2 DEF BelowClosed
 <2> QED BY <1>1, <2>2, <2>3, BelowIsLeast
<1> QED BY <1>5, <1>6

-----------------------------------------------------------------------------
(* A child is swapped: what the children are afterwards. *)
LEMMA SwapChildren ==
 ASSUME Shape, KidsAreOrdered, NEW g \in Inner, NEW old, NEW new \in Nodes, Swaps(g, old, new)
 PROVE  /\ IsLinked(tree) /\ IsLinked(tree') /\ DOMAIN tree = Nodes /\ DOMAIN tree' = Nodes
        /\ \A m \in Nodes : tree'[m].internal = tree[m].internal /\ tree'[m].key = tree[m].key
        /\ \A m \in Inner : m # g =>
             /\ tree'[m].left = tree[m].left /\ tree'[m].right = tree[m].right
             /\ \A key : Child(tree', m, key) = Child(tree, m, key)
        /\ {tree'[g].left, tree'[g].right} \subseteq {tree[g].left, tree[g].right, new}
        /\ {tree[g].left, tree[g].right} \subseteq {tree'[g].left, tree'[g].right, old}
        /\ new \in {tree'[g].left, tree'[g].right}
        /\ \A key : IF Child(tree, g, key) = old THEN Child(tree', g, key) = new
                                                 ELSE Child(tree', g, key) = Child(tree, g, key)
<1>1. IsLinked(tree) /\ DOMAIN tree = Nodes BY TreeIsLinked
<1>2. Nodes' = Nodes /\ DOMAIN tree' = Nodes BY DEF Swaps, Nodes
<1>3. /\ \A m \in Nodes : tree'[m].internal = tree[m].internal /\ tree'[m].key = tree[m].key
      /\ \A m \in Inner : m # g =>
              tree'[m].left = tree[m].left /\ tree'[m].right = tree[m].right
 BY DEF Swaps, SameKids
<1>4. \A m \in Inner : m # g => \A key : Child(tree', m, key) = Child(tree, m, key) BY <1>3 DEF Child, Inner
<1>5. IsLinked(tree')
 <2>1. PICK D, W : D = Nodes /\ W = Words OBVIOUS
 <2>2. tree' \in [D -> LeafRecords \cup [internal : {TRUE}, key : Bounds, update : W, left : D, right : D]]
  BY <2>1 DEF Swaps, InnerRecords
 <2> QED BY <2>1, <2>2, RecordsAreLinked
<1>6. tree[g].left # tree[g].right /\ g \in Nodes
 <2>1. tree[g].left \in Nodes /\ tree[g].right \in Nodes /\ g \in Nodes BY NodeTypes
 <2>2. tree[tree[g].left].key < tree[g].key /\ tree[g].key <= tree[tree[g].right].key BY DEF KidsAreOrdered
 <2>3. tree[tree[g].left].key \in Int /\ tree[g].key \in Int BY <2>1, NodeTypes, KeysAreIntegers
 <2> QED BY <2>1, <2>2, <2>3
<1>7. \/ tree[g].left = old /\ tree'[g].left = new /\ tree'[g].right = tree[g].right
      \/ tree[g].right = old /\ tree'[g].right = new /\ tree'[g].left = tree[g].left
 BY DEF Swaps
<1>8. \A key : IF Child(tree, g, key) = old THEN Child(tree', g, key) = new
                                            ELSE Child(tree', g, key) = Child(tree, g, key)
 BY <1>3, <1>6, <1>7 DEF Child
<1>9. /\ {tree'[g].left, tree'[g].right} \subseteq {tree[g].left, tree[g].right, new}
      /\ {tree[g].left, tree[g].right} \subseteq {tree'[g].left, tree'[g].right, old}
      /\ new \in {tree'[g].left, tree'[g].right}
 BY <1>7
<1> QED BY <1>1, <1>2, <1>3, <1>4, <1>5, <1>8, <1>9

(* Below a node there are the old nodes, and what is below the new child. *)
LEMMA SwapBelow ==
 ASSUME Shape, KidsAreOrdered, NEW g \in Inner, NEW old, NEW new \in Nodes, Swaps(g, old, new), NEW x \in Nodes
 PROVE  /\ Below(tree', x) \subseteq Nodes
        /\ \A m \in Below(tree', x) :
             m \in Below(tree, x) \/ (g \in Below(tree, x) /\ m \in Below(tree, new))
<1>1. PICK S : S = Below(tree, x) \cup (IF g \in Below(tree, x) THEN Below(tree, new) ELSE {}) OBVIOUS
<1>2. /\ IsLinked(tree) /\ IsLinked(tree') /\ DOMAIN tree = Nodes /\ DOMAIN tree' = Nodes
      /\ \A m \in Nodes : tree'[m].internal = tree[m].internal
      /\ \A m \in Inner : m # g => tree'[m].left = tree[m].left /\ tree'[m].right = tree[m].right
      /\ {tree'[g].left, tree'[g].right} \subseteq {tree[g].left, tree[g].right, new}
 BY SwapChildren
<1>3. /\ x \in Below(tree, x) /\ Below(tree, x) \subseteq Nodes /\ BelowClosed(tree, Below(tree, x))
      /\ new \in Below(tree, new) /\ Below(tree, new) \subseteq Nodes
      /\ BelowClosed(tree, Below(tree, new))
 BY <1>2, BelowIsLeast
<1>4. BelowClosed(tree, S) BY <1>1, <1>3 DEF BelowClosed
<1>5. S \subseteq Nodes /\ x \in S BY <1>1, <1>3
<1>6. g \in S => new \in S BY <1>1, <1>3
<1>7. ASSUME NEW m \in S, tree'[m].internal
      PROVE tree'[m].left \in S /\ tree'[m].right \in S
 <2>1. m \in Inner BY <1>2, <1>5, <1>7 DEF Inner
 <2>2. tree[m].left \in S /\ tree[m].right \in S BY <1>4, <2>1 DEF BelowClosed, Inner
 <2>3. CASE m # g BY <1>2, <2>1, <2>2, <2>3
 <2>4. CASE m = g BY <1>2, <1>6, <2>2, <2>4
 <2> QED BY <2>3, <2>4
<1>8. BelowClosed(tree', S) BY <1>7 DEF BelowClosed
<1>9. Below(tree', x) \subseteq S BY <1>2, <1>5, <1>8, BelowIsLeast
<1> QED BY <1>1, <1>5, <1>9

(* What was below the root still is, up to what hangs on the old child. *)
LEMMA SwapKeepsInTree ==
 ASSUME Shape, KidsAreOrdered, NEW g \in Inner, NEW old, NEW new \in Nodes, Swaps(g, old, new),
        NEW X \in SUBSET Nodes, old \in X, g \notin X, Root \notin X,
        \A x \in X : tree[x].internal => {tree[x].left, tree[x].right} \subseteq X \cup {new}
 PROVE  /\ InTree \subseteq InTree' \cup X
        /\ g \in InTree => new \in InTree'
<1>1. PICK S : S = InTree' \cup (IF g \in InTree' THEN X ELSE {}) OBVIOUS
<1>2. /\ IsLinked(tree) /\ IsLinked(tree') /\ DOMAIN tree = Nodes /\ DOMAIN tree' = Nodes
      /\ \A m \in Nodes : tree'[m].internal = tree[m].internal
      /\ \A m \in Inner : m # g => tree'[m].left = tree[m].left /\ tree'[m].right = tree[m].right
      /\ {tree[g].left, tree[g].right} \subseteq {tree'[g].left, tree'[g].right, old}
      /\ new \in {tree'[g].left, tree'[g].right}
 BY SwapChildren
<1>3. Root \in Nodes /\ InTree' = Below(tree', Root) BY DEF Shape, Inner, InTree
<1>4. Root \in InTree' /\ InTree' \subseteq Nodes /\ BelowClosed(tree', InTree') BY <1>2, <1>3, BelowIsLeast
<1>5. g \in InTree' => new \in InTree' BY <1>2, <1>4 DEF BelowClosed, Inner
<1>6. ASSUME NEW m \in S, tree[m].internal
      PROVE tree[m].left \in S /\ tree[m].right \in S
 <2>1. CASE m \in InTree' /\ m # g
  <3>1. m \in Inner /\ tree'[m].internal BY <1>2, <1>4, <1>6, <2>1 DEF Inner
  <3>2. tree'[m].left \in InTree' /\ tree'[m].right \in InTree' BY <1>4, <2>1, <3>1 DEF BelowClosed
  <3> QED BY <1>1, <1>2, <2>1, <3>1, <3>2
 <2>2. CASE m \in InTree' /\ m = g
  <3>1. tree'[m].left \in InTree' /\ tree'[m].right \in InTree' BY <1>2, <1>4, <1>6, <2>2 DEF BelowClosed
  <3> QED BY <1>1, <1>2, <2>2, <3>1
 <2>3. CASE m \notin InTree' BY <1>1, <1>5, <1>6, <2>3
 <2> QED BY <2>1, <2>2, <2>3
<1>7. BelowClosed(tree, S) /\ S \in SUBSET Nodes BY <1>1, <1>4, <1>6 DEF BelowClosed
<1>8. InTree \subseteq S BY <1>1, <1>2, <1>3, <1>4, <1>7, BelowIsLeast DEF InTree
<1> QED BY <1>1, <1>5, <1>8

(* The same for a search path: it keeps what does not hang on the old child. *)
LEMMA SwapKeepsPath ==
 ASSUME Shape, KidsAreOrdered, NEW g \in Inner, NEW old, NEW new \in Nodes, Swaps(g, old, new),
        NEW key, NEW X \in SUBSET Nodes, old \in X, g \notin X, Root \notin X,
        \A x \in X : tree[x].internal => Child(tree, x, key) \in X \cup {new}
 PROVE  /\ OnPath(key) \subseteq OnPath(key)' \cup X
        /\ Child(tree, g, key) # old => OnPath(key) \subseteq OnPath(key)'
        /\ g \in OnPath(key) /\ Child(tree, g, key) = old => new \in OnPath(key)'
<1>1. PICK S : S = OnPath(key)' \cup (IF g \in OnPath(key)' /\ Child(tree, g, key) = old THEN X ELSE {}) OBVIOUS
<1>2. /\ IsLinked(tree) /\ IsLinked(tree') /\ DOMAIN tree = Nodes /\ DOMAIN tree' = Nodes
      /\ \A m \in Nodes : tree'[m].internal = tree[m].internal
      /\ \A m \in Inner : m # g => Child(tree', m, key) = Child(tree, m, key)
      /\ IF Child(tree, g, key) = old THEN Child(tree', g, key) = new
                                      ELSE Child(tree', g, key) = Child(tree, g, key)
 BY SwapChildren
<1>3. Root \in Nodes /\ OnPath(key)' = Path(tree', Root, key) BY DEF Shape, Inner, OnPath
<1>4. Root \in OnPath(key)' /\ OnPath(key)' \subseteq Nodes /\ PathClosed(tree', key, OnPath(key)')
 BY <1>2, <1>3, PathIsLeast
<1>5. ASSUME NEW m \in OnPath(key)', tree[m].internal
      PROVE Child(tree', m, key) \in OnPath(key)' /\ m \in Inner
 BY <1>2, <1>4, <1>5 DEF PathClosed, Inner
<1>6. g \in OnPath(key)' /\ Child(tree, g, key) = old => new \in OnPath(key)' BY <1>2, <1>5 DEF Inner
<1>7. ASSUME NEW m \in S, tree[m].internal
      PROVE Child(tree, m, key) \in S
 <2>1. CASE m \in OnPath(key)' /\ m # g BY <1>1, <1>2, <1>5, <1>7, <2>1
 <2>2. CASE m \in OnPath(key)' /\ m = g BY <1>1, <1>2, <1>5, <1>7, <2>2
 <2>3. CASE m \notin OnPath(key)' BY <1>1, <1>6, <1>7, <2>3
 <2> QED BY <2>1, <2>2, <2>3
<1>8. PathClosed(tree, key, S) /\ S \in SUBSET Nodes BY <1>1, <1>4, <1>7 DEF PathClosed
<1>9. OnPath(key) \subseteq S BY <1>1, <1>2, <1>3, <1>4, <1>8, PathIsLeast DEF OnPath
<1> QED BY <1>1, <1>6, <1>9

(* A path that does not use the old child stays. *)
LEMMA SwapLeavesPath ==
 ASSUME Shape, KidsAreOrdered, NEW g \in Inner, NEW old, NEW new \in Nodes, Swaps(g, old, new),
        NEW key, g \in OnPath(key) => Child(tree, g, key) # old
 PROVE OnPath(key) \subseteq OnPath(key)'
<1>1. /\ IsLinked(tree) /\ IsLinked(tree') /\ DOMAIN tree = Nodes /\ DOMAIN tree' = Nodes
      /\ \A m \in Nodes : tree'[m].internal = tree[m].internal
      /\ \A m \in Inner : m # g => Child(tree', m, key) = Child(tree, m, key)
      /\ Child(tree, g, key) # old => Child(tree', g, key) = Child(tree, g, key)
 BY SwapChildren
<1>2. Root \in Nodes /\ OnPath(key)' = Path(tree', Root, key) /\ OnPath(key) = Path(tree, Root, key)
 BY DEF Shape, Inner, OnPath
<1>3. PICK P, Q : P = OnPath(key) /\ Q = OnPath(key)' OBVIOUS
<1>4. /\ Root \in Q /\ Q \subseteq Nodes /\ PathClosed(tree', key, Q)
      /\ Root \in P /\ P \subseteq Nodes /\ PathClosed(tree, key, P)
      /\ \A S \in SUBSET Nodes : Root \in S /\ PathClosed(tree, key, S) => P \subseteq S
 BY <1>1, <1>2, <1>3, PathIsLeast
<1>5. ASSUME NEW m \in P \cap Q, tree[m].internal
      PROVE Child(tree, m, key) \in P \cap Q
 <2>1. m \in Inner /\ tree'[m].internal BY <1>1, <1>4, <1>5 DEF Inner
 <2>2. Child(tree', m, key) = Child(tree, m, key) BY <1>1, <1>3, <2>1
 <2> QED BY <1>4, <1>5, <2>1, <2>2 DEF PathClosed
<1>6. PathClosed(tree, key, P \cap Q) /\ P \cap Q \in SUBSET Nodes BY <1>4, <1>5 DEF PathClosed
<1>7. P \subseteq P \cap Q BY <1>4, <1>6
<1> QED BY <1>3, <1>7

(* A slow search that goes on from n meets what it would have met before   *)
(* the swap, or what is on the path now.                                   *)
LEMMA SwapGoesOn ==
 ASSUME Shape, KidsAreOrdered, NEW g \in Inner, NEW old, NEW new \in Nodes, Swaps(g, old, new),
        NEW key, NEW n \in Nodes, g \in Path(tree, n, key) => g \in OnPath(key)'
 PROVE  /\ Path(tree', n, key) \subseteq Nodes
        /\ Path(tree', n, key) \subseteq Path(tree, n, key) \cup OnPath(key)'
<1>1. /\ IsLinked(tree) /\ IsLinked(tree') /\ DOMAIN tree = Nodes /\ DOMAIN tree' = Nodes
      /\ \A m \in Nodes : tree'[m].internal = tree[m].internal
      /\ \A m \in Inner : m # g => Child(tree', m, key) = Child(tree, m, key)
 BY SwapChildren
<1>2. Root \in Nodes /\ OnPath(key)' = Path(tree', Root, key) BY DEF Shape, Inner, OnPath
<1>3. PICK P, Q : P = Path(tree, n, key) /\ Q = OnPath(key)' OBVIOUS
<1>4. /\ Q \subseteq Nodes /\ PathClosed(tree', key, Q)
      /\ n \in P /\ P \subseteq Nodes /\ PathClosed(tree, key, P)
      /\ \A S \in SUBSET Nodes : n \in S /\ PathClosed(tree', key, S) => Path(tree', n, key) \subseteq S
 BY <1>1, <1>2, <1>3, PathIsLeast
<1>5. ASSUME NEW m \in P \cup Q, tree'[m].internal
      PROVE Child(tree', m, key) \in P \cup Q
 <2>1. CASE m \in Q BY <1>4, <1>5, <2>1 DEF PathClosed
 <2>2. CASE m \in P /\ m \notin Q
  <3>1. m # g /\ m \in Inner /\ tree[m].internal BY <1>1, <1>3, <1>4, <1>5, <2>2 DEF Inner
  <3> QED BY <1>1, <1>4, <2>2, <3>1 DEF PathClosed
 <2> QED BY <1>5, <2>1, <2>2
<1>6. PathClosed(tree', key, P \cup Q) /\ P \cup Q \in SUBSET Nodes BY <1>4, <1>5 DEF PathClosed
<1>7. Path(tree', n, key) \subseteq P \cup Q BY <1>4, <1>6
<1> QED BY <1>3, <1>4, <1>7

-----------------------------------------------------------------------------
(* A flagged node is in the tree. *)
LEMMA FlaggedIsIn ==
 ASSUME LiveIsIn, NEW n \in Inner, Word(n).state \in {"IFLAG", "DFLAG"}
 PROVE n \in InTree
<1>1. Word(n).state # "CLEAN" /\ Word(n).state # "MARK" OBVIOUS
<1>2. ~Waits(n)
 <2>1. NullUpdate.state = "CLEAN" BY DEF NullUpdate, Update
 <2>2. Waits(n) => Word(n) = NullUpdate BY DEF Waits, Pending
 <2> QED BY <1>1, <2>1, <2>2
<1>3. ~Dead(n) BY <1>1 DEF Dead
<1> QED BY <1>2, <1>3 DEF LiveIsIn

(* CASChild looks on the right side as long as the flag is there. *)
LEMMA NeverMisses ==
 ASSUME GlobalInv, TreeInv, NEW op \in Removes, Word(Info(op).gp) = Update("DFLAG", op), Linked(op)
 PROVE ~Misses(op)
<1>1. PICK g, p, c : g = Info(op).gp /\ p = Info(op).p /\ c = Other(op) OBVIOUS
<1>2. IsLinked(tree) /\ Nodes = DOMAIN tree BY TreeIsLinked DEF GlobalInv
<1>3. g \in Inner /\ p \in Inner /\ p \in Nodes /\ c \in Kids(p) /\ c \in Nodes /\ p \in Kids(g)
 BY <1>1, InfoTypes, NodeTypes DEF GlobalInv, Removes, Other, Kids, Linked
<1>4. g \in InTree BY <1>1, <1>3, FlaggedIsIn DEF TreeInv, Update
<1>5. KeysAreOrdered(g) BY <1>3, <1>4 DEF TreeInv, Ordered
<1>6. p \in Below(tree, p) /\ c \in Below(tree, p) BY <1>2, <1>3, BelowIsLeast DEF BelowClosed, Kids, Inner
<1>7. tree[p].key \in Int /\ tree[c].key \in Int /\ tree[g].key \in Int
 BY <1>3, NodeTypes, KeysAreIntegers DEF GlobalInv, Inner
<1>8. tree[c].key < tree[g].key <=> tree[p].key < tree[g].key BY <1>3, <1>5, <1>6, <1>7 DEF KeysAreOrdered, Kids
<1> QED BY <1>1, <1>8 DEF Misses

(* What was removed stays so while its old parent does not get it back. *)
LEMMA DeadStays ==
 ASSUME GlobalInv, Grows, NEW n \in Inner, Dead(n),
        \A m \in Inner : n \in Kids(m)' => n \in Kids(m)
 PROVE Dead(n)'
<1>1. PICK op : op = Word(n).info OBVIOUS
<1>2. /\ Word(n).state = "MARK" /\ Word(n)' = Word(n)
      /\ op \in Removes /\ n \notin Kids(Info(op).gp)
 BY <1>1 DEF Grows, Dead, GlobalInv, WordsLead, Leads, Sound
<1>3. PICK g : g = Info(op).gp /\ g = Info(op)'.gp /\ g \in Inner BY <1>2, InfoTypes DEF Grows, GlobalInv, Removes
<1>4. n \notin Kids(g)' BY <1>2, <1>3
<1>5. Word(n)'.state = "MARK" /\ Word(n)'.info = op BY <1>1, <1>2
<1>6. n \notin Kids(Info(op).gp)' BY <1>3, <1>4 DEF Kids
<1> QED BY <1>5, <1>6 DEF Dead

(* An add that waits goes on waiting while no child changes, and did before. *)
LEMMA StillPending ==
 ASSUME GlobalInv, GlobalInv', Grows, Still, NEW op \in Adds
 PROVE Pending(op)' <=> Pending(op)
<1>1. PICK p, l : p = Info(op).p /\ l = Info(op).l OBVIOUS
<1>2. /\ p \in Inner /\ op \in Adds' /\ Info(op)' = Info(op)
      /\ AddInv(op) /\ AddInv(op)'
 BY <1>1, SetsGrow, InfoTypes DEF GlobalInv, Adds, Grows
<1>3. Kids(p)' = Kids(p) BY <1>2 DEF Still, SameKids, Kids
<1>4. Detached(op)' <=> l \notin Kids(p)' BY <1>1, <1>2 DEF Detached
<1>5. Detached(op) <=> l \notin Kids(p) BY <1>1 DEF Detached
<1>6. Pending(op) <=> ~Detached(op) BY <1>2 DEF AddInv, Pending, Replaced, Detached
<1>7. Pending(op)' <=> ~Detached(op)' BY <1>2 DEF AddInv, Pending, Replaced, Detached
<1> QED BY <1>3, <1>4, <1>5, <1>6, <1>7

(* Steps that change words or add nodes. *)
LEMMA StillKeepsTree ==
 ASSUME GlobalInv, GlobalInv', TreeInv, Grows, Still, Ranked',
        \A n \in Inner' : n \in Inner \/ (Waits(n)' /\ Root \notin Kids(n)'),
        \A op \in Adds' : op \in Adds \/ NewTree(op)',
        \A op \in Removes' : \/ op \in Removes
                             \/ /\ Info(op)'.p # Root
                                /\ Word(Info(op).gp)' = Update("DFLAG", op)
 PROVE TreeInv'
<1>1. Shape /\ Shape' /\ Root \in Nodes BY DEF GlobalInv, Shape, Inner
<1>2. \A n \in Inner : Kids(n)' = Kids(n) /\ n \in Nodes BY DEF Still, SameKids, Kids, Inner
<1>3. /\ InTree' = InTree /\ InTree \subseteq Nodes
      /\ \A key : OnPath(key)' = OnPath(key)
 BY <1>1, StillPaths, TreeIsLinked, BelowIsLeast DEF InTree, OnPath
<1>4. \A op \in InfoIds : Info(op)' = Info(op) BY DEF Grows
<1>5. RootIsTop'
 <2>1. \A n \in Inner' : Root \notin Kids(n)' BY <1>2 DEF TreeInv, RootIsTop
 <2>2. \A op \in Removes' : Info(op)'.p # Root BY <1>4 DEF TreeInv, RootIsTop, Removes
 <2> QED BY <2>1, <2>2 DEF RootIsTop
<1>6. ASSUME NEW n \in InTree, n \in Inner'
      PROVE KeysAreOrdered(n)'
 <2>1. n \in Inner BY <1>3, <1>6 DEF Still, Inner
 <2>2. PICK l, r : l = tree[n].left /\ r = tree[n].right OBVIOUS
 <2>3. l \in Nodes /\ r \in Nodes /\ tree'[n].left = l /\ tree'[n].right = r /\ n \in Nodes
  BY <1>1, <2>1, <2>2, NodeTypes DEF Still, SameKids
 <2>4. Below(tree', l) = Below(tree, l) /\ Below(tree', r) = Below(tree, r)
       /\ Below(tree, l) \subseteq Nodes /\ Below(tree, r) \subseteq Nodes
  BY <1>1, <2>3, StillPaths, TreeIsLinked, BelowIsLeast
 <2>5. \A m \in Nodes : tree'[m].key = tree[m].key BY DEF Still
 <2>6. KeysAreOrdered(n) BY <2>1, <1>6 DEF TreeInv, Ordered
 <2>7. \A m \in Below(tree', l) : tree'[m].key < tree'[n].key BY <2>2, <2>3, <2>4, <2>5, <2>6 DEF KeysAreOrdered
 <2>8. \A m \in Below(tree', r) : tree'[n].key <= tree'[m].key BY <2>2, <2>3, <2>4, <2>5, <2>6 DEF KeysAreOrdered
 <2> QED BY <2>3, <2>7, <2>8 DEF KeysAreOrdered
<1>7. Ordered' BY <1>3, <1>6 DEF Ordered
<1>8. LiveIsIn'
 <2>1. ASSUME NEW n \in Inner PROVE n \in InTree' \/ Dead(n)' \/ Waits(n)'
  <3>1. Dead(n) => Dead(n)' BY <1>2, DeadStays
  <3>2. Waits(n) => Waits(n)'
   <4>1. SUFFICES ASSUME NEW op \in Adds, Pending(op), n = Info(op).newInternal
                  PROVE Waits(n)'
    BY DEF Waits
   <4>2. op \in Adds' /\ Pending(op)' /\ n = Info(op)'.newInternal BY <1>4, <4>1, SetsGrow, StillPending DEF Adds
   <4> QED BY <4>2 DEF Waits
  <3> QED BY <1>3, <3>1, <3>2 DEF TreeInv, LiveIsIn
 <2> QED BY <2>1 DEF LiveIsIn
<1>9. NewTrees'
 <2>1. ASSUME NEW op \in Adds, Pending(op)' PROVE NewTree(op)'
  <3>1. Pending(op) /\ NewTree(op) /\ Info(op)' = Info(op) BY <1>4, <2>1, StillPending DEF TreeInv, NewTrees, Adds
  <3>2. PICK leaf, sib, i : leaf = NewNode(op, "leaf") /\ sib = NewNode(op, "sibling") /\ i = Info(op) OBVIOUS
  <3>3. leaf \in Leaves /\ sib \in Leaves /\ i.p \in Inner /\ i.newInternal \in Inner /\ i.l \in Leaves
   BY <1>1, <3>1, <3>2, InfoTypes DEF NewTree, Adds
  <3>4. \A n \in {leaf, sib, i.p, i.newInternal, i.l} : tree'[n].key = tree[n].key BY <3>3 DEF Still, Inner, Leaves
  <3>5. leaf \in Leaves' /\ sib \in Leaves' BY <3>3, SetsGrow
  <3>6. tree'[i.newInternal].left = tree[i.newInternal].left
        /\ tree'[i.newInternal].right = tree[i.newInternal].right
   BY <3>3 DEF Still, SameKids
  <3>7. NewKey(op, "leaf")' = NewKey(op, "leaf") /\ NewKey(op, "sibling")' = NewKey(op, "sibling")
   BY <3>2, <3>4 DEF NewKey
  <3>8. /\ SidesAre(op, "leaf", "sibling") => SidesAre(op, "leaf", "sibling")'
        /\ SidesAre(op, "sibling", "leaf") => SidesAre(op, "sibling", "leaf")'
   BY <3>1, <3>2, <3>4, <3>6, <3>7 DEF SidesAre
  <3>9. i.p \in OnPath(NewKey(op, "leaf"))' BY <1>3, <3>1, <3>2, <3>7 DEF NewTree
  <3> QED BY <3>1, <3>2, <3>4, <3>5, <3>7, <3>8, <3>9 DEF NewTree
 <2> QED BY <2>1 DEF NewTrees
<1>10. MarksHold'
 <2>1. SUFFICES ASSUME NEW op \in Removes, Marked(op)', Linked(op)'
                PROVE Word(Info(op).gp)' = Update("DFLAG", op)
  BY DEF MarksHold
 <2>2. PICK i : i = Info(op) OBVIOUS
 <2>3. /\ Info(op)' = i /\ op \in Removes'
       /\ i.p \in Inner /\ i.gp \in Inner /\ i.l \in Leaves
  BY <1>1, <1>4, <2>2, SetsGrow, InfoTypes DEF Removes
 <2>4. Linked(op) BY <1>2, <2>1, <2>2, <2>3 DEF Linked
 <2>5. RemoveInv(op) /\ RemoveInv(op)' BY <2>3 DEF GlobalInv
 <2>6. Word(i.gp) = Update("DFLAG", op)
  <3>1. Marked(op) \/ MayMark(op) BY <2>1 DEF Grows
  <3>2. Marked(op) => Word(i.gp) = Update("DFLAG", op) BY <2>2, <2>4 DEF TreeInv, MarksHold
  <3>3. MayMark(op) => Word(i.gp) = Update("DFLAG", op) BY <2>2, <2>5 DEF RemoveInv, MayMark
  <3> QED BY <3>1, <3>2, <3>3
 <2>7. ~Misses(op) BY <2>2, <2>4, <2>6, NeverMisses
 <2>8. Other(op)' = Other(op) /\ Other(op) \in Nodes BY <1>1, <2>2, <2>3, NodeTypes DEF Other, Still, SameKids
 <2>9. Misses(op)' = Misses(op)
  <3>1. /\ tree'[i.gp].key = tree[i.gp].key /\ tree'[i.p].key = tree[i.p].key
        /\ tree'[Other(op)].key = tree[Other(op)].key
   BY <2>3, <2>8 DEF Still, Inner
  <3> QED BY <2>2, <2>3, <2>8, <3>1 DEF Misses
 <2>10. ~Cut(op)' BY <2>1, <2>7, <2>9 DEF Cut, Linked
 <2> QED BY <2>1, <2>5, <2>10 DEF RemoveInv
<1> QED BY <1>5, <1>7, <1>8, <1>9, <1>10 DEF TreeInv

-----------------------------------------------------------------------------

(* An add that waits somewhere else goes on waiting. *)
LEMMA SwapPending ==
 ASSUME GlobalInv, GlobalInv', Grows, UNCHANGED infos,
        NEW g \in Inner, NEW old, NEW new \in Nodes, Swaps(g, old, new),
        NEW X, SwapIsClean(g, old, new, X), NEW op \in Adds
 PROVE  /\ Info(op)' = Info(op) /\ op \in Adds'
        /\ Pending(op)' <=> Pending(op) /\ Info(op).p # g
<1>1. PICK p, l : p = Info(op).p /\ l = Info(op).l OBVIOUS
<1>2. /\ p \in Inner /\ op \in Adds' /\ Info(op)' = Info(op) /\ op \in InfoIds
      /\ AddInv(op) /\ AddInv(op)'
 BY <1>1, SetsGrow, InfoTypes DEF GlobalInv, Adds, Grows
<1>3. /\ p # g => Kids(p)' = Kids(p)
      /\ old \notin Kids(g)'
 BY <1>2, SwapKids DEF SwapIsClean
<1>4. Detached(op)' <=> l \notin Kids(p)' BY <1>1, <1>2 DEF Detached
<1>5. Detached(op) <=> l \notin Kids(p) BY <1>1 DEF Detached
<1>6. Pending(op) <=> ~Detached(op) BY <1>2 DEF AddInv, Pending, Replaced, Detached
<1>7. Pending(op)' <=> ~Detached(op)' BY <1>2 DEF AddInv, Pending, Replaced, Detached
<1>8. Detached(op) => Detached(op)' BY DEF Grows
<1>9. Pending(op) /\ p = g => l = old BY <1>1 DEF SwapIsClean
<1> QED BY <1>1, <1>2, <1>3, <1>4, <1>5, <1>6, <1>7, <1>8, <1>9

(* What a swap keeps besides the ranks and the order. *)
LEMMA SwapKeepsRest ==
 ASSUME GlobalInv, GlobalInv', TreeInv, Grows, UNCHANGED infos,
        NEW g \in Inner, NEW old, NEW new \in Nodes, Swaps(g, old, new),
        NEW X, SwapIsClean(g, old, new, X), \A n \in X \cap Inner : Dead(n)'
 PROVE  /\ RootIsTop' /\ LiveIsIn' /\ NewTrees' /\ MarksHold'
        /\ \A n \in Inner : Dead(n) => Dead(n)'
<1>1. Shape /\ KidsAreOrdered /\ Shape' /\ g \in InTree BY FlaggedIsIn DEF GlobalInv, TreeInv, SwapIsClean
<1>2. /\ Nodes' = Nodes /\ Inner' = Inner /\ Leaves' = Leaves
      /\ \A m \in Nodes : tree'[m].key = tree[m].key
      /\ \A m \in Inner : tree'[m].update = tree[m].update
      /\ \A m \in Inner : m # g => tree'[m].left = tree[m].left /\ tree'[m].right = tree[m].right
 BY DEF Swaps, SameKids, Word
<1>3. /\ InfoIds' = InfoIds /\ Adds' = Adds /\ Removes' = Removes
      /\ \A op \in InfoIds : Info(op)' = Info(op)
 BY <1>2, SameInfos DEF InfosStay
<1>4. \A m \in Inner : \A c \in Kids(m)' : (c = new /\ m = g) \/ c \in Kids(m) BY <1>1, SwapKids
<1>5. InTree \subseteq InTree' \cup X /\ new \in InTree' BY <1>1, SwapKeepsInTree DEF SwapIsClean
<1>6. RootIsTop'
 <2>1. \A n \in Inner' : Root \notin Kids(n)' BY <1>2, <1>4 DEF TreeInv, RootIsTop, SwapIsClean
 <2>2. \A op \in Removes' : Info(op)'.p # Root BY <1>3 DEF TreeInv, RootIsTop, Removes
 <2> QED BY <2>1, <2>2 DEF RootIsTop
<1>7. ASSUME NEW n \in Inner, Dead(n) PROVE Dead(n)' BY <1>4, <1>7, DeadStays DEF SwapIsClean
<1>8. LiveIsIn'
 <2>1. ASSUME NEW n \in Inner PROVE n \in InTree' \/ Dead(n)' \/ Waits(n)'
  <3>1. CASE n \in InTree BY <1>5, <3>1
  <3>2. CASE Dead(n) BY <1>7, <3>2
  <3>3. CASE Waits(n)
   <4>1. PICK op \in Adds : Pending(op) /\ n = Info(op).newInternal BY <3>3 DEF Waits
   <4>2. CASE Info(op).p = g BY <1>5, <4>1, <4>2 DEF SwapIsClean
   <4>3. CASE Info(op).p # g
    <5>1. op \in Adds' /\ Pending(op)' /\ n = Info(op)'.newInternal BY <4>1, <4>3, SwapPending
    <5> QED BY <5>1 DEF Waits
   <4> QED BY <4>2, <4>3
  <3> QED BY <3>1, <3>2, <3>3 DEF TreeInv, LiveIsIn
 <2> QED BY <1>2, <2>1 DEF LiveIsIn
<1>9. NewTrees'
 <2>1. ASSUME NEW op \in Adds, Pending(op)' PROVE NewTree(op)'
  <3>1. Pending(op) /\ NewTree(op) /\ Info(op)' = Info(op) /\ Info(op).p # g
   BY <2>1, SwapPending DEF TreeInv, NewTrees
  <3>2. PICK leaf, sib, i : leaf = NewNode(op, "leaf") /\ sib = NewNode(op, "sibling") /\ i = Info(op) OBVIOUS
  <3>3. leaf \in Leaves /\ sib \in Leaves /\ i.p \in Inner /\ i.newInternal \in Inner /\ i.l \in Leaves
   BY <1>1, <3>1, <3>2, InfoTypes DEF NewTree, Adds
  <3>4. \A n \in {leaf, sib, i.p, i.newInternal, i.l} : tree'[n].key = tree[n].key BY <1>2, <3>3 DEF Inner, Leaves
  <3>5. leaf \in Leaves' /\ sib \in Leaves' BY <1>2, <3>3
  <3>6. i.newInternal # g
   <4>1. Word(i.newInternal) = NullUpdate BY <3>1, <3>2 DEF Pending
   <4>2. NullUpdate.state = "CLEAN" BY DEF NullUpdate, Update
   <4>3. Word(g).state # "CLEAN" BY DEF SwapIsClean
   <4> QED BY <4>1, <4>2, <4>3
  <3>7. tree'[i.newInternal].left = tree[i.newInternal].left
        /\ tree'[i.newInternal].right = tree[i.newInternal].right
   BY <1>2, <3>3, <3>6
  <3>8. NewKey(op, "leaf")' = NewKey(op, "leaf") /\ NewKey(op, "sibling")' = NewKey(op, "sibling")
   BY <3>2, <3>4 DEF NewKey
  <3>9. /\ SidesAre(op, "leaf", "sibling") => SidesAre(op, "leaf", "sibling")'
        /\ SidesAre(op, "sibling", "leaf") => SidesAre(op, "sibling", "leaf")'
   BY <3>1, <3>2, <3>4, <3>7, <3>8 DEF SidesAre
  <3>10. PICK key : key = NewKey(op, "leaf") OBVIOUS
  <3>11. OnPath(key) \subseteq OnPath(key)' \cup X
   <4>1. \A x \in X : tree[x].internal => Child(tree, x, key) \in X \cup {new} BY DEF SwapIsClean, Child
   <4> QED BY <1>1, <4>1, SwapKeepsPath DEF SwapIsClean
  <3>12. i.p \in OnPath(key)' BY <3>1, <3>2, <3>10, <3>11 DEF NewTree, SwapIsClean
  <3>13. i.p \in OnPath(NewKey(op, "leaf"))'
   <4>1. OnPath(NewKey(op, "leaf"))' = OnPath(key)' BY <3>8, <3>10 DEF OnPath
   <4> QED BY <3>12, <4>1
  <3> QED BY <3>1, <3>2, <3>4, <3>5, <3>8, <3>9, <3>13 DEF NewTree
 <2> QED BY <1>3, <2>1 DEF NewTrees
<1>10. MarksHold'
 <2>1. SUFFICES ASSUME NEW op \in Removes, Marked(op)', Linked(op)'
                PROVE Word(Info(op).gp)' = Update("DFLAG", op)
  BY <1>3 DEF MarksHold
 <2>2. PICK i : i = Info(op) OBVIOUS
 <2>3. Info(op)' = i /\ i.p \in Inner /\ i.gp \in Inner BY <1>1, <1>3, <2>2, InfoTypes DEF Removes
 <2>4. Word(i.p)' = Word(i.p) /\ Word(i.gp)' = Word(i.gp) BY <1>2, <2>3 DEF Word
 <2>5. Word(i.p)' = Update("MARK", op) /\ i.p \in Kids(i.gp)' BY <2>1, <2>2, <2>3 DEF Marked, Linked, Word, Kids
 <2>6. Marked(op) /\ Word(i.p).state = "MARK" /\ Word(i.p).info = op BY <2>2, <2>4, <2>5 DEF Marked, Update
 <2>7. Linked(op)
  <3>1. CASE i.p = new BY <2>2, <2>3, <2>6, <3>1 DEF SwapIsClean, Dead, Linked
  <3>2. CASE i.p # new BY <1>4, <2>2, <2>3, <2>5, <3>2 DEF Linked
  <3> QED BY <3>1, <3>2
 <2>8. Word(i.gp) = Update("DFLAG", op) BY <2>2, <2>6, <2>7 DEF TreeInv, MarksHold
 <2> QED BY <2>2, <2>3, <2>4, <2>8 DEF Word
<1> QED BY <1>6, <1>7, <1>8, <1>9, <1>10

-----------------------------------------------------------------------------
(* The add that the CAS of HelpInsert is for. *)
LEMMA WaitingAdd ==
 ASSUME GlobalInv, TreeInv, NEW op \in Adds, Pending(op),
        NEW p, p = Info(op).p, NEW l, l = Info(op).l, NEW ni, ni = Info(op).newInternal,
        NEW leaf, leaf = NewNode(op, "leaf"), NEW sib, sib = NewNode(op, "sibling")
 PROVE  /\ p \in Inner /\ p \in InTree /\ p \in Nodes /\ l \in Kids(p) /\ l \in Leaves
        /\ ni \in Inner /\ ni \in Nodes /\ leaf \in Leaves /\ sib \in Leaves
        /\ {tree[ni].left, tree[ni].right} = {leaf, sib}
        /\ Below(tree, ni) = {ni, leaf, sib}
        /\ tree[ni].key \in {NewKey(op, "leaf"), tree[l].key}
        /\ SwapIsClean(p, l, ni, {l})
<1>1. /\ p \in Inner /\ l \in Leaves /\ ni \in Inner /\ p \in Nodes /\ ni \in Nodes
      /\ IsLinked(tree) /\ Nodes = DOMAIN tree /\ Root \in Inner
 BY InfoTypes, NodeTypes, TreeIsLinked DEF GlobalInv, Adds, Shape
<1>2. /\ Word(p) = Update("IFLAG", op) /\ l \in Kids(p) /\ Word(ni) = NullUpdate
      /\ ni = NewNode(op, "internal")
 BY DEF Pending, GlobalInv, AddInv
<1>3. /\ Word(p).state = "IFLAG" /\ Word(p).info = op /\ Word(ni).state = "CLEAN" BY <1>2 DEF Update, NullUpdate
<1>4. p \in InTree BY <1>1, <1>3, FlaggedIsIn DEF TreeInv
<1>5. NewTree(op) BY DEF TreeInv, NewTrees
<1>6. /\ leaf \in Leaves /\ sib \in Leaves /\ {tree[ni].left, tree[ni].right} = {leaf, sib}
      /\ tree[ni].key \in {NewKey(op, "leaf"), tree[l].key}
 BY <1>5 DEF NewTree, SidesAre
<1>7. Below(tree, ni) = {ni, leaf, sib}
 <2>1. \A x \in Leaves : x \in Nodes /\ ~tree[x].internal BY DEF Leaves
 <2>2. Below(tree, leaf) = {leaf} /\ Below(tree, sib) = {sib} BY <1>1, <1>6, <2>1, BelowUnfolds
 <2>3. Below(tree, ni) = {ni} \cup Below(tree, tree[ni].left) \cup Below(tree, tree[ni].right)
  BY <1>1, BelowUnfolds DEF Inner
 <2>4. \/ tree[ni].left = leaf /\ tree[ni].right = sib
       \/ tree[ni].left = sib /\ tree[ni].right = leaf
  BY <1>5 DEF NewTree, SidesAre
 <2> QED BY <2>2, <2>3, <2>4
<1>8. SwapIsClean(p, l, ni, {l})
 <2>1. l \notin Inner /\ l # p /\ l # Root /\ l \in Nodes /\ ~tree[l].internal /\ l # ni BY <1>1 DEF Inner, Leaves
 <2>2. ni # Root BY <1>2, NoNodeIsNoNode DEF GlobalInv
 <2>3. ni # p BY <1>3
 <2>4. ~Dead(ni) BY <1>3 DEF Dead
 <2>5. ASSUME NEW o \in Adds, Pending(o)
       PROVE Info(o).p \notin {l} /\ (Info(o).p = p => o = op)
  <3>1. Info(o).p \in Inner BY InfoTypes DEF GlobalInv, Adds
  <3>2. Word(Info(o).p) = Update("IFLAG", o) BY <2>5 DEF Pending
  <3>3. Update("IFLAG", o).info = o BY DEF Update
  <3> QED BY <1>3, <2>1, <3>1, <3>2, <3>3
 <2> QED BY <1>3, <2>1, <2>2, <2>3, <2>4, <2>5 DEF SwapIsClean
<1> QED BY <1>1, <1>2, <1>4, <1>6, <1>7, <1>8

(* The leaf is replaced by an internal node with two leaves. *)
LEMMA InsertKeepsTree ==
 ASSUME GlobalInv, GlobalInv', TreeInv, Grows, UNCHANGED infos, NEW op \in Adds, Pending(op),
        Swaps(Info(op).p, Info(op).l, Info(op).newInternal)
 PROVE TreeInv'
<1>1. PICK p, l, ni : p = Info(op).p /\ l = Info(op).l /\ ni = Info(op).newInternal OBVIOUS
<1>2. PICK leaf, sib : leaf = NewNode(op, "leaf") /\ sib = NewNode(op, "sibling") OBVIOUS
<1>3. PICK key, oldKey : key = NewKey(op, "leaf") /\ oldKey = tree[l].key OBVIOUS
<1>4. /\ p \in Inner /\ p \in InTree /\ p \in Nodes /\ l \in Kids(p) /\ l \in Leaves
      /\ ni \in Inner /\ ni \in Nodes /\ leaf \in Leaves /\ sib \in Leaves
      /\ {tree[ni].left, tree[ni].right} = {leaf, sib}
      /\ Below(tree, ni) = {ni, leaf, sib}
      /\ tree[ni].key \in {key, oldKey}
      /\ SwapIsClean(p, l, ni, {l})
 BY <1>1, <1>2, <1>3, WaitingAdd
<1>5. Swaps(p, l, ni) BY <1>1
<1>6. Shape /\ KidsAreOrdered BY DEF GlobalInv
<1>7. /\ IsLinked(tree) /\ IsLinked(tree') /\ DOMAIN tree = Nodes /\ DOMAIN tree' = Nodes
      /\ \A m \in Nodes : tree'[m].internal = tree[m].internal /\ tree'[m].key = tree[m].key
      /\ \A m \in Inner : m # p => tree'[m].left = tree[m].left /\ tree'[m].right = tree[m].right
      /\ {tree'[p].left, tree'[p].right} \subseteq {tree[p].left, tree[p].right, ni}
 BY <1>4, <1>5, <1>6, SwapChildren
<1>8. Nodes' = Nodes /\ Inner' = Inner /\ Leaves' = Leaves BY <1>5 DEF Swaps
<1>9. Ranked'
 <2>1. PICK f : Ranks(tree, f) /\ \A o \in Adds : f[Info(o).newInternal] < f[Info(o).p] BY DEF TreeInv, Ranked
 <2>2. f[ni] < f[p] BY <1>1, <2>1
 <2>3. ASSUME NEW n \in Nodes, tree'[n].internal
       PROVE f[tree'[n].left] < f[n] /\ f[tree'[n].right] < f[n]
  <3>1. tree[n].internal /\ n \in Inner BY <1>7, <2>3 DEF Inner
  <3>2. f[tree[n].left] < f[n] /\ f[tree[n].right] < f[n] BY <1>7, <2>1, <3>1 DEF Ranks
  <3> QED BY <1>7, <2>2, <3>1, <3>2
 <2>4. Ranks(tree', f) BY <1>7, <2>1, <2>3 DEF Ranks
 <2>5. \A o \in Adds' : o \in Adds /\ Info(o)' = Info(o) BY <1>8, SameInfos DEF InfosStay, Adds
 <2>6. \A o \in Adds' : f[Info(o)'.newInternal] < f[Info(o)'.p] BY <2>1, <2>5
 <2> QED BY <2>4, <2>6 DEF Ranked
<1>10. NewTree(op) /\ key \in Int /\ oldKey \in Int
 <2>1. NewTree(op) BY DEF TreeInv, NewTrees
 <2> QED BY <1>3, <1>4, <2>1, NodeTypes, KeysAreIntegers DEF GlobalInv, NewTree, Leaves
<1>11. \A m \in {ni, leaf, sib} : m \in Nodes /\ tree[m].key \in {key, oldKey}
 BY <1>1, <1>2, <1>3, <1>4, <1>10 DEF NewTree, NewKey, Leaves
<1>12. ASSUME NEW x \in Nodes, NEW m \in Below(tree', x)
       PROVE  /\ m \in Nodes
              /\ m \in Below(tree, x) \/ (p \in Below(tree, x) /\ m \in {ni, leaf, sib})
 BY <1>4, <1>5, <1>6, SwapBelow
<1>13. ASSUME NEW n \in InTree', n \in Inner
       PROVE KeysAreOrdered(n)'
 <2>1. n \in InTree \/ n = ni
  <3>1. n \in InTree \/ n \in {ni, leaf, sib}
   <4>1. Root \in Nodes /\ n \in Below(tree', Root) BY <1>6, <1>13 DEF Shape, Inner, InTree
   <4> QED BY <1>12, <4>1 DEF InTree
  <3> QED BY <1>4, <1>13, <3>1 DEF Inner, Leaves
 <2>2. CASE n = ni
  <3>1. ni # p /\ tree'[ni].key = tree[ni].key
        /\ tree'[ni].left = tree[ni].left /\ tree'[ni].right = tree[ni].right
   BY <1>4, <1>7 DEF SwapIsClean
  <3>2. Below(tree', leaf) = {leaf} /\ Below(tree', sib) = {sib} BY <1>4, <1>7, BelowUnfolds DEF Leaves
  <3>3. tree'[leaf].key = tree[leaf].key /\ tree'[sib].key = tree[sib].key BY <1>4, <1>7 DEF Leaves
  <3>4. tree[leaf].key = key /\ tree[sib].key = oldKey BY <1>1, <1>2, <1>3, <1>10 DEF NewTree, NewKey
  <3>5. \/ /\ tree[ni].left = leaf /\ tree[ni].right = sib
           /\ key < oldKey /\ tree[ni].key = oldKey
        \/ /\ tree[ni].left = sib /\ tree[ni].right = leaf
           /\ oldKey < key /\ tree[ni].key = key
   BY <1>1, <1>2, <1>3, <1>10 DEF NewTree, SidesAre
  <3>6. \A m \in Below(tree', tree'[ni].left) : tree'[m].key < tree'[ni].key BY <3>1, <3>2, <3>3, <3>4, <3>5
  <3>7. \A m \in Below(tree', tree'[ni].right) : tree'[ni].key <= tree'[m].key
   BY <1>10, <3>1, <3>2, <3>3, <3>4, <3>5
  <3> QED BY <2>2, <3>6, <3>7 DEF KeysAreOrdered
 <2>3. CASE n \in InTree
  <3>1. PICK k : k = tree[n].key OBVIOUS
  <3>2. KeysAreOrdered(n) /\ k \in Int /\ n \in Nodes
   BY <1>6, <1>13, <2>3, <3>1, NodeTypes, KeysAreIntegers DEF TreeInv, Ordered, Inner
  <3>3. tree[n].left \in Nodes /\ tree[n].right \in Nodes BY <1>6, <1>13, NodeTypes
  <3>4. \A x \in Nodes : p \in Below(tree, x) => l \in Below(tree, x)
   BY <1>4, <1>7, BelowIsLeast DEF BelowClosed, Kids, Inner
  <3>5. /\ p \in Below(tree, tree[n].left) => key < k /\ oldKey < k
        /\ p \in Below(tree, tree[n].right) => k <= key /\ k <= oldKey
   <4>1. p \in OnPath(key) BY <1>1, <1>3, <1>10 DEF NewTree
   <4>2. /\ p \in Below(tree, tree[n].left) => key < k
         /\ p \in Below(tree, tree[n].right) => ~(key < k)
    BY <1>13, <2>3, <3>1, <4>1, PathLeadsThrough DEF TreeInv
   <4>3. /\ p \in Below(tree, tree[n].left) => oldKey < k
         /\ p \in Below(tree, tree[n].right) => k <= oldKey
    BY <1>3, <3>1, <3>2, <3>3, <3>4 DEF KeysAreOrdered
   <4> QED BY <1>10, <3>2, <4>2, <4>3
  <3>6. n = p => /\ tree[n].left = l => key < k /\ oldKey < k
                 /\ tree[n].right = l => k <= key /\ k <= oldKey
   <4>1. key < tree[p].key <=> oldKey < tree[p].key BY <1>1, <1>3, <1>10 DEF NewTree
   <4>2. l \in Below(tree, l) BY <1>4, <1>7, BelowIsLeast DEF Leaves
   <4> QED BY <1>3, <1>10, <3>1, <3>2, <4>1, <4>2 DEF KeysAreOrdered
  <3>7. \/ tree'[n].left = tree[n].left
        \/ n = p /\ tree[n].left = l /\ tree'[n].left = ni
   BY <1>5, <1>7, <1>13 DEF Swaps
  <3>8. \/ tree'[n].right = tree[n].right
        \/ n = p /\ tree[n].right = l /\ tree'[n].right = ni
   BY <1>5, <1>7, <1>13 DEF Swaps
  <3>9. ASSUME NEW m \in Below(tree', tree'[n].left) PROVE tree'[m].key < tree'[n].key
   <4>1. CASE tree'[n].left = tree[n].left
    <5>1. m \in Nodes /\ (m \in Below(tree, tree[n].left)
                          \/ (p \in Below(tree, tree[n].left) /\ m \in {ni, leaf, sib}))
     BY <1>12, <3>3, <3>9, <4>1
    <5>2. tree[m].key < k BY <1>11, <3>1, <3>2, <3>5, <5>1 DEF KeysAreOrdered
    <5> QED BY <1>7, <3>1, <3>2, <5>1, <5>2
   <4>2. CASE n = p /\ tree[n].left = l /\ tree'[n].left = ni
    <5>1. m \in {ni, leaf, sib} BY <1>4, <1>12, <3>9, <4>2
    <5>2. tree[m].key < k /\ m \in Nodes BY <1>11, <3>6, <4>2, <5>1
    <5> QED BY <1>7, <3>1, <3>2, <5>2
   <4> QED BY <3>7, <4>1, <4>2
  <3>10. ASSUME NEW m \in Below(tree', tree'[n].right) PROVE tree'[n].key <= tree'[m].key
   <4>1. CASE tree'[n].right = tree[n].right
    <5>1. m \in Nodes /\ (m \in Below(tree, tree[n].right)
                          \/ (p \in Below(tree, tree[n].right) /\ m \in {ni, leaf, sib}))
     BY <1>12, <3>3, <3>10, <4>1
    <5>2. k <= tree[m].key BY <1>11, <3>1, <3>2, <3>5, <5>1 DEF KeysAreOrdered
    <5> QED BY <1>7, <3>1, <3>2, <5>1, <5>2
   <4>2. CASE n = p /\ tree[n].right = l /\ tree'[n].right = ni
    <5>1. m \in {ni, leaf, sib} BY <1>4, <1>12, <3>10, <4>2
    <5>2. k <= tree[m].key /\ m \in Nodes BY <1>11, <3>6, <4>2, <5>1
    <5> QED BY <1>7, <3>1, <3>2, <5>2
   <4> QED BY <3>8, <4>1, <4>2
  <3> QED BY <3>9, <3>10 DEF KeysAreOrdered
 <2> QED BY <2>1, <2>2, <2>3
<1>14. Ordered' BY <1>8, <1>13 DEF Ordered
<1>15. RootIsTop' /\ LiveIsIn' /\ NewTrees' /\ MarksHold'
 <2>1. \A n \in {l} \cap Inner : Dead(n)' BY <1>4 DEF Inner, Leaves
 <2> QED BY <1>4, <1>5, <2>1, SwapKeepsRest
<1> QED BY <1>9, <1>14, <1>15 DEF TreeInv

-----------------------------------------------------------------------------

(* That is what a remove finds when it has marked and not yet unlinked. *)
LEMMA MarkedRemove ==
 ASSUME GlobalInv, TreeInv, NEW op \in Removes, Marked(op), Linked(op)
 PROVE RemoveShape(Info(op).gp, Info(op).p, Info(op).l, Other(op))
<1>1. PICK g, p, l, c : g = Info(op).gp /\ p = Info(op).p /\ l = Info(op).l /\ c = Other(op) OBVIOUS
<1>2. /\ g \in Inner /\ p \in Inner /\ l \in Leaves
      /\ g \in Nodes /\ p \in Nodes /\ l \in Nodes
      /\ IsLinked(tree) /\ Nodes = DOMAIN tree /\ Root \in Inner
 BY <1>1, InfoTypes, NodeTypes, TreeIsLinked DEF GlobalInv, Removes, Shape
<1>3. /\ Word(g) = Update("DFLAG", op) /\ Word(p) = Update("MARK", op)
      /\ p \in Kids(g) /\ l \in Kids(p) /\ tree[l].key \in Keys
 BY <1>1 DEF TreeInv, MarksHold, Marked, Linked, GlobalInv, RemoveInv
<1>4. Word(g).state = "DFLAG" /\ Word(p).state = "MARK" BY <1>3 DEF Update
<1>5. g \in InTree /\ p \in InTree
 <2>1. g \in InTree BY <1>2, <1>4, FlaggedIsIn DEF TreeInv
 <2> QED BY <1>2, <1>3, <2>1, BelowIsLeast DEF InTree, BelowClosed, Kids, Inner
<1>6. tree[p].left # tree[p].right /\ tree[p].left \in Nodes /\ tree[p].right \in Nodes
 <2>1. tree[p].left \in Nodes /\ tree[p].right \in Nodes BY <1>2, NodeTypes DEF GlobalInv
 <2>2. tree[tree[p].left].key < tree[p].key /\ tree[p].key <= tree[tree[p].right].key
  BY <1>2 DEF GlobalInv, KidsAreOrdered
 <2>3. tree[tree[p].left].key \in Int /\ tree[p].key \in Int BY <1>2, <2>1, NodeTypes, KeysAreIntegers DEF GlobalInv
 <2> QED BY <2>1, <2>2, <2>3
<1>7. /\ c \in Nodes /\ l # c
      /\ \/ tree[p].left = l /\ tree[p].right = c
         \/ tree[p].left = c /\ tree[p].right = l
 BY <1>1, <1>3, <1>6 DEF Other, Kids
<1>8. c \in Below(tree, p) /\ Below(tree, c) \subseteq Below(tree, p)
 BY <1>2, <1>7, BelowIsLeast, BelowGoesOn DEF BelowClosed, Inner
<1>9. PICK f : Ranks(tree, f) BY DEF TreeInv, Ranked
<1>10. f[c] < f[p] /\ f[p] < f[g] /\ f[c] \in Nat /\ f[p] \in Nat /\ f[g] \in Nat
 BY <1>2, <1>3, <1>7, <1>9 DEF Ranks, Kids, Inner
<1>11. g \notin Below(tree, p)
 <2>1. PICK S : S = {x \in Nodes : f[x] <= f[p]} OBVIOUS
 <2>2. ASSUME NEW x \in S, tree[x].internal PROVE tree[x].left \in S /\ tree[x].right \in S
  <3>1. x \in Nodes /\ f[x] <= f[p] /\ tree[x].left \in Nodes /\ tree[x].right \in Nodes
   BY <1>2, <2>1, <2>2 DEF IsLinked
  <3>2. f[tree[x].left] < f[x] /\ f[tree[x].right] < f[x]
        /\ f[x] \in Nat /\ f[tree[x].left] \in Nat /\ f[tree[x].right] \in Nat
   BY <1>2, <1>9, <2>2, <3>1 DEF Ranks
  <3> QED BY <1>10, <2>1, <3>1, <3>2
 <2>3. p \in S /\ g \notin S /\ S \in SUBSET Nodes BY <1>2, <1>10, <2>1
 <2>4. BelowClosed(tree, S) BY <2>2 DEF BelowClosed
 <2> QED BY <1>2, <2>3, <2>4, BelowIsLeast
<1>12. SwapIsClean(g, p, c, {p, l})
 <2>1. g # p /\ g # l /\ p # Root /\ l # Root /\ ~tree[l].internal /\ l # p
  BY <1>1, <1>2, <1>4 DEF TreeInv, RootIsTop, Inner, Leaves
 <2>2. p # c /\ c # g BY <1>10
 <2>3. c # Root BY <1>2, <1>7 DEF TreeInv, RootIsTop, Kids
 <2>4. c \in Inner => ~Dead(c)
  <3>1. c \in InTree
   <4>1. Root \in DOMAIN tree /\ p \in Below(tree, Root) BY <1>2, <1>5 DEF InTree, Inner
   <4>2. Below(tree, p) \subseteq Below(tree, Root) BY <1>2, <4>1, BelowGoesOn
   <4> QED BY <1>8, <4>2 DEF InTree
  <3> QED BY <3>1, InTreeIsLive DEF TreeInv
 <2>5. ASSUME NEW o \in Adds, Pending(o)
       PROVE Info(o).p \notin {p, l} /\ Info(o).p # g
  <3>1. Info(o).p \in Inner BY InfoTypes DEF GlobalInv, Adds
  <3>2. Word(Info(o).p) = Update("IFLAG", o) BY <2>5 DEF Pending
  <3>3. Update("IFLAG", o).state = "IFLAG" BY DEF Update
  <3> QED BY <1>2, <1>4, <3>1, <3>2, <3>3 DEF Inner, Leaves
 <2>6. \A x \in {p, l} : tree[x].internal => {tree[x].left, tree[x].right} \subseteq {p, l} \cup {c} BY <1>7, <2>1
 <2> QED BY <1>2, <1>4, <2>1, <2>2, <2>3, <2>4, <2>5, <2>6 DEF SwapIsClean
<1> QED BY <1>1, <1>2, <1>3, <1>5, <1>7, <1>8, <1>11, <1>12 DEF RemoveShape

(* The marked parent and its leaf are cut out. *)
LEMMA UnlinkKeepsTree ==
 ASSUME GlobalInv, GlobalInv', TreeInv, Grows, UNCHANGED infos,
        NEW op \in Removes, Marked(op), Linked(op), Swaps(Info(op).gp, Info(op).p, Other(op))
 PROVE TreeInv' /\ Dead(Info(op).p)'
<1>1. PICK g, p, l, c : g = Info(op).gp /\ p = Info(op).p /\ l = Info(op).l /\ c = Other(op) OBVIOUS
<1>2. /\ g \in Inner /\ g \in InTree /\ g \in Nodes /\ p \in Kids(g)
      /\ p \in Inner /\ p \in InTree /\ p \in Nodes
      /\ l \in Leaves /\ l \in Nodes /\ c \in Nodes /\ l # c
      /\ \/ tree[p].left = l /\ tree[p].right = c
         \/ tree[p].left = c /\ tree[p].right = l
      /\ c \in Below(tree, p) /\ Below(tree, c) \subseteq Below(tree, p)
      /\ SwapIsClean(g, p, c, {p, l})
 BY <1>1, MarkedRemove DEF RemoveShape
<1>3. Swaps(g, p, c) BY <1>1
<1>4. Shape /\ KidsAreOrdered BY DEF GlobalInv
<1>5. /\ IsLinked(tree) /\ IsLinked(tree') /\ DOMAIN tree = Nodes /\ DOMAIN tree' = Nodes
      /\ \A m \in Nodes : tree'[m].internal = tree[m].internal /\ tree'[m].key = tree[m].key
      /\ \A m \in Inner : m # g => tree'[m].left = tree[m].left /\ tree'[m].right = tree[m].right
      /\ {tree'[g].left, tree'[g].right} \subseteq {tree[g].left, tree[g].right, c}
 BY <1>2, <1>3, <1>4, SwapChildren
<1>6. Nodes' = Nodes /\ Inner' = Inner /\ Leaves' = Leaves BY <1>3 DEF Swaps
<1>7. Ranked'
 <2>1. PICK f : Ranks(tree, f) /\ \A o \in Adds : f[Info(o).newInternal] < f[Info(o).p] BY DEF TreeInv, Ranked
 <2>2. f[c] < f[g]
  <3>1. f[c] < f[p] /\ f[p] < f[g] /\ f[c] \in Nat /\ f[p] \in Nat /\ f[g] \in Nat
   BY <1>2, <1>5, <2>1 DEF Ranks, Kids, Inner
  <3> QED BY <3>1
 <2>3. ASSUME NEW n \in Nodes, tree'[n].internal
       PROVE f[tree'[n].left] < f[n] /\ f[tree'[n].right] < f[n]
  <3>1. tree[n].internal /\ n \in Inner BY <1>5, <2>3 DEF Inner
  <3>2. f[tree[n].left] < f[n] /\ f[tree[n].right] < f[n] BY <1>5, <2>1, <3>1 DEF Ranks
  <3> QED BY <1>5, <2>2, <3>1, <3>2
 <2>4. Ranks(tree', f) BY <1>5, <2>1, <2>3 DEF Ranks
 <2>5. \A o \in Adds' : o \in Adds /\ Info(o)' = Info(o) BY <1>6, SameInfos DEF InfosStay, Adds
 <2>6. \A o \in Adds' : f[Info(o)'.newInternal] < f[Info(o)'.p] BY <2>1, <2>5
 <2> QED BY <2>4, <2>6 DEF Ranked
<1>8. ASSUME NEW x \in Nodes
      PROVE Below(tree', x) \subseteq Below(tree, x) /\ Below(tree', x) \subseteq Nodes
 <2>1. /\ Below(tree', x) \subseteq Nodes
       /\ \A m \in Below(tree', x) :
            m \in Below(tree, x) \/ (g \in Below(tree, x) /\ m \in Below(tree, c))
  BY <1>2, <1>3, <1>4, SwapBelow
 <2>2. g \in Below(tree, x) => Below(tree, c) \subseteq Below(tree, x)
  <3>1. g \in Below(tree, x) => p \in Below(tree, x) BY <1>2, <1>5, BelowIsLeast DEF BelowClosed, Kids, Inner
  <3> QED BY <1>2, <1>5, <3>1, BelowGoesOn
 <2> QED BY <2>1, <2>2
<1>9. ASSUME NEW n \in InTree', n \in Inner
      PROVE KeysAreOrdered(n)'
 <2>1. n \in InTree
  <3>1. Root \in Nodes /\ n \in Below(tree', Root) BY <1>4, <1>9 DEF Shape, Inner, InTree
  <3> QED BY <1>8, <3>1 DEF InTree
 <2>2. KeysAreOrdered(n) /\ n \in Nodes /\ tree'[n].key = tree[n].key
  BY <1>4, <1>5, <1>9, <2>1, NodeTypes DEF TreeInv, Ordered
 <2>3. tree[n].left \in Nodes /\ tree[n].right \in Nodes BY <1>4, <1>9, NodeTypes
 <2>4. /\ \/ tree'[n].left = tree[n].left
          \/ tree[n].left = p /\ tree'[n].left = c
       /\ \/ tree'[n].right = tree[n].right
          \/ tree[n].right = p /\ tree'[n].right = c
  BY <1>3, <1>5, <1>9 DEF Swaps
 <2>5. /\ Below(tree', tree'[n].left) \subseteq Below(tree, tree[n].left)
       /\ Below(tree', tree'[n].right) \subseteq Below(tree, tree[n].right)
       /\ Below(tree', tree'[n].left) \subseteq Nodes /\ Below(tree', tree'[n].right) \subseteq Nodes
  BY <1>2, <1>8, <2>3, <2>4
 <2>6. \A m \in Below(tree', tree'[n].left) : tree'[m].key < tree'[n].key BY <1>5, <2>2, <2>5 DEF KeysAreOrdered
 <2>7. \A m \in Below(tree', tree'[n].right) : tree'[n].key <= tree'[m].key BY <1>5, <2>2, <2>5 DEF KeysAreOrdered
 <2> QED BY <2>6, <2>7 DEF KeysAreOrdered
<1>10. Ordered' BY <1>6, <1>9 DEF Ordered
<1>11. Dead(p)'
 <2>1. tree'[p].update = tree[p].update BY <1>2, <1>3 DEF Swaps, Word
 <2>2. tree[p].update.state = "MARK" /\ tree[p].update.info = op BY <1>1 DEF Marked, Word, Update
 <2>3. Info(op)' = Info(op) BY DEF Info
 <2>4. p \notin Kids(g)' BY <1>2, <1>3, SwapKids DEF SwapIsClean
 <2> QED BY <1>1, <2>1, <2>2, <2>3, <2>4 DEF Dead, Word, Kids
<1>12. RootIsTop' /\ LiveIsIn' /\ NewTrees' /\ MarksHold'
 <2>1. \A n \in {p, l} \cap Inner : Dead(n)' BY <1>2, <1>11 DEF Inner, Leaves
 <2> QED BY <1>2, <1>3, <2>1, SwapKeepsRest
<1>13. Dead(Info(op).p)' BY <1>1, <1>11, Zenon DEF Info, Dead
<1> QED BY <1>7, <1>10, <1>12, <1>13 DEF TreeInv

-----------------------------------------------------------------------------
(* The steps that change no child: the tree stays what it is. *)

(* An Info is that of an add or that of a remove, and stays so. *)
LEMMA KindsDiffer ==
    Adds \cap Removes = {} /\ Adds' \cap Removes' = {}
<1>1. /\ \A r \in AddInfo : "gp" \notin DOMAIN r
      /\ \A r \in AddInfo' : "gp" \notin DOMAIN r
 BY DEF AddInfo
<1>2. /\ \A r \in RemoveInfo : "gp" \in DOMAIN r
      /\ \A r \in RemoveInfo' : "gp" \in DOMAIN r
 BY DEF RemoveInfo
<1> QED BY <1>1, <1>2 DEF Adds, Removes

(* The same of the Infos after a step. *)
LEMMA NextInfoTypes ==
 ASSUME Shape', NEW op \in InfoIds'
 PROVE op \in Adds' \cup Removes'
<1>0. PICK t \in Threads : \E i \in 1 .. Len(infos'[t]) : op = <<t, i>> BY DEF InfoIds
<1>1. PICK i \in 1 .. Len(infos'[t]) : op = <<t, i>> BY <1>0
<1>2. Info(op)' = infos'[t][i] BY <1>1 DEF Info
<1>3. infos'[t] \in Seq(AddInfo' \cup RemoveInfo') BY DEF Shape
<1>4. Info(op)' \in AddInfo' \cup RemoveInfo' BY <1>1, <1>2, <1>3
<1> QED BY <1>4 DEF Adds, Removes

(* No step changes the kind of an Info. *)
LEMMA KindStays ==
 ASSUME GlobalInv, Grows, NEW op \in InfoIds
 PROVE  /\ op \in Adds' <=> op \in Adds
        /\ op \in Removes' <=> op \in Removes
        /\ Info(op)' = Info(op)
<1>1. op \in Adds \cup Removes /\ Adds \subseteq Adds' /\ Removes \subseteq Removes'
 BY InfoTypes, SetsGrow DEF GlobalInv
<1>2. Adds' \cap Removes' = {} BY KindsDiffer
<1>3. Info(op)' = Info(op) BY DEF Grows
<1> QED BY <1>1, <1>2, <1>3

(* The ranks stay where no node is new. *)
LEMMA StillRanks ==
 ASSUME GlobalInv, GlobalInv', Grows, Still, Ranked, Nodes' = Nodes, Adds' \subseteq Adds
 PROVE Ranked'
<1>1. PICK f : Ranks(tree, f) /\ \A op \in Adds : f[Info(op).newInternal] < f[Info(op).p] BY DEF Ranked
<1>2. DOMAIN tree' = DOMAIN tree BY DEF Nodes
<1>3. ASSUME NEW n \in DOMAIN tree', tree'[n].internal
      PROVE f[tree'[n].left] < f[n] /\ f[tree'[n].right] < f[n]
 <2>1. n \in DOMAIN tree /\ tree[n].internal BY <1>2, <1>3 DEF Still, Nodes
 <2>2. tree'[n].left = tree[n].left /\ tree'[n].right = tree[n].right BY <2>1 DEF Still, SameKids, Inner, Nodes
 <2> QED BY <1>1, <2>1, <2>2 DEF Ranks
<1>4. Ranks(tree', f) BY <1>1, <1>2, <1>3 DEF Ranks
<1>5. ASSUME NEW op \in Adds' PROVE f[Info(op)'.newInternal] < f[Info(op)'.p]
 <2>1. op \in Adds /\ op \in InfoIds BY <1>5 DEF Adds
 <2>2. Info(op)' = Info(op) BY <2>1 DEF Grows
 <2> QED BY <1>1, <2>1, <2>2
<1> QED BY <1>4, <1>5 DEF Ranked

(* A step that starts no operation. *)
LEMMA CalmKeepsTree ==
 ASSUME GlobalInv, GlobalInv', TreeInv, Grows, Still, Nodes' = Nodes, InfoIds' = InfoIds
 PROVE TreeInv'
<1>1. Adds' = Adds /\ Removes' = Removes
 <2>1. Adds' \subseteq InfoIds' /\ Adds \subseteq InfoIds
       /\ Removes' \subseteq InfoIds' /\ Removes \subseteq InfoIds
  BY DEF Adds, Removes
 <2> QED BY <2>1, KindStays
<1>2. Inner' = Inner
 <2>1. \A n \in Nodes : tree'[n].internal = tree[n].internal BY DEF Still
 <2> QED BY <2>1 DEF Inner
<1>3. Ranked' BY <1>1, StillRanks DEF TreeInv
<1> QED BY <1>1, <1>2, <1>3, StillKeepsTree

(* The flag of a remove. *)
LEMMA RemoveFlagTree ==
 ASSUME NBBSTInv, GlobalInv', TreeInv, Grows, NEW t \in Threads, RemoveFlags(t), NEW op, op = NewInfo(t)
 PROVE  /\ Still /\ TreeInv'
        /\ op \in Removes' /\ ~Marked(op)'
        /\ tree'[Info(op)'.l].key = call[t].key
        /\ InfoIds' = InfoIds \cup {op}
<1>1. PICK s, g : s = search[t] /\ g = s.gp OBVIOUS
<1>2. PICK rec : rec = [gp |-> g, p |-> s.p, l |-> s.l, pupdate |-> s.pupdate] OBVIOUS
<1>3. /\ pc[t] = "flag" /\ call[t].op = "remove" /\ SetUpdate(g, Update("DFLAG", op))
      /\ infos' = [infos EXCEPT ![t] = Append(@, rec)]
 BY <1>1, <1>2 DEF RemoveFlags
<1>4. AtNode(s) /\ AtLeaf(s, call[t]) BY <1>1, <1>3 DEF NBBSTInv, ThreadInv
<1>5. g \in Inner /\ s.p # Root BY <1>1, <1>3, <1>4 DEF AtNode, AtLeaf
<1>6. Shape /\ GlobalInv BY DEF NBBSTInv, GlobalInv
<1>7. /\ InfoIds' = InfoIds \cup {op} /\ op \notin InfoIds /\ Info(op)' = rec
      /\ \A x \in InfoIds : Info(x)' = Info(x)
 BY <1>1, <1>3, <1>6, NewInfoIsNew
<1>8. /\ Nodes' = Nodes /\ Inner' = Inner /\ OnlyWord(g, Update("DFLAG", op))
 <2>1. InfosStay BY <1>7 DEF InfosStay
 <2> QED BY <1>3, <1>5, <1>6, <2>1, SetsWord
<1>9. Still BY <1>8 DEF OnlyWord, Still
<1>10. op \in Removes'
 <2>1. op \in (Adds \cup Removes)' BY <1>7, NextInfoTypes DEF GlobalInv
 <2>2. op \notin Adds'
  <3>1. "gp" \in DOMAIN rec BY <1>2
  <3>2. \A r \in AddInfo' : "gp" \notin DOMAIN r BY DEF AddInfo
  <3> QED BY <1>7, <3>1, <3>2 DEF Adds
 <2> QED BY <2>1, <2>2
<1>11. \A o \in Adds' : o \in Adds
 <2>1. Adds' \cap Removes' = {} /\ Adds' \subseteq InfoIds' BY KindsDiffer DEF Adds
 <2> QED BY <1>6, <1>7, <1>10, <2>1, KindStays
<1>12. \A o \in Removes' : o \in Removes \/ o = op
 <2>1. Removes' \subseteq InfoIds' BY DEF Removes
 <2> QED BY <1>6, <1>7, <2>1, KindStays
<1>13. Info(op)'.p # Root /\ Word(Info(op).gp)' = Update("DFLAG", op)
 <2>1. Info(op)'.p = s.p /\ Info(op)'.gp = g BY <1>2, <1>7
 <2>2. tree'[g].update = Update("DFLAG", op) BY <1>5, <1>8 DEF OnlyWord, Word
 <2>3. Info(op)'.p # Root BY <1>5, <2>1
 <2> QED BY <2>1, <2>2, <2>3 DEF Word
<1>14. Ranked'
 <2>1. Adds' \subseteq Adds BY <1>11
 <2> QED BY <1>6, <1>8, <1>9, <2>1, StillRanks DEF TreeInv
<1>15. TreeInv'
 <2>1. \A n \in Inner' : n \in Inner BY <1>8
 <2>2. \A o \in Removes' : o \in Removes \/ (Info(o)'.p # Root /\ Word(Info(o).gp)' = Update("DFLAG", o))
  BY <1>12, <1>13
 <2> QED BY <1>6, <1>9, <1>11, <1>14, <2>1, <2>2, StillKeepsTree
<1>16. Info(op)'.p = s.p /\ Info(op)'.l = s.l BY <1>2, <1>7
<1>17. tree'[s.l].key = call[t].key
 <2>1. s.l \in Nodes /\ tree[s.l].key = call[t].key BY <1>3, <1>4, <1>6, NodeTypes DEF AtLeaf
 <2> QED BY <2>1 DEF Grows
<1>18. tree'[s.p].update # Update("MARK", op)
 <2>1. s.p \in Inner /\ Word(s.p) \in Words BY <1>4, <1>6, NodeTypes DEF AtNode
 <2>2. Word(s.p).info # op
  <3>1. op # NoInfo BY <1>1 DEF NewInfo, NoInfo
  <3> QED BY <1>7, <2>1, <3>1 DEF Words
 <2>3. tree'[s.p].update = Word(s.p) \/ tree'[s.p].update = Update("DFLAG", op) BY <1>8, <2>1 DEF OnlyWord, Word
 <2> QED BY <2>2, <2>3 DEF Update
<1>19. ~Marked(op)' BY <1>16, <1>18 DEF Marked, Word
<1> QED BY <1>7, <1>9, <1>10, <1>15, <1>16, <1>17, <1>19

(* The flag of an add: its new nodes rank below its parent. *)
LEMMA AddFlagRanks ==
 ASSUME GlobalInv, GlobalInv', Grows, Ranked, NEW p \in Inner, NEW leaf, NEW sibling, NEW internal, NEW op,
        Nodes' = Nodes \cup {leaf, sibling, internal}, {leaf, sibling, internal} \cap Nodes = {},
        leaf # internal, sibling # internal,
        \A m \in Inner : SameKids(m),
        ~tree'[leaf].internal, ~tree'[sibling].internal,
        {tree'[internal].left, tree'[internal].right} = {leaf, sibling},
        \A o \in Adds' : o \in Adds \/ o = op,
        Info(op)'.newInternal = internal, Info(op)'.p = p
 PROVE Ranked'
<1>1. PICK f : Ranks(tree, f) /\ \A o \in Adds : f[Info(o).newInternal] < f[Info(o).p] BY DEF Ranked
<1>2. f \in [Nodes -> Nat] /\ DOMAIN tree = Nodes /\ DOMAIN tree' = Nodes' /\ Shape
 BY <1>1 DEF Ranks, Nodes, GlobalInv
<1>3. PICK h : h = [m \in Nodes' |-> IF m = internal THEN 1 ELSE IF m \in {leaf, sibling} THEN 0 ELSE f[m] + 2]
 OBVIOUS
<1>4. h \in [Nodes' -> Nat] /\ h[internal] = 1 /\ h[leaf] = 0 /\ h[sibling] = 0
      /\ \A m \in Nodes : m \in Nodes' /\ h[m] = f[m] + 2
 BY <1>2, <1>3
<1>5. ASSUME NEW n \in Nodes', tree'[n].internal
      PROVE h[tree'[n].left] < h[n] /\ h[tree'[n].right] < h[n]
 <2>1. CASE n = internal
  <3>1. tree'[n].left \in {leaf, sibling} /\ tree'[n].right \in {leaf, sibling} BY <2>1
  <3> QED BY <1>4, <2>1, <3>1
 <2>2. CASE n \in Nodes
  <3>1. tree[n].internal /\ n \in Inner BY <1>5, <2>2 DEF Grows, Inner
  <3>2. tree'[n].left = tree[n].left /\ tree'[n].right = tree[n].right
        /\ tree[n].left \in Nodes /\ tree[n].right \in Nodes
   BY <1>2, <3>1, NodeTypes DEF SameKids
  <3>3. f[tree[n].left] < f[n] /\ f[tree[n].right] < f[n] BY <1>1, <1>2, <2>2, <3>1 DEF Ranks
  <3>4. f[tree[n].left] \in Nat /\ f[tree[n].right] \in Nat /\ f[n] \in Nat BY <1>2, <2>2, <3>2
  <3> QED BY <1>4, <2>2, <3>2, <3>3, <3>4
 <2> QED BY <1>5, <2>1, <2>2
<1>6. Ranks(tree', h) BY <1>2, <1>4, <1>5 DEF Ranks
<1>7. ASSUME NEW o \in Adds' PROVE h[Info(o)'.newInternal] < h[Info(o)'.p]
 <2>1. CASE o = op
  <3>1. p \in Nodes /\ f[p] \in Nat BY <1>2 DEF Inner
  <3> QED BY <1>4, <2>1, <3>1
 <2>2. CASE o \in Adds
  <3>1. o \in InfoIds /\ Info(o)' = Info(o) BY <2>2 DEF Adds, Grows
  <3>2. Info(o).newInternal \in Nodes /\ Info(o).p \in Nodes BY <1>2, <2>2, <3>1, InfoTypes DEF Inner
  <3>3. f[Info(o).newInternal] < f[Info(o).p] /\ f[Info(o).newInternal] \in Nat /\ f[Info(o).p] \in Nat
   BY <1>1, <1>2, <2>2, <3>2
  <3> QED BY <1>4, <3>1, <3>2, <3>3
 <2> QED BY <1>7, <2>1, <2>2
<1> QED BY <1>6, <1>7 DEF Ranked

(* The flag of an add: a new operation waits, with its tree at hand. *)
LEMMA AddFlagTree ==
 ASSUME NBBSTInv, GlobalInv', TreeInv, Grows, NEW t \in Threads, AddFlags(t),
        search[t].p \in OnPath(call[t].key), NEW op, op = NewInfo(t)
 PROVE  /\ Still /\ TreeInv'
        /\ op \in Adds' /\ Pending(op)'
        /\ NewKey(op, "leaf")' = call[t].key
        /\ InfoIds' = InfoIds \cup {op}
<1>1. PICK s, p, l, key : /\ s = search[t] /\ p = s.p /\ l = s.l
                          /\ key = call[t].key
 OBVIOUS
<1>2. PICK leaf, sibling, internal : /\ leaf = NewNode(op, "leaf") /\ sibling = NewNode(op, "sibling")
                                     /\ internal = NewNode(op, "internal")
 OBVIOUS
<1>3. PICK rec : rec = [p |-> p, newInternal |-> internal, l |-> l] OBVIOUS
<1>4. /\ pc[t] = "flag" /\ call[t].op = "add" /\ Word(p) = s.pupdate
      /\ FlagsAdd(p, op, key, tree[l].key)
      /\ infos' = [infos EXCEPT ![t] = Append(@, rec)]
 BY <1>1, <1>2, <1>3 DEF AddFlags, FlagsAdd, Word
<1>5. AtNode(s) /\ AtLeaf(s, call[t]) /\ key \in Keys BY <1>1, <1>4 DEF NBBSTInv, ThreadInv
<1>6. /\ p \in Inner /\ l \in Leaves /\ l \in Kids(p)
      /\ tree[l].key # key /\ (key < tree[p].key <=> tree[l].key < tree[p].key)
 BY <1>1, <1>4, <1>5 DEF AtNode, AtLeaf, Follows
<1>7. Shape /\ GlobalInv /\ Shape' BY DEF NBBSTInv, GlobalInv
<1>8. l \in Nodes /\ p \in Nodes /\ tree[l].key \in Bounds BY <1>6, <1>7, NodeTypes
<1>9. /\ InfoIds' = InfoIds \cup {op} /\ op \notin InfoIds /\ Info(op)' = rec
      /\ \A x \in InfoIds : Info(x)' = Info(x)
 BY <1>1, <1>4, <1>7, NewInfoIsNew
<1>10. PICK u, oldKey : u = Update("IFLAG", op) /\ oldKey = tree[l].key OBVIOUS
<1>11. /\ Nodes' = Nodes \cup {leaf, sibling, internal}
       /\ {leaf, sibling, internal} \cap Nodes = {}
       /\ leaf # sibling /\ leaf # internal /\ sibling # internal
       /\ \A m \in Nodes : tree'[m] = IF m = p THEN [tree[m] EXCEPT !.update = u] ELSE tree[m]
       /\ tree'[leaf] = Leaf(key) /\ tree'[sibling] = Leaf(oldKey)
       /\ tree'[internal] = Sides(op, key, oldKey)
 BY <1>1, <1>2, <1>4, <1>6, <1>7, <1>9, <1>10, FlagsAddNodes
<1>12. PICK r : r = Sides(op, key, oldKey) OBVIOUS
<1>13. /\ r.internal
       /\ \/ key < oldKey /\ r.key = oldKey /\ r.left = leaf /\ r.right = sibling
          \/ oldKey < key /\ r.key = key /\ r.left = sibling /\ r.right = leaf
 BY <1>2, <1>5, <1>6, <1>8, <1>10, <1>12, SidesAreOrdered
<1>14. /\ ~tree'[leaf].internal /\ tree'[leaf].key = key
       /\ ~tree'[sibling].internal /\ tree'[sibling].key = oldKey
 BY <1>11 DEF Leaf
<1>15. \A m \in Inner : SameKids(m)
 <2>1. ASSUME NEW m \in Inner PROVE tree'[m].left = tree[m].left /\ tree'[m].right = tree[m].right
  <3>1. m \in Nodes /\ tree[m] \in InnerRecords BY <1>7, NodeTypes
  <3> QED BY <1>11, <3>1 DEF InnerRecords
 <2> QED BY <2>1 DEF SameKids
<1>16. Still BY <1>15 DEF Still, Grows
<1>17. op \in Adds' /\ \A o \in Adds' : o \in Adds \/ o = op
 <2>1. op \in Adds' \cup Removes' BY <1>7, <1>9, NextInfoTypes
 <2>2. op \notin Removes'
  <3>1. "gp" \notin DOMAIN rec BY <1>3
  <3>2. \A x \in RemoveInfo' : "gp" \in DOMAIN x BY DEF RemoveInfo
  <3> QED BY <1>9, <3>1, <3>2 DEF Removes
 <2>3. Adds' \subseteq InfoIds' BY DEF Adds
 <2> QED BY <1>7, <1>9, <2>1, <2>2, <2>3, KindStays
<1>18. \A o \in Removes' : o \in Removes
 <2>1. Removes' \subseteq InfoIds' /\ Adds' \cap Removes' = {} BY KindsDiffer DEF Removes
 <2> QED BY <1>7, <1>9, <1>17, <2>1, KindStays
<1>19. Info(op)'.newInternal = internal /\ Info(op)'.p = p /\ Info(op)'.l = l BY <1>3, <1>9
<1>20. tree'[internal] = r /\ {r.left, r.right} = {leaf, sibling} BY <1>11, <1>12, <1>13
<1>21. Ranked' BY <1>6, <1>7, <1>11, <1>14, <1>15, <1>17, <1>19, <1>20, AddFlagRanks DEF TreeInv
<1>22. Pending(op)'
 <2>1. AddInv(op)' BY <1>17 DEF GlobalInv
 <2>2. l \in {tree'[p].left, tree'[p].right} BY <1>6, <1>15 DEF Kids, SameKids
 <2>3. ~Detached(op)' BY <1>19, <2>2 DEF Detached, Kids
 <2>4. (Pending(op) \/ Replaced(op))' BY <2>1 DEF AddInv
 <2> QED BY <2>3, <2>4 DEF Replaced
<1>23. \A n \in Inner' : n \in Inner \/ (Waits(n)' /\ Root \notin Kids(n)')
 <2>1. ASSUME NEW n \in Inner', n \notin Inner
       PROVE n = internal
  BY <1>11, <1>14, <2>1 DEF Inner, Grows
 <2>2. Waits(internal)' BY <1>17, <1>19, <1>22 DEF Waits
 <2>3. Root \notin Kids(internal)' BY <1>2, <1>7, <1>20, NoNodeIsNoNode DEF Kids
 <2> QED BY <2>1, <2>2, <2>3
<1>24. NewKey(op, "leaf")' = key /\ NewKey(op, "sibling")' = oldKey BY <1>2, <1>14 DEF NewKey
<1>25. NewTree(op)'
 <2>1. leaf \in Leaves' /\ sibling \in Leaves' BY <1>11, <1>14 DEF Leaves
 <2>2. tree'[l].key = oldKey /\ tree'[p].key = tree[p].key BY <1>8, <1>10 DEF Grows
 <2>3. p \in OnPath(key)'
  <3>1. Root \in Nodes BY <1>7 DEF Shape, Inner
  <3>2. Path(tree', Root, key) = Path(tree, Root, key) BY <1>7, <1>16, <3>1, StillPaths
  <3> QED BY <1>1, <3>2 DEF OnPath
 <2>4. SidesAre(op, "leaf", "sibling")' \/ SidesAre(op, "sibling", "leaf")'
  BY <1>2, <1>13, <1>19, <1>20, <1>24 DEF SidesAre
 <2> QED BY <1>2, <1>5, <1>6, <1>10, <1>19, <1>24, <2>1, <2>2, <2>3, <2>4 DEF NewTree
<1>26. TreeInv' BY <1>7, <1>16, <1>17, <1>18, <1>21, <1>23, <1>25, StillKeepsTree
<1> QED BY <1>1, <1>9, <1>16, <1>17, <1>22, <1>24, <1>26

-----------------------------------------------------------------------------
(* The set: the threads, their operations and their answers.               *)

(* The leaf on the way to a key decides whether it is in the set. *)
LEMMA LeafDecides ==
 ASSUME Shape, Ranked, NEW key \in Keys
 PROVE  /\ \E m \in OnPath(key) : m \in Leaves
        /\ \A m \in OnPath(key) : m \in Leaves => (key \in Contents(tree) <=> tree[m].key = key)
<1>1. IsLinked(tree) /\ Root \in DOMAIN tree /\ Nodes = DOMAIN tree BY TreeIsLinked
<1>2. PICK f : Ranks(tree, f) BY DEF Ranked
<1>3. OnPath(key) \subseteq Nodes BY <1>1, PathIsLeast DEF OnPath
<1>4. \E m \in OnPath(key) : ~tree[m].internal BY <1>1, <1>2, PathHasLeaf DEF OnPath
<1>5. ASSUME NEW m \in OnPath(key), m \in Leaves
      PROVE key \in Contents(tree) <=> tree[m].key = key
 BY <1>1, <1>2, <1>5, ContentsOnPath DEF OnPath, Leaves
<1> QED BY <1>3, <1>4, <1>5 DEF Leaves

(* The same after a step. *)
LEMMA NextLeafDecides ==
 ASSUME Shape', Ranked', NEW key \in Keys
 PROVE  /\ \E m \in OnPath(key)' : m \in Leaves'
        /\ \A m \in OnPath(key)' : m \in Leaves' => (key \in Contents(tree') <=> tree'[m].key = key)
<1>1. IsLinked(tree') /\ Root \in DOMAIN tree' /\ Nodes' = DOMAIN tree'
 <2>1. tree' \in [Nodes' -> LeafRecords' \cup InnerRecords'] /\ Root \in Inner' BY DEF Shape
 <2>2. LeafRecords' = LeafRecords BY DEF LeafRecords, Bounds
 <2> QED BY <2>1, <2>2, RecordsAreLinked DEF InnerRecords, Inner, Nodes
<1>2. PICK f : Ranks(tree', f) BY DEF Ranked
<1>3. OnPath(key)' = Path(tree', Root, key) BY DEF OnPath
<1>4. OnPath(key)' \subseteq Nodes' BY <1>1, <1>3, PathIsLeast
<1>5. \E m \in OnPath(key)' : ~tree'[m].internal BY <1>1, <1>2, <1>3, PathHasLeaf
<1>6. ASSUME NEW m \in OnPath(key)', m \in Leaves'
      PROVE key \in Contents(tree') <=> tree'[m].key = key
 BY <1>1, <1>2, <1>3, <1>6, ContentsOnPath DEF Leaves
<1> QED BY <1>4, <1>5, <1>6 DEF Leaves

(* What a step does to the operations that it is not about. *)
LEMMA RemoveEffects ==
 ASSUME GlobalInv, GlobalInv', Grows, NEW op \in Removes,
        Marked(op) => (Linked(op)' <=> Linked(op)), MayMark(op) /\ Linked(op) => Linked(op)'
 PROVE  /\ HasEffect(op)' <=> HasEffect(op)
        /\ Unfinished(op)' => Unfinished(op)
        /\ CallOf(op)' = CallOf(op)
<1>1. op \in InfoIds /\ op \in Removes' /\ op \notin Adds /\ op \notin Adds' /\ RemoveInv(op)
 <2>1. op \in InfoIds BY DEF Removes
 <2> QED BY <2>1, KindStays, KindsDiffer DEF GlobalInv
<1>2. Marked(op) => Marked(op)' BY MarksStay
<1>3. MayMark(op)' => MayMark(op) BY <1>1, MayMarkGoes
<1>4. Marked(op)' => Marked(op) \/ MayMark(op) BY DEF Grows
<1>5. MayMark(op) => Linked(op) BY <1>1 DEF RemoveInv, MayMark, Linked
<1>6. HasEffect(op)' <=> HasEffect(op) BY <1>1, <1>2, <1>4, <1>5 DEF HasEffect
<1>7. Unfinished(op)' => Unfinished(op) BY <1>1, <1>3, <1>4, <1>5 DEF Unfinished
<1>8. CallOf(op)' = CallOf(op)
 <2>1. Info(op)' = Info(op) /\ Info(op).l \in Nodes BY <1>1, InfoTypes DEF Grows, GlobalInv, Leaves
 <2>2. tree'[Info(op)'.l].key = tree[Info(op).l].key BY <2>1 DEF Grows
 <2> QED BY <1>1, <2>2 DEF CallOf
<1> QED BY <1>6, <1>7, <1>8

(* The same for an add. *)
LEMMA AddEffects ==
 ASSUME GlobalInv, GlobalInv', TreeInv, Grows, NEW op \in Adds, Pending(op)' <=> Pending(op)
 PROVE  /\ HasEffect(op)' <=> HasEffect(op)
        /\ Unfinished(op)' => Unfinished(op)
        /\ HasEffect(op) \/ CallOf(op)' = CallOf(op)
<1>1. op \in InfoIds /\ op \in Adds'
 <2>1. op \in InfoIds BY DEF Adds
 <2> QED BY <2>1, KindStays
<1>2. HasEffect(op) <=> ~Pending(op) BY DEF HasEffect
<1>3. HasEffect(op)' <=> ~Pending(op)' BY <1>1 DEF HasEffect
<1>4. Unfinished(op)' => Unfinished(op) BY <1>1 DEF Unfinished
<1>5. Pending(op) => CallOf(op)' = CallOf(op)
 <2>1. Pending(op) => NewNode(op, "leaf") \in Nodes BY DEF TreeInv, NewTrees, NewTree, Leaves
 <2>2. Pending(op) => tree'[NewNode(op, "leaf")].key = tree[NewNode(op, "leaf")].key BY <2>1 DEF Grows
 <2> QED BY <1>1, <2>2 DEF CallOf, NewKey
<1> QED BY <1>2, <1>3, <1>4, <1>5

(* A step that changes no child changes nothing of this. *)
LEMMA CalmEffects ==
 ASSUME GlobalInv, GlobalInv', TreeInv, TreeInv', Grows, Still
 PROVE  /\ Contents(tree') = Contents(tree)
        /\ \A n \in Inner : Dead(n) => Dead(n)'
        /\ \A op \in InfoIds : /\ HasEffect(op)' <=> HasEffect(op)
                               /\ Unfinished(op)' => Unfinished(op)
                               /\ HasEffect(op) \/ CallOf(op)' = CallOf(op)
<1>1. Shape /\ Shape' /\ Ranked /\ Ranked' /\ Root \in Nodes BY DEF GlobalInv, TreeInv, Shape, Inner
<1>2. ASSUME NEW key \in Keys
      PROVE key \in Contents(tree') <=> key \in Contents(tree)
 <2>1. Path(tree', Root, key) = Path(tree, Root, key) BY <1>1, StillPaths
 <2>2. OnPath(key)' = OnPath(key) BY <2>1 DEF OnPath
 <2>3. PICK m \in OnPath(key) : m \in Leaves BY <1>1, LeafDecides
 <2>4. m \in Leaves' /\ tree'[m].key = tree[m].key BY <2>3 DEF Leaves, Still
 <2> QED BY <1>1, <2>2, <2>3, <2>4, LeafDecides, NextLeafDecides
<1>3. Contents(tree') = Contents(tree)
 <2>1. Contents(tree') \subseteq Keys /\ Contents(tree) \subseteq Keys BY DEF Contents
 <2> QED BY <1>2, <2>1
<1>4. \A m \in Inner : Kids(m)' = Kids(m) BY DEF Still, SameKids, Kids
<1>5. ASSUME NEW n \in Inner, Dead(n)
      PROVE Dead(n)'
 BY <1>4, <1>5, DeadStays
<1>6. ASSUME NEW op \in InfoIds
      PROVE  /\ HasEffect(op)' <=> HasEffect(op)
             /\ Unfinished(op)' => Unfinished(op)
             /\ HasEffect(op) \/ CallOf(op)' = CallOf(op)
 <2>1. CASE op \in Adds
  <3>1. Pending(op)' <=> Pending(op) BY <2>1, StillPending
  <3> QED BY <2>1, <3>1, AddEffects
 <2>2. CASE op \in Removes
  <3>1. Info(op)' = Info(op) /\ Info(op).gp \in Inner BY <1>1, <2>2, InfoTypes DEF Grows
  <3>2. Linked(op)' <=> Linked(op)
   <4>1. Kids(Info(op).gp)' = {tree'[Info(op)'.gp].left, tree'[Info(op)'.gp].right} BY DEF Kids
   <4>2. /\ tree'[Info(op).gp].left = tree[Info(op).gp].left
         /\ tree'[Info(op).gp].right = tree[Info(op).gp].right
    BY <3>1 DEF Still, SameKids
   <4> QED BY <3>1, <4>1, <4>2 DEF Linked, Kids
  <3> QED BY <2>2, <3>2, RemoveEffects
 <2> QED BY <1>1, <2>1, <2>2, InfoTypes
<1> QED BY <1>3, <1>5, <1>6

(* A node that is on the way to a key stays there, or it is dead. *)
LEMMA SwapPathsLead ==
 ASSUME GlobalInv, NEW g \in Inner, NEW old, NEW new \in Nodes, Swaps(g, old, new),
        NEW X, SwapIsClean(g, old, new, X), \A n \in X \cap Inner : Dead(n)'
 PROVE PathsLead(g)
<1>1. Shape /\ KidsAreOrdered BY DEF GlobalInv
<1>2. X \in SUBSET Nodes /\ old \in X /\ g \notin X /\ Root \notin X BY DEF SwapIsClean
<1>3. ASSUME NEW key
      PROVE OnPath(key) \subseteq OnPath(key)' \cup X
 <2>1. \A x \in X : tree[x].internal => Child(tree, x, key) \in X \cup {new} BY DEF SwapIsClean, Child
 <2> QED BY <1>1, <1>2, <2>1, SwapKeepsPath
<1>4. ASSUME NEW key, NEW m \in OnPath(key) \cap Inner
      PROVE m \in OnPath(key)' \/ Dead(m)'
 BY <1>3
<1>5. ASSUME NEW key, NEW n \in Nodes, g \in Path(tree, n, key) => g \in OnPath(key)
      PROVE Path(tree', n, key) \subseteq Path(tree, n, key) \cup OnPath(key)'
 <2>1. g \in Path(tree, n, key) => g \in OnPath(key)' BY <1>2, <1>3, <1>5
 <2> QED BY <1>1, <2>1, SwapGoesOn
<1>6. \A key : \A m \in OnPath(key) \cap Inner : m \in OnPath(key)' \/ Dead(m)' BY <1>4
<1>7. \A key : \A n \in Nodes :
        (g \in Path(tree, n, key) => g \in OnPath(key)) =>
           Path(tree', n, key) \subseteq Path(tree, n, key) \cup OnPath(key)'
 BY <1>5
<1> QED BY <1>6, <1>7 DEF PathsLead

(* The other operations do not notice the CAS of an insert. *)
LEMMA InsertEffects ==
 ASSUME GlobalInv, GlobalInv', TreeInv, TreeInv', Grows, UNCHANGED infos,
        NEW op \in Adds, Pending(op), Detached(op)', Swaps(Info(op).p, Info(op).l, Info(op).newInternal)
 PROVE  /\ \A n \in Inner : Dead(n) => Dead(n)'
        /\ PathsLead(Info(op).p)
        /\ \A o \in InfoIds \ {op} : /\ HasEffect(o)' <=> HasEffect(o)
                                     /\ Unfinished(o)' => Unfinished(o)
                                     /\ HasEffect(o) \/ CallOf(o)' = CallOf(o)
        /\ HasEffect(op)' /\ ~HasEffect(op) /\ ~Unfinished(op)' /\ Unfinished(op)
<1>1. PICK p, l, ni, leaf, sib : /\ p = Info(op).p /\ l = Info(op).l /\ ni = Info(op).newInternal
                                 /\ leaf = NewNode(op, "leaf") /\ sib = NewNode(op, "sibling")
 OBVIOUS
<1>2. /\ p \in Inner /\ l \in Kids(p) /\ l \in Leaves /\ ni \in Inner /\ ni \in Nodes
      /\ SwapIsClean(p, l, ni, {l})
 BY <1>1, WaitingAdd
<1>3. Swaps(p, l, ni) BY <1>1
<1>4. \A n \in {l} \cap Inner : Dead(n)' BY <1>2 DEF Inner, Leaves
<1>5. \A n \in Inner : Dead(n) => Dead(n)' BY <1>2, <1>3, <1>4, SwapKeepsRest
<1>6. PathsLead(p) BY <1>2, <1>3, <1>4, SwapPathsLead
<1>7. /\ \A m \in Inner : m # p => Kids(m)' = Kids(m)
      /\ \A c : c # ni /\ c # l => (c \in Kids(p)' <=> c \in Kids(p))
 BY <1>2, <1>3, SwapKids
<1>8. ASSUME NEW o \in Adds, o # op
      PROVE Pending(o)' <=> Pending(o)
 <2>1. Pending(o)' <=> Pending(o) /\ Info(o).p # p BY <1>2, <1>3, SwapPending
 <2>2. Word(p) = Update("IFLAG", op) BY <1>1 DEF Pending
 <2>3. Pending(o) => Word(Info(o).p) = Update("IFLAG", o) BY DEF Pending
 <2>4. Update("IFLAG", o) # Update("IFLAG", op) BY <1>8 DEF Update
 <2> QED BY <2>1, <2>2, <2>3, <2>4
<1>9. ASSUME NEW o \in Removes
      PROVE  /\ Marked(o) => (Linked(o)' <=> Linked(o))
             /\ Linked(o) => Linked(o)'
 <2>1. PICK g, q : g = Info(o).gp /\ q = Info(o).p OBVIOUS
 <2>2. g \in Inner /\ q \in Inner /\ Info(o)' = Info(o) BY <2>1, InfoTypes DEF GlobalInv, Removes, Info
 <2>3. q # l BY <1>2, <2>2 DEF Inner, Leaves
 <2>4. Marked(o) => q # ni
  <3>1. Word(ni) = NullUpdate BY <1>1 DEF Pending
  <3>2. NullUpdate # Update("MARK", o) BY DEF NullUpdate, Update
  <3> QED BY <2>1, <3>1, <3>2 DEF Marked
 <2>5. q # ni => (q \in Kids(g)' <=> q \in Kids(g)) BY <1>7, <2>2, <2>3
 <2>6. q = ni => q \notin Kids(g) BY <1>1, <2>2 DEF Pending, Unseen
 <2>7. Linked(o) <=> q \in Kids(g) BY <2>1 DEF Linked
 <2>8. Linked(o)' <=> q \in Kids(g)' BY <2>1, <2>2 DEF Linked, Kids
 <2> QED BY <2>4, <2>5, <2>6, <2>7, <2>8
<1>10. ASSUME NEW o \in InfoIds \ {op}
       PROVE  /\ HasEffect(o)' <=> HasEffect(o)
              /\ Unfinished(o)' => Unfinished(o)
              /\ HasEffect(o) \/ CallOf(o)' = CallOf(o)
 <2>1. CASE o \in Adds BY <1>8, <1>10, <2>1, AddEffects
 <2>2. CASE o \in Removes BY <1>9, <2>2, RemoveEffects
 <2> QED BY <2>1, <2>2, InfoTypes DEF GlobalInv
<1>11. HasEffect(op)' /\ ~HasEffect(op) /\ ~Unfinished(op)' /\ Unfinished(op)
 <2>1. op \in Adds' BY KindStays DEF Adds
 <2>2. ~Pending(op)' BY DEF Pending, Detached
 <2> QED BY <2>1, <2>2 DEF HasEffect, Unfinished
<1> QED BY <1>1, <1>5, <1>6, <1>10, <1>11

(* Nor do they notice the CAS that unlinks a marked node. *)
LEMMA UnlinkEffects ==
 ASSUME GlobalInv, GlobalInv', TreeInv, TreeInv', Grows, UNCHANGED infos,
        NEW op \in Removes, Marked(op), Linked(op), Swaps(Info(op).gp, Info(op).p, Other(op))
 PROVE  /\ \A n \in Inner : Dead(n) => Dead(n)'
        /\ PathsLead(Info(op).gp)
        /\ \A o \in InfoIds \ {op} : /\ HasEffect(o)' <=> HasEffect(o)
                                     /\ Unfinished(o)' => Unfinished(o)
                                     /\ HasEffect(o) \/ CallOf(o)' = CallOf(o)
        /\ HasEffect(op)' /\ ~HasEffect(op) /\ ~Unfinished(op)' /\ Unfinished(op)
<1>1. PICK g, p, l, c : g = Info(op).gp /\ p = Info(op).p /\ l = Info(op).l /\ c = Other(op) OBVIOUS
<1>2. /\ g \in Inner /\ p \in Inner /\ l \in Leaves /\ p \in Nodes /\ c \in Nodes
      /\ SwapIsClean(g, p, c, {p, l})
 BY <1>1, MarkedRemove DEF RemoveShape
<1>3. Swaps(g, p, c) /\ Word(g) = Update("DFLAG", op) /\ Word(p) = Update("MARK", op)
 BY <1>1 DEF TreeInv, MarksHold, Marked
<1>4. \A n \in {p, l} \cap Inner : Dead(n)'
 <2>1. Dead(Info(op).p)' BY UnlinkKeepsTree
 <2>2. Info(op)' = Info(op) BY DEF Info
 <2>3. Dead(p)' BY <1>1, <2>1, <2>2 DEF Dead
 <2> QED BY <1>2, <2>3 DEF Inner, Leaves
<1>5. \A n \in Inner : Dead(n) => Dead(n)' BY <1>2, <1>3, <1>4, SwapKeepsRest
<1>6. PathsLead(g) BY <1>2, <1>3, <1>4, SwapPathsLead
<1>7. /\ \A m \in Inner : m # g => Kids(m)' = Kids(m)
      /\ c \in Kids(g)' /\ p \notin Kids(g)'
      /\ \A x : x # c /\ x # p => (x \in Kids(g)' <=> x \in Kids(g))
 BY <1>2, <1>3, SwapKids DEF SwapIsClean
<1>8. ASSUME NEW o \in Adds
      PROVE Pending(o)' <=> Pending(o)
 <2>1. Pending(o)' <=> Pending(o) /\ Info(o).p # g BY <1>2, <1>3, SwapPending
 <2>2. Pending(o) => Word(Info(o).p) = Update("IFLAG", o) BY DEF Pending
 <2>3. Update("IFLAG", o) # Update("DFLAG", op) BY DEF Update
 <2> QED BY <1>3, <2>1, <2>2, <2>3
<1>9. ASSUME NEW o \in Removes, o # op
      PROVE  /\ Marked(o) => (Linked(o)' <=> Linked(o))
             /\ MayMark(o) /\ Linked(o) => Linked(o)'
 <2>1. PICK h, q : h = Info(o).gp /\ q = Info(o).p OBVIOUS
 <2>2. h \in Inner /\ q \in Inner /\ Info(o)' = Info(o) BY <2>1, InfoTypes DEF GlobalInv, Removes, Info
 <2>3. Linked(o) <=> q \in Kids(h) BY <2>1 DEF Linked
 <2>4. Linked(o)' <=> q \in Kids(h)' BY <2>1, <2>2 DEF Linked, Kids
 <2>5. Marked(o) => q # p
  <3>1. Update("MARK", o) # Update("MARK", op) BY <1>9 DEF Update
  <3> QED BY <1>3, <2>1, <3>1 DEF Marked
 <2>6. MayMark(o) => q # p
  <3>1. Info(o).pupdate.state = "CLEAN" BY InfoTypes DEF GlobalInv, Removes, CleanWords
  <3>2. Update("MARK", op).state # "CLEAN" BY DEF Update
  <3> QED BY <1>3, <2>1, <3>1, <3>2 DEF MayMark
 <2>7. Marked(o) /\ q = c => q \in Kids(h)
  <3>1. SUFFICES ASSUME Marked(o), q = c PROVE q \in Kids(h) OBVIOUS
  <3>2. ~Dead(q) BY <1>2, <2>2, <3>1 DEF SwapIsClean
  <3>3. Word(q) = Update("MARK", o) BY <2>1, <3>1 DEF Marked
  <3>4. Word(q).state = "MARK" /\ Word(q).info = o BY <3>3 DEF Update
  <3> QED BY <2>1, <3>2, <3>4 DEF Dead
 <2>8. h # g => (q \in Kids(h)' <=> q \in Kids(h)) BY <1>7, <2>2
 <2>9. h = g /\ q # p /\ q # c => (q \in Kids(h)' <=> q \in Kids(h)) BY <1>7
 <2>10. h = g /\ q = c => q \in Kids(h)' BY <1>7
 <2> QED BY <2>3, <2>4, <2>5, <2>6, <2>7, <2>8, <2>9, <2>10
<1>10. ASSUME NEW o \in InfoIds \ {op}
       PROVE  /\ HasEffect(o)' <=> HasEffect(o)
              /\ Unfinished(o)' => Unfinished(o)
              /\ HasEffect(o) \/ CallOf(o)' = CallOf(o)
 <2>1. CASE o \in Adds BY <1>8, <2>1, AddEffects
 <2>2. CASE o \in Removes BY <1>9, <1>10, <2>2, RemoveEffects
 <2> QED BY <2>1, <2>2, InfoTypes DEF GlobalInv
<1>11. HasEffect(op)' /\ ~HasEffect(op) /\ ~Unfinished(op)' /\ Unfinished(op)
 <2>1. op \notin Adds /\ op \notin Adds' /\ RemoveInv(op) /\ op \in InfoIds
  BY KindStays, KindsDiffer DEF Removes, GlobalInv
 <2>2. Marked(op)' BY MarksStay
 <2>3. ~MayMark(op)' BY <2>1, MarkedIsMarked, MayMarkGoes
 <2>4. ~Linked(op)'
  <3>1. Info(op)' = Info(op) BY DEF Info
  <3>2. Info(op)'.p \notin Kids(g)' BY <1>1, <1>7, <3>1
  <3>3. Kids(Info(op).gp)' = Kids(g)' BY <1>1, <3>1 DEF Kids
  <3> QED BY <3>2, <3>3 DEF Linked
 <2> QED BY <2>1, <2>2, <2>3, <2>4 DEF HasEffect, Unfinished
<1> QED BY <1>1, <1>5, <1>6, <1>10, <1>11

(* A leaf that stays on the way to its key goes on deciding. *)
LEMMA SameLeafDecides ==
 ASSUME GlobalInv, GlobalInv', TreeInv, TreeInv', Grows, NEW key \in Keys,
        \A m \in OnPath(key) : m \in Leaves => m \in OnPath(key)'
 PROVE key \in Contents(tree') <=> key \in Contents(tree)
<1>1. Shape /\ Shape' /\ Ranked /\ Ranked' BY DEF GlobalInv, TreeInv
<1>2. PICK m \in OnPath(key) : m \in Leaves BY <1>1, LeafDecides
<1>3. m \in Leaves' /\ tree'[m].key = tree[m].key
 <2>1. m \in Nodes BY <1>2 DEF Leaves
 <2> QED BY <1>2, <2>1, SetsGrow DEF Grows
<1> QED BY <1>1, <1>2, <1>3, LeafDecides, NextLeafDecides

(* What HelpInsert does to the set. *)
LEMMA InsertAdds ==
 ASSUME GlobalInv, GlobalInv', TreeInv, TreeInv', Grows, UNCHANGED infos,
        NEW op \in Adds, Pending(op), Swaps(Info(op).p, Info(op).l, Info(op).newInternal)
 PROVE  /\ NewKey(op, "leaf") \in Keys /\ NewKey(op, "leaf") \notin Contents(tree)
        /\ Contents(tree') = Contents(tree) \cup {NewKey(op, "leaf")}
<1>1. PICK p, l, ni, leaf, sib : /\ p = Info(op).p /\ l = Info(op).l /\ ni = Info(op).newInternal
                                 /\ leaf = NewNode(op, "leaf") /\ sib = NewNode(op, "sibling")
 OBVIOUS
<1>2. PICK key : key = NewKey(op, "leaf") OBVIOUS
<1>3. /\ p \in Inner /\ p \in Nodes /\ l \in Kids(p) /\ l \in Leaves /\ ni \in Inner /\ ni \in Nodes
      /\ leaf \in Leaves /\ sib \in Leaves
      /\ SwapIsClean(p, l, ni, {l})
 BY <1>1, WaitingAdd
<1>4. Swaps(p, l, ni) BY <1>1
<1>5. /\ key \in Keys /\ tree[leaf].key = key /\ tree[sib].key = tree[l].key
      /\ key < tree[p].key <=> tree[l].key < tree[p].key
      /\ p \in OnPath(key)
      /\ \/ /\ tree[ni].left = leaf /\ tree[ni].right = sib
            /\ key < tree[l].key /\ tree[ni].key = tree[l].key
         \/ /\ tree[ni].left = sib /\ tree[ni].right = leaf
            /\ tree[l].key < key /\ tree[ni].key = key
 <2>1. NewTree(op) BY DEF TreeInv, NewTrees
 <2> QED BY <1>1, <1>2, <2>1 DEF NewTree, SidesAre, NewKey
<1>6. /\ Shape /\ Shape' /\ KidsAreOrdered /\ Ranked /\ Ranked'
      /\ IsLinked(tree) /\ IsLinked(tree') /\ DOMAIN tree = Nodes /\ DOMAIN tree' = Nodes /\ Root \in Nodes
 <2>1. Shape /\ Shape' /\ KidsAreOrdered /\ Ranked /\ Ranked' /\ Root \in Nodes
  BY DEF GlobalInv, TreeInv, Shape, Inner
 <2> QED BY <1>3, <1>4, <2>1, SwapChildren
<1>7. /\ tree[l].key \in Int /\ key \in Int /\ tree[p].key \in Int /\ Keys \subseteq Int
      /\ tree[tree[p].left].key \in Int /\ tree[tree[p].right].key \in Int
      /\ tree[tree[p].left].key < tree[p].key /\ tree[p].key <= tree[tree[p].right].key
 <2>1. tree[p].left \in Nodes /\ tree[p].right \in Nodes /\ l \in Nodes BY <1>3, <1>6, NodeTypes
 <2> QED BY <1>3, <1>5, <1>6, <2>1, NodeTypes, KeysAreIntegers DEF KidsAreOrdered
<1>8. Child(tree, p, key) = l BY <1>3, <1>5, <1>7 DEF Child, Kids
<1>9. /\ tree'[ni].internal /\ tree'[ni].key = tree[ni].key
      /\ tree'[ni].left = tree[ni].left /\ tree'[ni].right = tree[ni].right
      /\ leaf \in Leaves' /\ sib \in Leaves' /\ tree'[leaf].key = key /\ tree'[sib].key = tree[l].key
 <2>1. ni # p /\ Inner' = Inner /\ Leaves' = Leaves BY <1>3, <1>4 DEF SwapIsClean, Swaps
 <2> QED BY <1>3, <1>4, <1>5, <2>1 DEF Swaps, SameKids, Leaves, Inner
<1>10. ASSUME NEW k, p \in OnPath(k), Child(tree, p, k) = l
       PROVE l \in OnPath(k) /\ Child(tree', ni, k) \in OnPath(k)'
 <2>1. PathClosed(tree, k, OnPath(k)) /\ PathClosed(tree', k, OnPath(k)') BY <1>6, PathIsLeast DEF OnPath
 <2>2. l \in OnPath(k) BY <1>3, <1>10, <2>1 DEF PathClosed, Inner
 <2>3. \A x \in {l} : tree[x].internal => Child(tree, x, k) \in {l} \cup {ni} BY <1>3 DEF Leaves
 <2>4. {l} \in SUBSET Nodes /\ p \notin {l} /\ Root \notin {l} BY <1>3 DEF SwapIsClean
 <2>5. ni \in OnPath(k)' BY <1>3, <1>4, <1>6, <1>10, <2>3, <2>4, SwapKeepsPath
 <2> QED BY <1>9, <2>1, <2>2, <2>5 DEF PathClosed
<1>11. key \notin Contents(tree)
 <2>1. l \in OnPath(key) BY <1>5, <1>8, <1>10
 <2> QED BY <1>3, <1>5, <1>6, <1>7, <2>1, LeafDecides
<1>12. key \in Contents(tree')
 <2>1. Child(tree', ni, key) = leaf BY <1>5, <1>7, <1>9 DEF Child
 <2>2. leaf \in OnPath(key)' BY <1>5, <1>8, <1>10, <2>1
 <2> QED BY <1>5, <1>6, <1>9, <2>2, NextLeafDecides
<1>13. ASSUME NEW k \in Keys, k # key
       PROVE k \in Contents(tree') <=> k \in Contents(tree)
 <2>1. CASE p \in OnPath(k) /\ Child(tree, p, k) = l
  <3>1. l \in OnPath(k) /\ Child(tree', ni, k) \in OnPath(k)' BY <1>10, <2>1
  <3>2. k \in Contents(tree) <=> tree[l].key = k BY <1>3, <1>6, <3>1, LeafDecides
  <3>3. Child(tree', ni, k) \in {leaf, sib} BY <1>5, <1>9 DEF Child
  <3>4. Child(tree', ni, k) \in Leaves' /\ (k \in Contents(tree') <=> tree'[Child(tree', ni, k)].key = k)
   BY <1>6, <1>9, <3>1, <3>3, NextLeafDecides
  <3>5. tree[l].key = k => Child(tree', ni, k) = sib BY <1>5, <1>7, <1>9 DEF Child
  <3>6. CASE Child(tree', ni, k) = sib BY <1>9, <3>2, <3>4, <3>6
  <3>7. CASE Child(tree', ni, k) = leaf
   <4>1. k \notin Contents(tree') BY <1>9, <1>13, <3>4, <3>7
   <4>2. tree[l].key # k
    <5>1. CASE leaf = sib BY <1>5, <1>7, <5>1
    <5>2. CASE leaf # sib BY <3>5, <3>7, <5>2
    <5> QED BY <5>1, <5>2
   <4> QED BY <3>2, <4>1, <4>2
  <3> QED BY <3>3, <3>6, <3>7
 <2>2. CASE p \in OnPath(k) => Child(tree, p, k) # l
  <3>1. OnPath(k) \subseteq OnPath(k)' BY <1>3, <1>4, <1>6, <2>2, SwapLeavesPath
  <3> QED BY <3>1, SameLeafDecides
 <2> QED BY <2>1, <2>2
<1>14. Contents(tree') = Contents(tree) \cup {key}
 <2>1. Contents(tree') \subseteq Keys /\ Contents(tree) \subseteq Keys BY DEF Contents
 <2> QED BY <1>5, <1>12, <1>13, <2>1
<1> QED BY <1>2, <1>5, <1>11, <1>14

(* What HelpMarked does to the set: the leaf goes with its parent. *)
LEMMA UnlinkRemoves ==
 ASSUME GlobalInv, GlobalInv', TreeInv, TreeInv', Grows, UNCHANGED infos,
        NEW op \in Removes, Marked(op), Linked(op), Swaps(Info(op).gp, Info(op).p, Other(op))
 PROVE  /\ tree[Info(op).l].key \in Contents(tree)
        /\ Contents(tree') = Contents(tree) \ {tree[Info(op).l].key}
<1>1. PICK g, p, l, c : g = Info(op).gp /\ p = Info(op).p /\ l = Info(op).l /\ c = Other(op) OBVIOUS
<1>2. PICK key : key = tree[l].key OBVIOUS
<1>3. /\ g \in Inner /\ g \in InTree /\ g \in Nodes /\ p \in Kids(g)
      /\ p \in Inner /\ p \in InTree /\ p \in Nodes
      /\ l \in Leaves /\ l \in Nodes /\ c \in Nodes /\ l # c
      /\ \/ tree[p].left = l /\ tree[p].right = c
         \/ tree[p].left = c /\ tree[p].right = l
      /\ SwapIsClean(g, p, c, {p, l}) /\ key \in Keys
 BY <1>1, <1>2, MarkedRemove DEF RemoveShape
<1>4. Swaps(g, p, c) BY <1>1
<1>5. /\ GlobalInv /\ Shape /\ Shape' /\ KidsAreOrdered /\ Ranked /\ Ranked' /\ RootIsTop /\ Ordered
      /\ IsLinked(tree) /\ IsLinked(tree') /\ DOMAIN tree = Nodes /\ DOMAIN tree' = Nodes /\ Root \in Nodes
 <2>1. Shape /\ Shape' /\ KidsAreOrdered /\ Ranked /\ Ranked' /\ Root \in Nodes
  BY DEF GlobalInv, TreeInv, Shape, Inner
 <2> QED BY <1>3, <1>4, <2>1, SwapChildren DEF TreeInv
<1>6. /\ key \in Int /\ Keys \subseteq Int /\ \A m \in Nodes : tree[m].key \in Int
 BY <1>3, <1>5, NodeTypes, KeysAreIntegers
<1>7. KeysAreOrdered(p) /\ l \in InTree
 <2>1. BelowClosed(tree, InTree) BY <1>5, BelowIsLeast DEF InTree
 <2> QED BY <1>3, <1>5, <2>1 DEF Ordered, BelowClosed, Inner
<1>8. l \in OnPath(key) BY <1>2, <1>5, <1>7, InTreeIsOnPath
<1>9. l \in Below(tree, l) /\ c \in Below(tree, c) /\ l \in Below(tree, p)
 BY <1>3, <1>5, BelowIsLeast DEF BelowClosed, Inner
<1>10. g \in OnPath(key) /\ Child(tree, g, key) = p
 <2>1. p = tree[g].left \/ p = tree[g].right BY <1>3 DEF Kids
 <2>2. CASE p = tree[g].left
  <3>1. g \in OnPath(key) /\ key < tree[g].key BY <1>3, <1>5, <1>8, <1>9, <2>2, PathLeadsThrough
  <3> QED BY <2>2, <3>1 DEF Child
 <2>3. CASE p = tree[g].right
  <3>1. g \in OnPath(key) /\ ~(key < tree[g].key) BY <1>3, <1>5, <1>8, <1>9, <2>3, PathLeadsThrough
  <3> QED BY <2>3, <3>1 DEF Child
 <2> QED BY <2>1, <2>2, <2>3
<1>11. Child(tree, p, key) = l BY <1>2, <1>3, <1>6, <1>7, <1>9 DEF KeysAreOrdered, Child
<1>12. key \in Contents(tree) BY <1>2, <1>3, <1>5, <1>8, LeafDecides
<1>13. Leaves' = Leaves /\ \A m \in Nodes : tree'[m].key = tree[m].key /\ tree'[m].internal = tree[m].internal
 BY <1>4 DEF Swaps
<1>14. ASSUME NEW k, g \in OnPath(k), Child(tree, g, k) = p
       PROVE p \in OnPath(k) /\ Child(tree, p, k) \in OnPath(k)
 <2>1. PathClosed(tree, k, OnPath(k)) BY <1>5, PathIsLeast DEF OnPath
 <2> QED BY <1>3, <1>14, <2>1 DEF PathClosed, Inner
<1>15. ASSUME NEW k \in Keys, g \in OnPath(k), Child(tree, g, k) = p, Child(tree, p, k) = l
       PROVE k \notin Contents(tree') /\ (k \in Contents(tree) <=> k = key)
 <2>1. k \in Contents(tree) <=> k = key BY <1>2, <1>3, <1>5, <1>14, <1>15, LeafDecides
 <2>2. c \in OnPath(k)'
  <3>1. \A x \in {p, l} : tree[x].internal => Child(tree, x, k) \in {p, l} \cup {c} BY <1>3, <1>15 DEF Leaves
  <3>2. {p, l} \in SUBSET Nodes /\ p \in {p, l} /\ g \notin {p, l} /\ Root \notin {p, l} BY <1>3 DEF SwapIsClean
  <3> QED BY <1>3, <1>4, <1>5, <1>15, <3>1, <3>2, SwapKeepsPath
 <2>3. PICK f : Ranks(tree', f) BY <1>5 DEF Ranked
 <2>4. PICK m \in Path(tree', c, k) : ~tree'[m].internal BY <1>3, <1>5, <2>3, PathHasLeaf
 <2>5. m \in OnPath(k)'
  <3>1. c \in Path(tree', Root, k) BY <2>2 DEF OnPath
  <3>2. Path(tree', c, k) \subseteq Path(tree', Root, k) BY <1>5, <3>1, PathGoesOn
  <3> QED BY <2>4, <3>2 DEF OnPath
 <2>6. m \in Below(tree, c) /\ m \in Nodes
  <3>1. m \in Below(tree', c) BY <1>3, <1>5, <2>4, PathIsBelow
  <3> QED BY <1>3, <1>4, <1>5, <3>1, SwapBelow
 <2>7. tree[m].key # k BY <1>3, <1>6, <1>7, <1>15, <2>6 DEF KeysAreOrdered, Child
 <2>8. m \in Leaves' BY <1>13, <2>4, <2>6 DEF Leaves
 <2> QED BY <1>5, <1>13, <2>1, <2>5, <2>6, <2>7, <2>8, NextLeafDecides
<1>16. ASSUME NEW k \in Keys, g \in OnPath(k), Child(tree, g, k) = p, Child(tree, p, k) = c
       PROVE k # key /\ (k \in Contents(tree') <=> k \in Contents(tree))
 <2>1. k # key BY <1>3, <1>11, <1>16
 <2>2. OnPath(k) \subseteq OnPath(k)' \cup {p}
  <3>1. PICK X : X = {p} OBVIOUS
  <3>2. \A x \in X : tree[x].internal => Child(tree, x, k) \in X \cup {c} BY <1>16, <3>1
  <3>3. X \in SUBSET Nodes /\ p \in X /\ g \notin X /\ Root \notin X BY <1>3, <3>1 DEF SwapIsClean
  <3>4. OnPath(k) \subseteq OnPath(k)' \cup X BY <1>3, <1>4, <1>5, <3>2, <3>3, SwapKeepsPath
  <3> QED BY <3>1, <3>4
 <2>3. \A m \in OnPath(k) : m \in Leaves => m \in OnPath(k)' BY <1>3, <2>2 DEF Leaves, Inner
 <2> QED BY <2>1, <2>3, SameLeafDecides
<1>17. ASSUME NEW k \in Keys, g \in OnPath(k) => Child(tree, g, k) # p
       PROVE k # key /\ (k \in Contents(tree') <=> k \in Contents(tree))
 <2>1. k # key BY <1>10, <1>17
 <2>2. OnPath(k) \subseteq OnPath(k)' BY <1>3, <1>4, <1>5, <1>17, SwapLeavesPath
 <2> QED BY <2>1, <2>2, SameLeafDecides
<1>18. ASSUME NEW k \in Keys
       PROVE k \in Contents(tree') <=> k \in Contents(tree) /\ k # key
 <2>1. Child(tree, p, k) \in {l, c} BY <1>3 DEF Child
 <2> QED BY <1>15, <1>16, <1>17, <2>1
<1>19. Contents(tree') = Contents(tree) \ {key}
 <2>1. Contents(tree') \subseteq Keys /\ Contents(tree) \subseteq Keys BY DEF Contents
 <2> QED BY <1>18, <2>1
<1> QED BY <1>1, <1>2, <1>12, <1>19

-----------------------------------------------------------------------------
(* The answers: what a step leaves of the invariant of a thread.           *)

(* An answer depends on the key of the call only. *)
LEMMA ObservedOfKey ==
 ASSUME NEW c, NEW S, NEW T, c.key \in S <=> c.key \in T
 PROVE Abstract!Observed(c, S) = Abstract!Observed(c, T)
 BY DEF Abstract!Observed

(* An add or a remove that changes nothing answers FALSE. *)
LEMMA ObservedIsFalse ==
 ASSUME NEW c, NEW S
 PROVE  /\ Abstract!Observed(c, S) \in SUBSET BOOLEAN
        /\ c.op # "contains" => Abstract!Observed(c, S) \subseteq {FALSE}
        /\ Abstract!Observed(NoCall, S) = {}
<1>1. Abstract!Observed(NoCall, S) = {}
 <2>1. NoCall.op = "none" BY DEF NoCall, Abstract!NoCall
 <2>2. PICK n : n = NoCall OBVIOUS
 <2>3. Abstract!Observed(n, S) = {} BY <2>1, <2>2 DEF Abstract!Observed
 <2> QED BY <2>2, <2>3
<1>2. CASE c.op = "contains"
 <2>1. Abstract!Observed(c, S) = {c.key \in S} BY <1>2 DEF Abstract!Observed
 <2>2. (c.key \in S) \in BOOLEAN OBVIOUS
 <2>3. PICK b \in BOOLEAN : b = (c.key \in S) BY <2>2, Zenon
 <2>4. {b} \in SUBSET BOOLEAN BY Zenon
 <2>5. {b} = {c.key \in S} BY <2>3, Zenon
 <2>6. Abstract!Observed(c, S) \in SUBSET BOOLEAN BY <2>1, <2>4, <2>5, Zenon
 <2> QED BY <1>1, <1>2, <2>6
<1>3. CASE c.op = "add" BY <1>1, <1>3 DEF Abstract!Observed
<1>4. CASE c.op = "remove" BY <1>1, <1>4 DEF Abstract!Observed
<1>5. CASE c.op \notin {"contains", "add", "remove"} BY <1>1, <1>5 DEF Abstract!Observed
<1> QED BY <1>2, <1>3, <1>4, <1>5

(* The leaf that a search for the key of a call would find now. *)
LEMMA AnswerAtLeaf ==
 ASSUME Shape', Ranked', NEW t, NEW key, key = call'[t].key, key \in Keys,
        Current(t)', ~Abstract!Applied(call'[t], answers'[t]), NEW m \in OnPath(key)', m \in Leaves'
 PROVE Abstract!Observed(call'[t], SetWith(tree'[m].key, key)) \subseteq answers'[t]
<1>1. PICK S : S = Contents(tree') OBVIOUS
<1>2. key \in S <=> tree'[m].key = key BY <1>1, NextLeafDecides
<1>3. key \in SetWith(tree'[m].key, key) <=> tree'[m].key = key BY DEF SetWith
<1>4. Abstract!Observed(call'[t], SetWith(tree'[m].key, key)) = Abstract!Observed(call'[t], S)
 BY <1>2, <1>3, ObservedOfKey
<1>5. Abstract!Observed(call'[t], S) \subseteq answers'[t] BY <1>1 DEF Current
<1> QED BY <1>4, <1>5

(* From the root every search is right. *)
LEMMA SeesFromRoot ==
 ASSUME Shape', Ranked', NEW t, call'[t].key \in Keys, Current(t)', ~Abstract!Applied(call'[t], answers'[t])
 PROVE SeesFrom(t, Root)'
<1>1. PICK key : key = call'[t].key OBVIOUS
<1>2. OnPath(key)' = Path(tree', Root, key) BY DEF OnPath
<1>3. ASSUME NEW m \in Path(tree', Root, key), m \in Leaves'
      PROVE Abstract!Observed(call'[t], SetWith(tree'[m].key, key)) \subseteq answers'[t]
 BY <1>1, <1>2, <1>3, AnswerAtLeaf
<1> QED BY <1>1, <1>2, <1>3 DEF SeesFrom

(* A search on its way goes on seeing what was right, or what is now. *)
LEMMA SeesStays ==
 ASSUME Shape, Shape', Ranked', Grows, NEW t, call'[t] = call[t], NEW key, key = call[t].key, key \in Keys,
        answers[t] \subseteq answers'[t],
        Current(t)', ~Abstract!Applied(call'[t], answers'[t]),
        \A m \in Inner : Dead(m) => Dead(m)',
        \A m \in OnPath(key) \cap Inner : m \in OnPath(key)' \/ Dead(m)',
        NEW n \in Nodes, Path(tree', n, key) \subseteq Path(tree, n, key) \cup OnPath(key)', SeesFrom(t, n)
 PROVE SeesFrom(t, n)'
<1>1. Path(tree, n, key) \subseteq Nodes BY TreeIsLinked, PathIsLeast
<1>2. \A m \in Nodes : /\ tree'[m].key = tree[m].key
                       /\ m \in Inner' => m \in Inner
                       /\ m \in Leaves' => m \in Leaves
 BY DEF Grows, Inner, Leaves
<1>3. \A m \in Path(tree, n, key) :
        /\ m \in Inner => Dead(m) \/ m \in OnPath(key)
        /\ m \in Leaves => Abstract!Observed(call[t], SetWith(tree[m].key, key)) \subseteq answers[t]
 BY DEF SeesFrom
<1>4. ASSUME NEW m \in Path(tree', n, key), m \in Inner'
      PROVE Dead(m)' \/ m \in OnPath(key)'
 <2>1. CASE m \in Path(tree, n, key)
  <3>1. m \in Inner BY <1>1, <1>2, <1>4, <2>1
  <3>2. Dead(m) \/ m \in OnPath(key) BY <1>3, <2>1, <3>1
  <3> QED BY <3>1, <3>2
 <2> QED BY <2>1
<1>5. ASSUME NEW m \in Path(tree', n, key), m \in Leaves'
      PROVE Abstract!Observed(call'[t], SetWith(tree'[m].key, key)) \subseteq answers'[t]
 <2>1. CASE m \in Path(tree, n, key)
  <3>1. m \in Leaves /\ tree'[m].key = tree[m].key BY <1>1, <1>2, <1>5, <2>1
  <3>2. Abstract!Observed(call[t], SetWith(tree[m].key, key)) \subseteq answers[t] BY <1>3, <2>1, <3>1
  <3> QED BY <3>1, <3>2
 <2>2. CASE m \in OnPath(key)' BY <1>5, <2>2, AnswerAtLeaf
 <2> QED BY <2>1, <2>2
<1>6. call'[t].key = key OBVIOUS
<1> QED BY <1>4, <1>5, <1>6 DEF SeesFrom

(* A thread that a calm step does not move, or moves within Help*. *)
LEMMA CalmStays ==
 ASSUME SetInv, GlobalInv', TreeInv', Grows, Still, NEW t \in Threads,
        pc'[t] = pc[t], search'[t] = search[t], own'[t] = own[t],
        call'[t] = call[t], answers'[t] = answers[t],
        own[t] => stack'[t][1].op = stack[t][1].op
 PROVE CallsInv(t)'
<1>1. /\ NBBSTInv /\ GlobalInv /\ TreeInv /\ CallsInv(t) /\ ThreadInv(t)
      /\ Shape /\ Shape' /\ Ranked'
 BY DEF SetInv, NBBSTInv, GlobalInv, TreeInv
<1>2. /\ Contents(tree') = Contents(tree)
      /\ \A n \in Inner : Dead(n) => Dead(n)'
      /\ \A op \in InfoIds : /\ HasEffect(op)' <=> HasEffect(op)
                             /\ HasEffect(op) \/ CallOf(op)' = CallOf(op)
 BY <1>1, CalmEffects
<1>3. CallInv(t)' BY <1>1 DEF CallsInv, CallInv
<1>4. Current(t)' BY <1>1, <1>2 DEF CallsInv, Current
<1>5. OwnInv(t)'
 <2>1. CASE own[t]
  <3>1. PICK op : op = stack[t][1].op OBVIOUS
  <3>2. /\ pc[t] = "help" /\ op \in InfoIds /\ Owner(op) = t /\ call[t].op # "contains"
        /\ HasEffect(op) \/ call[t] = CallOf(op)
        /\ TRUE \in answers[t] <=> HasEffect(op)
   BY <1>1, <2>1, <3>1 DEF CallsInv, OwnInv
  <3>3. op \in InfoIds' /\ stack'[t][1].op = op /\ own'[t] BY <2>1, <3>1, <3>2 DEF Grows
  <3>4. HasEffect(op)' \/ call[t] = CallOf(op)' BY <1>2, <3>2
  <3>5. TRUE \in answers[t] <=> HasEffect(op)' BY <1>2, <3>2
  <3>6. HasEffect(stack[t][1].op)' <=> HasEffect(op)'
   BY <3>3 DEF HasEffect, Pending, Marked, Linked, Unseen, LeftmostStays, Word, Kids, Info
  <3>7. CallOf(stack[t][1].op)' = CallOf(op)' BY <3>3 DEF CallOf, NewKey, Info
  <3> QED BY <3>2, <3>3, <3>4, <3>5, <3>6, <3>7 DEF OwnInv
 <2>2. CASE ~own[t] BY <1>1, <2>2 DEF CallsInv, OwnInv
 <2> QED BY <2>1, <2>2
<1>6. ASSUME NEW n \in Nodes, SeesFrom(t, n), pc[t] \in {"update", "child", "result", "flag"}
      PROVE SeesFrom(t, n)'
 <2>1. PICK key : key = call[t].key OBVIOUS
 <2>2. key \in Keys /\ ~own[t] BY <1>1, <1>6, <2>1 DEF ThreadInv, CallsInv, OwnInv
 <2>3. ~Abstract!Applied(call'[t], answers'[t]) BY <1>1, <2>2 DEF CallsInv, OwnInv
 <2>4. Path(tree', n, key) = Path(tree, n, key) BY <1>1, StillPaths
 <2>5. OnPath(key)' = OnPath(key)
  <3>1. Root \in Nodes BY <1>1 DEF Shape, Inner
  <3>2. Path(tree', Root, key) = Path(tree, Root, key) BY <1>1, <3>1, StillPaths
  <3> QED BY <3>2 DEF OnPath
 <2> QED BY <1>1, <1>2, <1>4, <1>6, <2>1, <2>2, <2>3, <2>4, <2>5, SeesStays
<1>7. Sees(t)'
 <2>1. pc[t] = "update" => search[t].l \in Nodes /\ SeesFrom(t, search[t].l)
  BY <1>1 DEF CallsInv, Sees, ThreadInv, AtUpdate, Inner
 <2>2. pc[t] \in {"child", "result", "flag"} => search[t].p \in Nodes /\ SeesFrom(t, search[t].p)
  BY <1>1 DEF CallsInv, Sees, ThreadInv, AtNode, Inner
 <2>3. ASSUME NEW n, n = search[t].l PROVE SeesFrom(t, n)' => SeesFrom(t, search[t].l)' BY <2>3 DEF SeesFrom
 <2>4. ASSUME NEW n, n = search[t].p PROVE SeesFrom(t, n)' => SeesFrom(t, search[t].p)' BY <2>4 DEF SeesFrom
 <2>5. pc[t] = "update" => SeesFrom(t, search[t].l)'
  <3>1. PICK n : n = search[t].l OBVIOUS
  <3>2. pc[t] = "update" => SeesFrom(t, n)' BY <1>6, <2>1, <3>1
  <3> QED BY <2>3, <3>1, <3>2
 <2>6. pc[t] \in {"child", "result", "flag"} => SeesFrom(t, search[t].p)'
  <3>1. PICK n : n = search[t].p OBVIOUS
  <3>2. pc[t] \in {"child", "result", "flag"} => SeesFrom(t, n)' BY <1>6, <2>2, <3>1
  <3> QED BY <2>4, <3>1, <3>2
 <2> QED BY <2>5, <2>6 DEF Sees
<1> QED BY <1>3, <1>4, <1>5, <1>7 DEF CallsInv

-----------------------------------------------------------------------------

(* What such a step starts from. *)
LEMMA CalmFacts ==
 ASSUME SetInv, Keeps, Still, TreeInv', NEW t \in Threads
 PROVE  /\ NBBSTInv /\ NBBSTInv' /\ Grows /\ GlobalInv /\ GlobalInv' /\ TreeInv
        /\ Shape /\ Shape' /\ Ranked' /\ HistoryTypes /\ ControlTypes
        /\ CallsInv(t) /\ ThreadInv(t)
        /\ Contents(tree') = Contents(tree)
        /\ \A op \in InfoIds : /\ HasEffect(op)' <=> HasEffect(op)
                               /\ Unfinished(op)' => Unfinished(op)
<1>1. /\ NBBSTInv /\ NBBSTInv' /\ Grows /\ GlobalInv /\ GlobalInv' /\ TreeInv
      /\ Shape /\ Shape' /\ Ranked' /\ HistoryTypes /\ ControlTypes
      /\ CallsInv(t) /\ ThreadInv(t)
 BY DEF SetInv, Keeps, NBBSTInv, GlobalInv, TreeInv
<1> QED BY <1>1, CalmEffects

(* The other threads keep their part of the invariant. *)
LEMMA CalmMoves ==
 ASSUME SetInv, Keeps, Still, TreeInv', NEW t \in Threads, OnlyMoves(t), CallsInv(t)',
        \A op \in InfoIds' : Owner(op) = t /\ Unfinished(op)' => RunsOwn(t, op)',
        \A op \in InfoIds' : op \in InfoIds \/ Owner(op) = t
 PROVE SetInv'
<1>1. /\ NBBSTInv' /\ Grows /\ GlobalInv' /\ HistoryTypes'
      /\ \A op \in InfoIds : Unfinished(op)' => Unfinished(op)
 BY CalmFacts DEF OnlyMoves
<1>2. ASSUME NEW u \in Threads \ {t} PROVE CallsInv(u)' BY <1>1, CalmStays DEF OnlyMoves
<1>3. ASSUME NEW op \in InfoIds', Unfinished(op)' PROVE RunsOwn(Owner(op), op)'
 <2>1. CASE Owner(op) = t BY <1>3, <2>1 DEF RunsOwn
 <2>2. CASE Owner(op) # t
  <3>1. op \in InfoIds BY <1>3, <2>2
  <3>2. Owner(op) \in Threads BY <3>1, IdsOfInfos DEF Owner
  <3>3. RunsOwn(Owner(op), op) BY <1>1, <1>3, <3>1 DEF SetInv, OwnersHelp
  <3> QED BY <2>2, <3>2, <3>3 DEF OnlyMoves, RunsOwn
 <2> QED BY <2>1, <2>2
<1>4. OwnersHelp' BY <1>3 DEF OwnersHelp
<1> QED BY <1>1, <1>2, <1>4 DEF SetInv

(* A thread that goes on with its own operation, or that has none. *)
LEMMA OwnedStay ==
 ASSUME SetInv, Keeps, Still, TreeInv', NEW t \in Threads, own'[t] = own[t],
        own[t] => stack'[t][1].op = stack[t][1].op
 PROVE \A op \in InfoIds : Owner(op) = t /\ Unfinished(op)' => RunsOwn(t, op)'
<1>1. ASSUME NEW op \in InfoIds, Owner(op) = t, Unfinished(op)'
      PROVE RunsOwn(t, op)'
 <2>1. Unfinished(op) BY <1>1, CalmFacts
 <2>2. RunsOwn(t, op) BY <1>1, <2>1 DEF SetInv, OwnersHelp, RunsOwn
 <2> QED BY <2>2 DEF RunsOwn
<1> QED BY <1>1

(* A thread that leaves its operation when that is over. *)
LEMMA OwnedDone ==
 ASSUME SetInv, Keeps, Still, TreeInv', NEW t \in Threads, NEW q, q = stack[t][1].op,
        own[t] => ~Unfinished(q)
 PROVE \A op \in InfoIds : Owner(op) = t => ~Unfinished(op)'
<1>1. ASSUME NEW op \in InfoIds, Owner(op) = t, Unfinished(op)'
      PROVE FALSE
 <2>1. Unfinished(op) BY <1>1, CalmFacts
 <2>2. own[t] /\ stack[t][1].op = op BY <1>1, <2>1 DEF SetInv, OwnersHelp, RunsOwn
 <2> QED BY <2>1, <2>2
<1> QED BY <1>1

(* The search starts again: the thread has no operation any more. *)
LEMMA RetrySet ==
 ASSUME Calm, NEW t \in Threads, pc[t] # "idle", Retry(t), NEW q, q = stack[t][1].op,
        own[t] => ~HasEffect(q) /\ ~Unfinished(q)
 PROVE SetInv' /\ UNCHANGED <<Contents(tree), call, answers, result>>
<1>1. SetInv /\ Keeps /\ Still /\ TreeInv' /\ InfoIds' = InfoIds BY DEF Calm
<1>2. /\ NBBSTInv' /\ Shape' /\ Ranked' /\ HistoryTypes /\ ControlTypes
      /\ CallsInv(t) /\ ThreadInv(t) /\ Contents(tree') = Contents(tree)
 BY <1>1, CalmFacts
<1>3. /\ pc' = [pc EXCEPT ![t] = "update"] /\ search' = [search EXCEPT ![t].l = Root]
      /\ stack' = [stack EXCEPT ![t] = <<>>] /\ own' = [own EXCEPT ![t] = FALSE]
      /\ UNCHANGED <<call, answers, result>>
 BY DEF Retry, GoTo, history
<1>4. /\ pc'[t] = "update" /\ search'[t].l = Root /\ own'[t] = FALSE
      /\ call'[t] = call[t] /\ answers'[t] = answers[t] /\ OnlyMoves(t)
 <2>1. search[t] = [search[t] EXCEPT !.l = search[t].l] /\ search[t] \in Searches
  BY <1>2 DEF ThreadInv, SearchInv, Searches
 <2>2. search'[t] = [search[t] EXCEPT !.l = Root] BY <1>2, <1>3 DEF ControlTypes
 <2>3. search'[t].l = Root BY <2>1, <2>2 DEF Searches
 <2>4. /\ pc'[t] = "update" /\ own'[t] = FALSE /\ HistoryTypes'
       /\ \A u \in Threads \ {t} :
             /\ pc'[u] = pc[u] /\ search'[u] = search[u] /\ stack'[u] = stack[u]
             /\ own'[u] = own[u] /\ call'[u] = call[u] /\ answers'[u] = answers[u]
  BY <1>2, <1>3 DEF ControlTypes, HistoryTypes
 <2> QED BY <1>3, <2>3, <2>4 DEF OnlyMoves
<1>5. ~Abstract!Applied(call[t], answers[t])
 <2>1. CASE own[t]
  <3>1. TRUE \notin answers[t]
   <4>1. TRUE \in answers[t] <=> HasEffect(stack[t][1].op) BY <1>2, <2>1 DEF CallsInv, OwnInv
   <4>2. HasEffect(stack[t][1].op) <=> HasEffect(q) OBVIOUS
   <4> QED BY <2>1, <4>1, <4>2
  <3> QED BY <3>1 DEF Abstract!Applied
 <2>2. CASE ~own[t] BY <1>2, <2>2 DEF CallsInv, OwnInv
 <2> QED BY <2>1, <2>2
<1>6. CallInv(t)' /\ OwnInv(t)' /\ Current(t)' BY <1>2, <1>4, <1>5 DEF CallsInv, CallInv, OwnInv, Current
<1>7. Sees(t)'
 <2>1. call'[t].key \in Keys BY <1>2, <1>4 DEF ThreadInv
 <2>2. SeesFrom(t, Root)' BY <1>2, <1>4, <1>5, <1>6, <2>1, SeesFromRoot
 <2> QED BY <1>4, <2>2 DEF Sees, SeesFrom
<1>8. CallsInv(t)' BY <1>6, <1>7 DEF CallsInv
<1>9. \A op \in InfoIds : Owner(op) = t => ~Unfinished(op)' BY <1>1, OwnedDone
<1>10. SetInv' BY <1>1, <1>4, <1>8, <1>9, CalmMoves
<1> QED BY <1>2, <1>3, <1>10

(* A call returns what the set has answered. *)
LEMMA ReturnSet ==
 ASSUME Calm, NEW t \in Threads, pc[t] # "idle", NEW r \in BOOLEAN, Return(t, r), r \in answers[t],
        NEW q, q = stack[t][1].op, own[t] => ~Unfinished(q)
 PROVE SetInv' /\ Abstract!SetReturn(t, r)
<1>1. SetInv /\ Keeps /\ Still /\ TreeInv' /\ InfoIds' = InfoIds BY DEF Calm
<1>2. /\ HistoryTypes /\ ControlTypes
      /\ CallsInv(t) /\ Contents(tree') = Contents(tree)
 BY <1>1, CalmFacts
<1>3. /\ pc' = [pc EXCEPT ![t] = "idle"] /\ search' = [search EXCEPT ![t] = NoSearch]
      /\ stack' = [stack EXCEPT ![t] = <<>>] /\ own' = [own EXCEPT ![t] = FALSE]
      /\ call' = [call EXCEPT ![t] = NoCall] /\ answers' = [answers EXCEPT ![t] = {}]
      /\ result' = [result EXCEPT ![t] = {r}]
 BY DEF Return, GoTo
<1>4. /\ pc'[t] = "idle" /\ own'[t] = FALSE /\ call'[t] = NoCall /\ answers'[t] = {} /\ OnlyMoves(t)
 BY <1>2, <1>3 DEF OnlyMoves, HistoryTypes, ControlTypes
<1>5. CallInv(t)' /\ Sees(t)' BY <1>4 DEF CallInv, Sees
<1>6. OwnInv(t)' BY <1>4 DEF OwnInv, Abstract!Applied
<1>7. Current(t)' BY <1>4, ObservedIsFalse DEF Current
<1>8. CallsInv(t)' BY <1>5, <1>6, <1>7 DEF CallsInv
<1>9. \A op \in InfoIds : Owner(op) = t => ~Unfinished(op)' BY <1>1, OwnedDone
<1>10. SetInv' BY <1>1, <1>4, <1>8, <1>9, CalmMoves
<1>11. call[t] # NoCall BY <1>2 DEF CallsInv, CallInv
<1>12. Abstract!SetReturn(t, r) BY <1>2, <1>3, <1>11 DEF Abstract!SetReturn, NoCall
<1> QED BY <1>10, <1>12

(* The first frame of a stack, when the innermost call goes on. *)
LEMMA FirstStays ==
 ASSUME NEW S, NEW q \in Seq(S), q # <<>>, NEW frames \in Seq(S), Len(q) > 1 \/ frames # <<>>
 PROVE  /\ Len(q) > 1 => (Front(q) \o frames)[1] = q[1]
        /\ ~(Len(q) > 1) => (Front(q) \o frames)[1] = frames[1] /\ Last(q) = q[1]
<1>1. PICK n \in Nat : n = Len(q) /\ n # 0 OBVIOUS
<1>2. PICK front : front = Front(q) OBVIOUS
<1>3. front \in Seq(S) /\ Len(front) = n - 1 BY <1>1, <1>2, StackFacts
<1>4. CASE n > 1
 <2>1. front[1] = q[1]
  <3>1. front = SubSeq(q, 1, n - 1) BY <1>1, <1>2 DEF Front
  <3>2. PICK m \in Int : m = n - 1 /\ m >= 1 /\ \A i \in 1 .. m : q[i] \in S BY <1>1, <1>4
  <3>3. \A i \in 1 .. m : SubSeq(q, 1, m)[i] = q[1 + i - 1] BY <3>2, SubSeqProperties
  <3>4. SubSeq(q, 1, m)[1] = q[1 + 1 - 1] BY <3>2, <3>3
  <3> QED BY <3>1, <3>2, <3>4
 <2>2. (front \o frames)[1] = front[1] BY <1>3, <1>4
 <2> QED BY <1>1, <1>2, <1>4, <2>1, <2>2
<1>5. CASE n = 1
 <2>1. Len(front) = 0 /\ Len(frames) # 0 /\ Len(frames) \in Nat BY <1>1, <1>3, <1>5
 <2>2. (front \o frames)[1] = frames[1] BY <1>3, <2>1
 <2>3. Last(q) = q[1] BY <1>1, <1>5 DEF Last
 <2> QED BY <1>1, <1>2, <1>5, <2>2, <2>3
<1>6. n > 1 \/ n = 1 BY <1>1
<1> QED BY <1>4, <1>5, <1>6

(* The innermost call goes on: the outermost is still for the same operation. *)
LEMMA ContinueFirst ==
 ASSUME NBBSTInv, NEW t \in Threads, pc[t] = "help", NEW S, FrameSet \subseteq S,
        NEW frames \in Seq(S), Continue(t, frames), frames # <<>> \/ Len(stack[t]) > 1,
        ~(Len(stack[t]) > 1) => frames[1].op = Top(t).op
 PROVE  /\ stack'[t][1].op = stack[t][1].op
        /\ \A u \in Threads \ {t} : stack'[u] = stack[u]
        /\ UNCHANGED <<pc, search, own>>
<1>1. PICK q : q = stack[t] OBVIOUS
<1>2. q \in Seq(S) /\ q # <<>> BY <1>1, TopIsFrame
<1>3. stack'[t] = Front(q) \o frames /\ \A u \in Threads \ {t} : stack'[u] = stack[u]
 BY <1>1 DEF Continue, NBBSTInv, ControlTypes
<1>4. stack'[t][1].op = q[1].op
 <2>1. CASE Len(q) > 1
  <3>1. (Front(q) \o frames)[1] = q[1] BY <1>2, <2>1, FirstStays
  <3> QED BY <1>3, <3>1
 <2>2. CASE ~(Len(q) > 1)
  <3>1. (Front(q) \o frames)[1] = frames[1] /\ Last(q) = q[1] BY <1>1, <1>2, <2>2, FirstStays
  <3>2. frames[1].op = Last(q).op BY <1>1, <2>2 DEF Top
  <3> QED BY <1>3, <3>1, <3>2
 <2> QED BY <2>1, <2>2
<1> QED BY <1>1, <1>3, <1>4 DEF Continue

(* So a thread that helps keeps its part of the invariant. *)
LEMMA ContinueSet ==
 ASSUME Calm, NEW t \in Threads, pc[t] = "help", NEW S, FrameSet \subseteq S,
        NEW frames \in Seq(S), Continue(t, frames), frames # <<>> \/ Len(stack[t]) > 1,
        ~(Len(stack[t]) > 1) => frames[1].op = Top(t).op,
        UNCHANGED <<call, answers, result>>
 PROVE SetInv' /\ UNCHANGED <<Contents(tree), call, answers, result>>
<1>1. SetInv /\ Keeps /\ Still /\ TreeInv' /\ InfoIds' = InfoIds BY DEF Calm
<1>2. /\ NBBSTInv /\ GlobalInv' /\ Grows /\ HistoryTypes /\ Contents(tree') = Contents(tree) BY <1>1, CalmFacts
<1>3. /\ stack'[t][1].op = stack[t][1].op
      /\ \A u \in Threads \ {t} : stack'[u] = stack[u]
      /\ UNCHANGED <<pc, search, own>>
 BY <1>2, ContinueFirst
<1>4. CallsInv(t)' BY <1>1, <1>2, <1>3, CalmStays
<1>5. OnlyMoves(t) BY <1>2, <1>3 DEF OnlyMoves, HistoryTypes
<1>6. \A op \in InfoIds : Owner(op) = t /\ Unfinished(op)' => RunsOwn(t, op)' BY <1>1, <1>3, OwnedStay
<1>7. SetInv' BY <1>1, <1>4, <1>5, <1>6, CalmMoves
<1> QED BY <1>2, <1>7

(* A step that leaves the memory alone, or changes words only. *)
LEMMA QuietIsCalm ==
 ASSUME SetInv, Keeps, UNCHANGED <<tree, infos>>
 PROVE Calm
<1>1. Still /\ Nodes' = Nodes /\ InfoIds' = InfoIds BY DEF Still, SameKids, Nodes, InfoIds, Inner
<1>2. TreeInv' BY <1>1, CalmKeepsTree DEF SetInv, Keeps, NBBSTInv
<1> QED BY <1>1, <1>2 DEF Calm

(* The same of a change of one word. *)
LEMMA WordIsCalm ==
 ASSUME SetInv, Keeps, UNCHANGED infos, NEW n \in Inner, NEW u, SetUpdate(n, u)
 PROVE Calm
<1>1. Shape /\ InfosStay BY DEF SetInv, NBBSTInv, GlobalInv, InfosStay, InfoIds, Info
<1>2. OnlyWord(n, u) /\ Nodes' = Nodes /\ InfoIds' = InfoIds BY <1>1, SetsWord DEF InfoIds
<1>3. Still BY <1>2 DEF OnlyWord, Still
<1>4. TreeInv' BY <1>2, <1>3, CalmKeepsTree DEF SetInv, Keeps, NBBSTInv
<1> QED BY <1>2, <1>3, <1>4 DEF Calm

(* The CAS of a word, done or failed. *)
LEMMA StateIsCalm ==
 ASSUME SetInv, Keeps, UNCHANGED infos, NEW n \in Inner, NEW op, NEW from, NEW to, CASState(n, op, from, to)
 PROVE Calm
<1>1. SetUpdate(n, Update(to, op)) \/ UNCHANGED tree BY DEF CASState
<1>2. CASE SetUpdate(n, Update(to, op))
 <2>1. PICK u : u = Update(to, op) OBVIOUS
 <2>2. SetUpdate(n, u) BY <1>2, <2>1
 <2> QED BY <2>2, WordIsCalm
<1>3. CASE UNCHANGED tree BY <1>3, QuietIsCalm
<1> QED BY <1>1, <1>2, <1>3

(* A thread that searches has no operation of its own. *)
LEMMA SearchersOwnNothing ==
 ASSUME SetInv, NEW t \in Threads, pc[t] # "help"
 PROVE ~own[t] /\ ~Abstract!Applied(call[t], answers[t])
 BY DEF SetInv, CallsInv, OwnInv

(* What a search sees does not depend on the threads. *)
LEMMA SeesSame ==
 ASSUME UNCHANGED <<tree, infos>>, NEW t, call'[t] = call[t], answers'[t] = answers[t], NEW n, SeesFrom(t, n)
 PROVE SeesFrom(t, n)'
<1>1. PICK k, a, c : k = call[t].key /\ a = answers[t] /\ c = call[t] OBVIOUS
<1>2. \A m : Dead(m)' <=> Dead(m) BY DEF Dead, Word, Kids, Info
<1>3. OnPath(k)' = OnPath(k) /\ Inner' = Inner /\ Leaves' = Leaves BY DEF OnPath, Inner, Leaves, Nodes
<1>4. \A m \in Path(tree, n, k) :
        /\ m \in Inner => Dead(m) \/ m \in OnPath(k)
        /\ m \in Leaves => Abstract!Observed(c, SetWith(tree[m].key, k)) \subseteq a
 BY <1>1 DEF SeesFrom
<1>5. \A m \in Path(tree', n, k) :
        /\ m \in Inner' => Dead(m)' \/ m \in OnPath(k)'
        /\ m \in Leaves' => Abstract!Observed(c, SetWith(tree'[m].key, k)) \subseteq a
 BY <1>2, <1>3, <1>4
<1>6. call'[t].key = k /\ call'[t] = c /\ answers'[t] = a BY <1>1
<1>7. SeesFrom(t, n)' <=>
        \A m \in Path(tree', n, call'[t].key) :
          /\ m \in Inner' => Dead(m)' \/ m \in OnPath(call[t].key)'
          /\ m \in Leaves' =>
               Abstract!Observed(call'[t], SetWith(tree'[m].key, call'[t].key)) \subseteq answers'[t]
 BY DEF SeesFrom
<1>8. OnPath(call[t].key)' = Path(tree', Root, call'[t].key) /\ OnPath(k)' = Path(tree', Root, k) BY DEF OnPath
<1> QED BY <1>5, <1>6, <1>7, <1>8

(* A thread that goes on with its search. *)
LEMMA SearchSet ==
 ASSUME SetInv, Keeps, UNCHANGED <<tree, infos>>, NEW t \in Threads, pc[t] \notin {"idle", "help"},
        NEW at, at \notin {"idle", "help"}, NEW s,
        pc' = [pc EXCEPT ![t] = at],
        search' = [search EXCEPT ![t] = s] \/ (UNCHANGED search /\ s = search[t]),
        UNCHANGED <<stack, own, call, answers, result>>,
        at = "update" => SeesFrom(t, s.l), at \in {"child", "result", "flag"} => SeesFrom(t, s.p)
 PROVE SetInv' /\ UNCHANGED <<Contents(tree), call, answers, result>>
<1>1. Calm BY QuietIsCalm
<1>2. SetInv /\ Keeps /\ Still /\ TreeInv' /\ InfoIds' = InfoIds BY <1>1 DEF Calm
<1>3. HistoryTypes /\ ControlTypes /\ CallsInv(t) /\ Contents(tree') = Contents(tree) BY <1>2, CalmFacts
<1>4. pc'[t] = at /\ search'[t] = s /\ OnlyMoves(t) BY <1>3 DEF OnlyMoves, HistoryTypes, ControlTypes
<1>5. CallInv(t)' /\ Current(t)' BY <1>3, <1>4 DEF CallsInv, CallInv, Current
<1>6. OwnInv(t)' BY SearchersOwnNothing DEF OwnInv
<1>7. Sees(t)'
 <2>1. PICK l, p : l = s.l /\ p = s.p OBVIOUS
 <2>2. at = "update" => SeesFrom(t, l)'
  <3>1. at = "update" => SeesFrom(t, l) BY <2>1
  <3> QED BY <3>1, SeesSame
 <2>3. at \in {"child", "result", "flag"} => SeesFrom(t, p)'
  <3>1. at \in {"child", "result", "flag"} => SeesFrom(t, p) BY <2>1
  <3> QED BY <3>1, SeesSame
 <2>4. search'[t].l = l /\ search'[t].p = p BY <1>4, <2>1
 <2>5. /\ SeesFrom(t, l)' => SeesFrom(t, search[t].l)'
       /\ SeesFrom(t, p)' => SeesFrom(t, search[t].p)'
  BY <2>4 DEF SeesFrom
 <2> QED BY <1>4, <2>2, <2>3, <2>5 DEF Sees
<1>8. CallsInv(t)' BY <1>5, <1>6, <1>7 DEF CallsInv
<1>9. \A op \in InfoIds : Owner(op) = t /\ Unfinished(op)' => RunsOwn(t, op)'
 <2>1. own'[t] = own[t] /\ (own[t] => stack'[t][1].op = stack[t][1].op) OBVIOUS
 <2> QED BY <1>2, <2>1, OwnedStay
<1>10. SetInv' BY <1>2, <1>4, <1>8, <1>9, CalmMoves
<1> QED BY <1>3, <1>10

(* What Search comes to next, it sees as well; a leaf is the answer. *)
LEMMA NextIsSeen ==
 ASSUME SetInv, NEW t \in Threads, pc[t] = "child", NEW n, n = NextChild(t)
 PROVE  /\ n \in Nodes /\ SeesFrom(t, n)
        /\ ~tree[n].internal =>
             Abstract!Observed(call[t], SetWith(tree[n].key, call[t].key)) \subseteq answers[t]
<1>1. PICK p, k : p = search[t].p /\ k = call[t].key OBVIOUS
<1>2. /\ ThreadInv(t) /\ GlobalInv /\ Shape /\ SeesFrom(t, search[t].p)
 BY DEF SetInv, NBBSTInv, GlobalInv, CallsInv, Sees
<1>3. p \in Inner /\ k \in Keys /\ p \in Nodes BY <1>1, <1>2 DEF ThreadInv, AtNode, Inner
<1>4. n \in Nodes BY <1>1, <1>2, <1>3, NextChildFacts
<1>5. IsLinked(tree) /\ Nodes = DOMAIN tree BY <1>2, TreeIsLinked
<1>6. Path(tree, n, k) \subseteq Path(tree, p, k)
 <2>1. n = Child(tree, p, k) BY <1>1 DEF NextChild
 <2> QED BY <1>3, <1>5, <2>1, PathUnfolds DEF Inner
<1>7. SeesFrom(t, n) BY <1>1, <1>2, <1>6 DEF SeesFrom
<1>8. n \in Path(tree, n, k) BY <1>4, <1>5, PathIsLeast
<1>9. ~tree[n].internal =>
        Abstract!Observed(call[t], SetWith(tree[n].key, call[t].key)) \subseteq answers[t]
 BY <1>1, <1>4, <1>7, <1>8 DEF SeesFrom, Leaves
<1> QED BY <1>4, <1>7, <1>9

-----------------------------------------------------------------------------

(* The steps of the set. *)
LEMMA SetSteps ==
    /\ UNCHANGED <<Contents(tree), call, answers, result>> => Refines
    /\ \A t \in Threads : \A r \in BOOLEAN : Abstract!SetReturn(t, r) => Refines
    /\ \A t \in Threads : \A c \in Abstract!SetCalls : Abstract!SetInvoke(t, c) => Refines
    /\ \A t \in Threads : Abstract!SetAdd(t) \/ Abstract!SetRemove(t) => Refines
 BY DEF Refines, Abstract!SetNext, Abstract!setVars

(* Search reads an update word. *)
LEMMA ReadUpdateSet ==
 ASSUME SetInv, Keeps, NEW t \in Threads, ReadUpdate(t)
 PROVE SetInv' /\ Refines
<1>1. PICK s, q : /\ s = search[t]
                  /\ q = [gp |-> s.p, p |-> s.l, l |-> s.l,
                          gpupdate |-> s.pupdate, pupdate |-> tree[s.l].update]
 OBVIOUS
<1>2. /\ pc[t] = "update" /\ pc' = [pc EXCEPT ![t] = "child"] /\ search' = [search EXCEPT ![t] = q]
      /\ UNCHANGED <<tree, infos>> /\ UNCHANGED <<stack, own, call, answers, result>>
 BY <1>1 DEF ReadUpdate, GoTo, memory, history
<1>3. q.p = s.l BY <1>1
<1>4. SeesFrom(t, q.p)
 <2>1. SeesFrom(t, search[t].l) BY <1>2 DEF SetInv, CallsInv, Sees
 <2>2. q.p = search[t].l BY <1>1, <1>3
 <2> QED BY <2>1, <2>2
<1>5. SetInv' /\ UNCHANGED <<Contents(tree), call, answers, result>> BY <1>2, <1>4, SearchSet
<1> QED BY <1>5, SetSteps

(* Search goes down one node. *)
LEMMA ReadChildSet ==
 ASSUME SetInv, Keeps, NEW t \in Threads, ReadChild(t)
 PROVE SetInv' /\ Refines
<1>1. PICK s, n : s = search[t] /\ n = NextChild(t) OBVIOUS
<1>2. PICK q : q = [s EXCEPT !.l = n] OBVIOUS
<1>3. /\ pc[t] = "child" /\ pc' = [pc EXCEPT ![t] = "update"] /\ search' = [search EXCEPT ![t] = q]
      /\ UNCHANGED <<tree, infos>> /\ UNCHANGED <<stack, own, call, answers, result>>
 BY <1>1, <1>2 DEF ReadChild, GoTo, memory, history
<1>4. s \in Searches BY <1>1 DEF SetInv, NBBSTInv, ThreadInv, SearchInv
<1>5. q.l = n BY <1>2, <1>4, SearchFields
<1>6. SeesFrom(t, q.l) BY <1>1, <1>3, <1>5, NextIsSeen
<1>7. SetInv' /\ UNCHANGED <<Contents(tree), call, answers, result>> BY <1>3, <1>6, SearchSet
<1> QED BY <1>7, SetSteps

(* Search has reached the leaf that the operation is about. *)
LEMMA PreparesSet ==
 ASSUME SetInv, Keeps, NEW t \in Threads, PreparesOperation(t)
 PROVE SetInv' /\ Refines
<1>1. PICK s, n : s = search[t] /\ n = NextChild(t) OBVIOUS
<1>2. PICK q : q = [s EXCEPT !.l = n] OBVIOUS
<1>3. /\ pc[t] = "child" /\ pc' = [pc EXCEPT ![t] = "result"] /\ search' = [search EXCEPT ![t] = q]
      /\ UNCHANGED <<tree, infos>> /\ UNCHANGED <<stack, own, call, answers, result>>
 BY <1>1, <1>2 DEF PreparesOperation, Proceeds, Reaches, GoTo, memory, history
<1>4. s \in Searches BY <1>1 DEF SetInv, NBBSTInv, ThreadInv, SearchInv
<1>5. q.p = s.p BY <1>2, <1>4, SearchFields
<1>6. SeesFrom(t, q.p)
 <2>1. SeesFrom(t, search[t].p) BY <1>3 DEF SetInv, CallsInv, Sees
 <2> QED BY <1>1, <1>5, <2>1
<1>7. SetInv' /\ UNCHANGED <<Contents(tree), call, answers, result>> BY <1>3, <1>6, SearchSet
<1> QED BY <1>7, SetSteps

(* The word is read again before it is flagged. *)
LEMMA ReadResultSet ==
 ASSUME SetInv, Keeps, NEW t \in Threads, ReadResult(t)
 PROVE SetInv' /\ Refines
<1>1. PICK s : s = search[t] OBVIOUS
<1>2. /\ pc[t] = "result" /\ pc' = [pc EXCEPT ![t] = "flag"] /\ UNCHANGED search
      /\ UNCHANGED <<tree, infos>> /\ UNCHANGED <<stack, own, call, answers, result>>
 BY DEF ReadResult, GoTo, memory, history
<1>3. SeesFrom(t, s.p)
 <2>1. SeesFrom(t, search[t].p) BY <1>2 DEF SetInv, CallsInv, Sees
 <2> QED BY <1>1, <2>1
<1>4. SetInv' /\ UNCHANGED <<Contents(tree), call, answers, result>> BY <1>1, <1>2, <1>3, SearchSet
<1> QED BY <1>4, SetSteps

(* What the leaf says is an answer of the set. *)
LEMMA FoundIsAnswer ==
 ASSUME SetInv, NEW t \in Threads, NEW op, NEW found, Reaches(t, op, found)
 PROVE  /\ op = "contains" => found \in answers[t]
        /\ op = "add" /\ found => FALSE \in answers[t]
        /\ op = "remove" /\ ~found => FALSE \in answers[t]
<1>1. PICK n, k, c : n = NextChild(t) /\ k = call[t].key /\ c = call[t] OBVIOUS
<1>2. PICK S : S = SetWith(tree[n].key, k) OBVIOUS
<1>3. pc[t] = "child" /\ c.op = op /\ ~tree[n].internal /\ found = (tree[n].key = k) /\ c.key = k
 BY <1>1 DEF Reaches
<1>4. Abstract!Observed(c, S) \subseteq answers[t] BY <1>1, <1>2, <1>3, NextIsSeen
<1>5. (k \in S) = (tree[n].key = k) BY <1>2 DEF SetWith
<1>6. (c.key \in S) = (k \in S) BY <1>3
<1>7. ASSUME op = "contains" PROVE found \in answers[t]
 <2>1. Abstract!Observed(c, S) = {c.key \in S} BY <1>3, <1>7 DEF Abstract!Observed
 <2>2. found = (c.key \in S) BY <1>3, <1>5, <1>6, Zenon
 <2>3. found \in Abstract!Observed(c, S) BY <2>1, <2>2, Zenon
 <2> QED BY <1>4, <2>3, Zenon
<1>8. op = "add" /\ found => Abstract!Observed(c, S) = {FALSE} BY <1>3, <1>5 DEF Abstract!Observed
<1>9. op = "remove" /\ ~found => Abstract!Observed(c, S) = {FALSE} BY <1>3, <1>5 DEF Abstract!Observed
<1> QED BY <1>4, <1>7, <1>8, <1>9

(* A call that returns what Search has found. *)
LEMMA SearchReturnsSet ==
 ASSUME SetInv, Keeps, NEW t \in Threads, ContainsReturns(t) \/ AddFindsKey(t) \/ RemoveMissesKey(t)
 PROVE SetInv' /\ Refines
<1>1. PICK q : q = stack[t][1].op OBVIOUS
<1>2. PICK r \in BOOLEAN : Return(t, r) /\ UNCHANGED memory /\ r \in answers[t] /\ pc[t] = "child"
 <2>1. CASE ContainsReturns(t)
  <3>1. PICK found \in BOOLEAN : /\ Reaches(t, "contains", found) /\ Return(t, found)
                                 /\ UNCHANGED memory
   BY <2>1 DEF ContainsReturns
  <3>2. found \in answers[t] BY <3>1, FoundIsAnswer
  <3> QED BY <3>1, <3>2 DEF Reaches
 <2>2. CASE AddFindsKey(t)
  <3>1. Reaches(t, "add", TRUE) /\ Return(t, FALSE) /\ UNCHANGED memory BY <2>2 DEF AddFindsKey
  <3>2. FALSE \in answers[t] BY <3>1, FoundIsAnswer
  <3> QED BY <3>1, <3>2 DEF Reaches
 <2>3. CASE RemoveMissesKey(t)
  <3>1. Reaches(t, "remove", FALSE) /\ Return(t, FALSE) /\ UNCHANGED memory BY <2>3 DEF RemoveMissesKey
  <3>2. FALSE \in answers[t] BY <3>1, FoundIsAnswer
  <3> QED BY <3>1, <3>2 DEF Reaches
 <2> QED BY <2>1, <2>2, <2>3
<1>3. Calm BY <1>2, QuietIsCalm DEF memory
<1>4. ~own[t] BY <1>2, SearchersOwnNothing
<1>5. SetInv' /\ Abstract!SetReturn(t, r) BY <1>1, <1>2, <1>3, <1>4, ReturnSet
<1> QED BY <1>5, SetSteps

(* A thread helps somebody, then starts its search again. *)
LEMMA RunOtherSet ==
 ASSUME Calm, NEW t \in Threads, pc[t] \notin {"idle", "help"}, NEW frames, Run(t, frames, FALSE), UNCHANGED history
 PROVE SetInv' /\ UNCHANGED <<Contents(tree), call, answers, result>>
<1>1. SetInv /\ Keeps /\ Still /\ TreeInv' /\ InfoIds' = InfoIds BY DEF Calm
<1>2. HistoryTypes /\ ControlTypes /\ CallsInv(t) /\ Contents(tree') = Contents(tree) BY <1>1, CalmFacts
<1>3. /\ pc' = [pc EXCEPT ![t] = "help"] /\ stack' = [stack EXCEPT ![t] = frames]
      /\ own' = [own EXCEPT ![t] = FALSE] /\ UNCHANGED <<search, call, answers, result>>
 BY DEF Run, GoTo, history
<1>4. pc'[t] = "help" /\ own'[t] = FALSE /\ OnlyMoves(t) BY <1>2, <1>3 DEF OnlyMoves, HistoryTypes, ControlTypes
<1>5. ~own[t] /\ ~Abstract!Applied(call[t], answers[t]) BY <1>1, SearchersOwnNothing
<1>6. CallInv(t)' /\ OwnInv(t)' /\ Sees(t)' /\ Current(t)'
 BY <1>2, <1>3, <1>4, <1>5 DEF CallsInv, CallInv, OwnInv, Sees, Current
<1>7. CallsInv(t)' BY <1>6 DEF CallsInv
<1>8. \A op \in InfoIds : Owner(op) = t => ~Unfinished(op)'
 <2>1. PICK q : q = stack[t][1].op OBVIOUS
 <2> QED BY <1>1, <1>5, <2>1, OwnedDone
<1>9. SetInv' BY <1>1, <1>4, <1>7, <1>8, CalmMoves
<1> QED BY <1>2, <1>3, <1>9

(* A word in the way, seen by Search or by the CAS of the flag. *)
LEMMA HelpThenRetrySet ==
 ASSUME SetInv, Keeps, NEW t \in Threads, HelpsObstacle(t) \/ FlagFails(t)
 PROVE SetInv' /\ Refines
<1>1. PICK u : HelpThenRetry(t, u) /\ UNCHANGED memory /\ pc[t] \in {"child", "flag"}
 BY DEF HelpsObstacle, FlagFails, Proceeds, Reaches
<1>2. Calm BY <1>1, QuietIsCalm DEF memory
<1>3. SetInv' /\ UNCHANGED <<Contents(tree), call, answers, result>>
 <2>1. CASE u.state = "CLEAN"
  <3>1. Retry(t) BY <1>1, <2>1 DEF HelpThenRetry
  <3>2. PICK q : q = stack[t][1].op OBVIOUS
  <3>3. ~own[t] BY <1>1, SearchersOwnNothing
  <3> QED BY <1>1, <1>2, <3>1, <3>2, <3>3, RetrySet
 <2>2. CASE u.state # "CLEAN"
  <3>1. PICK frames : frames = Help(u) OBVIOUS
  <3>2. Run(t, frames, FALSE) /\ UNCHANGED history BY <1>1, <2>2, <3>1 DEF HelpThenRetry
  <3> QED BY <1>1, <1>2, <3>2, RunOtherSet
 <2> QED BY <2>1, <2>2
<1> QED BY <1>3, SetSteps

-----------------------------------------------------------------------------
(* The steps of Help*.                                                     *)

(* The innermost call returns: its operation has been done, or given up. *)
LEMMA PopSet ==
 ASSUME Calm, NEW t \in Threads, pc[t] = "help", NEW done, PopFrame(t, done),
        NEW op, op = Top(t).op, ~Unfinished(op), IF done THEN HasEffect(op) ELSE ~HasEffect(op)
 PROVE SetInv' /\ Refines
<1>1. SetInv /\ NBBSTInv BY DEF Calm, SetInv
<1>2. stack[t] \in Seq(FrameSet) /\ stack[t] # <<>> BY <1>1, TopIsFrame
<1>3. CASE Len(stack[t]) > 1
 <2>1. PICK frames : frames = <<>> OBVIOUS
 <2>2. Continue(t, frames) /\ UNCHANGED <<call, answers, result>> BY <1>3, <2>1 DEF PopFrame, history
 <2>3. frames \in Seq(FrameSet) BY <2>1
 <2>4. SetInv' /\ UNCHANGED <<Contents(tree), call, answers, result>> BY <1>3, <2>2, <2>3, ContinueSet
 <2> QED BY <2>4, SetSteps
<1>4. CASE ~(Len(stack[t]) > 1)
 <2>1. Len(stack[t]) = 1
  <3>1. Len(stack[t]) \in Nat /\ Len(stack[t]) # 0 BY <1>2
  <3>2. PICK n \in Nat : n = Len(stack[t]) BY <3>1
  <3>3. ~(n > 1) /\ n # 0 BY <1>4, <3>1, <3>2, Zenon
  <3>4. n = 1 BY <3>3
  <3> QED BY <3>2, <3>4
 <2>2. op = stack[t][1].op BY <2>1 DEF Top, Last
 <2>3. CASE own[t] /\ done
  <3>1. Return(t, TRUE) BY <1>4, <2>3 DEF PopFrame
  <3>2. HasEffect(stack[t][1].op)
   <4>1. HasEffect(op) BY <2>3
   <4> QED BY <2>2, <4>1
  <3>3. TRUE \in answers[t] BY <1>1, <2>3, <3>2 DEF SetInv, CallsInv, OwnInv
  <3>4. PICK r \in BOOLEAN : r = TRUE OBVIOUS
  <3>5. Return(t, r) /\ r \in answers[t] BY <3>1, <3>3, <3>4
  <3>6. SetInv' /\ Abstract!SetReturn(t, r) BY <2>2, <3>5, ReturnSet
  <3> QED BY <3>6, SetSteps
 <2>4. CASE ~(own[t] /\ done)
  <3>1. Retry(t) BY <1>4, <2>4 DEF PopFrame
  <3>2. own[t] => ~HasEffect(op) /\ ~Unfinished(op) BY <2>4
  <3>3. SetInv' /\ UNCHANGED <<Contents(tree), call, answers, result>> BY <2>2, <3>1, <3>2, RetrySet
  <3> QED BY <3>3, SetSteps
 <2> QED BY <2>3, <2>4
<1> QED BY <1>3, <1>4

(* The innermost call goes on with one other frame. *)
LEMMA ContinueOneSet ==
 ASSUME Calm, NEW t \in Threads, pc[t] = "help", NEW f, Continue(t, <<f>>), f.op = Top(t).op,
        UNCHANGED <<call, answers, result>>
 PROVE SetInv' /\ Refines
<1>1. PICK frames, S : frames = <<f>> /\ S = FrameSet \cup {f} OBVIOUS
<1>2. frames \in Seq(S) /\ frames # <<>> /\ frames[1] = f /\ FrameSet \subseteq S BY <1>1
<1>3. Continue(t, frames) /\ frames[1].op = Top(t).op BY <1>1, <1>2
<1>4. SetInv' /\ UNCHANGED <<Contents(tree), call, answers, result>> BY <1>2, <1>3, ContinueSet
<1> QED BY <1>4, SetSteps

(* The insert is over. *)
LEMMA InsertUnflagSet ==
 ASSUME SetInv, Keeps, NEW t \in Threads, InsertUnflag(t)
 PROVE SetInv' /\ Refines
<1>1. PICK op : op = Top(t).op OBVIOUS
<1>2. PICK n : n = Info(op).p OBVIOUS
<1>3. /\ pc[t] = "help" /\ Top(t).at = "insertUnflag"
      /\ CASState(n, op, "IFLAG", "CLEAN") /\ PopFrame(t, TRUE) /\ UNCHANGED infos
 BY <1>1, <1>2 DEF InsertUnflag, At
<1>4. op \in Adds /\ op \in InfoIds /\ Detached(op) /\ Shape
 BY <1>1, <1>3, TopIsFrame, FrameKinds DEF SetInv, NBBSTInv, GlobalInv, Adds
<1>5. n \in Inner BY <1>2, <1>4, InfoTypes
<1>6. Calm BY <1>3, <1>5, StateIsCalm
<1>7. HasEffect(op) /\ ~Unfinished(op) BY <1>4 DEF HasEffect, Unfinished, Pending, Detached
<1> QED BY <1>1, <1>3, <1>6, <1>7, PopSet

(* A remove that has given up did nothing and will do nothing. *)
LEMMA BacktrackSet ==
 ASSUME SetInv, Keeps, NEW t \in Threads, Backtrack(t)
 PROVE SetInv' /\ Refines
<1>1. PICK op : op = Top(t).op OBVIOUS
<1>2. PICK n : n = Info(op).gp OBVIOUS
<1>3. /\ pc[t] = "help" /\ Top(t).at = "backtrack"
      /\ CASState(n, op, "DFLAG", "CLEAN") /\ PopFrame(t, FALSE) /\ UNCHANGED infos
 BY <1>1, <1>2 DEF Backtrack, At
<1>4. op \in Removes /\ op \in InfoIds /\ ~MayMark(op) /\ ~Marked(op) /\ Shape
 BY <1>1, <1>3, TopIsFrame, FrameKinds DEF SetInv, NBBSTInv, GlobalInv, Removes
<1>5. n \in Inner BY <1>2, <1>4, InfoTypes
<1>6. Calm BY <1>3, <1>5, StateIsCalm
<1>7. ~HasEffect(op) /\ ~Unfinished(op) BY <1>4, KindsDiffer DEF HasEffect, Unfinished
<1> QED BY <1>1, <1>3, <1>6, <1>7, PopSet

(* The remove is over: the marked parent is out. *)
LEMMA MarkedUnflagSet ==
 ASSUME SetInv, Keeps, NEW t \in Threads, MarkedUnflag(t)
 PROVE SetInv' /\ Refines
<1>1. PICK op : op = Top(t).op OBVIOUS
<1>2. PICK n : n = Info(op).gp OBVIOUS
<1>3. /\ pc[t] = "help" /\ Top(t).at = "markedUnflag"
      /\ CASState(n, op, "DFLAG", "CLEAN") /\ PopFrame(t, TRUE) /\ UNCHANGED infos
 BY <1>1, <1>2 DEF MarkedUnflag, At
<1>4. /\ op \in Removes /\ op \in InfoIds /\ Marked(op) /\ Cut(op) /\ Shape
      /\ GlobalInv /\ TreeInv
 BY <1>1, <1>3, TopIsFrame, FrameKinds DEF SetInv, NBBSTInv, GlobalInv, Removes
<1>5. n \in Inner BY <1>2, <1>4, InfoTypes
<1>6. Calm BY <1>3, <1>5, StateIsCalm
<1>7. ~Linked(op)
 <2>1. SUFFICES ASSUME Linked(op) PROVE FALSE OBVIOUS
 <2>2. Word(Info(op).gp) = Update("DFLAG", op) BY <1>4, <2>1 DEF TreeInv, MarksHold
 <2>3. ~Misses(op) BY <1>4, <2>1, <2>2, NeverMisses
 <2> QED BY <1>4, <2>1, <2>3 DEF Cut, Linked
<1>8. HasEffect(op) /\ ~Unfinished(op) BY <1>4, <1>7, KindsDiffer, MarkedIsMarked DEF HasEffect, Unfinished
<1> QED BY <1>1, <1>3, <1>6, <1>8, PopSet

(* The reads of HelpDelete and of HelpMarked. *)
LEMMA HelpReadsSet ==
 ASSUME SetInv, Keeps, NEW t \in Threads, DeleteRead(t) \/ DeleteMarkFails(t) \/ MarkedOther(t)
 PROVE SetInv' /\ Refines
<1>1. PICK g, op : g = Top(t) /\ op = g.op OBVIOUS
<1>2. PICK f : /\ pc[t] = "help" /\ Continue(t, <<f>>) /\ f.op = op
               /\ UNCHANGED <<memory, history>>
 <2>1. CASE DeleteRead(t)
  <3>1. PICK f : f = [at |-> "deleteMark", op |-> op, result |-> tree[Info(op).p].update] OBVIOUS
  <3>2. f.op = op BY <3>1
  <3> QED BY <1>1, <2>1, <3>1, <3>2 DEF DeleteRead, At
 <2>2. CASE DeleteMarkFails(t)
  <3>1. PICK f : f = [g EXCEPT !.at = "deleteRecheck"] OBVIOUS
  <3>2. pc[t] = "help" /\ g.at = "deleteMark" /\ Continue(t, <<f>>) /\ UNCHANGED <<memory, history>>
   BY <1>1, <2>2, <3>1 DEF DeleteMarkFails, At
  <3>3. g = [at |-> "deleteMark", op |-> g.op, result |-> g.result] BY <1>1, <3>2, TopIsFrame, FrameKinds DEF SetInv
  <3>4. f.op = op BY <1>1, <3>1, <3>3
  <3> QED BY <3>2, <3>4
 <2>3. CASE MarkedOther(t)
  <3>1. PICK c : c = IF tree[Info(op).p].right = Info(op).l THEN tree[Info(op).p].left
                                                           ELSE tree[Info(op).p].right
   OBVIOUS
  <3>2. PICK f : f = [at |-> "markedChild", op |-> op, other |-> c] OBVIOUS
  <3>3. f.op = op BY <3>2
  <3> QED BY <1>1, <2>3, <3>1, <3>2, <3>3 DEF MarkedOther, At
 <2> QED BY <2>1, <2>2, <2>3
<1>3. Calm /\ UNCHANGED <<call, answers, result>> BY <1>2, QuietIsCalm DEF memory, history
<1> QED BY <1>1, <1>2, <1>3, ContinueOneSet

(* The parent is marked: the set changes later. *)
LEMMA DeleteMarkSet ==
 ASSUME SetInv, Keeps, NEW t \in Threads, DeleteMark(t)
 PROVE SetInv' /\ Refines
<1>1. PICK op : op = Top(t).op OBVIOUS
<1>2. PICK n, u, f : n = Info(op).p /\ u = Update("MARK", op) /\ f = Frame("markedOther", op) OBVIOUS
<1>3. /\ pc[t] = "help" /\ Top(t).at = "deleteMark" /\ SetUpdate(n, u)
      /\ Continue(t, <<f>>) /\ UNCHANGED infos /\ UNCHANGED <<call, answers, result>>
 BY <1>1, <1>2 DEF DeleteMark, At, history
<1>4. op \in Removes /\ op \in InfoIds /\ Shape
 BY <1>1, <1>3, TopIsFrame, FrameKinds DEF SetInv, NBBSTInv, GlobalInv, Removes
<1>5. n \in Inner BY <1>2, <1>4, InfoTypes
<1>6. Calm BY <1>3, <1>5, WordIsCalm
<1>7. f.op = Top(t).op BY <1>1, <1>2 DEF Frame
<1> QED BY <1>3, <1>6, <1>7, ContinueOneSet

(* The parent was marked by a helper, or never will be. *)
LEMMA DeleteRecheckSet ==
 ASSUME SetInv, Keeps, NEW t \in Threads, DeleteRecheck(t)
 PROVE SetInv' /\ Refines
<1>1. PICK g, op : g = Top(t) /\ op = g.op OBVIOUS
<1>2. /\ pc[t] = "help" /\ g.at = "deleteRecheck" /\ UNCHANGED <<memory, history>>
      /\ Continue(t, IF Marked(op) THEN <<Frame("markedOther", op)>>
                                   ELSE <<Frame("backtrack", op)>> \o Help(g.result))
 BY <1>1 DEF DeleteRecheck, At, Marked, Word
<1>3. Calm /\ UNCHANGED <<call, answers, result>> BY <1>2, QuietIsCalm DEF memory, history
<1>4. CASE Marked(op)
 <2>1. PICK f : f = Frame("markedOther", op) OBVIOUS
 <2>2. Continue(t, <<f>>) /\ f.op = Top(t).op BY <1>1, <1>2, <1>4, <2>1 DEF Frame
 <2> QED BY <1>2, <1>3, <2>2, ContinueOneSet
<1>5. CASE ~Marked(op)
 <2>1. PICK f, help : f = Frame("backtrack", op) /\ help = Help(g.result) OBVIOUS
 <2>2. PICK frames, S : frames = <<f>> \o help /\ S = FrameSet \cup {f} OBVIOUS
 <2>3. Continue(t, frames) /\ f.op = Top(t).op BY <1>1, <1>2, <1>5, <2>1, <2>2 DEF Frame
 <2>4. g.result \in SoundWords BY <1>1, <1>2, TopIsFrame, FrameKinds DEF SetInv
 <2>5. help \in Seq(FrameSet) BY <2>1, <2>4, HelpFrames DEF SoundWords
 <2>6. <<f>> \in Seq(S) /\ help \in Seq(S) /\ FrameSet \subseteq S BY <2>2, <2>5
 <2>7. frames \in Seq(S) /\ frames # <<>> /\ frames[1] = f
  <3>0. PICK one : one = <<f>> OBVIOUS
  <3>1. one = <<f>> /\ Len(one) = 1 /\ one[1] = f BY <3>0
  <3>2. one \in Seq(S) /\ frames = one \o help BY <2>2, <2>6, <3>1
  <3>3. /\ frames \in Seq(S) /\ Len(frames) = 1 + Len(help) /\ Len(help) \in Nat
        /\ frames[1] = one[1]
   BY <2>6, <3>1, <3>2
  <3> QED BY <3>1, <3>3
 <2>8. SetInv' /\ UNCHANGED <<Contents(tree), call, answers, result>> BY <1>2, <1>3, <2>3, <2>6, <2>7, ContinueSet
 <2> QED BY <2>8, SetSteps
<1> QED BY <1>4, <1>5

-----------------------------------------------------------------------------
(* A call begins, and the flag that starts its operation.                  *)

(* A call begins with the answer of the set. *)
LEMMA StartSet ==
 ASSUME SetInv, Keeps, NEW t \in Threads, NEW c \in Abstract!SetCalls, Start(t, c)
 PROVE SetInv' /\ Refines
<1>1. PICK S : S = Contents(tree) OBVIOUS
<1>2. /\ pc[t] = "idle" /\ pc' = [pc EXCEPT ![t] = "update"]
      /\ search' = [search EXCEPT ![t].l = Root] /\ call' = [call EXCEPT ![t] = c]
      /\ answers' = [answers EXCEPT ![t] = Abstract!Observed(c, S)]
      /\ result' = [result EXCEPT ![t] = Abstract!NoResult]
      /\ UNCHANGED <<tree, infos>> /\ UNCHANGED <<stack, own>>
 BY <1>1 DEF Start, GoTo, memory
<1>3. SetInv /\ Keeps /\ Still /\ TreeInv' /\ InfoIds' = InfoIds BY <1>2, QuietIsCalm DEF Calm
<1>4. /\ NBBSTInv' /\ Shape' /\ Ranked' /\ HistoryTypes /\ ControlTypes
      /\ CallsInv(t) /\ ThreadInv(t) /\ Contents(tree') = S
 BY <1>1, <1>3, CalmFacts
<1>5. c \in [op : {"add", "remove", "contains"}, key : Keys] /\ c.key \in Keys /\ c # NoCall
 BY DEF Abstract!SetCalls, NoCall, Abstract!NoCall
<1>6. /\ pc'[t] = "update" /\ search'[t].l = Root /\ call'[t] = c
      /\ answers'[t] = Abstract!Observed(c, S) /\ OnlyMoves(t)
 <2>1. search[t] \in Searches BY <1>4 DEF ThreadInv, SearchInv
 <2>2. search'[t] = [search[t] EXCEPT !.l = Root] BY <1>2, <1>4 DEF ControlTypes
 <2>3. search'[t].l = Root BY <2>1, <2>2 DEF Searches
 <2> QED BY <1>2, <1>4, <2>3 DEF OnlyMoves, HistoryTypes, ControlTypes
<1>7. ~own[t] BY <1>2, SearchersOwnNothing
<1>8. /\ Abstract!Observed(c, S) \in SUBSET BOOLEAN
      /\ c.op # "contains" => Abstract!Observed(c, S) \subseteq {FALSE}
 BY ObservedIsFalse
<1>9. ~Abstract!Applied(c, Abstract!Observed(c, S)) BY <1>8 DEF Abstract!Applied
<1>10. CallInv(t)' BY <1>4, <1>5, <1>6, <1>8 DEF CallInv, NoCall
<1>11. OwnInv(t)' BY <1>2, <1>6, <1>7, <1>9 DEF OwnInv
<1>12. Current(t)' BY <1>4, <1>6 DEF Current
<1>13. Sees(t)'
 <2>1. ~Abstract!Applied(call'[t], answers'[t]) /\ call'[t].key \in Keys BY <1>5, <1>6, <1>9
 <2>2. SeesFrom(t, Root)' BY <1>4, <1>12, <2>1, SeesFromRoot
 <2> QED BY <1>6, <2>2 DEF Sees, SeesFrom
<1>14. CallsInv(t)' BY <1>10, <1>11, <1>12, <1>13 DEF CallsInv
<1>15. \A op \in InfoIds : Owner(op) = t => ~Unfinished(op)'
 <2>1. PICK q : q = stack[t][1].op OBVIOUS
 <2> QED BY <1>3, <1>7, <2>1, OwnedDone
<1>16. SetInv' BY <1>3, <1>6, <1>14, <1>15, CalmMoves
<1>17. call[t] = NoCall BY <1>2, <1>4 DEF CallsInv, CallInv
<1>18. Abstract!SetInvoke(t, c) BY <1>1, <1>2, <1>4, <1>17 DEF Abstract!SetInvoke, NoCall
<1> QED BY <1>16, <1>18, SetSteps

(* What is known of an operation depends on its name only. *)
LEMMA SameOperation ==
 ASSUME NEW t, NEW op, stack'[t][1].op = op
 PROVE  /\ HasEffect(stack[t][1].op)' <=> HasEffect(op)'
        /\ CallOf(stack[t][1].op)' = CallOf(op)'
<1>1. HasEffect(stack[t][1].op)' <=> HasEffect(op)'
 BY DEF HasEffect, Pending, Marked, Linked, Unseen, LeftmostStays, Word, Kids, Info
<1>2. CallOf(stack[t][1].op)' = CallOf(op)' BY DEF CallOf, NewKey, Info
<1> QED BY <1>1, <1>2

(* The flag: the thread has an operation of its own, without effect so far. *)
LEMMA FlagSet ==
 ASSUME SetInv, Keeps, Still, TreeInv', NEW t \in Threads, pc[t] = "flag",
        NEW op, op = NewInfo(t), InfoIds' = InfoIds \cup {op},
        NEW f, f.op = op, Run(t, <<f>>, TRUE), UNCHANGED history,
        ~HasEffect(op)', CallOf(op)' = call[t], call[t].op # "contains"
 PROVE SetInv' /\ Refines
<1>1. /\ HistoryTypes /\ ControlTypes /\ CallsInv(t) /\ Contents(tree') = Contents(tree) BY CalmFacts
<1>2. /\ pc' = [pc EXCEPT ![t] = "help"] /\ stack' = [stack EXCEPT ![t] = <<f>>]
      /\ own' = [own EXCEPT ![t] = TRUE] /\ UNCHANGED <<search, call, answers, result>>
 BY DEF Run, GoTo, history
<1>3. pc'[t] = "help" /\ own'[t] = TRUE /\ stack'[t] = <<f>> /\ OnlyMoves(t)
 BY <1>1, <1>2 DEF OnlyMoves, HistoryTypes, ControlTypes
<1>4. stack'[t][1].op = op BY <1>3
<1>5. ~own[t] /\ ~Abstract!Applied(call[t], answers[t]) BY SearchersOwnNothing
<1>6. Owner(op) = t /\ op \in InfoIds' BY DEF NewInfo, Owner
<1>7. OwnInv(t)'
 <2>1. TRUE \notin answers'[t] BY <1>2, <1>5 DEF Abstract!Applied
 <2>2. ~HasEffect(stack[t][1].op)' /\ CallOf(stack[t][1].op)' = call[t] BY <1>4, SameOperation
 <2> QED BY <1>2, <1>3, <1>4, <1>6, <2>1, <2>2 DEF OwnInv
<1>8. CallInv(t)' /\ Sees(t)' /\ Current(t)' BY <1>1, <1>2, <1>3 DEF CallsInv, CallInv, Sees, Current
<1>9. CallsInv(t)' BY <1>7, <1>8 DEF CallsInv
<1>10. \A o \in InfoIds : Owner(o) = t => ~Unfinished(o)'
 <2>1. PICK q : q = stack[t][1].op OBVIOUS
 <2> QED BY <1>5, <2>1, OwnedDone
<1>12. \A o \in InfoIds' : Owner(o) = t /\ Unfinished(o)' => RunsOwn(t, o)'
 <2>1. ASSUME NEW o \in InfoIds', Owner(o) = t, Unfinished(o)'
       PROVE RunsOwn(t, o)'
  <3>1. o = op BY <1>10, <2>1
  <3> QED BY <1>3, <1>4, <3>1 DEF RunsOwn
 <2> QED BY <2>1
<1>13. \A o \in InfoIds' : o \in InfoIds \/ Owner(o) = t BY <1>6
<1>14. SetInv' BY <1>3, <1>9, <1>12, <1>13, CalmMoves
<1>15. UNCHANGED <<Contents(tree), call, answers, result>> BY <1>1, <1>2
<1> QED BY <1>14, <1>15, SetSteps

(* The node that is flagged is still on the way to the key. *)
LEMMA FlaggedIsOnPath ==
 ASSUME SetInv, NEW t \in Threads, pc[t] = "flag", NEW p, p = search[t].p, Word(p).state = "CLEAN"
 PROVE p \in OnPath(call[t].key)
<1>1. PICK k : k = call[t].key OBVIOUS
<1>2. ThreadInv(t) /\ GlobalInv /\ Shape /\ SeesFrom(t, search[t].p)
 BY DEF SetInv, NBBSTInv, GlobalInv, CallsInv, Sees
<1>3. p \in Inner /\ p \in Nodes BY <1>2 DEF ThreadInv, AtNode, Inner
<1>4. p \in Path(tree, p, k) BY <1>2, <1>3, TreeIsLinked, PathIsLeast
<1>5. Dead(p) \/ p \in OnPath(k) BY <1>1, <1>2, <1>3, <1>4 DEF SeesFrom
<1> QED BY <1>1, <1>5 DEF Dead

(* The call of a thread that is about to flag. *)
LEMMA FlagCall ==
 ASSUME SetInv, NEW t \in Threads, pc[t] = "flag"
 PROVE  /\ call[t] = [op |-> call[t].op, key |-> call[t].key]
        /\ SearchInv(search[t]) /\ AtNode(search[t]) /\ AtLeaf(search[t], call[t])
<1>1. call[t] \in Abstract!SetCalls /\ ThreadInv(t) BY DEF SetInv, NBBSTInv, CallsInv, CallInv
<1>2. call[t] = [op |-> call[t].op, key |-> call[t].key] BY <1>1 DEF Abstract!SetCalls
<1> QED BY <1>1, <1>2 DEF ThreadInv

(* IFLAG. *)
LEMMA AddFlagsSet ==
 ASSUME SetInv, Keeps, NEW t \in Threads, AddFlags(t)
 PROVE SetInv' /\ Refines
<1>1. PICK op, p, f : op = NewInfo(t) /\ p = search[t].p /\ f = Frame("insertChild", op) OBVIOUS
<1>2. /\ pc[t] = "flag" /\ call[t].op = "add" /\ Word(p) = search[t].pupdate
      /\ Run(t, Help(Update("IFLAG", op)), TRUE) /\ UNCHANGED history
 BY <1>1 DEF AddFlags, Word
<1>3. Help(Update("IFLAG", op)) = <<f>> /\ f.op = op BY <1>1 DEF Help, Update, Frame
<1>4. /\ NBBSTInv /\ GlobalInv' /\ TreeInv /\ Grows BY DEF SetInv, Keeps, NBBSTInv
<1>5. p \in OnPath(call[t].key)
 <2>1. search[t].pupdate.state = "CLEAN" BY <1>2, FlagCall DEF AtLeaf
 <2> QED BY <1>1, <1>2, <2>1, FlaggedIsOnPath
<1>6. /\ Still /\ TreeInv' /\ op \in Adds' /\ Pending(op)'
      /\ NewKey(op, "leaf")' = call[t].key /\ InfoIds' = InfoIds \cup {op}
 BY <1>1, <1>4, <1>5, AddFlagTree
<1>7. ~HasEffect(op)' BY <1>6 DEF HasEffect
<1>8. CallOf(op)' = call[t]
 <2>1. CallOf(op)' = [op |-> "add", key |-> NewKey(op, "leaf")'] BY <1>6 DEF CallOf
 <2> QED BY <1>2, <1>6, <2>1, FlagCall
<1>9. Run(t, <<f>>, TRUE) BY <1>2, <1>3
<1> QED BY <1>1, <1>2, <1>3, <1>6, <1>7, <1>8, <1>9, FlagSet

(* DFLAG. *)
LEMMA RemoveFlagsSet ==
 ASSUME SetInv, Keeps, NEW t \in Threads, RemoveFlags(t)
 PROVE SetInv' /\ Refines
<1>1. PICK op, f : op = NewInfo(t) /\ f = Frame("deleteRead", op) OBVIOUS
<1>2. /\ pc[t] = "flag" /\ call[t].op = "remove"
      /\ Run(t, Help(Update("DFLAG", op)), TRUE) /\ UNCHANGED history
 BY <1>1 DEF RemoveFlags
<1>3. Help(Update("DFLAG", op)) = <<f>> /\ f.op = op BY <1>1 DEF Help, Update, Frame
<1>4. NBBSTInv /\ GlobalInv' /\ TreeInv /\ Grows BY DEF SetInv, Keeps, NBBSTInv
<1>5. /\ Still /\ TreeInv' /\ op \in Removes' /\ ~Marked(op)'
      /\ tree'[Info(op)'.l].key = call[t].key /\ InfoIds' = InfoIds \cup {op}
 BY <1>1, <1>4, RemoveFlagTree
<1>6. op \notin Adds' BY <1>5, KindsDiffer
<1>7. ~HasEffect(op)' BY <1>5, <1>6 DEF HasEffect
<1>8. CallOf(op)' = call[t]
 <2>1. CallOf(op)' = [op |-> "remove", key |-> tree'[Info(op)'.l].key] BY <1>6 DEF CallOf
 <2> QED BY <1>2, <1>5, <2>1, FlagCall
<1>9. Run(t, <<f>>, TRUE) BY <1>2, <1>3
<1> QED BY <1>1, <1>2, <1>3, <1>5, <1>7, <1>8, <1>9, FlagSet

-----------------------------------------------------------------------------

(* The answers of the threads afterwards. *)
LEMMA AnswersChange ==
 ASSUME SetInv, NEW op \in InfoIds, Unfinished(op), OnlyAnswers(op), NEW u \in Threads
 PROVE  /\ Owner(op) \in Threads /\ RunsOwn(Owner(op), op)
        /\ u = Owner(op) => answers'[u] = {TRUE}
        /\ u # Owner(op) =>
             answers'[u] = IF Abstract!Applied(call[u], answers[u]) THEN answers[u]
                           ELSE answers[u] \cup Abstract!Observed(call[u], Contents(tree'))
<1>1. Owner(op) \in Threads BY IdsOfInfos DEF Owner
<1>2. RunsOwn(Owner(op), op) BY DEF SetInv, OwnersHelp
<1> QED BY <1>1, <1>2 DEF OnlyAnswers, Abstract!AnswersAfter

(* The thread whose operation it is has its answer. *)
LEMMA OwnerHasAnswer ==
 ASSUME SetInv, NEW op \in InfoIds, NEW g, TakesEffect(op, g), OnlyAnswers(op), InfoIds' = InfoIds,
        NEW w \in Threads, w = Owner(op)
 PROVE CallsInv(w)'
<1>1. answers'[w] = {TRUE} /\ own[w] /\ stack[w][1].op = op BY AnswersChange DEF TakesEffect, RunsOwn
<1>2. CallInv(w) /\ OwnInv(w) BY DEF SetInv, CallsInv
<1>3. pc[w] = "help" /\ call[w].op # "contains" BY <1>1, <1>2 DEF OwnInv
<1>4. stack'[w][1].op = op BY <1>1 DEF OnlyAnswers
<1>5. HasEffect(stack[w][1].op)' BY <1>4, SameOperation DEF TakesEffect
<1>6. OwnInv(w)' BY <1>1, <1>3, <1>4, <1>5 DEF OwnInv, OnlyAnswers
<1>7. CallInv(w)' /\ Sees(w)' /\ Current(w)'
 BY <1>1, <1>2, <1>3 DEF CallInv, Sees, Current, OnlyAnswers, Abstract!Applied
<1> QED BY <1>6, <1>7 DEF CallsInv

(* The other threads have one answer more, if any. *)
LEMMA OthersHaveAnswers ==
 ASSUME SetInv, Keeps, TreeInv', NEW op \in InfoIds, NEW g \in Inner, Word(g).state \in {"IFLAG", "DFLAG"},
        TakesEffect(op, g), OnlyAnswers(op), InfoIds' = InfoIds, NEW u \in Threads, u # Owner(op)
 PROVE CallsInv(u)'
<1>1. /\ CallInv(u) /\ OwnInv(u) /\ Sees(u) /\ Current(u) /\ ThreadInv(u)
      /\ Grows /\ Shape /\ Shape' /\ Ranked'
 BY DEF SetInv, CallsInv, NBBSTInv, Keeps, GlobalInv, TreeInv
<1>2. PICK c, a, b, S : c = call[u] /\ a = answers[u] /\ b = answers'[u] /\ S = Contents(tree') OBVIOUS
<1>3. b = IF Abstract!Applied(c, a) THEN a ELSE a \cup Abstract!Observed(c, S)
 BY <1>2, AnswersChange DEF TakesEffect
<1>4. /\ Abstract!Observed(c, S) \in SUBSET BOOLEAN
      /\ c.op # "contains" => Abstract!Observed(c, S) \subseteq {FALSE}
 BY ObservedIsFalse
<1>5. /\ a \subseteq b /\ (c.op # "contains" => (TRUE \in b <=> TRUE \in a))
      /\ Abstract!Applied(c, b) <=> Abstract!Applied(c, a)
 BY <1>3, <1>4 DEF Abstract!Applied
<1>6. /\ call'[u] = c /\ answers'[u] = b /\ pc'[u] = pc[u] /\ own'[u] = own[u]
      /\ search'[u] = search[u] /\ stack'[u][1].op = stack[u][1].op
 BY <1>2 DEF OnlyAnswers
<1>7. CallInv(u)' BY <1>1, <1>2, <1>3, <1>4, <1>6 DEF CallInv
<1>8. Current(u)' BY <1>2, <1>3, <1>5, <1>6 DEF Current
<1>9. OwnInv(u)'
 <2>1. CASE own[u]
  <3>1. PICK q : q = stack[u][1].op OBVIOUS
  <3>2. /\ pc[u] = "help" /\ q \in InfoIds /\ Owner(q) = u /\ c.op # "contains"
        /\ HasEffect(q) \/ c = CallOf(q)
        /\ TRUE \in a <=> HasEffect(q)
   BY <1>1, <1>2, <2>1, <3>1 DEF OwnInv
  <3>3. q # op BY <3>2
  <3>4. /\ HasEffect(q)' <=> HasEffect(q)
        /\ HasEffect(q) \/ CallOf(q)' = CallOf(q)
   BY <3>2, <3>3 DEF TakesEffect
  <3>5. stack'[u][1].op = q BY <1>6, <3>1
  <3>6. /\ HasEffect(stack[u][1].op)' <=> HasEffect(q)'
        /\ CallOf(stack[u][1].op)' = CallOf(q)'
   BY <3>5, SameOperation
  <3> QED BY <1>5, <1>6, <2>1, <3>2, <3>4, <3>5, <3>6 DEF OwnInv
 <2>2. CASE ~own[u] BY <1>1, <1>2, <1>5, <1>6, <2>2 DEF OwnInv
 <2> QED BY <2>1, <2>2
<1>10. ASSUME NEW n \in Nodes, SeesFrom(u, n), pc[u] \in {"update", "child", "result", "flag"}
       PROVE SeesFrom(u, n)'
 <2>1. PICK key : key = call[u].key OBVIOUS
 <2>2. key \in Keys BY <1>1, <1>10, <2>1 DEF ThreadInv
 <2>3. ~Abstract!Applied(call'[u], answers'[u])
  <3>1. ~own[u] BY <1>1, <1>10 DEF OwnInv
  <3>2. ~Abstract!Applied(c, a) BY <1>1, <1>2, <3>1 DEF OwnInv
  <3> QED BY <1>5, <1>6, <3>2
 <2>4. g \in Path(tree, n, key) => g \in OnPath(key)
  <3>1. ~Dead(g) BY DEF Dead
  <3>2. \A m \in Path(tree, n, key) : m \in Inner => Dead(m) \/ m \in OnPath(key) BY <1>10, <2>1 DEF SeesFrom
  <3> QED BY <3>1, <3>2
 <2>5. /\ Path(tree', n, key) \subseteq Path(tree, n, key) \cup OnPath(key)'
       /\ \A m \in OnPath(key) \cap Inner : m \in OnPath(key)' \/ Dead(m)'
       /\ \A m \in Inner : Dead(m) => Dead(m)'
  BY <1>10, <2>4 DEF TakesEffect, PathsLead
 <2>6. call'[u] = call[u] /\ answers[u] \subseteq answers'[u] BY <1>2, <1>5, <1>6
 <2> QED BY <1>1, <1>8, <1>10, <2>1, <2>2, <2>3, <2>5, <2>6, SeesStays
<1>11. Sees(u)'
 <2>1. pc[u] = "update" => search[u].l \in Nodes /\ SeesFrom(u, search[u].l)
  BY <1>1 DEF Sees, ThreadInv, AtUpdate, Inner
 <2>2. pc[u] \in {"child", "result", "flag"} => search[u].p \in Nodes /\ SeesFrom(u, search[u].p)
  BY <1>1 DEF Sees, ThreadInv, AtNode, Inner
 <2>3. ASSUME NEW n, n = search[u].l PROVE SeesFrom(u, n)' => SeesFrom(u, search[u].l)' BY <1>6, <2>3 DEF SeesFrom
 <2>4. ASSUME NEW n, n = search[u].p PROVE SeesFrom(u, n)' => SeesFrom(u, search[u].p)' BY <1>6, <2>4 DEF SeesFrom
 <2>5. pc[u] = "update" => SeesFrom(u, search[u].l)'
  <3>1. PICK n : n = search[u].l OBVIOUS
  <3>2. pc[u] = "update" => SeesFrom(u, n)' BY <1>10, <2>1, <3>1
  <3> QED BY <2>3, <3>1, <3>2
 <2>6. pc[u] \in {"child", "result", "flag"} => SeesFrom(u, search[u].p)'
  <3>1. PICK n : n = search[u].p OBVIOUS
  <3>2. pc[u] \in {"child", "result", "flag"} => SeesFrom(u, n)' BY <1>10, <2>2, <3>1
  <3> QED BY <2>4, <3>1, <3>2
 <2> QED BY <1>6, <2>5, <2>6 DEF Sees
<1> QED BY <1>7, <1>8, <1>9, <1>11 DEF CallsInv

(* The invariant after the CAS. *)
LEMMA SwapSet ==
 ASSUME SetInv, Keeps, TreeInv', NEW op \in InfoIds, NEW g \in Inner, Word(g).state \in {"IFLAG", "DFLAG"},
        TakesEffect(op, g), OnlyAnswers(op), UNCHANGED infos
 PROVE SetInv'
<1>1. InfoIds' = InfoIds BY DEF InfoIds
<1>2. \A u \in Threads : CallsInv(u)'
 <2>1. ASSUME NEW u \in Threads PROVE CallsInv(u)'
  <3>1. CASE u = Owner(op) BY <1>1, <3>1, OwnerHasAnswer
  <3>2. CASE u # Owner(op) BY <1>1, <3>2, OthersHaveAnswers
  <3> QED BY <3>1, <3>2
 <2> QED BY <2>1
<1>3. ASSUME NEW o \in InfoIds', Unfinished(o)' PROVE RunsOwn(Owner(o), o)'
 <2>1. o # op /\ o \in InfoIds BY <1>1, <1>3 DEF TakesEffect
 <2>2. Unfinished(o) BY <1>3, <2>1 DEF TakesEffect
 <2>3. RunsOwn(Owner(o), o) /\ Owner(o) \in Threads BY <2>1, <2>2, IdsOfInfos DEF SetInv, OwnersHelp, Owner
 <2> QED BY <2>3 DEF RunsOwn, OnlyAnswers
<1>4. OwnersHelp' BY <1>3 DEF OwnersHelp
<1>5. HistoryTypes' BY DEF SetInv, HistoryTypes, OnlyAnswers, Abstract!AnswersAfter
<1> QED BY <1>2, <1>4, <1>5 DEF SetInv, Keeps

(* The call of the owner, as long as the operation has no effect. *)
LEMMA OwnerCall ==
 ASSUME SetInv, NEW op \in InfoIds, Unfinished(op), ~HasEffect(op), NEW w, w = Owner(op)
 PROVE  /\ w \in Threads /\ call[w] = CallOf(op)
        /\ ~Abstract!Applied(call[w], answers[w])
<1>1. w \in Threads BY IdsOfInfos DEF Owner
<1>2. RunsOwn(w, op) /\ OwnInv(w) BY <1>1 DEF SetInv, OwnersHelp, CallsInv
<1>3. own[w] /\ stack[w][1].op = op BY <1>2 DEF RunsOwn
<1>4. call[w] = CallOf(op) /\ TRUE \notin answers[w] BY <1>2, <1>3 DEF OwnInv
<1> QED BY <1>1, <1>4 DEF Abstract!Applied

(* A CAS of a child that loses does nothing; one that wins answers the calls. *)
LEMMA SwapAnswers ==
 ASSUME SetInv, NEW t \in Threads, pc[t] = "help", NEW op, op = Top(t).op,
        NEW n, NEW old, NEW new, CASChild(t, op, n, old, new),
        NEW f, f.op = op, Continue(t, <<f>>), UNCHANGED <<call, result>>
 PROVE  IF CurrentChild(n, new) = old THEN SetChild(n, new) /\ OnlyAnswers(op)
                                      ELSE UNCHANGED <<tree, answers>>
<1>1. CASE CurrentChild(n, new) = old
 <2>1. SetChild(n, new) BY <1>1, CASChildCases
 <2>2. answers' = Abstract!AnswersAfter(Owner(op), Contents(tree')) BY <1>1 DEF CASChild, CurrentChild
 <2>3. PICK frames, S : frames = <<f>> /\ S = FrameSet \cup {f} OBVIOUS
 <2>4. /\ frames \in Seq(S) /\ frames # <<>> /\ frames[1] = f /\ FrameSet \subseteq S
       /\ Continue(t, frames) /\ frames[1].op = Top(t).op /\ NBBSTInv
  BY <2>3 DEF SetInv
 <2>5. /\ stack'[t][1].op = stack[t][1].op
       /\ \A u \in Threads \ {t} : stack'[u] = stack[u]
       /\ UNCHANGED <<pc, search, own>>
  BY <2>4, ContinueFirst
 <2>6. \A u \in Threads : stack'[u][1].op = stack[u][1].op BY <2>5
 <2>7. OnlyAnswers(op) BY <2>2, <2>5, <2>6 DEF OnlyAnswers
 <2> QED BY <1>1, <2>1, <2>7
<1>2. CASE CurrentChild(n, new) # old BY <1>2 DEF CASChild, CurrentChild
<1> QED BY <1>1, <1>2

(* HelpInsert: the key enters the set, or it did before. *)
LEMMA InsertChildSet ==
 ASSUME SetInv, Keeps, NEW t \in Threads, InsertChild(t)
 PROVE SetInv' /\ Refines
<1>1. PICK op : op = Top(t).op OBVIOUS
<1>2. PICK n, old, new : n = Info(op).p /\ old = Info(op).l /\ new = Info(op).newInternal OBVIOUS
<1>3. PICK f : f = Frame("insertUnflag", op) OBVIOUS
<1>4. /\ pc[t] = "help" /\ Top(t).at = "insertChild"
      /\ CASChild(t, op, n, old, new) /\ Continue(t, <<f>>)
      /\ UNCHANGED infos /\ UNCHANGED <<call, result>>
 BY <1>1, <1>2, <1>3 DEF InsertChild, At
<1>5. /\ NBBSTInv /\ GlobalInv /\ GlobalInv' /\ TreeInv /\ Grows BY DEF SetInv, Keeps, NBBSTInv
<1>6. op \in Adds /\ op \in InfoIds /\ AddInv(op) /\ Shape
 BY <1>1, <1>4, <1>5, TopIsFrame, FrameKinds DEF GlobalInv, Adds
<1>7. n \in Inner /\ new \in Nodes BY <1>2, <1>6, InfoTypes, NodeTypes
<1>8. f.op = op BY <1>3 DEF Frame
<1>9. IF CurrentChild(n, new) = old THEN SetChild(n, new) /\ OnlyAnswers(op)
                                    ELSE UNCHANGED <<tree, answers>>
 BY <1>1, <1>4, <1>8, SwapAnswers
<1>10. CASE CurrentChild(n, new) = old
 <2>1. Swaps(n, old, new) BY <1>6, <1>7, <1>9, <1>10, SetChildSwaps
 <2>2. Swaps(Info(op).p, Info(op).l, Info(op).newInternal) BY <1>2, <2>1
 <2>3. Pending(op)
  <3>1. old \in Kids(n) BY <2>1 DEF Swaps, Kids
  <3> QED BY <1>2, <1>6, <3>1 DEF AddInv, Replaced, Detached
 <2>4. TreeInv' BY <1>4, <1>5, <1>6, <2>2, <2>3, InsertKeepsTree
 <2>5. Detached(op)'
  <3>1. SearchMoves BY <1>4 DEF Continue, SearchMoves
  <3> QED BY <1>4, <1>5, <1>6, <2>2, <3>1, InsertKeeps
 <2>6. TakesEffect(op, n)
  <3>1. TakesEffect(op, Info(op).p) BY <1>4, <1>5, <1>6, <2>2, <2>3, <2>4, <2>5, InsertEffects DEF TakesEffect
  <3> QED BY <1>2, <3>1
 <2>7. SetInv'
  <3>1. Word(n).state = "IFLAG" BY <1>2, <2>3 DEF Pending, Update
  <3> QED BY <1>4, <1>6, <1>7, <1>9, <1>10, <2>4, <2>6, <3>1, SwapSet
 <2>8. PICK w, key : w = Owner(op) /\ key = NewKey(op, "leaf") OBVIOUS
 <2>9. /\ w \in Threads /\ call[w] = [op |-> "add", key |-> key]
       /\ ~Abstract!Applied(call[w], answers[w])
  BY <1>6, <2>6, <2>8, OwnerCall DEF TakesEffect, CallOf
 <2>10. key \notin Contents(tree) /\ Contents(tree') = Contents(tree) \cup {key}
  BY <1>4, <1>5, <1>6, <2>2, <2>3, <2>4, <2>8, InsertAdds
 <2>11. Abstract!SetAdd(w) BY <1>9, <1>10, <2>8, <2>9, <2>10 DEF Abstract!SetAdd, OnlyAnswers
 <2> QED BY <2>7, <2>9, <2>11, SetSteps
<1>11. CASE CurrentChild(n, new) # old
 <2>1. Calm BY <1>4, <1>9, <1>11, QuietIsCalm
 <2> QED BY <1>1, <1>4, <1>8, <1>9, <1>11, <2>1, ContinueOneSet
<1> QED BY <1>10, <1>11

(* HelpMarked: the key leaves the set, or it did before. *)
LEMMA MarkedChildSet ==
 ASSUME SetInv, Keeps, NEW t \in Threads, MarkedChild(t)
 PROVE SetInv' /\ Refines
<1>1. PICK op : op = Top(t).op OBVIOUS
<1>2. PICK n, old, new : n = Info(op).gp /\ old = Info(op).p /\ new = Top(t).other OBVIOUS
<1>3. PICK f : f = Frame("markedUnflag", op) OBVIOUS
<1>4. /\ pc[t] = "help" /\ Top(t).at = "markedChild"
      /\ CASChild(t, op, n, old, new) /\ Continue(t, <<f>>)
      /\ UNCHANGED infos /\ UNCHANGED <<call, result>>
 BY <1>1, <1>2, <1>3 DEF MarkedChild, At
<1>5. /\ NBBSTInv /\ GlobalInv /\ GlobalInv' /\ TreeInv /\ Grows BY DEF SetInv, Keeps, NBBSTInv
<1>6. op \in Removes /\ op \in InfoIds /\ Marked(op) /\ new = Other(op) /\ Shape
 BY <1>1, <1>2, <1>4, <1>5, TopIsFrame, FrameKinds DEF GlobalInv, Removes
<1>7. n \in Inner /\ new \in Nodes BY <1>2, <1>6, InfoTypes, NodeTypes DEF Other
<1>8. f.op = op BY <1>3 DEF Frame
<1>9. IF CurrentChild(n, new) = old THEN SetChild(n, new) /\ OnlyAnswers(op)
                                    ELSE UNCHANGED <<tree, answers>>
 BY <1>1, <1>4, <1>8, SwapAnswers
<1>10. CASE CurrentChild(n, new) = old
 <2>1. Swaps(n, old, new) BY <1>6, <1>7, <1>9, <1>10, SetChildSwaps
 <2>2. Swaps(Info(op).gp, Info(op).p, Other(op)) BY <1>2, <1>6, <2>1
 <2>3. Linked(op)
  <3>1. old \in Kids(n) BY <2>1 DEF Swaps, Kids
  <3> QED BY <1>2, <3>1 DEF Linked
 <2>4. TreeInv' BY <1>4, <1>5, <1>6, <2>2, <2>3, UnlinkKeepsTree
 <2>5. TakesEffect(op, n)
  <3>1. TakesEffect(op, Info(op).gp) BY <1>4, <1>5, <1>6, <2>2, <2>3, <2>4, UnlinkEffects DEF TakesEffect
  <3> QED BY <1>2, <3>1
 <2>6. SetInv'
  <3>1. Word(n).state = "DFLAG"
   <4>1. Word(Info(op).gp) = Update("DFLAG", op) BY <1>5, <1>6, <2>3 DEF TreeInv, MarksHold
   <4>2. Update("DFLAG", op).state = "DFLAG" BY DEF Update
   <4> QED BY <1>2, <4>1, <4>2
  <3> QED BY <1>4, <1>6, <1>7, <1>9, <1>10, <2>4, <2>5, <3>1, SwapSet
 <2>7. PICK w, key : w = Owner(op) /\ key = tree[Info(op).l].key OBVIOUS
 <2>8. /\ w \in Threads /\ call[w] = [op |-> "remove", key |-> key]
       /\ ~Abstract!Applied(call[w], answers[w])
  <3>1. op \notin Adds BY <1>6, KindsDiffer
  <3>2. Unfinished(op) /\ ~HasEffect(op) BY <2>5 DEF TakesEffect
  <3>3. w \in Threads /\ call[w] = CallOf(op) /\ ~Abstract!Applied(call[w], answers[w])
   BY <1>6, <2>7, <3>2, OwnerCall
  <3>4. CallOf(op) = [op |-> "remove", key |-> key] BY <2>7, <3>1 DEF CallOf
  <3> QED BY <3>3, <3>4
 <2>9. key \in Contents(tree) /\ Contents(tree') = Contents(tree) \ {key}
  BY <1>4, <1>5, <1>6, <2>2, <2>3, <2>4, <2>7, UnlinkRemoves
 <2>10. Abstract!SetRemove(w) BY <1>9, <1>10, <2>7, <2>8, <2>9 DEF Abstract!SetRemove, OnlyAnswers
 <2> QED BY <2>6, <2>8, <2>10, SetSteps
<1>11. CASE CurrentChild(n, new) # old
 <2>1. Calm BY <1>4, <1>9, <1>11, QuietIsCalm
 <2> QED BY <1>1, <1>4, <1>8, <1>9, <1>11, <2>1, ContinueOneSet
<1> QED BY <1>10, <1>11

-----------------------------------------------------------------------------
(* The empty tree is the empty set, and no call is in progress.            *)
LEMMA InitSet ==
 ASSUME Init
 PROVE SetInv /\ Abstract!SetInit
<1>1. /\ Nodes = {Root, MinLeaf, MaxLeaf} /\ Inner = {Root}
      /\ Leaves = {MinLeaf, MaxLeaf} /\ DOMAIN tree = {Root, MinLeaf, MaxLeaf}
      /\ tree[Root].internal /\ tree[Root].key = MaxKey
      /\ tree[Root].left = MinLeaf /\ tree[Root].right = MaxLeaf
      /\ ~tree[MinLeaf].internal /\ tree[MinLeaf].key = MinKey
      /\ ~tree[MaxLeaf].internal /\ tree[MaxLeaf].key = MaxKey
 BY InitialTreeFacts DEF Init, Nodes
<1>2. InfoIds = {} /\ Adds = {} /\ Removes = {}
 <2>1. \A t \in Threads : Len(infos[t]) = 0 BY DEF Init
 <2>2. \A op : op \notin InfoIds BY <2>1, IdsOfInfos
 <2> QED BY <2>2 DEF Adds, Removes
<1>3. NBBSTInv /\ Shape /\ IsLinked(tree) BY InitHolds, TreeIsLinked DEF NBBSTInv, GlobalInv
<1>4. MinKey \in Int /\ MaxKey \in Int /\ MinKey < MaxKey BY NBBSTAssumption
<1>5. Root # MinLeaf /\ Root # MaxLeaf BY DEF Root, MinLeaf, MaxLeaf
<1>6. Ranked
 <2>1. PICK f : f = [n \in DOMAIN tree |-> IF n = Root THEN 1 ELSE 0] OBVIOUS
 <2>2. Ranks(tree, f) BY <1>1, <1>5, <2>1 DEF Ranks
 <2> QED BY <1>2, <2>2 DEF Ranked
<1>7. RootIsTop BY <1>1, <1>2, <1>5 DEF RootIsTop, Kids
<1>8. Ordered
 <2>1. ASSUME NEW n \in {MinLeaf, MaxLeaf} PROVE Below(tree, n) \subseteq {n}
  <3>1. PICK S : S = {n} OBVIOUS
  <3>2. BelowClosed(tree, S) /\ S \in SUBSET DOMAIN tree BY <1>1, <3>1 DEF BelowClosed
  <3> QED BY <1>1, <1>3, <3>1, <3>2, BelowIsLeast
 <2>2. KeysAreOrdered(Root) BY <1>1, <1>4, <2>1 DEF KeysAreOrdered
 <2> QED BY <1>1, <2>2 DEF Ordered
<1>9. LiveIsIn BY <1>1, <1>3, BelowIsLeast DEF LiveIsIn, InTree
<1>10. TreeInv BY <1>2, <1>6, <1>7, <1>8, <1>9 DEF TreeInv, NewTrees, MarksHold
<1>11. Contents(tree) = {}
 <2>1. ASSUME NEW key \in Keys PROVE key \notin Contents(tree)
  <3>1. PICK m \in OnPath(key) : m \in Leaves BY <1>3, <1>6, LeafDecides
  <3>2. tree[m].key = MinKey \/ tree[m].key = MaxKey BY <1>1, <3>1
  <3>3. key # MinKey /\ key # MaxKey BY NBBSTAssumption
  <3> QED BY <1>3, <1>6, <3>1, <3>2, <3>3, LeafDecides
 <2>2. Contents(tree) \subseteq Keys BY DEF Contents
 <2> QED BY <2>1, <2>2
<1>12. ASSUME NEW t \in Threads PROVE CallsInv(t)
 <2>1. pc[t] = "idle" /\ own[t] = FALSE /\ call[t] = NoCall /\ answers[t] = {} BY DEF Init
 <2>2. Abstract!Observed(NoCall, Contents(tree)) = {} BY DEF Abstract!Observed, NoCall, Abstract!NoCall
 <2> QED BY <2>1, <2>2 DEF CallsInv, CallInv, OwnInv, Sees, Current, Abstract!Applied
<1>13. OwnersHelp /\ HistoryTypes BY <1>2 DEF OwnersHelp, HistoryTypes, Init
<1>14. Abstract!SetInit BY <1>11 DEF Init, Abstract!SetInit, NoCall
<1> QED BY <1>3, <1>10, <1>12, <1>13, <1>14 DEF SetInv

(* A stuttering step changes nothing. *)
LEMMA StutterSet ==
 ASSUME SetInv, UNCHANGED vars
 PROVE SetInv' /\ Refines
<1>1. UNCHANGED <<tree, infos>> /\ UNCHANGED <<pc, search, stack, own, call, answers, result>>
 BY DEF vars, memory, control, history
<1>2. NBBSTInv /\ NBBSTInv' /\ HistoryTypes /\ HistoryTypes' BY <1>1, StutterKeeps DEF SetInv, HistoryTypes
<1>3. Keeps BY <1>1, <1>2, QuietGrows DEF Keeps, NodeStep
<1>4. SetInv /\ Keeps /\ Still /\ TreeInv' /\ InfoIds' = InfoIds BY <1>1, <1>3, QuietIsCalm DEF Calm
<1>5. \A t \in Threads : CallsInv(t)'
 <2>1. ASSUME NEW t \in Threads PROVE CallsInv(t)' BY <1>1, <1>4, CalmStays DEF Keeps, NBBSTInv
 <2> QED BY <2>1
<1>6. PICK t \in Threads : TRUE BY NBBSTAssumption
<1>7. OnlyMoves(t) BY <1>1, <1>2 DEF OnlyMoves
<1>8. \A op \in InfoIds : Owner(op) = t /\ Unfinished(op)' => RunsOwn(t, op)' BY <1>1, <1>4, OwnedStay
<1>9. SetInv' BY <1>4, <1>5, <1>7, <1>8, CalmMoves
<1>10. UNCHANGED <<Contents(tree), call, answers, result>> BY <1>1
<1> QED BY <1>9, <1>10, SetSteps

(* Every step is a step of the set, or changes nothing of it. *)
LEMMA NextSet ==
 ASSUME SetInv, Next
 PROVE SetInv' /\ Refines
<1>1. Keeps BY NextKeeps DEF SetInv
<1>2. PICK t \in Threads : (\E c \in Abstract!SetCalls : Start(t, c)) \/ Step(t) BY DEF Next
<1>3. CASE \E c \in Abstract!SetCalls : Start(t, c) BY <1>1, <1>3, StartSet
<1>4. CASE Searching(t)
 <2>1. CASE ReadUpdate(t) BY <1>1, <2>1, ReadUpdateSet
 <2>2. CASE ReadChild(t) BY <1>1, <2>2, ReadChildSet
 <2>3. CASE ContainsReturns(t) \/ AddFindsKey(t) \/ RemoveMissesKey(t) BY <1>1, <2>3, SearchReturnsSet
 <2>4. CASE HelpsObstacle(t) BY <1>1, <2>4, HelpThenRetrySet
 <2>5. CASE PreparesOperation(t) BY <1>1, <2>5, PreparesSet
 <2> QED BY <1>4, <2>1, <2>2, <2>3, <2>4, <2>5 DEF Searching
<1>5. CASE Flagging(t)
 <2>1. CASE ReadResult(t) BY <1>1, <2>1, ReadResultSet
 <2>2. CASE FlagFails(t) BY <1>1, <2>2, HelpThenRetrySet
 <2>3. CASE AddFlags(t) BY <1>1, <2>3, AddFlagsSet
 <2>4. CASE RemoveFlags(t) BY <1>1, <2>4, RemoveFlagsSet
 <2> QED BY <1>5, <2>1, <2>2, <2>3, <2>4 DEF Flagging
<1>6. CASE Helping(t)
 <2>1. CASE InsertChild(t) BY <1>1, <2>1, InsertChildSet
 <2>2. CASE InsertUnflag(t) BY <1>1, <2>2, InsertUnflagSet
 <2>3. CASE DeleteRead(t) \/ DeleteMarkFails(t) \/ MarkedOther(t) BY <1>1, <2>3, HelpReadsSet
 <2>4. CASE DeleteMark(t) BY <1>1, <2>4, DeleteMarkSet
 <2>5. CASE DeleteRecheck(t) BY <1>1, <2>5, DeleteRecheckSet
 <2>6. CASE Backtrack(t) BY <1>1, <2>6, BacktrackSet
 <2>7. CASE MarkedChild(t) BY <1>1, <2>7, MarkedChildSet
 <2>8. CASE MarkedUnflag(t) BY <1>1, <2>8, MarkedUnflagSet
 <2> QED BY <1>6, <2>1, <2>2, <2>3, <2>4, <2>5, <2>6, <2>7, <2>8 DEF Helping
<1> QED BY <1>2, <1>3, <1>4, <1>5, <1>6 DEF Step

-----------------------------------------------------------------------------
(* The invariant of the operations and of the searches holds for ever.     *)
THEOREM SetInvHolds == Spec => []SetInv
<1>1. Init => SetInv BY InitSet
<1>2. SetInv /\ [Next]_vars => SetInv' BY NextSet, StutterSet
<1> QED BY <1>1, <1>2, PTL DEF Spec

(* The tree is a linearizable set for any number of threads: every call    *)
(* returns what the set answered at some moment of it, and an add or       *)
(* remove that returns true has changed the set exactly once, whichever    *)
(* thread did the CAS of the child for it.                                 *)
THEOREM TreeIsLinearizableSet == Spec => ImplementsSet
<1>1. Init => Abstract!SetInit BY InitSet
<1>2. SetInv /\ [Next]_vars => Refines BY NextSet, StutterSet
<1>3. SetInv /\ [Next]_vars => [Abstract!SetNext]_(Abstract!setVars) BY <1>2 DEF Refines
<1> QED BY <1>1, <1>3, SetInvHolds, PTL DEF Spec, ImplementsSet, Abstract!SetSpec

-----------------------------------------------------------------------------
(* SearchTree is defined with a recursive function; it has one value, the  *)
(* set of the nodes below, for the ranks fall.                             *)
LEMMA NodesFromAreBelow ==
 ASSUME Shape, Ranked, NEW n \in Nodes
 PROVE NodesFrom(n) = Below(tree, n)
<1> DEFINE Solves(f) == f = [m \in Nodes |-> IF tree[m].internal
                                             THEN {m} \cup f[tree[m].left] \cup f[tree[m].right]
                                             ELSE {m}]
<1>1. IsLinked(tree) /\ Nodes = DOMAIN tree BY TreeIsLinked
<1>2. \A m \in Nodes : tree[m].internal => tree[m].left \in Nodes /\ tree[m].right \in Nodes BY <1>1 DEF IsLinked
<1>3. PICK h : h = [m \in Nodes |-> Below(tree, m)] OBVIOUS
<1>4. \A m \in Nodes : /\ tree[m].internal =>
                            Below(tree, m) = {m} \cup Below(tree, tree[m].left) \cup Below(tree, tree[m].right)
                       /\ ~tree[m].internal => Below(tree, m) = {m}
 BY <1>1, BelowUnfolds
<1>5. Solves(h) BY <1>2, <1>3, <1>4
<1>6. PICK f : f = CHOOSE g : Solves(g) OBVIOUS
<1>7. Solves(f)
 <2> HIDE DEF Solves
 <2> QED BY <1>5, <1>6
<1>8. NodesFrom(n) = f[n] BY <1>6 DEF NodesFrom
<1>9. PICK r : Ranks(tree, r) BY DEF Ranked
<1>10. f[n] = Below(tree, n)
 <2>1. SUFFICES ASSUME f[n] # Below(tree, n) PROVE FALSE OBVIOUS
 <2>2. PICK S \in SUBSET Nodes : S = {m \in Nodes : f[m] # Below(tree, m)} OBVIOUS
 <2>3. S # {} /\ r \in [Nodes -> Nat] BY <1>1, <1>9, <2>1, <2>2 DEF Ranks
 <2>4. PICK m \in S : \A x \in S : r[m] <= r[x] BY <2>3, LowestRank
 <2>5. m \in Nodes /\ f[m] # Below(tree, m) BY <2>2
 <2>6. CASE tree[m].internal
  <3>1. PICK a, b : a = tree[m].left /\ b = tree[m].right OBVIOUS
  <3>2. a \in Nodes /\ b \in Nodes /\ r[a] < r[m] /\ r[b] < r[m] BY <1>1, <1>2, <1>9, <2>5, <2>6, <3>1 DEF Ranks
  <3>3. r[a] \in Nat /\ r[b] \in Nat /\ r[m] \in Nat BY <2>3, <2>5, <3>2
  <3>4. a \notin S /\ b \notin S BY <2>4, <3>2, <3>3
  <3>5. f[a] = Below(tree, a) /\ f[b] = Below(tree, b) BY <2>2, <3>2, <3>4
  <3>6. f[m] = {m} \cup f[a] \cup f[b] BY <1>7, <2>5, <2>6, <3>1
  <3> QED BY <1>4, <2>5, <2>6, <3>1, <3>5, <3>6
 <2>7. CASE ~tree[m].internal
  <3>1. f[m] = {m} BY <1>7, <2>5, <2>7
  <3> QED BY <1>4, <2>5, <2>7, <3>1
 <2> QED BY <2>6, <2>7
<1> QED BY <1>8, <1>10

(* The tree is a search tree at every moment, whatever CASes of children   *)
(* meet: the smaller keys are on the left of each node that a search can   *)
(* come to, the others on the right.                                       *)
THEOREM TreeIsSearchTree == Spec => []SearchTree
<1>1. SetInv => SearchTree
 <2>1. SUFFICES ASSUME SetInv PROVE SearchTree OBVIOUS
 <2>2. Shape /\ Ranked /\ Ordered BY <2>1 DEF SetInv, NBBSTInv, GlobalInv, TreeInv
 <2>3. IsLinked(tree) /\ Nodes = DOMAIN tree /\ Root \in Nodes BY <2>2, TreeIsLinked
 <2>4. Reachable = InTree /\ InTree \subseteq Nodes
  BY <2>2, <2>3, NodesFromAreBelow, BelowIsLeast DEF Reachable, InTree
 <2>5. ASSUME NEW n \in Reachable, tree[n].internal
       PROVE  /\ \A m \in NodesFrom(tree[n].left) : tree[m].key < tree[n].key
              /\ \A m \in NodesFrom(tree[n].right) : tree[n].key <= tree[m].key
  <3>1. n \in InTree /\ n \in Inner BY <2>4, <2>5 DEF Inner
  <3>2. tree[n].left \in Nodes /\ tree[n].right \in Nodes BY <2>3, <2>4, <2>5 DEF IsLinked
  <3>3. /\ NodesFrom(tree[n].left) = Below(tree, tree[n].left)
        /\ NodesFrom(tree[n].right) = Below(tree, tree[n].right)
   BY <2>2, <3>2, NodesFromAreBelow
  <3> QED BY <2>2, <3>1, <3>3 DEF Ordered, KeysAreOrdered
 <2> QED BY <2>5 DEF SearchTree
<1> QED BY <1>1, SetInvHolds, PTL

-----------------------------------------------------------------------------
(* Nodes, Infos and NoInfo have different names. *)
LEMMA NamesDiffer ==
 ASSUME Shape
 PROVE InfoIds \cap Nodes = {} /\ NoInfo \notin InfoIds /\ NoInfo \notin Nodes
<1>1. \A x \in InfoIds : \E t, i : x = <<t, i>> BY IdsOfInfos
<1>2. \A n \in Nodes : (\E r : n = <<r>>) \/ (\E a, b, c : n = <<a, b, c>>)
 BY DEF Shape, NewNames, NewNode, Root, MinLeaf, MaxLeaf
<1>3. \A t, i, r, a, b, c : <<t, i>> # <<r>> /\ <<t, i>> # <<a, b, c>>
 <2>1. \A t, i, r : Len(<<t, i>>) = 2 /\ Len(<<r>>) = 1 OBVIOUS
 <2>2. \A a, b, c : Len(<<a, b, c>>) = 3 OBVIOUS
 <2>3. SUFFICES ASSUME NEW t, NEW i, NEW r, NEW a, NEW b, NEW c
                PROVE <<t, i>> # <<r>> /\ <<t, i>> # <<a, b, c>>
  OBVIOUS
 <2>4. Len(<<t, i>>) = 2 /\ Len(<<r>>) = 1 /\ Len(<<a, b, c>>) = 3 BY <2>1, <2>2
 <2>5. PICK x, y, z : x = <<t, i>> /\ y = <<r>> /\ z = <<a, b, c>> OBVIOUS
 <2>6. Len(x) = 2 /\ Len(y) = 1 /\ Len(z) = 3 BY <2>4, <2>5
 <2>7. x # y /\ x # z BY <2>6
 <2> QED BY <2>5, <2>7
<1>4. \A t, i, r, a, b, c : <<t, i>> # NoInfo /\ <<r>> # NoInfo /\ <<a, b, c>> # NoInfo BY DEF NoInfo
<1> QED BY <1>1, <1>2, <1>3, <1>4

(* The kinds of words. *)
LEMMA WordKinds ==
 ASSUME GlobalInv, NEW n \in Inner
 PROVE  /\ Word(n) = Update(Word(n).state, Word(n).info)
        /\ Word(n).state \in States /\ Word(n).info \in InfoIds \cup {NoInfo}
        /\ Word(n).state \in {"IFLAG", "DFLAG"} => Flagged(n, Word(n).info)
<1>1. Word(n) \in Words BY DEF GlobalInv, WordsLead, Leads, Sound
<1>2. PICK w : w = Word(n) OBVIOUS
<1>3. w = Update(w.state, w.info) /\ w.state \in States /\ w.info \in InfoIds \cup {NoInfo}
 BY <1>1, <1>2 DEF Words, Update
<1>4. w.state \in {"IFLAG", "DFLAG"} => Flagged(n, w.info) BY <1>2, <1>3 DEF Flagged
<1> QED BY <1>2, <1>3, <1>4

(* A word that is not a mark is where its operation has flagged. *)
LEMMA WordIsInPlace ==
 ASSUME GlobalInv, CleanLeads, NEW n \in Inner, NEW x \in InfoIds, Word(n).info = x, Word(n).state # "MARK"
 PROVE n = Place(x)
<1>1. PICK w : w = Word(n) OBVIOUS
<1>2. Leads(w, n) /\ w.info = x /\ w.state \in States /\ w = Update(w.state, x)
 BY <1>1, WordKinds DEF GlobalInv, WordsLead
<1>3. CASE w.state = "CLEAN" BY <1>1, <1>2, <1>3 DEF CleanLeads
<1>4. CASE w.state = "IFLAG" BY <1>2, <1>4 DEF Leads, Sound, Place
<1>5. CASE w.state = "DFLAG"
 <2>1. x \in Removes /\ Info(x).gp = n BY <1>2, <1>5 DEF Leads, Sound
 <2>2. x \notin Adds BY <2>1, KindsDiffer
 <2> QED BY <2>1, <2>2 DEF Place
<1> QED BY <1>1, <1>2, <1>3, <1>4, <1>5 DEF States

-----------------------------------------------------------------------------

(* An Info that is out stays out. *)
LEMMA InfoOutStays ==
 ASSUME GlobalInv, GlobalInv', Grows, Lasting, NEW x \in InfoIds, InfoOut(x)
 PROVE InfoOut(x)'
<1>1. SUFFICES ASSUME NEW n \in Inner', tree'[n].update.info = x
               PROVE tree'[n].update.state = "MARK"
 BY DEF InfoOut, Word
<1>2. x # NoInfo BY NamesDiffer DEF GlobalInv
<1>3. n \in Inner
 <2>1. NullUpdate.info = NoInfo BY DEF NullUpdate, Update
 <2> QED BY <1>1, <1>2, <2>1 DEF Lasting, Word
<1>4. PICK w, v : w = Word(n) /\ v = tree'[n].update OBVIOUS
<1>5. v \in Words' BY <1>1, <1>4 DEF GlobalInv, WordsLead, Leads, Sound, Word
<1>6. v = Update(v.state, x) /\ v.state \in States BY <1>1, <1>4, <1>5 DEF Words, Update, States
<1>7. Word(n) # Update("CLEAN", x) /\ ~Flagged(n, x) BY <1>3 DEF InfoOut, Flagged, Update
<1>8. ~Flagged(n, x)' /\ Word(n)' # Update("CLEAN", x) BY <1>3, <1>7 DEF Grows
<1>9. v # Update("IFLAG", x) /\ v # Update("DFLAG", x) /\ v # Update("CLEAN", x) BY <1>4, <1>8 DEF Flagged, Word
<1> QED BY <1>4, <1>6, <1>9 DEF States

(* A leaf that is out stays out. *)
LEMMA LeafOutStays ==
 ASSUME GlobalInv, Grows, Lasting, NEW x \in Leaves, LeafOut(x)
 PROVE LeafOut(x)'
<1>1. SUFFICES ASSUME NEW n \in Inner', x \in Kids(n)'
               PROVE Dead(n)' \/ (Word(n).state = "MARK" /\ Info(Word(n).info).l = x)'
 BY DEF LeafOut
<1>2. n \in Inner BY <1>1 DEF Lasting, Leaves
<1>3. x \in Kids(n) BY <1>1, <1>2 DEF Lasting
<1>4. CASE Dead(n) BY <1>2, <1>4 DEF Lasting
<1>5. CASE Word(n).state = "MARK" /\ Info(Word(n).info).l = x
 <2>1. Word(n)' = Word(n) BY <1>2, <1>5 DEF Grows
 <2>2. PICK w : w = Word(n) /\ w = tree'[n].update BY <2>1 DEF Word
 <2>3. w.info \in InfoIds BY <1>2, <1>5, <2>2 DEF GlobalInv, WordsLead, Leads, Sound, Removes
 <2>4. Info(w.info)' = Info(w.info) BY <2>3 DEF Grows
 <2>5. w.state = "MARK" /\ Info(w.info)'.l = x BY <1>5, <2>2, <2>4
 <2>6. Info(Word(n).info)' = Info(w.info)' BY <2>2 DEF Info, Word
 <2> QED BY <2>2, <2>5, <2>6 DEF Word
<1> QED BY <1>2, <1>3, <1>4, <1>5 DEF LeafOut

(* What is out stays out. *)
LEMMA OutStays ==
 ASSUME GlobalInv, GlobalInv', Grows, Lasting, NEW x, Out(x)
 PROVE Out(x)'
<1>1. CASE x \in InfoIds /\ InfoOut(x) BY <1>1, InfoOutStays, SetsGrow DEF Out
<1>2. CASE x \in Leaves /\ LeafOut(x) BY <1>2, LeafOutStays, SetsGrow DEF Out
<1>3. CASE x \in Inner /\ Dead(x) BY <1>3, SetsGrow DEF Out, Lasting
<1> QED BY <1>1, <1>2, <1>3 DEF Out

(* A place is for ever, and clean words stay in their places. *)
LEMMA CleanLeadsStays ==
 ASSUME GlobalInv, GlobalInv', Grows, Lasting, \A m \in Inner : NodeStep(m), CleanLeads
 PROVE CleanLeads'
<1>1. SUFFICES ASSUME NEW n \in Inner', NEW x \in InfoIds', tree'[n].update = Update("CLEAN", x)
               PROVE n = Place(x)'
 BY DEF CleanLeads, Word, Update, Place, Info
<1>2. PICK w, v : w = tree[n].update /\ v = tree'[n].update OBVIOUS
<1>3. v.state = "CLEAN" /\ v.info = x /\ x # NoInfo
 <2>1. v.state = "CLEAN" /\ v.info = x BY <1>1, <1>2 DEF Update
 <2>2. \E t \in Threads : \E i \in 1 .. Len(infos'[t]) : x = <<t, i>> BY DEF InfoIds
 <2>3. \A t, i : <<t, i>> # NoInfo BY DEF NoInfo
 <2> QED BY <2>1, <2>2, <2>3
<1>4. n \in Inner
 <2>1. NullUpdate.info = NoInfo BY DEF NullUpdate, Update
 <2> QED BY <1>1, <1>2, <1>3, <2>1 DEF Lasting, Word
<1>5. w.info = x /\ w.state # "MARK"
 <2>1. v = w \/ WordStep(w, v) BY <1>2, <1>4 DEF NodeStep
 <2>2. CASE v = w BY <1>3, <2>2
 <2>3. CASE WordStep(w, v)
  <3>1. w.state \in {"IFLAG", "DFLAG"} /\ v = Update("CLEAN", w.info) BY <1>3, <2>3 DEF WordStep
  <3> QED BY <1>3, <3>1 DEF Update
 <2> QED BY <2>1, <2>2, <2>3
<1>6. x \in InfoIds BY <1>2, <1>3, <1>4, <1>5, WordKinds DEF Word
<1>7. n = Place(x) BY <1>2, <1>4, <1>5, <1>6, WordIsInPlace DEF Word
<1>8. (x \in Adds' <=> x \in Adds) /\ Info(x)' = Info(x) BY <1>6, KindStays DEF Grows, GlobalInv
<1> QED BY <1>7, <1>8 DEF Place

-----------------------------------------------------------------------------
(* What a thread has given back after one more releaseNode, or two. *)
LEMMA GivesMore ==
 ASSUME NEW S, released \in [Threads -> Seq(S)], NEW t \in Threads, NEW things \in Seq(S), Release(t, things)
 PROVE  /\ released' \in [Threads -> Seq(S)]
        /\ \A u \in Threads : Given(u)' = IF u = t THEN Given(u) \cup Range(things) ELSE Given(u)
<1>1. PICK q : q = released[t] OBVIOUS
<1>2. q \in Seq(S) /\ released' = [released EXCEPT ![t] = q \o things] BY <1>1 DEF Release
<1>3. q \o things \in Seq(S) BY <1>2
<1>4. released' \in [Threads -> Seq(S)] BY <1>2, <1>3
<1>5. \A u \in Threads : released'[u] = IF u = t THEN q \o things ELSE released[u] BY <1>2
<1>6. Range(q \o things) = Range(q) \cup Range(things)
 <2>1. PICK n, m \in Nat : n = Len(q) /\ m = Len(things) BY <1>2
 <2>2. /\ Len(q \o things) = n + m
       /\ \A i \in 1 .. n : (q \o things)[i] = q[i]
       /\ \A i \in 1 .. m : (q \o things)[n + i] = things[i]
  BY <1>2, <2>1
 <2>3. DOMAIN q = 1 .. n /\ DOMAIN things = 1 .. m /\ DOMAIN (q \o things) = 1 .. (n + m) BY <1>2, <1>3, <2>1, <2>2
 <2>4. ASSUME NEW x \in Range(q \o things) PROVE x \in Range(q) \cup Range(things)
  <3>1. PICK i \in 1 .. (n + m) : x = (q \o things)[i] BY <2>3, <2>4 DEF Range
  <3>2. CASE i \in 1 .. n BY <2>2, <2>3, <3>1, <3>2 DEF Range
  <3>3. CASE i \notin 1 .. n
   <4>1. PICK j : j = i - n OBVIOUS
   <4>2. j \in 1 .. m /\ i = n + j BY <2>1, <3>1, <3>3, <4>1
   <4>3. x = things[j] BY <2>2, <3>1, <4>2
   <4> QED BY <2>3, <4>2, <4>3 DEF Range
  <3> QED BY <3>2, <3>3
 <2>5. ASSUME NEW x \in Range(q) PROVE x \in Range(q \o things)
  <3>1. PICK i \in 1 .. n : x = q[i] BY <2>3, <2>5 DEF Range
  <3>2. i \in 1 .. (n + m) /\ x = (q \o things)[i] BY <2>1, <2>2, <3>1
  <3> QED BY <2>3, <3>2 DEF Range
 <2>6. ASSUME NEW x \in Range(things) PROVE x \in Range(q \o things)
  <3>1. PICK i \in 1 .. m : x = things[i] BY <2>3, <2>6 DEF Range
  <3>2. (n + i) \in 1 .. (n + m) /\ x = (q \o things)[n + i] BY <2>1, <2>2, <3>1
  <3> QED BY <2>3, <3>2 DEF Range
 <2> QED BY <2>4, <2>5, <2>6
<1>7. \A u \in Threads : Given(u)' = Range(released'[u]) /\ Given(u) = Range(released[u]) BY DEF Given
<1> QED BY <1>1, <1>4, <1>5, <1>6, <1>7

(* Nothing is given back twice if what is given back now is new. *)
LEMMA GivesNew ==
 ASSUME NEW S, released \in [Threads -> Seq(S)], NEW t \in Threads, NEW things \in Seq(S),
        Release(t, things), ReleasedOnce,
        \A j, k \in DOMAIN things : things[j] = things[k] => j = k,
        \A u \in Threads : Range(things) \cap Given(u) = {}
 PROVE ReleasedOnce'
<1>1. PICK q, r : q = released[t] /\ r = q \o things OBVIOUS
<1>2. q \in Seq(S) /\ released' = [released EXCEPT ![t] = r] BY <1>1 DEF Release
<1>3. \A u \in Threads : released'[u] = IF u = t THEN r ELSE released[u] BY <1>2
<1>4. PICK n, m \in Nat : n = Len(q) /\ m = Len(things) BY <1>2
<1>5. /\ DOMAIN q = 1 .. n /\ DOMAIN things = 1 .. m /\ DOMAIN r = 1 .. (n + m)
      /\ \A i \in 1 .. n : r[i] = q[i]
      /\ \A i \in 1 .. (n + m) : i \notin 1 .. n => (i - n) \in 1 .. m /\ r[i] = things[i - n]
 BY <1>1, <1>2, <1>4
<1>6. ASSUME NEW j \in DOMAIN r
      PROVE  \/ j \in DOMAIN q /\ r[j] = q[j]
             \/ (j - n) \in DOMAIN things /\ r[j] = things[j - n] /\ j \in Int
 BY <1>5
<1>7. ASSUME NEW j \in DOMAIN things, NEW u \in Threads, NEW k \in DOMAIN released[u]
      PROVE things[j] # released[u][k]
 <2>1. things[j] \in Range(things) /\ released[u][k] \in Given(u) BY DEF Range, Given
 <2> QED BY <2>1
<1>0. /\ \A j, k \in DOMAIN q : q[j] = q[k] => j = k
      /\ \A u \in Threads : u # t => \A j \in DOMAIN q : \A k \in DOMAIN released[u] : q[j] # released[u][k]
      /\ \A j \in DOMAIN things : \A k \in DOMAIN q : things[j] # q[k]
 <2>1. \A j \in DOMAIN things : \A k \in DOMAIN released[t] : things[j] # released[t][k] BY <1>7
 <2>2. \A j, k \in DOMAIN released[t] : released[t][j] = released[t][k] => j = k BY DEF ReleasedOnce
 <2>3. \A u \in Threads : u # t =>
         \A j \in DOMAIN released[t] : \A k \in DOMAIN released[u] : released[t][j] # released[u][k]
  BY DEF ReleasedOnce
 <2> QED BY <1>1, <2>1, <2>2, <2>3
<1>8. ASSUME NEW j \in DOMAIN r, NEW k \in DOMAIN r, r[j] = r[k]
      PROVE j = k
 <2>1. CASE j \in DOMAIN q /\ r[j] = q[j] /\ k \in DOMAIN q /\ r[k] = q[k] BY <1>0, <1>8, <2>1
 <2>2. CASE j \in DOMAIN q /\ r[j] = q[j] /\ (k - n) \in DOMAIN things /\ r[k] = things[k - n] BY <1>0, <1>8, <2>2
 <2>3. CASE k \in DOMAIN q /\ r[k] = q[k] /\ (j - n) \in DOMAIN things /\ r[j] = things[j - n] BY <1>0, <1>8, <2>3
 <2>4. CASE /\ (j - n) \in DOMAIN things /\ r[j] = things[j - n] /\ j \in Int
            /\ (k - n) \in DOMAIN things /\ r[k] = things[k - n] /\ k \in Int
  <3>1. j - n = k - n BY <1>8, <2>4
  <3> QED BY <1>4, <2>4, <3>1
 <2> QED BY <1>6, <2>1, <2>2, <2>3, <2>4
<1>9. ASSUME NEW j \in DOMAIN r, NEW u \in Threads, u # t, NEW k \in DOMAIN released[u]
      PROVE r[j] # released[u][k]
 <2>1. CASE j \in DOMAIN q /\ r[j] = q[j] BY <1>0, <1>9, <2>1
 <2>2. CASE (j - n) \in DOMAIN things /\ r[j] = things[j - n] BY <1>7, <2>2
 <2> QED BY <1>6, <2>1, <2>2
<1>10. ASSUME NEW u \in Threads, NEW v \in Threads, NEW j \in DOMAIN released'[u], NEW k \in DOMAIN released'[v],
              released'[u][j] = released'[v][k]
       PROVE u = v /\ j = k
 <2>1. CASE u = t /\ v = t BY <1>3, <1>8, <1>10, <2>1
 <2>2. CASE u = t /\ v # t BY <1>3, <1>9, <1>10, <2>2
 <2>3. CASE u # t /\ v = t BY <1>3, <1>9, <1>10, <2>3
 <2>4. CASE u # t /\ v # t BY <1>3, <1>10, <2>4 DEF ReleasedOnce
 <2> QED BY <2>1, <2>2, <2>3, <2>4
<1> QED BY <1>10 DEF ReleasedOnce

-----------------------------------------------------------------------------
(* A leaf whose parent has a clean word is not out. *)
LEMMA LeafIsIn ==
 ASSUME GlobalInv, NEW n \in Inner, NEW l \in Leaves, l \in Kids(n), Word(n).state # "MARK"
 PROVE ~Out(l)
<1>1. ~LeafOut(l) BY DEF LeafOut, Dead
<1>2. l \notin InfoIds /\ l \notin Inner BY NamesDiffer DEF GlobalInv, Leaves, Inner
<1> QED BY <1>1, <1>2 DEF Out

(* A remove that has marked and not unlinked has done so before, or its    *)
(* leaf was not out then.                                                  *)
LEMMA MarkedBefore ==
 ASSUME SetInv, Keeps, Lasting, NEW op \in Removes', Marked(op)', Linked(op)'
 PROVE  /\ op \in Removes /\ Info(op)' = Info(op)
        /\ (Marked(op) /\ Linked(op)) \/ ~Out(Info(op).l)
<1>1. GlobalInv /\ Grows BY DEF SetInv, NBBSTInv, Keeps
<1>2. op \in InfoIds BY DEF Lasting
<1>3. op \in Removes /\ Info(op)' = Info(op) BY <1>1, <1>2, KindStays
<1>4. op \notin Adds /\ op \notin Adds' BY <1>3, KindsDiffer
<1>5. CASE Marked(op)
 <2>1. ~HasEffect(op)' BY <1>4 DEF HasEffect
 <2>2. ~HasEffect(op) BY <1>2, <2>1 DEF Lasting
 <2>3. Linked(op) BY <1>4, <1>5, <2>2 DEF HasEffect
 <2> QED BY <1>3, <1>5, <2>3
<1>6. CASE ~Marked(op)
 <2>1. MayMark(op) BY <1>1, <1>3, <1>6 DEF Grows
 <2>2. PICK p, l : p = Info(op).p /\ l = Info(op).l OBVIOUS
 <2>3. p \in Inner /\ l \in Leaves /\ Info(op).pupdate \in CleanWords BY <1>3, <2>2 DEF Removes, RemoveInfo
 <2>4. Word(p).state = "CLEAN" BY <2>1, <2>2, <2>3 DEF MayMark, CleanWords
 <2>5. l \in Kids(p) BY <1>1, <1>3, <2>1, <2>2 DEF GlobalInv, RemoveInv, MayMark
 <2>6. ~Out(l) BY <1>1, <2>3, <2>4, <2>5, LeafIsIn
 <2> QED BY <1>3, <2>2, <2>6
<1> QED BY <1>5, <1>6

(* What a thread owes does not change while others move. *)
LEMMA OwedStays ==
 ASSUME SetInv, Keeps, NEW u \in Threads, own'[u] = own[u], search'[u] = search[u],
        own[u] => stack'[u][1].op = stack[u][1].op
 PROVE Owed(u)' = Owed(u)
<1>1. GlobalInv /\ Grows BY DEF SetInv, NBBSTInv, Keeps
<1>2. CASE ~own[u] BY <1>2 DEF Owed
<1>3. CASE own[u]
 <2>1. PICK op : op = stack[u][1].op OBVIOUS
 <2>2. op \in InfoIds BY <1>3, <2>1 DEF SetInv, CallsInv, OwnInv
 <2>3. op \in Adds' <=> op \in Adds BY <1>1, <2>2, KindStays
 <2> QED BY <1>3, <2>1, <2>3 DEF Owed
<1> QED BY <1>2, <1>3

(* The obligations of a thread after a step. *)
LEMMA UnlinksStays ==
 ASSUME SetInv, Keeps, Lasting, ReleaseInv, NEW t \in Threads, NEW S, Given(t)' = Given(t) \cup S,
        \A op \in Removes : Awaits(t, op) => Awaits(t, op)' \/ ~Linked(op)',
        \A op \in Removes :
            Info(op).l \in S => ~(Marked(op)' /\ Linked(op)') \/ Awaits(t, op)'
 PROVE Unlinks(t)'
<1>1. SUFFICES ASSUME NEW op \in Removes', Marked(op)', Linked(op)', Info(op)'.l \in Given(t)'
               PROVE Awaits(t, op)'
 BY DEF Unlinks
<1>2. /\ op \in Removes /\ Info(op)' = Info(op)
      /\ (Marked(op) /\ Linked(op)) \/ ~Out(Info(op).l)
 BY <1>1, MarkedBefore
<1>3. CASE Info(op).l \in S BY <1>1, <1>2, <1>3
<1>4. CASE Info(op).l \notin S
 <2>1. Info(op).l \in Given(t) BY <1>1, <1>2, <1>4
 <2>2. Out(Info(op).l) BY <2>1 DEF ReleaseInv
 <2>3. Awaits(t, op) BY <1>2, <2>1, <2>2 DEF ReleaseInv, Unlinks
 <2> QED BY <1>1, <1>2, <2>3
<1> QED BY <1>3, <1>4

-----------------------------------------------------------------------------

LEMMA ReleaseMoves ==
 ASSUME SetInv, SetInv', Keeps, Lasting, ReleaseInv, NEW t \in Threads, NEW things,
        OthersSame(t), GivesOut(t, things), OwesNew(t), GoesOnFor(t, things)
 PROVE ReleaseInv'
<1>1. /\ GlobalInv /\ GlobalInv' /\ Grows /\ \A m \in Inner : NodeStep(m) BY DEF SetInv, NBBSTInv, Keeps
<1>2. \A x : Out(x) => Out(x)' BY <1>1, OutStays
<1>3. PICK S : S = Nodes \cup InfoIds OBVIOUS
<1>4. released \in [Threads -> Seq(S)] /\ things \in Seq(S) /\ Release(t, things) BY <1>3 DEF ReleaseInv, GivesOut
<1>5. /\ released' \in [Threads -> Seq(S)]
      /\ \A u \in Threads : Given(u)' = IF u = t THEN Given(u) \cup Range(things) ELSE Given(u)
 BY <1>4, GivesMore
<1>6. released' \in [Threads -> Seq(Nodes \cup InfoIds)']
 <2>1. S \subseteq (Nodes \cup InfoIds)' BY <1>1, <1>3, SetsGrow
 <2>2. Seq(S) \subseteq Seq((Nodes \cup InfoIds)') BY <2>1
 <2> QED BY <1>5, <2>2
<1>7. ASSUME NEW x \in Range(things), NEW u \in Threads
      PROVE x \notin Given(u) /\ (u # t => x \notin Owed(u))
 <2>1. CASE ~Out(x) BY <2>1 DEF ReleaseInv, OwedInv
 <2>2. CASE x \in Owed(t) BY <2>2 DEF ReleaseInv, OwedInv
 <2> QED BY <2>1, <2>2 DEF GivesOut
<1>8. ReleasedOnce'
 <2>1. \A u \in Threads : Range(things) \cap Given(u) = {} BY <1>7
 <2>2. \A j, k \in DOMAIN things : things[j] = things[k] => j = k BY DEF GivesOut
 <2>3. ReleasedOnce BY DEF ReleaseInv
 <2> QED BY <1>4, <2>1, <2>2, <2>3, GivesNew
<1>9. CleanLeads' BY <1>1, CleanLeadsStays DEF ReleaseInv
<1>10. ASSUME NEW u \in Threads, NEW x \in Given(u)' PROVE Out(x)' BY <1>2, <1>5, <1>10 DEF ReleaseInv, GivesOut
<1>11. \A u \in Threads : u # t => Owed(u)' = Owed(u) BY OwedStays DEF OthersSame
<1>12. ASSUME NEW u \in Threads PROVE OwedInv(u)'
 <2>1. ASSUME NEW i \in Owed(u)'
       PROVE  /\ i \in InfoIds' /\ Out(i)'
              /\ \A v \in Threads : i \notin Given(v)' /\ (v # u => i \notin Owed(v)')
  <3>1. CASE u # t
   <4>1. i \in Owed(u) BY <1>11, <2>1, <3>1
   <4>2. i \in InfoIds /\ Out(i) /\ \A v \in Threads : i \notin Given(v) /\ (v # u => i \notin Owed(v))
    BY <4>1 DEF ReleaseInv, OwedInv
   <4>3. i \in InfoIds' /\ Out(i)' BY <1>1, <1>2, <4>2, SetsGrow
   <4>4. i \notin Range(things) BY <1>7, <3>1, <4>1
   <4>5. i \notin Owed(t)' BY <3>1, <4>2 DEF OwesNew
   <4> QED BY <1>5, <1>11, <4>2, <4>3, <4>4, <4>5
  <3>2. CASE u = t
   <4>1. i \notin Range(things) BY <2>1, <3>2 DEF GivesOut
   <4>2. i \in InfoIds /\ Out(i)' /\ \A v \in Threads : i \notin Given(v) /\ (v # t => i \notin Owed(v))
    <5>1. CASE i \in Owed(t) BY <1>2, <5>1 DEF ReleaseInv, OwedInv
    <5>2. CASE i \in InfoIds /\ ~Out(i) /\ Out(i)' BY <5>2 DEF ReleaseInv, OwedInv
    <5> QED BY <2>1, <3>2, <5>1, <5>2 DEF OwesNew
   <4>3. i \in InfoIds' BY <1>1, <4>2, SetsGrow
   <4> QED BY <1>5, <1>11, <3>2, <4>1, <4>2, <4>3
  <3> QED BY <3>1, <3>2
 <2> QED BY <2>1 DEF OwedInv
<1>13. ASSUME NEW u \in Threads PROVE Unlinks(u)'
 <2>1. CASE u = t
  <3>1. Given(t)' = Given(t) \cup Range(things) BY <1>5
  <3> QED BY <2>1, <3>1, UnlinksStays DEF GoesOnFor
 <2>2. CASE u # t
  <3>1. Given(u)' = Given(u) \cup {} BY <1>5, <2>2
  <3>2. \A op \in Removes : Awaits(u, op) => Awaits(u, op)' BY <2>2 DEF OthersSame, Awaits
  <3>3. PICK none : none = {} /\ Given(u)' = Given(u) \cup none BY <3>1
  <3>4. \A op \in Removes : Info(op).l \notin none BY <3>3
  <3> QED BY <3>2, <3>3, <3>4, UnlinksStays
 <2> QED BY <2>1, <2>2
<1>14. \A u \in Threads : pc'[u] # "help" => stack'[u] = <<>> BY DEF ReleaseInv, OthersSame, GoesOnFor
<1> QED BY <1>6, <1>8, <1>9, <1>10, <1>12, <1>13, <1>14 DEF ReleaseInv

-----------------------------------------------------------------------------
(* The steps that change no child. *)
LEMMA StillLasts ==
 ASSUME SetInv, Keeps, Still, TreeInv',
        \A n \in Inner' : n \in Inner \/ (Word(n)' = NullUpdate /\ Kids(n)' \cap Nodes = {}),
        \A op \in Removes' : op \in InfoIds \/ ~Marked(op)'
 PROVE Lasting
<1>1. GlobalInv /\ GlobalInv' /\ TreeInv /\ Grows BY DEF SetInv, Keeps, NBBSTInv
<1>2. /\ \A n \in Inner : Dead(n) => Dead(n)'
      /\ \A op \in InfoIds : HasEffect(op) => HasEffect(op)'
 BY <1>1, CalmEffects
<1>3. \A n \in Inner : \A c \in Kids(n)' : c \in Kids(n) BY DEF Still, SameKids, Kids
<1> QED BY <1>2, <1>3 DEF Lasting

LEMMA CalmLasts ==
 ASSUME Calm, Nodes' = Nodes
 PROVE Lasting
<1>1. \A n \in Inner' : n \in Inner BY DEF Calm, Still, Inner
<1>2. \A op \in Removes' : op \in InfoIds BY DEF Calm, Removes
<1> QED BY <1>1, <1>2, StillLasts DEF Calm

LEMMA WordLasts ==
 ASSUME SetInv, Keeps, UNCHANGED infos, NEW n \in Inner, NEW u, SetUpdate(n, u)
 PROVE Lasting
<1>1. Calm BY WordIsCalm
<1>2. Shape /\ InfosStay BY DEF SetInv, NBBSTInv, GlobalInv, InfosStay, InfoIds, Info
<1>3. Nodes' = Nodes BY <1>2, SetsWord
<1> QED BY <1>1, <1>3, CalmLasts

LEMMA QuietLasts ==
 ASSUME SetInv, Keeps, UNCHANGED <<tree, infos>>
 PROVE Lasting
 BY QuietIsCalm, CalmLasts DEF Nodes

LEMMA StateLasts ==
 ASSUME SetInv, Keeps, UNCHANGED infos, NEW n \in Inner, NEW op, NEW from, NEW to, CASState(n, op, from, to)
 PROVE Lasting
<1>1. CASE UNCHANGED tree BY <1>1, QuietLasts
<1>2. CASE ~UNCHANGED tree
 <2>1. PICK u : u = Update(to, op) OBVIOUS
 <2>2. SetUpdate(n, u) BY <1>2, <2>1 DEF CASState
 <2> QED BY <2>2, WordLasts
<1> QED BY <1>1, <1>2

(* A step that gives nothing back. *)
LEMMA NoneIsGiven ==
 ASSUME SetInv, SetInv', Keeps, Lasting, ReleaseInv, NEW t \in Threads,
        OthersSame(t), UNCHANGED released, OwesNew(t),
        \A op \in Removes : Awaits(t, op) => Awaits(t, op)' \/ ~Linked(op)',
        pc'[t] # "help" => stack'[t] = <<>>
 PROVE ReleaseInv'
<1>1. PICK none, S : none = <<>> /\ S = Nodes \cup InfoIds OBVIOUS
<1>2. /\ none \in Seq(S) /\ DOMAIN none = {} /\ Range(none) = {}
      /\ \A q \in Seq(S) : q \o none = q
 BY <1>1 DEF Range
<1>3. released \in [Threads -> Seq(S)] BY <1>1 DEF ReleaseInv
<1>4. released[t] \in Seq(S) BY <1>3
<1>5. Release(t, none)
 <2>1. released[t] \o none = released[t] BY <1>2, <1>4
 <2>2. [released EXCEPT ![t] = released[t]] = released BY <1>3
 <2> QED BY <2>1, <2>2 DEF Release
<1>6. GivesOut(t, none) BY <1>1, <1>2, <1>5 DEF GivesOut
<1>7. GoesOnFor(t, none) BY <1>2 DEF GoesOnFor
<1> QED BY <1>6, <1>7, ReleaseMoves

LEMMA NothingIsGiven ==
 ASSUME SetInv, SetInv', Keeps, Lasting, ReleaseInv, NEW t \in Threads,
        OthersSame(t), UNCHANGED released, Owed(t)' \subseteq Owed(t),
        \A op \in Removes : Awaits(t, op) => Awaits(t, op)' \/ ~Linked(op)',
        pc'[t] # "help" => stack'[t] = <<>>
 PROVE ReleaseInv'
 BY NoneIsGiven DEF OwesNew

(* A search gives nothing back, and a thread that searches owes nothing. *)
LEMMA SearchGivesNothing ==
 ASSUME SetInv, SetInv', Keeps, ReleaseInv, NEW t \in Threads, pc[t] # "help",
        UNCHANGED <<tree, infos, released>>, OthersSame(t), ~own'[t],
        pc'[t] # "help" => stack'[t] = <<>>
 PROVE ReleaseInv'
<1>1. stack[t] = <<>> BY DEF ReleaseInv
<1>2. \A op : ~Awaits(t, op) BY <1>1 DEF Awaits
<1>3. Owed(t)' = {} BY DEF Owed
<1>4. Lasting BY QuietLasts
<1> QED BY <1>2, <1>3, <1>4, NothingIsGiven

(* How the locals of a thread change. *)
LEMMA LeavingLocals ==
 ASSUME SetInv, NEW t \in Threads, (\E r : Return(t, r)) \/ Retry(t)
 PROVE OthersSame(t) /\ ~own'[t] /\ pc'[t] # "help" /\ stack'[t] = <<>>
<1>1. ControlTypes /\ HistoryTypes BY DEF SetInv, NBBSTInv
<1> QED BY <1>1 DEF Return, Retry, GoTo, OthersSame, ControlTypes, HistoryTypes

LEMMA RunLocals ==
 ASSUME SetInv, NEW t \in Threads, NEW frames, NEW isOwn, Run(t, frames, isOwn)
 PROVE OthersSame(t) /\ own'[t] = isOwn /\ pc'[t] = "help" /\ stack'[t] = frames /\ UNCHANGED search
<1>1. ControlTypes /\ HistoryTypes BY DEF SetInv, NBBSTInv
<1> QED BY <1>1 DEF Run, GoTo, OthersSame, ControlTypes, HistoryTypes

LEMMA HelpThenRetryLocals ==
 ASSUME SetInv, NEW t \in Threads, NEW u, HelpThenRetry(t, u)
 PROVE OthersSame(t) /\ ~own'[t] /\ (pc'[t] # "help" => stack'[t] = <<>>)
<1>1. CASE Retry(t) BY <1>1, LeavingLocals
<1>2. CASE Run(t, Help(u), FALSE) BY <1>2, RunLocals
<1> QED BY <1>1, <1>2 DEF HelpThenRetry

LEMMA SearchingReleases ==
 ASSUME SetInv, SetInv', Keeps, ReleaseInv, NEW t \in Threads,
        \/ Searching(t) \/ ReadResult(t) \/ FlagFails(t)
        \/ \E c \in Abstract!SetCalls : Start(t, c)
 PROVE ReleaseInv'
<1>1. ControlTypes /\ HistoryTypes BY DEF SetInv, NBBSTInv
<1>2. CASE \/ ReadUpdate(t) \/ ReadChild(t) \/ PreparesOperation(t) \/ ReadResult(t)
           \/ \E c \in Abstract!SetCalls : Start(t, c)
 <2>1. pc[t] # "help" BY <1>2 DEF ReadUpdate, ReadChild, PreparesOperation, Proceeds, Reaches, ReadResult, Start
 <2>2. UNCHANGED <<stack, own>> /\ UNCHANGED <<tree, infos, released>>
  BY <1>2 DEF ReadUpdate, ReadChild, PreparesOperation, ReadResult, Start, memory
 <2>3. OthersSame(t)
  <3>1. \A u \in Threads \ {t} : pc'[u] = pc[u] /\ search'[u] = search[u]
   BY <1>1, <1>2 DEF ReadUpdate, ReadChild, PreparesOperation, ReadResult, Start, GoTo, ControlTypes
  <3> QED BY <2>2, <3>1 DEF OthersSame
 <2>4. ~own'[t] BY <2>1, <2>2, SearchersOwnNothing
 <2>5. stack'[t] = <<>> BY <2>1, <2>2 DEF ReleaseInv
 <2> QED BY <2>1, <2>2, <2>3, <2>4, <2>5, SearchGivesNothing
<1>3. CASE ContainsReturns(t) \/ AddFindsKey(t) \/ RemoveMissesKey(t)
 <2>1. pc[t] # "help" /\ (\E r : Return(t, r)) /\ UNCHANGED <<tree, infos, released>>
  BY <1>3 DEF ContainsReturns, AddFindsKey, RemoveMissesKey, Reaches, memory
 <2>2. OthersSame(t) /\ ~own'[t] /\ stack'[t] = <<>> BY <2>1, LeavingLocals
 <2> QED BY <2>1, <2>2, SearchGivesNothing
<1>4. CASE HelpsObstacle(t) \/ FlagFails(t)
 <2>1. pc[t] # "help" /\ (\E u : HelpThenRetry(t, u)) /\ UNCHANGED <<tree, infos, released>>
  BY <1>4 DEF HelpsObstacle, FlagFails, Proceeds, Reaches, memory
 <2>2. OthersSame(t) /\ ~own'[t] /\ (pc'[t] # "help" => stack'[t] = <<>>) BY <2>1, HelpThenRetryLocals
 <2> QED BY <2>1, <2>2, SearchGivesNothing
<1> QED BY <1>2, <1>3, <1>4 DEF Searching

-----------------------------------------------------------------------------
(* The frames of a stack that stay when the innermost call goes on.        *)
LEMMA JoinedFrames ==
 ASSUME NEW S, NEW p \in Seq(S), NEW q \in Seq(S), NEW r, r = p \o q
 PROVE  /\ DOMAIN q = 1 .. Len(q) /\ DOMAIN r = 1 .. (Len(p) + Len(q))
        /\ \A i \in 1 .. Len(p) : r[i] = p[i]
        /\ \A i \in 1 .. Len(q) : r[Len(p) + i] = q[i]
        /\ p # <<>> \/ q # <<>> => r # <<>>
<1>1. PICK k, m \in Nat : k = Len(p) /\ m = Len(q) OBVIOUS
<1>2. /\ r \in Seq(S) /\ Len(r) = k + m
      /\ \A i \in 1 .. k : r[i] = p[i]
      /\ \A i \in 1 .. m : r[k + i] = q[i]
 BY <1>1
<1>3. DOMAIN q = 1 .. m /\ DOMAIN r = 1 .. (k + m) BY <1>1, <1>2
<1>4. p # <<>> \/ q # <<>> => k + m # 0 BY <1>1
<1>5. r = <<>> => Len(r) = 0 OBVIOUS
<1> QED BY <1>1, <1>2, <1>3, <1>4, <1>5
LEMMA FramesGoOn ==
 ASSUME NBBSTInv, NEW t \in Threads, pc[t] = "help", NEW S, FrameSet \subseteq S,
        NEW frames \in Seq(S), Continue(t, frames)
 PROVE  /\ \A op : Awaits(t, op) =>
             Awaits(t, op)' \/ (Top(t).op = op /\ Top(t).at \in {"markedOther", "markedChild"})
        /\ \A op : \A i \in DOMAIN frames :
             frames[i].op = op /\ frames[i].at \in {"markedOther", "markedChild"} => Awaits(t, op)'
        /\ frames # <<>> \/ Len(stack[t]) > 1 => stack'[t] # <<>>
<1>1. PICK q, front, r : q = stack[t] /\ front = Front(q) /\ r = front \o frames OBVIOUS
<1>2. q \in Seq(S) /\ q # <<>> /\ Top(t) = Last(q) BY <1>1, TopIsFrame DEF Top
<1>3. stack'[t] = r BY <1>1 DEF Continue, NBBSTInv, ControlTypes
<1>4. front \in Seq(S) /\ Len(front) = Len(q) - 1 /\ (Len(q) > 1 => front # <<>>) BY <1>1, <1>2, StackFacts
<1>5. PICK n, m \in Nat : n = Len(q) /\ m = Len(frames) BY <1>2
<1>6. n # 0 /\ Len(front) = n - 1 /\ (n - 1) \in Nat BY <1>2, <1>4, <1>5
<1>7. /\ DOMAIN q = 1 .. n /\ DOMAIN frames = 1 .. m /\ DOMAIN r = 1 .. (n - 1 + m)
      /\ \A i \in 1 .. (n - 1) : r[i] = front[i]
      /\ \A i \in 1 .. m : r[n - 1 + i] = frames[i]
 <2>1. PICK k \in Nat : k = n - 1 BY <1>6
 <2>2. k = Len(front) BY <1>6, <2>1
 <2>5. r = front \o frames /\ front \in Seq(S) /\ frames \in Seq(S) BY <1>1, <1>4
 <2>0. /\ DOMAIN frames = 1 .. Len(frames) /\ DOMAIN r = 1 .. (Len(front) + Len(frames))
       /\ \A i \in 1 .. Len(front) : r[i] = front[i]
       /\ \A i \in 1 .. Len(frames) : r[Len(front) + i] = frames[i]
  BY <2>5, JoinedFrames
 <2>3. /\ DOMAIN frames = 1 .. m /\ DOMAIN r = 1 .. (k + m)
       /\ \A i \in 1 .. k : r[i] = front[i]
       /\ \A i \in 1 .. m : r[k + i] = frames[i]
  BY <1>5, <2>0, <2>2
 <2>4. DOMAIN q = 1 .. n BY <1>2, <1>5
 <2> QED BY <2>1, <2>3, <2>4
<1>8. \A i \in 1 .. (n - 1) : front[i] = q[i]
 <2>1. PICK k \in Int : k = n - 1 /\ \A i \in 1 .. k : q[i] \in S BY <1>2, <1>5, <1>6
 <2>2. front = SubSeq(q, 1, k) BY <1>1, <1>5, <2>1 DEF Front
 <2>3. \A i \in 1 .. k : SubSeq(q, 1, k)[i] = q[1 + i - 1] BY <2>1, SubSeqProperties
 <2>4. \A i \in 1 .. k : 1 + i - 1 = i BY <2>1
 <2> QED BY <2>1, <2>2, <2>3, <2>4
<1>9. \A i \in 1 .. n : (i \in 1 .. (n - 1)) \/ i = n BY <1>5, <1>6
<1>10. \A i \in 1 .. (n - 1) : i \in DOMAIN r BY <1>5, <1>6, <1>7
<1>11. \A i \in 1 .. m : (n - 1 + i) \in DOMAIN r BY <1>5, <1>6, <1>7
<1>12. ASSUME NEW op, Awaits(t, op), ~(Top(t).op = op /\ Top(t).at \in {"markedOther", "markedChild"})
       PROVE Awaits(t, op)'
 <2>1. PICK i \in DOMAIN q : q[i].op = op /\ q[i].at \in {"markedOther", "markedChild"} BY <1>1, <1>12 DEF Awaits
 <2>2. i # n BY <1>2, <1>5, <1>12, <2>1 DEF Last
 <2>3. i \in DOMAIN r /\ r[i] = q[i] BY <1>7, <1>8, <1>9, <1>10, <2>1, <2>2
 <2> QED BY <1>3, <2>1, <2>3 DEF Awaits
<1>13. ASSUME NEW op, NEW i \in DOMAIN frames,
              frames[i].op = op, frames[i].at \in {"markedOther", "markedChild"}
       PROVE Awaits(t, op)'
 <2>1. (n - 1 + i) \in DOMAIN r /\ r[n - 1 + i] = frames[i] BY <1>7, <1>11, <1>13
 <2> QED BY <1>3, <1>13, <2>1 DEF Awaits
<1>14. frames # <<>> \/ n > 1 => r # <<>>
 <2>1. frames # <<>> \/ front # <<>> => r # <<>> BY <1>1, <1>4, JoinedFrames
 <2> QED BY <1>4, <1>5, <2>1
<1> QED BY <1>1, <1>3, <1>5, <1>12, <1>13, <1>14

LEMMA ContinueLocals ==
 ASSUME SetInv, Keeps, NEW t \in Threads, pc[t] = "help", NEW S, FrameSet \subseteq S,
        NEW frames \in Seq(S), Continue(t, frames), frames # <<>> \/ Len(stack[t]) > 1,
        ~(Len(stack[t]) > 1) => frames[1].op = Top(t).op
 PROVE OthersSame(t) /\ pc'[t] = "help" /\ Owed(t)' = Owed(t)
<1>1. NBBSTInv BY DEF SetInv
<1>2. /\ stack'[t][1].op = stack[t][1].op
      /\ \A u \in Threads \ {t} : stack'[u] = stack[u]
      /\ UNCHANGED <<pc, search, own>>
 BY <1>1, ContinueFirst
<1>3. Owed(t)' = Owed(t) BY <1>2, OwedStays
<1> QED BY <1>2, <1>3 DEF OthersSame

LEMMA OneFrameLocals ==
 ASSUME SetInv, Keeps, NEW t \in Threads, pc[t] = "help", NEW f, Continue(t, <<f>>),
        f.op = Top(t).op
 PROVE  /\ OthersSame(t) /\ pc'[t] = "help" /\ Owed(t)' = Owed(t)
        /\ \A op : Awaits(t, op) =>
             Awaits(t, op)' \/ (Top(t).op = op /\ Top(t).at \in {"markedOther", "markedChild"})
        /\ f.at \in {"markedOther", "markedChild"} => Awaits(t, f.op)'
<1>1. PICK S, frames : S = FrameSet \cup {f} /\ frames = <<f>> OBVIOUS
<1>2. /\ FrameSet \subseteq S /\ frames \in Seq(S) /\ frames # <<>>
      /\ frames[1] = f /\ 1 \in DOMAIN frames
 BY <1>1
<1>3. NBBSTInv /\ Continue(t, frames) BY <1>1 DEF SetInv
<1>4. OthersSame(t) /\ pc'[t] = "help" /\ Owed(t)' = Owed(t) BY <1>2, <1>3, ContinueLocals
<1>5. /\ \A op : Awaits(t, op) =>
           Awaits(t, op)' \/ (Top(t).op = op /\ Top(t).at \in {"markedOther", "markedChild"})
      /\ \A op : \A i \in DOMAIN frames :
           frames[i].op = op /\ frames[i].at \in {"markedOther", "markedChild"} => Awaits(t, op)'
 BY <1>2, <1>3, FramesGoOn
<1> QED BY <1>2, <1>4, <1>5

LEMMA PopLocals ==
 ASSUME SetInv, Keeps, ReleaseInv, NEW t \in Threads, pc[t] = "help",
        NEW done, PopFrame(t, done), Top(t).at \notin {"markedOther", "markedChild"}
 PROVE  /\ OthersSame(t) /\ Owed(t)' \subseteq Owed(t)
        /\ \A op : Awaits(t, op) => Awaits(t, op)'
        /\ pc'[t] # "help" => stack'[t] = <<>>
        /\ ~(Len(stack[t]) > 1) => ~own'[t]
<1>1. NBBSTInv BY DEF SetInv
<1>2. CASE Len(stack[t]) > 1
 <2>1. PICK none : none = <<>> OBVIOUS
 <2>5. Continue(t, <<>>) BY <1>2, Zenon DEF PopFrame
 <2>2. none \in Seq(FrameSet) /\ Continue(t, none) BY <2>1, <2>5
 <2>3. OthersSame(t) /\ pc'[t] = "help" /\ Owed(t)' = Owed(t) BY <1>2, <2>2, ContinueLocals
 <2>4. \A op : Awaits(t, op) =>
         Awaits(t, op)' \/ (Top(t).op = op /\ Top(t).at \in {"markedOther", "markedChild"})
  BY <1>1, <2>2, FramesGoOn
 <2> QED BY <1>2, <2>3, <2>4
<1>3. CASE ~(Len(stack[t]) > 1)
 <2>1. (\E r : Return(t, r)) \/ Retry(t) BY <1>3 DEF PopFrame
 <2>2. OthersSame(t) /\ ~own'[t] /\ pc'[t] # "help" /\ stack'[t] = <<>> BY <2>1, LeavingLocals
 <2>3. Owed(t)' = {} BY <2>2 DEF Owed
 <2>4. PICK q : q = stack[t] OBVIOUS
 <2>5. q \in Seq(FrameSet) /\ q # <<>> /\ Top(t) = Last(q) BY <1>1, <2>4, TopIsFrame DEF Top
 <2>6. PICK n \in Nat : n = Len(q) /\ n # 0 BY <2>5
 <2>7. ~(n > 1) BY <1>3, <2>4, <2>6, Zenon
 <2>8. n = 1 BY <2>6, <2>7
 <2>9. DOMAIN q = {1} /\ Last(q) = q[1]
  <3>0. DOMAIN q = 1 .. n BY <2>5, <2>6
  <3>1. DOMAIN q = 1 .. 1 BY <2>8, <3>0
  <3>2. Last(q) = q[n] BY <2>6 DEF Last
  <3> QED BY <2>8, <3>1, <3>2
 <2>10. \A op : ~Awaits(t, op) BY <2>4, <2>5, <2>9 DEF Awaits
 <2> QED BY <2>2, <2>3, <2>10
<1> QED BY <1>2, <1>3

-----------------------------------------------------------------------------
(* The steps of HelpDelete and HelpMarked that give nothing back. *)
LEMMA HelpReadsReleases ==
 ASSUME SetInv, SetInv', Keeps, ReleaseInv, NEW t \in Threads, DeleteRead(t) \/ DeleteMarkFails(t) \/ MarkedOther(t)
 PROVE ReleaseInv'
<1>1. PICK f : /\ Continue(t, <<f>>) /\ f.op = Top(t).op
               /\ Top(t).at \in {"markedOther", "markedChild"} => f.at = "markedChild"
 <2>1. CASE DeleteRead(t) BY <2>1 DEF DeleteRead, At
 <2>2. CASE DeleteMarkFails(t)
  <3>1. PICK g, f : g = Top(t) /\ f = [g EXCEPT !.at = "deleteRecheck"] OBVIOUS
  <3>2. pc[t] = "help" /\ g.at = "deleteMark" /\ Continue(t, <<f>>) BY <2>2, <3>1 DEF DeleteMarkFails, At
  <3>3. f.op = g.op BY <3>1, <3>2, TopIsFrame, FrameKinds DEF SetInv
  <3> QED BY <3>1, <3>2, <3>3
 <2>3. CASE MarkedOther(t)
  <3>1. PICK f : f = [at |-> "markedChild", op |-> Top(t).op,
                      other |-> IF tree[Info(Top(t).op).p].right = Info(Top(t).op).l
                                THEN tree[Info(Top(t).op).p].left
                                ELSE tree[Info(Top(t).op).p].right]
   OBVIOUS
  <3>2. Continue(t, <<f>>) /\ f.op = Top(t).op /\ f.at = "markedChild" BY <2>3, <3>1 DEF MarkedOther
  <3> QED BY <3>2
 <2> QED BY <2>1, <2>2, <2>3
<1>2. pc[t] = "help" /\ UNCHANGED <<tree, infos>> /\ UNCHANGED released
 BY DEF DeleteRead, DeleteMarkFails, MarkedOther, At, memory
<1>3. /\ OthersSame(t) /\ pc'[t] = "help" /\ Owed(t)' = Owed(t)
      /\ \A op : Awaits(t, op) =>
           Awaits(t, op)' \/ (Top(t).op = op /\ Top(t).at \in {"markedOther", "markedChild"})
      /\ f.at \in {"markedOther", "markedChild"} => Awaits(t, f.op)'
 BY <1>1, <1>2, OneFrameLocals
<1>4. \A op \in Removes : Awaits(t, op) => Awaits(t, op)' BY <1>1, <1>3
<1>5. Lasting BY <1>2, QuietLasts
<1> QED BY <1>2, <1>3, <1>4, <1>5, NothingIsGiven

LEMMA DeleteRecheckReleases ==
 ASSUME SetInv, SetInv', Keeps, ReleaseInv, NEW t \in Threads, DeleteRecheck(t)
 PROVE ReleaseInv'
<1>1. PICK g, op : g = Top(t) /\ op = g.op OBVIOUS
<1>2. /\ pc[t] = "help" /\ g.at = "deleteRecheck" /\ UNCHANGED <<tree, infos>> /\ UNCHANGED released
      /\ Continue(t, IF Marked(op) THEN <<Frame("markedOther", op)>>
                                   ELSE <<Frame("backtrack", op)>> \o Help(g.result))
 BY <1>1 DEF DeleteRecheck, At, Marked, Word, memory
<1>3. PICK f, help : /\ f = IF Marked(op) THEN Frame("markedOther", op) ELSE Frame("backtrack", op)
                     /\ help = IF Marked(op) THEN <<>> ELSE Help(g.result)
 OBVIOUS
<1>4. PICK one, frames, S : one = <<f>> /\ frames = one \o help /\ S = FrameSet \cup {f} OBVIOUS
<1>5. help \in Seq(FrameSet)
 <2>1. g.result \in SoundWords BY <1>1, <1>2, TopIsFrame, FrameKinds DEF SetInv
 <2>2. Help(g.result) \in Seq(FrameSet) BY <2>1, HelpFrames DEF SoundWords
 <2> QED BY <1>3, <2>2
<1>6. one \in Seq(S) /\ help \in Seq(S) /\ FrameSet \subseteq S /\ Len(one) = 1 /\ one[1] = f BY <1>4, <1>5
<1>7. frames \in Seq(S) /\ frames # <<>> /\ frames[1] = f
 <2>1. /\ frames \in Seq(S) /\ Len(frames) = 1 + Len(help) /\ Len(help) \in Nat
       /\ frames[1] = one[1]
  BY <1>4, <1>6
 <2> QED BY <1>6, <2>1
<1>8. Continue(t, frames)
 <2>1. CASE Marked(op)
  <3>1. help = <<>> /\ one \o help = one BY <1>3, <1>6, <2>1
  <3> QED BY <1>2, <1>3, <1>4, <2>1, <3>1
 <2>2. CASE ~Marked(op) BY <1>2, <1>3, <1>4, <2>2
 <2> QED BY <2>1, <2>2
<1>9. f.op = Top(t).op BY <1>1, <1>3 DEF Frame
<1>10. OthersSame(t) /\ pc'[t] = "help" /\ Owed(t)' = Owed(t) BY <1>2, <1>6, <1>7, <1>8, <1>9, ContinueLocals
<1>11. \A o : Awaits(t, o) =>
         Awaits(t, o)' \/ (Top(t).op = o /\ Top(t).at \in {"markedOther", "markedChild"})
 BY <1>2, <1>6, <1>7, <1>8, FramesGoOn DEF SetInv
<1>12. \A o \in Removes : Awaits(t, o) => Awaits(t, o)' BY <1>1, <1>2, <1>11
<1>13. Lasting BY <1>2, QuietLasts
<1> QED BY <1>2, <1>10, <1>12, <1>13, NothingIsGiven

LEMMA UnflagReleases ==
 ASSUME SetInv, SetInv', Keeps, ReleaseInv, NEW t \in Threads, Backtrack(t) \/ MarkedUnflag(t)
 PROVE ReleaseInv'
<1>1. PICK op, n : op = Top(t).op /\ n = Info(op).gp OBVIOUS
<1>2. /\ pc[t] = "help" /\ Top(t).at \in {"backtrack", "markedUnflag"}
      /\ CASState(n, op, "DFLAG", "CLEAN") /\ (\E done : PopFrame(t, done))
      /\ UNCHANGED infos /\ UNCHANGED released
 BY <1>1 DEF Backtrack, MarkedUnflag, At
<1>3. op \in Removes /\ op \in InfoIds /\ Shape
 BY <1>1, <1>2, TopIsFrame, FrameKinds DEF SetInv, NBBSTInv, GlobalInv, Removes
<1>4. n \in Inner BY <1>1, <1>3, InfoTypes
<1>5. Lasting BY <1>2, <1>4, StateLasts
<1>6. /\ OthersSame(t) /\ Owed(t)' \subseteq Owed(t)
      /\ \A o : Awaits(t, o) => Awaits(t, o)'
      /\ pc'[t] # "help" => stack'[t] = <<>>
 BY <1>2, PopLocals
<1> QED BY <1>2, <1>5, <1>6, NothingIsGiven

(* The adding thread gives back the Info that its flag has replaced.       *)
LEMMA InsertUnflagReleases ==
 ASSUME SetInv, SetInv', Keeps, ReleaseInv, NEW t \in Threads, InsertUnflag(t)
 PROVE ReleaseInv'
<1>1. PICK op, n, i, q : op = Top(t).op /\ n = Info(op).p /\ i = search[t].pupdate.info /\ q = stack[t] OBVIOUS
<1>2. /\ pc[t] = "help" /\ Top(t).at = "insertUnflag"
      /\ CASState(n, op, "IFLAG", "CLEAN") /\ PopFrame(t, TRUE) /\ UNCHANGED infos
      /\ IF own[t] /\ Len(q) = 1
         THEN Release(t, IF i = NoInfo THEN <<>> ELSE <<i>>)
         ELSE UNCHANGED released
 BY <1>1 DEF InsertUnflag, At, InfoOf
<1>3. /\ op \in Adds /\ op \in InfoIds /\ Shape /\ GlobalInv /\ GlobalInv' /\ Grows
      /\ q \in Seq(FrameSet) /\ q # <<>> /\ Top(t) = Last(q)
 BY <1>1, <1>2, TopIsFrame, FrameKinds DEF SetInv, NBBSTInv, GlobalInv, Adds, Keeps, Top
<1>4. n \in Inner BY <1>1, <1>3, InfoTypes
<1>5. Lasting BY <1>2, <1>4, StateLasts
<1>6. /\ OthersSame(t) /\ Owed(t)' \subseteq Owed(t)
      /\ \A o : Awaits(t, o) => Awaits(t, o)'
      /\ pc'[t] # "help" => stack'[t] = <<>>
      /\ ~(Len(q) > 1) => ~own'[t]
 BY <1>1, <1>2, PopLocals
<1>7. CASE UNCHANGED released BY <1>5, <1>6, <1>7, NothingIsGiven
<1>8. CASE own[t] /\ Len(q) = 1 /\ i # NoInfo
 <2>1. PICK things : things = <<i>> OBVIOUS
 <2>2. Release(t, things) BY <1>2, <1>8, <2>1
 <2>3. ~own'[t] /\ Last(q) = q[1]
  <3>1. PICK m \in Nat : m = Len(q) BY <1>3
  <3>2. m = 1 BY <1>8, <3>1
  <3>3. ~(m > 1) BY <3>2
  <3>4. ~(Len(q) > 1) BY <3>1, <3>3, Zenon
  <3>5. Last(q) = q[m] BY <3>1 DEF Last
  <3> QED BY <1>6, <3>2, <3>4, <3>5
 <2>4. i \in Owed(t) BY <1>1, <1>3, <1>8, <2>3 DEF Owed
 <2>5. i \in InfoIds /\ Out(i) BY <2>4 DEF ReleaseInv, OwedInv
 <2>6. Out(i)' BY <1>3, <1>5, <2>5, OutStays
 <2>7. Owed(t)' = {} BY <2>3 DEF Owed
 <2>8. /\ things \in Seq(Nodes \cup InfoIds) /\ Range(things) = {i}
       /\ \A j, k \in DOMAIN things : things[j] = things[k] => j = k
  BY <2>1, <2>5 DEF Range
 <2>9. GivesOut(t, things) BY <2>2, <2>4, <2>6, <2>7, <2>8 DEF GivesOut
 <2>10. OwesNew(t) BY <2>7 DEF OwesNew
 <2>11. GoesOnFor(t, things)
  <3>1. \A o \in Removes : Info(o).l \in Nodes BY <1>3, InfoTypes DEF Leaves, Removes
  <3>2. i \notin Nodes BY <1>3, <2>5, NamesDiffer
  <3> QED BY <1>6, <2>8, <3>1, <3>2 DEF GoesOnFor
 <2> QED BY <1>5, <1>6, <2>9, <2>10, <2>11, ReleaseMoves
<1>9. CASE own[t] /\ Len(q) = 1 /\ i = NoInfo
 <2>1. Release(t, <<>>) BY <1>2, <1>9
 <2>2. PICK none : none = <<>> OBVIOUS
 <2>3. released[t] \in Seq(Nodes \cup InfoIds) /\ Release(t, none) BY <2>1, <2>2 DEF ReleaseInv
 <2>4. released[t] \o none = released[t] BY <2>2, <2>3
 <2>5. UNCHANGED released BY <2>3, <2>4 DEF Release, ReleaseInv
 <2> QED BY <1>7, <2>5
<1> QED BY <1>2, <1>7, <1>8, <1>9

-----------------------------------------------------------------------------
(* The CAS of a child: whoever wins gives back what he has unlinked.       *)
LEMMA LinkedIsLive ==
    \A op : /\ Marked(op) /\ Linked(op) => ~Dead(Info(op).p)
            /\ (Marked(op) /\ Linked(op))' => ~Dead(Info(op).p)'
<1>1. ASSUME NEW op, Marked(op), Linked(op) PROVE ~Dead(Info(op).p)
 <2>1. PICK p : p = Info(op).p OBVIOUS
 <2>2. Word(p).info = op BY <1>1, <2>1 DEF Marked, Update
 <2> QED BY <1>1, <2>1, <2>2 DEF Dead, Linked
<1>2. ASSUME NEW op, Marked(op)', Linked(op)' PROVE ~Dead(Info(op).p)'
 <2>1. PICK p : p = Info(op)'.p OBVIOUS
 <2>2. tree'[p].update.info = op BY <1>2, <2>1 DEF Marked, Update, Word, Info
 <2>3. p \in Kids(Info(op).gp)' BY <1>2, <2>1 DEF Linked, Info
 <2>4. Dead(Info(op).p)' => p \notin Kids(Info(op).gp)' BY <2>1, <2>2 DEF Dead, Kids, Word, Info
 <2> QED BY <2>3, <2>4
<1> QED BY <1>1, <1>2

LEMMA NextLeafOfRemove ==
 ASSUME GlobalInv', NEW op \in Removes', Marked(op)'
 PROVE  /\ Info(op)'.l \in Kids(Info(op).p)'
        /\ Info(op)'.p \in Inner'
<1>1. RemoveInv(op)' BY DEF GlobalInv
<1>2. Info(op)'.p \in Inner' BY DEF Removes, RemoveInfo
<1> QED BY <1>1, <1>2 DEF RemoveInv

(* When every parent of a leaf is removed, so is each remove of that leaf. *)
LEMMA NotLinkedAfter ==
 ASSUME GlobalInv', NEW l, \A m \in Inner' : l \in Kids(m)' => Dead(m)',
        NEW op \in Removes', Info(op)'.l = l
 PROVE ~(Marked(op)' /\ Linked(op)')
<1>1. SUFFICES ASSUME Marked(op)', Linked(op)' PROVE FALSE OBVIOUS
<1>2. PICK p : p = Info(op)'.p OBVIOUS
<1>3. l \in Kids(p)' /\ p \in Inner' BY <1>1, <1>2, NextLeafOfRemove DEF Info
<1>4. Dead(p)' BY <1>3
<1>5. ~Dead(p)'
 <2>1. ~Dead(Info(op).p)' BY <1>1, LinkedIsLive
 <2> QED BY <1>2, <2>1 DEF Info
<1> QED BY <1>4, <1>5

LEMMA ReplacedAfter ==
 ASSUME GlobalInv', NEW op \in Adds', Detached(op)', NEW l, l = Info(op)'.l
 PROVE \A m \in Inner' : l \in Kids(m)' => Dead(m)'
<1>1. AddInv(op)' BY DEF GlobalInv
<1>2. ~Pending(op)' BY DEF Pending, Detached
<1>3. Replaced(op)' BY <1>1, <1>2 DEF AddInv
<1>4. \A m \in Inner' : (Info(op).l \in Kids(m))' => Dead(m)' BY <1>3 DEF Replaced
<1> QED BY <1>4

LEMMA OneThing ==
 ASSUME NEW S, NEW x \in S, NEW things, things = <<x>>
 PROVE  /\ things \in Seq(S) /\ Range(things) = {x}
        /\ \A j, k \in DOMAIN things : things[j] = things[k] => j = k
 BY DEF Range

LEMMA SwapLasts ==
 ASSUME GlobalInv, NEW g \in Inner, NEW old, NEW new \in Nodes, Swaps(g, old, new),
        UNCHANGED infos,
        \A n \in Inner : Dead(n) => Dead(n)',
        \A op \in InfoIds : HasEffect(op) => HasEffect(op)',
        new \in Leaves => ~LeafOut(new)
 PROVE Lasting
<1>1. \A n \in Inner : \A c \in Kids(n)' : c \in Kids(n) \/ c \notin Leaves \/ ~LeafOut(c) BY SwapKids
<1>2. Inner' = Inner /\ InfoIds' = InfoIds BY DEF Swaps, InfoIds
<1> QED BY <1>1, <1>2 DEF Lasting, Removes

LEMMA InsertChildReleases ==
 ASSUME SetInv, SetInv', Keeps, ReleaseInv, NEW t \in Threads, InsertChild(t)
 PROVE ReleaseInv'
<1>1. PICK op : op = Top(t).op OBVIOUS
<1>2. PICK n, old, new : n = Info(op).p /\ old = Info(op).l /\ new = Info(op).newInternal OBVIOUS
<1>3. PICK f : f = Frame("insertUnflag", op) OBVIOUS
<1>4. /\ pc[t] = "help" /\ Top(t).at = "insertChild"
      /\ CASChild(t, op, n, old, new) /\ Continue(t, <<f>>) /\ UNCHANGED infos
 BY <1>1, <1>2, <1>3 DEF InsertChild, At
<1>5. /\ NBBSTInv /\ GlobalInv /\ GlobalInv' /\ TreeInv /\ TreeInv' /\ Grows BY DEF SetInv, Keeps, NBBSTInv
<1>6. op \in Adds /\ op \in InfoIds /\ AddInv(op) /\ Shape
 BY <1>1, <1>4, <1>5, TopIsFrame, FrameKinds DEF GlobalInv, Adds
<1>7. n \in Inner /\ new \in Inner /\ new \in Nodes /\ old \in Leaves /\ old \in Nodes
 BY <1>2, <1>6, InfoTypes, NodeTypes
<1>8. /\ f.op = op /\ f.at = "insertUnflag"
      /\ OthersSame(t) /\ pc'[t] = "help" /\ Owed(t)' = Owed(t)
      /\ \A o : Awaits(t, o) => Awaits(t, o)'
 <2>1. f.op = op /\ f.at = "insertUnflag" BY <1>3 DEF Frame
 <2> QED BY <1>1, <1>4, <2>1, OneFrameLocals
<1>9. IF CurrentChild(n, new) = old THEN SetChild(n, new) /\ Release(t, <<old>>)
                                    ELSE UNCHANGED <<tree, released>>
 BY <1>4 DEF CASChild, CurrentChild, SetChild
<1>10. CASE CurrentChild(n, new) = old
 <2>1. Swaps(n, old, new) BY <1>6, <1>7, <1>9, <1>10, SetChildSwaps
 <2>2. Swaps(Info(op).p, Info(op).l, Info(op).newInternal) /\ old \in Kids(n) BY <1>2, <2>1 DEF Swaps, Kids
 <2>3. Pending(op) BY <1>2, <1>6, <2>2 DEF AddInv, Replaced, Detached
 <2>4. Detached(op)'
  <3>1. SearchMoves BY <1>4 DEF Continue, SearchMoves
  <3> QED BY <1>4, <1>5, <1>6, <2>2, <3>1, InsertKeeps
 <2>5. /\ \A m \in Inner : Dead(m) => Dead(m)'
       /\ \A o \in InfoIds : HasEffect(o) => HasEffect(o)'
  BY <1>4, <1>5, <1>6, <2>2, <2>3, <2>4, InsertEffects
 <2>6. Lasting BY <1>4, <1>5, <1>7, <2>1, <2>5, SwapLasts DEF Leaves, Inner
 <2>7. op \in Adds' /\ old = Info(op)'.l /\ old \in Leaves' /\ old \notin InfoIds
  BY <1>2, <1>5, <1>6, <1>7, SetsGrow, KindStays, NamesDiffer
 <2>8. \A m \in Inner' : old \in Kids(m)' => Dead(m)' BY <1>5, <2>4, <2>7, ReplacedAfter
 <2>9. Out(old)' BY <2>7, <2>8 DEF Out, LeafOut
 <2>10. ~Out(old)
  <3>1. Word(n).state = "IFLAG" BY <1>2, <2>3 DEF Pending, Update
  <3> QED BY <1>5, <1>7, <2>2, <3>1, LeafIsIn
 <2>11. PICK things, S : things = <<old>> /\ S = Nodes \cup InfoIds OBVIOUS
 <2>12. /\ things \in Seq(S) /\ Range(things) = {old} /\ Release(t, things)
        /\ \A j, k \in DOMAIN things : things[j] = things[k] => j = k
  BY <1>7, <1>9, <1>10, <2>11, OneThing
 <2>13. \A i \in Owed(t) : i \in InfoIds BY DEF ReleaseInv, OwedInv
 <2>14. GivesOut(t, things) BY <1>8, <2>7, <2>9, <2>10, <2>11, <2>12, <2>13 DEF GivesOut
 <2>15. OwesNew(t) BY <1>8 DEF OwesNew
 <2>16. GoesOnFor(t, things)
  <3>1. ASSUME NEW o \in Removes, Info(o).l \in Range(things)
        PROVE ~(Marked(o)' /\ Linked(o)')
   <4>1. o \in Removes' /\ Info(o)'.l = old BY <1>5, <2>12, <3>1, KindStays DEF Removes
   <4> QED BY <1>5, <2>8, <4>1, NotLinkedAfter
  <3> QED BY <1>8, <3>1 DEF GoesOnFor
 <2> QED BY <1>8, <2>6, <2>14, <2>15, <2>16, ReleaseMoves
<1>11. CASE CurrentChild(n, new) # old
 <2>1. UNCHANGED <<tree, infos>> /\ UNCHANGED released BY <1>4, <1>9, <1>11
 <2>2. Lasting BY <2>1, QuietLasts
 <2> QED BY <1>8, <2>1, <2>2, NothingIsGiven
<1> QED BY <1>10, <1>11

LEMMA MarkedChildReleases ==
 ASSUME SetInv, SetInv', Keeps, ReleaseInv, NEW t \in Threads, MarkedChild(t)
 PROVE ReleaseInv'
<1>1. PICK op : op = Top(t).op OBVIOUS
<1>2. PICK n, old, new : n = Info(op).gp /\ old = Info(op).p /\ new = Top(t).other OBVIOUS
<1>3. PICK f : f = Frame("markedUnflag", op) OBVIOUS
<1>4. /\ pc[t] = "help" /\ Top(t).at = "markedChild"
      /\ CASChild(t, op, n, old, new) /\ Continue(t, <<f>>) /\ UNCHANGED infos
 BY <1>1, <1>2, <1>3 DEF MarkedChild, At
<1>5. /\ NBBSTInv /\ GlobalInv /\ GlobalInv' /\ TreeInv /\ TreeInv' /\ Grows BY DEF SetInv, Keeps, NBBSTInv
<1>6. op \in Removes /\ op \in InfoIds /\ Marked(op) /\ new = Other(op) /\ Shape
 BY <1>1, <1>2, <1>4, <1>5, TopIsFrame, FrameKinds DEF GlobalInv, Removes
<1>7. n \in Inner /\ new \in Nodes /\ old \in Inner /\ old \in Nodes /\ old \notin Leaves
 BY <1>2, <1>6, InfoTypes, NodeTypes DEF Other
<1>8. /\ OthersSame(t) /\ pc'[t] = "help" /\ Owed(t)' = Owed(t)
      /\ \A o : o # op /\ Awaits(t, o) => Awaits(t, o)'
 <2>1. f.op = op /\ f.at = "markedUnflag" BY <1>3 DEF Frame
 <2> QED BY <1>1, <1>4, <2>1, OneFrameLocals
<1>9. IF CurrentChild(n, new) = old THEN SetChild(n, new) /\ Release(t, <<old>>)
                                    ELSE UNCHANGED <<tree, released>>
 BY <1>4 DEF CASChild, CurrentChild, SetChild
<1>10. CASE CurrentChild(n, new) = old
 <2>1. Swaps(n, old, new) BY <1>6, <1>7, <1>9, <1>10, SetChildSwaps
 <2>2. Swaps(Info(op).gp, Info(op).p, Other(op)) /\ old \in Kids(n) BY <1>2, <1>6, <2>1 DEF Swaps, Kids
 <2>3. Linked(op) BY <1>2, <2>2 DEF Linked
 <2>4. RemoveShape(n, old, Info(op).l, new) BY <1>2, <1>5, <1>6, <2>3, MarkedRemove
 <2>5. old # new /\ Info(op).l # new /\ new \in Kids(old) BY <2>4 DEF RemoveShape, SwapIsClean, Kids
 <2>6. ~Dead(old) BY <1>2, <1>6, <2>3, LinkedIsLive
 <2>7. ~LeafOut(new)
  <3>1. Word(old).info = op BY <1>2, <1>6 DEF Marked, Update
  <3> QED BY <1>7, <2>5, <2>6, <3>1 DEF LeafOut
 <2>8. /\ \A m \in Inner : Dead(m) => Dead(m)'
       /\ \A o \in InfoIds : HasEffect(o) => HasEffect(o)'
  BY <1>4, <1>5, <1>6, <2>2, <2>3, UnlinkEffects
 <2>9. Lasting BY <1>4, <1>5, <1>7, <2>1, <2>7, <2>8, SwapLasts
 <2>10. Dead(old)'
  <3>1. Dead(Info(op).p)' BY <1>4, <1>5, <1>6, <2>2, <2>3, UnlinkKeepsTree
  <3>2. old = Info(op)'.p BY <1>2, <1>4 DEF Info
  <3> QED BY <3>1, <3>2 DEF Info
 <2>11. ~Linked(op)'
  <3>1. old \notin Kids(n)' BY <1>5, <1>7, <2>1, <2>5, SwapKids
  <3>2. Linked(op)' => old \in Kids(n)' BY <1>2, <1>4 DEF Linked, Info
  <3> QED BY <3>1, <3>2
 <2>12. old \in Inner' /\ old \notin InfoIds BY <1>5, <1>6, <1>7, SetsGrow, NamesDiffer
 <2>13. Out(old)' /\ ~Out(old) BY <1>7, <2>6, <2>10, <2>12 DEF Out
 <2>14. PICK things, S : things = <<old>> /\ S = Nodes \cup InfoIds OBVIOUS
 <2>15. /\ things \in Seq(S) /\ Range(things) = {old} /\ Release(t, things)
        /\ \A j, k \in DOMAIN things : things[j] = things[k] => j = k
  BY <1>7, <1>9, <1>10, <2>14, OneThing
 <2>16. \A i \in Owed(t) : i \in InfoIds BY DEF ReleaseInv, OwedInv
 <2>17. GivesOut(t, things) BY <1>8, <2>12, <2>13, <2>14, <2>15, <2>16 DEF GivesOut
 <2>18. OwesNew(t) BY <1>8 DEF OwesNew
 <2>19. GoesOnFor(t, things)
  <3>1. \A o \in Removes : Info(o).l \in Leaves BY <1>5, InfoTypes DEF GlobalInv, Removes
  <3> QED BY <1>7, <1>8, <2>11, <2>15, <3>1 DEF GoesOnFor
 <2> QED BY <1>8, <2>9, <2>17, <2>18, <2>19, ReleaseMoves
<1>11. CASE CurrentChild(n, new) # old
 <2>1. UNCHANGED <<tree, infos>> /\ UNCHANGED released BY <1>4, <1>9, <1>11
 <2>2. Lasting BY <2>1, QuietLasts
 <2>3. ~Linked(op)
  <3>1. SUFFICES ASSUME Linked(op) PROVE FALSE OBVIOUS
  <3>2. Word(Info(op).gp) = Update("DFLAG", op) BY <1>5, <1>6, <3>1 DEF TreeInv, MarksHold
  <3>3. ~Misses(op) BY <1>5, <1>6, <3>1, <3>2, NeverMisses
  <3>4. ~(tree[new].key < tree[n].key <=> tree[old].key < tree[n].key)
   BY <1>2, <1>5, <1>7, <1>11, <3>1, CurrentIsOld DEF Linked
  <3> QED BY <1>2, <1>6, <3>3, <3>4 DEF Misses
 <2>4. ~Linked(op)' BY <2>1, <2>3 DEF Linked, Kids, Info
 <2>5. \A o \in Removes : Awaits(t, o) => Awaits(t, o)' \/ ~Linked(o)' BY <1>8, <2>4
 <2> QED BY <1>8, <2>1, <2>2, <2>5, NothingIsGiven
<1> QED BY <1>10, <1>11

-----------------------------------------------------------------------------
(* The CAS that marks gives back the replaced Info and the leaf.           *)
LEMMA TwoThings ==
 ASSUME NEW S, NEW things \in Seq(S), Len(things) = 2, things[1] # things[2]
 PROVE  /\ Range(things) = {things[1], things[2]}
        /\ \A j, k \in DOMAIN things : things[j] = things[k] => j = k
<1>1. DOMAIN things = {1, 2} OBVIOUS
<1>2. \A x : x \in Range(things) <=> \E j \in {1, 2} : x = things[j] BY <1>1 DEF Range
<1>3. Range(things) = {things[1], things[2]} BY <1>2
<1> QED BY <1>1, <1>3

(* The Info in a clean word has no other place: it is out when the word    *)
(* is replaced.                                                            *)
LEMMA ReplacedInfo ==
 ASSUME GlobalInv, CleanLeads, NEW n \in Inner, NEW i \in InfoIds,
        Word(n).state = "CLEAN", Word(n).info = i, i \in InfoIds',
        \A m \in Inner' : m \in Inner \/ tree'[m].update.info # i,
        \A m \in Inner : m # n => Word(m)' = Word(m),
        tree'[n].update.info # i \/ tree'[n].update.state = "MARK"
 PROVE ~Out(i) /\ Out(i)'
<1>1. ~Out(i)
 <2>1. ~InfoOut(i) BY DEF InfoOut
 <2>2. i \notin Nodes BY NamesDiffer DEF GlobalInv
 <2> QED BY <2>1, <2>2 DEF Out, Leaves, Inner
<1>2. n = Place(i) BY WordIsInPlace
<1>3. ASSUME NEW m \in Inner', tree'[m].update.info = i PROVE tree'[m].update.state = "MARK"
 <2>1. CASE m = n BY <1>3, <2>1
 <2>2. CASE m # n
  <3>1. m \in Inner /\ Word(m) = tree'[m].update BY <1>3, <2>2 DEF Word
  <3>2. Word(m).state # "MARK" => m = Place(i) BY <1>3, <3>1, WordIsInPlace
  <3> QED BY <1>2, <2>2, <3>1, <3>2
 <2> QED BY <2>1, <2>2
<1>4. InfoOut(i)' BY <1>3 DEF InfoOut, Word
<1> QED BY <1>1, <1>4 DEF Out

LEMMA DeleteMarkReleases ==
 ASSUME SetInv, SetInv', Keeps, ReleaseInv, NEW t \in Threads, DeleteMark(t)
 PROVE ReleaseInv'
<1>1. PICK op : op = Top(t).op OBVIOUS
<1>2. PICK n, l, pu, u, f : /\ n = Info(op).p /\ l = Info(op).l /\ pu = Info(op).pupdate
                            /\ u = Update("MARK", op) /\ f = Frame("markedOther", op)
 OBVIOUS
<1>3. PICK i, things : i = pu.info /\ things = (IF i = NoInfo THEN <<>> ELSE <<i>>) \o <<l>> OBVIOUS
<1>4. /\ pc[t] = "help" /\ Top(t).at = "deleteMark" /\ Word(n) = pu /\ SetUpdate(n, u)
      /\ Release(t, things) /\ Continue(t, <<f>>) /\ UNCHANGED infos
 BY <1>1, <1>2, <1>3 DEF DeleteMark, At, Word, InfoOf
<1>5. /\ NBBSTInv /\ GlobalInv /\ GlobalInv' /\ TreeInv /\ TreeInv' /\ Grows /\ Shape
      /\ CleanLeads
 BY DEF SetInv, Keeps, NBBSTInv, GlobalInv, ReleaseInv
<1>6. op \in Removes /\ op \in InfoIds /\ RemoveInv(op)
 BY <1>1, <1>4, <1>5, TopIsFrame, FrameKinds DEF GlobalInv, Removes
<1>7. n \in Inner /\ l \in Leaves /\ l \in Nodes /\ pu \in CleanWords BY <1>2, <1>5, <1>6, InfoTypes, NodeTypes
<1>8. pu.state = "CLEAN" /\ i \in InfoIds \cup {NoInfo} /\ u.state = "MARK" /\ u.info = op
 BY <1>2, <1>3, <1>7 DEF CleanWords, Update
<1>9. l \in Kids(n) /\ Linked(op) BY <1>2, <1>4, <1>6 DEF RemoveInv, Linked
<1>10. /\ OthersSame(t) /\ pc'[t] = "help" /\ Owed(t)' = Owed(t)
       /\ \A o : Awaits(t, o) => Awaits(t, o)'
       /\ Awaits(t, op)'
 <2>1. f.op = op /\ f.at = "markedOther" BY <1>2 DEF Frame
 <2> QED BY <1>1, <1>4, <2>1, OneFrameLocals
<1>11. Lasting BY <1>4, <1>7, WordLasts
<1>12. /\ OnlyWord(n, u) /\ Nodes' = Nodes /\ Inner' = Inner /\ Leaves' = Leaves
       /\ InfoIds' = InfoIds /\ \A o : Info(o)' = Info(o)
 <2>1. InfosStay /\ InfoIds' = InfoIds /\ \A o : Info(o)' = Info(o) BY <1>4 DEF InfosStay, InfoIds, Info
 <2> QED BY <1>4, <1>5, <1>7, <2>1, SetsWord
<1>13. \A m \in Inner : Kids(m)' = Kids(m) /\ Word(m)' = IF m = n THEN u ELSE Word(m)
 BY <1>12 DEF OnlyWord, SameKids, Kids
<1>14. Marked(op)' /\ Linked(op)'
 <2>1. tree'[n].update = u BY <1>7, <1>13 DEF Word
 <2>2. Info(op)'.p = n /\ Info(op)'.gp \in Inner BY <1>2, <1>5, <1>6, <1>12, InfoTypes
 <2>3. Marked(op)' BY <1>2, <2>1, <2>2 DEF Marked, Word, Info
 <2>4. Linked(op)' BY <1>9, <1>12, <1>13, <2>2 DEF Linked, Info, Kids
 <2> QED BY <2>3, <2>4
<1>15. ~Dead(n)'
 <2>1. ~Dead(Info(op).p)' BY <1>14, LinkedIsLive
 <2>2. n = Info(op)'.p BY <1>2, <1>12
 <2> QED BY <2>1, <2>2 DEF Info
<1>16. \A m \in Inner' : l \in Kids(m)' => m = n \/ Dead(m)'
 BY <1>5, <1>7, <1>9, <1>12, <1>13, <1>15 DEF GlobalInv, OneParent
<1>17. Out(l)' /\ ~Out(l) /\ l \notin InfoIds
 <2>1. ASSUME NEW m \in Inner', l \in Kids(m)'
       PROVE Dead(m)' \/ (Word(m).state = "MARK" /\ Info(Word(m).info).l = l)'
  <3>1. CASE m = n
   <4>1. PICK v : v = tree'[n].update OBVIOUS
   <4>2. v = u BY <1>7, <1>13, <4>1 DEF Word
   <4>3. Word(n).state' = "MARK" /\ Info(Word(n).info)' = Info(v.info)' BY <1>8, <4>1, <4>2 DEF Word, Info
   <4>4. Info(v.info)' = Info(op)' BY <1>8, <4>2 DEF Info
   <4>5. Info(op)'.l = l BY <1>2, <1>12
   <4> QED BY <3>1, <4>3, <4>4, <4>5
  <3> QED BY <1>16, <2>1, <3>1
 <2>2. LeafOut(l)' /\ l \in Leaves' BY <1>7, <1>12, <2>1 DEF LeafOut
 <2>3. ~Out(l) BY <1>4, <1>5, <1>7, <1>8, <1>9, LeafIsIn
 <2> QED BY <1>5, <1>7, <2>2, <2>3, NamesDiffer DEF Out
<1>18. i # NoInfo => i \in InfoIds /\ i \notin Nodes /\ Out(i)' /\ ~Out(i)
 <2>1. SUFFICES ASSUME i # NoInfo PROVE i \in InfoIds /\ i \notin Nodes /\ Out(i)' /\ ~Out(i) OBVIOUS
 <2>2. i \in InfoIds /\ i \notin Nodes BY <1>5, <1>8, <2>1, NamesDiffer
 <2>3. tree'[n].update.state = "MARK" /\ \A m \in Inner : m # n => Word(m)' = Word(m) BY <1>7, <1>8, <1>13 DEF Word
 <2> QED BY <1>3, <1>4, <1>5, <1>7, <1>8, <1>12, <2>2, <2>3, ReplacedInfo
<1>19. PICK S : S = Nodes \cup InfoIds OBVIOUS
<1>20. /\ things \in Seq(S) /\ Range(things) = {l} \cup ({i} \ {NoInfo})
       /\ \A j, k \in DOMAIN things : things[j] = things[k] => j = k
 <2>1. l \in S /\ (i # NoInfo => i \in S /\ i # l) BY <1>7, <1>18, <1>19
 <2>2. CASE i = NoInfo
  <3>1. PICK one : one = <<l>> OBVIOUS
  <3>2. one \in Seq(S) /\ <<>> \o one = one BY <2>1, <3>1
  <3>3. things = <<l>> BY <1>3, <2>2, <3>1, <3>2
  <3>4. /\ things \in Seq(S) /\ Range(things) = {l}
        /\ \A j, k \in DOMAIN things : things[j] = things[k] => j = k
   BY <2>1, <3>3, OneThing
  <3> QED BY <2>2, <3>4
 <2>3. CASE i # NoInfo
  <3>1. PICK a, b : a = <<i>> /\ b = <<l>> /\ things = a \o b BY <1>3, <2>3
  <3>2. /\ things \in Seq(S) /\ Range(things) = {i, l}
        /\ \A j, k \in DOMAIN things : things[j] = things[k] => j = k
   <4>1. a \in Seq(S) /\ b \in Seq(S) /\ Len(a) = 1 /\ Len(b) = 1 /\ a[1] = i /\ b[1] = l BY <2>1, <2>3, <3>1
   <4>2. things \in Seq(S) /\ Len(things) = 2 /\ things[1] = i /\ things[2] = l BY <3>1, <4>1
   <4>3. things[1] # things[2] BY <2>1, <2>3, <4>2
   <4>4. /\ Range(things) = {things[1], things[2]}
         /\ \A j, k \in DOMAIN things : things[j] = things[k] => j = k
    BY <4>2, <4>3, TwoThings
   <4> QED BY <4>2, <4>4
  <3> QED BY <2>3, <3>2
 <2> QED BY <2>2, <2>3
<1>21. \A x \in Owed(t) : Out(x) BY DEF ReleaseInv, OwedInv
<1>22. GivesOut(t, things) BY <1>4, <1>10, <1>17, <1>18, <1>19, <1>20, <1>21 DEF GivesOut
<1>23. OwesNew(t) BY <1>10 DEF OwesNew
<1>24. GoesOnFor(t, things)
 <2>1. ASSUME NEW o \in Removes, Info(o).l \in Range(things), Marked(o)', Linked(o)'
       PROVE o = op
  <3>1. Info(o).l = l
   <4>1. Info(o).l \in Nodes BY <1>5, <2>1, InfoTypes DEF Removes, Leaves
   <4> QED BY <1>18, <1>20, <2>1, <4>1
  <3>2. PICK p : p = Info(o)'.p OBVIOUS
  <3>3. o \in Removes' /\ Info(o)'.l = l BY <1>5, <1>12, <2>1, <3>1, KindStays DEF Removes
  <3>4. l \in Kids(p)' /\ p \in Inner' BY <1>5, <2>1, <3>2, <3>3, NextLeafOfRemove DEF Info
  <3>5. ~Dead(p)'
   <4>1. ~Dead(Info(o).p)' BY <2>1, LinkedIsLive
   <4> QED BY <3>2, <4>1 DEF Info
  <3>6. p = n BY <1>16, <3>4, <3>5
  <3>7. tree'[n].update = Update("MARK", o) BY <2>1, <3>2, <3>6 DEF Marked, Word, Info
  <3>8. tree'[n].update = u BY <1>7, <1>13 DEF Word
  <3> QED BY <1>2, <3>7, <3>8 DEF Update
 <2>2. ASSUME NEW o \in Removes, Info(o).l \in Range(things)
       PROVE ~(Marked(o)' /\ Linked(o)') \/ Awaits(t, o)'
  BY <1>10, <2>1, <2>2
 <2> QED BY <1>10, <2>2 DEF GoesOnFor
<1> QED BY <1>10, <1>11, <1>22, <1>23, <1>24, ReleaseMoves

-----------------------------------------------------------------------------
(* The CAS that flags: a remove gives the replaced Info back at once, an   *)
(* add when it takes its flag away.                                        *)
LEMMA RemoveFlagsReleases ==
 ASSUME SetInv, SetInv', Keeps, ReleaseInv, NEW t \in Threads, RemoveFlags(t)
 PROVE ReleaseInv'
<1>1. PICK op, f, n, w, u, i : /\ op = NewInfo(t) /\ f = Frame("deleteRead", op)
                               /\ n = search[t].gp /\ w = search[t].gpupdate
                               /\ u = Update("DFLAG", op) /\ i = w.info
 OBVIOUS
<1>2. PICK rec : rec = [gp |-> n, p |-> search[t].p, l |-> search[t].l, pupdate |-> search[t].pupdate] OBVIOUS
<1>3. /\ pc[t] = "flag" /\ call[t].op = "remove" /\ Word(n) = w /\ SetUpdate(n, u)
      /\ infos' = [infos EXCEPT ![t] = Append(@, rec)]
      /\ Release(t, IF i = NoInfo THEN <<>> ELSE <<i>>)
      /\ Run(t, Help(Update("DFLAG", op)), TRUE)
 BY <1>1, <1>2 DEF RemoveFlags, Word, InfoOf
<1>4. /\ NBBSTInv /\ GlobalInv /\ GlobalInv' /\ TreeInv /\ Grows /\ Shape /\ CleanLeads
 BY DEF SetInv, Keeps, NBBSTInv, GlobalInv, ReleaseInv
<1>5. /\ Still /\ TreeInv' /\ op \in Removes' /\ ~Marked(op)' /\ InfoIds' = InfoIds \cup {op}
 BY <1>1, <1>4, RemoveFlagTree
<1>6. op \notin InfoIds BY <1>1, <1>3, <1>4, NewInfoIsNew
<1>7. n \in Inner /\ w.state = "CLEAN" BY <1>1, <1>3, FlagCall DEF AtNode, AtLeaf
<1>8. i \in InfoIds \cup {NoInfo} /\ u.info = op BY <1>1, <1>3, <1>4, <1>7, WordKinds DEF Update
<1>9. InfosStay BY <1>4 DEF Grows, InfosStay
<1>10. OnlyWord(n, u) /\ Inner' = Inner BY <1>3, <1>4, <1>7, <1>9, SetsWord
<1>11. Lasting BY <1>5, <1>10, StillLasts DEF Removes
<1>12. /\ OthersSame(t) /\ own'[t] /\ pc'[t] = "help" /\ stack'[t] = <<f>>
 <2>1. Help(Update("DFLAG", op)) = <<f>> BY <1>1 DEF Help, Update, Frame
 <2> QED BY <1>3, <2>1, RunLocals
<1>13. Owed(t)' = {}
 <2>1. stack'[t][1].op = op BY <1>1, <1>12 DEF Frame
 <2>2. op \notin Adds' BY <1>5, KindsDiffer
 <2> QED BY <2>1, <2>2 DEF Owed
<1>14. \A o : ~Awaits(t, o)
 <2>1. stack[t] = <<>> BY <1>3 DEF ReleaseInv
 <2> QED BY <2>1 DEF Awaits
<1>15. CASE i = NoInfo
 <2>1. PICK none : none = <<>> OBVIOUS
 <2>2. released[t] \in Seq(Nodes \cup InfoIds) /\ Release(t, none) BY <1>3, <1>15, <2>1 DEF ReleaseInv
 <2>3. released[t] \o none = released[t] BY <2>1, <2>2
 <2>4. UNCHANGED released BY <2>2, <2>3 DEF Release, ReleaseInv
 <2> QED BY <1>11, <1>12, <1>13, <1>14, <2>4, NothingIsGiven
<1>16. CASE i # NoInfo
 <2>1. i \in InfoIds /\ i \in InfoIds' /\ i \notin Nodes BY <1>4, <1>5, <1>8, <1>16, NamesDiffer
 <2>2. /\ tree'[n].update.info # i
       /\ \A m \in Inner : m # n => Word(m)' = Word(m)
  BY <1>6, <1>7, <1>8, <1>10, <2>1 DEF OnlyWord, Word
 <2>3. ~Out(i) /\ Out(i)' BY <1>1, <1>3, <1>4, <1>7, <1>10, <2>1, <2>2, ReplacedInfo
 <2>4. PICK things, S : things = <<i>> /\ S = Nodes \cup InfoIds OBVIOUS
 <2>5. /\ things \in Seq(S) /\ Range(things) = {i} /\ Release(t, things)
       /\ \A j, k \in DOMAIN things : things[j] = things[k] => j = k
  BY <1>3, <1>16, <2>1, <2>4, OneThing
 <2>6. GivesOut(t, things) BY <1>13, <2>3, <2>4, <2>5 DEF GivesOut
 <2>7. OwesNew(t) BY <1>13 DEF OwesNew
 <2>8. GoesOnFor(t, things)
  <3>1. \A o \in Removes : Info(o).l \in Nodes BY <1>4, InfoTypes DEF Leaves, Removes
  <3> QED BY <1>12, <1>14, <2>1, <2>5, <3>1 DEF GoesOnFor
 <2> QED BY <1>11, <1>12, <2>6, <2>7, <2>8, ReleaseMoves
<1> QED BY <1>15, <1>16

LEMMA AddFlagsReleases ==
 ASSUME SetInv, SetInv', Keeps, ReleaseInv, NEW t \in Threads, AddFlags(t)
 PROVE ReleaseInv'
<1>1. PICK op, f, n, w, i, key, old : /\ op = NewInfo(t) /\ f = Frame("insertChild", op)
                                 /\ n = search[t].p /\ w = search[t].pupdate /\ i = w.info
                                 /\ key = call[t].key /\ old = tree[search[t].l].key
 OBVIOUS
<1>2. PICK rec : rec = [p |-> n, newInternal |-> NewNode(op, "internal"), l |-> search[t].l] OBVIOUS
<1>3. /\ pc[t] = "flag" /\ call[t].op = "add" /\ Word(n) = w
      /\ FlagsAdd(n, op, key, old)
      /\ infos' = [infos EXCEPT ![t] = Append(@, rec)]
      /\ Run(t, Help(Update("IFLAG", op)), TRUE) /\ UNCHANGED released
 BY <1>1, <1>2 DEF AddFlags, Word, FlagsAdd
<1>4. /\ NBBSTInv /\ GlobalInv /\ GlobalInv' /\ TreeInv /\ Grows /\ Shape /\ CleanLeads
 BY DEF SetInv, Keeps, NBBSTInv, GlobalInv, ReleaseInv
<1>5. n \in Inner /\ w.state = "CLEAN" BY <1>1, <1>3, FlagCall DEF AtNode, AtLeaf
<1>6. n \in OnPath(key) BY <1>1, <1>3, <1>5, FlaggedIsOnPath
<1>7. /\ Still /\ TreeInv' /\ op \in Adds' /\ InfoIds' = InfoIds \cup {op} BY <1>1, <1>4, <1>6, AddFlagTree
<1>8. op \notin InfoIds BY <1>1, <1>3, <1>4, NewInfoIsNew
<1>9. i \in InfoIds \cup {NoInfo} BY <1>1, <1>3, <1>4, <1>5, WordKinds
<1>10. PICK leaf, sibling, internal, u :
         /\ leaf = NewNode(op, "leaf") /\ sibling = NewNode(op, "sibling")
         /\ internal = NewNode(op, "internal") /\ u = Update("IFLAG", op)
 OBVIOUS
<1>11. /\ Nodes' = Nodes \cup {leaf, sibling, internal}
       /\ {leaf, sibling, internal} \cap Nodes = {}
       /\ \A m \in Nodes : tree'[m] = IF m = n THEN [tree[m] EXCEPT !.update = u] ELSE tree[m]
       /\ tree'[leaf] = Leaf(key) /\ tree'[sibling] = Leaf(old)
       /\ tree'[internal] = Sides(op, key, old)
 BY <1>1, <1>3, <1>4, <1>5, <1>8, <1>10, FlagsAddNodes
<1>12. tree'[internal].update = NullUpdate /\ {tree'[internal].left, tree'[internal].right} = {leaf, sibling}
 <2>1. \/ tree'[internal] = Internal(old, NullUpdate, leaf, sibling)
       \/ tree'[internal] = Internal(key, NullUpdate, sibling, leaf)
  BY <1>10, <1>11 DEF Sides
 <2> QED BY <2>1 DEF Internal
<1>13. \A m \in Inner' : m \in Inner \/ m = internal
 <2>1. ~tree'[leaf].internal /\ ~tree'[sibling].internal BY <1>11 DEF Leaf
 <2>2. \A m \in Nodes : tree'[m].internal = tree[m].internal BY <1>4 DEF Grows
 <2> QED BY <1>11, <2>1, <2>2 DEF Inner
<1>14. Lasting
 <2>1. \A o \in Removes' : o \in InfoIds BY <1>7, KindsDiffer DEF Removes
 <2>2. \A m \in Inner' : m \in Inner \/ (Word(m)' = NullUpdate /\ Kids(m)' \cap Nodes = {})
  <3>1. ASSUME NEW m \in Inner', m \notin Inner
        PROVE tree'[m].update = NullUpdate /\ {tree'[m].left, tree'[m].right} \cap Nodes = {}
   BY <1>11, <1>12, <1>13, <3>1
  <3> QED BY <3>1 DEF Word, Kids
 <2> QED BY <1>7, <2>1, <2>2, StillLasts
<1>15. /\ OthersSame(t) /\ pc'[t] = "help" /\ stack'[t] = <<f>> /\ UNCHANGED search
 <2>1. Help(Update("IFLAG", op)) = <<f>> BY <1>1 DEF Help, Update, Frame
 <2> QED BY <1>3, <2>1, RunLocals
<1>16. OwesNew(t)
 <2>1. SUFFICES ASSUME NEW x \in Owed(t)' PROVE x \in InfoIds /\ ~Out(x) /\ Out(x)' BY DEF OwesNew
 <2>2. x = i /\ i # NoInfo BY <1>1, <1>15, <2>1 DEF Owed
 <2>3. i \in InfoIds /\ i \in InfoIds' BY <1>7, <1>9, <2>2
 <2>4. tree'[n].update.info # i
  <3>1. n \in Nodes /\ tree[n] \in InnerRecords BY <1>4, <1>5, NodeTypes
  <3>2. tree'[n].update = u BY <1>11, <3>1 DEF InnerRecords
  <3> QED BY <1>8, <1>10, <2>3, <3>2 DEF Update
 <2>5. \A m \in Inner : m # n => Word(m)' = Word(m) BY <1>11 DEF Word, Inner
 <2>6. \A m \in Inner' : m \in Inner \/ tree'[m].update.info # i BY <1>12, <1>13, <2>2 DEF NullUpdate, Update
 <2>7. ~Out(i) /\ Out(i)' BY <1>1, <1>3, <1>4, <1>5, <2>3, <2>4, <2>5, <2>6, ReplacedInfo
 <2> QED BY <2>2, <2>3, <2>7
<1>17. \A o : ~Awaits(t, o)
 <2>1. stack[t] = <<>> BY <1>3 DEF ReleaseInv
 <2> QED BY <2>1 DEF Awaits
<1> QED BY <1>3, <1>14, <1>15, <1>16, <1>17, NoneIsGiven

-----------------------------------------------------------------------------
(* The invariant is inductive. *)
LEMMA InitReleases ==
 ASSUME Init
 PROVE ReleaseInv
<1>1. /\ tree = InitialTree
      /\ \A t \in Threads : /\ released[t] = <<>> /\ own[t] = FALSE /\ stack[t] = <<>>
                             /\ infos[t] = <<>>
 BY DEF Init
<1>2. InfoIds = {} BY <1>1 DEF InfoIds
<1>3. released \in [Threads -> Seq(Nodes \cup InfoIds)] BY DEF Init
<1>4. \A t \in Threads : DOMAIN released[t] = {} /\ Given(t) = {} /\ Owed(t) = {} BY <1>1 DEF Given, Owed, Range
<1>5. ReleasedOnce BY <1>4 DEF ReleasedOnce
<1>6. CleanLeads /\ \A t \in Threads : Unlinks(t) BY <1>2 DEF CleanLeads, Unlinks, Removes
<1> QED BY <1>1, <1>3, <1>4, <1>5, <1>6 DEF ReleaseInv, OwedInv

LEMMA StutterReleases ==
 ASSUME SetInv, ReleaseInv, UNCHANGED vars
 PROVE ReleaseInv'
<1>1. /\ UNCHANGED <<tree, infos, released>> /\ UNCHANGED <<pc, search, stack, own>> BY DEF vars, memory, control
<1>2. SetInv' /\ NBBSTInv /\ NBBSTInv' BY StutterSet, StutterKeeps DEF SetInv
<1>3. Keeps BY <1>1, <1>2, QuietGrows DEF Keeps, NodeStep
<1>4. Lasting BY <1>1, <1>3, QuietLasts
<1>5. PICK t \in Threads : TRUE BY NBBSTAssumption
<1>6. OthersSame(t) BY <1>1 DEF OthersSame
<1>7. Owed(t)' = Owed(t) BY <1>1, <1>3, OwedStays
<1>8. \A op : Awaits(t, op) => Awaits(t, op)' BY <1>1 DEF Awaits
<1>9. pc'[t] # "help" => stack'[t] = <<>> BY <1>1 DEF ReleaseInv
<1> QED BY <1>1, <1>2, <1>3, <1>4, <1>6, <1>7, <1>8, <1>9, NothingIsGiven

LEMMA NextReleases ==
 ASSUME SetInv, ReleaseInv, Next
 PROVE ReleaseInv'
<1>1. Keeps /\ SetInv' BY NextKeeps, NextSet DEF SetInv
<1>2. PICK t \in Threads : (\E c \in Abstract!SetCalls : Start(t, c)) \/ Step(t) BY DEF Next
<1>3. CASE Searching(t) \/ \E c \in Abstract!SetCalls : Start(t, c) BY <1>1, <1>3, SearchingReleases
<1>4. CASE Flagging(t)
 <2>1. CASE ReadResult(t) \/ FlagFails(t) BY <1>1, <2>1, SearchingReleases
 <2>2. CASE AddFlags(t) BY <1>1, <2>2, AddFlagsReleases
 <2>3. CASE RemoveFlags(t) BY <1>1, <2>3, RemoveFlagsReleases
 <2> QED BY <1>4, <2>1, <2>2, <2>3 DEF Flagging
<1>5. CASE Helping(t)
 <2>1. CASE InsertChild(t) BY <1>1, <2>1, InsertChildReleases
 <2>2. CASE InsertUnflag(t) BY <1>1, <2>2, InsertUnflagReleases
 <2>3. CASE DeleteRead(t) \/ DeleteMarkFails(t) \/ MarkedOther(t) BY <1>1, <2>3, HelpReadsReleases
 <2>4. CASE DeleteMark(t) BY <1>1, <2>4, DeleteMarkReleases
 <2>5. CASE DeleteRecheck(t) BY <1>1, <2>5, DeleteRecheckReleases
 <2>6. CASE Backtrack(t) \/ MarkedUnflag(t) BY <1>1, <2>6, UnflagReleases
 <2>7. CASE MarkedChild(t) BY <1>1, <2>7, MarkedChildReleases
 <2> QED BY <1>5, <2>1, <2>2, <2>3, <2>4, <2>5, <2>6, <2>7 DEF Helping
<1> QED BY <1>2, <1>3, <1>4, <1>5 DEF Step

(* What a thread has given back is out, for every number of threads and    *)
(* keys: the invariant that the next two theorems rest on.                 *)
THEOREM ReleaseInvHolds == Spec => []ReleaseInv
<1>1. Init => ReleaseInv BY InitReleases
<1>2. SetInv /\ ReleaseInv /\ [Next]_vars => ReleaseInv' BY NextReleases, StutterReleases
<1> QED BY <1>1, <1>2, SetInvHolds, PTL DEF Spec

(* However many threads help an operation, its nodes and Infos are given   *)
(* back to the hazard manager once.                                        *)
THEOREM NodesAndInfosAreReleasedOnce == Spec => []ReleasedOnce
<1>1. ReleaseInv => ReleasedOnce BY DEF ReleaseInv
<1> QED BY <1>1, ReleaseInvHolds, PTL

-----------------------------------------------------------------------------
(* What is out cannot be met from the root. *)
LEMMA OutIsNotNamed ==
 ASSUME SetInv, NEW x \in InfoIds, InfoOut(x), NEW n \in InTree \cap Inner
 PROVE Word(n).info # x
<1>1. SUFFICES ASSUME Word(n).info = x PROVE FALSE OBVIOUS
<1>2. GlobalInv /\ RootIsTop /\ MarksHold BY DEF SetInv, NBBSTInv, TreeInv
<1>3. PICK w : w = Word(n) OBVIOUS
<1>4. w.state = "MARK" /\ w.info = x BY <1>1, <1>3 DEF InfoOut
<1>5. x \in Removes /\ Marked(x) /\ Info(x).p = n BY <1>2, <1>3, <1>4 DEF GlobalInv, WordsLead, Leads, Sound
<1>6. Linked(x)
 <2>1. ~Dead(n) BY <1>2, InTreeIsLive
 <2> QED BY <1>3, <1>4, <1>5, <2>1 DEF Dead, Linked
<1>7. PICK g : g = Info(x).gp OBVIOUS
<1>8. g \in Inner /\ Word(g) = Update("DFLAG", x) BY <1>2, <1>5, <1>6, <1>7, InfoTypes DEF MarksHold, GlobalInv
<1>9. Word(g).info = x /\ Word(g).state = "DFLAG" BY <1>8 DEF Update
<1> QED BY <1>8, <1>9 DEF InfoOut

LEMMA OutIsNotInTree ==
 ASSUME SetInv, NEW x, Out(x), NEW t \in Threads, x \in Given(t), Unlinks(t), stack[t] = <<>>
 PROVE x \notin InTree
<1>1. SUFFICES ASSUME x \in InTree PROVE FALSE OBVIOUS
<1>2. /\ GlobalInv /\ RootIsTop /\ MarksHold /\ Shape
      /\ IsLinked(tree) /\ Root \in DOMAIN tree /\ Nodes = DOMAIN tree
 BY TreeIsLinked DEF SetInv, NBBSTInv, TreeInv, GlobalInv
<1>3. InTree \subseteq Nodes BY <1>2, BelowIsLeast DEF InTree
<1>4. x \notin InfoIds BY <1>1, <1>2, <1>3, NamesDiffer
<1>5. CASE x \in Inner /\ Dead(x) BY <1>1, <1>2, <1>5, InTreeIsLive
<1>6. CASE x \in Leaves /\ LeafOut(x)
 <2>1. x # Root BY <1>2, <1>6 DEF Shape, Leaves, Inner
 <2>2. PICK n \in InTree : tree[n].internal /\ x \in Kids(n) BY <1>1, <1>2, <2>1, BelowHasParent DEF InTree, Kids
 <2>3. n \in Inner /\ ~Dead(n) BY <1>2, <1>3, <2>2, InTreeIsLive DEF Inner
 <2>4. PICK w, op : w = Word(n) /\ op = w.info OBVIOUS
 <2>5. w.state = "MARK" /\ Info(op).l = x BY <1>6, <2>2, <2>3, <2>4 DEF LeafOut
 <2>6. op \in Removes /\ Marked(op) /\ Info(op).p = n
  BY <1>2, <2>3, <2>4, <2>5 DEF GlobalInv, WordsLead, Leads, Sound
 <2>7. Linked(op) BY <2>3, <2>4, <2>5, <2>6 DEF Dead, Linked
 <2>8. Awaits(t, op) BY <2>5, <2>6, <2>7 DEF Unlinks
 <2> QED BY <2>8 DEF Awaits
<1> QED BY <1>4, <1>5, <1>6 DEF Out

(* A thread that is about to recycle what it has given back has given back *)
(* nothing that a search can still meet, and no Info that a word on the    *)
(* way names.                                                              *)
THEOREM ReleasedIsOut == Spec => []ReleasedIsGone
<1>1. SetInv /\ ReleaseInv => ReleasedIsGone
 <2>1. SUFFICES ASSUME SetInv, ReleaseInv, NEW t \in Threads, pc[t] # "help", NEW x \in Given(t)
                PROVE x \notin Reachable /\ x \notin Named
  BY DEF ReleasedIsGone, Given
 <2>2. Shape /\ Ranked /\ GlobalInv /\ IsLinked(tree) /\ Nodes = DOMAIN tree /\ Root \in Nodes
  BY <2>1, TreeIsLinked DEF SetInv, NBBSTInv, GlobalInv, TreeInv
 <2>3. Reachable = InTree /\ InTree \subseteq Nodes BY <2>2, NodesFromAreBelow, BelowIsLeast DEF Reachable, InTree
 <2>4. Out(x) /\ Unlinks(t) /\ stack[t] = <<>> BY <2>1 DEF ReleaseInv
 <2>5. x \notin Reachable BY <2>1, <2>3, <2>4, OutIsNotInTree
 <2>6. x \notin Named
  <3>1. SUFFICES ASSUME NEW n \in InTree, tree[n].internal, tree[n].update.info = x PROVE FALSE BY <2>3 DEF Named
  <3>2. n \in Inner BY <2>3, <3>1 DEF Inner
  <3>3. x \in InfoIds \cup {NoInfo} BY <2>2, <3>1, <3>2, WordKinds DEF Word
  <3>4. x \notin Nodes BY <2>2, <3>3, NamesDiffer
  <3>5. x \in InfoIds /\ InfoOut(x) BY <2>4, <3>4 DEF Out, Leaves, Inner
  <3> QED BY <2>1, <3>1, <3>2, <3>5, OutIsNotNamed DEF Word
 <2> QED BY <2>5, <2>6
<1> QED BY <1>1, SetInvHolds, ReleaseInvHolds, PTL

-----------------------------------------------------------------------------

LEMMA MovesKeepTypes ==
 ASSUME VariableTypes, NEW t \in Threads, ControlMoves(t), HistoryMoves(t)
 PROVE VariableTypes'
<1>1. pc' \in [Threads -> Labels] /\ own' \in [Threads -> BOOLEAN] BY DEF VariableTypes, ControlMoves
<1>2. callsLeft' \in [Threads -> Nat] /\ \A u \in Threads : callsLeft'[u] <= MaxCalls[u]
 <2>1. CASE callsLeft' = callsLeft BY <2>1 DEF VariableTypes
 <2>2. CASE callsLeft[t] > 0 /\ callsLeft' = [callsLeft EXCEPT ![t] = @ - 1]
  <3>0. callsLeft[t] \in Nat /\ MaxCalls[t] \in Nat /\ callsLeft[t] <= MaxCalls[t]
   BY NBBSTAssumption DEF VariableTypes
  <3>1. callsLeft[t] - 1 \in Nat /\ callsLeft[t] - 1 <= MaxCalls[t] BY <2>2, <3>0
  <3> QED BY <2>2, <3>1 DEF VariableTypes
 <2> QED BY <2>1, <2>2 DEF ControlMoves
<1>3. result' \in [Threads -> Abstract!Results] BY DEF VariableTypes, HistoryMoves
<1>4. seen' = [u \in Threads |-> seen'[u]] /\ call' = [u \in Threads |-> call'[u]]
 BY DEF VariableTypes, ControlMoves, HistoryMoves
<1> QED BY <1>1, <1>2, <1>3, <1>4 DEF VariableTypes, HistoryMoves

(* The ways in which a step goes on. *)
LEMMA HistoryStays ==
 ASSUME VariableTypes, NEW t \in Threads, UNCHANGED history
 PROVE HistoryMoves(t)
 BY DEF VariableTypes, HistoryMoves, history

LEMMA ReturnTypes ==
 ASSUME VariableTypes, NEW t \in Threads, NEW r \in BOOLEAN, Return(t, r)
 PROVE ControlMoves(t) /\ HistoryMoves(t)
<1>1. ControlMoves(t)
 <2>1. /\ pc' = [pc EXCEPT ![t] = "idle"] /\ own' = [own EXCEPT ![t] = FALSE]
       /\ seen' = [seen EXCEPT ![t] = NullUpdate] /\ callsLeft' = callsLeft
  BY DEF Return, GoTo, bounds
 <2> QED BY <2>1 DEF ControlMoves, Labels, VariableTypes
<1>2. call' = [u \in Threads |-> call'[u]] BY DEF Return, VariableTypes
<1>4. answers' = [u \in Threads |-> answers'[u]] BY DEF Return, VariableTypes
<1>3. {r} \in Abstract!Results BY DEF Abstract!Results
<1> QED BY <1>1, <1>2, <1>3, <1>4 DEF Return, HistoryMoves

LEMMA RetryTypes ==
 ASSUME VariableTypes, NEW t \in Threads, Retry(t)
 PROVE ControlMoves(t) /\ HistoryMoves(t)
<1>1. /\ pc' = [pc EXCEPT ![t] = "update"] /\ own' = [own EXCEPT ![t] = FALSE]
      /\ seen' = [seen EXCEPT ![t] = NullUpdate] /\ callsLeft' = callsLeft
 BY DEF Retry, GoTo, bounds
<1>2. ControlMoves(t) BY <1>1 DEF ControlMoves, Labels, VariableTypes
<1>3. UNCHANGED history BY DEF Retry
<1> QED BY <1>2, <1>3, HistoryStays

LEMMA RunTypes ==
 ASSUME VariableTypes, NEW t \in Threads, NEW b \in BOOLEAN, \E frames : Run(t, frames, b)
 PROVE ControlMoves(t)
<1>1. /\ pc' = [pc EXCEPT ![t] = "help"] /\ own' = [own EXCEPT ![t] = b]
      /\ seen' = seen /\ callsLeft' = callsLeft
 BY DEF Run, GoTo, bounds
<1> QED BY <1>1 DEF ControlMoves, Labels, VariableTypes

LEMMA HelpThenRetryTypes ==
 ASSUME VariableTypes, NEW t \in Threads, \E u : HelpThenRetry(t, u)
 PROVE ControlMoves(t) /\ HistoryMoves(t)
<1>1. Retry(t) \/ ((\E frames : Run(t, frames, FALSE)) /\ UNCHANGED history) BY DEF HelpThenRetry
<1> QED BY <1>1, RetryTypes, RunTypes, HistoryStays

LEMMA ContinueTypes ==
 ASSUME VariableTypes, NEW t \in Threads, \E frames : Continue(t, frames)
 PROVE ControlMoves(t)
<1>1. pc' = pc /\ own' = own /\ seen' = seen /\ callsLeft' = callsLeft BY DEF Continue, bounds
<1> QED BY <1>1 DEF ControlMoves, VariableTypes

LEMMA PopTypes ==
 ASSUME VariableTypes, NEW t \in Threads, NEW done \in BOOLEAN, PopFrame(t, done)
 PROVE ControlMoves(t) /\ HistoryMoves(t)
<1>1. \/ (\E frames : Continue(t, frames)) /\ UNCHANGED history
      \/ Return(t, TRUE)
      \/ Retry(t)
 BY Zenon DEF PopFrame
<1> QED BY <1>1, ContinueTypes, HistoryStays, ReturnTypes, RetryTypes

(* The CAS of a child adds to the answers. *)
LEMMA SwapTypes ==
 ASSUME VariableTypes, NEW t \in Threads,
        \E op, parent, old, new : CASChild(t, op, parent, old, new),
        UNCHANGED <<call, result>>
 PROVE HistoryMoves(t)
<1>1. \/ answers' = answers
      \/ \E op : answers' = Abstract!AnswersAfter(Owner(op), Contents(tree'))
 BY DEF CASChild
<1>2. answers' = [u \in Threads |-> answers'[u]] BY <1>1 DEF Abstract!AnswersAfter, VariableTypes
<1> QED BY <1>2 DEF HistoryMoves, VariableTypes

LEMMA StepTypes ==
 ASSUME VariableTypes, NEW t \in Threads, Step(t) \/ \E c \in Abstract!SetCalls : Start(t, c)
 PROVE ControlMoves(t) /\ HistoryMoves(t)
<1>1. ASSUME NEW c \in Abstract!SetCalls, Start(t, c)
      PROVE ControlMoves(t) /\ HistoryMoves(t)
 <2>1. ControlMoves(t) BY <1>1 DEF Start, GoTo, ControlMoves, Labels, VariableTypes
 <2>4. call' = [u \in Threads |-> call'[u]] BY <1>1 DEF Start, VariableTypes
 <2>2. answers' = [u \in Threads |-> answers'[u]] BY <1>1 DEF Start, VariableTypes
 <2>3. Abstract!NoResult \in Abstract!Results BY DEF Abstract!NoResult, Abstract!Results
 <2> QED BY <1>1, <2>1, <2>2, <2>3, <2>4 DEF Start, HistoryMoves
<1>2. CASE ReadUpdate(t) \/ ReadChild(t) \/ PreparesOperation(t) \/ ReadResult(t)
 <2>1. ControlMoves(t)
  BY <1>2 DEF ReadUpdate, ReadChild, PreparesOperation, ReadResult, GoTo, ControlMoves, Labels, bounds,
     VariableTypes
 <2>2. UNCHANGED history BY <1>2 DEF ReadUpdate, ReadChild, PreparesOperation, ReadResult
 <2> QED BY <2>1, <2>2, HistoryStays
<1>3. CASE ContainsReturns(t) \/ AddFindsKey(t) \/ RemoveMissesKey(t)
 <2>1. \E r \in BOOLEAN : Return(t, r) BY <1>3 DEF ContainsReturns, AddFindsKey, RemoveMissesKey
 <2> QED BY <2>1, ReturnTypes
<1>4. CASE HelpsObstacle(t) \/ FlagFails(t)
 <2>1. \E u : HelpThenRetry(t, u) BY <1>4 DEF HelpsObstacle, FlagFails
 <2> QED BY <2>1, HelpThenRetryTypes
<1>5. CASE AddFlags(t) \/ RemoveFlags(t)
 <2>1. (\E frames : Run(t, frames, TRUE)) /\ UNCHANGED history BY <1>5 DEF AddFlags, RemoveFlags
 <2> QED BY <2>1, RunTypes, HistoryStays
<1>6. CASE InsertChild(t) \/ MarkedChild(t)
 <2>1. /\ \E frames : Continue(t, frames)
       /\ \E op, parent, old, new : CASChild(t, op, parent, old, new)
       /\ UNCHANGED <<call, result>>
  BY <1>6 DEF InsertChild, MarkedChild
 <2> QED BY <2>1, ContinueTypes, SwapTypes
<1>7. CASE InsertUnflag(t) \/ Backtrack(t) \/ MarkedUnflag(t)
 <2>1. \E done \in BOOLEAN : PopFrame(t, done) BY <1>7 DEF InsertUnflag, Backtrack, MarkedUnflag
 <2> QED BY <2>1, PopTypes
<1>8. CASE DeleteRead(t) \/ DeleteMark(t) \/ DeleteMarkFails(t) \/ DeleteRecheck(t)
             \/ MarkedOther(t)
 <2>1. (\E frames : Continue(t, frames)) /\ UNCHANGED history
  BY <1>8 DEF DeleteRead, DeleteMark, DeleteMarkFails, DeleteRecheck, MarkedOther
 <2> QED BY <2>1, ContinueTypes, HistoryStays
<1> QED BY <1>1, <1>2, <1>3, <1>4, <1>5, <1>6, <1>7, <1>8
        DEF Step, Searching, Flagging, Helping

LEMMA VariableTypesHold == Spec => []VariableTypes
<1>1. Init => VariableTypes
 <2>1. Init => callsLeft \in [Threads -> Nat] /\ \A t \in Threads : callsLeft[t] <= MaxCalls[t]
  BY NBBSTAssumption DEF Init
 <2> QED BY <2>1 DEF Init, VariableTypes, Labels, Abstract!Results, Abstract!NoResult
<1>2. VariableTypes /\ [Next]_vars => VariableTypes'
 <2>1. VariableTypes /\ UNCHANGED vars => VariableTypes' BY DEF VariableTypes, vars, control, history, bounds
 <2>2. VariableTypes /\ Next => VariableTypes' BY StepTypes, MovesKeepTypes DEF Next
 <2> QED BY <2>1, <2>2
<1> QED BY <1>1, <1>2, PTL DEF Spec

(* An update word is the word of a node that was never touched, or names   *)
(* an operation: only a clean word can be without an Info.                 *)
LEMMA SoundIsUpdate ==
 ASSUME NEW u, Sound(u)
 PROVE u \in Updates
<1>1. u \in Words BY DEF Sound
<1>2. u = [state |-> u.state, info |-> u.info] /\ u.state \in States
      /\ u.info \in InfoIds \cup {NoInfo}
 BY <1>1 DEF Words
<1>3. CASE u.info \in InfoIds BY <1>2, <1>3 DEF Updates
<1>4. CASE u.info \notin InfoIds
 <2>1. u.state = "CLEAN" BY <1>2, <1>4 DEF Sound, States, Adds, Removes
 <2> QED BY <1>2, <1>4, <2>1 DEF Updates, NullUpdate, Update
<1> QED BY <1>3, <1>4

(* The types of the shared memory and of the locals of the threads. *)
LEMMA TypesFollow ==
 ASSUME NBBSTInv, SetInv, ReleaseInv, VariableTypes
 PROVE TypeOK
<1>1. ASSUME NEW n \in Nodes
      PROVE  \/ tree[n] \in [internal : {FALSE}, key : Bounds]
             \/ tree[n] \in [internal : {TRUE}, key : Bounds, update : Updates,
                             left : Nodes, right : Nodes]
 <2>1. tree[n] \in LeafRecords \/ tree[n] \in InnerRecords BY DEF NBBSTInv, GlobalInv, Shape
 <2>2. ASSUME tree[n] \in InnerRecords
       PROVE  tree[n] \in [internal : {TRUE}, key : Bounds, update : Updates,
                           left : Nodes, right : Nodes]
  <3>1. n \in Inner BY <2>2 DEF InnerRecords, Inner
  <3>2. Sound(tree[n].update) BY <3>1 DEF NBBSTInv, GlobalInv, WordsLead, Leads, Word
  <3>3. tree[n].update \in Updates BY <3>2, SoundIsUpdate
  <3> QED BY <2>2, <3>3 DEF InnerRecords
 <2> QED BY <2>1, <2>2 DEF LeafRecords
<1>2. ASSUME NEW op \in InfoIds
      PROVE  \/ Info(op) \in [p : Nodes, newInternal : Nodes, l : Nodes]
             \/ Info(op) \in [gp : Nodes, p : Nodes, l : Nodes, pupdate : Updates]
 <2>1. Info(op) \in AddInfo \/ Info(op) \in RemoveInfo
  <3>1. PICK t \in Threads : op \in {t} \X (1 .. Len(infos[t])) BY DEF InfoIds
  <3>2. infos[t] \in Seq(AddInfo \cup RemoveInfo) BY DEF NBBSTInv, GlobalInv, Shape
  <3>3. op[1] = t /\ op[2] \in 1 .. Len(infos[t]) BY <3>1
  <3>4. infos[t][op[2]] \in AddInfo \cup RemoveInfo BY <3>2, <3>3, ElementOfSeq
  <3> QED BY <3>3, <3>4 DEF Info
 <2>2. ASSUME Info(op) \in AddInfo
       PROVE Info(op) \in [p : Nodes, newInternal : Nodes, l : Nodes]
  BY <2>2 DEF AddInfo, Inner, Leaves
 <2>3. ASSUME Info(op) \in RemoveInfo
       PROVE Info(op) \in [gp : Nodes, p : Nodes, l : Nodes, pupdate : Updates]
  <3>1. \A u \in CleanWords : u \in Updates BY DEF CleanWords, Updates, NullUpdate, Update, States
  <3> QED BY <2>3, <3>1 DEF RemoveInfo, Inner, Leaves
 <2> QED BY <2>1, <2>2, <2>3
<1>3. ASSUME NEW t \in Threads
      PROVE  /\ search[t] \in [gp : Nodes \cup {NoNode}, p : Nodes \cup {NoNode},
                               l : Nodes \cup {NoNode}, pupdate : Updates,
                               gpupdate : Updates]
             /\ seen[t] \in Updates
 <2>1. search[t] \in Searches /\ Sound(seen[t]) BY DEF NBBSTInv, ThreadInv, SearchInv
 <2>2. \A u \in SoundWords : u \in Updates BY SoundIsUpdate DEF SoundWords
 <2>3. search[t] \in [gp : Nodes \cup {NoNode}, p : Nodes \cup {NoNode},
                      l : Nodes \cup {NoNode}, pupdate : Updates, gpupdate : Updates]
  BY <2>1, <2>2 DEF Searches, Inner
 <2> QED BY <2>1, <2>3, SoundIsUpdate
<1>4. ASSUME NEW t \in Threads
      PROVE  /\ pc[t] = "help" <=> stack[t] # <<>>
             /\ pc[t] = "idle" <=> call[t] = NoCall
 BY DEF NBBSTInv, ThreadInv, ReleaseInv, SetInv, CallsInv, CallInv
<1>5. Abstract!SetTypeOK
 <2>1. Contents(tree) \subseteq Keys BY DEF Contents
 <2>2. call \in [Threads -> Abstract!SetCalls \cup {NoCall}] BY DEF VariableTypes, SetInv, CallsInv, CallInv
 <2>3. answers \in [Threads -> SUBSET BOOLEAN] BY DEF VariableTypes, SetInv, CallsInv, CallInv
 <2> QED BY <2>1, <2>2, <2>3 DEF VariableTypes, Abstract!SetTypeOK, NoCall
<1>6. seen \in [Threads -> Updates] BY <1>3 DEF VariableTypes
<1>7. released \in [Threads -> Seq(Nodes \cup InfoIds)] BY DEF ReleaseInv
<1>8. \A t \in Threads : callsLeft[t] \in 0 .. MaxCalls[t] BY NBBSTAssumption DEF VariableTypes
<1> QED BY <1>1, <1>2, <1>3, <1>4, <1>5, <1>6, <1>7, <1>8 DEF TypeOK, VariableTypes

(* Every pointer that a thread follows leads to a node, every Info that it *)
(* helps was published, and only a clean word can be without an Info: Help *)
(* dereferences it without a test.                                         *)
THEOREM TypeCorrect == Spec => []TypeOK
 BY TypesFollow, NBBSTInvHolds, SetInvHolds, ReleaseInvHolds, VariableTypesHold, PTL
=============================================================================
