-------------------------- MODULE CBTreeSizeProofs --------------------------
(***************************************************************************)
(* The accounting of CBTreeSize for any number of threads, any size of the *)
(* batches and any threshold: nothing is lost or counted twice, and when   *)
(* nothing is left to count the size is off by less than a batch for each  *)
(* thread.                                                                 *)
(***************************************************************************)
EXTENDS CBTreeSize, FiniteSetTheorems, WellFoundedInduction, TLAPS

-----------------------------------------------------------------------------
(* Sums.  SumFunction takes the arguments one after the other, in an order  *)
(* that depends on nothing but the set of those that are left.             *)
First(s) == CHOOSE x \in s : TRUE
SumsUp(f, S, g) ==
    g = [s \in SUBSET S |-> IF s = {} THEN 0 ELSE f[First(s)] + g[s \ {First(s)}]]

(* A set of numbers that is not empty has a smallest one. *)
LEMMA SmallestNumber ==
 ASSUME NEW N \in SUBSET Nat, N # {}
 PROVE  \E n \in N : \A m \in Nat : m < n => m \notin N
<1> DEFINE less == {ss \in Nat \X Nat : ss[1] < ss[2]}
<1>1. PICK n \in N : \A m \in N : ~(<<m, n>> \in less)
 <2>1. IsWellFoundedOn(less, Nat) BY NatLessThanWellFounded, Zenon DEF OpToRel
 <2> HIDE DEF less
 <2> QED BY <2>1, WFMin
<1>2. \A m \in N : ~(m < n) BY <1>1
<1> QED BY <1>2

(* Hence of the subsets of a finite set that are bad one is smallest.      *)
LEMMA SmallestSubset ==
 ASSUME NEW S, IsFiniteSet(S), NEW B \in SUBSET SUBSET S, B # {}
 PROVE  \E s \in B : \A r \in SUBSET S : r \notin B \/ Cardinality(r) >= Cardinality(s)
<1>1. \A s \in SUBSET S : IsFiniteSet(s) /\ Cardinality(s) \in Nat BY FS_Subset, FS_CardinalityType
<1> DEFINE N == {Cardinality(s) : s \in B}
<1>2. N \in SUBSET Nat /\ N # {} BY <1>1
<1>3. PICK n \in N : \A m \in Nat : m < n => m \notin N BY <1>2, SmallestNumber
<1>4. PICK s \in B : n = Cardinality(s) BY <1>3
<1>5. ASSUME NEW r \in SUBSET S, r \in B PROVE Cardinality(r) >= Cardinality(s)
 <2>1. Cardinality(r) \in N /\ Cardinality(r) \in Nat /\ n \in Nat BY <1>1, <1>2, <1>5
 <2>2. ~(Cardinality(r) < n) BY <1>3, <2>1
 <2> QED BY <1>4, <2>1, <2>2
<1> QED BY <1>4, <1>5

LEMMA FirstOfSet ==
 ASSUME NEW S, IsFiniteSet(S), NEW s \in SUBSET S, s # {}
 PROVE  /\ First(s) \in s
        /\ s \ {First(s)} \in SUBSET S
        /\ Cardinality(s \ {First(s)}) = Cardinality(s) - 1
        /\ Cardinality(s) \in Nat /\ Cardinality(s) > 0
<1>1. First(s) \in s BY DEF First
<1>2. IsFiniteSet(s) BY FS_Subset
<1>3. Cardinality(s \ {First(s)}) = Cardinality(s) - 1 /\ Cardinality(s) \in Nat
 BY <1>1, <1>2, FS_RemoveElement, FS_CardinalityType
<1>4. IsFiniteSet(s \ {First(s)}) BY <1>2, FS_Subset
<1>5. Cardinality(s \ {First(s)}) \in Nat BY <1>4, FS_CardinalityType
<1> QED BY <1>1, <1>3, <1>5

(* The sums exist for the sets of at most n elements, one n after the      *)
(* other.                                                                  *)
UpTo(S, n) == {s \in SUBSET S : Cardinality(s) <= n}
SumsUpTo(f, S, n, g) ==
    /\ g \in [UpTo(S, n) -> Int]
    /\ \A s \in UpTo(S, n) :
         g[s] = IF s = {} THEN 0 ELSE f[First(s)] + g[s \ {First(s)}]

LEMMA SumsGrow ==
 ASSUME NEW S, IsFiniteSet(S), NEW f \in [S -> Int], NEW n \in Nat, NEW g, SumsUpTo(f, S, n, g)
 PROVE  \E h : SumsUpTo(f, S, n + 1, h)
<1> DEFINE h == [s \in UpTo(S, n + 1) |->
                   IF Cardinality(s) <= n THEN g[s] ELSE f[First(s)] + g[s \ {First(s)}]]
<1>1. ASSUME NEW s \in UpTo(S, n + 1)
      PROVE  /\ h[s] \in Int
             /\ h[s] = IF s = {} THEN 0 ELSE f[First(s)] + h[s \ {First(s)}]
 <2>1. s \in SUBSET S /\ Cardinality(s) <= n + 1 /\ Cardinality(s) \in Nat
  BY FS_Subset, FS_CardinalityType DEF UpTo
 <2>2. CASE s = {}
  <3>1. Cardinality(s) = 0 BY <2>2, FS_EmptySet
  <3>2. s \in UpTo(S, n) BY <2>1, <3>1 DEF UpTo
  <3>3. g[s] = 0 BY <2>2, <3>2 DEF SumsUpTo
  <3>4. h[s] = g[s] BY <3>1
  <3> QED BY <2>2, <3>3, <3>4
 <2>3. CASE s # {}
  <3>1. PICK r : r = s \ {First(s)} OBVIOUS
  <3>2. First(s) \in S /\ r \in SUBSET S /\ Cardinality(r) = Cardinality(s) - 1
        /\ Cardinality(s) > 0
   BY <2>1, <2>3, <3>1, FirstOfSet
  <3>3. r \in UpTo(S, n) /\ r \in UpTo(S, n + 1) /\ Cardinality(r) <= n BY <2>1, <3>2 DEF UpTo
  <3>4. h[r] = g[r] /\ g[r] \in Int BY <3>3 DEF SumsUpTo
  <3>5. h[s] = f[First(s)] + g[r]
   <4>1. CASE Cardinality(s) <= n
    <5>1. s \in UpTo(S, n) BY <2>1, <4>1 DEF UpTo
    <5> QED BY <2>3, <3>1, <4>1, <5>1 DEF SumsUpTo
   <4>2. CASE ~(Cardinality(s) <= n) BY <3>1, <4>2
   <4> QED BY <4>1, <4>2
  <3> QED BY <2>3, <3>1, <3>2, <3>4, <3>5
 <2> QED BY <2>2, <2>3
<1> HIDE DEF h
<1>2. h \in [UpTo(S, n + 1) -> Int]
 <2>1. h = [s \in UpTo(S, n + 1) |-> h[s]] BY DEF h
 <2> QED BY <1>1, <2>1
<1> QED BY <1>1, <1>2 DEF SumsUpTo

LEMMA SumsExist ==
 ASSUME NEW S, IsFiniteSet(S), NEW f \in [S -> Int]
 PROVE  \E g : SumsUp(f, S, g)
<1> DEFINE N == {n \in Nat : ~\E g : SumsUpTo(f, S, n, g)}
<1>1. 0 \notin N
 <2> DEFINE g == [s \in UpTo(S, 0) |-> 0]
 <2>1. \A s \in UpTo(S, 0) : s = {}
  <3> SUFFICES ASSUME NEW s \in UpTo(S, 0) PROVE s = {} OBVIOUS
  <3>1. s \in SUBSET S /\ Cardinality(s) <= 0 BY DEF UpTo
  <3>2. s # {} => Cardinality(s) > 0 /\ Cardinality(s) \in Nat BY <3>1, FirstOfSet
  <3> QED BY <3>1, <3>2
 <2>2. SumsUpTo(f, S, 0, g) BY <2>1 DEF SumsUpTo
 <2> QED BY <2>2
<1>2. N = {}
 <2> SUFFICES ASSUME N # {} PROVE FALSE OBVIOUS
 <2>1. PICK n \in N : \A m \in Nat : m < n => m \notin N BY SmallestNumber
 <2>2. n \in Nat /\ n # 0 BY <1>1, <2>1
 <2>3. PICK m : m = n - 1 OBVIOUS
 <2>4. m \in Nat /\ m < n /\ m + 1 = n BY <2>2, <2>3
 <2>5. PICK g : SumsUpTo(f, S, m, g) BY <2>1, <2>4
 <2>6. \E h : SumsUpTo(f, S, m + 1, h) BY <2>4, <2>5, SumsGrow
 <2> QED BY <2>1, <2>4, <2>6
<1>3. PICK n : n = Cardinality(S) OBVIOUS
<1>4. n \in Nat BY <1>3, FS_CardinalityType
<1>5. PICK g : SumsUpTo(f, S, n, g) BY <1>2, <1>4
<1>6. UpTo(S, n) = SUBSET S BY <1>3, FS_Subset DEF UpTo
<1>7. g \in [SUBSET S -> Int] BY <1>5, <1>6 DEF SumsUpTo
<1>8. \A s \in SUBSET S : g[s] = IF s = {} THEN 0 ELSE f[First(s)] + g[s \ {First(s)}]
 BY <1>5, <1>6 DEF SumsUpTo
<1> QED BY <1>7, <1>8 DEF SumsUp

LEMMA SumIs ==
 ASSUME NEW S, IsFiniteSet(S), NEW f \in [S -> Int]
 PROVE  \E g : SumsUp(f, S, g) /\ SumFunction(f) = g[S]
<1> DEFINE G == CHOOSE g : SumsUp(f, S, g)
<1>1. SumsUp(f, S, G) BY SumsExist
<1>2. DOMAIN f = S OBVIOUS
<1>3. SumFunction(f) = G[S]
 BY <1>2 DEF SumFunction, SumFunctionOnSet, FoldFunctionOnSet, MapThenFoldSet, SumsUp, First
<1> QED BY <1>1, <1>3

LEMMA SumsAreNumbers ==
 ASSUME NEW S, IsFiniteSet(S), NEW f \in [S -> Int], NEW g, SumsUp(f, S, g)
 PROVE  \A s \in SUBSET S : g[s] \in Int
<1> DEFINE B == {s \in SUBSET S : g[s] \notin Int}
<1> SUFFICES ASSUME B # {} PROVE FALSE OBVIOUS
<1>1. B \in SUBSET SUBSET S OBVIOUS
<1>2. PICK s \in B : \A r \in SUBSET S : r \notin B \/ Cardinality(r) >= Cardinality(s)
 BY <1>1, SmallestSubset
<1>3. s \in SUBSET S /\ g[s] = IF s = {} THEN 0 ELSE f[First(s)] + g[s \ {First(s)}] BY DEF SumsUp
<1>4. s # {} BY <1>3
<1>5. PICK r : r = s \ {First(s)} OBVIOUS
<1>6. First(s) \in S /\ r \in SUBSET S /\ Cardinality(s) \in Nat /\ Cardinality(r) = Cardinality(s) - 1
 BY <1>3, <1>4, <1>5, FirstOfSet
<1>7. g[r] \in Int BY <1>2, <1>6
<1> QED BY <1>3, <1>4, <1>5, <1>6, <1>7

(* One argument changes by d. *)
LEMMA SumChanges ==
 ASSUME NEW S, IsFiniteSet(S), NEW f \in [S -> Int], NEW h \in [S -> Int],
        NEW t \in S, NEW d \in Int,
        h[t] = f[t] + d, \A u \in S \ {t} : h[u] = f[u]
 PROVE  /\ SumFunction(f) \in Int
        /\ SumFunction(h) = SumFunction(f) + d
<1>1. PICK g : SumsUp(f, S, g) /\ SumFunction(f) = g[S] BY SumIs
<1>2. PICK k : SumsUp(h, S, k) /\ SumFunction(h) = k[S] BY SumIs
<1>3. \A s \in SUBSET S : g[s] \in Int BY <1>1, SumsAreNumbers
<1> DEFINE Right(s) == k[s] = g[s] + (IF t \in s THEN d ELSE 0)
           B == {s \in SUBSET S : ~Right(s)}
<1>5. B = {}
 <2> SUFFICES ASSUME B # {} PROVE FALSE OBVIOUS
 <2>1. B \in SUBSET SUBSET S OBVIOUS
 <2>2. PICK s \in B : \A r \in SUBSET S : r \notin B \/ Cardinality(r) >= Cardinality(s)
  BY <2>1, SmallestSubset
 <2>3. s \in SUBSET S /\ g[s] = IF s = {} THEN 0 ELSE f[First(s)] + g[s \ {First(s)}]
  BY <1>1 DEF SumsUp
 <2>4. k[s] = IF s = {} THEN 0 ELSE h[First(s)] + k[s \ {First(s)}] BY <1>2, <2>3 DEF SumsUp
 <2>5. s # {} BY <2>3, <2>4
 <2>6. PICK r, x : r = s \ {x} /\ x = First(s) OBVIOUS
 <2>7. x \in s /\ x \in S /\ r \in SUBSET S
       /\ Cardinality(s) \in Nat /\ Cardinality(r) = Cardinality(s) - 1
  BY <2>3, <2>5, <2>6, FirstOfSet
 <2>8. Right(r) BY <2>2, <2>7
 <2>9. g[s] = f[x] + g[r] /\ k[s] = h[x] + k[r] /\ f[x] \in Int /\ g[r] \in Int
  BY <1>3, <2>3, <2>4, <2>5, <2>6, <2>7
 <2>10. CASE x = t
  <3>1. t \notin r /\ t \in s BY <2>6, <2>7, <2>10
  <3>2. k[r] = g[r] /\ h[x] = f[x] + d BY <2>7, <2>8, <2>9, <2>10, <3>1
  <3> QED BY <2>9, <3>1, <3>2
 <2>11. CASE x # t
  <3>1. t \in r <=> t \in s BY <2>6, <2>11
  <3>2. h[x] = f[x] BY <2>7, <2>11
  <3> QED BY <2>8, <2>9, <3>1, <3>2
 <2> QED BY <2>10, <2>11
<1>6. Right(S) BY <1>5
<1> QED BY <1>1, <1>2, <1>3, <1>6

(* Arguments of at most b. *)
LEMMA SumBounded ==
 ASSUME NEW S, IsFiniteSet(S), NEW b \in Nat, NEW f \in [S -> -b .. b]
 PROVE  SumFunction(f) \in -(b * Cardinality(S)) .. (b * Cardinality(S))
<1>1. f \in [S -> Int] OBVIOUS
<1>2. PICK g : SumsUp(f, S, g) /\ SumFunction(f) = g[S] BY <1>1, SumIs
<1> DEFINE B == {s \in SUBSET S : g[s] \notin -(b * Cardinality(s)) .. (b * Cardinality(s))}
<1>4. B = {}
 <2> SUFFICES ASSUME B # {} PROVE FALSE OBVIOUS
 <2>1. B \in SUBSET SUBSET S OBVIOUS
 <2>2. PICK s \in B : \A r \in SUBSET S : r \notin B \/ Cardinality(r) >= Cardinality(s)
  BY <2>1, SmallestSubset
 <2>3. s \in SUBSET S /\ g[s] = IF s = {} THEN 0 ELSE f[First(s)] + g[s \ {First(s)}]
  BY <1>2 DEF SumsUp
 <2>4. s # {}
  <3>1. ASSUME s = {} PROVE FALSE
   <4>1. Cardinality(s) = 0 /\ g[s] = 0 BY <2>3, <3>1, FS_EmptySet
   <4>2. b * Cardinality(s) = 0 BY <4>1
   <4> QED BY <2>2, <4>1, <4>2
  <3> QED BY <3>1
 <2>5. PICK r, x : r = s \ {x} /\ x = First(s) OBVIOUS
 <2>6. x \in S /\ r \in SUBSET S /\ Cardinality(s) \in Nat /\ Cardinality(r) = Cardinality(s) - 1
       /\ Cardinality(s) > 0
  BY <2>3, <2>4, <2>5, FirstOfSet
 <2>7. PICK n, m : n = Cardinality(s) /\ m = Cardinality(r) OBVIOUS
 <2>8. n \in Nat /\ m \in Nat /\ n = m + 1 BY <2>6, <2>7
 <2>9. b * n = b * m + b /\ b * m \in Nat BY <2>8
 <2>10. g[r] \in -(b * m) .. (b * m) BY <2>2, <2>6, <2>7, <2>8
 <2>11. g[s] = f[x] + g[r] /\ f[x] \in -b .. b BY <2>3, <2>4, <2>5, <2>6
 <2>12. g[s] \in -(b * n) .. (b * n) BY <2>9, <2>10, <2>11
 <2> QED BY <2>2, <2>7, <2>12
<1> QED BY <1>2, <1>4

-----------------------------------------------------------------------------
(* What the system and the class provide: finitely many threads, batches   *)
(* of at least one.                                                        *)
Parameters == IsFiniteSet(Threads) /\ NThreads \in Nat \ {0}

(* What a thread has counted for itself, or has still to count. *)
Outstanding == [t \in Threads |-> localSize[t] + Uncounted(t)]

(* One thread moves d between what is outstanding and the rest. *)
LEMMA StepOfOne ==
 ASSUME Parameters, SizeTypeOK, SizeTypeOK', SizeIsRight, NEW t \in Threads, NEW d \in Int,
        \A u \in Threads \ {t} : localSize'[u] = localSize[u] /\ tally'[u] = tally[u],
        Outstanding'[t] = Outstanding[t] + d,
        elements' - size' = elements - size + d
 PROVE  SizeIsRight'
<1>1. Outstanding \in [Threads -> Int] /\ Outstanding' \in [Threads -> Int]
 BY DEF SizeTypeOK, Outstanding, Uncounted, Parameters
<1>2. \A u \in Threads \ {t} : Outstanding'[u] = Outstanding[u] BY DEF Outstanding, Uncounted
<1>3. PICK f, h : f = Outstanding /\ h = Outstanding' OBVIOUS
<1>4. SumFunction(f) \in Int /\ SumFunction(h) = SumFunction(f) + d
 BY <1>1, <1>2, <1>3, SumChanges DEF Parameters
<1>5. elements = size + SumFunction(f) BY <1>3 DEF SizeIsRight, Outstanding
<1>6. elements' = size' + SumFunction(h) BY <1>4, <1>5 DEF SizeTypeOK
<1>7. SumFunction(h) = SumFunction(Outstanding') BY <1>3
<1> QED BY <1>6, <1>7 DEF SizeIsRight, Outstanding

Tallies == [step : {"none", "load", "count", "move"}, delta : {-1, 0, 1}, log : Int]

LEMMA TypesKeep ==
 ASSUME Parameters, SizeTypeOK, [SizeNext]_sizeVars
 PROVE  SizeTypeOK'
<1>1. CASE UNCHANGED sizeVars BY <1>1 DEF SizeTypeOK, sizeVars
<1>2. ASSUME NEW t \in Threads, Change(t, 1) \/ Change(t, -1) \/ Counting(t)
      PROVE  SizeTypeOK'
 <2>1. tally[t] \in Tallies /\ localSize[t] \in (1 - NThreads) .. (NThreads - 1)
  BY DEF SizeTypeOK, Tallies
 <2>2. ASSUME NEW z \in Tallies, tally' = [tally EXCEPT ![t] = z]
       PROVE  tally' \in [Threads -> Tallies]
  BY <2>2 DEF SizeTypeOK, Tallies
 <2>3. Nothing \in Tallies BY DEF Nothing, Tallies
 <2>4. ASSUME NEW d \in {-1, 1}, Change(t, d) PROVE SizeTypeOK'
  <3>1. Owes(d) \in Tallies BY DEF Owes, Tallies
  <3> QED BY <2>2, <2>4, <3>1 DEF Change, SizeTypeOK, Tallies
 <2>5. CASE LoadLog(t)
  <3>1. PICK z : z = [tally[t] EXCEPT !.step = "count", !.log = logSize] OBVIOUS
  <3>2. z \in Tallies BY <2>1, <3>1 DEF Tallies, SizeTypeOK
  <3>3. tally' = [tally EXCEPT ![t] = z] BY <2>5, <3>1 DEF LoadLog, SizeTypeOK
  <3> QED BY <2>2, <2>5, <3>2, <3>3 DEF LoadLog, SizeTypeOK, Tallies
 <2>6. ASSUME NEW n \in Int, Counted(t, n) PROVE size' \in Int /\ tally' \in [Threads -> Tallies]
  <3>1. PICK z : z = [tally[t] EXCEPT !.step = "move"] OBVIOUS
  <3>2. z \in Tallies BY <2>1, <3>1 DEF Tallies
  <3>3. tally' = [tally EXCEPT ![t] = z] \/ tally' = [tally EXCEPT ![t] = Nothing]
   BY <2>6, <3>1 DEF Counted, SizeTypeOK
  <3> QED BY <2>2, <2>3, <2>6, <3>2, <3>3 DEF Counted
 <2>7. CASE CountDirectly(t)
  <3>1. size + tally[t].delta \in Int BY <2>1 DEF SizeTypeOK, Tallies
  <3> QED BY <2>6, <2>7, <3>1 DEF CountDirectly, SizeTypeOK, Tallies
 <2>8. CASE CountLocally(t)
  <3>1. PICK n, d : n = localSize[t] + d /\ d = tally[t].delta OBVIOUS
  <3>2. d \in {-1, 0, 1} /\ n \in Int /\ size + n \in Int
   BY <2>1, <3>1 DEF SizeTypeOK, Tallies, Parameters
  <3>3. CASE IsBatch(d, n)
   <4>1. Counted(t, size + n) /\ localSize' = [localSize EXCEPT ![t] = 0]
    BY <2>8, <3>1, <3>3 DEF CountLocally
   <4>2. 0 \in (1 - NThreads) .. (NThreads - 1) BY DEF Parameters
   <4> QED BY <2>6, <2>8, <3>2, <4>1, <4>2 DEF CountLocally, SizeTypeOK, Tallies
  <3>4. CASE ~IsBatch(d, n)
   <4>1. /\ localSize' = [localSize EXCEPT ![t] = n]
         /\ tally' = [tally EXCEPT ![t] = Nothing] /\ size' = size
    BY <2>8, <3>1, <3>4 DEF CountLocally
   <4>2. n \in (1 - NThreads) .. (NThreads - 1)
    <5>1. PICK l, b : l = localSize[t] /\ b = NThreads OBVIOUS
    <5>2. b \in Nat \ {0} /\ l \in Int /\ 1 - b <= l /\ l <= b - 1 /\ n = l + d
     BY <2>1, <3>1, <5>1 DEF Parameters
    <5>3. ~(d * n >= b) BY <3>4, <5>1 DEF IsBatch
    <5>4. CASE d = 1 BY <5>1, <5>2, <5>3, <5>4
    <5>5. CASE d = -1 BY <5>1, <5>2, <5>3, <5>5
    <5>6. CASE d = 0 BY <5>1, <5>2, <5>6
    <5> QED BY <3>2, <5>4, <5>5, <5>6
   <4> QED BY <2>2, <2>3, <2>8, <4>1, <4>2 DEF CountLocally, SizeTypeOK, Tallies
  <3> QED BY <3>3, <3>4
 <2>9. CASE MoveLog(t)
  <3>1. logSize' \in Int BY <2>1, <2>9 DEF MoveLog, SizeTypeOK, Tallies
  <3> QED BY <2>2, <2>3, <2>9, <3>1 DEF MoveLog, SizeTypeOK, Tallies
 <2> QED BY <1>2, <2>4, <2>5, <2>7, <2>8, <2>9 DEF Counting
<1> QED BY <1>1, <1>2 DEF SizeNext

LEMMA SizeKeeps ==
 ASSUME Parameters, SizeTypeOK, SizeIsRight, [SizeNext]_sizeVars
 PROVE  SizeIsRight'
<1>1. SizeTypeOK' BY TypesKeep
<1>2. CASE UNCHANGED sizeVars BY <1>2 DEF SizeIsRight, Uncounted, sizeVars
<1>3. ASSUME NEW t \in Threads, Change(t, 1) \/ Change(t, -1) \/ Counting(t)
      PROVE  SizeIsRight'
 <2>1. /\ tally[t] \in Tallies /\ localSize[t] \in Int /\ elements \in Int /\ size \in Int
       /\ tally \in [Threads -> Tallies] /\ localSize \in [Threads -> Int]
  BY DEF SizeTypeOK, Tallies, Parameters
 <2>2. Outstanding[t] = localSize[t] + Uncounted(t)
       /\ Outstanding'[t] = localSize'[t] + Uncounted(t)'
  BY DEF Outstanding
 <2>3. Nothing.step = "none" /\ Nothing.delta = 0 BY DEF Nothing
 <2>4. ASSUME NEW d \in {-1, 1}, Change(t, d) PROVE SizeIsRight'
  <3>1. Owes(d).step = "load" /\ Owes(d).delta = d BY DEF Owes
  <3>2. Uncounted(t) = 0 /\ Uncounted(t)' = d BY <2>1, <2>3, <2>4, <3>1 DEF Change, Uncounted
  <3>3. /\ \A u \in Threads \ {t} : localSize'[u] = localSize[u] /\ tally'[u] = tally[u]
        /\ localSize'[t] = localSize[t] /\ elements' = elements + d /\ size' = size
   BY <2>1, <2>4 DEF Change
  <3>4. Outstanding'[t] = Outstanding[t] + d /\ elements' - size' = elements - size + d
   BY <2>1, <2>2, <3>2, <3>3
  <3> QED BY <1>1, <3>3, <3>4, StepOfOne
 <2>5. ASSUME NEW s \in Int, Counted(t, s)
       PROVE  Uncounted(t)' = 0 /\ size' = s
              /\ \A u \in Threads \ {t} : tally'[u] = tally[u]
  <3>1. tally'[t] = Nothing \/ tally'[t] = [tally[t] EXCEPT !.step = "move"]
   BY <2>1, <2>5 DEF Counted
  <3>2. tally'[t].step \in {"none", "move"} BY <2>1, <2>3, <3>1 DEF Tallies
  <3> QED BY <2>1, <2>5, <3>2 DEF Counted, Uncounted
 <2>6. tally[t].step = "count" => Uncounted(t) = tally[t].delta /\ tally[t].delta \in Int
  BY <2>1 DEF Uncounted, Tallies
 <2>7. CASE LoadLog(t)
  <3>1. tally'[t].step = "count" /\ tally'[t].delta = tally[t].delta /\ tally[t].step = "load"
   BY <2>1, <2>7 DEF LoadLog, Tallies
  <3>2. Uncounted(t)' = Uncounted(t) /\ Uncounted(t) \in Int BY <2>1, <3>1 DEF Uncounted, Tallies
  <3>3. /\ \A u \in Threads \ {t} : localSize'[u] = localSize[u] /\ tally'[u] = tally[u]
        /\ localSize'[t] = localSize[t] /\ elements' = elements /\ size' = size
   BY <2>1, <2>7 DEF LoadLog
  <3>4. Outstanding'[t] = Outstanding[t] + 0 /\ elements' - size' = elements - size + 0
   BY <2>1, <2>2, <3>2, <3>3
  <3> QED BY <1>1, <3>3, <3>4, StepOfOne
 <2>8. CASE CountDirectly(t)
  <3>1. PICK d : d = tally[t].delta OBVIOUS
  <3>2. Uncounted(t) = d /\ d \in Int /\ size + d \in Int
   BY <2>1, <2>6, <2>8, <3>1 DEF CountDirectly
  <3>3. Uncounted(t)' = 0 /\ size' = size + d
        /\ \A u \in Threads \ {t} : tally'[u] = tally[u]
   BY <2>5, <2>8, <3>1, <3>2 DEF CountDirectly
  <3>4. localSize' = localSize /\ elements' = elements BY <2>8 DEF CountDirectly
  <3>5. Outstanding'[t] = Outstanding[t] + (-d) /\ elements' - size' = elements - size + (-d)
   BY <2>1, <2>2, <3>2, <3>3, <3>4
  <3> QED BY <1>1, <3>2, <3>3, <3>4, <3>5, StepOfOne
 <2>9. CASE CountLocally(t)
  <3>1. PICK n, d : n = localSize[t] + d /\ d = tally[t].delta OBVIOUS
  <3>2. Uncounted(t) = d /\ d \in Int /\ n \in Int /\ size + n \in Int
   BY <2>1, <2>6, <2>9, <3>1 DEF CountLocally
  <3>3. CASE IsBatch(d, n)
   <4>1. Counted(t, size + n) /\ localSize' = [localSize EXCEPT ![t] = 0] /\ elements' = elements
    BY <2>9, <3>1, <3>3 DEF CountLocally
   <4>2. Uncounted(t)' = 0 /\ size' = size + n /\ \A u \in Threads \ {t} : tally'[u] = tally[u]
    BY <2>5, <3>2, <4>1
   <4>3. Outstanding'[t] = Outstanding[t] + (-n) /\ elements' - size' = elements - size + (-n)
    BY <2>1, <2>2, <3>1, <3>2, <4>1, <4>2
   <4>4. \A u \in Threads \ {t} : localSize'[u] = localSize[u] BY <2>1, <4>1
   <4> QED BY <1>1, <3>2, <4>2, <4>3, <4>4, StepOfOne
  <3>4. CASE ~IsBatch(d, n)
   <4>1. /\ localSize' = [localSize EXCEPT ![t] = n]
         /\ tally' = [tally EXCEPT ![t] = Nothing] /\ size' = size /\ elements' = elements
    BY <2>9, <3>1, <3>4 DEF CountLocally
   <4>2. Uncounted(t)' = 0 BY <2>1, <2>3, <4>1 DEF Uncounted
   <4>3. Outstanding'[t] = Outstanding[t] + 0 /\ elements' - size' = elements - size + 0
    BY <2>1, <2>2, <3>1, <3>2, <4>1, <4>2
   <4>4. \A u \in Threads \ {t} : localSize'[u] = localSize[u] /\ tally'[u] = tally[u] BY <2>1, <4>1
   <4> QED BY <1>1, <4>3, <4>4, StepOfOne
  <3> QED BY <3>3, <3>4
 <2>10. CASE MoveLog(t)
  <3>1. tally[t].step = "move" /\ tally'[t] = Nothing BY <2>1, <2>10 DEF MoveLog
  <3>2. Uncounted(t) = 0 /\ Uncounted(t)' = 0 BY <2>3, <3>1 DEF Uncounted
  <3>3. /\ \A u \in Threads \ {t} : localSize'[u] = localSize[u] /\ tally'[u] = tally[u]
        /\ localSize'[t] = localSize[t] /\ elements' = elements /\ size' = size
   BY <2>1, <2>10 DEF MoveLog
  <3>4. Outstanding'[t] = Outstanding[t] + 0 /\ elements' - size' = elements - size + 0
   BY <2>1, <2>2, <3>2, <3>3
  <3> QED BY <1>1, <3>3, <3>4, StepOfOne
 <2> QED BY <1>3, <2>4, <2>7, <2>8, <2>9, <2>10 DEF Counting
<1> QED BY <1>2, <1>3 DEF SizeNext

LEMMA SizeStarts ==
 ASSUME Parameters, SizeInit
 PROVE  SizeTypeOK /\ SizeIsRight
<1>1. SizeTypeOK BY DEF Parameters, SizeInit, SizeTypeOK, Nothing
<1>2. PICK f : f = [t \in Threads |-> localSize[t] + Uncounted(t)] OBVIOUS
<1>3. f \in [Threads -> -0 .. 0] BY <1>2 DEF SizeInit, Uncounted, Nothing
<1>4. SumFunction(f) \in -(0 * Cardinality(Threads)) .. (0 * Cardinality(Threads))
 BY <1>3, SumBounded DEF Parameters
<1>5. Cardinality(Threads) \in Nat BY FS_CardinalityType DEF Parameters
<1>6. SumFunction(f) = 0 BY <1>4, <1>5
<1> QED BY <1>1, <1>2, <1>6 DEF SizeIsRight, SizeInit

(* size, the local sizes and what is still to be counted make up the       *)
(* number of elements, however the accounting of the threads interleaves.  *)
THEOREM SizeIsAlwaysRight ==
 ASSUME Parameters
 PROVE  SizeSpec => [](SizeTypeOK /\ SizeIsRight)
<1>1. SizeInit => SizeTypeOK /\ SizeIsRight BY SizeStarts
<1>2. SizeTypeOK /\ SizeIsRight /\ [SizeNext]_sizeVars => (SizeTypeOK /\ SizeIsRight)'
 BY TypesKeep, SizeKeeps
<1> QED BY <1>1, <1>2, PTL DEF SizeSpec

(* When every thread has counted what it did, size, which decides about    *)
(* logSize, misses less than a batch for each thread.                      *)
THEOREM SizeIsClose ==
 ASSUME Parameters
 PROVE  SizeSpec => []((\A t \in Threads : tally[t] = Nothing) =>
            elements - size \in
                -((NThreads - 1) * Cardinality(Threads)) .. (NThreads - 1) * Cardinality(Threads))
<1>1. SizeTypeOK /\ SizeIsRight => ((\A t \in Threads : tally[t] = Nothing) =>
             elements - size \in
                 -((NThreads - 1) * Cardinality(Threads)) .. (NThreads - 1) * Cardinality(Threads))
 <2> SUFFICES ASSUME SizeTypeOK, SizeIsRight, \A t \in Threads : tally[t] = Nothing
              PROVE  elements - size \in
                -((NThreads - 1) * Cardinality(Threads)) .. (NThreads - 1) * Cardinality(Threads)
  OBVIOUS
 <2>1. PICK b : b = NThreads - 1 OBVIOUS
 <2>2. b \in Nat BY <2>1 DEF Parameters
 <2>3. PICK f : f = [t \in Threads |-> localSize[t] + Uncounted(t)] OBVIOUS
 <2>4. f \in [Threads -> -b .. b] BY <2>1, <2>3 DEF SizeTypeOK, Uncounted, Nothing, Parameters
 <2>5. SumFunction(f) \in -(b * Cardinality(Threads)) .. (b * Cardinality(Threads))
  BY <2>2, <2>4, SumBounded DEF Parameters
 <2>6. elements = size + SumFunction(f) BY <2>3 DEF SizeIsRight
 <2>7. Cardinality(Threads) \in Nat BY FS_CardinalityType DEF Parameters
 <2>8. b * Cardinality(Threads) \in Nat BY <2>2, <2>7
 <2>9. elements - size = SumFunction(f) BY <2>5, <2>6, <2>8 DEF SizeTypeOK
 <2> QED BY <2>1, <2>5, <2>9
<1> QED BY <1>1, SizeIsAlwaysRight, PTL
=============================================================================
