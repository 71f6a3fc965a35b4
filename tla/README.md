# Concurrent search trees, in TLA+

The repository compares five concurrent sets of integers, all written against
one small hazard-pointer library. This directory models that library and the
five trees, checks the models with TLC on small instances, and proves with TLAPS
what the library promises to the trees, for every number of threads, slots and
nodes, and that the three lock-free trees, the skip list, the non-blocking binary
search tree and the multiway tree, are linearizable sets that give back what they
replace once, for every number of threads and keys.

## 1. The system

| Part | Source | State it keeps | Operations |
|---|---|---|---|
| Hazard-pointer manager | `src/include/HazardManager.hpp` | `Pointers` (a row per thread, read by all), `LocalQueues` and `FreeQueues` (private to a thread) | `publish`, `release`, `releaseAll`, `releaseNode`, `safe_release_node`, `getFreeNode` |
| Skip list | `src/include/skiplist/SkipList.hpp` | nodes with `key`, `topLevel` and marked `next` pointers | `add`, `remove`, `contains`, `find` |
| Non-blocking binary search tree | `src/include/nbbst/NBBST.hpp` | internal nodes with an update word, leaves, `Info` descriptors | `add`, `remove`, `contains`, `Search`, `Help*`, `CASChild` |
| Optimistic AVL tree | `src/include/avltree/AVLTree.hpp` | nodes with value, height, version, parent, lock | `add`, `remove`, `contains`, unlinking, rotations |
| Counter-based tree | `src/include/cbtree/CBTree.hpp` | as the AVL tree with access counters; `size`, `logSize`, `local_size` | the same, with semi-splaying |
| Lock-free multiway tree | `src/include/lfmst/MultiwaySearchTree.hpp` | nodes whose immutable `Contents` (keys, children, link) are replaced by CAS; the head node | `add`, `remove`, `contains`, splits, root growth, cleaning |
| Drivers | `src/src/test.cpp`, `bench.cpp`, `memory.cpp`, ... | none that is shared, but the tree under test | the calls of the trees |

Interaction. A tree asks the manager for every node (`getFreeNode`), announces
the nodes it is about to use in the slots of the calling thread (`publish`),
and gives nodes back (`releaseNode`). The manager recycles a node given back by
a thread when that thread next needs one and no slot of any thread holds it.
Threads meet in a tree only through shared memory: CAS (`CASPTR` in
`src/include/Utils.hpp`) in the lock-free trees, per-node locks and versions in
the AVL and counter-based trees. The calling thread is known by `thread_num`,
and the drivers number their threads from 0.

What is hard: every access is a race. A pointer is read, then published, then
used, and may be stale at each moment; an operation is finished by whoever
meets its flag, so several threads do the same steps, some of them too late;
a node leaves a structure in several steps and is recycled afterwards; a thread
can stop anywhere. The list with the line of each hazard, and the properties
that watch it, is under `hazards` in `PROJECT.json`.

What makes each part correct:

* manager: a node has one owner at any time, a protected node is not recycled,
  a scan has a node to return, calls end;
* every tree: it is a linearizable set of keys; its shape is that of a search
  structure at every moment; a node is given back once, when it is out;
* lock-free trees: the calls of running threads return whatever the others do;
* AVL and counter-based trees: no deadlock between the per-node locks, a descent
  that is not sent back has seen the right path, heights are repaired in the end;
* counter-based tree: the accounting of `size` loses nothing;
* multiway tree: no key is lost by a split or by the cleaning of children, every
  level leads through its links to the infinite key, contents that share their
  arrays are given back once.

## 2. The modules

| Module | What it is |
|---|---|
| `NodePool` | abstract reclaimer: alloc, retire, reclaim, protect, drop |
| `HazardManager` | the manager, one action per operation and one per step of its loops |
| `ConcurrentSet` | abstract linearizable set: invoke, effect, return |
| `NBBST` | the non-blocking tree, one shared access per step |
| `SkipList` | the skip list, one shared access per step |
| `AVLTree` | the optimistic AVL tree, one read or write per step |
| `CBTree` | the counter-based tree, one read or write per step |
| `CBTreeSize` | how the counter-based tree counts its elements |
| `MultiwaySearchTree` | the lock-free multiway tree, one read or CAS of contents per step |
| `MCHazardManager`, `MCNBBST`, `MCSkipList`, `MCAVLTree`, `MCCBTree`, `MCMultiwaySearchTree` | small instances for TLC |
| `HazardManagerProofs`, `SkipListProofs`, `NBBSTProofs` (invariants in `NBBSTInvariants`), `AVLTreeProofs`, `CBTreeSizeProofs`, `MultiwaySearchTreeProofs`, `MultiwayOrderProofs`, `MultiwaySetProofs` | the theorems |

`HazardManager` implements `NodePool` (`ImplementsNodePool`); `NBBST`, `SkipList`,
`AVLTree`, `CBTree` and `MultiwaySearchTree` implement `ConcurrentSet`
(`ImplementsSet`), each by an `INSTANCE ... WITH` that maps its state to the
abstract one. `CBTree` instantiates `CBTreeSize` with the cardinality of its set
for the number of elements: the updates of the tree are the environment of the
accounting.

A definition called `Faulty...` (and `OneSidedSubtree`, `SkippingUnreferenced`,
`ShortMoveForward`) is a plausible slip in the definition that follows it. It is no part of the model: each property is known to
notice one.

### HazardManager

`Pointers`, `LocalQueues` and `FreeQueues` are the fields of the class. `call`
says where a thread is inside `releaseAll` or `getFreeNode`: these loop over
memory that other threads write or read, so each iteration is a step
(`ReleaseNext`; `SlotMatches`, `SlotDiffers`, `Unreferenced` for
`isReferenced`). The other operations touch one shared word at most and are one
step each. The unsigned comparison of `getFreeNode` is `Threshold`. The build
without `DEBUG` is modelled; with it the same accesses are bounds-checked.

The client is any user that gives back only nodes it holds, once: `inUse` is
what it holds, `locals[t]` the pointers thread `t` has read from shared memory
(`Read`) and may publish later, when the node may be gone. This is what the
trees do: they publish what they have read and do not validate it. So the
promise can only be about slots published while their node was in use, which
the history variable `guarded` remembers.

`ScanLeavesFew` says what a scan achieves: the nodes that it keeps are no more than
the pointers that it can have met, one in each slot (`Threads * Size`) and one for
each pointer that another thread holds outside its slots (`NLocals` each) and
publishes just before the scan comes by. Where all candidates are kept the free
queue is empty, and the code calls `front()` on an empty list. `EndScan` is not
enabled there. `ScanFindsFree`, that a free node is found as the comment of
`getFreeNode` says, follows only if the pointers outside the slots of the others
are no more than the threads, for a scan begins with more than
`(Size + 1) * Threads` candidates. It does not hold in general: see
**hazard_late** below.

### ConcurrentSet

`call[t]` is the call in progress and `answers[t]` the set of results that it
may return by now: an `add` or `remove` that has to change the set gets its
`TRUE` from the step that changes it, which can be a step of another thread
that helps; every other result is one that was right at some moment of the
call. A tree model computes `answers` at the steps that change its contents,
and the refinement check decides whether the result the code returns is among
them, and whether the contents change only as a pending call may change them.

### NBBST

`tree` holds the nodes, `infos[t]` the descriptors published by `t`. `search`,
`seen` and `stack` are the locals of the functions: `SearchResult`, the local
`result` of `add` and `remove`, and the activations of `Help`, `HelpInsert`,
`HelpDelete` and `HelpMarked`, whose mutual recursion is not bounded by the
model. An update word is a state and a descriptor, as the two low bits and the
pointer of `Update` in the code, and `search` survives a retry, as `search`
does in the code. Constant fields are read for free, and reads whose value only goes
to `publish` are left out. `released` is what each thread gave to
`releaseNode`. Nodes and descriptors that were never shared do not appear: a
failed CAS of `add` gives them back unseen.

### SkipList

`list` holds the nodes. A step is one read or one CAS of a `next` pointer;
`find`, which `add` calls for two purposes and `remove` for two, runs as steps
of its own and `job` says what its caller does with the result. The level of a
new node is any level. The restarts of `find` (`goto retry`), its snips, the
linking of the upper levels after the key is in the set, and the marking from
the top down are all there.

### AVLTree

`tree` holds the nodes; the lock of a node is the set of its holder. `path[t]`
is the chain of activations of `attemptGet` or `attemptUpdate`, each with the
version that its caller has read; the loops of `contains` and `updateUnderRoot`
at the `rootHolder` are those of the activations below it, with a version that
never changes. `here[t]` has the locals `child` and `childOVL`. `attemptGet` and
`attemptUpdate` share their steps and differ where the code does: the one looks
at the key of the child before it validates, the other after.

The repairs read and write under the eyes of readers without locks, so
`nodeCondition` reads one field per step (`cond[t].got`), and unlinking and the
rotations are lists of stores (`stores[t]`) that are done one per step, in the
order of the code; what follows is in `after[t]`. The functions for left and
right are one definition with a `side`; where their order of reading differs
(the heights of the grandchildren, the versions in the double rotations) the
model differs too. A read that a lock of the thread protects goes with the next
step, and all the locks of a function are released in the step that leaves it,
as the `scoped_lock`s do.

`set` is a history variable here, changed at the stores that link a node, set or
clear its value, or unlink it: in the middle of a rotation the keys cannot be
read off the tree. `SearchTree` says that they are the same once the stores of
all threads are done. `Forget` keeps the state space finite: versions grow for
ever, and when no call is in progress nobody remembers one.

### CBTree and CBTreeSize

The descent, the validation of versions and the unlinking are those of an
optimistic tree, and the module is laid out as `AVLTree` is: `path[t]`, `here[t]`,
`stores[t]`, `set`, one side for left and right. What differs follows the code:

* There are no heights. A node that was found or added is splayed (`SemiSplay`)
  when it lies deeper than `logSize` allows, otherwise `RebalanceAtTarget` and
  `RebalanceNew` compare counters of accesses at it and at its ancestors. `turn[t]`
  has the locals of these three: which of them, the nodes that it has read, how
  many of them are locked, and the level it has got to.
* The counters are plain integers that every thread increments without a lock, so
  a decision by them can be anything: no rotation, a single or a double one. The
  model leaves the decision open and keeps what does not depend on it: what is
  read, in which order, what is locked and tested again, and every store.
* Versions are numbers with the bits of the code (unlinked, growing, shrinking,
  and the two counts), for the tests on them are tests of bits. `MaxShrinks`
  bounds how often a node is rotated downwards (`Exhausted`).
* The loops of `contains`, `add` and `remove` at the `rootHolder` share the steps
  of the activations below it; the condition of the loop of `SemiSplay` is
  evaluated with the reads that begin its body.

`CBTreeSize` is the code at the end of `attemptInsertIntoEmpty`,
`attemptNodeUpdate` and `attemptUnlink`: `logSize` is loaded, `size` is changed or
the counter of the thread that goes to `size` in batches, and `logSize` is moved
by a CAS. `tally[t]` is what the thread has still to count. A shift by a negative
number, which happens when a remove of another thread overtakes the count of the
first add, may give anything (`AtLeastPower`).

### MultiwaySearchTree

`contents` maps a node to its contents: items, children and link. The code never
changes contents but replaces them by new ones with a CAS that compares pointers,
so contents carry a stamp; they may share the array of items or of children with
their predecessor, so each array carries the stamp of the contents it was made
for. A node is named by its level and its rank. `root` is the head node, replaced
by a CAS too. `my[t]` has the locals of the nested functions in one record.

A step is one read of the contents of a node (or of the head) or one CAS. The index that
`search` returns is determined by the contents and the key, and is computed where it
is needed. `randomLevel` gives any height of `Heights`; the code draws height h
with a chance of about 1 in 32^h, and publishes it in slot `FIRST + height` of rows
that have room up to height 5. All of
`traverseLeaf`, `traverseNonLeaf`, `insertLeafLevel`, `splitOneLevel`,
`insertOneLevel`, `increaseRootHeight`, `removeFromNode`, `pushRight`, `cleanLink`,
`cleanNode1`, `cleanNode2`, `cleanNodeN`, `goodSamaritanCleanNeighbor`,
`shiftChild`, `slideKey` and `deleteSlidedKey` is there. A branch that cannot be
taken is left out: the retry of `insertLeafLevel` with a key beyond the node
(`MultiwaySearchTree.hpp:1596`), for `traverseLeaf` and `moveForward` have gone
past such nodes and contents do not change.

`released` is a bag of what the winner of each CAS gives back, by node, part and
stamp: the contents, and the arrays that the new contents do not share. As in the
AVL trees, `Forget` drops what nobody can name any more when no call is left.

### Memory

Steps interleave in one order that all threads see. `__sync_bool_compare_and_swap`
is a full barrier, and the README of the repository limits the code to Intel processors
and GCC. The nodes of the AVL and the counter-based tree have plain fields, read without locks; the model takes
each such read and each store as one step, in program order. Plain stores that a compiler or the store buffer delays past a later
read are not modelled; this concerns `publish`, which is a plain store without a
barrier, so `HazardSafety` is about the algorithm and not about that reordering.

## 3. The runs

| Run | Instance | Distinct states |
|---|---|---|
| `hazard` | 2 threads, 1 slot, no prefill, 5 nodes, 1 local pointer; nodes symmetric | 637,728 |
| `hazard_late` | the same with 3 local pointers; one thread scans, the other publishes late; violated | |
| `nbbst_pair` | 2 threads, keys 1 and 2, three calls of any kind; fair for thread 1 | 47,654 |
| `nbbst_trio` | 3 threads, keys 1 to 3, two in the tree at first, one call each | 578,190 |
| `skiplist_pair` | 2 threads, 2 levels, keys 1 and 2, three calls of any kind; fair for thread 1 | 116,569 |
| `skiplist_trio` | 3 threads, 2 levels, keys 1 and 2, one call each | 534,404 |
| `avl_pair` | 2 threads, keys 1 to 6, eight trees, one call of any kind on keys 1 to 3 each; fair | 323,070 |
| `avl_trio` | 3 threads, keys 1 to 5, a tree with a routing node, one call each | 274,741 |
| `lfmst` | 2 threads, keys 1 to 3, two trees, heights 0 and 1, one call against two; fair for thread 1 | 143,712 |
| `cbtree` | 2 threads, keys 1 to 4, eight scenarios, one call each; fair | 141,535 |
| `cbtree_lost` | 2 threads, keys 1 to 4, one call against two; violated | |
| `cbtree_stuck` | 2 threads, keys 1 and 3, one call each; fair; violated | |

**hazard** checks `UniqueOwner` (no leak, no double), `HazardSafety`,
`ScanCovers`, `ScanLeavesFew`, `ImplementsNodePool` and `CallsAreBounded`. Five
nodes are the least that make a scan possible, for a scan starts with more than
(1 + 1) * 2 released nodes, and the runs with a mutated definition confirm that
scans with referenced and unreferenced candidates happen. Deadlock is checked.
Rows of several slots and prefilled queues are a matter of the theorems, which
hold for every size; that a call of a thread that keeps running returns follows from
`CallsAreBounded`.

**nbbst_pair** and **skiplist_pair** let a thread make two calls under the
single call of the other one, with every combination of operations; `Live` is
the other one. The first thread can stop for ever after any of its steps, with
a flag set or a node marked. Two calls are needed to bring a stale word, child
or predecessor back into play.
**nbbst_trio** puts three operations on two adjacent parents, the smallest tree
in which a flag of one operation obstructs the mark of another, a third thread
helps, and the second backs off. **skiplist_trio** makes two removes meet on one
node while an add links a predecessor, or adds the same key again; that the list is a
set there too is left to the theorem.

**avl_pair** starts from the trees that one more key rotates, once or twice, to
either side, from a tree whose root gets its second child while it is removed, and
from a routing node. Three keys are enough for each kind of rotation, six for a
double rotation whose inner grandchild has a child, which changes its parent.
**avl_trio** is the least in which a node has a stale height and no children left:
both children of a routing node are removed, neither repair has begun, and a
third thread rebalances the parent (`NoInner`, the test of the address of a lock
at `AVLTree.hpp:640`); or the third thread gives the node its value back.

Every call starts from a structure built by the same actions (`Setup`), after
which the threads make the calls of their `Menu`, at most `MaxCalls` each. The
system stops when the calls are used up, so these runs do not check deadlock;
that a started call can go on is what `LiveCallsReturn`, `NoDeadlock` and
`LastCallReturns` say.

**lfmst** starts from a flat tree, whose root grows and whose leaf splits, and from
a tree of three levels in which a remove has emptied a leaf: that is what
makes links and children be cleaned, children be shifted and items slide. One
thread adds or removes the key in the middle and may stop for ever; the other one makes
two calls of any kind, so that it comes back to a tree that is split halfway.
Three keys give nodes with one, two and three items, the three cases of
`cleanNode`.

**cbtree** starts from every tree of up to three keys that differs for the code: the
empty tree, in which a remove can count before the add it follows; one and two
keys, where both threads splay; a routing node; three keys, where rotations happen
on two levels under a remove. `Threshold` is 1 instead of 15, so
that a tree of two elements counts in batches, and a batch is of two. The
combinations that reach the losses described below are left to **cbtree_lost** and
**cbtree_stuck**: a remove of an upper node, or of a node that is being splayed,
under a rotation below it. So **cbtree** shows the set property for its eight
scenarios and for no more.

**hazard_late**, **cbtree_lost** and **cbtree_stuck** are the findings:

* `ScanFindsFree` fails when the other thread holds three pointers outside its slot.
  One thread releases five nodes and still has one of them in its slot; the other one
  has a node in its slot and has read the other three in time. It publishes each of
  these just before the scan comes to the node, so all five are kept. The client of
  this run is `LateSpec`, restricted to the steps that matter. The descents of the
  trees hold three or four pointers, and some publish several one after the other
  (`CASChild`, `NBBST.hpp:401`); whether one of them meets this very order is not
  settled here.
* `ImplementsSet` fails for the counter-based tree. From a tree of 2, 1 and 3, one
  thread removes 1 while the other adds 4. The rebalancing of the add reads the
  parent of the parent without a lock; before it has the locks, the remove unlinks
  the node that it has read. An unlinked node keeps its links, and the test under
  the locks, whether the parent is still its child (`CBTree.hpp:903`), succeeds.
  The rotation hangs the subtree below the unlinked node. From then on
  `contains(3)` is false, a key that nobody has removed, and `test.cpp:241` asserts
  that such keys are found. `AVLTree` locks the parent, and looks at its version,
  before it rotates.
* `LastCallReturns` fails for the counter-based tree. From a tree with the key 3, one
  thread adds 1 and, having given back the lock, splays the new node; the other one
  removes 1. `SemiSplay` (`CBTree.hpp:673`) repeats until its node is at the root. The
  unlinked node keeps its parent but is no child of it, so under the locks there is
  nothing to rotate, and the loop starts over. The other call has returned, the
  first one never does, unless its node is recycled; `test.cpp:250` joins such threads.

Two observations in the AVL tree are not findings, for nothing in the repository
says otherwise. Repairs of two threads can leave a node whose children differ in
height by two: a thread that has raised a node looks at the parent without a lock,
sees a height that fits and ends, while another one is about to store a height of the
parent that it has computed before. The set is not affected, only the cost of a
descent. And a rotation can leave a routing node with one child, which `nodeCondition`
would unlink (`AVLTree.hpp:523`); it goes when a later repair passes it.

Properties of the trees, besides `ImplementsSet` and `LiveCallsReturn`:

* `SearchTree`, `LevelsAreOrdered`: the shape, at every moment; in the AVL and the
  counter-based tree when no thread is between two stores of a rotation or an
  unlink. In the skip list the pointers of every node lead to larger keys, and the
  upper levels may lag behind: a node there is on level 0 too, or is marked. In the
  multiway tree the link of a node leads to larger items, and an inner node shares
  an item with its neighbor only while it slides over.
* `PathsLead` (multiway tree): at every moment the search for each key from the
  root, and from the node where any thread is, ends in the leaf where the key
  belongs, through splits that the level above does not know yet, and through
  children and links that `pushRight` has moved. `NodesGiveUpKeys` (action
  property) is why: the upper end of a node never grows, so a traversal may always
  go right and never has to go back.
* `LinksAgree` (AVL tree): the links of all nodes, linked or not, when no store is to
  come. Whoever has locked what and whatever a thread read before, no node has two
  parents, and no link leads to an unlinked node.
* `UpdateProtocol` (action property): an update word goes from clean to a flag
  or mark of an operation and back to clean for the same operation only; a
  marked word is final; a child changes only under the flag of the operation
  that changes it. `NextProtocol` is the same for marked pointers.
* `ReleasedOnce`: what the manager cannot check for itself, see `UniqueOwner`. In
  the multiway tree it is about contents and their arrays too: what is given
  back is given once, and is no part of the contents that a node has.
* `ReleasedIsGone`: what is given back can no longer be met from the root, with
  the two provisos below.
* `ValidPathIsSearchPath`: what a version is for. While a node has the version
  that a descent has read, the search for its key leads through the node.
* `SizeIsRight` (counter-based tree): `size`, the sizes of the threads and what
  they have still to count add up to the number of keys, however the counting
  interleaves. How close `logSize` is to the logarithm the code does not promise.
* `NoDeadlock` (AVL and counter-based tree): among the calls in progress one can go
  on: no circle of threads that wait for each other's locks, though rotations turn
  the order of parent and child around, and no lock that its holder has forgotten.
  A splay that has come to the bound `Exhausted` counts as one that can go on.
* `LastCallReturns` (the same trees): when all the others have returned a call returns,
  whatever they have left behind: no version that stays changing, no unlinked node
  or stale height that it tries again for ever.

Where the code gives a weaker guarantee than one might expect, the properties
say no more than what holds:

* NBBST releases the removed leaf when its parent is marked, before the parent
  is unlinked (`NBBST.hpp:358`). It is out by the time the helping functions
  return, and a thread recycles only what it released itself, at its next
  request; `ReleasedIsGone` is stated for that moment.
* In the skip list a node can be released while an upper level leads to it: the
  `add` that created it may still be linking those levels (`SkipList.hpp:133`),
  or link its node in front of a node that is being removed, for it does not
  renew its own pointer after a failed CAS (`SkipList.hpp:136`). `ReleasedIsGone`
  is stated for level 0.

### Fairness

In the lock-free modules the steps of a thread are weakly fair, where fairness is
assumed at all: the code waits for nobody there, and the scheduler of the system runs
every runnable thread in the end. In their trees it is assumed only for the
threads in `Live`, so `LiveCallsReturn` is the non-blocking property: a stopped
thread cannot hold up a running one. With a bounded number of calls this is
what lock-freedom guarantees: each retry is the success of another operation.

In the AVL and the counter-based tree a step is disabled only while another thread
has the lock that it needs, and the steps are weakly fair too: all threads run, and
nothing is assumed of a mutex that others take and give back again and again, for the
standard promises nothing of `std::mutex`. So nothing is claimed of calls that run
beside others for ever. They need not return: a thread that finds a stale height
retries under the locks that the thread which has to repair it is waiting for, and
two splays can take the root from each other without end. In `CBTree` each of their
turns rotates a node down, so the second execution is cut off at `Exhausted`, which
only stops a thread while another call is in progress.

## 4. The proofs

`HazardManagerProofs` proves, from `ParameterAssumption` alone (at least one
thread and one slot, as the `static_assert`s of the class demand; `Nodes` may be
infinite):

1. `TypeCorrect`: `Spec => [](TypeOK /\ UniqueOwner)`. Lemmas on the three queue
   operations (`PushBack`, `PopFront`, `Erase`) say which nodes a queue holds
   afterwards and that it stays free of doubles; each action then moves one node
   from one place to another.
2. `HazardsAreSafe` and `ScansAreSound`: `[]HazardSafety` and `[]ScanCovers`.
   `HazardSafety` is not inductive: the step `Unreferenced` recycles the candidate
   after looking at the last slot only, and nothing in `HazardSafety` says what
   the earlier slots hold. The invariant `HazardInv` adds `ScanCovers`: no guarded
   slot that the scan has passed holds the candidate. It is kept because a slot
   becomes guarded only with a node in use, while the candidate is retired, and
   the two are disjoint by `UniqueOwner`.
3. `ManagerImplementsNodePool`: under the refinement mapping each step is one
   step of `NodePool` or a stutter: `publish` of a live node is `Protect`, of a
   stale one is `Drop`; the scan reclaims at `Unreferenced`; `EndScan` allocates.
4. `CallsBounded`: `StepsLeft`, the number of comparisons or stores that a call
   still has to make, falls with every step of its thread and is untouched by the
   others. So the manager is wait-free, without an assumption on fairness.
5. `ScansLeaveFew`: `[]ScanLeavesFew`. The proof counts. The suspects of a scan of
   `t` are the released nodes of `t` that it has kept, and those which a slot or a local
   of another thread still names. They are no more than `PointerCount`, the slots of all
   rows and the locals of the others: that many pointers are all there are when the scan
   begins, and from then on a step can only take a suspect away, since nobody can read a
   released node anew and a node is kept because a slot names it. At the end of the scan
   the suspects are what is left in the queue.

`SkipListProofs` proves from `SkipListAssumption` (the keys
of the calls lie strictly between those of the sentinels, at least one level;
threads and keys may be infinite):

1. `TraversalsStayOnLevels`: `[]TypeOK`, and what the code relies on silently: a
   traversal never steps past the tail, and never follows a pointer at a level that
   the node does not have (`LevelsEnd`, and `Walks`, `Paths` and `Marks` for each
   thread). These are parts of the inductive invariant `SkipListInv`, which is
   made of `LevelsEnd` (the pointers of a node lead to nodes that have the level;
   the tail is never marked), of `NamesAreRanks` (a new node is new), and of four
   parts for each thread: `Walks` (where a traversal is; the successor that it is
   about to snip is frozen by its mark), `Paths` (`find` leaves a place for a link
   at every level that it has done), `Links` and `Marks` (the node of the call has
   the level that is being linked or marked, and is marked above it). Most
   steps change one thread and at most one pointer; `Preserves` and `OthersKeep`
   say once what that means for the rest of the invariant.
2. `PointersFollowProtocol`: `Spec => NextProtocol`, case by case over the five
   CASes. The snip is the case that needs the invariant: the code has read the
   mark of the successor some steps ago, and `Walks` says that it still holds.
3. `NodesAreReleasedOnce`: `[]ReleasedOnce`. Nothing in `ReleasedOnce` says why two
   removes do not release the same node; `OwnersDiffer` adds that the thread which
   is snipping its node has marked level 0 of it, that no two threads snip the
   same node, and that none snips a released one. A new owner comes
   from `MarkBottom`, whose node was not marked before, and hence has no owner.
4. `KeysAreOrdered`: `[]KeysAscend`, the first part of `LevelsAreOrdered`. The places
   in `preds` and `succs` may be stale, but the keys of nodes are constant
   (`KeysFit`), and a CAS compares the successor that was remembered; so a node is
   linked between the keys that `find` has seen, wherever the list has gone since.
   The snip composes two pointers that are both ordered.
5. `ListIsASet`: `Spec => ImplementsSet`, linearizability. What level 0 leads to is
   defined without recursion, as the smallest set with the head that is closed under
   `next` (`From`); the lemmas say what is ahead of a node in a sorted list, and how
   a link (`Inserted`) and a snip (`CutOut`) change it. The contents are then the keys
   of the nodes that are not marked at level 0 (`Kept`: such a node is never off
   level 0). So `Link` is the only step that adds, and its key was not there, for it
   links between two neighbours that are the smaller and the larger; `MarkBottom` is
   the only one that removes. The answer that is hard to justify is the `FALSE` of a
   `contains` or a `remove`: the traversal reads pointers of nodes that are marked or
   unlinked meanwhile. `Leads` says that a node of the key that was in the set at every
   moment of the call is still ahead of the place of the search. It holds because no
   step takes a node that stays on level 0 from what is ahead of any other node, the
   unlinked ones included (`Moves`), because a node that is passed has a smaller key,
   and because a node that was unmarked at some level when it was passed is
   in the set (`MarksDescend`: marks come from the top). If no such node exists, the call
   has observed a set without the key (`Observes`), and may return `FALSE`.
6. `LevelsStayOrdered` and `ReleasedAreGone`: `[]LevelsAreOrdered` and
   `[]ReleasedIsGone` from the same invariant `SetInv`. `Leads` is about the last `find` of
   a `remove` too: had its own node still been on level 0, the search would have met it.

`NBBSTProofs` proves from
`NBBSTAssumption` (keys are integers strictly between those of the two sentinels; threads and keys may be infinite):

1. `UpdateWordsFollowProtocol`: `Spec => UpdateProtocol`. Nothing in a CAS says that
   the operation it works for is still under way: a helper may come back with the
   frame of an operation that ended long ago, when others have flagged the same nodes.
   Four facts make its late CASes fail, or do no harm, and they are the parts of the
   invariant `NBBSTInv`:
   * A word names its operation, and a word that was read clean does not come back as
     a flag of the operation it names (`Remembered`), since every operation has an
     Info of its own. So a word that is equal to the one read before the child was read
     has been there all the time, and the child too (`Follows`).
   * `AddInv`: the new node of an add is unseen and the flag is on the parent
     (`Pending`), or the leaf is below no node but removed ones (`Replaced`), and will
     never be below its parent again. The keys of the leaf and of the new node are on the same side of
     the parent, so that `CASChild`, which chooses the side by the new key, looks where
     the leaf was.
   * `RemoveInv`: as long as the parent can still be marked, the flag is on the
     grandparent and parent and leaf are in place; once it is marked, the flag stays
     until the parent is out (`Cut`). A remove that may take its flag back can never
     be marked any more, whoever tries.
   * The shape: `KidsAreOrdered`, `OneParent` (two nodes share a child only if one of
     them was removed), `DeadBelowDead`, and `SpineEnds` (below the left spine there is
     a leaf of the smallest key, so a leaf with a key of a call has a grandparent:
     the code dereferences `search.gp` without a test).
   `FrameSet` and `ThreadInv` say what each activation of `Help*`, and each place in
   `add` and `remove`, may rely on; `Grows` is what no step undoes, and `OthersStay`
   carries the threads that do not move through it. Then one lemma for each kind of
   CAS (flags, mark, unflag, the two swaps of a child) keeps `GlobalInv`, one lemma
   for each action the rest.
2. `TreeIsWellFormed`: the shape, for a reader of the code.
3. `TreeIsLinearizableSet`: `Spec => ImplementsSet`. `Contents` is a recursive function of
   the tree; the proof reads it off the search paths instead. `Path` and `Below` are the
   smallest sets closed under the child for a key, and under both children;
   `Ranked` (ranks fall from parent to child) makes every path end in one leaf, and
   that leaf decides whether the key is in (`LeafDecides`). The invariant
   `SetInv` adds to `NBBSTInv`:
   * `TreeInv`: below a node all keys are on their side (`Ordered`), an internal node is
     in the tree, removed, or waits for its add (`LiveIsIn`), and the new node of a
     pending add brings the leaf it replaces and the new key, below the node where the
     search for that key arrives (`NewTrees`). `MarksHold` says that the flag of
     a remove stays on the grandparent until the marked parent is out.
   * `OwnersHelp`: an operation that has not had its effect is still run by the thread
     that began it. So the CAS of a child, whichever helper does it, gives the
     answer `TRUE` to a call in progress, and to one that has no answer yet
     (`OwnInv`): no operation takes effect twice or after its call.
   * `Sees`: a search may walk through nodes that were cut off under it, or read a
     parent long ago. On its way every internal node is dead or on the
     path of the key, and a leaf shows what the set held at some moment of the call.
     That justifies the answers that change nothing.
   The steps are sorted by what they do to the tree: two of them swing a child (`SwapSet`),
   and for all others `CalmFacts` says that paths and contents stay.
4. `TreeIsSearchTree`: `[]SearchTree`, from `Ordered`: the recursive function that the run
   evaluates is unique because the ranks fall, and has the keys of `Below`.
5. `NodesAndInfosAreReleasedOnce` and `ReleasedIsOut`: `[]ReleasedOnce` and
   `[]ReleasedIsGone`. `ReleaseInv` says of all that was given back that it is out for
   good (`Out`): an Info is named by marks only, an internal node is removed, a leaf is below
   removed nodes or below the parent that was marked for its removal. What a
   winner of a CAS gives back was not out before it, so nobody has given it
   back. Two cases do not fit this scheme. The Info that an add replaces by its flag is given
   back only when the flag is taken away (`Owed`: nobody else gives it back in between). And the
   leaf of a remove goes at the mark, before it is out of the tree; `Unlinks` says
   that the thread which gave it goes on to unlink the parent, and so it is out when
   that thread leaves the helping functions.
6. `TypeCorrect`: `[]TypeOK`. The types of the locals are read off the three
   invariants: a descent never leaves the tree, and no function of `Help*` meets an
   Info that is not there.

`AVLTreeProofs` proves from `AVLTreeAssumption` (keys are integers, the smallest is not
a key of a call; threads and keys may be infinite):

1. `TypeCorrect`: `Spec => []TypeOK`. No descent, repair or rotation uses a node that is
   not there: neither the grandchild of a rotation, which the code tests by the address of
   its lock, nor the parent of a node that is being repaired, read before it is locked.
2. `LinksAgreeAlways`: `[]LinksAgree`. A rotation changes the links of up to five nodes,
   a store at a time, and several are under way at once, so no statement about
   the links of the moment is inductive. The invariant `AVLInv` is about the final links,
   those that the tree will have when the stores to come are done: there is a function `F`
   from the nodes to links (`FinalLinks`) to which every store to come leads, from which
   `tree` differs in nothing but what a store to come changes (`Reaches`), and which agrees
   in itself (`Agree`). A store leaves `F` as it is; only the steps that plan the stores of an
   unlink or a rotation change it, all at once (`AfterUnlink`, `AfterRotate`,
   `AfterRotateOver`; that these keep `Agree` are lemmas about functions alone). For that
   the planning thread must see the final links of the nodes it moves, while others
   store beside it. `StoresAreLocked` says who may: left, right, version, value and height
   of a node are stored under its lock, the link to its parent under the locks of the
   old and the new parent. `FixInv` says what a repair has locked and seen at each place, so
   that what it has read under locks still holds when it plans (`StillHolds`), and `PathInv` and
   `CondInv` say it of a descent and of `nodeCondition`.

`CBTreeSizeProofs` proves of `CBTreeSize`, for finitely many threads, batches of any size
and any environment that adds and removes one element at a time (`SizeSpec`):

1. `SizeIsAlwaysRight`: `SizeSpec => [](SizeTypeOK /\ SizeIsRight)`. Each step moves an amount
   between what one thread has outstanding and `size` or `elements`. That the sum
   over the threads then changes by that amount is `SumChanges`, about the recursive
   definition that the run evaluates; where an induction over sets would be
   needed the lemmas take a smallest set for which the claim fails (`SmallestSubset`).
2. `SizeIsClose`: when no thread has anything left to count, `size` is off by
   at most `NThreads - 1` for each thread, which is how far `logSize` can be wrong
   about the tree for good.

`MultiwaySearchTreeProofs` proves from `MultiwayAssumption` (keys are integers
strictly between `EMPTY` and `INF`, as the flags -1, 0 and 1 of a `Key` order them;
threads, keys and heights may be infinite):

1. `TypeCorrect`: `Spec => []TypeOK`. Nothing in the code tests that a traversal has a
   node to go on with: `pushRight` follows the link of an empty node without asking whether
   there is one, `cleanNode` indexes the children with what it computed from the items.
   `Shape` says what makes this safe, for the contents of a node of level `l`: the items
   ascend, an inner node has as many children as items, all of level `l - 1`, and the link is
   missing exactly if the last item is `INF`. The lemmas `AddedShape`, `RemovedShape`,
   `WithLinkShape`, `AdjustedShape`, `LeftPartShape` and `RightPartShape` prove it of
   every array helper. `INF` is never removed because the helpers only remove an item of
   contents that hold another one for the key (`FoundIsNotLast`, `LastItemFacts`).
   The rest of the invariant `MultiwayInv` says of every place in the code what a call
   relies on there (`Placed`): the contents that it read, however old, still have the
   `Shape` of the level of their node (`ShapeGrows`: nodes are only added), what it pushes
   right is of the level at which it will be stored, and an add has results for all the
   levels that it will raise its key to. `Grows` is what the steps of the others leave: more
   nodes, and a link that never goes away again.
2. `GivenBackOnce`: `[]ReleasedOnce`. Contents share arrays, so what the winner of a
   CAS may give back depends on what it replaced. `ReleasedInv` says that all that was given
   back of a node is older than what the node has now, part by part; `AgesWell`, proved of each
   CAS for exactly the parts that it gives back, keeps it.
3. `OnlyGivesUpKeys`: `Spec => NodesGiveUpKeys`, from `Shape` again: a key is added where it is
   not beyond the last item, a split and a slide move the end to the left, a node whose
   last item is gone ends earlier.

`MultiwayOrderProofs` goes on with the order of the tree, from the same assumption: how the
nodes lie, and what a split or a change of one node's contents keeps of that.
`MultiwaySetProofs` has the steps that change contents, and the theorems.

4. `OrderInvariant`: `Spec => []MultiwayOrder`. `LevelsAreOrdered` is far from inductive: what
   makes a link or a child right is the whole row of nodes before the one it leads to, those
   that no link leads to any more included, because a late call may still be in them. So the
   invariant says that there is a numbering `p` of the nodes, ascending along each level, with
   * `LinksLead`: a link leads forward, and only over empty nodes;
   * `ItemsLead`: a node ends before the next one that is not empty begins, or, above the
     leaves, with the same item;
   * `ChildrenLead`: the child for an item `v` is not too far to the right (`Promise`): what ends
     before the child is no larger than an item of the level above that is smaller than `v`;
   * `RootLeads`: the root, and the first node of its level, is before all the others.

   A split puts its new node directly after the old one (`DoubledRow` renumbers); nothing
   else changes the row. `CallsSound` says what each call relies on where it is: the search is
   not beyond its key (`OnWay`); the place that `pushRight` went to may be linked or stored
   because only empty nodes, or nodes that end before the barrier, are skipped (`LinksWell`,
   `PushedWell`); a slide of the last item of a node to its sibling or nephew finds it after
   everything smaller (`SlidesWell`, `CarriesWell`), and it drops the item here only when it has
   arrived there (`Covered`). The hard case is `cleanNode` dropping the item before the last one
   of a node whose last item is sliding at the same time: two children stand for the last
   item, the one here and its copy there, and `TwinsKeep` and `SlidesKeep` say that the copy does
   not lead before the nodes that the dropped item covered.
5. `LevelsStayOrdered`: `[]LevelsAreOrdered`, from `LinksLead` and `ItemsLead`.
6. `TreeIsLinearizableSet`: `Spec => ImplementsSet`. The effect of an add or a remove is the CAS of
   a leaf, and that of a call that changes nothing is the read after which its answer is
   known. The order says that the key can be in this leaf only (`OnlyHere`), so its items decide
   whether the key is in the tree; splits, slides and cleanings move items and keep
   the set of the keys in the leaves. `AnswersHold` says which calls have had their effect, and
   that a late call, which is still raising its key to the levels above, has its answer.
7. `PathsLeadToLeaf`: `[]PathsLead`. The search for a key is a recursive function on the nodes, which
   TLC evaluates. That there is one, for any number of nodes, is proved level by level,
   and along a level from the right to the left: among the nodes from which the search would
   not end at the leaf of the key there would be a last one, and it would lead on.

A theorem names the property of the runs that it proves; its invariant was
checked with TLC on the instances of the runs before it was proved, `MultiwayOrder`
with a history variable for the numbering.

Only model-checked: that the AVL tree is sorted, is a set and has valid search paths,
everything about the nodes of the counter-based tree, and the liveness properties and `NoDeadlock`,
which are outside the prover's reach, as `ENABLED` is. `SearchTree` and `SizeIsRight` of `CBTree` are facts about the instance of
**cbtree** and could not be theorems of that module: where keys can be lost, as in
**cbtree_lost**, a lost key can be added again and counts twice. So the theorems on
the size are about `CBTreeSize`, with the updates of a tree that loses nothing.

## 5. Not modelled

* Recycling in the trees: their nodes are always new, as if a node never came
  back while a thread can still name it. The trees do not guarantee this, because they
  publish without validating.
* The destructors, which run when one thread is left, with `direct_free` and
  `direct_local`; allocation failure.
* The publications of the AVL, the counter-based and the multiway tree, which decide
  what is recycled and not what a call does; for the same reason the trash
  of the multiway tree, in which `pushRight` keeps nodes for the destructor.
* The values of the counters of the counter-based tree, and so its cost.
* Negative keys and the extreme keys: the tests draw keys from 0 to `INT_MAX - 1`,
  and the models take keys strictly between those of the sentinels.
* The drivers, the benchmarks and the result files.

## 6. Plan

The five trees and the manager are modelled; what would add most next:

1. NBBST and SkipList composed with `NodePool`, so that nodes come back: which of
   the publications protect, and what `test.cpp` asserts of the fixed points.
2. `AVLTree` and `CBTree` with their publications: a bound on the slots that
   `publish` counts up (six exist, the double rotations want up to eight), and
   larger trees, in which the rotation of a child in the other direction
   (`AVLTree.hpp:657`) comes up.
3. `MultiwaySearchTree` with three threads, and with two levels drawn in the
   contended calls: two index levels that grow at once.
4. Proofs: `SearchTree`, `ValidPathIsSearchPath` and `ImplementsSet` of the AVL tree, with the
   keys between which each node lies as part of its final links; type correctness of `CBTree`
   along the same invariant.
5. `ScanFindsFree` with a client that publishes in the order of each tree.
