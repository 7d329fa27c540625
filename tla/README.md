# A verification development of MultiQueues

The program computes shortest paths in parallel. A main thread reads a weighted
undirected graph, puts the source into a shared relaxed priority queue (a
*MultiQueues*), starts `NUM_OF_THREADS` threads that take offers
(vertex, distance) from it and relax edges, joins them, and writes the
distances. Memory of the offer records is reclaimed by the DEBRA epoch scheme
of the record manager in `src/recordmgr/`.

This directory holds TLA+ modules translated from that code, the
configurations with which TLC checks them on small instances, and proofs that
TLAPS checks for every value of the constants.

## 1. Inventory

| Component | Source | State | Operations | What makes it correct |
|---|---|---|---|---|
| MultiQueues | `MultiQueues.cpp/.h` | `queues[]` (heaps), `locks[]`, atomic `numOffers` | `insert`, `deleteMin`, `is_empty` | an offer is in one place; the counter never drifts; `extractMin` never meets an empty heap; `deleteMin` answers false only when there is nothing; calls return |
| Parallel Dijkstra | `ParallelDijkstra.cpp/.h` | `distances[]`, `offers[]`, a mutex per vertex for each, `done[]`, the threads' locals | `dijkstra_shortest_path`, `parallel_Dijkstra`, `relax`, `finished_work` | no thread gives up while work is left; no improvement is dropped; distances only improve; the result is the shortest distances; all threads return |
| Input and graph | `main.cpp`, `Graph.h` | `G->vertices[]`, `neighbors`, `index` | reading the file | `index` identifies a vertex |
| d-ary heap | `dAryMinHeap.cpp/.h`, `Heap.cpp/.h` | array, `index`, `capacity` | `insert`, `extractMin`, `findMin`, `isEmpty`, `increase_size` | the minimum is at the root, no element is lost; unlocked readers get something harmless |
| Allocator | `Allocator.cpp/.h` | one global record manager, a mutex | `allocate`, `retire`, per-thread quiescence | a record is not reused while another thread can still reach it |
| DEBRA reclaimer | `recordmgr/reclaimer_debra.h` | `epoch`, `announcedEpoch[]`, `checked[]`, three limbo bags per thread | `leaveQuiescentState`, `enterQuiescentState`, `retire`, `rotateEpochBags` | a retired record outlives every operation that was running when it was retired; `checked` stays inside the array |
| Record manager front end | `record_manager*.h`, `allocator_new.h`, `pool_none.h`, `globals.h` | a tuple of per-type managers | dispatch | each call reaches the manager of its type once |
| Block bags and block pool | `blockbag.h`, `blockpool.h` | linked lists of blocks of 256 pointers, a bounded cache of free blocks | `add`, `remove`, `moveFullBlocks`, `appendMoveFullBlocks`, iterators | the head block is never full; no element is lost or doubled by a move |
| Lock-free bag, shared pool | `lockfreeblockbag.h`, `pool_perthread_and_shared.h` | tagged head | `addBlock`, `getBlock`, ... | a block is handed to one thread (no ABA) |
| Hazard pointers | `reclaimer_hazardptr.h`, `arraylist.h` | a list of announcements, a list of retired records and a set per thread | `protect`, `unprotect`, `enterQuiescentState`, `retire` | a protected record is not freed; a scan makes room |
| DEBRA+ and crash recovery | `reclaimer_debraplus.h`, `recovery_manager.h` | as DEBRA, plus announcements, signal masks and the point to jump back to | as DEBRA, neutralizing a stuck thread, recovery, `qProtect`, `qUnprotectAll` | a stuck thread does not stop reclamation; nothing is freed under a thread that is running, and nothing announced under one that recovers |
| Hash tables | `hashtable.h` | tables with linear probing | `insert`, `contains`, `clear` | a set |
| Bump/once allocators, no-op reclaimer, debug helpers | `allocator_bump.h`, `allocator_once.h`, `reclaimer_none.h`, `debug*.h` | arenas, counters | | |

How they interact. The threads share everything by memory. `relax` calls
`MultiQueues::insert` while it holds the mutex of `offers[v]`, and briefly takes
that of `distances[v]` inside it; `insert` and `deleteMin` only ever `try_lock`
a heap's mutex in a loop; `insert`, `deleteMin` and `relax` call the Allocator,
which forwards every call to the record manager: `allocate` and `free` (retire) under
one mutex, `enterQuiescentState` and `leaveQuiescentState` without it. Nothing is a message, nothing is persisted, and nothing crashes and
restarts.

What is hard here: unlocked reads of the heaps' size and root followed by a
`try_lock` of the queue they led to (and sometimes of a queue chosen
iterations ago); a counter updated outside the locks; a termination test that
reads flags one after the other, some of them uninitialized; offers consumed in
almost any order; records reused under a reclaimer whose calls are placed at
the wrong ends of the operations; and, in the reclaimers the program could be
built with, lists of announcements read while they change, and threads that are
interrupted anywhere by a signal. `PROJECT.json` lists every such place as a
hazard, at its line, with the property that covers it or the reason why none does.

## 2. The modules

| Module | Models | Builds on |
|---|---|---|
| `OfferPool` | the specification of class MultiQueues: a pool of offers; what the rest of the program relies on | |
| `MultiQueues` | `MultiQueues.cpp`, one step per access to shared memory | refines `OfferPool` |
| `MCMultiQueues`, `MCMultiQueuesLive` | instances for TLC | `MultiQueues` |
| `MultiQueuesProofs` | safety and refinement, proved | `MultiQueues` |
| `ParallelDijkstra` | `ParallelDijkstra.cpp` | `OfferPool` in place of the queue |
| `InputGraph` | what `main()` builds from the lines of the file; the reference definition of shortest distances | |
| `DijkstraProgram` | `ParallelDijkstra` on the graph that `InputGraph` builds, and what depends on both | both |
| `MCParallelDijkstra` | graphs for TLC | `DijkstraProgram` |
| `ParallelDijkstraProofs` | soundness of the termination test, types, monotone distances, no lost offers, no circular wait, the shortest distances at the end, bounded sums, proved | `DijkstraProgram` |
| `PriorityQueue` | the specification of one heap | |
| `DaryHeap` (`MCDaryHeap`) | `dAryMinHeap.cpp`, `Heap.cpp`, one step per write to the array, and an unlocked reader | refines `PriorityQueue` |
| `DaryHeapProofs` | types, no comparison with nullptr, refinement, what an unlocked reader sees, proved | `DaryHeap` |
| `GracePeriod` | the specification of an epoch based reclaimer | |
| `Debra` | `reclaimer_debra.h` | refines `GracePeriod` |
| `Announcements` | `AtomicArrayList` of `arraylist.h` and the loop that collects the announcements of all threads, as operators | |
| `DebraPlus` | `reclaimer_debraplus.h`, `recovery_manager.h` | `Debra`, `Announcements`; refines `GracePeriod` |
| `DebraProofs` | of DEBRA and of DEBRA+: types, safety and refinement, and that announced objects are kept, proved | `Debra`, `DebraPlus` |
| `HazardPointers` | `reclaimer_hazardptr.h`, `ArrayList` of `arraylist.h` | `Announcements` |
| `MCReclaimers` | the three reclaimers on small instances | `Debra`, `DebraPlus`, `HazardPointers` |
| `HazardPointersProofs` | held objects are kept, room to retire, types, proved | `HazardPointers` as instantiated by `MCReclaimers` |
| `OfferRecords` (`MCOfferRecords`) | the life of an offer record: `insert`, `deleteMin`, `relax` and `main` calling `Allocator` | composes the program with `Debra` |
| `OfferRecordsProofs` | reachable records are allocated, and none is left, proved | `OfferRecords` |
| `BlockBag` | `blockbag.h`, its iterator, `blockpool.h`, as operators on a heap of blocks | |
| `RecyclingPool` | the specification of an object pool | |
| `PerThreadPool` (`MCPerThreadPool`) | the bags of one thread from construction to destruction: `pool_perthread_and_shared.h`, `pool_none.h`, the rotation of DEBRA and of DEBRA+ | `BlockBag`, refines `RecyclingPool` |
| `PerThreadPoolProofs` | shape of the lists, places of blocks and objects, scans, destruction, refinement, proved | `PerThreadPool` |
| `SharedBag` | the specification of a shared bag of blocks | |
| `LockFreeBag` (`MCLockFreeBag`) | `getBlock` and `addBlock` of `lockfreeblockbag.h` | refines `SharedBag` |
| `LockFreeBagProofs` | safety and refinement, proved | `LockFreeBag` |

The composition rests on refinement. `MultiQueues` is shown to implement
`OfferPool`, and `ParallelDijkstra` uses `OfferPool` where the code uses
`MultiQueues`. A call of the queue is several steps there too (called, counted,
in the pool, taken, discounted, returned), because `is_empty` can be asked by
others in between. `DaryHeap` is shown to implement the set with a minimum that
`MultiQueues` takes a heap for, and to show an unlocked reader only what
`MultiQueues` allows for. `OfferRecords` contains the actions of `Debra`
themselves, and one thread's calls in the order the code makes them.

**MultiQueues.** `pc[t]` is where thread t is in `insert` or `deleteMin`. A heap
is the set of offers in it. Every unlocked read of lines 74-83 is a step of its
own (`Peeks`, `FindMinI`, `FindMinJ`); a read that races with the owner of the
heap's mutex may return nullptr or anything that passes through the array
(`RootReads`), and a read that races with the replacement of the array
anything at all. Line 83 compares pointers, and so does the model: offers are
numbers, their address, and `dist` maps them to the distance in the record.
`minIndex` survives `continue` and a failed `try_lock` as in the code. An
iteration of a `try_lock` loop that fails and changes nothing is not a step.

**ParallelDijkstra.** `main` and `created` are main's control; `pc[t]`, `curr[t]`,
`edge[t]`, `scan[t]` a thread's. `finished_work` reads one flag per step.
`done[]` starts with any contents, as a `bool done[p]` does, and element i is
set only when thread i is started. A section under `distancesLocks[v]` that
only reads is one step, guarded by the mutex being free; one that writes keeps
the mutex over two steps. Offers are named by the record's contents and the
allocating thread. The writes of `relax` to the record it has just inserted
(lines 46-47) store what is there already, as long as the record has not been
freed; the code does not ensure that, see `late_write` in section 6.

**DaryHeap.** The owner of the mutex writes the array one slot at a time: the
hole of `decreaseKey`, the two halves of `std::swap`, the cleared last slot,
the size. `increase_size` deletes the old array before the pointer to the new one
is stored; between the two, and for a reader that loaded the old pointer,
the array holds anything. (The code then reads freed memory. That it does no
harm to the algorithm is what the models show; that it is undefined behaviour
they cannot.)

**Debra.** Epochs are counted in units of `EPOCH_INCREMENT` and the announced word
is split into epoch and quiescent bit, which change together.
`leaveQuiescentState` is a step per access to what others write: read the
epoch, rotate, read one announcement, compare-and-swap, announce. The history
variable `waits` records, for each retired object, the operations running at
its retirement. The model is sequentially consistent; the code has the
`__sync_synchronize` of `record_manager.h:147` between the announcement and what
follows it.

**DebraPlus.** `leaveQuiescentState` is that of `Debra`, whose actions it uses, except
for the rotation, which may scan the announcements, and for `neutralizeOther`. `pc`
keeps the values it has in `Debra` and `stage` says where a thread is within one of
them, so that the properties of `Debra` are stated once and checked for both.
`Neutralize` is `pthread_kill`: a thread that is not quiescent and does not
block the signal takes no step after it, and its handler runs at any later time
or never. This is what DEBRA+ asks of the operating system; a signal
delivered later than the sender's next step is outside the model. The handler
makes the thread quiescent and jumps back with the signal blocked; `Recover`
unblocks it. A bag is a set: which of the objects that are not announced are
in the blocks that `addMoveFullBlocks` gives away is left open (`Freed`), and how
many there are is what the swaps leave behind (`Kept`).

**HazardPointers.** `add` and `erase` are a write to a slot and a write to the size,
as in `arraylist.h`; the scan reads the size and then slot by slot. The client keeps
the class's rules: it protects no object twice and holds fewer than
`MAX_HAZARDPTRS_PER_THREAD`, since `retire` asserts that (line 228), although
`protect` would allow that many (line 94). `Held` is what `protect` has
confirmed and `unprotect` not begun to give up. `moved` is a history variable:
announcements that `erase` moved to another slot while some thread was
collecting. The callback reads whether the object is retired in one step.
In both modules, memory is sequentially consistent: `protect` and `qProtect` have a
full barrier between the announcement and the callback; the later removal of an
announcement only makes a scan keep more.

**OfferRecords.** The queues are one set of records, the choice of a vertex to
relax is left open, and so is whether the offer is an improvement: any
behaviour of the program's control is covered, with more besides. What is kept is every
allocation, publication, extraction, retirement and quiescence call, in the
order of the code: `enterQuiescentState` at the beginning of an operation and
`leaveQuiescentState` at its end.

**BlockBag, PerThreadPool.** A heap is a record of all `next` fields, block
contents, heads, tails and counts, so that an operator is a translation of the
pointer assignments of its method. `scheme`, chosen initially, stands for the
template arguments: DEBRA with the pool, DEBRA+ with the pool, DEBRA with
`pool_none` (this program), and a reclaimer that erases through the iterator as
the comment at `reclaimer_debraplus.h:211-213` describes it (no class here
does; `erase` is public, and this is its intended use). The loops over bags
are one action per iteration, so that the invariants are checked inside them. The
shared bag is a set here, as `LockFreeBag` justifies; the other threads are absent.
`Blocks` is finite, so `operator new` may find none left: the code does not
handle that (the exception ends the program), and the guards `CanAllocate` and
`CanAdd` say that such a step is not taken. `BagsFit` asks for a block for each of the
two bags the constructors make.

**LockFreeBag.** One step per access to the head or to a `next` field. Blocks that
are not in the bag are rewritten, deleted and reallocated at will (`Use`,
`Reallocate`), so that a late read sees anything; a weak compare-and-swap may
fail for no reason. `stack` is a history variable. Tags are not bounded in the module
(64 bits in the code); `MaxTag` bounds what TLC explores.

## 3. Runs

| Run | Question | Bounds |
|---|---|---|
| `multiqueues` | Do locks, counter and ownership survive every interleaving of the unlocked reads, and do the calls together implement the pool? | 2 threads, 2 queues, 3 offers (addresses), 2 distances, heaps whose array grows at the third element, calls without end |
| `multiqueues_live` | Does every call return? | 2 threads with 2 calls each, 2 queues, 1 offer |
| `smaller_min` | Does `deleteMin` turn to the queue with the smaller minimum? It does not (finding). | 2 threads, 2 queues, 2 offers |
| `dijkstra` | Termination test, no lost offers, monotone distances, sums that stay bounded, right result, and do all threads return? | 3 threads, triangle whose direct edge is the long way, with a weightless edge |
| `isolated_source` | Is the source reported at distance 0? Not when no edge touches it (finding). | 2 threads, 3 vertices, one edge |
| `dary_heap` | Is the array a priority queue at every step, and harmless to an unlocked reader? | binary heap of initial capacity 2, 5 offers, 3 distances: two growths |
| `reclaimers` | DEBRA and DEBRA+: is nothing freed that a running operation may reach, does `checked` stay in bounds, does the epoch advance, with DEBRA+ past a stuck thread, and is what is announced kept? Hazard pointers: is what is held kept, and does a scan make room? | 2 threads; DEBRA 1 object, 4 epochs; DEBRA+ 3 objects, blocks of 1, 1 announcement, 3 epochs; hazard pointers 3 objects, lists of 3, `retired` of 3 |
| `unprotect_race` | Does a scan find every held object? Not one whose announcement is moved meanwhile (finding). | 2 threads, as above |
| `offer_records` | Is every record in the queues and in `offers[]` allocated, and retired exactly once? | 2 threads, 1 vertex, 4 records, 3 epochs |
| `late_write` | Do `relax`'s writes after `insert` reach a record that still exists? Not always (finding). | 2 threads, 3 records, 3 epochs |
| `thread_pool` | Do the lists of blocks stay well formed in every loop and move, is anything doubled, lost or recycled too early? | 6 objects, blocks of 2, block pool of 1, all four schemes |
| `lock_free_bag` | Is the bag linearizable although blocks are reused? | 2 threads, 3 blocks, tags to 5 |

Why the bounds are enough. *MultiQueues: two threads, two queues* give two
actors that race on one heap, a second heap to turn to, i = j and i # j
samples, and a stale `minIndex`; three offers keep a third one in a heap while
both threads hold one, and with two distances the address order and the
distance order disagree. There is no bound on the number of calls, so that
counters, addresses and stale locals meet in every combination; the proofs cover
larger numbers. *Dijkstra: three threads* are the fewest for which one scans
flags while a second works and a third is not yet started; the triangle makes a
vertex be settled twice, with concurrent offers for it, and explored from the
worse distance. The liveness instance for MultiQueues has one offer, which
makes the interesting case certain: a thread that finds the counter positive
and every heap empty. *Heap:* five offers fill three levels of a binary tree,
with a last node that has one child, and go through two growths. *DEBRA:* four
epochs are the fewest in which each of the three bags is reused after having
been filled; `MaxEpoch` stops the run there, hence CHECK_DEADLOCK FALSE (as in
`offer_records` and `late_write`). One object is enough, since objects do not
meet in bags that are freed as a whole. *DEBRA+:* three epochs bring the first bag
back; with blocks of one object a bag of two is scanned (three blocks) and one of
one object arouses suspicion (two blocks), where the code has 4 and 4 blocks of 256.
Three objects fill a bag to be scanned and leave one to allocate. Thread 0
announces and gets stuck, thread 1 allocates and retires, one object at a time.
*Hazard pointers:* a list of three with at most two announcements is the
shortest in which `erase` moves an announcement; `retired` has room for one object more
than can be announced (in the code, five times as many). Thread 0 protects,
thread 1 retires. *Records:* one in a thread's hands per
thread, one in `offers[]`, one in the queues; three epochs allow for a free and a
reuse. *Thread pool:* six objects make three full blocks, enough for a block in the
middle of a list, for giving one away at the threshold (3 in the run, 10 in
the code) and for a DEBRA+ scan over three blocks. *Lock-free bag:* three blocks
and five tags are enough for a block to leave, another to come, and the first to
come back under a new tag, which the mutant without tags turns into a violation.

In `multiqueues_live`, `CallBudget` caps the calls per thread (a thread that has
used its budget stays idle, hence CHECK_DEADLOCK FALSE). Without the cap the
property is not true, and the code does not promise it: a thread can lose every
race for an offer against others that call for ever.

Symmetry is declared over records, blocks and objects where nothing compares
them, and over threads and queues in `multiqueues`; never in a run with a
liveness property.

## 4. Fairness

The threads are `pthread`s: the scheduler runs each again and again, which is
weak fairness of a thread's next step. In `MultiQueues` three assumptions are
stronger, on purpose and only for `CallsReturn`: `rand() % numOfQueues` yields every queue
again and again (strong fairness of sampling queue i, for each i, with some j),
and a `try_lock` repeated in a loop is not failed for ever when the mutex is free again and
again (strong fairness of `LockQueue` and `TryLock`). These are what "with
probability one" becomes in TLA+. `ParallelDijkstra` needs weak fairness only,
since `OfferPool` has already hidden the retries.

`Debra` has less: an operation that has begun ends, and some thread goes on
beginning operations. The others may stay away for ever; that the epoch
advances all the same is what the quiescent bit is for (`EpochAdvances`). In
`MCReclaimers` the thread that goes on is thread 1. With DEBRA+ nothing is assumed of the
other, not even that its handler runs; instead thread 1 must retire now and then
(strong fairness, since it is not always outside an operation), because a
small bag arouses no suspicion. `OutOfObjects` is the end of the instance: no object is
left to retire and the current bag is too small to suspect anyone; the code's
allocator always has another object.

## 5. What is proved

`MultiQueuesProofs`, for every finite set of addresses and any sets of threads,
queues and distances:

* `TypeCorrect`, `HeapsAreExclusive`, `CounterIsExact`, `OffersAreInOnePlace`,
  `ExtractsFromNonEmpty`: the safety invariants of the run `multiqueues`. The
  strengthening relates a thread's control state to its locals (an index is
  valid where it is used, the hand holds an offer where it is owned) and
  to the mutex it owns; the counter's proof needs that a thread's hand is
  the only place of the offer it moves, so that cardinalities change by one.
* `ImplementsPool`: `Spec => PoolSpec`. Every step of the code is a step of the
  pool or a stutter; in particular the step that answers false is one in which
  `numOffers` is 0, and by `CounterIsExact` nothing is counted in the pool then.

`ParallelDijkstraProofs`, for any number of threads, any graph and any initial
contents of `done[]`:

* `TerminationIsSound`: no thread returns while an offer is in the queue, on its
  way in or out, or in a thread's hands. `TerminationSound` is not inductive: it
  says nothing of a scan half done. The strengthening `IInv` has four parts.
  `Control`: what a thread can be doing in the queue, given its `pc`; a
  started thread that is `done` is at the loop's head or behind it.
  `SomeoneActive`: while work is left, some started thread has not concluded that
  there is none: whoever concludes so has found the work in another's
  hands. `Scanned`: the flags a scan has passed belong to started threads that
  are done, or nothing is left. `ReturnedQuiet`: the goal. The uninitialized flags turn out to be harmless:
  threads start in the order the scan takes, so a scan that meets the flag of
  a thread not yet started has passed every started one.

and, for any number of threads and any graph:

* `DijkstraTypes`, `NoOfferIsLost`, `DistancesOnlyImprove`. A distance d of v is
  `Covered` when `distances[v] <= d` or an offer of that distance is pending: in
  the queue, in a call of it, or with a thread that has still to compare it. Every
  step `Keeps` what is covered, since an offer is dropped only after a
  comparison and distances never grow. `OInv` adds that what `offers[v]` records
  is covered (`Recorded`), that a thread between `insert` and the store to
  `offers[v]` owns that mutex and its offer is still better than the recorded one
  (`Offering`), and the like for the mutex of `distances[v]` (`Settling`). A step
  of one thread leaves alone what the others hold and have locked (`Frame`).

* `NoCircularWait`: whenever a thread waits for the mutex of a vertex, some thread
  that waits for none is between locking one and giving it back. A mutex is
  held only by a thread at the lines in between (`Owned`). A thread with a mutex
  of `offers` may wait for one of `distances`; who holds that one waits for nothing.
  The call of `insert` under the mutex of `offers` counts as not waiting: that its
  `try_lock` succeeds in the end is the subject of `CallsReturn`.
* `LocksGivenBack`: when main has joined the threads, every mutex is free.

and, for any number of threads and any graph in which
the source and every neighbour have an index of their own (`IndexedGraph`):

* `ResultIsCorrect`: when main has joined the threads, `distances` are the lengths
  of the shortest paths. They are described without paths: labels are `Potentials`
  when the source's is 0 and no edge exceeds them, and the shortest distances are
  the greatest potentials. The proof has two halves. Every potential stays below the distances
  and below every offer carried (`Below`). And `distances` is a potential
  in the end, by `Explored`: from the moment a distance of v is stored, each edge
  of v is covered, or the thread that stored it has still to relax that edge; and
  at the join, by the invariant of `TerminationIsSound`, nobody relaxes anything and
  nothing is pending. That an older exploration of v may still be going on with a
  worse distance does no harm, nor does the order in which the queue hands offers out.

and, for any number of threads and any input file (`InputAssumption`: vertex
numbers below the number of vertices, weights not negative):

* `ResultForInput`: `ResultCorrect` again, if the file has a line for its source or
  the source is 0. Then `main()` builds a graph that is indexed
  (`LinesIndex`): a line puts each of its ends in the list of the other
  (`AdjacencyDrawn`, `BothWays`), so that a neighbour has a neighbour, and with it an
  index of its own. `isolated_source` shows that the hypothesis is needed.
* `ResultIsReference`: under the same hypothesis, `distances` are the lengths that
  `InputGraph` finds path by path, with at most k edges in round k. By `ReferenceIs`
  the greatest potentials are these lengths. Every potential is below `Within[k]`.
  Of the vertices that k edges are not enough for, a nearest one has its last edge
  from one that they are enough for (`Crossing`); if it had not, the potentials of
  all of them could be raised. So each round settles one vertex more (`OneNearer`).
  The run evaluates the same fact on its graphs (`ReferenceAgrees`).
* `SumsStayBounded`: no sum of a distance and a weight exceeds a longest path
  without repeated vertices and the heaviest edge. An offer was found along a path
  (`Found`) whose vertices all had a distance no greater by then; if it
  still improves its vertex, the vertex is not on the path. That a thread goes on
  exploring from a distance which has been improved since does not matter: its
  path is as simple as before. `LongestFrom`, which TLC evaluates, enters the
  proof only as one of the functions that decrease along such a path (`PathBounds`).

`DaryHeapProofs`, for any arity, initial capacity, set of offers and set of
distances, and so for any number of growths:

* `TypeCorrect` and `NullNeverCompared`: every slot up to `index` holds an offer but
  the one that an operation has open (`Filled`), and the loops of `decreaseKey` and
  `minHeapify` read that one only where the code has put something back.
* `ImplementsQueue`: `Spec => QueueSpec`. The invariant is about the array with the
  offer in hand put back into the hole (`Virtual`): it is a heap but for one
  place, whose children are in order with its parent (`UpAt`, `DownAt`,
  `Bridged`), so that a step of either loop moves that place along and an
  operation that ends leaves none. That the root of a heap is
  its least element (`RootIsLeast`) needs an induction along a path to the
  root. It is done by taking the least slot that contradicts it, since the natural
  numbers are well-founded: its parent contradicts it too.
* `RootReadsAreSound`: what `findMin` returns without the mutex, between any two
  writes of the owner, is what `MultiQueues` takes it to be (`RootReads`).

`DebraProofs`, for any number of threads and objects and any
`MIN_OPS_BEFORE_READ`, in lemmas about `Move`, which has the steps of DEBRA and
what DEBRA+ adds to them:

* `TypeCorrect` and `CheckedIsInBounds`: `checked[tid]` equals `NUM_PROCESSES`
  only between the last announcement and the change of epoch (`Scans`), so it is
  a valid index when `announcedEpoch` is read.
* `ImplementsGracePeriod`: `Spec => GraceSpec`. The heart is `Protected`. A thread
  inside an operation *holds back* epoch n (`HoldsBack`) when it has announced
  less than n and no scan for n has passed it; then the epoch does not exceed n
  before it is done. When an object is retired, every running operation holds
  back the next epoch; each rotation of the owner's bags brings the bag one closer to being
  freed and corresponds to one epoch; the third rotation would be for an epoch
  that is held back. The stale announcement of line 179 is covered: only what
  was announced counts, not when it was read.

Of DEBRA+, in the same module, for any number of threads and objects, any length of
the lists of announcements, block size and thresholds:

* `PlusImplementsGracePeriod` and `PlusCheckedIsInBounds`. A step of DEBRA+ is a
  `Move` or changes none of the variables of `Debra`
  (`PlusNextIsMove`), so that the invariant of DEBRA holds and with it the refinement. What
  has to be added is `SignalState`: a thread is quiescent outside of operations, or a
  signal that ended its operation has still to make it so.
* `AnnouncedIsKept` and `PlusTypeCorrect`. `AnnouncedKept` says nothing of a scan half
  done; `Found` does. For an object in the bag that u is about to free and
  announced by t, u has it already or has still to read the slot it is in. The owner writes
  its list in the meantime, but only behind the last entry, and takes back that one
  only (`Announcing`). Nor can a new announcement of such an object
  appear behind the back of u: t announces what its operation can reach, and by
  `SafeToFree` no operation can reach what u is about to
  free. This is where the two halves of DEBRA+ meet: announcements
  are scanned without any handshake because the grace period of the bag
  is over before the scan begins.

`HazardPointersProofs`, for any number of threads, objects and hazard pointers and
any threshold, of `HazardPointers` as `MCReclaimers` instantiates it:

* `HeldIsKept`: `HP!Spec => []HeldKeptUnlessMoved`. As above, an announcement of a retired
  object is in `comparing[u]` or `Ahead` of the loop of u; but here `erase` may
  move the last announcement to a slot that the loop has passed. `moved` names
  those, until they are unprotected; for all others `Stays` shows that they keep their slot, and between the two stores
  of `erase` the slots that count are those below `Stable`. There is
  no grace period: a new announcement of a retired object may appear, but `Held` only
  includes it when the callback has found the object not retired.
* `RetireHasRoom`: if `HPThreshold > NumProcesses * (HPCapacity - 1)`, `retire` always finds
  room. A scan collects at most that many entries (`Collected`), what a sweep leaves is
  among them, and each retired object is in the list once (`Once`). The code's
  threshold is five times that (`reclaimer_hazardptr.h:258`). The small run
  stays below the hypothesis, with a threshold of 3; there only one thread
  announces.
* `SchemesTypes`, with `PlusTypeCorrect`: the type invariant of the run `reclaimers`.

`PerThreadPoolProofs`, for any number of blocks and objects, any `BLOCK_SIZE`, capacity
of the blockpool and thresholds, and all four schemes. The properties speak of lists
reached by following pointers, which no step-by-step argument can use directly. The
invariant `Inv` therefore says that *some* two functions that are not in the
code fit the heap (`Layout`): P gives the place of every block (a bag, the
shared bag, the blockpool, none), pos its position in its list, counted from the tail, so
that a change at the head renumbers nothing. `Shape` relates them to `next`,
`head`, `tail`, `sizeInBlocks` and the lengths, block by block. For each operation of
`BlockBag` a lemma gives the new P and pos (`AddIs`, `RemoveIs`, `EraseIs`,
`RemoveFullIs`, `AddFullIs`, `MoveBlocksIs`), and the lists the code would walk
are determined by them (`BlocksAre`, `ContentsIs`). On this rest:

* `Valid`, `PlacesOfBlocks`, `TypeCorrect`: `validate()` of the code, each block in
  one list or in one pool, types.
* `ObjectsInOnePlace`: `Distinct` for the slots and `HeldOut` for the objects in use.
* `FilterLeavesAnnounced`: whatever comes before the iterator is announced
  (`Filtered`). `erase` moves an object of the head block into the hole, which has
  been met already if the head block is another one: hence the extra step of line 190.
* `ImplementsPool`: `Spec => RecyclingSpec`. During the swaps of DEBRA+
  all announced objects met so far lie before `nextswap` and none between it and the
  iterator (`SwapAt`), so that the blocks behind `nextswap` hold none when they are given
  away.
* `FewBlocksStay`: a scan of DEBRA+ leaves no more blocks than the announced
  objects fill, and two. `SwapAt` also says that all objects before `nextswap` are
  announced; hence the blocks behind the head that stay, but for the one of
  `nextswap`, are full of announced objects, no two slots hold the same one
  (`Distinct`), and there are `BLOCK_SIZE` slots to a block (`FullBlocksCount`).
* `NothingIsLeft`: `Control` says which bags exist at which point of the
  destructors, and what has been emptied by then.

`LockFreeBagProofs`, for any sets of threads and blocks:

* `TypeCorrect`, `ListIsLinked`, `OwnersAreUnique`: from `Tags` (tags only grow,
  so equal tags mean that no swap has succeeded since the load) and
  `ReadIsFresh` (what was read from `next` is still there if the head is still
  the one loaded), which no invariant without history of the tag could give.
* `ImplementsSharedBag`: `Spec => SharedBagSpec`, so `getBlock` and `addBlock` are
  linearizable, their swaps the linearization points, and `getBlock` answers
  NULL only when the bag was empty at its last load.

`OfferRecordsProofs`, for any number of threads, vertices and records:

* `RecordsAreLive` and `NothingLeaks`, from one invariant. `Places`: every allocated
  record is in exactly one place, which is the queues, one thread, or one element
  of `offers[]`, and every step moves at most one record between them. `RecordsLive`
  says that what is in a place is allocated and in no other, `NoLeak` that
  nothing is allocated outside the places, which are empty in the end. `Control` gives
  `Places` its step for `relax`: the thread that retires `offers[v]` and then
  stores its own record there owns the mutex of v, so no other thread finds the old
  record in between. Of the reclaimer nothing is used but that `allocate` hands out
  an address that is not allocated; when a retired record is freed is the subject
  of `ImplementsGracePeriod`.

The assumptions are those named in the modules (`GraphAssumption`,
`ProcessesAssumption`, `NullAssumption`, ...); the runs evaluate them on their
instances. One more is not a formula but a choice of the models: records keep what
`insert` wrote to them (`late_write` in section 6), which the code does not ensure.

Model-checked only: `CallsReturn`, `Termination` and `EpochAdvances` (liveness
under fairness is out of the prover's reach). Every invariant, action property and
refinement that a passing run checks is proved. Of `OfferRecords` only the types
that its proofs need are proved, not those of the reclaimer inside it (which are
those of `Debra`).

## 6. Findings

* `smaller_min`: `MultiQueues.cpp:83` compares two `Offer*`, so the queue whose
  minimum has the lower address wins, not the smaller distance. The result is
  still right, late writes apart (Dijkstra here tolerates any order), the work is not what the
  article promises.
* `isolated_source`: `index` is set from edge lines only; a source without an
  edge is treated as vertex 0.
* `late_write`: `insert` and `deleteMin` call `enterQuiescentState` first and
  `leaveQuiescentState` last, the reverse of what `reclaimer_debra.h:114-115`
  asks. A thread is therefore quiescent while it works, and `relax` can write
  `vertex` and `dist` (lines 46-47) to a record that another thread has extracted
  and retired and the reclaimer has freed. If it has been allocated again by then, it
  may be a live offer of another vertex, in a heap or in `offers[]`, and is
  overwritten there. `MultiQueues`, `DaryHeap` and `ParallelDijkstra` leave these
  writes out, so that the contents of a published offer never change in them. What is checked and
  proved of offers and distances therefore holds only of executions in which no late write meets a
  freed record: `ResultCorrect` and `NoOfferLost` above all, with `SumsBounded`
  and the theorems `ResultIsCorrect`, `ResultForInput`, `ResultIsReference`,
  `NoOfferIsLost` and `SumsStayBounded`, and the heap order behind `QueueSpec`.
  `offer_records` does not depend on what records contain: whatever the
  reclaimer believes about the threads, records in the queues and in `offers[]` are
  allocated, in one place, and retired once. So the late write is the one access modelled
  there that can meet a freed record; that the rest of the program is unharmed by it
  is not shown, and not true.
* `unprotect_race`: `unprotect` moves the last announcement of a thread's list to the
  slot it frees (`arraylist.h:66`). A scan that has read that slot before and the
  last slot after it was overwritten by the next `protect` misses an announcement
  that has been there all the time, and gives a held object to the pool.
  Without such a move it does not happen: `HeldKeptUnlessMoved` exempts an announcement only
  if it was moved while some thread was collecting, though then until it is
  unprotected, so also from later scans. The program itself uses DEBRA and is not affected.

## 7. Not modelled, and why

* The hash set of the scans (`hashtable.h`) is a set: its table has room for
  twice the announcements of all threads. `hashlist` and the older `hashset` of the file are
  not used.
* DEBRA+: the error of `pthread_kill` for a thread that has terminated
  (`reclaimer_debraplus.h:111-121`), several record types, the registration of threads, and a signal
  that is delivered late. The variants that wait for quiescence are
  debugging aids, as the comment there says.
* `size()` of the lock-free bag, which only statistics call. It compares the head's
  pointer without its tag after a walk over blocks it does not own, and can
  return a length the bag never had.
* Several threads' pools around one shared bag are not composed: `PerThreadPool`
  has one thread, and gives to and takes from a set.
* `clearWithoutFreeingElements` of `blockbag`: used by allocators the program does not
  instantiate, and by `pool_none` under DEBRA+, where it leaks, as the comment
  there says.
* The dispatch of the record manager over several record types: there is one.
* Tokenizing the input, writing `output.txt`, freeing at exit, statistics and
  debug printing: I/O without concurrent state.
* Overflow of `int` distances itself: `SumsBounded` says that no sum exceeds the
  longest simple path and one edge; a graph for which that exceeds `INT_MAX`
  overflows.
* Weak memory: the flags `done[]` are plain `bool`s, `epoch` is `volatile`. The
  models read and write in program order; the compiler may not reorder these
  accesses across the mutex calls, barriers and atomics between them.

## 8. Plan

Done: `MultiQueues` with `OfferPool`; `ParallelDijkstra` with `InputGraph`;
`DaryHeap`; `Debra`, `DebraPlus` and `HazardPointers`; `OfferRecords`; `BlockBag`
and `PerThreadPool`; `LockFreeBag`. Proofs for all of these.

Next, most important first:

1. Several `PerThreadPool`s around one `SharedBag`.
2. The hash set, and the record manager with several record types.
