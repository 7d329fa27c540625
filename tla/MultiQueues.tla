---------------------------- MODULE MultiQueues ----------------------------
(***************************************************************************)
(* Class MultiQueues (MultiQueues.h, MultiQueues.cpp): numOfQueues heaps,  *)
(* each behind a mutex that is only ever try_lock()ed, and one atomic      *)
(* counter numOffers that is_empty() and deleteMin read.                   *)
(*                                                                         *)
(* insert and deleteMin run one step per access to shared memory.  What a  *)
(* thread reads of a heap without its lock (MultiQueues.cpp:74-83) is one  *)
(* step per read, so that any other thread can run between two reads.      *)
(*                                                                         *)
(* A heap is the set of the offers in it (module DaryHeap implements it);  *)
(* its array shows here only in what an unlocked findMin can return        *)
(* (RootReads).  Offers are addresses: deleteMin compares addresses.  The  *)
(* vertex of an offer is payload and left out.  An address retired by      *)
(* deleteMin may be allocated again at once: nothing in this class         *)
(* dereferences an offer it does not own, so that the reclaimer's delay    *)
(* makes no difference here.                                               *)
(***************************************************************************)
EXTENDS Naturals, FiniteSets

CONSTANTS Threads,   \* the tids
          Queues,    \* the queue indices, c * p of them
          Offers,    \* the addresses an Offer can have
          Dists,     \* the values of offer->dist
          QueueCapacity,  \* QUEUE_CAPACITY
          NoThread,  \* the owner of a free mutex
          NoQueue    \* -1, the value of minIndex before a choice

ASSUME ThreadAssumption == NoThread \notin Threads
ASSUME QueueAssumption  == NoQueue \notin Queues
ASSUME OfferAssumption  == IsFiniteSet(Offers) /\ Offers \subseteq Nat \ {0}
ASSUME DistAssumption   == Dists \subseteq Nat

NULL == 0

VARIABLES queues,      \* the offers in each heap
          locks,       \* the owner of each heap's mutex
          numOffers,   \* the atomic counter
          dist,        \* dist field of each offer record
          pc,          \* what each thread executes next
          hand,        \* the offer in the thread's locals: offer, min_offer
          queueIndex,  \* the local queueIndex of insert
          minIndex,    \* the local minIndex of deleteMin
          sampled,     \* the locals i and j of deleteMin's loop body
          root         \* what findMin returned for queue i (MultiQueues.cpp:83)

locals == <<hand, queueIndex, minIndex, sampled, root>>
vars == <<queues, locks, numOffers, dist, pc, locals>>

NoSample == [i |-> NoQueue, j |-> NoQueue]

InsertPCs == {"count", "lockQueue", "heapInsert", "unlockInserted", "inserted"}
PeekPCs   == {"bothEmpty_i", "bothEmpty_j", "onlyI_i", "onlyI_j",
              "onlyJ_i", "onlyJ_j", "findMin_i", "findMin_j"}
DeletePCs == {"sample", "tryLock", "recheck", "extract", "unlockEmpty",
              "unlockExtracted", "uncount", "removed", "refused"} \cup PeekPCs

Empty(q) == queues[q] = {}

\* The offers that can be at the root of heap q.
Roots(q) == {o \in queues[q] : \A other \in queues[q] : dist[o] <= dist[other]}

\* A heap can outgrow its array: a reader that has the address of the old one,
\* which increase_size deletes, may read anything there (DaryHeap!FindMinRead).
CanGrow == Cardinality(Offers) > QueueCapacity

\* What findMin can return to a thread that does not hold the lock: while
\* another thread is inside the heap, the root is nullptr or any offer on its
\* way through the array (DaryHeap!RootRead).
RootReads(q) ==
  IF CanGrow THEN Offers \cup {NULL}
  ELSE IF locks[q] # NoThread THEN queues[q] \cup {hand[locks[q]], NULL}
  ELSE IF Empty(q) THEN {NULL}
  ELSE Roots(q)

TypeOK ==
  /\ queues \in [Queues -> SUBSET Offers]
  /\ locks \in [Queues -> Threads \cup {NoThread}]
  /\ numOffers \in Nat
  /\ dist \in [Offers -> Dists]
  /\ pc \in [Threads -> InsertPCs \cup DeletePCs \cup {"idle"}]
  /\ hand \in [Threads -> Offers \cup {NULL}]
  /\ queueIndex \in [Threads -> Queues \cup {NoQueue}]
  /\ minIndex \in [Threads -> Queues \cup {NoQueue}]
  /\ sampled \in [Threads -> [i : Queues \cup {NoQueue}, j : Queues \cup {NoQueue}]]
  /\ root \in [Threads -> Offers \cup {NULL}]

Init ==
  /\ queues = [q \in Queues |-> {}]
  /\ locks = [q \in Queues |-> NoThread]
  /\ numOffers = 0
  /\ dist \in [Offers -> Dists]
  /\ pc = [t \in Threads |-> "idle"]
  /\ hand = [t \in Threads |-> NULL]
  /\ queueIndex = [t \in Threads |-> NoQueue]
  /\ minIndex = [t \in Threads |-> NoQueue]
  /\ sampled = [t \in Threads |-> NoSample]
  /\ root = [t \in Threads |-> NULL]

Goto(t, from, to) == pc[t] = from /\ pc' = [pc EXCEPT ![t] = to]

IsEmpty == numOffers = 0

-----------------------------------------------------------------------------
\* insert

\* While pc[t] is here the offer in hand belongs to t alone: not yet in a heap,
\* or already out of it.  (At "unlockInserted" and "inserted" the address is
\* still in a local, but another thread may take, retire and reuse the record.)
OwningPCs == {"count", "lockQueue", "heapInsert", "unlockExtracted", "uncount", "removed"}

InHeaps == {o \in Offers : \E q \in Queues : o \in queues[q]}

Owned(o) == \E t \in Threads : pc[t] \in OwningPCs /\ hand[t] = o

InsertCall(t, o, d) ==
  /\ Goto(t, "idle", "count")
  /\ o \notin InHeaps /\ ~Owned(o)
  /\ hand' = [hand EXCEPT ![t] = o]
  /\ dist' = [dist EXCEPT ![o] = d]
  /\ UNCHANGED <<queues, locks, numOffers, queueIndex, minIndex, sampled, root>>

Count(t) ==
  /\ Goto(t, "count", "lockQueue")
  /\ numOffers' = numOffers + 1
  /\ UNCHANGED <<queues, locks, dist, locals>>

\* The iteration of the loop whose try_lock succeeds; the others change nothing.
LockQueue(t, q) ==
  /\ Goto(t, "lockQueue", "heapInsert")
  /\ locks[q] = NoThread
  /\ locks' = [locks EXCEPT ![q] = t]
  /\ queueIndex' = [queueIndex EXCEPT ![t] = q]
  /\ UNCHANGED <<queues, numOffers, dist, hand, minIndex, sampled, root>>

HeapInsert(t) ==
  /\ Goto(t, "heapInsert", "unlockInserted")
  /\ queues' = [queues EXCEPT ![queueIndex[t]] = @ \cup {hand[t]}]
  /\ UNCHANGED <<locks, numOffers, dist, locals>>

UnlockInserted(t) ==
  /\ Goto(t, "unlockInserted", "inserted")
  /\ locks' = [locks EXCEPT ![queueIndex[t]] = NoThread]
  /\ UNCHANGED <<queues, numOffers, dist, locals>>

InsertReturn(t) ==
  /\ Goto(t, "inserted", "idle")
  /\ hand' = [hand EXCEPT ![t] = NULL]
  /\ queueIndex' = [queueIndex EXCEPT ![t] = NoQueue]
  /\ UNCHANGED <<queues, locks, numOffers, dist, minIndex, sampled, root>>

InsertStep(t) ==
  \/ \E q \in Queues : LockQueue(t, q)
  \/ Count(t) \/ HeapInsert(t) \/ UnlockInserted(t) \/ InsertReturn(t)

-----------------------------------------------------------------------------
\* deleteMin: choosing a queue

DeleteCall(t) ==
  /\ Goto(t, "idle", "sample")
  /\ UNCHANGED <<queues, locks, numOffers, dist, locals>>

Sample(t, i, j) ==
  /\ numOffers # 0
  /\ Goto(t, "sample", "bothEmpty_i")
  /\ sampled' = [sampled EXCEPT ![t] = [i |-> i, j |-> j]]
  /\ UNCHANGED <<queues, locks, numOffers, dist, hand, queueIndex, minIndex, root>>

\* Mutant: giving up when the two sampled heaps are empty.
RefuseTwoEmpty(t) ==
  /\ \E i, j \in Queues : Empty(i) /\ Empty(j)
  /\ Goto(t, "sample", "refused")
  /\ UNCHANGED <<queues, locks, numOffers, dist, locals>>

Refuse(t) ==
  /\ IsEmpty
  /\ Goto(t, "sample", "refused")
  /\ UNCHANGED <<queues, locks, numOffers, dist, locals>>

\* One unlocked isEmpty() of queue q, and where each answer leads.
Peek(t, from, q, ifEmpty, ifNot) ==
  /\ Goto(t, from, IF Empty(q) THEN ifEmpty ELSE ifNot)
  /\ UNCHANGED <<queues, locks, numOffers, dist, locals>>

\* An unlocked isEmpty() that settles on the queue chosen if it answers "answer".
PeekChoose(t, from, q, answer, chosen, otherwise) ==
  /\ Goto(t, from, IF Empty(q) = answer THEN "tryLock" ELSE otherwise)
  /\ minIndex' = [minIndex EXCEPT ![t] = IF Empty(q) = answer THEN chosen ELSE @]
  /\ UNCHANGED <<queues, locks, numOffers, dist, hand, queueIndex, sampled, root>>

Peeks(t) ==
  LET i == sampled[t].i
      j == sampled[t].j
  IN \/ Peek(t, "bothEmpty_i", i, "bothEmpty_j", "onlyI_i")
     \/ Peek(t, "bothEmpty_j", j, "tryLock", "onlyI_i")
     \/ Peek(t, "onlyI_i", i, "onlyJ_i", "onlyI_j")
     \/ PeekChoose(t, "onlyI_j", j, TRUE, i, "onlyJ_i")
     \/ Peek(t, "onlyJ_i", i, "onlyJ_j", "findMin_i")
     \/ PeekChoose(t, "onlyJ_j", j, FALSE, j, "findMin_i")

FindMinI(t) ==
  /\ Goto(t, "findMin_i", "findMin_j")
  /\ \E o \in RootReads(sampled[t].i) : root' = [root EXCEPT ![t] = o]
  /\ UNCHANGED <<queues, locks, numOffers, dist, hand, queueIndex, minIndex, sampled>>

\* The operands of < are pointers: the lower address wins.
FindMinJ(t) ==
  /\ Goto(t, "findMin_j", "tryLock")
  /\ \E o \in RootReads(sampled[t].j) :
       minIndex' = [minIndex EXCEPT ![t] =
                      IF root[t] < o THEN sampled[t].i ELSE sampled[t].j]
  /\ root' = [root EXCEPT ![t] = NULL]
  /\ UNCHANGED <<queues, locks, numOffers, dist, hand, queueIndex, sampled>>

-----------------------------------------------------------------------------
\* deleteMin: the chosen queue.  minIndex survives a failed try_lock and a
\* `continue`: the next iteration may try the queue of an earlier one.

\* Mutant: the result of try_lock is ignored.
TryLockIgnored(t) ==
  /\ minIndex[t] # NoQueue
  /\ Goto(t, "tryLock", "recheck")
  /\ locks' = [locks EXCEPT ![minIndex[t]] = t]
  /\ sampled' = [sampled EXCEPT ![t] = NoSample]
  /\ UNCHANGED <<queues, numOffers, dist, hand, queueIndex, minIndex, root>>

TryLock(t) ==
  /\ minIndex[t] # NoQueue
  /\ locks[minIndex[t]] = NoThread
  /\ Goto(t, "tryLock", "recheck")
  /\ locks' = [locks EXCEPT ![minIndex[t]] = t]
  /\ sampled' = [sampled EXCEPT ![t] = NoSample]
  /\ UNCHANGED <<queues, numOffers, dist, hand, queueIndex, minIndex, root>>

LoopAgain(t) ==
  /\ minIndex[t] # NoQueue => locks[minIndex[t]] # NoThread
  /\ Goto(t, "tryLock", "sample")
  /\ sampled' = [sampled EXCEPT ![t] = NoSample]
  /\ UNCHANGED <<queues, locks, numOffers, dist, hand, queueIndex, minIndex, root>>

\* Mutant: the unlocked isEmpty() is trusted.
NoRecheck(t) ==
  /\ Goto(t, "recheck", "extract")
  /\ UNCHANGED <<queues, locks, numOffers, dist, locals>>

Recheck(t) ==
  /\ Goto(t, "recheck", IF Empty(minIndex[t]) THEN "unlockEmpty" ELSE "extract")
  /\ UNCHANGED <<queues, locks, numOffers, dist, locals>>

UnlockEmpty(t) ==
  /\ Goto(t, "unlockEmpty", "sample")
  /\ locks' = [locks EXCEPT ![minIndex[t]] = NoThread]
  /\ UNCHANGED <<queues, numOffers, dist, locals>>

\* Mutant: findMin where extractMin is needed.
ExtractCopies(t, o) ==
  /\ Goto(t, "extract", "unlockExtracted")
  /\ o \in Roots(minIndex[t])
  /\ hand' = [hand EXCEPT ![t] = o]
  /\ UNCHANGED <<queues, locks, numOffers, dist, queueIndex, minIndex, sampled, root>>

Extract(t, o) ==
  /\ Goto(t, "extract", "unlockExtracted")
  /\ o \in Roots(minIndex[t])
  /\ queues' = [queues EXCEPT ![minIndex[t]] = @ \ {o}]
  /\ hand' = [hand EXCEPT ![t] = o]
  /\ UNCHANGED <<locks, numOffers, dist, queueIndex, minIndex, sampled, root>>

UnlockExtracted(t) ==
  /\ Goto(t, "unlockExtracted", "uncount")
  /\ locks' = [locks EXCEPT ![minIndex[t]] = NoThread]
  /\ UNCHANGED <<queues, numOffers, dist, locals>>

\* Mutants: the counter is decremented twice, or not at all.
UncountTwice(t) ==
  /\ Goto(t, "uncount", "removed")
  /\ numOffers' = numOffers - 2
  /\ UNCHANGED <<queues, locks, dist, locals>>

UncountNever(t) ==
  /\ Goto(t, "uncount", "removed")
  /\ UNCHANGED <<queues, locks, numOffers, dist, locals>>

Uncount(t) ==
  /\ Goto(t, "uncount", "removed")
  /\ numOffers' = numOffers - 1
  /\ UNCHANGED <<queues, locks, dist, locals>>

\* The offer is copied out and retired, or there was none; the locals are gone.
DeleteReturn(t) ==
  /\ \E from \in {"removed", "refused"} : Goto(t, from, "idle")
  /\ hand' = [hand EXCEPT ![t] = NULL]
  /\ minIndex' = [minIndex EXCEPT ![t] = NoQueue]
  /\ UNCHANGED <<queues, locks, numOffers, dist, queueIndex, sampled, root>>

DeleteStep(t) ==
  \/ \E i, j \in Queues : Sample(t, i, j)
  \/ \E o \in Offers : Extract(t, o)
  \/ Refuse(t) \/ Peeks(t) \/ FindMinI(t) \/ FindMinJ(t)
  \/ TryLock(t) \/ LoopAgain(t) \/ Recheck(t) \/ UnlockEmpty(t)
  \/ UnlockExtracted(t) \/ Uncount(t) \/ DeleteReturn(t)

-----------------------------------------------------------------------------
Call(t) == DeleteCall(t) \/ \E o \in Offers, d \in Dists : InsertCall(t, o, d)

Step(t) == InsertStep(t) \/ DeleteStep(t)

Next == \E t \in Threads : Call(t) \/ Step(t)

Spec == Init /\ [][Next]_vars

\* rand() makes every queue come up again and again, and a mutex that is free
\* again and again is caught free by a loop that keeps trying.
Fairness ==
  \A t \in Threads :
    /\ WF_vars(Step(t))
    /\ SF_vars(\E q \in Queues : LockQueue(t, q))
    /\ SF_vars(TryLock(t))
    /\ \A i \in Queues : SF_vars(\E j \in Queues : Sample(t, i, j))

-----------------------------------------------------------------------------
\* Properties

\* The code between a successful try_lock of queue q and its unlock.
InCritical(t, q) ==
  \/ pc[t] \in {"heapInsert", "unlockInserted"} /\ queueIndex[t] = q
  \/ pc[t] \in {"recheck", "extract", "unlockEmpty", "unlockExtracted"} /\ minIndex[t] = q

\* A mutex is owned exactly while its owner is between try_lock and unlock: no
\* two threads are ever inside the same heap, and no path leaves a mutex locked.
MutualExclusion == \A q \in Queues, t \in Threads : locks[q] = t <=> InCritical(t, q)

\* The offers numOffers stands for: incremented before the heap insertion and
\* decremented after the extraction (MultiQueues.cpp:42, 101).
CountedPCs == {"lockQueue", "heapInsert", "unlockExtracted", "uncount"}
CountedOffers ==
  {o \in Offers : o \in InHeaps \/ \E t \in Threads : pc[t] \in CountedPCs /\ hand[t] = o}

\* The counter never drifts: at every moment it is the number of offers in the
\* heaps plus those on their way in or out, so that is_empty() is true exactly
\* when there is no offer left to see.
CountExact == numOffers = Cardinality(CountedOffers)

\* No offer is lost to, or delivered from, two places: it is in one heap, or
\* owned by one thread.
OnePlace ==
  /\ \A p, q \in Queues : p # q => queues[p] \cap queues[q] = {}
  /\ \A t \in Threads : pc[t] \in OwningPCs =>
       /\ hand[t] \in Offers \ InHeaps
       /\ \A u \in Threads \ {t} : pc[u] \in OwningPCs => hand[u] # hand[t]

\* extractMin (MultiQueues.cpp:97) is never called on an empty heap, however
\* stale the unlocked reads that led to this queue were.
ExtractNonEmpty == \A t \in Threads : pc[t] = "extract" => ~Empty(minIndex[t])

\* The refinement: what each step of the code is in the abstract pool.
Phase(p) ==
  CASE p = "idle"                                       -> "idle"
    [] p = "count"                                      -> "insert"
    [] p \in {"lockQueue", "heapInsert"}                -> "put"
    [] p \in {"unlockInserted", "inserted"}             -> "inserted"
    [] p \in {"unlockExtracted", "uncount"}             -> "discount"
    [] p = "removed"                                    -> "removed"
    [] p = "refused"                                    -> "refused"
    [] OTHER                                            -> "deleteMin"

Pool == INSTANCE OfferPool WITH
          pool <- InHeaps, phase <- [t \in Threads |-> Phase(pc[t])], holds <- hand

\* Queues, locks, sampling and counter together implement the pool of offers:
\* in particular deleteMin answers false only when no offer is visible.
PoolSpec == Pool!PoolSpec

\* What the article describes and README.md:3 announces: of two sampled queues,
\* neither empty nor being changed, deleteMin turns to the one with the smaller
\* minimum.
SmallerMinChosen ==
  [][\A t \in Threads :
       LET i == sampled[t].i
           j == sampled[t].j
       IN  /\ FindMinJ(t)
           /\ \A q \in {i, j} : locks[q] = NoThread /\ ~Empty(q)
           /\ root[t] \in Roots(i)
           => \A best \in Roots(minIndex'[t]), other \in Roots(i) \cup Roots(j) :
                dist[best] <= dist[other]]_vars
=============================================================================
