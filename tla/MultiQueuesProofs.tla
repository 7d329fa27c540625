-------------------------- MODULE MultiQueuesProofs --------------------------
(***************************************************************************)
(* What holds of MultiQueues for any number of threads, queues and offers: *)
(* the type invariant, mutual exclusion on every heap, the exactness of    *)
(* numOffers, that an offer is in one place only, and that the whole       *)
(* implements OfferPool.                                                   *)
(***************************************************************************)
EXTENDS MultiQueues, FiniteSetTheorems, TLAPS

InsertCritical == {"heapInsert", "unlockInserted"}
DeleteCritical == {"recheck", "extract", "unlockEmpty", "unlockExtracted"}

\* The control points at which a call neither holds a lock nor owns an offer.
Outside == PeekPCs \cup {"idle", "sample", "tryLock", "refused"}

PCs == InsertPCs \cup DeletePCs \cup {"idle"}

\* The types of the variables, and of the locals where the code uses them as
\* an index.
Shape ==
  /\ queues \in [Queues -> SUBSET Offers]
  /\ locks \in [Queues -> Threads \cup {NoThread}]
  /\ dist \in [Offers -> Dists]
  /\ pc \in [Threads -> PCs]
  /\ hand \in [Threads -> Offers \cup {NULL}]
  /\ queueIndex \in [Threads -> Queues \cup {NoQueue}]
  /\ minIndex \in [Threads -> Queues \cup {NoQueue}]
  /\ sampled \in [Threads -> [i : Queues \cup {NoQueue}, j : Queues \cup {NoQueue}]]
  /\ root \in [Threads -> Offers \cup {NULL}]
  /\ \A t \in Threads :
       /\ pc[t] \in InsertCritical => queueIndex[t] \in Queues
       /\ pc[t] \in DeleteCritical => minIndex[t] \in Queues
       /\ pc[t] \in PeekPCs => sampled[t].i \in Queues /\ sampled[t].j \in Queues

IInv == Shape /\ MutualExclusion /\ OnePlace /\ CountExact /\ ExtractNonEmpty

-----------------------------------------------------------------------------
\* The steps of deleteMin that look for a queue, and the start of deleteMin,
\* move within Outside and touch nothing shared.
Wander(t) ==
  /\ pc[t] \in Outside
  /\ \E to \in Outside : pc' = [pc EXCEPT ![t] = to]
  /\ \E q \in Queues \cup {NoQueue} : minIndex' = [minIndex EXCEPT ![t] = q]
  /\ UNCHANGED <<queues, locks, numOffers, dist, hand, queueIndex>>

Wandering(t) ==
  \/ DeleteCall(t) \/ Refuse(t) \/ Peeks(t) \/ FindMinI(t) \/ FindMinJ(t) \/ LoopAgain(t)
  \/ \E i, j \in Queues : Sample(t, i, j)

LEMMA Wanders ==
  ASSUME Shape, NEW t \in Threads, Wandering(t)
  PROVE  Wander(t)
<1>1. CASE DeleteCall(t)
  BY <1>1 DEF DeleteCall, Wander, Goto, Outside, Shape, locals
<1>2. CASE Refuse(t)
  BY <1>2 DEF Refuse, Wander, Goto, Outside, Shape, locals
<1>3. CASE Peeks(t)
  BY <1>3 DEF Peeks, Peek, PeekChoose, Wander, Goto, Outside, PeekPCs, Shape, locals
<1>4. CASE FindMinI(t)
  BY <1>4 DEF FindMinI, Wander, Goto, Outside, PeekPCs, Shape
<1>5. CASE FindMinJ(t)
  BY <1>5 DEF FindMinJ, Wander, Goto, Outside, PeekPCs, Shape
<1>6. CASE LoopAgain(t)
  BY <1>6 DEF LoopAgain, Wander, Goto, Outside, Shape
<1>7. CASE \E i, j \in Queues : Sample(t, i, j)
  BY <1>7 DEF Sample, Wander, Goto, Outside, PeekPCs, Shape
<1> QED
  BY <1>1, <1>2, <1>3, <1>4, <1>5, <1>6, <1>7 DEF Wandering
\* The other steps: each changes a lock, a heap, the counter or an owner.
Changing(t) ==
  \/ \E o \in Offers, d \in Dists : InsertCall(t, o, d)
  \/ Count(t) \/ HeapInsert(t) \/ UnlockInserted(t) \/ InsertReturn(t)
  \/ \E q \in Queues : LockQueue(t, q)
  \/ TryLock(t) \/ Recheck(t) \/ UnlockEmpty(t)
  \/ \E o \in Offers : Extract(t, o)
  \/ UnlockExtracted(t) \/ Uncount(t) \/ DeleteReturn(t)

LEMMA StepCases ==
  ASSUME NEW t \in Threads, Call(t) \/ Step(t)
  PROVE  Wandering(t) \/ Changing(t)
BY DEF Call, Step, InsertStep, DeleteStep, Wandering, Changing

-----------------------------------------------------------------------------
LEMMA ShapeStep ==
  ASSUME Shape, MutualExclusion, OnePlace, NEW t \in Threads, Call(t) \/ Step(t)
  PROVE  Shape'
<1> USE DEF Shape, Goto, PCs, InsertPCs, DeletePCs, PeekPCs, InsertCritical, DeleteCritical
<1>1. CASE Wandering(t)
  <2>1. CASE DeleteCall(t)
    BY <1>1, <2>1 DEF DeleteCall, locals
  <2>2. CASE Refuse(t)
    BY <1>1, <2>2 DEF Refuse, locals
  <2>3. CASE LoopAgain(t)
    <3>1. sampled' = [sampled EXCEPT ![t] = NoSample] /\ NoSample \in [i : {NoQueue}, j : {NoQueue}]
      BY <2>3 DEF LoopAgain, NoSample
    <3> QED
      BY <2>3, <3>1 DEF LoopAgain
  <2>4. CASE Peeks(t)
    <3> DEFINE i == sampled[t].i
               j == sampled[t].j
    <3>1. CASE PeekChoose(t, "onlyI_j", j, TRUE, i, "onlyJ_i") \/ PeekChoose(t, "onlyJ_j", j, FALSE, j, "findMin_i")
      BY ZenonT(30), <3>1 DEF PeekChoose
    <3>2. CASE \/ Peek(t, "bothEmpty_i", i, "bothEmpty_j", "onlyI_i")
               \/ Peek(t, "bothEmpty_j", j, "tryLock", "onlyI_i")
               \/ Peek(t, "onlyI_i", i, "onlyJ_i", "onlyI_j")
               \/ Peek(t, "onlyJ_i", i, "onlyJ_j", "findMin_i")
      BY ZenonT(30), <3>2 DEF Peek, locals
    <3> QED
      BY <2>4, <3>1, <3>2 DEF Peeks
  <2>5. CASE FindMinI(t)
    BY <1>1, <2>5 DEF FindMinI, RootReads, Roots
  <2>6. CASE FindMinJ(t)
    BY <1>1, <2>6 DEF FindMinJ
  <2>7. CASE \E i, j \in Queues : Sample(t, i, j)
    BY <1>1, <2>7 DEF Sample
  <2> QED
    BY <1>1, <2>1, <2>2, <2>3, <2>4, <2>5, <2>6, <2>7 DEF Wandering
<1>2. CASE \E o \in Offers, d \in Dists : InsertCall(t, o, d)
  BY <1>2 DEF InsertCall
<1>3. CASE Count(t)
  BY <1>3 DEF Count, locals
<1>4. CASE \E q \in Queues : LockQueue(t, q)
  BY <1>4 DEF LockQueue
<1>5. CASE HeapInsert(t)
  BY <1>5 DEF HeapInsert, OnePlace, OwningPCs, locals
<1>6. CASE UnlockInserted(t)
  BY <1>6 DEF UnlockInserted, locals
<1>7. CASE InsertReturn(t)
  BY <1>7 DEF InsertReturn
<1>8. CASE TryLock(t)
  <2>1. sampled' = [sampled EXCEPT ![t] = NoSample] /\ NoSample \in [i : {NoQueue}, j : {NoQueue}]
    BY <1>8 DEF TryLock, NoSample
  <2> QED
    BY <1>8, <2>1 DEF TryLock
<1>9. CASE Recheck(t)
  BY <1>9 DEF Recheck, locals
<1>10. CASE UnlockEmpty(t)
  BY <1>10 DEF UnlockEmpty, locals
<1>11. CASE \E o \in Offers : Extract(t, o)
  BY <1>11 DEF Extract, Roots
<1>12. CASE UnlockExtracted(t)
  BY <1>12 DEF UnlockExtracted, locals
<1>13. CASE Uncount(t)
  BY <1>13 DEF Uncount, locals
<1>14. CASE DeleteReturn(t)
  BY <1>14 DEF DeleteReturn
<1> QED
  BY <1>1, <1>2, <1>3, <1>4, <1>5, <1>6, <1>7, <1>8, <1>9, <1>10, <1>11, <1>12, <1>13, <1>14, StepCases DEF Changing

LEMMA MutexStep ==
  ASSUME Shape, MutualExclusion, NEW t \in Threads, Call(t) \/ Step(t)
  PROVE  MutualExclusion'
<1> USE ThreadAssumption DEF Shape, MutualExclusion, InCritical, Goto, PCs, InsertPCs, DeletePCs, PeekPCs, InsertCritical, DeleteCritical
<1>1. CASE Wandering(t)
  <2>1. Wander(t)
    BY <1>1, Wanders
  <2>2. /\ pc[t] \in Outside /\ pc'[t] \in Outside
        /\ \A u \in Threads \ {t} : pc'[u] = pc[u] /\ minIndex'[u] = minIndex[u]
    BY <2>1 DEF Wander
  <2>3. \A q \in Queues : ~InCritical(t, q) /\ ~InCritical(t, q)'
    BY <2>2 DEF Outside
  <2>4. \A q \in Queues, u \in Threads \ {t} : InCritical(u, q)' = InCritical(u, q)
    BY <2>1, <2>2 DEF Wander
  <2> QED
    BY <2>1, <2>3, <2>4 DEF Wander
<1>2. CASE \E o \in Offers, d \in Dists : InsertCall(t, o, d)
  BY <1>2 DEF InsertCall
<1>3. CASE Count(t)
  BY <1>3 DEF Count, locals
<1>4. CASE \E q \in Queues : LockQueue(t, q)
  BY <1>4 DEF LockQueue
<1>5. CASE HeapInsert(t)
  BY <1>5 DEF HeapInsert, locals
<1>6. CASE UnlockInserted(t)
  BY <1>6 DEF UnlockInserted, locals
<1>7. CASE InsertReturn(t)
  BY <1>7 DEF InsertReturn
<1>8. CASE TryLock(t)
  BY <1>8 DEF TryLock
<1>9. CASE Recheck(t)
  BY <1>9 DEF Recheck, locals
<1>10. CASE UnlockEmpty(t)
  BY <1>10 DEF UnlockEmpty, locals
<1>11. CASE \E o \in Offers : Extract(t, o)
  BY <1>11 DEF Extract
<1>12. CASE UnlockExtracted(t)
  BY <1>12 DEF UnlockExtracted, locals
<1>13. CASE Uncount(t)
  BY <1>13 DEF Uncount, locals
<1>14. CASE DeleteReturn(t)
  BY <1>14 DEF DeleteReturn
<1> QED
  BY <1>1, <1>2, <1>3, <1>4, <1>5, <1>6, <1>7, <1>8, <1>9, <1>10, <1>11, <1>12, <1>13, <1>14, StepCases DEF Changing

LEMMA OnePlaceStep ==
  ASSUME Shape, MutualExclusion, OnePlace, NEW t \in Threads, Call(t) \/ Step(t)
  PROVE  OnePlace'
<1> USE OfferAssumption DEF Shape, OnePlace, InHeaps, OwningPCs, Goto, PCs, InsertPCs, DeletePCs, PeekPCs, InsertCritical, DeleteCritical
<1>1. CASE Wandering(t)
  BY <1>1, Wanders DEF Wander, Outside
<1>2. CASE \E o \in Offers, d \in Dists : InsertCall(t, o, d)
  BY <1>2 DEF InsertCall, Owned
<1>3. CASE Count(t)
  BY <1>3 DEF Count, locals
<1>4. CASE \E q \in Queues : LockQueue(t, q)
  BY <1>4 DEF LockQueue
<1>5. CASE HeapInsert(t)
  BY <1>5 DEF HeapInsert, locals
<1>6. CASE UnlockInserted(t)
  BY <1>6 DEF UnlockInserted, locals
<1>7. CASE InsertReturn(t)
  BY <1>7 DEF InsertReturn
<1>8. CASE TryLock(t)
  BY <1>8 DEF TryLock
<1>9. CASE Recheck(t)
  BY <1>9 DEF Recheck, locals
<1>10. CASE UnlockEmpty(t)
  BY <1>10 DEF UnlockEmpty, locals
<1>11. CASE \E o \in Offers : Extract(t, o)
  BY <1>11 DEF Extract, Roots
<1>12. CASE UnlockExtracted(t)
  BY <1>12 DEF UnlockExtracted, locals
<1>13. CASE Uncount(t)
  BY <1>13 DEF Uncount, locals
<1>14. CASE DeleteReturn(t)
  BY <1>14 DEF DeleteReturn
<1> QED
  BY <1>1, <1>2, <1>3, <1>4, <1>5, <1>6, <1>7, <1>8, <1>9, <1>10, <1>11, <1>12, <1>13, <1>14, StepCases DEF Changing

LEMMA NonEmptyStep ==
  ASSUME Shape, MutualExclusion, ExtractNonEmpty, NEW t \in Threads, Call(t) \/ Step(t)
  PROVE  ExtractNonEmpty'
<1> USE ThreadAssumption DEF Shape, MutualExclusion, InCritical, ExtractNonEmpty, Empty, Goto, PCs, InsertPCs, DeletePCs, PeekPCs, InsertCritical, DeleteCritical
<1>1. CASE Wandering(t)
  BY SMTT(30), <1>1, Wanders DEF Wander, Outside
<1>2. CASE \E o \in Offers, d \in Dists : InsertCall(t, o, d)
  BY <1>2 DEF InsertCall
<1>3. CASE Count(t)
  BY <1>3 DEF Count, locals
<1>4. CASE \E q \in Queues : LockQueue(t, q)
  BY <1>4 DEF LockQueue
<1>5. CASE HeapInsert(t)
  BY <1>5 DEF HeapInsert, locals
<1>6. CASE UnlockInserted(t)
  BY <1>6 DEF UnlockInserted, locals
<1>7. CASE InsertReturn(t)
  BY <1>7 DEF InsertReturn
<1>8. CASE TryLock(t)
  BY <1>8 DEF TryLock
<1>9. CASE Recheck(t)
  BY <1>9 DEF Recheck, locals
<1>10. CASE UnlockEmpty(t)
  BY <1>10 DEF UnlockEmpty, locals
<1>11. CASE \E o \in Offers : Extract(t, o)
  BY <1>11 DEF Extract, Roots
<1>12. CASE UnlockExtracted(t)
  BY <1>12 DEF UnlockExtracted, locals
<1>13. CASE Uncount(t)
  BY <1>13 DEF Uncount, locals
<1>14. CASE DeleteReturn(t)
  BY <1>14 DEF DeleteReturn
<1> QED
  BY <1>1, <1>2, <1>3, <1>4, <1>5, <1>6, <1>7, <1>8, <1>9, <1>10, <1>11, <1>12, <1>13, <1>14, StepCases DEF Changing

LEMMA CountedFinite == IsFiniteSet(CountedOffers) /\ Cardinality(CountedOffers) \in Nat
BY OfferAssumption, FS_Subset, FS_CardinalityType DEF CountedOffers

LEMMA CardWithout ==
  ASSUME NEW S, IsFiniteSet(S), NEW x, x \in S
  PROVE  Cardinality(S \ {x}) = Cardinality(S) - 1
BY FS_RemoveElement

LEMMA CountStep ==
  ASSUME Shape, OnePlace, CountExact, NEW t \in Threads, Call(t) \/ Step(t)
  PROVE  CountExact'
<1> USE OfferAssumption DEF Shape, OnePlace, CountExact, CountedOffers, CountedPCs, InHeaps, OwningPCs, Goto, PCs, InsertPCs, DeletePCs, PeekPCs, InsertCritical, DeleteCritical
<1>1. CASE Wandering(t)
  <2>1. CountedOffers' = CountedOffers
    BY SMTT(30), <1>1, Wanders DEF Wander, Outside, PeekPCs
  <2> QED
    BY <1>1, <2>1, Wanders DEF Wander
<1>2. CASE \E o \in Offers, d \in Dists : InsertCall(t, o, d)
  <2>1. CountedOffers' = CountedOffers
    BY <1>2 DEF InsertCall
  <2> QED
    BY <1>2, <2>1 DEF InsertCall
<1>3. CASE Count(t)
  <2>1. CountedOffers' = CountedOffers \cup {hand[t]} /\ hand[t] \notin CountedOffers
    BY <1>3 DEF Count, locals
  <2> QED
    BY ZenonT(30), <1>3, <2>1, CountedFinite, FS_AddElement DEF Count
<1>4. CASE \E q \in Queues : LockQueue(t, q)
  <2>1. CountedOffers' = CountedOffers
    BY <1>4 DEF LockQueue
  <2> QED
    BY <1>4, <2>1 DEF LockQueue
<1>5. CASE HeapInsert(t)
  <2>1. CountedOffers' = CountedOffers
    BY <1>5 DEF HeapInsert, locals
  <2> QED
    BY <1>5, <2>1 DEF HeapInsert, locals
<1>6. CASE UnlockInserted(t)
  <2>1. CountedOffers' = CountedOffers
    BY <1>6 DEF UnlockInserted, locals
  <2> QED
    BY <1>6, <2>1 DEF UnlockInserted, locals
<1>7. CASE InsertReturn(t)
  <2>1. CountedOffers' = CountedOffers
    BY <1>7 DEF InsertReturn
  <2> QED
    BY <1>7, <2>1 DEF InsertReturn
<1>8. CASE TryLock(t)
  <2>1. CountedOffers' = CountedOffers
    BY <1>8 DEF TryLock
  <2> QED
    BY <1>8, <2>1 DEF TryLock
<1>9. CASE Recheck(t)
  <2>1. CountedOffers' = CountedOffers
    BY <1>9 DEF Recheck, locals
  <2> QED
    BY <1>9, <2>1 DEF Recheck, locals
<1>10. CASE UnlockEmpty(t)
  <2>1. CountedOffers' = CountedOffers
    BY <1>10 DEF UnlockEmpty, locals
  <2> QED
    BY <1>10, <2>1 DEF UnlockEmpty, locals
<1>11. CASE \E o \in Offers : Extract(t, o)
  <2>1. CountedOffers' = CountedOffers
    BY <1>11 DEF Extract, Roots
  <2> QED
    BY <1>11, <2>1 DEF Extract, Roots
<1>12. CASE UnlockExtracted(t)
  <2>1. CountedOffers' = CountedOffers
    BY <1>12 DEF UnlockExtracted, locals
  <2> QED
    BY <1>12, <2>1 DEF UnlockExtracted, locals
<1>13. CASE Uncount(t)
  <2>1. CountedOffers' = CountedOffers \ {hand[t]} /\ hand[t] \in CountedOffers
    BY <1>13 DEF Uncount, locals
  <2> HIDE DEF CountedOffers
  <2>2. Cardinality(CountedOffers \ {hand[t]}) = Cardinality(CountedOffers) - 1
    BY ONLY <2>1, CountedFinite, CardWithout
  <2>3. numOffers' = numOffers - 1
    BY <1>13 DEF Uncount
  <2> QED
    BY <2>1, <2>2, <2>3
<1>14. CASE DeleteReturn(t)
  <2>1. CountedOffers' = CountedOffers
    BY <1>14 DEF DeleteReturn
  <2> QED
    BY <1>14, <2>1 DEF DeleteReturn
<1> QED
  BY <1>1, <1>2, <1>3, <1>4, <1>5, <1>6, <1>7, <1>8, <1>9, <1>10, <1>11, <1>12, <1>13, <1>14, StepCases DEF Changing

-----------------------------------------------------------------------------
LEMMA InitInv == Init => IInv
<1> SUFFICES ASSUME Init PROVE IInv
  OBVIOUS
<1>1. Shape
  BY DEF Init, Shape, PCs, NoSample, InsertCritical, DeleteCritical, PeekPCs
<1>2. MutualExclusion /\ OnePlace /\ ExtractNonEmpty
  BY ThreadAssumption DEF Init, MutualExclusion, InCritical, OnePlace, OwningPCs, ExtractNonEmpty
<1>3. CountExact
  <2>1. CountedOffers = {}
    BY DEF Init, CountedOffers, CountedPCs, InHeaps
  <2> QED
    BY <2>1, FS_EmptySet DEF Init, CountExact
<1> QED
  BY <1>1, <1>2, <1>3 DEF IInv

LEMMA StepInv == IInv /\ [Next]_vars => IInv'
<1> SUFFICES ASSUME IInv, [Next]_vars PROVE IInv'
  OBVIOUS
<1>1. CASE Next
  <2>1. PICK t \in Threads : Call(t) \/ Step(t)
    BY <1>1 DEF Next
  <2> QED
    BY <2>1, ShapeStep, MutexStep, OnePlaceStep, NonEmptyStep, CountStep DEF IInv
<1>2. CASE UNCHANGED vars
  BY <1>2 DEF vars, locals, IInv, Shape, MutualExclusion, InCritical, OnePlace, InHeaps,
              CountExact, CountedOffers, ExtractNonEmpty, Empty
<1> QED
  BY <1>1, <1>2

LEMMA Invariance == Spec => []IInv
BY InitInv, StepInv, PTL DEF Spec

\* Every variable keeps its type; in particular the counter never goes below
\* zero (it is an int: is_empty() would then never be true again).
THEOREM TypeCorrect == Spec => []TypeOK
<1>1. IInv => TypeOK
  BY CountedFinite DEF IInv, Shape, CountExact, TypeOK, PCs
<1> QED
  BY <1>1, Invariance, PTL

\* At most one thread is inside a heap, and a mutex is owned only meanwhile.
THEOREM HeapsAreExclusive == Spec => []MutualExclusion
<1>1. IInv => MutualExclusion
  BY DEF IInv
<1> QED
  BY <1>1, Invariance, PTL

\* numOffers is exact at every moment.
THEOREM CounterIsExact == Spec => []CountExact
<1>1. IInv => CountExact
  BY DEF IInv
<1> QED
  BY <1>1, Invariance, PTL

\* An offer is in one heap or in one thread's hands, never in two places.
THEOREM OffersAreInOnePlace == Spec => []OnePlace
<1>1. IInv => OnePlace
  BY DEF IInv
<1> QED
  BY <1>1, Invariance, PTL

\* extractMin is called on non-empty heaps only.
THEOREM ExtractsFromNonEmpty == Spec => []ExtractNonEmpty
<1>1. IInv => ExtractNonEmpty
  BY DEF IInv
<1> QED
  BY <1>1, Invariance, PTL

-----------------------------------------------------------------------------
\* The refinement of OfferPool.

phaseBar == [t \in Threads |-> Phase(pc[t])]

\* A step of the code from one control point to another is a step of the
\* abstract call from the phase of the one to the phase of the other.
LEMMA PhaseGoto ==
  ASSUME Shape, NEW t \in Threads, NEW from, NEW to, Goto(t, from, to)
  PROVE  /\ phaseBar[t] = Phase(from)
         /\ phaseBar' = [phaseBar EXCEPT ![t] = Phase(to)]
         /\ Phase(from) = Phase(to) => phaseBar' = phaseBar
BY DEF Shape, Goto, phaseBar

LEMMA PhaseValues ==
  /\ Phase("idle") = "idle" /\ Phase("count") = "insert"
  /\ Phase("lockQueue") = "put" /\ Phase("heapInsert") = "put"
  /\ Phase("unlockInserted") = "inserted" /\ Phase("inserted") = "inserted"
  /\ Phase("unlockExtracted") = "discount" /\ Phase("uncount") = "discount"
  /\ Phase("removed") = "removed" /\ Phase("refused") = "refused"
  /\ \A p \in PeekPCs \cup {"sample", "tryLock", "recheck", "extract", "unlockEmpty"} :
       Phase(p) = "deleteMin"
BY DEF Phase, PeekPCs

\* The steps of deleteMin that the pool does not see.
LEMMA SearchStutters ==
  ASSUME Shape, NEW t \in Threads,
         \/ Peeks(t) \/ FindMinI(t) \/ FindMinJ(t) \/ LoopAgain(t)
         \/ \E i, j \in Queues : Sample(t, i, j)
         \/ TryLock(t) \/ Recheck(t) \/ UnlockEmpty(t)
  PROVE  phaseBar' = phaseBar /\ UNCHANGED <<queues, hand>>
<1> DEFINE Searching == PeekPCs \cup {"sample", "tryLock", "recheck", "extract", "unlockEmpty"}
<1>1. UNCHANGED <<queues, hand>>
  BY DEF Peeks, Peek, PeekChoose, FindMinI, FindMinJ, LoopAgain, Sample, TryLock,
         Recheck, UnlockEmpty, locals
<1>2. \E from, to \in Searching : Goto(t, from, to)
  BY DEF Peeks, Peek, PeekChoose, FindMinI, FindMinJ, LoopAgain, Sample, TryLock,
         Recheck, UnlockEmpty, PeekPCs
<1> QED
  BY <1>1, <1>2, PhaseGoto, PhaseValues

LEMMA InitRefines == Init => Pool!PoolInit
BY PhaseValues DEF Init, Pool!PoolInit, InHeaps

LEMMA StepRefines ==
  ASSUME IInv, NEW t \in Threads, Call(t) \/ Step(t)
  PROVE  Pool!PoolNext \/ UNCHANGED <<InHeaps, phaseBar, hand>>
<1>1. CASE \E o \in Offers, d \in Dists : InsertCall(t, o, d)
  <2>1. PICK o \in Offers, d \in Dists : InsertCall(t, o, d)
    BY <1>1
  <2>2. ~Pool!Owned(o)
    BY <2>1 DEF InsertCall, Owned, Pool!Owned, Pool!Owning, OwningPCs, Phase, IInv, Shape,
                PCs, InsertPCs, DeletePCs, PeekPCs
  <2>3. Pool!InsertCall(t, o)
    BY <2>1, <2>2, PhaseGoto, PhaseValues
       DEF InsertCall, Pool!InsertCall, Pool!Goto, InHeaps, IInv, phaseBar
  <2> QED
    BY <2>3 DEF Pool!PoolNext
<1>2. CASE Count(t)
  <2>1. Pool!Announce(t)
    BY <1>2, PhaseGoto, PhaseValues
       DEF Count, Pool!Announce, Pool!Goto, InHeaps, IInv, phaseBar, locals
  <2> QED
    BY <2>1 DEF Pool!PoolNext, Pool!PoolStep
<1>3. CASE HeapInsert(t)
  <2>1. hand[t] \in Offers /\ queueIndex[t] \in Queues
    BY <1>3 DEF HeapInsert, Goto, IInv, OnePlace, OwningPCs, Shape, InsertCritical
  <2>2. InHeaps' = InHeaps \cup {hand[t]}
    BY <1>3, <2>1 DEF HeapInsert, InHeaps, IInv, Shape
  <2>3. Pool!Put(t)
    BY <1>3, <2>2, PhaseGoto, PhaseValues
       DEF HeapInsert, Pool!Put, Pool!Goto, IInv, phaseBar, locals
  <2> QED
    BY <2>3 DEF Pool!PoolNext, Pool!PoolStep
<1>4. CASE InsertReturn(t) \/ DeleteReturn(t)
  <2>1. Pool!Return(t)
    BY <1>4, PhaseGoto, PhaseValues
       DEF InsertReturn, DeleteReturn, Pool!Return, Pool!Goto, InHeaps, IInv, phaseBar
  <2> QED
    BY <2>1 DEF Pool!PoolNext, Pool!PoolStep
<1>5. CASE (\E q \in Queues : LockQueue(t, q)) \/ UnlockInserted(t) \/ UnlockExtracted(t)
  BY <1>5, PhaseGoto, PhaseValues
     DEF LockQueue, UnlockInserted, UnlockExtracted, InHeaps, IInv, locals
<1>6. CASE DeleteCall(t)
  <2>1. Pool!DeleteCall(t)
    BY <1>6, PhaseGoto, PhaseValues
       DEF DeleteCall, Pool!DeleteCall, Pool!Goto, InHeaps, IInv, phaseBar, locals
  <2> QED
    BY <2>1 DEF Pool!PoolNext
<1>7. CASE Refuse(t)
  <2>1. CountedOffers = {}
    BY <1>7, CountedFinite, FS_EmptySet DEF Refuse, IsEmpty, IInv, CountExact
  <2>2. Pool!Counted = {}
    <3>1. InHeaps = {}
      BY <2>1 DEF CountedOffers, InHeaps
    <3>2. \A u \in Threads : phaseBar[u] \notin {"put", "discount"}
      BY <2>1 DEF CountedOffers, CountedPCs, phaseBar, Phase, IInv, OnePlace, OwningPCs,
                  Shape, PCs, InsertPCs, DeletePCs, PeekPCs
    <3> QED
      BY <3>1, <3>2 DEF Pool!Counted, phaseBar
  <2>3. Pool!Refuse(t)
    BY <1>7, <2>2, PhaseGoto, PhaseValues
       DEF Refuse, Pool!Refuse, Pool!Goto, InHeaps, IInv, phaseBar, locals
  <2> QED
    BY <2>3 DEF Pool!PoolNext, Pool!PoolStep
<1>8. CASE \E o \in Offers : Extract(t, o)
  <2>1. PICK o \in Offers : Extract(t, o)
    BY <1>8
  <2>2. minIndex[t] \in Queues /\ o \in queues[minIndex[t]]
    BY <2>1 DEF Extract, Roots, Goto, IInv, Shape, DeleteCritical
  <2>3. o \in InHeaps /\ InHeaps' = InHeaps \ {o}
    BY <2>1, <2>2 DEF Extract, InHeaps, IInv, Shape, OnePlace
  <2>4. phaseBar[t] = "deleteMin" /\ phaseBar' = [phaseBar EXCEPT ![t] = "discount"]
    BY <2>1, PhaseGoto, PhaseValues DEF Extract, IInv
  <2>5. Pool!Take(t)
    BY <2>1, <2>3, <2>4 DEF Extract, Pool!Take, Pool!Goto, phaseBar
  <2> QED
    BY <2>5 DEF Pool!PoolNext, Pool!PoolStep
<1>9. CASE Uncount(t)
  <2>1. Pool!Discount(t)
    BY <1>9, PhaseGoto, PhaseValues
       DEF Uncount, Pool!Discount, Pool!Goto, InHeaps, IInv, phaseBar, locals
  <2> QED
    BY <2>1 DEF Pool!PoolNext, Pool!PoolStep
<1>10. CASE \/ Peeks(t) \/ FindMinI(t) \/ FindMinJ(t) \/ LoopAgain(t)
            \/ \E i, j \in Queues : Sample(t, i, j)
            \/ TryLock(t) \/ Recheck(t) \/ UnlockEmpty(t)
  BY <1>10, SearchStutters DEF IInv, InHeaps
<1> QED
  BY <1>1, <1>2, <1>3, <1>4, <1>5, <1>6, <1>7, <1>8, <1>9, <1>10
     DEF Call, Step, InsertStep, DeleteStep

\* Queues, try_locks, racy sampling and the counter implement the pool of
\* offers: every offer inserted is delivered at most once, and deleteMin
\* answers false only when no offer is in a heap or on its way.
THEOREM ImplementsPool == Spec => PoolSpec
<1>1. IInv /\ [Next]_vars => [Pool!PoolNext]_(Pool!poolVars)
  <2> SUFFICES ASSUME IInv, [Next]_vars PROVE [Pool!PoolNext]_(Pool!poolVars)
    OBVIOUS
  <2>1. CASE Next
    BY <2>1, StepRefines DEF Next, Pool!poolVars, phaseBar
  <2>2. CASE UNCHANGED vars
    BY <2>2 DEF vars, locals, InHeaps, Pool!poolVars
  <2> QED
    BY <2>1, <2>2
<1> QED
  BY <1>1, InitRefines, Invariance, PTL DEF Spec, PoolSpec, Pool!PoolSpec
=============================================================================
