--------------------------- MODULE PriorityQueue ---------------------------
(***************************************************************************)
(* What class MultiQueues takes a heap to be: a set of offers, from which  *)
(* extractMin removes one of the smallest (actions HeapInsert and Extract  *)
(* of module MultiQueues).                                                 *)
(***************************************************************************)
EXTENDS Integers

CONSTANTS Offers, Dists

VARIABLES queue,  \* the offers in the heap
          key     \* their distances

Smallest == {o \in queue : \A other \in queue : key[o] <= key[other]}

QueueInit == queue = {} /\ key \in [Offers -> Dists]

\* The caller fills in a record that is not in the heap.
SetDist(o, d) ==
  /\ o \notin queue
  /\ key' = [key EXCEPT ![o] = d]
  /\ UNCHANGED queue

Insert(o) ==
  /\ o \notin queue
  /\ queue' = queue \cup {o}
  /\ UNCHANGED key

ExtractMin(o) ==
  /\ o \in Smallest
  /\ queue' = queue \ {o}
  /\ UNCHANGED key

QueueNext == \E o \in Offers : Insert(o) \/ ExtractMin(o) \/ \E d \in Dists : SetDist(o, d)

QueueSpec == QueueInit /\ [][QueueNext]_<<queue, key>>
=============================================================================
