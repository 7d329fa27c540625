------------------------------ MODULE DaryHeap ------------------------------
(***************************************************************************)
(* One heap of class MultiQueues: dAryMinHeap.cpp and Heap.cpp.            *)
(*                                                                         *)
(* The owner of the heap's mutex inserts and extracts, one step per write  *)
(* to the array, to its size or to the pointer to it; another thread calls *)
(* findMin without the mutex (MultiQueues.cpp:83) between any two of them. *)
(* An array that increase_size has deleted holds anything.                 *)
(***************************************************************************)
EXTENDS Integers

CONSTANTS D,         \* the arity
          Capacity,  \* of a new heap: QUEUE_CAPACITY
          Offers,    \* the addresses of offer records
          Dists,     \* the values of offer->dist
          INT_MAX,
          NULL

ASSUME ArityAssumption == D \in Nat \ {0}
ASSUME CapacityAssumption == Capacity \in Nat \ {0}
ASSUME DistAssumption ==
  INT_MAX \in Int /\ Dists \subseteq Int /\ \A d \in Dists : d <= INT_MAX
ASSUME NullAssumption == NULL \notin Offers

VARIABLES heap_size, capacity, elements,
          array,    \* the identity of the array elements points to
          deleted,  \* that array has been deleted, line 28 of Heap.cpp
          dist,     \* dist of each offer
          pc,       \* what the owner executes next
          offer,    \* its local offer or min_offer
          key,      \* its local dist
          i,        \* its local i
          temp,     \* the temporary of std::swap
          rpc,      \* what the unlocked reader executes next
          rarray,   \* the array whose address it has loaded
          root      \* what findMin returned to it

arrayVars == <<heap_size, capacity, elements, array, deleted>>
ownerVars == <<dist, offer, key, i, temp>>
readerVars == <<rpc, rarray, root>>
vars == <<arrayVars, ownerVars, pc, readerVars>>

PCs == {"idle", "grow", "assign", "count", "append", "sift", "clear",
        "moveLast", "clearLast", "countDown", "heapify", "swap"}

TypeOK ==
  /\ heap_size \in 0 .. capacity
  /\ capacity \in Nat
  /\ elements \in [0 .. IF deleted THEN capacity \div 2 - 1 ELSE capacity - 1 -> Offers \cup {NULL}]
  /\ array \in Nat
  /\ deleted \in BOOLEAN
  /\ dist \in [Offers -> Dists \cup {INT_MAX}]
  /\ pc \in PCs
  /\ offer \in Offers \cup {NULL}
  /\ key \in Dists \cup {INT_MAX}
  /\ i \in 0 .. capacity - 1
  /\ temp \in Offers \cup {NULL}
  /\ rpc \in {"idle", "load", "read"}
  /\ rarray \in Nat
  /\ root \in Offers \cup {NULL}

Init ==
  /\ heap_size = 0 /\ capacity = Capacity
  /\ elements = [n \in 0 .. Capacity - 1 |-> NULL]
  /\ array = 0 /\ deleted = FALSE
  /\ dist \in [Offers -> Dists]
  /\ pc = "idle"
  /\ offer = NULL /\ temp = NULL
  /\ key = INT_MAX /\ i = 0
  /\ rpc = "idle" /\ rarray = 0 /\ root = NULL

PARENT(n) == (n - 1) \div D

CHILD(n, c) == D * n + c + 1

Goto(from, to) == pc = from /\ pc' = to

\* The offers in the heap for its users: one is in from heap_size++ to heap_size--.
Slots == {elements[n] : n \in 0 .. heap_size - 1} \ {NULL}
Contents ==
  Slots \cup (IF pc \in {"append", "sift", "clear", "moveLast", "clearLast", "countDown"}
              THEN {offer} ELSE IF pc = "swap" THEN {temp} ELSE {})

-----------------------------------------------------------------------------
\* insert

\* Mutant: the heap grows one insertion too late.
InsertGrowLate(o, d) ==
  /\ Goto("idle", IF heap_size > capacity THEN "grow" ELSE "count")
  /\ o \notin Contents
  /\ dist' = [dist EXCEPT ![o] = d]
  /\ offer' = o /\ key' = d
  /\ UNCHANGED <<arrayVars, i, temp, readerVars>>

Insert(o, d) ==
  /\ Goto("idle", IF heap_size >= capacity THEN "grow" ELSE "count")
  /\ o \notin Contents
  /\ dist' = [dist EXCEPT ![o] = d]
  /\ offer' = o /\ key' = d
  /\ UNCHANGED <<arrayVars, i, temp, readerVars>>

\* increase_size, up to delete [] elements
DeleteArray ==
  /\ Goto("grow", "assign")
  /\ capacity' = capacity * 2
  /\ deleted' = TRUE
  /\ UNCHANGED <<heap_size, elements, array, ownerVars, readerVars>>

\* Mutant: the copy stops one short.
AssignArrayShort ==
  /\ Goto("assign", "count")
  /\ elements' = [n \in 0 .. capacity - 1 |-> IF n < capacity \div 2 - 1 THEN elements[n] ELSE NULL]
  /\ array' = array + 1 /\ deleted' = FALSE
  /\ UNCHANGED <<heap_size, capacity, ownerVars, readerVars>>

AssignArray ==
  /\ Goto("assign", "count")
  /\ elements' = [n \in 0 .. capacity - 1 |-> IF n < capacity \div 2 THEN elements[n] ELSE NULL]
  /\ array' = array + 1 /\ deleted' = FALSE
  /\ UNCHANGED <<heap_size, capacity, ownerVars, readerVars>>

CountUp ==
  /\ Goto("count", "append")
  /\ heap_size' = heap_size + 1
  /\ UNCHANGED <<capacity, elements, array, deleted, ownerVars, readerVars>>

Append ==
  /\ Goto("append", "sift")
  /\ elements' = [elements EXCEPT ![heap_size - 1] = offer]
  /\ dist' = [dist EXCEPT ![offer] = INT_MAX]
  /\ i' = heap_size - 1
  /\ UNCHANGED <<heap_size, capacity, array, deleted, offer, key, temp, readerVars>>

\* The condition of decreaseKey's loop.
ParentIsLarger == i > 0 /\ dist[elements[PARENT(i)]] > key

SiftCopy ==
  /\ Goto("sift", "clear")
  /\ ParentIsLarger
  /\ elements' = [elements EXCEPT ![i] = elements[PARENT(i)]]
  /\ UNCHANGED <<heap_size, capacity, array, deleted, ownerVars, readerVars>>

SiftClear ==
  /\ Goto("clear", "sift")
  /\ elements' = [elements EXCEPT ![PARENT(i)] = NULL]
  /\ i' = PARENT(i)
  /\ UNCHANGED <<heap_size, capacity, array, deleted, dist, offer, key, temp, readerVars>>

Place ==
  /\ Goto("sift", "idle")
  /\ ~ParentIsLarger
  /\ elements' = [elements EXCEPT ![i] = offer]
  /\ dist' = [dist EXCEPT ![offer] = key]
  /\ offer' = NULL /\ key' = INT_MAX /\ i' = 0
  /\ UNCHANGED <<heap_size, capacity, array, deleted, temp, readerVars>>

-----------------------------------------------------------------------------
\* extractMin; deleteMin has seen under the mutex that there is an offer.

ExtractMin ==
  /\ Goto("idle", "moveLast")
  /\ heap_size # 0
  /\ offer' = elements[0]
  /\ UNCHANGED <<arrayVars, dist, key, i, temp, readerVars>>

MoveLast ==
  /\ Goto("moveLast", "clearLast")
  /\ elements' = [elements EXCEPT ![0] = elements[heap_size - 1]]
  /\ UNCHANGED <<heap_size, capacity, array, deleted, ownerVars, readerVars>>

\* Mutant: the line marked "todo check" is missing.
ClearLastNot ==
  /\ Goto("clearLast", "countDown")
  /\ UNCHANGED <<arrayVars, ownerVars, readerVars>>

ClearLast ==
  /\ Goto("clearLast", "countDown")
  /\ elements' = [elements EXCEPT ![heap_size - 1] = NULL]
  /\ UNCHANGED <<heap_size, capacity, array, deleted, ownerVars, readerVars>>

CountDown ==
  /\ Goto("countDown", "heapify")
  /\ heap_size' = heap_size - 1
  /\ i' = 0
  /\ UNCHANGED <<capacity, elements, array, deleted, dist, offer, key, temp, readerVars>>

\* minHeapify

Children(n) == {CHILD(n, c) : c \in 0 .. D - 1}

\* Mutant: the test of the last index is off by one.
ComparedPastEnd(n) == {child \in Children(n) : child <= heap_size}

\* The children whose distance is compared.
Compared(n) == {child \in Children(n) : child < heap_size}

\* The first of the smallest children that are smaller than n, or n.
SmallestOf(n) ==
  CHOOSE s \in Compared(n) \cup {n} :
    \A other \in (Compared(n) \cup {n}) \ {s} :
      \/ dist[elements[s]] < dist[elements[other]]
      \/ dist[elements[s]] = dist[elements[other]] /\ s < other

Sinks == Compared(i) # {} /\ SmallestOf(i) # i

SwapFirst ==
  /\ Goto("heapify", "swap")
  /\ Sinks
  /\ temp' = elements[i]
  /\ elements' = [elements EXCEPT ![i] = elements[SmallestOf(i)]]
  /\ i' = SmallestOf(i)
  /\ UNCHANGED <<heap_size, capacity, array, deleted, dist, offer, key, readerVars>>

SwapSecond ==
  /\ Goto("swap", "heapify")
  /\ elements' = [elements EXCEPT ![i] = temp]
  /\ temp' = NULL
  /\ UNCHANGED <<heap_size, capacity, array, deleted, dist, offer, key, i, readerVars>>

ExtractReturn ==
  /\ Goto("heapify", "idle")
  /\ ~Sinks
  /\ offer' = NULL /\ i' = 0
  /\ UNCHANGED <<arrayVars, dist, key, temp, readerVars>>

-----------------------------------------------------------------------------
\* findMin by a thread without the mutex

FindMinEmpty ==
  /\ rpc = "idle" /\ heap_size = 0
  /\ root' = NULL
  /\ UNCHANGED <<arrayVars, ownerVars, pc, rpc, rarray>>

FindMinNonEmpty ==
  /\ rpc = "idle" /\ heap_size # 0
  /\ rpc' = "load"
  /\ UNCHANGED <<arrayVars, ownerVars, pc, rarray, root>>

FindMinLoad ==
  /\ rpc = "load" /\ rpc' = "read"
  /\ rarray' = array
  /\ UNCHANGED <<arrayVars, ownerVars, pc, root>>

ArrayGone == deleted \/ rarray # array

FindMinRead ==
  /\ rpc = "read" /\ rpc' = "idle"
  /\ \E o \in Offers \cup {NULL} : (ArrayGone \/ o = elements[0]) /\ root' = o
  /\ rarray' = 0
  /\ UNCHANGED <<arrayVars, ownerVars, pc>>

-----------------------------------------------------------------------------
OwnerStep ==
  \/ \E o \in Offers, d \in Dists : Insert(o, d)
  \/ DeleteArray \/ AssignArray \/ CountUp \/ Append \/ SiftCopy \/ SiftClear \/ Place
  \/ ExtractMin \/ MoveLast \/ ClearLast \/ CountDown
  \/ SwapFirst \/ SwapSecond \/ ExtractReturn

ReaderStep == FindMinEmpty \/ FindMinNonEmpty \/ FindMinLoad \/ FindMinRead

Next == OwnerStep \/ ReaderStep

Spec == Init /\ [][Next]_vars

-----------------------------------------------------------------------------
\* Properties

\* Every element whose distance decreaseKey or minHeapify compares is there: the
\* nullptrs that both write into the array (dAryMinHeap.cpp:42, 72) are never
\* dereferenced.
NoNullCompared ==
  /\ pc = "sift" /\ i > 0 => elements[PARENT(i)] # NULL
  /\ pc = "heapify" /\ Compared(i) # {} =>
       \A n \in Compared(i) \cup {i} : n \in DOMAIN elements /\ elements[n] # NULL

Key == [o \in Offers |-> IF o = offer /\ pc \in {"sift", "clear"} THEN key ELSE dist[o]]

PQ == INSTANCE PriorityQueue WITH queue <- Contents, key <- Key

\* The array is a priority queue: nothing is lost or doubled by a swap, a hole or
\* a growth, and extractMin returns a smallest offer (dAryMinHeap.cpp:68-78).
QueueSpec == PQ!QueueSpec

\* What MultiQueues assumes of a findMin without the mutex (its RootReads),
\* unless the array has been replaced since its address was loaded: a minimum, or
\* null if there is none; while the owner is at work any offer in the heap or in
\* the owner's hands, or null.
RootRead ==
  [][FindMinRead /\ ~ArrayGone =>
       root' \in IF pc # "idle" THEN Contents \cup {offer, NULL}
                 ELSE IF Contents = {} THEN {NULL} ELSE PQ!Smallest]_vars
=============================================================================
