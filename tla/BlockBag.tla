------------------------------ MODULE BlockBag ------------------------------
(***************************************************************************)
(* blockbag.h and blockpool.h: bags of objects as linked lists of blocks,  *)
(* all of one thread.                                                      *)
(*                                                                         *)
(* The operations are operators on a heap m, a record with, for a block,   *)
(* its fields next and data (whose length is the field size); for a bag,   *)
(* head, tail and sizeInBlocks; the stack pool of a blockpool, and the set *)
(* live of the blocks that are allocated.  Slots are counted from 1.       *)
(***************************************************************************)
EXTENDS Integers, FiniteSets, SequencesExt

CONSTANTS Objects, Blocks, NULL,
          Bags,               \* the bags that share the blockpool
          BLOCK_SIZE,
          MAX_BLOCK_POOL_SIZE

ASSUME NullAssumption == NULL \notin Objects \cup Blocks
ASSUME BlockSizeAssumption == BLOCK_SIZE \in Nat \ {0}
ASSUME PoolSizeAssumption == MAX_BLOCK_POOL_SIZE \in Nat
ASSUME BlocksAssumption == IsFiniteSet(Blocks)

Heaps ==
  [next : [Blocks -> Blocks \cup {NULL}], data : [Blocks -> BoundedSeq(Objects, BLOCK_SIZE)],
   head : [Bags -> Blocks \cup {NULL}], tail : [Bags -> Blocks \cup {NULL}], sizeInBlocks : [Bags -> Nat],
   pool : BoundedSeq(Blocks, MAX_BLOCK_POOL_SIZE), live : SUBSET Blocks]

\* One empty block per bag that is made, as the constructor of blockbag leaves it.
InitHeap(made) ==
  LET block == CHOOSE f \in [made -> Blocks] : IsInjective(f)
      first == [k \in Bags |-> IF k \in made THEN block[k] ELSE NULL]
  IN  [next |-> [b \in Blocks |-> NULL], data |-> [b \in Blocks |-> <<>>],
       head |-> first, tail |-> first, sizeInBlocks |-> [k \in Bags |-> 1],
       pool |-> <<>>, live |-> Range(block)]

-----------------------------------------------------------------------------
\* blockpool

\* The block that allocateBlock returns: the top of the stack, or a new one.
Fresh(m) == IF m.pool # <<>> THEN Last(m.pool) ELSE CHOOSE b \in Blocks \ m.live : TRUE

\* When operator new finds no memory the program ends.
CanAllocate(m) == m.pool # <<>> \/ m.live # Blocks

AllocateBlock(m, next) ==
  [m EXCEPT !.pool = IF @ = <<>> THEN @ ELSE Front(@),
            !.live = @ \cup {Fresh(m)},
            !.next[Fresh(m)] = next,
            !.data[Fresh(m)] = <<>>]

\* next of a block that is given back is read by nobody; here it is reset.

\* Mutant: a block is pushed on the pool although it is full.
DeallocateBlockNoLimit(m, b) == [m EXCEPT !.next[b] = NULL, !.pool = Append(@, b)]

DeallocateBlock(m, b) ==
  IF Len(m.pool) = MAX_BLOCK_POOL_SIZE
  THEN [m EXCEPT !.next[b] = NULL, !.live = @ \ {b}]
  ELSE [m EXCEPT !.next[b] = NULL, !.pool = Append(@, b)]

-----------------------------------------------------------------------------
\* blockbag

\* The blocks of a list, first to last (one block too many if it is cyclic).
Chain(m, first) ==
  LET after[n \in 0 .. Cardinality(Blocks) + 1] ==
        IF n = 0 THEN first
        ELSE IF after[n - 1] = NULL THEN NULL ELSE m.next[after[n - 1]]
      length == Cardinality({n \in 0 .. Cardinality(Blocks) : after[n] # NULL})
  IN  [n \in 1 .. length |-> after[n - 1]]

BlocksOf(m, k) == Chain(m, m.head[k])

ObjectsIn(m, bs) == UNION {ToSet(m.data[b]) : b \in bs}

Contents(m, k) == ObjectsIn(m, ToSet(BlocksOf(m, k)))

\* sizeInBlocks = computeSizeInBlocks()
Recount(m, k) == [m EXCEPT !.sizeInBlocks[k] = Len(BlocksOf(m, k))]

HeadIsEmpty(m, k) == m.data[m.head[k]] = <<>>

IsEmpty(m, k) == m.next[m.head[k]] = NULL /\ HeadIsEmpty(m, k)

\* add: push on the head block, and prepend a new head when it is full.
BagAdd(m, k, o) ==
  LET pushed == [m EXCEPT !.data[m.head[k]] = Append(@, o)]
  IN  IF Len(pushed.data[m.head[k]]) < BLOCK_SIZE
      THEN pushed
      ELSE [AllocateBlock(pushed, m.head[k]) EXCEPT
              !.head[k] = Fresh(pushed), !.sizeInBlocks[k] = @ + 1]

\* The push leaves room, or a block for a new head is there.
CanAdd(m, k) == Len(m.data[m.head[k]]) + 1 < BLOCK_SIZE \/ CanAllocate(m)

\* The adds of a whole block of objects to a bag whose head block is empty: the
\* last one fills it.
BagAddBlock(m, k, objects) ==
  BagAdd([m EXCEPT !.data[m.head[k]] = Front(objects)], k, Last(objects))

\* The head block is empty and its successor takes its place.
DropHead(m, k) ==
  [DeallocateBlock(m, m.head[k]) EXCEPT !.head[k] = m.next[m.head[k]], !.sizeInBlocks[k] = @ - 1]

NonEmptyHead(m, k) == IF HeadIsEmpty(m, k) THEN DropHead(m, k) ELSE m

\* remove: what it returns, and what it leaves.
Removed(m, k) == LET p == NonEmptyHead(m, k) IN Last(p.data[p.head[k]])

BagRemove(m, k) ==
  LET p == NonEmptyHead(m, k) IN [p EXCEPT !.data[p.head[k]] = Front(@)]

\* Mutant: the object that fills the hole is not popped from the head.
EraseNoPop(m, k, b, ix) ==
  LET p == NonEmptyHead(m, k)
      h == p.head[k]
  IN  IF b = h
      THEN [p EXCEPT !.data[h] = Front([p.data[h] EXCEPT ![ix] = Last(p.data[h])])]
      ELSE [p EXCEPT !.data[b][ix] = Last(p.data[h])]

\* erase(curr, ix): an object of the head block fills the hole.
Erase(m, k, b, ix) ==
  LET p == NonEmptyHead(m, k)
      h == p.head[k]
  IN  IF b = h
      THEN [p EXCEPT !.data[h] = Front([p.data[h] EXCEPT ![ix] = Last(p.data[h])])]
      ELSE [p EXCEPT !.data[h] = Front(@), !.data[b][ix] = Last(p.data[h])]

\* Its result: the object now in the slot came earlier in the iteration.
FilledFromEarlier(m, k, b) == b # NonEmptyHead(m, k).head[k]

\* removeFullBlock, which finds one if the bag has at least two full blocks.
SecondBlock(m, k) == m.next[m.head[k]]

HasTwoFullBlocks(m, k) == SecondBlock(m, k) # NULL /\ m.next[SecondBlock(m, k)] # NULL

RemoveFullBlock(m, k) ==
  [m EXCEPT !.next = [@ EXCEPT ![m.head[k]] = m.next[SecondBlock(m, k)], ![SecondBlock(m, k)] = NULL],
            !.sizeInBlocks[k] = @ - 1]

\* Mutant: the tail stays.
AddFullBlockOldTail(m, k, b) ==
  [m EXCEPT !.next[m.tail[k]] = b, !.sizeInBlocks[k] = @ + 1]

AddFullBlock(m, k, b) ==
  [m EXCEPT !.next[m.tail[k]] = b, !.tail[k] = b, !.sizeInBlocks[k] = @ + 1]

\* Mutant: the predecessor is not cut off.
AppendMoveNoCut(m, to, from, predecessor) ==
  IF m.next[predecessor] = NULL THEN m
  ELSE Recount(Recount(
         [m EXCEPT !.next[m.tail[to]] = m.next[predecessor],
                   !.tail = [@ EXCEPT ![to] = m.tail[from], ![from] = predecessor]],
         to), from)

\* appendMoveFullBlocks: the blocks of from after predecessor go to the end of to.
AppendMoveFullBlocks(m, to, from, predecessor) ==
  IF m.next[predecessor] = NULL THEN m
  ELSE Recount(Recount(
         [m EXCEPT !.next = [@ EXCEPT ![m.tail[to]] = m.next[predecessor], ![predecessor] = NULL],
                   !.tail = [@ EXCEPT ![to] = m.tail[from], ![from] = predecessor]],
         to), from)

-----------------------------------------------------------------------------
\* blockbag_iterator: a block and a slot in it; at the end the block is NULL.

Advance(m, it) ==
  IF it.ix + 1 > Len(m.data[it.curr])
  THEN [curr |-> m.next[it.curr], ix |-> 1]
  ELSE [it EXCEPT !.ix = @ + 1]

Begin(m, k) ==
  LET first == [curr |-> m.head[k], ix |-> 1]
  IN  IF HeadIsEmpty(m, k) THEN Advance(m, first) ELSE first

At(m, it) == m.data[it.curr][it.ix]

Swap(m, it, other) ==
  [m EXCEPT !.data = [[@ EXCEPT ![other.curr][other.ix] = At(m, it)]
                         EXCEPT ![it.curr][it.ix] = At(m, other)]]

\* Mutant: the iterator always advances.
AfterEraseAdvance(m, k, it) == Advance(Erase(m, k, it.curr, it.ix), it)

\* Where erase() of the iterator leaves it.
AfterErase(m, k, it) ==
  LET p == Erase(m, k, it.curr, it.ix)
      inside == IF it.ix > Len(p.data[it.curr]) THEN Advance(p, it) ELSE it
  IN  IF FilledFromEarlier(m, k, it.curr) THEN Advance(p, inside) ELSE inside
=============================================================================
