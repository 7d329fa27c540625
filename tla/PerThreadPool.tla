--------------------------- MODULE PerThreadPool ---------------------------
(***************************************************************************)
(* The bags of one thread of a record manager, from construction to        *)
(* destruction: the bag "retired" of a reclaimer and, with                 *)
(* pool_perthread_and_shared.h, the bag "free" of the pool; without the    *)
(* latter the pool is pool_none.h.  One action per call, except that a     *)
(* loop over the objects of a bag or over its blocks is an action per      *)
(* iteration.  The shared bag is a set of blocks.                          *)
(***************************************************************************)
EXTENDS BlockBag

CONSTANTS POOL_THRESHOLD_IN_BLOCKS,
          scanThreshold  \* of reclaimer_debraplus.h, in blocks

ASSUME BagsAssumption == Bags = {"retired", "free"}
\* A block for each of the two bags.
ASSUME BagsFit == \E b, c \in Blocks : b # c
\* With fewer blocks removeFullBlock would find none.
ASSUME ThresholdAssumption == POOL_THRESHOLD_IN_BLOCKS \in Nat /\ POOL_THRESHOLD_IN_BLOCKS > 2
ASSUME ScanAssumption == scanThreshold \in Nat \ {0}

VARIABLES scheme,    \* the template arguments: DEBRA or DEBRA+ with the pool, a scan by
                     \* iterator with the pool, or DEBRA with pool_none
          mem,       \* the blocks and bags of this thread
          shared,    \* the blocks in the shared bag
          held,      \* the objects the program has in use
          announced, \* what a scan has found announced by some thread
          pc,
          it, nextswap \* the iterators of a scan

vars == <<scheme, mem, shared, held, announced, pc, it, nextswap>>

Pooled == scheme # "unpooled"

NoIterator == [curr |-> NULL, ix |-> 1]

TypeOK ==
  /\ scheme \in {"debra", "debraplus", "filter", "unpooled"}
  /\ mem \in Heaps
  /\ shared \subseteq Blocks
  /\ held \subseteq Objects
  /\ announced \subseteq Objects
  /\ pc \in {"idle", "give", "clear", "filter", "swap", "moveAll", "giveLast", "clearLast",
             "deleteBag", "drainShared", "clearFree", "deletePool", "destroyed"}
  /\ {it, nextswap} \subseteq [curr : Blocks \cup {NULL}, ix : 1 .. BLOCK_SIZE]

Init ==
  /\ scheme \in {"debra", "debraplus", "filter", "unpooled"}
  /\ mem = InitHeap(IF Pooled THEN Bags ELSE {"retired"})
  /\ shared = {} /\ held = {} /\ announced = {}
  /\ pc = "idle"
  /\ it = NoIterator /\ nextswap = NoIterator

Goto(from, to) == pc = from /\ pc' = to

Alive(k) == mem.head[k] # NULL

InBag(k) == IF Alive(k) THEN Contents(mem, k) ELSE {}

Unallocated == Objects \ (held \cup InBag("retired") \cup InBag("free") \cup ObjectsIn(mem, shared))

-----------------------------------------------------------------------------
\* get, add and retire

TakeFrom(m) ==
  /\ held' = held \cup {Removed(m, "free")}
  /\ mem' = BagRemove(m, "free")

GetOwn ==
  /\ ~IsEmpty(mem, "free")
  /\ TakeFrom(mem)
  /\ UNCHANGED shared

GetShared ==
  /\ IsEmpty(mem, "free")
  /\ \E b \in shared :
       /\ TakeFrom(AddFullBlock(mem, "free", b))
       /\ shared' = shared \ {b}

\* Nothing to reuse: a block full of new objects.
GetNew ==
  /\ IsEmpty(mem, "free") /\ shared = {} /\ CanAllocate(mem)
  /\ \E new \in [1 .. BLOCK_SIZE -> Unallocated] :
       /\ IsInjective(new)
       /\ TakeFrom(BagAddBlock(mem, "free", new))
  /\ UNCHANGED shared

GetUnpooled ==
  /\ \E o \in Unallocated : held' = held \cup {o}
  /\ UNCHANGED <<mem, shared>>

Get ==
  /\ pc = "idle"
  /\ IF Pooled THEN GetOwn \/ GetShared \/ GetNew ELSE GetUnpooled
  /\ UNCHANGED <<scheme, announced, pc, it, nextswap>>

\* The blockbag::add that hands a block to the shared bag when the bag has grown.
PoolAdd(m, o) ==
  LET p == BagAdd(m, "free", o)
  IN  IF p.head # m.head /\ p.sizeInBlocks["free"] > POOL_THRESHOLD_IN_BLOCKS
      THEN [mem |-> RemoveFullBlock(p, "free"), given |-> {SecondBlock(p, "free")}]
      ELSE [mem |-> p, given |-> {}]

Put(o) ==
  /\ pc = "idle" /\ o \in held
  /\ held' = held \ {o}
  /\ IF Pooled
     THEN /\ CanAdd(mem, "free")
          /\ mem' = PoolAdd(mem, o).mem
          /\ shared' = shared \cup PoolAdd(mem, o).given
     ELSE UNCHANGED <<mem, shared>>
  /\ UNCHANGED <<scheme, announced, pc, it, nextswap>>

Retire(o) ==
  /\ pc = "idle" /\ o \in held /\ CanAdd(mem, "retired")
  /\ held' = held \ {o}
  /\ mem' = BagAdd(mem, "retired", o)
  /\ UNCHANGED <<scheme, shared, announced, pc, it, nextswap>>

-----------------------------------------------------------------------------
\* rotateEpochBags of DEBRA: addMoveFullBlocks(tid, bag)

Rotate ==
  /\ scheme \in {"debra", "unpooled"}
  /\ Goto("idle", IF Pooled THEN "give" ELSE "clear")
  /\ mem' = IF Pooled
            THEN AppendMoveFullBlocks(mem, "free", "retired", mem.head["retired"])
            ELSE mem
  /\ UNCHANGED <<scheme, shared, held, announced, it, nextswap>>

\* tryGiveFreeObjects
Give ==
  /\ pc \in {"give", "giveLast"}
  /\ mem.sizeInBlocks["free"] >= POOL_THRESHOLD_IN_BLOCKS
  /\ mem' = RemoveFullBlock(mem, "free")
  /\ shared' = shared \cup {SecondBlock(mem, "free")}
  /\ UNCHANGED <<scheme, held, announced, pc, it, nextswap>>

GiveEnd ==
  /\ Goto("give", "idle") \/ Goto("giveLast", "deleteBag")
  /\ mem.sizeInBlocks["free"] < POOL_THRESHOLD_IN_BLOCKS
  /\ UNCHANGED <<scheme, mem, shared, held, announced, it, nextswap>>

\* deallocateAndClear of allocator_new
Clear(k) ==
  /\ ~IsEmpty(mem, k)
  /\ mem' = BagRemove(mem, k)
  /\ UNCHANGED <<scheme, shared, held, announced, pc, it, nextswap>>

ClearRetired == pc \in {"clear", "clearLast"} /\ Clear("retired")

ClearEnd ==
  /\ pc \in {"clear", "clearLast"} /\ IsEmpty(mem, "retired")
  /\ Goto("clear", "idle") \/ Goto("clearLast", "deleteBag")
  /\ UNCHANGED <<scheme, mem, shared, held, announced, it, nextswap>>

-----------------------------------------------------------------------------
\* rotateEpochBags of DEBRA+: swap the announced objects to the front, move the
\* blocks behind them.

StartSwap ==
  /\ scheme = "debraplus" /\ Goto("idle", "swap")
  /\ mem.sizeInBlocks["retired"] >= scanThreshold
  /\ announced' \in SUBSET InBag("retired")
  /\ it' = Begin(mem, "retired") /\ nextswap' = it'
  /\ UNCHANGED <<scheme, mem, shared, held>>

\* Mutant: announced objects stay where they are.
SwapStepInPlace ==
  /\ pc = "swap" /\ it.curr # NULL
  /\ nextswap' = IF At(mem, it) \in announced THEN Advance(mem, nextswap) ELSE nextswap
  /\ it' = Advance(mem, it)
  /\ UNCHANGED <<scheme, mem, shared, held, announced, pc>>

\* Mutant: nextswap advances for every object.
SwapStepAlways ==
  /\ pc = "swap" /\ it.curr # NULL
  /\ mem' = IF At(mem, it) \in announced THEN Swap(mem, it, nextswap) ELSE mem
  /\ nextswap' = Advance(mem, nextswap)
  /\ it' = Advance(mem, it)
  /\ UNCHANGED <<scheme, shared, held, announced, pc>>

SwapStep ==
  /\ pc = "swap" /\ it.curr # NULL
  /\ IF At(mem, it) \in announced
     THEN /\ mem' = Swap(mem, it, nextswap)
          /\ nextswap' = Advance(mem, nextswap)
     ELSE UNCHANGED <<mem, nextswap>>
  /\ it' = Advance(mem, it)
  /\ UNCHANGED <<scheme, shared, held, announced, pc>>

SwapEnd ==
  /\ it.curr = NULL
  /\ Goto("swap", IF nextswap.curr = NULL THEN "idle" ELSE "give")
  /\ mem' = IF nextswap.curr = NULL THEN mem
            ELSE AppendMoveFullBlocks(mem, "free", "retired", nextswap.curr)
  /\ announced' = {} /\ nextswap' = NoIterator
  /\ UNCHANGED <<scheme, shared, held, it>>

-----------------------------------------------------------------------------
\* A scan that uses erase() of the iterator, as reclaimer_debraplus.h:211-213 describes it.

StartFilter ==
  /\ scheme = "filter" /\ Goto("idle", "filter")
  /\ announced' \in SUBSET InBag("retired")
  /\ it' = Begin(mem, "retired")
  /\ UNCHANGED <<scheme, mem, shared, held, nextswap>>

FilterKeep ==
  /\ pc = "filter" /\ it.curr # NULL
  /\ At(mem, it) \in announced
  /\ it' = Advance(mem, it)
  /\ UNCHANGED <<scheme, mem, shared, held, announced, pc, nextswap>>

FilterErase ==
  /\ pc = "filter" /\ it.curr # NULL
  /\ At(mem, it) \notin announced /\ CanAdd(mem, "free")
  /\ LET added == PoolAdd(mem, At(mem, it))
     IN  /\ mem' = Erase(added.mem, "retired", it.curr, it.ix)
         /\ it' = AfterErase(added.mem, "retired", it)
         /\ shared' = shared \cup added.given
  /\ UNCHANGED <<scheme, held, announced, pc, nextswap>>

FilterEnd ==
  /\ Goto("filter", "idle") /\ it.curr = NULL
  /\ announced' = {}
  /\ UNCHANGED <<scheme, mem, shared, held, it, nextswap>>

-----------------------------------------------------------------------------
\* The destructors, in the order ~record_manager_single_type runs them.

\* addMoveAll
DestroyReclaimer ==
  /\ Goto("idle", IF Pooled THEN "moveAll" ELSE "clearLast")
  /\ mem' = IF Pooled
            THEN AppendMoveFullBlocks(mem, "free", "retired", mem.head["retired"])
            ELSE mem
  /\ UNCHANGED <<scheme, shared, held, announced, it, nextswap>>

MoveOne ==
  /\ pc = "moveAll" /\ ~IsEmpty(mem, "retired") /\ CanAdd(BagRemove(mem, "retired"), "free")
  /\ mem' = BagAdd(BagRemove(mem, "retired"), "free", Removed(mem, "retired"))
  /\ UNCHANGED <<scheme, shared, held, announced, pc, it, nextswap>>

MoveAllEnd ==
  /\ Goto("moveAll", "giveLast") /\ IsEmpty(mem, "retired")
  /\ mem' = Recount(mem, "free")
  /\ UNCHANGED <<scheme, shared, held, announced, it, nextswap>>

\* The destructor of an empty bag gives its block to the blockpool.
DeleteBag(m, k) == [DeallocateBlock(m, m.head[k]) EXCEPT !.head[k] = NULL]

\* Mutant: the blocks of the bag are not given back.
DeleteRetiredBagLeak ==
  /\ Goto("deleteBag", IF Pooled THEN "drainShared" ELSE "deletePool")
  /\ mem' = [mem EXCEPT !.head["retired"] = NULL]
  /\ UNCHANGED <<scheme, shared, held, announced, it, nextswap>>

DeleteRetiredBag ==
  /\ Goto("deleteBag", IF Pooled THEN "drainShared" ELSE "deletePool")
  /\ mem' = DeleteBag(mem, "retired")
  /\ UNCHANGED <<scheme, shared, held, announced, it, nextswap>>

DrainShared ==
  /\ pc = "drainShared"
  /\ \E b \in shared :
       /\ mem' = DeallocateBlock([mem EXCEPT !.data[b] = <<>>], b)
       /\ shared' = shared \ {b}
  /\ UNCHANGED <<scheme, held, announced, pc, it, nextswap>>

DrainSharedEnd ==
  /\ Goto("drainShared", "clearFree") /\ shared = {}
  /\ UNCHANGED <<scheme, mem, shared, held, announced, it, nextswap>>

ClearFree == pc = "clearFree" /\ Clear("free")

DeleteFreeBag ==
  /\ Goto("clearFree", "deletePool") /\ IsEmpty(mem, "free")
  /\ mem' = DeleteBag(mem, "free")
  /\ UNCHANGED <<scheme, shared, held, announced, it, nextswap>>

DeletePool ==
  /\ Goto("deletePool", "destroyed")
  /\ mem' = [mem EXCEPT !.live = @ \ ToSet(mem.pool), !.pool = <<>>]
  /\ UNCHANGED <<scheme, shared, held, announced, it, nextswap>>

Destroyed == pc = "destroyed" /\ UNCHANGED vars

Next ==
  \/ Get
  \/ \E o \in Objects : Put(o) \/ Retire(o)
  \/ Rotate \/ Give \/ GiveEnd \/ ClearRetired \/ ClearEnd
  \/ StartSwap \/ SwapStep \/ SwapEnd
  \/ StartFilter \/ FilterKeep \/ FilterErase \/ FilterEnd
  \/ DestroyReclaimer \/ MoveOne \/ MoveAllEnd \/ DeleteRetiredBag
  \/ DrainShared \/ DrainSharedEnd \/ ClearFree \/ DeleteFreeBag \/ DeletePool
  \/ Destroyed

Spec == Init /\ [][Next]_vars

-----------------------------------------------------------------------------
\* The invariants blockbag.h:205-209 states, of every bag after every call and
\* after every iteration of a loop: no head block is full, every other block is,
\* tail is the last block and sizeInBlocks counts them.
Validate ==
  \A k \in {j \in Bags : Alive(j)} :
    LET bs == BlocksOf(mem, k)
    IN  /\ Len(mem.data[Head(bs)]) < BLOCK_SIZE
        /\ \A b \in ToSet(Tail(bs)) : Len(mem.data[b]) = BLOCK_SIZE
        /\ mem.tail[k] = Last(bs)
        /\ mem.sizeInBlocks[k] = Len(bs)

\* Every block that is allocated is in one place: in one bag, once, in the shared
\* bag or in the blockpool; those in the blockpool are empty (blockpool.h:59, 79).
BlocksInOnePlace ==
  LET lists == [k \in Bags |-> IF Alive(k) THEN BlocksOf(mem, k) ELSE <<>>]
      places == [k \in Bags |-> ToSet(lists[k])]
  IN  /\ \A k \in Bags : IsInjective(lists[k])
      /\ \A j, k \in Bags : j # k => places[j] \cap places[k] = {}
      /\ IsInjective(mem.pool)
      /\ \A k \in Bags : places[k] \cap (shared \cup ToSet(mem.pool)) = {}
      /\ shared \cap ToSet(mem.pool) = {}
      /\ mem.live = (UNION {places[k] : k \in Bags}) \cup shared \cup ToSet(mem.pool)
      /\ \A b \in ToSet(mem.pool) : mem.data[b] = <<>>

\* No object is in two slots of the bags, or in a bag and with the program: a
\* record handed out twice, or freed while it is in use.
OnePlace ==
  LET blocks == mem.live \ ToSet(mem.pool)
      slots == {s \in blocks \X (1 .. BLOCK_SIZE) : s[2] <= Len(mem.data[s[1]])}
  IN  \A s \in slots :
        /\ mem.data[s[1]][s[2]] \notin held
        /\ \A t \in slots : mem.data[s[1]][s[2]] = mem.data[t[1]][t[2]] => s = t

\* An iteration that erases meets every object once, although erase() moves
\* others into the hole (blockbag.h:333-334): what is left is announced.
FilterExact == [][pc = "filter" /\ pc' = "idle" => InBag("retired")' \subseteq announced]_vars

\* Swapping the announced objects to the front pays: of the blocks behind the
\* head only as many stay as the announced objects fill, and one.
ScanLeavesFew ==
  [][SwapEnd => mem.sizeInBlocks'["retired"] <= Cardinality(announced) \div BLOCK_SIZE + 2]_vars

\* The destructors leave no block allocated and no object in a bag.
NothingLeft ==
  pc = "destroyed" => mem.live = {} /\ shared = {} /\ mem.pool = <<>>

\* The bags implement the pool of objects.
Recycling == INSTANCE RecyclingPool WITH
  retired <- InBag("retired"),
  available <- InBag("free") \cup ObjectsIn(mem, shared)

RecyclingSpec == Recycling!PoolSpec
=============================================================================
