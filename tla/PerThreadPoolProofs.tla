------------------------ MODULE PerThreadPoolProofs ------------------------
(***************************************************************************)
(* Proofs about the bags of one thread, for every number of blocks and     *)
(* objects, every BLOCK_SIZE and every capacity of the blockpool.          *)
(*                                                                         *)
(* A linked list is described by two functions that are not in the code: P *)
(* gives the place of every block (a bag, the shared bag, the blockpool,   *)
(* or none) and pos its place in its list, counted from the tail, so that  *)
(* a change at the head leaves it alone.  Shape says that links, lengths   *)
(* and counters agree with them.  For every operation of BlockBag a lemma  *)
(* says how P and pos change (AddIs, RemoveIs, EraseIs, RemoveFullIs,      *)
(* AddFullIs, MoveBlocksIs, ...), and others what becomes of the objects   *)
(* in the slots.  The invariant Inv says that some P and pos fit; every    *)
(* action keeps it and is a step of RecyclingPool (the lemmas ...Inv).     *)
(*                                                                         *)
(* What a scan of DEBRA+ leaves is counted (FewStay): the slots of full    *)
(* blocks hold different announced objects, BLOCK_SIZE in each block.      *)
(***************************************************************************)
EXTENDS PerThreadPool, FiniteSetTheorems, WellFoundedInduction, TLAPS

\* A set of numbers that is not empty has a least one.
LEMMA LeastNatural ==
  ASSUME NEW S \in SUBSET Nat, S # {}
  PROVE  \E n \in S : \A m \in S : n <= m
<1> DEFINE R == OpToRel(<, Nat)
<1>1. IsWellFoundedOn(R, Nat)
  BY NatLessThanWellFounded
<1>2. \A x, y \in Nat : <<x, y>> \in R <=> x < y
  BY DEF OpToRel
<1> HIDE DEF R
<1>3. \E n \in S : \A m \in S : ~(<<m, n>> \in R)
  BY <1>1, WFMin
<1>4. PICK n \in S : \A m \in S : ~(<<m, n>> \in R)
  BY <1>3
<1>5. \A m \in S : n \in Nat /\ m \in Nat /\ ~(m < n)
  BY <1>2, <1>4
<1> QED
  BY <1>5

-----------------------------------------------------------------------------
\* Lists of blocks

OneToOne(B, n) == \A i, j \in 1 .. n : B[i] = B[j] => i = j

\* s is B backwards.
Reversed(s, B, n) == s \in [1 .. n -> Blocks] /\ \A i \in 1 .. n : s[i] = B[n + 1 - i]

\* A list without repetition is no longer than there are blocks.
LEMMA ListFits ==
  ASSUME NEW n \in Nat, NEW B \in [1 .. n -> Blocks], OneToOne(B, n)
  PROVE  n <= Cardinality(Blocks) /\ Cardinality(Blocks) \in Nat
<1>1. Cardinality(Blocks) \in Nat
  BY BlocksAssumption, FS_CardinalityType
<1>2. IsFiniteSet(1 .. n) /\ Cardinality(1 .. n) = n
  BY FS_Interval
<1>3. ASSUME Cardinality(Blocks) < n PROVE FALSE
  BY <1>2, <1>3, BlocksAssumption, FS_PigeonHole DEF OneToOne
<1> QED
  BY <1>1, <1>3

\* The recursion of Chain has one solution.
LEMMA ChainIs ==
  ASSUME NEW m, NEW n \in Nat \ {0}, NEW B \in [1 .. n -> Blocks], OneToOne(B, n),
         m.next[B[1]] = NULL, \A i \in 2 .. n : m.next[B[i]] = B[i - 1]
  PROVE  Reversed(Chain(m, B[n]), B, n)
<1> DEFINE C == Cardinality(Blocks)
           Eq(f) == f = [j \in 0 .. C + 1 |-> IF j = 0 THEN B[n] ELSE IF f[j - 1] = NULL THEN NULL
                                               ELSE m.next[f[j - 1]]]
           F == [j \in 0 .. C + 1 |-> IF j < n THEN B[n - j] ELSE NULL]
           G == CHOOSE f : Eq(f)
           Length(f) == Cardinality({j \in 0 .. C : f[j] # NULL})
<1>1. n <= C /\ C \in Nat
  BY ListFits
<1>2. \A i \in 1 .. n : B[i] \in Blocks /\ B[i] # NULL
  BY NullAssumption
<1>3. Eq(F)
  <2> DEFINE H == [j \in 0 .. C + 1 |-> IF j = 0 THEN B[n] ELSE IF F[j - 1] = NULL THEN NULL
                                         ELSE m.next[F[j - 1]]]
  <2>1. ASSUME NEW j \in 0 .. C + 1 PROVE F[j] = H[j]
    <3>1. CASE j = 0
      BY <1>1, <3>1
    <3>2. CASE j > 0 /\ j < n
      <4>1. F[j - 1] = B[n - (j - 1)] /\ n - j \in 1 .. n /\ n - (j - 1) \in 2 .. n /\ F[j] = B[n - j]
        BY <1>1, <3>2
      <4>2. m.next[B[n - (j - 1)]] = B[n - (j - 1) - 1] /\ n - (j - 1) - 1 = n - j
        BY <4>1
      <4> QED
        BY <1>2, <3>2, <4>1, <4>2
    <3>3. CASE j = n
      <4>1. F[j - 1] = B[1] /\ F[j] = NULL
        BY <1>1, <3>3
      <4> QED
        BY <1>2, <3>3, <4>1
    <3>4. CASE j > n
      <4>1. F[j - 1] = NULL /\ F[j] = NULL
        BY <1>1, <3>4
      <4> QED
        BY <3>4, <4>1
    <3> QED
      BY <1>1, <3>1, <3>2, <3>3, <3>4
  <2> QED
    BY <2>1
<1>4. ASSUME NEW f, Eq(f) PROVE f = F
  <2> DEFINE S == {j \in 0 .. C + 1 : f[j] # F[j]}
  <2> SUFFICES ASSUME S # {} PROVE FALSE
    BY <1>4
  <2>1. \E j \in S : \A i \in S : j <= i
    <3>1. S \in SUBSET Nat
      BY <1>1
    <3> HIDE DEF S
    <3> QED
      BY <3>1, LeastNatural
  <2>2. PICK j \in S : \A i \in S : j <= i
    BY <2>1
  <2>3. j \in 0 .. C + 1 /\ f[j] # F[j]
    OBVIOUS
  <2>4. f[j] = IF j = 0 THEN B[n] ELSE IF f[j - 1] = NULL THEN NULL ELSE m.next[f[j - 1]]
    BY <1>4, <2>3
  <2>5. F[j] = IF j = 0 THEN B[n] ELSE IF F[j - 1] = NULL THEN NULL ELSE m.next[F[j - 1]]
    BY <1>3, <2>3
  <2>6. j # 0
    BY <2>3, <2>4, <2>5
  <2>7. j - 1 \in 0 .. C + 1 /\ ~(j <= j - 1)
    BY <1>1, <2>3, <2>6
  <2>8. f[j - 1] = F[j - 1]
    BY <2>2, <2>7
  <2> QED
    BY <2>3, <2>4, <2>5, <2>8
<1>5. G = F
  BY <1>3, <1>4
<1>6. Length(F) = n
  <2>1. {j \in 0 .. C : F[j] # NULL} = 0 .. n - 1
    BY <1>1, <1>2
  <2>2. Cardinality(0 .. n - 1) = n
    BY FS_Interval
  <2> QED
    BY <2>1, <2>2
<1>7. Chain(m, B[n]) = [i \in 1 .. Length(G) |-> G[i - 1]]
  BY DEF Chain
<1> HIDE DEF G, F, Length
<1>8. Chain(m, B[n]) = [i \in 1 .. n |-> F[i - 1]]
  BY <1>5, <1>6, <1>7
<1>9. \A i \in 1 .. n : F[i - 1] = B[n + 1 - i]
  <2> USE DEF F
  <2> SUFFICES ASSUME NEW i \in 1 .. n PROVE F[i - 1] = B[n + 1 - i]
    OBVIOUS
  <2>1. i - 1 \in 0 .. C + 1 /\ i - 1 < n /\ n - (i - 1) = n + 1 - i
    BY <1>1
  <2> QED
    BY <2>1
<1>10. \A i \in 1 .. n : n + 1 - i \in 1 .. n
  OBVIOUS
<1>11. \A i \in 1 .. n : F[i - 1] \in Blocks
  BY <1>9, <1>10
<1> QED
  BY ONLY <1>8, <1>9, <1>11 DEF Reversed

-----------------------------------------------------------------------------
\* The shape of the heap.  P is the place of every block, pos its place in its
\* list, counted from the tail.

Places == Bags \cup {"shared", "pool", "none"}

Filled(m, k, b) == IF b = m.head[k] THEN Len(m.data[b]) < BLOCK_SIZE ELSE Len(m.data[b]) = BLOCK_SIZE

Linked(m, P, pos, k, b) ==
  IF pos[b] = 1 THEN m.next[b] = NULL
  ELSE m.next[b] \in Blocks /\ P[m.next[b]] = k /\ pos[m.next[b]] = pos[b] - 1

IsList(m, P, pos, k) ==
  /\ m.sizeInBlocks[k] \in Nat \ {0}
  /\ m.head[k] \in Blocks /\ P[m.head[k]] = k /\ pos[m.head[k]] = m.sizeInBlocks[k]
  /\ m.tail[k] \in Blocks /\ P[m.tail[k]] = k /\ pos[m.tail[k]] = 1
  /\ \A b \in Blocks : P[b] = k =>
       pos[b] \in 1 .. m.sizeInBlocks[k] /\ Filled(m, k, b) /\ Linked(m, P, pos, k, b)
  /\ \A b, c \in Blocks : P[b] = k /\ P[c] = k /\ pos[b] = pos[c] => b = c
  /\ \A i \in 1 .. m.sizeInBlocks[k] : \E b \in Blocks : P[b] = k /\ pos[b] = i

Lists(m, P, pos) ==
  \A k \in Bags : IF m.head[k] = NULL THEN \A b \in Blocks : P[b] # k ELSE IsList(m, P, pos, k)

InShared(m, sh, P) ==
  \A b \in Blocks : /\ b \in sh <=> P[b] = "shared"
                    /\ b \in sh => m.next[b] = NULL /\ Len(m.data[b]) = BLOCK_SIZE

InPool(m, P) ==
  /\ \A i, j \in 1 .. Len(m.pool) : m.pool[i] = m.pool[j] => i = j
  /\ \A b \in Blocks : P[b] = "pool" <=> \E i \in 1 .. Len(m.pool) : m.pool[i] = b
  /\ \A b \in Blocks : P[b] = "pool" => m.data[b] = <<>>

Live(m, P) == \A b \in Blocks : b \in m.live <=> P[b] # "none"

Shape(m, sh, P, pos) ==
  /\ m \in Heaps /\ sh \subseteq Blocks
  /\ P \in [Blocks -> Places] /\ pos \in [Blocks -> Nat]
  /\ Lists(m, P, pos) /\ InShared(m, sh, P) /\ InPool(m, P) /\ Live(m, P)

-----------------------------------------------------------------------------
\* Types

\* What a bounded sequence is, without the sets it is defined by.
LEMMA BoundedIs ==
  ASSUME NEW S, NEW n \in Nat, NEW s
  PROVE  s \in BoundedSeq(S, n) <=> s \in Seq(S) /\ Len(s) <= n
<1>1. ASSUME s \in BoundedSeq(S, n) PROVE s \in Seq(S) /\ Len(s) <= n
  BY <1>1 DEF BoundedSeq, SeqOf
<1>2. ASSUME s \in Seq(S), Len(s) <= n PROVE s \in BoundedSeq(S, n)
  <2>1. s \in [1 .. Len(s) -> S] /\ Len(s) \in 0 .. n
    BY <1>2
  <2> QED
    BY <2>1 DEF BoundedSeq, SeqOf
<1> QED
  BY <1>1, <1>2

IsHeap(m) ==
  /\ m.next \in [Blocks -> Blocks \cup {NULL}]
  /\ DOMAIN m.data = Blocks /\ m.data = [b \in Blocks |-> m.data[b]]
  /\ \A b \in Blocks : m.data[b] \in Seq(Objects) /\ Len(m.data[b]) <= BLOCK_SIZE
  /\ m.head \in [Bags -> Blocks \cup {NULL}]
  /\ m.tail \in [Bags -> Blocks \cup {NULL}]
  /\ m.sizeInBlocks \in [Bags -> Nat]
  /\ m.pool \in Seq(Blocks) /\ Len(m.pool) <= MAX_BLOCK_POOL_SIZE
  /\ m.live \in SUBSET Blocks

Heap(m) == [next |-> m.next, data |-> m.data, head |-> m.head, tail |-> m.tail,
            sizeInBlocks |-> m.sizeInBlocks, pool |-> m.pool, live |-> m.live]

\* A heap is a record of its seven fields, each of its type.
LEMMA HeapIs ==
  ASSUME NEW m
  PROVE  m \in Heaps <=> IsHeap(m) /\ m = Heap(m)
<1>1. ASSUME m \in Heaps PROVE IsHeap(m) /\ m = Heap(m)
  <2>1. m = Heap(m)
    BY <1>1 DEF Heaps, Heap
  <2>2. m.data \in [Blocks -> BoundedSeq(Objects, BLOCK_SIZE)] /\ m.pool \in BoundedSeq(Blocks, MAX_BLOCK_POOL_SIZE)
    BY <1>1 DEF Heaps
  <2>3. \A b \in Blocks : m.data[b] \in Seq(Objects) /\ Len(m.data[b]) <= BLOCK_SIZE
    BY <2>2, BoundedIs, BlockSizeAssumption
  <2>4. m.pool \in Seq(Blocks) /\ Len(m.pool) <= MAX_BLOCK_POOL_SIZE
    BY <2>2, BoundedIs, PoolSizeAssumption
  <2> QED
    BY <1>1, <2>1, <2>2, <2>3, <2>4 DEF Heaps, IsHeap
<1>2. ASSUME IsHeap(m), m = Heap(m) PROVE m \in Heaps
  <2>1. \A b \in Blocks : m.data[b] \in BoundedSeq(Objects, BLOCK_SIZE)
    BY <1>2, BoundedIs, BlockSizeAssumption DEF IsHeap
  <2>2. m.data \in [Blocks -> BoundedSeq(Objects, BLOCK_SIZE)]
    BY <1>2, <2>1 DEF IsHeap
  <2>3. m.pool \in BoundedSeq(Blocks, MAX_BLOCK_POOL_SIZE)
    BY <1>2, BoundedIs, PoolSizeAssumption DEF IsHeap
  <2>4. Heap(m) \in Heaps
    BY <1>2, <2>2, <2>3 DEF IsHeap, Heap, Heaps
  <2> QED
    BY <1>2, <2>4
<1> QED
  BY <1>1, <1>2

-----------------------------------------------------------------------------
\* What BlocksOf returns

\* B is the blocks of bag k, first to last.
ListOf(B, P, pos, k, n) ==
  /\ B \in [1 .. n -> Blocks]
  /\ \A i \in 1 .. n : P[B[i]] = k /\ pos[B[i]] = n + 1 - i
  /\ \A b \in Blocks : P[b] = k => B[n + 1 - pos[b]] = b

\* BlocksOf follows the links from the head to the tail of a bag.
LEMMA BlocksAre ==
  ASSUME NEW m, NEW P \in [Blocks -> Places], NEW pos \in [Blocks -> Nat], NEW k, IsList(m, P, pos, k)
  PROVE  ListOf(BlocksOf(m, k), P, pos, k, m.sizeInBlocks[k])
<1> DEFINE n == m.sizeInBlocks[k]
           B == [i \in 1 .. n |-> CHOOSE b \in Blocks : P[b] = k /\ pos[b] = i]
<1>1. n \in Nat \ {0}
  BY DEF IsList
<1>2. \A i \in 1 .. n : B[i] \in Blocks /\ P[B[i]] = k /\ pos[B[i]] = i
  BY DEF IsList
<1> HIDE DEF B
<1>3. B \in [1 .. n -> Blocks] /\ OneToOne(B, n)
  <2>1. OneToOne(B, n)
    BY <1>2 DEF OneToOne
  <2> QED
    BY <1>2, <2>1 DEF B
<1>4. \A b \in Blocks : P[b] = k => B[pos[b]] = b
  BY <1>2 DEF IsList
<1>5. m.next[B[1]] = NULL /\ \A i \in 2 .. n : m.next[B[i]] = B[i - 1]
  <2>1. m.next[B[1]] = NULL
    BY <1>1, <1>2 DEF IsList, Linked
  <2>2. ASSUME NEW i \in 2 .. n PROVE m.next[B[i]] = B[i - 1]
    <3>1. pos[B[i]] = i /\ i # 1 /\ P[B[i]] = k /\ B[i] \in Blocks
      BY <1>1, <1>2
    <3>2. m.next[B[i]] \in Blocks /\ P[m.next[B[i]]] = k /\ pos[m.next[B[i]]] = i - 1
      BY <3>1 DEF IsList, Linked
    <3> QED
      BY <1>4, <3>2
  <2> QED
    BY <2>1, <2>2
<1>6. B[n] = m.head[k]
  BY <1>4 DEF IsList
<1>7. BlocksOf(m, k) \in [1 .. n -> Blocks] /\ \A i \in 1 .. n : BlocksOf(m, k)[i] = B[n + 1 - i]
  <2> HIDE DEF n
  <2>1. Reversed(Chain(m, B[n]), B, n)
    BY <1>1, <1>3, <1>5, ChainIs
  <2> QED
    BY <1>6, <2>1 DEF BlocksOf, Reversed
<1>8. \A i \in 1 .. n : n + 1 - i \in 1 .. n
  BY <1>1
<1>9. ASSUME NEW b \in Blocks, P[b] = k PROVE BlocksOf(m, k)[n + 1 - pos[b]] = b
  <2>1. pos[b] \in 1 .. n
    BY <1>9 DEF IsList
  <2>2. n + 1 - pos[b] \in 1 .. n /\ n + 1 - (n + 1 - pos[b]) = pos[b]
    BY <1>1, <2>1
  <2> QED
    BY <1>4, <1>7, <1>9, <2>2
<1>10. BlocksOf(m, k) \in [1 .. n -> Blocks]
  BY <1>7
<1>11. \A i \in 1 .. n : P[BlocksOf(m, k)[i]] = k /\ pos[BlocksOf(m, k)[i]] = n + 1 - i
  BY <1>2, <1>7, <1>8
<1> QED
  BY <1>9, <1>10, <1>11 DEF ListOf

-----------------------------------------------------------------------------
\* Sequences

\* A sequence without its last element.
LEMMA FrontIs ==
  ASSUME NEW S, NEW s \in Seq(S), s # <<>>
  PROVE  /\ Front(s) \in Seq(S) /\ Len(s) \in Nat \ {0} /\ Len(Front(s)) = Len(s) - 1
         /\ \A i \in 1 .. Len(s) - 1 : Front(s)[i] = s[i]
         /\ Last(s) \in S /\ Last(s) = s[Len(s)]
<1> PICK n \in Nat \ {0} : n = Len(s)
  OBVIOUS
<1>1. Front(s) = SubSeq(s, 1, n - 1)
  BY DEF Front
<1>2. Len(SubSeq(s, 1, n - 1)) = n - 1 /\ \A i \in 1 .. n - 1 : SubSeq(s, 1, n - 1)[i] = s[i]
  OBVIOUS
<1>3. SubSeq(s, 1, n - 1) \in Seq(S)
  OBVIOUS
<1>4. s[n] \in S
  OBVIOUS
<1> QED
  BY <1>1, <1>2, <1>3, <1>4 DEF Last

\* A sequence with one more element.
LEMMA AppendIs ==
  ASSUME NEW S, NEW s \in Seq(S), NEW o \in S
  PROVE  /\ Append(s, o) \in Seq(S) /\ Len(Append(s, o)) = Len(s) + 1 /\ Len(s) \in Nat
         /\ \A i \in 1 .. Len(s) : Append(s, o)[i] = s[i]
         /\ Append(s, o)[Len(s) + 1] = o
OBVIOUS

-----------------------------------------------------------------------------
\* The blockpool

\* Block x leaves the pool, or is new.
LEMMA PoolPop ==
  ASSUME NEW m \in Heaps, NEW P \in [Blocks -> Places], InPool(m, P), Live(m, P), CanAllocate(m)
  PROVE  /\ Fresh(m) \in Blocks /\ P[Fresh(m)] \in {"pool", "none"}
         /\ LET q == IF m.pool = <<>> THEN m.pool ELSE Front(m.pool)
            IN  /\ q \in Seq(Blocks) /\ Len(q) <= MAX_BLOCK_POOL_SIZE
                /\ \A i, j \in 1 .. Len(q) : q[i] = q[j] => i = j
                /\ \A b \in Blocks : (P[b] = "pool" /\ b # Fresh(m)) <=> \E i \in 1 .. Len(q) : q[i] = b
<1> PICK x : x = Fresh(m)
  OBVIOUS
<1>1. IsHeap(m)
  BY HeapIs
<1>2. CASE m.pool = <<>>
  <2>1. x \in Blocks \ m.live
    <3>1. \E b \in Blocks : b \in Blocks \ m.live
      BY <1>1, <1>2 DEF CanAllocate, IsHeap
    <3>2. x = CHOOSE b \in Blocks \ m.live : TRUE
      BY <1>2 DEF Fresh
    <3> QED
      BY <3>1, <3>2
  <2>2. P[x] = "none" /\ \A b \in Blocks : P[b] # "pool"
    BY <1>2, <2>1 DEF Live, InPool
  <2> QED
    BY <1>1, <1>2, <2>1, <2>2 DEF IsHeap
<1>3. CASE m.pool # <<>>
  <2> PICK q : q = Front(m.pool)
    OBVIOUS
  <2> PICK n \in Nat \ {0} : n = Len(m.pool)
    BY <1>1, <1>3, FrontIs DEF IsHeap
  <2>1. /\ q \in Seq(Blocks) /\ Len(q) = n - 1 /\ \A i \in 1 .. n - 1 : q[i] = m.pool[i]
        /\ x \in Blocks /\ x = m.pool[n]
    <3>1. m.pool \in Seq(Blocks)
      BY <1>1 DEF IsHeap
    <3>2. x = Last(m.pool)
      BY <1>3 DEF Fresh
    <3> QED
      BY ONLY <1>3, <3>1, <3>2, FrontIs, q = Front(m.pool), n = Len(m.pool)
  <2>2. \A i, j \in 1 .. n : m.pool[i] = m.pool[j] => i = j
    BY DEF InPool
  <2>3. \A b \in Blocks : P[b] = "pool" <=> \E i \in 1 .. n : m.pool[i] = b
    BY DEF InPool
  <2>4. P[x] = "pool"
    BY <2>1, <2>3
  <2>5. \A i, j \in 1 .. n - 1 : q[i] = q[j] => i = j
    BY <2>1, <2>2
  <2>6. ASSUME NEW b \in Blocks PROVE (P[b] = "pool" /\ b # x) <=> \E i \in 1 .. n - 1 : q[i] = b
    <3>1. ASSUME P[b] = "pool", b # x PROVE \E i \in 1 .. n - 1 : q[i] = b
      <4>1. PICK i \in 1 .. n : m.pool[i] = b
        BY <2>3, <3>1
      <4>2. i \in 1 .. n - 1
        BY <2>1, <3>1, <4>1
      <4> QED
        BY <2>1, <4>1, <4>2
    <3>2. ASSUME NEW i \in 1 .. n - 1, q[i] = b PROVE P[b] = "pool" /\ b # x
      <4>1. i \in 1 .. n /\ m.pool[i] = b /\ i # n /\ n \in 1 .. n
        BY <2>1, <3>2
      <4> QED
        BY <2>1, <2>2, <2>3, <4>1
    <3> QED
      BY <3>1, <3>2
  <2>7. n - 1 <= MAX_BLOCK_POOL_SIZE
    BY <1>1, PoolSizeAssumption DEF IsHeap
  <2> QED
    BY <1>3, <2>1, <2>4, <2>5, <2>6, <2>7
<1> QED
  BY <1>2, <1>3

\* The place of a block that is given back.
Back(m) == IF Len(m.pool) = MAX_BLOCK_POOL_SIZE THEN "none" ELSE "pool"

\* Block x goes to the pool, or is deleted when the pool is full.
LEMMA PoolPush ==
  ASSUME NEW m \in Heaps, NEW P \in [Blocks -> Places], InPool(m, P), NEW x \in Blocks, P[x] # "pool"
  PROVE  LET q == IF Len(m.pool) = MAX_BLOCK_POOL_SIZE THEN m.pool ELSE Append(m.pool, x)
             Q == [P EXCEPT ![x] = Back(m)]
         IN  /\ q \in Seq(Blocks) /\ Len(q) <= MAX_BLOCK_POOL_SIZE
             /\ \A i, j \in 1 .. Len(q) : q[i] = q[j] => i = j
             /\ \A b \in Blocks : Q[b] = "pool" <=> \E i \in 1 .. Len(q) : q[i] = b
<1>1. IsHeap(m)
  BY HeapIs
<1> PICK n \in Nat : n = Len(m.pool)
  BY <1>1 DEF IsHeap
<1>2. \A i, j \in 1 .. n : m.pool[i] = m.pool[j] => i = j
  BY DEF InPool
<1>3. \A b \in Blocks : P[b] = "pool" <=> \E i \in 1 .. n : m.pool[i] = b
  BY DEF InPool
<1>4. CASE n = MAX_BLOCK_POOL_SIZE
  <2> PICK Q : Q = [P EXCEPT ![x] = "none"]
    OBVIOUS
  <2>1. \A b \in Blocks : Q[b] = "pool" <=> P[b] = "pool"
    OBVIOUS
  <2>2. m.pool \in Seq(Blocks) /\ Len(m.pool) <= MAX_BLOCK_POOL_SIZE
    BY <1>1 DEF IsHeap
  <2> QED
    BY <1>2, <1>3, <1>4, <2>1, <2>2 DEF Back
<1>5. CASE n # MAX_BLOCK_POOL_SIZE
  <2> PICK q : q = Append(m.pool, x)
    OBVIOUS
  <2> PICK Q : Q = [P EXCEPT ![x] = "pool"]
    OBVIOUS
  <2>1. /\ q \in Seq(Blocks) /\ Len(q) = n + 1 /\ \A i \in 1 .. n : q[i] = m.pool[i]
        /\ q[n + 1] = x
    BY <1>1 DEF IsHeap
  <2>2. n + 1 <= MAX_BLOCK_POOL_SIZE
    BY <1>1, <1>5, PoolSizeAssumption DEF IsHeap
  <2>3. \A i \in 1 .. n : m.pool[i] # x
    BY <1>3
  <2>4. \A i \in 1 .. n + 1 : i \in 1 .. n \/ i = n + 1
    OBVIOUS
  <2>5. \A i, j \in 1 .. n + 1 : q[i] = q[j] => i = j
    BY <1>2, <2>1, <2>3, <2>4
  <2>6. ASSUME NEW b \in Blocks PROVE Q[b] = "pool" <=> \E i \in 1 .. n + 1 : q[i] = b
    <3>1. CASE b = x
      <4>1. n + 1 \in 1 .. n + 1
        OBVIOUS
      <4> QED
        BY <2>1, <3>1, <4>1
    <3>2. CASE b # x
      <4>1. Q[b] = P[b]
        BY <3>2
      <4>2. \A i \in 1 .. n : i \in 1 .. n + 1
        OBVIOUS
      <4> QED
        BY <1>3, <2>1, <2>4, <3>2, <4>1, <4>2
    <3> QED
      BY <3>1, <3>2
  <2> QED
    BY <1>5, <2>1, <2>2, <2>5, <2>6 DEF Back
<1> QED
  BY <1>4, <1>5

-----------------------------------------------------------------------------
\* Lists that a step leaves alone

Kept(m, w, P, pos, Q, qos, k) ==
  /\ w.head[k] = m.head[k] /\ w.tail[k] = m.tail[k] /\ w.sizeInBlocks[k] = m.sizeInBlocks[k]
  /\ \A b \in Blocks :
       /\ Q[b] = k <=> P[b] = k
       /\ P[b] = k => qos[b] = pos[b] /\ w.next[b] = m.next[b] /\ Len(w.data[b]) = Len(m.data[b])

\* A list whose blocks, links and lengths are kept is still one.
LEMMA ListFrame ==
  ASSUME NEW m, NEW w, NEW P, NEW pos, NEW Q, NEW qos, NEW k,
         IsList(m, P, pos, k), Kept(m, w, P, pos, Q, qos, k)
  PROVE  IsList(w, Q, qos, k)
<1>1. w.head[k] = m.head[k] /\ w.tail[k] = m.tail[k] /\ w.sizeInBlocks[k] = m.sizeInBlocks[k]
  BY DEF Kept
<1>2. \A b \in Blocks : Q[b] = k <=> P[b] = k
  BY DEF Kept
<1>3. \A b \in Blocks : P[b] = k => qos[b] = pos[b] /\ w.next[b] = m.next[b] /\ Len(w.data[b]) = Len(m.data[b])
  BY DEF Kept
<1>4. /\ w.sizeInBlocks[k] \in Nat \ {0}
      /\ w.head[k] \in Blocks /\ Q[w.head[k]] = k /\ qos[w.head[k]] = w.sizeInBlocks[k]
      /\ w.tail[k] \in Blocks /\ Q[w.tail[k]] = k /\ qos[w.tail[k]] = 1
  BY <1>1, <1>2, <1>3 DEF IsList
<1>5. ASSUME NEW b \in Blocks, Q[b] = k
      PROVE  qos[b] \in 1 .. w.sizeInBlocks[k] /\ Filled(w, k, b) /\ Linked(w, Q, qos, k, b)
  <2>1. pos[b] \in 1 .. m.sizeInBlocks[k] /\ Filled(m, k, b) /\ Linked(m, P, pos, k, b)
    BY <1>2, <1>5 DEF IsList
  <2>2. P[b] = k /\ qos[b] = pos[b] /\ w.next[b] = m.next[b] /\ Len(w.data[b]) = Len(m.data[b])
    BY <1>2, <1>3, <1>5
  <2>3. Filled(w, k, b)
    BY <1>1, <2>1, <2>2 DEF Filled
  <2>4. Linked(w, Q, qos, k, b)
    BY <1>2, <1>3, <2>1, <2>2 DEF Linked
  <2> QED
    BY <1>1, <2>1, <2>2, <2>3, <2>4
<1>6. \A b, c \in Blocks : Q[b] = k /\ Q[c] = k /\ qos[b] = qos[c] => b = c
  BY <1>2, <1>3 DEF IsList
<1>7. \A i \in 1 .. w.sizeInBlocks[k] : \E b \in Blocks : Q[b] = k /\ qos[b] = i
  BY <1>1, <1>2, <1>3 DEF IsList
<1> QED
  BY <1>4, <1>5, <1>6, <1>7 DEF IsList

\* The lists of the bags outside S are kept, those of S are given.
LEMMA OtherLists ==
  ASSUME NEW m, NEW w, NEW P, NEW pos, NEW Q, NEW qos, NEW S \in SUBSET Bags,
         Lists(m, P, pos),
         \A k \in Bags \ S : Kept(m, w, P, pos, Q, qos, k),
         \A k \in S : w.head[k] # NULL /\ IsList(w, Q, qos, k)
  PROVE  Lists(w, Q, qos)
<1> SUFFICES ASSUME NEW k \in Bags
             PROVE  IF w.head[k] = NULL THEN \A b \in Blocks : Q[b] # k ELSE IsList(w, Q, qos, k)
  BY DEF Lists
<1>1. CASE k \in S
  BY <1>1
<1>2. CASE k \notin S
  <2>1. Kept(m, w, P, pos, Q, qos, k)
    BY <1>2
  <2>2. w.head[k] = m.head[k] /\ \A b \in Blocks : Q[b] = k <=> P[b] = k
    BY <2>1 DEF Kept
  <2>3. CASE m.head[k] = NULL
    BY <2>2, <2>3 DEF Lists
  <2>4. CASE m.head[k] # NULL
    BY <2>1, <2>2, <2>4, ListFrame DEF Lists
  <2> QED
    BY <2>3, <2>4
<1> QED
  BY <1>1, <1>2

ShapeParts(m, sh, P, pos) ==
  /\ IsHeap(m) /\ m = Heap(m) /\ sh \subseteq Blocks
  /\ P \in [Blocks -> Places] /\ pos \in [Blocks -> Nat]
  /\ Lists(m, P, pos) /\ InShared(m, sh, P) /\ InPool(m, P) /\ Live(m, P)

\* Shape with the type of the heap spelled out.
LEMMA ShapeIs ==
  ASSUME NEW m, NEW sh, NEW P, NEW pos
  PROVE  Shape(m, sh, P, pos) <=> ShapeParts(m, sh, P, pos)
BY HeapIs DEF Shape, ShapeParts

\* A step that changes the contents of blocks only.
OnlyData(m, w) ==
  /\ w.next = m.next /\ w.head = m.head /\ w.tail = m.tail
  /\ w.sizeInBlocks = m.sizeInBlocks /\ w.pool = m.pool /\ w.live = m.live

\* Such a step keeps the type of the heap when the contents have theirs.
LEMMA DataHeap ==
  ASSUME NEW m, NEW w, IsHeap(m), OnlyData(m, w),
         DOMAIN w.data = Blocks, w.data = [b \in Blocks |-> w.data[b]],
         \A b \in Blocks : w.data[b] \in Seq(Objects) /\ Len(w.data[b]) <= BLOCK_SIZE
  PROVE  IsHeap(w)
<1>1. /\ m.next \in [Blocks -> Blocks \cup {NULL}] /\ m.head \in [Bags -> Blocks \cup {NULL}]
      /\ m.tail \in [Bags -> Blocks \cup {NULL}] /\ m.sizeInBlocks \in [Bags -> Nat]
      /\ m.pool \in Seq(Blocks) /\ Len(m.pool) <= MAX_BLOCK_POOL_SIZE /\ m.live \in SUBSET Blocks
  BY DEF IsHeap
<1>2. /\ w.next = m.next /\ w.head = m.head /\ w.tail = m.tail
      /\ w.sizeInBlocks = m.sizeInBlocks /\ w.pool = m.pool /\ w.live = m.live
  BY DEF OnlyData
<1> QED
  BY <1>1, <1>2 DEF IsHeap

\* A change of contents that respects the lengths keeps the shape.
LEMMA DataShape ==
  ASSUME NEW m, NEW w, NEW sh, NEW P, NEW pos,
         Shape(m, sh, P, pos), OnlyData(m, w), w = Heap(w), IsHeap(w),
         \A b \in Blocks : /\ P[b] = "pool" => w.data[b] = m.data[b]
                           /\ P[b] = "shared" => Len(w.data[b]) = Len(m.data[b])
                           /\ \A k \in Bags : P[b] = k => Filled(w, k, b)
  PROVE  Shape(w, sh, P, pos)
<1>1. ShapeParts(m, sh, P, pos)
  BY ShapeIs
<1>2. ASSUME NEW k \in Bags, w.head[k] # NULL PROVE IsList(w, P, pos, k)
  <2>1. IsList(m, P, pos, k)
    BY <1>1, <1>2 DEF ShapeParts, Lists, OnlyData
  <2>2. \A b \in Blocks : Linked(m, P, pos, k, b) => Linked(w, P, pos, k, b)
    BY DEF OnlyData, Linked
  <2>3. \A b \in Blocks : P[b] = k => Filled(w, k, b)
    OBVIOUS
  <2> QED
    BY <2>1, <2>2, <2>3 DEF IsList, OnlyData
<1>3. Lists(w, P, pos)
  BY <1>1, <1>2 DEF Lists, ShapeParts, OnlyData
<1>4. InShared(w, sh, P)
  BY <1>1 DEF InShared, ShapeParts, OnlyData
<1>5. InPool(w, P)
  BY <1>1 DEF InPool, ShapeParts, OnlyData
<1>6. Live(w, P)
  BY <1>1 DEF Live, ShapeParts, OnlyData
<1>7. ShapeParts(w, sh, P, pos)
  BY <1>1, <1>3, <1>4, <1>5, <1>6 DEF ShapeParts
<1> QED
  BY <1>7, ShapeIs

-----------------------------------------------------------------------------
\* BagAdd

\* What adding o to bag k changes in the blocks.
Added(m, w, P, Q, pos, qos, k, o) ==
  /\ w.data[m.head[k]] = Append(m.data[m.head[k]], o)
  /\ \A b \in Blocks :
       IF Q[b] # P[b] THEN Q[b] = k /\ P[b] \in {"pool", "none"} /\ w.data[b] = <<>>
       ELSE qos[b] = pos[b] /\ (P[b] # "none" /\ b # m.head[k] => w.data[b] = m.data[b])

\* o is pushed on the head block h.
Pushed(m, w, h, o) ==
  /\ OnlyData(m, w) /\ w = Heap(w) /\ IsHeap(w)
  /\ w.data[h] = Append(m.data[h], o) /\ Len(w.data[h]) = Len(m.data[h]) + 1
  /\ \A b \in Blocks : b # h => w.data[b] = m.data[b]

\* The push of add on a head block with room.
LEMMA PushIs ==
  ASSUME NEW m \in Heaps, NEW h \in Blocks, NEW o \in Objects, Len(m.data[h]) < BLOCK_SIZE
  PROVE  Pushed(m, [m EXCEPT !.data[h] = Append(@, o)], h, o)
<1>1. IsHeap(m) /\ m = Heap(m)
  BY HeapIs
<1>2. PICK d : d = Append(m.data[h], o)
  OBVIOUS
<1>3. m.data[h] \in Seq(Objects) /\ Len(m.data[h]) + 1 <= BLOCK_SIZE
  BY <1>1, BlockSizeAssumption DEF IsHeap
<1>4. d \in Seq(Objects) /\ Len(d) = Len(m.data[h]) + 1
  BY <1>2, <1>3, AppendIs
<1>5. PICK D : D = [m.data EXCEPT ![h] = d]
  OBVIOUS
<1>6. D[h] = d /\ DOMAIN D = Blocks /\ D = [b \in Blocks |-> D[b]] /\ \A b \in Blocks : b # h => D[b] = m.data[b]
  BY <1>1, <1>5 DEF IsHeap
<1>7. PICK w : w = [m EXCEPT !.data = D]
  OBVIOUS
<1>8. [m EXCEPT !.data[h] = Append(@, o)] = w
  BY <1>1, <1>2, <1>5, <1>7 DEF IsHeap, Heap
<1>9. OnlyData(m, w) /\ w = Heap(w) /\ w.data = D
  BY <1>1, <1>7 DEF Heap, OnlyData
<1>10. \A b \in Blocks : D[b] \in Seq(Objects) /\ Len(D[b]) <= BLOCK_SIZE
  BY <1>1, <1>3, <1>4, <1>6 DEF IsHeap
<1>11. IsHeap(w)
  BY <1>1, <1>6, <1>9, <1>10 DEF IsHeap, OnlyData
<1>12. Pushed(m, w, h, o)
  BY <1>2, <1>4, <1>6, <1>9, <1>11 DEF Pushed
<1> QED
  BY <1>8, <1>12

\* An add that leaves room in the head block.
LEMMA AddStays ==
  ASSUME NEW m, NEW w, NEW sh, NEW P, NEW pos, Shape(m, sh, P, pos), NEW k \in Bags, m.head[k] # NULL,
         NEW o \in Objects, Pushed(m, w, m.head[k], o), Len(m.data[m.head[k]]) + 1 < BLOCK_SIZE
  PROVE  Shape(w, sh, P, pos) /\ Added(m, w, P, P, pos, pos, k, o)
<1>1. ShapeParts(m, sh, P, pos)
  BY ShapeIs
<1>2. PICK h \in Blocks : h = m.head[k]
  BY <1>1 DEF ShapeParts, IsHeap
<1>3. P[h] = k
  BY <1>1, <1>2 DEF ShapeParts, Lists, IsList
<1>4. /\ OnlyData(m, w) /\ w = Heap(w) /\ IsHeap(w)
      /\ w.data[h] = Append(m.data[h], o) /\ Len(w.data[h]) < BLOCK_SIZE
      /\ \A b \in Blocks : b # h => w.data[b] = m.data[b]
  BY <1>2 DEF Pushed
<1>5. k # "pool" /\ k # "shared"
  BY BagsAssumption
<1>6. ASSUME NEW b \in Blocks, NEW j \in Bags, P[b] = j PROVE Filled(w, j, b)
  <2>1. Filled(m, j, b)
    BY <1>1, <1>6, NullAssumption DEF ShapeParts, Lists, IsList
  <2>2. w.head = m.head
    BY <1>4 DEF OnlyData
  <2>3. CASE b = h
    BY <1>2, <1>3, <1>4, <1>6, <2>2, <2>3 DEF Filled
  <2>4. CASE b # h
    BY <1>4, <2>1, <2>2, <2>4 DEF Filled
  <2> QED
    BY <2>3, <2>4
<1>7. Shape(w, sh, P, pos)
  BY <1>3, <1>4, <1>5, <1>6, DataShape
<1>8. Added(m, w, P, P, pos, pos, k, o)
  BY <1>2, <1>4 DEF Added
<1> QED
  BY <1>7, <1>8

\* o fills the head block and block x becomes the head.
Grown(m, w, k, x, o) ==
  /\ w = Heap(w) /\ IsHeap(w)
  /\ w.next[x] = m.head[k] /\ \A b \in Blocks : b # x => w.next[b] = m.next[b]
  /\ w.data[x] = <<>> /\ w.data[m.head[k]] = Append(m.data[m.head[k]], o)
  /\ Len(w.data[m.head[k]]) = BLOCK_SIZE
  /\ \A b \in Blocks : b # x /\ b # m.head[k] => w.data[b] = m.data[b]
  /\ w.head[k] = x /\ \A j \in Bags : j # k => w.head[j] = m.head[j]
  /\ w.tail = m.tail
  /\ w.sizeInBlocks[k] = m.sizeInBlocks[k] + 1
  /\ \A j \in Bags : j # k => w.sizeInBlocks[j] = m.sizeInBlocks[j]
  /\ w.live = m.live \cup {x}

\* The pool has every block whose place it is, except x.
PoolWithout(w, P, x) ==
  /\ \A i, j \in 1 .. Len(w.pool) : w.pool[i] = w.pool[j] => i = j
  /\ \A b \in Blocks : (P[b] = "pool" /\ b # x) <=> \E i \in 1 .. Len(w.pool) : w.pool[i] = b

GrownAt(P, Q, pos, qos, x, k, s) ==
  /\ Q \in [Blocks -> Places] /\ qos \in [Blocks -> Nat]
  /\ Q[x] = k /\ qos[x] = s + 1 /\ \A b \in Blocks : b # x => Q[b] = P[b] /\ qos[b] = pos[b]

\* The list with a new empty head is a list.
LEMMA GrownList ==
  ASSUME NEW m, NEW w, NEW P, NEW pos, NEW Q, NEW qos, NEW k \in Bags, NEW x \in Blocks, NEW o,
         Grown(m, w, k, x, o), IsList(m, P, pos, k), P[x] # k,
         GrownAt(P, Q, pos, qos, x, k, m.sizeInBlocks[k])
  PROVE  IsList(w, Q, qos, k)
<1>1. PICK h \in Blocks : h = m.head[k]
  BY DEF IsList
<1>2. PICK s \in Nat \ {0} : s = m.sizeInBlocks[k]
  BY DEF IsList
<1>3. P[h] = k /\ pos[h] = s /\ h # x
  BY <1>1, <1>2 DEF IsList
<1>4. m.tail[k] \in Blocks /\ P[m.tail[k]] = k /\ pos[m.tail[k]] = 1 /\ m.tail[k] # x
  BY DEF IsList
<1>5. Q[x] = k /\ qos[x] = s + 1 /\ \A b \in Blocks : b # x => Q[b] = P[b] /\ qos[b] = pos[b]
  BY <1>2 DEF GrownAt
<1>6. \A b \in Blocks : P[b] = k => pos[b] \in 1 .. s /\ Filled(m, k, b) /\ Linked(m, P, pos, k, b)
  BY <1>2 DEF IsList
<1>7. w.sizeInBlocks[k] = s + 1 /\ w.head[k] = x /\ w.tail[k] = m.tail[k]
  BY <1>2 DEF Grown
<1>8. ASSUME NEW b \in Blocks, Q[b] = k
      PROVE  qos[b] \in 1 .. s + 1 /\ Filled(w, k, b) /\ Linked(w, Q, qos, k, b)
  <2>1. CASE b = x
    <3>1. w.data[b] = <<>> /\ w.next[b] = h /\ w.head[k] = b
      BY <1>1, <2>1 DEF Grown
    <3>2. Filled(w, k, b)
      BY <3>1, BlockSizeAssumption DEF Filled
    <3>3. Linked(w, Q, qos, k, b)
      BY <1>2, <1>3, <1>5, <2>1, <3>1 DEF Linked
    <3> QED
      BY <1>2, <1>5, <2>1, <3>2, <3>3
  <2>2. CASE b # x
    <3>1. P[b] = k /\ qos[b] = pos[b] /\ pos[b] \in 1 .. s /\ Filled(m, k, b) /\ Linked(m, P, pos, k, b)
      BY <1>5, <1>6, <1>8, <2>2
    <3>2. w.next[b] = m.next[b]
      BY <2>2 DEF Grown
    <3>3. Filled(w, k, b)
      <4>1. CASE b = h
        BY <1>1, <1>7, <2>2, <4>1 DEF Grown, Filled
      <4>2. CASE b # h
        <5>1. w.data[b] = m.data[b]
          BY <1>1, <2>2, <4>2 DEF Grown
        <5> QED
          BY <1>1, <1>7, <2>2, <3>1, <4>2, <5>1 DEF Filled
      <4> QED
        BY <4>1, <4>2
    <3>4. Linked(w, Q, qos, k, b)
      <4>1. CASE pos[b] = 1
        BY <3>1, <3>2, <4>1 DEF Linked
      <4>2. CASE pos[b] # 1
        <5>1. m.next[b] \in Blocks /\ P[m.next[b]] = k /\ pos[m.next[b]] = pos[b] - 1
          BY <3>1, <4>2 DEF Linked
        <5>2. m.next[b] # x
          BY <5>1
        <5> QED
          BY <1>5, <3>1, <3>2, <4>2, <5>1, <5>2 DEF Linked
      <4> QED
        BY <4>1, <4>2
    <3> QED
      BY <3>1, <3>3, <3>4
  <2> QED
    BY <2>1, <2>2
<1>9. \A b, c \in Blocks : Q[b] = k /\ Q[c] = k /\ qos[b] = qos[c] => b = c
  <2>1. \A b, c \in Blocks : P[b] = k /\ P[c] = k /\ pos[b] = pos[c] => b = c
    BY DEF IsList
  <2>2. \A b \in Blocks : P[b] = k => pos[b] # s + 1
    BY <1>6
  <2> QED
    BY <1>5, <2>1, <2>2
<1>10. \A i \in 1 .. s + 1 : \E b \in Blocks : Q[b] = k /\ qos[b] = i
  <2>1. \A i \in 1 .. s : \E b \in Blocks : P[b] = k /\ pos[b] = i
    BY <1>2 DEF IsList
  <2>2. \A i \in 1 .. s : \E b \in Blocks : Q[b] = k /\ qos[b] = i
    BY <1>5, <2>1
  <2>3. \A i \in 1 .. s + 1 : i \in 1 .. s \/ i = s + 1
    OBVIOUS
  <2> QED
    BY <1>5, <2>2, <2>3
<1> QED
  BY <1>4, <1>5, <1>7, <1>8, <1>9, <1>10 DEF IsList

\* An add that fills the head block keeps the shape.
LEMMA GrownShape ==
  ASSUME NEW m, NEW w, NEW sh, NEW P, NEW pos, NEW Q, NEW qos, NEW k \in Bags, NEW x \in Blocks, NEW o,
         Shape(m, sh, P, pos), m.head[k] # NULL, Grown(m, w, k, x, o),
         P[x] \in {"pool", "none"}, PoolWithout(w, P, x),
         GrownAt(P, Q, pos, qos, x, k, m.sizeInBlocks[k])
  PROVE  Shape(w, sh, Q, qos) /\ Added(m, w, P, Q, pos, qos, k, o)
<1>1. ShapeParts(m, sh, P, pos)
  BY ShapeIs
<1>2. k # "pool" /\ k # "none" /\ k # "shared" /\ \A j \in Bags : j # "pool" /\ j # "none"
  BY BagsAssumption
<1>3. IsList(m, P, pos, k)
  BY <1>1 DEF ShapeParts, Lists
<1>4. PICK h \in Blocks : h = m.head[k]
  BY <1>3 DEF IsList
<1>5. P[h] = k /\ h # x
  BY <1>2, <1>3, <1>4 DEF IsList
<1>6. Q[x] = k /\ \A b \in Blocks : b # x => Q[b] = P[b] /\ qos[b] = pos[b]
  BY DEF GrownAt
<1>7. /\ \A b \in Blocks : b # x => w.next[b] = m.next[b]
      /\ w.data[x] = <<>> /\ \A b \in Blocks : b # x /\ b # h => w.data[b] = m.data[b]
      /\ w.data[h] = Append(m.data[h], o)
      /\ w.head[k] = x /\ w.live = m.live \cup {x}
  BY <1>4 DEF Grown
<1>8. IsList(w, Q, qos, k)
  BY <1>2, <1>3, GrownList
<1>9. ASSUME NEW j \in Bags, j # k PROVE Kept(m, w, P, pos, Q, qos, j)
  <2>1. w.head[j] = m.head[j] /\ w.tail[j] = m.tail[j] /\ w.sizeInBlocks[j] = m.sizeInBlocks[j]
    BY <1>9 DEF Grown
  <2>2. P[x] # j /\ P[h] # j /\ Q[x] # j
    BY <1>2, <1>5, <1>6, <1>9
  <2> QED
    BY <1>6, <1>7, <2>1, <2>2 DEF Kept
<1>10. Lists(w, Q, qos)
  <2>1. PICK S \in SUBSET Bags : S = {k}
    OBVIOUS
  <2>2. \A j \in S : w.head[j] # NULL /\ IsList(w, Q, qos, j)
    BY <1>7, <1>8, <2>1, NullAssumption
  <2>3. \A j \in Bags \ S : Kept(m, w, P, pos, Q, qos, j)
    BY <1>9, <2>1
  <2>4. Lists(m, P, pos)
    BY <1>1 DEF ShapeParts
  <2> QED
    BY ONLY <2>2, <2>3, <2>4, S \in SUBSET Bags, OtherLists
<1>11. InShared(w, sh, Q)
  <2> SUFFICES ASSUME NEW b \in Blocks
               PROVE  /\ b \in sh <=> Q[b] = "shared"
                      /\ b \in sh => w.next[b] = NULL /\ Len(w.data[b]) = BLOCK_SIZE
    BY DEF InShared
  <2>1. b \in sh <=> P[b] = "shared"
    BY <1>1 DEF InShared, ShapeParts
  <2>2. b \in sh => m.next[b] = NULL /\ Len(m.data[b]) = BLOCK_SIZE
    BY <1>1 DEF InShared, ShapeParts
  <2>3. CASE b = x
    BY <1>2, <1>6, <2>1, <2>3
  <2>4. CASE b # x
    BY <1>2, <1>5, <1>6, <1>7, <2>1, <2>2, <2>4
  <2> QED
    BY <2>3, <2>4
<1>12. InPool(w, Q)
  <2>1. \A b \in Blocks : Q[b] = "pool" <=> P[b] = "pool" /\ b # x
    BY <1>2, <1>6
  <2>2. ASSUME NEW b \in Blocks, Q[b] = "pool" PROVE w.data[b] = <<>>
    <3>1. P[b] = "pool" /\ b # x /\ b # h
      BY <1>2, <1>5, <2>1, <2>2
    <3>2. m.data[b] = <<>>
      BY <1>1, <3>1 DEF InPool, ShapeParts
    <3> QED
      BY <1>7, <3>1, <3>2
  <2> QED
    BY <2>1, <2>2 DEF InPool, PoolWithout
<1>13. Live(w, Q)
  BY <1>1, <1>2, <1>6, <1>7 DEF Live, ShapeParts
<1>14. Shape(w, sh, Q, qos)
  <2>1. sh \subseteq Blocks
    BY <1>1 DEF ShapeParts
  <2>2. Q \in [Blocks -> Places] /\ qos \in [Blocks -> Nat] /\ w = Heap(w) /\ IsHeap(w)
    BY DEF GrownAt, Grown
  <2>3. ShapeParts(w, sh, Q, qos)
    BY <1>10, <1>11, <1>12, <1>13, <2>1, <2>2 DEF ShapeParts
  <2> QED
    BY <2>3, ShapeIs
<1>15. Added(m, w, P, Q, pos, qos, k, o)
  <2>1. Q[x] # P[x]
    BY <1>2, <1>6
  <2> QED
    BY <1>4, <1>5, <1>6, <1>7, <2>1 DEF Added
<1> QED
  BY <1>14, <1>15

\* The new head of BagAdd, after the push that leaves p.
GrowBy(p, k) ==
  [AllocateBlock(p, p.head[k]) EXCEPT !.head[k] = Fresh(p), !.sizeInBlocks[k] = @ + 1]

\* The code of an add that fills the head block does what Grown says.
LEMMA GrowIs ==
  ASSUME NEW m \in Heaps, NEW p, NEW P \in [Blocks -> Places], NEW k \in Bags, NEW o,
         Pushed(m, p, m.head[k], o), Len(p.data[m.head[k]]) = BLOCK_SIZE, m.head[k] \in Blocks,
         InPool(m, P), Live(m, P), CanAllocate(m), P[m.head[k]] \notin {"pool", "none"}
  PROVE  /\ Fresh(m) \in Blocks /\ P[Fresh(m)] \in {"pool", "none"}
         /\ Grown(m, GrowBy(p, k), k, Fresh(m), o)
         /\ PoolWithout(GrowBy(p, k), P, Fresh(m))
<1>1. PICK h \in Blocks : h = m.head[k]
  OBVIOUS
<1>2. PICK x : x = Fresh(m)
  OBVIOUS
<1>3. PICK q : q = IF m.pool = <<>> THEN m.pool ELSE Front(m.pool)
  OBVIOUS
<1>4. /\ x \in Blocks /\ P[x] \in {"pool", "none"}
      /\ q \in Seq(Blocks) /\ Len(q) <= MAX_BLOCK_POOL_SIZE
      /\ \A i, j \in 1 .. Len(q) : q[i] = q[j] => i = j
      /\ \A b \in Blocks : (P[b] = "pool" /\ b # x) <=> \E i \in 1 .. Len(q) : q[i] = b
  BY <1>2, <1>3, PoolPop
<1>5. x # h
  BY <1>1, <1>4
<1>6. IsHeap(p) /\ p = Heap(p) /\ OnlyData(m, p)
  BY DEF Pushed
<1>7. PICK D : D = [p.data EXCEPT ![x] = <<>>]
  OBVIOUS
<1>8. PICK N : N = [m.next EXCEPT ![x] = h]
  OBVIOUS
<1>9. PICK H : H = [m.head EXCEPT ![k] = x]
  OBVIOUS
<1>10. PICK Z : Z = [m.sizeInBlocks EXCEPT ![k] = @ + 1]
  OBVIOUS
<1>11. PICK L : L = m.live \cup {x}
  OBVIOUS
<1>12. PICK w : w = GrowBy(p, k)
  OBVIOUS
<1>13. /\ w.next = N /\ w.data = D /\ w.head = H /\ w.tail = m.tail /\ w.sizeInBlocks = Z
       /\ w.pool = q /\ w.live = L /\ w = Heap(w)
  <2>1. Fresh(p) = x /\ p.head[k] = h
    BY <1>1, <1>2, <1>6 DEF Fresh, OnlyData
  <2>2. /\ p.next = m.next /\ p.live = m.live /\ p.pool = m.pool
        /\ p.head = m.head /\ p.tail = m.tail /\ p.sizeInBlocks = m.sizeInBlocks
    BY <1>6 DEF OnlyData
  <2>3. PICK a : a = AllocateBlock(p, h)
    OBVIOUS
  <2>4. a = [p EXCEPT !.pool = q, !.live = L, !.next = N, !.data = D]
    BY <1>3, <1>7, <1>8, <1>11, <2>1, <2>2, <2>3 DEF AllocateBlock
  <2>5. /\ a.next = N /\ a.data = D /\ a.pool = q /\ a.live = L
        /\ a.head = m.head /\ a.tail = m.tail /\ a.sizeInBlocks = m.sizeInBlocks /\ a = Heap(a)
    BY <1>6, <2>2, <2>4 DEF Heap
  <2>6. w = [a EXCEPT !.head = H, !.sizeInBlocks = Z]
    BY <1>9, <1>10, <1>12, <2>1, <2>3, <2>5 DEF GrowBy
  <2> QED
    BY <2>5, <2>6 DEF Heap
<1>14. DOMAIN p.data = Blocks /\ m.next \in [Blocks -> Blocks \cup {NULL}] /\ m.head \in [Bags -> Blocks \cup {NULL}]
       /\ m.sizeInBlocks \in [Bags -> Nat] /\ m.tail \in [Bags -> Blocks \cup {NULL}] /\ m.live \in SUBSET Blocks
       /\ \A b \in Blocks : p.data[b] \in Seq(Objects) /\ Len(p.data[b]) <= BLOCK_SIZE
  BY <1>6 DEF IsHeap, OnlyData
<1>15. /\ N[x] = h /\ \A b \in Blocks : b # x => N[b] = m.next[b]
       /\ D[x] = <<>> /\ D[h] = p.data[h] /\ \A b \in Blocks : b # x => D[b] = p.data[b]
       /\ H[k] = x /\ \A j \in Bags : j # k => H[j] = m.head[j]
       /\ Z[k] = m.sizeInBlocks[k] + 1 /\ \A j \in Bags : j # k => Z[j] = m.sizeInBlocks[j]
  BY <1>4, <1>5, <1>7, <1>8, <1>9, <1>10, <1>14
<1>16. N \in [Blocks -> Blocks \cup {NULL}] /\ H \in [Bags -> Blocks \cup {NULL}] /\ Z \in [Bags -> Nat]
  BY <1>4, <1>8, <1>9, <1>10, <1>14
<1>17. DOMAIN D = Blocks /\ D = [b \in Blocks |-> D[b]]
  BY <1>7, <1>14
<1>18. \A b \in Blocks : D[b] \in Seq(Objects) /\ Len(D[b]) <= BLOCK_SIZE
  <2>1. <<>> \in Seq(Objects) /\ Len(<<>>) <= BLOCK_SIZE
    BY BlockSizeAssumption
  <2> QED
    BY <1>14, <1>15, <2>1
<1>19. IsHeap(w)
  BY <1>4, <1>11, <1>13, <1>14, <1>16, <1>17, <1>18 DEF IsHeap
<1>20. D[h] = Append(m.data[h], o) /\ Len(D[h]) = BLOCK_SIZE /\ \A b \in Blocks : b # h /\ b # x => D[b] = m.data[b]
  BY <1>1, <1>15 DEF Pushed
<1>21. Grown(m, w, k, x, o)
  BY <1>1, <1>11, <1>13, <1>15, <1>19, <1>20 DEF Grown
<1>22. PoolWithout(w, P, x)
  BY <1>4, <1>13 DEF PoolWithout
<1> QED
  BY <1>2, <1>4, <1>12, <1>21, <1>22

\* What BagAdd does to the heads and sizes.
HeadStays(m, w, k) == w.head = m.head /\ w.sizeInBlocks = m.sizeInBlocks
HeadGrows(m, w, k) ==
  /\ w.head[k] # m.head[k] /\ w.sizeInBlocks[k] = m.sizeInBlocks[k] + 1
  /\ \A j \in Bags : j # k => w.head[j] = m.head[j] /\ w.sizeInBlocks[j] = m.sizeInBlocks[j]

\* add, with room or a block to allocate.
LEMMA AddIs ==
  ASSUME NEW m, NEW sh, NEW P, NEW pos, Shape(m, sh, P, pos), NEW k \in Bags, m.head[k] # NULL,
         NEW o \in Objects, CanAdd(m, k)
  PROVE  \E Q, qos : /\ Shape(BagAdd(m, k, o), sh, Q, qos)
                     /\ Added(m, BagAdd(m, k, o), P, Q, pos, qos, k, o)
                     /\ HeadStays(m, BagAdd(m, k, o), k) \/ HeadGrows(m, BagAdd(m, k, o), k)
<1>1. ShapeParts(m, sh, P, pos) /\ m \in Heaps
  BY ShapeIs DEF Shape
<1>2. IsList(m, P, pos, k)
  BY <1>1 DEF ShapeParts, Lists
<1>3. m.head[k] \in Blocks /\ P[m.head[k]] = k /\ m.sizeInBlocks[k] \in Nat /\ Len(m.data[m.head[k]]) < BLOCK_SIZE
  BY <1>2 DEF IsList, Filled
<1>4. PICK p : p = [m EXCEPT !.data[m.head[k]] = Append(@, o)]
  OBVIOUS
<1>5. Pushed(m, p, m.head[k], o)
  BY <1>1, <1>3, <1>4, PushIs
<1>6. Len(p.data[m.head[k]]) = Len(m.data[m.head[k]]) + 1 /\ p.head = m.head /\ p.sizeInBlocks = m.sizeInBlocks
  BY <1>5 DEF Pushed, OnlyData
<1>7. BagAdd(m, k, o) = IF Len(p.data[m.head[k]]) < BLOCK_SIZE THEN p ELSE GrowBy(p, k)
  BY <1>4, <1>6 DEF BagAdd, GrowBy
<1>8. CASE Len(m.data[m.head[k]]) + 1 < BLOCK_SIZE
  <2>1. Shape(p, sh, P, pos) /\ Added(m, p, P, P, pos, pos, k, o)
    BY <1>5, <1>8, AddStays
  <2>2. HeadStays(m, p, k)
    BY <1>6 DEF HeadStays
  <2> QED
    BY <1>6, <1>7, <1>8, <2>1, <2>2
<1>9. CASE ~(Len(m.data[m.head[k]]) + 1 < BLOCK_SIZE)
  <2>1. Len(m.data[m.head[k]]) \in Nat
    BY <1>1, <1>3 DEF ShapeParts, IsHeap
  <2>2. Len(p.data[m.head[k]]) = BLOCK_SIZE
    BY <1>3, <1>6, <1>9, <2>1, BlockSizeAssumption
  <2>3. BagAdd(m, k, o) = GrowBy(p, k)
    BY <1>7, <2>2, BlockSizeAssumption
  <2>4. PICK x : x = Fresh(m)
    OBVIOUS
  <2>5. k # "pool" /\ k # "none"
    BY BagsAssumption
  <2>6. P \in [Blocks -> Places] /\ pos \in [Blocks -> Nat] /\ InPool(m, P) /\ Live(m, P)
    BY <1>1 DEF ShapeParts
  <2>7. CanAllocate(m)
    BY <1>9 DEF CanAdd
  <2>8. /\ x \in Blocks /\ P[x] \in {"pool", "none"}
        /\ Grown(m, GrowBy(p, k), k, x, o) /\ PoolWithout(GrowBy(p, k), P, x)
    <3>1. P[m.head[k]] \notin {"pool", "none"}
      BY <1>3, <2>5
    <3> QED
      BY <1>1, <1>3, <1>5, <2>2, <2>4, <2>6, <2>7, <3>1, GrowIs
  <2>9. PICK Q : Q = [P EXCEPT ![x] = k]
    OBVIOUS
  <2>10. PICK qos : qos = [pos EXCEPT ![x] = m.sizeInBlocks[k] + 1]
    OBVIOUS
  <2>11. GrownAt(P, Q, pos, qos, x, k, m.sizeInBlocks[k])
    BY <1>3, <2>6, <2>8, <2>9, <2>10 DEF GrownAt, Places
  <2>12. Shape(GrowBy(p, k), sh, Q, qos) /\ Added(m, GrowBy(p, k), P, Q, pos, qos, k, o)
    BY <2>8, <2>11, GrownShape
  <2>13. HeadGrows(m, GrowBy(p, k), k)
    <3>1. x # m.head[k]
      BY <1>3, <2>5, <2>8
    <3> QED
      BY <2>8, <3>1 DEF HeadGrows, Grown
  <2> QED
    BY <2>3, <2>12, <2>13
<1> QED
  BY <1>8, <1>9

-----------------------------------------------------------------------------
\* NonEmptyHead

\* The empty head block of bag k is given back.
Dropped(m, p, k) ==
  /\ p = Heap(p) /\ IsHeap(p)
  /\ p.next[m.head[k]] = NULL /\ \A b \in Blocks : b # m.head[k] => p.next[b] = m.next[b]
  /\ p.data = m.data /\ p.tail = m.tail
  /\ p.head[k] = m.next[m.head[k]] /\ \A j \in Bags : j # k => p.head[j] = m.head[j]
  /\ p.sizeInBlocks[k] = m.sizeInBlocks[k] - 1
  /\ \A j \in Bags : j # k => p.sizeInBlocks[j] = m.sizeInBlocks[j]
  /\ p.live = IF Back(m) = "none" THEN m.live \ {m.head[k]} ELSE m.live

PoolHas(w, Q) ==
  /\ \A i, j \in 1 .. Len(w.pool) : w.pool[i] = w.pool[j] => i = j
  /\ \A b \in Blocks : Q[b] = "pool" <=> \E i \in 1 .. Len(w.pool) : w.pool[i] = b

\* DeallocateBlock(m, x).
Given(m, p, x) ==
  /\ p = Heap(p) /\ IsHeap(p)
  /\ p.next[x] = NULL /\ \A b \in Blocks : b # x => p.next[b] = m.next[b]
  /\ p.data = m.data /\ p.head = m.head /\ p.tail = m.tail /\ p.sizeInBlocks = m.sizeInBlocks
  /\ p.live = IF Back(m) = "none" THEN m.live \ {x} ELSE m.live

\* What DeallocateBlock does to the heap and to the pool.
LEMMA GiveIs ==
  ASSUME NEW m \in Heaps, NEW P \in [Blocks -> Places], NEW x \in Blocks, InPool(m, P), P[x] # "pool"
  PROVE  /\ Given(m, DeallocateBlock(m, x), x)
         /\ PoolHas(DeallocateBlock(m, x), [P EXCEPT ![x] = Back(m)])
<1>1. IsHeap(m) /\ m = Heap(m)
  BY HeapIs
<1>2. PICK q : q = IF Len(m.pool) = MAX_BLOCK_POOL_SIZE THEN m.pool ELSE Append(m.pool, x)
  OBVIOUS
<1>3. PICK Q : Q = [P EXCEPT ![x] = Back(m)]
  OBVIOUS
<1>4. /\ q \in Seq(Blocks) /\ Len(q) <= MAX_BLOCK_POOL_SIZE
      /\ \A i, j \in 1 .. Len(q) : q[i] = q[j] => i = j
      /\ \A b \in Blocks : Q[b] = "pool" <=> \E i \in 1 .. Len(q) : q[i] = b
  BY <1>2, <1>3, PoolPush
<1>5. PICK N : N = [m.next EXCEPT ![x] = NULL]
  OBVIOUS
<1>6. PICK L : L = IF Back(m) = "none" THEN m.live \ {x} ELSE m.live
  OBVIOUS
<1>7. PICK p : p = DeallocateBlock(m, x)
  OBVIOUS
<1>8. /\ p.next = N /\ p.data = m.data /\ p.head = m.head /\ p.tail = m.tail
      /\ p.sizeInBlocks = m.sizeInBlocks /\ p.pool = q /\ p.live = L /\ p = Heap(p)
  <2>1. CASE Len(m.pool) = MAX_BLOCK_POOL_SIZE
    <3>1. p = [m EXCEPT !.next = N, !.live = L]
      BY <1>5, <1>6, <1>7, <2>1 DEF DeallocateBlock, Back
    <3> QED
      BY <1>1, <1>2, <2>1, <3>1 DEF Heap
  <2>2. CASE Len(m.pool) # MAX_BLOCK_POOL_SIZE
    <3>1. p = [m EXCEPT !.next = N, !.pool = q]
      BY <1>2, <1>5, <1>7, <2>2 DEF DeallocateBlock
    <3>2. L = m.live
      BY <1>6, <2>2 DEF Back
    <3> QED
      BY <1>1, <2>2, <3>1, <3>2 DEF Heap
  <2> QED
    BY <2>1, <2>2
<1>9. N \in [Blocks -> Blocks \cup {NULL}] /\ N[x] = NULL /\ \A b \in Blocks : b # x => N[b] = m.next[b]
  BY <1>1, <1>5 DEF IsHeap
<1>10. L \in SUBSET Blocks
  BY <1>1, <1>6 DEF IsHeap
<1>11. IsHeap(p)
  BY <1>1, <1>4, <1>8, <1>9, <1>10 DEF IsHeap
<1>12. Given(m, p, x)
  BY <1>6, <1>8, <1>9, <1>11 DEF Given
<1>13. PoolHas(p, Q)
  BY <1>4, <1>8 DEF PoolHas
<1> QED
  BY <1>3, <1>7, <1>12, <1>13

\* What DropHead does to the heap and to the pool.
LEMMA DropIs ==
  ASSUME NEW m \in Heaps, NEW P \in [Blocks -> Places], NEW k \in Bags, InPool(m, P),
         m.head[k] \in Blocks, m.next[m.head[k]] \in Blocks, P[m.head[k]] # "pool",
         m.sizeInBlocks[k] \in Nat \ {0}
  PROVE  /\ Dropped(m, DropHead(m, k), k)
         /\ PoolHas(DropHead(m, k), [P EXCEPT ![m.head[k]] = Back(m)])
<1>1. IsHeap(m) /\ m = Heap(m)
  BY HeapIs
<1>2. PICK h : h = m.head[k]
  OBVIOUS
<1>3. PICK a : a = DeallocateBlock(m, h)
  OBVIOUS
<1>4. PICK Q : Q = [P EXCEPT ![h] = Back(m)]
  OBVIOUS
<1>5. Given(m, a, h) /\ PoolHas(a, Q)
  BY <1>2, <1>3, <1>4, GiveIs
<1>6. PICK H : H = [m.head EXCEPT ![k] = m.next[h]]
  OBVIOUS
<1>7. PICK Z : Z = [m.sizeInBlocks EXCEPT ![k] = @ - 1]
  OBVIOUS
<1>8. PICK p : p = DropHead(m, k)
  OBVIOUS
<1>9. p = [a EXCEPT !.head = H, !.sizeInBlocks = Z]
  BY <1>2, <1>3, <1>5, <1>6, <1>7, <1>8 DEF DropHead, Given
<1>10. a = Heap(a)
  BY <1>5 DEF Given
<1>11. /\ p.next = a.next /\ p.data = a.data /\ p.head = H /\ p.tail = a.tail
       /\ p.sizeInBlocks = Z /\ p.pool = a.pool /\ p.live = a.live /\ p = Heap(p)
  BY <1>9, <1>10 DEF Heap
<1>12. /\ H \in [Bags -> Blocks \cup {NULL}] /\ Z \in [Bags -> Nat]
       /\ H[k] = m.next[h] /\ \A j \in Bags : j # k => H[j] = m.head[j]
       /\ Z[k] = m.sizeInBlocks[k] - 1 /\ \A j \in Bags : j # k => Z[j] = m.sizeInBlocks[j]
  BY <1>1, <1>2, <1>6, <1>7 DEF IsHeap
<1>13. IsHeap(p)
  BY <1>5, <1>11, <1>12 DEF Given, IsHeap
<1>14. Dropped(m, p, k)
  BY <1>2, <1>5, <1>11, <1>12, <1>13 DEF Given, Dropped
<1>15. PoolHas(p, Q)
  BY <1>5, <1>11 DEF PoolHas
<1> QED
  BY <1>2, <1>4, <1>8, <1>14, <1>15

\* The lengths after g, of the head block of bag k, has lost an object.
Shortened(m, w, g) ==
  /\ w = Heap(w) /\ IsHeap(w) /\ Len(w.data[g]) < BLOCK_SIZE
  /\ \A b \in Blocks : b # g => Len(w.data[b]) = Len(m.data[b])

\* An empty head block may have left the list.
HeadLeft(m, P, Q, k) ==
  \A b \in Blocks : Q[b] # P[b] => P[b] = k /\ b = m.head[k] /\ Q[b] \in {"pool", "none"} /\ m.data[b] = <<>>

MovesTo(P, Q, x, v) == Q = [P EXCEPT ![x] = v]

\* The head block becomes shorter.
LEMMA ShortenShape ==
  ASSUME NEW m, NEW w, NEW sh, NEW P, NEW pos, NEW k \in Bags, Shape(m, sh, P, pos),
         m.head[k] # NULL, OnlyData(m, w), Shortened(m, w, m.head[k])
  PROVE  Shape(w, sh, P, pos)
<1>1. ShapeParts(m, sh, P, pos)
  BY ShapeIs
<1>2. IsList(m, P, pos, k)
  BY <1>1 DEF ShapeParts, Lists
<1>3. PICK h \in Blocks : h = m.head[k] /\ P[h] = k
  BY <1>2 DEF IsList
<1>4. w.head = m.head /\ w = Heap(w) /\ IsHeap(w) /\ Len(w.data[h]) < BLOCK_SIZE
      /\ \A b \in Blocks : b # h => Len(w.data[b]) = Len(m.data[b])
  BY <1>3 DEF OnlyData, Shortened
<1>5. ASSUME NEW b \in Blocks, P[b] = "pool" PROVE w.data[b] = m.data[b]
  <2>1. m.data[b] = <<>> /\ b # h
    BY <1>1, <1>3, <1>5, BagsAssumption DEF ShapeParts, InPool
  <2>2. w.data[b] \in Seq(Objects) /\ Len(w.data[b]) = 0
    BY <1>4, <2>1 DEF IsHeap
  <2> QED
    BY <2>1, <2>2
<1>6. ASSUME NEW b \in Blocks, NEW j \in Bags, P[b] = j PROVE Filled(w, j, b)
  <2>1. Filled(m, j, b)
    BY <1>1, <1>6, NullAssumption DEF ShapeParts, Lists, IsList
  <2>2. CASE b = h
    BY <1>3, <1>4, <1>6, <2>2 DEF Filled
  <2>3. CASE b # h
    BY <1>4, <2>1, <2>3 DEF Filled
  <2> QED
    BY <2>2, <2>3
<1>7. \A b \in Blocks : P[b] = "shared" => Len(w.data[b]) = Len(m.data[b])
  BY <1>3, <1>4, BagsAssumption
<1> QED
  BY <1>4, <1>5, <1>6, <1>7, DataShape

\* The list without its empty head, whose second block has lost an object.
LEMMA DropList ==
  ASSUME NEW m, NEW p, NEW w, NEW P \in [Blocks -> Places], NEW pos, NEW Q, NEW k \in Bags, IsList(m, P, pos, k),
         m.next[m.head[k]] \in Blocks, Dropped(m, p, k), OnlyData(p, w),
         Shortened(m, w, m.next[m.head[k]]), Q = [P EXCEPT ![m.head[k]] = Back(m)]
  PROVE  IsList(w, Q, pos, k)
<1>1. PICK h \in Blocks : h = m.head[k]
  BY DEF IsList
<1>2. PICK s \in Nat \ {0} : s = m.sizeInBlocks[k]
  BY DEF IsList
<1>3. PICK g \in Blocks : g = m.next[h]
  BY <1>1
<1>4. P[h] = k /\ pos[h] = s
  BY <1>1, <1>2 DEF IsList
<1>5. \A b \in Blocks : P[b] = k => pos[b] \in 1 .. s /\ Filled(m, k, b) /\ Linked(m, P, pos, k, b)
  BY <1>2 DEF IsList
<1>6. \A b, c \in Blocks : P[b] = k /\ P[c] = k /\ pos[b] = pos[c] => b = c
  BY DEF IsList
<1>7. Back(m) # k
  BY BagsAssumption DEF Back
<1>8. Q[h] # k /\ \A b \in Blocks : b # h => Q[b] = P[b]
  BY <1>1, <1>7
<1>9. s # 1 /\ P[g] = k /\ pos[g] = s - 1 /\ g # h
  <2>1. Linked(m, P, pos, k, h)
    BY <1>4, <1>5
  <2>2. s # 1
    BY <1>3, <1>4, <2>1, NullAssumption DEF Linked
  <2>3. P[g] = k /\ pos[g] = s - 1
    BY <1>3, <1>4, <2>1, <2>2 DEF Linked
  <2> QED
    BY <1>4, <2>2, <2>3
<1>10. \A b \in Blocks : Q[b] = k => P[b] = k /\ b # h /\ pos[b] \in 1 .. s - 1
  <2>1. ASSUME NEW b \in Blocks, Q[b] = k PROVE P[b] = k /\ b # h /\ pos[b] \in 1 .. s - 1
    <3>1. b # h /\ P[b] = k
      BY <1>8, <2>1
    <3>2. pos[b] # s /\ pos[b] \in 1 .. s
      BY <1>4, <1>5, <1>6, <3>1
    <3> QED
      BY <3>1, <3>2
  <2> QED
    BY <2>1
<1>11. /\ w.head[k] = g /\ w.tail = m.tail /\ w.sizeInBlocks[k] = s - 1
       /\ \A b \in Blocks : b # h => w.next[b] = m.next[b]
  BY <1>1, <1>2, <1>3 DEF Dropped, OnlyData
<1>12. Len(w.data[g]) < BLOCK_SIZE /\ \A b \in Blocks : b # g => Len(w.data[b]) = Len(m.data[b])
  BY <1>1, <1>3 DEF Shortened
<1>13. ASSUME NEW b \in Blocks, Q[b] = k
       PROVE  pos[b] \in 1 .. s - 1 /\ Filled(w, k, b) /\ Linked(w, Q, pos, k, b)
  <2>1. P[b] = k /\ b # h /\ pos[b] \in 1 .. s - 1
    BY <1>10, <1>13
  <2>2. Filled(m, k, b) /\ Linked(m, P, pos, k, b)
    BY <1>5, <2>1
  <2>3. Filled(w, k, b)
    BY <1>1, <1>11, <1>12, <2>1, <2>2 DEF Filled
  <2>4. Linked(w, Q, pos, k, b)
    <3>1. w.next[b] = m.next[b]
      BY <1>11, <2>1
    <3>2. CASE pos[b] = 1
      BY <2>2, <3>1, <3>2 DEF Linked
    <3>3. CASE pos[b] # 1
      <4>1. m.next[b] \in Blocks /\ P[m.next[b]] = k /\ pos[m.next[b]] = pos[b] - 1
        BY <2>2, <3>3 DEF Linked
      <4>2. m.next[b] # h
        BY <1>4, <2>1, <4>1
      <4> QED
        BY <1>8, <3>1, <3>3, <4>1, <4>2 DEF Linked
    <3> QED
      BY <3>2, <3>3
  <2> QED
    BY <2>1, <2>3, <2>4
<1>14. \A i \in 1 .. s - 1 : \E b \in Blocks : Q[b] = k /\ pos[b] = i
  <2>1. ASSUME NEW i \in 1 .. s - 1 PROVE \E b \in Blocks : Q[b] = k /\ pos[b] = i
    <3>1. PICK b \in Blocks : P[b] = k /\ pos[b] = i
      BY <1>2 DEF IsList
    <3>2. b # h
      BY <1>4, <3>1
    <3> QED
      BY <1>8, <3>1, <3>2
  <2> QED
    BY <2>1
<1>15. m.tail[k] \in Blocks /\ Q[m.tail[k]] = k /\ pos[m.tail[k]] = 1
  <2>1. m.tail[k] \in Blocks /\ P[m.tail[k]] = k /\ pos[m.tail[k]] = 1
    BY DEF IsList
  <2>2. m.tail[k] # h
    BY <1>4, <1>9, <2>1
  <2> QED
    BY <1>8, <2>1, <2>2
<1>16. \A b, c \in Blocks : Q[b] = k /\ Q[c] = k /\ pos[b] = pos[c] => b = c
  BY <1>6, <1>10
<1>17. Q[g] = k /\ s - 1 \in Nat \ {0}
  BY <1>8, <1>9
<1>18. /\ w.sizeInBlocks[k] \in Nat \ {0}
       /\ w.head[k] \in Blocks /\ Q[w.head[k]] = k /\ pos[w.head[k]] = w.sizeInBlocks[k]
       /\ w.tail[k] \in Blocks /\ Q[w.tail[k]] = k /\ pos[w.tail[k]] = 1
  BY <1>9, <1>11, <1>15, <1>17
<1>19. \A b \in Blocks : Q[b] = k =>
         pos[b] \in 1 .. w.sizeInBlocks[k] /\ Filled(w, k, b) /\ Linked(w, Q, pos, k, b)
  BY <1>11, <1>13
<1>20. \A i \in 1 .. w.sizeInBlocks[k] : \E b \in Blocks : Q[b] = k /\ pos[b] = i
  BY <1>11, <1>14
<1> QED
  BY ONLY <1>16, <1>18, <1>19, <1>20 DEF IsList

\* The empty head leaves its list and the second block becomes shorter.
LEMMA DropShape ==
  ASSUME NEW m, NEW p, NEW w, NEW sh, NEW P, NEW pos, NEW Q, NEW k \in Bags, Shape(m, sh, P, pos),
         m.head[k] # NULL, m.next[m.head[k]] \in Blocks, m.data[m.head[k]] = <<>>,
         Dropped(m, p, k), PoolHas(p, Q), OnlyData(p, w),
         Shortened(m, w, m.next[m.head[k]]), MovesTo(P, Q, m.head[k], Back(m))
  PROVE  Shape(w, sh, Q, pos) /\ HeadLeft(m, P, Q, k)
<1>0. Q = [P EXCEPT ![m.head[k]] = Back(m)]
  BY DEF MovesTo
<1>1. ShapeParts(m, sh, P, pos)
  BY ShapeIs
<1>2. IsList(m, P, pos, k) /\ P \in [Blocks -> Places]
  BY <1>1 DEF ShapeParts, Lists
<1>3. PICK h \in Blocks : h = m.head[k] /\ P[h] = k
  BY <1>2 DEF IsList
<1>4. PICK g \in Blocks : g = m.next[h]
  BY <1>3
<1>5. P[g] = k /\ g # h
  <2>1. Linked(m, P, pos, k, h) /\ pos[h] \in Nat
    BY <1>2, <1>3 DEF IsList
  <2>2. P[g] = k /\ pos[g] = pos[h] - 1
    BY <1>3, <1>4, <2>1, NullAssumption DEF Linked
  <2> QED
    BY <2>1, <2>2
<1>6. Back(m) \in {"none", "pool"} /\ \A j \in Bags : j \notin {"none", "pool", "shared"} /\ j \in Places
  BY BagsAssumption DEF Back, Places
<1>7. Q[h] = Back(m) /\ (\A b \in Blocks : b # h => Q[b] = P[b]) /\ Q \in [Blocks -> Places]
  BY <1>0, <1>2, <1>3, <1>6 DEF Places
<1>8. IsList(w, Q, pos, k)
  BY <1>0, <1>2, DropList
<1>9. /\ w.next[h] = NULL /\ \A b \in Blocks : b # h => w.next[b] = m.next[b]
      /\ w.tail = m.tail /\ w.head[k] = g /\ w.pool = p.pool
      /\ w.live = IF Back(m) = "none" THEN m.live \ {h} ELSE m.live
      /\ \A j \in Bags : j # k => w.head[j] = m.head[j] /\ w.sizeInBlocks[j] = m.sizeInBlocks[j]
  BY <1>3, <1>4 DEF Dropped, OnlyData
<1>10. w = Heap(w) /\ IsHeap(w) /\ \A b \in Blocks : b # g => Len(w.data[b]) = Len(m.data[b])
  BY <1>3, <1>4 DEF Shortened
<1>11. ASSUME NEW j \in Bags, j # k PROVE Kept(m, w, P, pos, Q, pos, j)
  <2>1. P[h] # j /\ P[g] # j /\ Q[h] # j
    BY <1>3, <1>5, <1>6, <1>7, <1>11
  <2>2. \A b \in Blocks : P[b] = j => w.next[b] = m.next[b] /\ Len(w.data[b]) = Len(m.data[b])
    BY <1>9, <1>10, <2>1
  <2>3. \A b \in Blocks : Q[b] = j <=> P[b] = j
    BY <1>7, <2>1
  <2> QED
    BY <1>9, <1>11, <2>2, <2>3 DEF Kept
<1>12. Lists(w, Q, pos)
  <2>1. PICK S \in SUBSET Bags : S = {k}
    OBVIOUS
  <2>2. \A j \in S : w.head[j] # NULL /\ IsList(w, Q, pos, j)
    BY <1>8, <1>9, <2>1, NullAssumption
  <2>3. \A j \in Bags \ S : Kept(m, w, P, pos, Q, pos, j)
    BY <1>11, <2>1
  <2>4. Lists(m, P, pos)
    BY <1>1 DEF ShapeParts
  <2> QED
    BY ONLY <2>2, <2>3, <2>4, S \in SUBSET Bags, OtherLists
<1>13. InShared(w, sh, Q)
  <2> SUFFICES ASSUME NEW b \in Blocks
               PROVE  /\ b \in sh <=> Q[b] = "shared"
                      /\ b \in sh => w.next[b] = NULL /\ Len(w.data[b]) = BLOCK_SIZE
    BY DEF InShared
  <2>1. (b \in sh <=> P[b] = "shared") /\ (b \in sh => m.next[b] = NULL /\ Len(m.data[b]) = BLOCK_SIZE)
    BY <1>1 DEF InShared, ShapeParts
  <2>2. CASE b = h
    BY <1>3, <1>6, <1>7, <2>1, <2>2
  <2>3. CASE b # h
    BY <1>5, <1>6, <1>7, <1>9, <1>10, <2>1, <2>3
  <2> QED
    BY <2>2, <2>3
<1>14. InPool(w, Q)
  <2>1. ASSUME NEW b \in Blocks, Q[b] = "pool" PROVE w.data[b] = <<>>
    <3>1. b # g
      BY <1>5, <1>6, <1>7, <2>1
    <3>2. m.data[b] = <<>>
      BY <1>1, <1>3, <1>7, <2>1 DEF InPool, ShapeParts
    <3>3. w.data[b] \in Seq(Objects) /\ Len(w.data[b]) = 0
      BY <1>10, <3>1, <3>2 DEF IsHeap
    <3> QED
      BY <3>3
  <2> QED
    BY <1>9, <2>1 DEF InPool, PoolHas
<1>15. Live(w, Q)
  <2>1. \A b \in Blocks : b \in m.live <=> P[b] # "none"
    BY <1>1 DEF Live, ShapeParts
  <2> QED
    BY <1>3, <1>6, <1>7, <1>9, <2>1 DEF Live
<1>16. Shape(w, sh, Q, pos)
  <2>1. sh \subseteq Blocks /\ pos \in [Blocks -> Nat]
    BY <1>1 DEF ShapeParts
  <2>2. ShapeParts(w, sh, Q, pos)
    BY <1>7, <1>10, <1>12, <1>13, <1>14, <1>15, <2>1 DEF ShapeParts
  <2> QED
    BY <2>2, ShapeIs
<1>17. HeadLeft(m, P, Q, k)
  BY <1>3, <1>6, <1>7 DEF HeadLeft
<1> QED
  BY <1>16, <1>17

\* g is the first block of bag k that is not empty.
Top(m, P, pos, k, g) ==
  /\ g \in Blocks /\ P[g] = k /\ m.data[g] # <<>>
  /\ \A b \in Blocks : P[b] = k /\ m.data[b] # <<>> => pos[b] <= pos[g]

TopOf(m, k) == NonEmptyHead(m, k).head[k]

\* The block that NonEmptyHead finds is the first one that holds an object.
LEMMA TopIs ==
  ASSUME NEW m, NEW sh, NEW P, NEW pos, NEW k \in Bags, Shape(m, sh, P, pos),
         m.head[k] # NULL, ~IsEmpty(m, k)
  PROVE  /\ Top(m, P, pos, k, TopOf(m, k))
         /\ NonEmptyHead(m, k) \in Heaps /\ NonEmptyHead(m, k).data = m.data
         /\ \A j \in Bags : j # k => /\ NonEmptyHead(m, k).head[j] = m.head[j]
                                     /\ NonEmptyHead(m, k).sizeInBlocks[j] = m.sizeInBlocks[j]
<1>1. ShapeParts(m, sh, P, pos) /\ m \in Heaps
  BY ShapeIs DEF Shape
<1>2. IsList(m, P, pos, k) /\ P \in [Blocks -> Places] /\ InPool(m, P)
  BY <1>1 DEF ShapeParts, Lists
<1>3. PICK h \in Blocks : h = m.head[k] /\ P[h] = k
  BY <1>2 DEF IsList
<1>4. PICK s \in Nat \ {0} : s = m.sizeInBlocks[k] /\ pos[h] = s
  BY <1>2, <1>3 DEF IsList
<1>5. \A b \in Blocks : P[b] = k => pos[b] \in 1 .. s
  BY <1>2, <1>4 DEF IsList
<1>6. CASE m.data[h] # <<>>
  <2>1. NonEmptyHead(m, k) = m
    BY <1>3, <1>6 DEF NonEmptyHead, HeadIsEmpty
  <2>2. Top(m, P, pos, k, h)
    BY <1>3, <1>4, <1>5, <1>6 DEF Top
  <2> QED
    BY <1>1, <1>3, <2>1, <2>2 DEF TopOf
<1>7. CASE m.data[h] = <<>>
  <2>1. NonEmptyHead(m, k) = DropHead(m, k)
    BY <1>3, <1>7 DEF NonEmptyHead, HeadIsEmpty
  <2>2. m.next[h] # NULL
    BY <1>3, <1>7 DEF IsEmpty, HeadIsEmpty
  <2>3. m.next[h] \in Blocks
    BY <1>1, <2>2 DEF ShapeParts, IsHeap
  <2>4. k # "pool"
    BY BagsAssumption
  <2>5. Dropped(m, DropHead(m, k), k)
    BY <1>1, <1>2, <1>3, <1>4, <2>3, <2>4, DropIs
  <2>6. PICK g \in Blocks : g = m.next[h]
    BY <2>3
  <2>7. P[g] = k /\ pos[g] = s - 1
    <3>1. Linked(m, P, pos, k, h)
      BY <1>2, <1>3 DEF IsList
    <3> QED
      BY <1>4, <2>2, <2>6, <3>1 DEF Linked
  <2>8. g # h
    BY <1>4, <2>7
  <2>9. m.data[g] # <<>>
    <3>1. Filled(m, k, g)
      BY <1>2, <2>7 DEF IsList
    <3> QED
      BY <1>3, <2>8, <3>1, BlockSizeAssumption DEF Filled
  <2>10. ASSUME NEW b \in Blocks, P[b] = k, m.data[b] # <<>> PROVE pos[b] <= pos[g]
    <3>1. b # h
      BY <1>7, <2>10
    <3>2. pos[b] # s /\ pos[b] \in 1 .. s
      BY <1>2, <1>3, <1>4, <1>5, <2>10, <3>1 DEF IsList
    <3> QED
      BY <2>7, <3>2
  <2>11. Top(m, P, pos, k, g)
    BY <2>7, <2>9, <2>10 DEF Top
  <2>12. DropHead(m, k) \in Heaps
    BY <2>5, HeapIs DEF Dropped
  <2> QED
    BY <1>3, <2>1, <2>5, <2>6, <2>11, <2>12 DEF TopOf, Dropped
<1> QED
  BY <1>6, <1>7

\* Whichever block loses an object, the shape is kept.
LEMMA PopShape ==
  ASSUME NEW m, NEW w, NEW sh, NEW P, NEW pos, NEW k \in Bags, Shape(m, sh, P, pos),
         m.head[k] # NULL, ~IsEmpty(m, k),
         OnlyData(NonEmptyHead(m, k), w), Shortened(m, w, TopOf(m, k))
  PROVE  \E Q : Shape(w, sh, Q, pos) /\ HeadLeft(m, P, Q, k)
<1>1. ShapeParts(m, sh, P, pos) /\ m \in Heaps
  BY ShapeIs DEF Shape
<1>2. IsList(m, P, pos, k) /\ P \in [Blocks -> Places] /\ InPool(m, P)
  BY <1>1 DEF ShapeParts, Lists
<1>3. PICK h \in Blocks : h = m.head[k] /\ P[h] = k
  BY <1>2 DEF IsList
<1>4. CASE m.data[h] # <<>>
  <2>1. NonEmptyHead(m, k) = m
    BY <1>3, <1>4 DEF NonEmptyHead, HeadIsEmpty
  <2>2. OnlyData(m, w) /\ Shortened(m, w, m.head[k])
    BY <2>1 DEF TopOf
  <2>3. Shape(w, sh, P, pos)
    BY <2>2, ShortenShape
  <2> QED
    BY <2>3 DEF HeadLeft
<1>5. CASE m.data[h] = <<>>
  <2>1. NonEmptyHead(m, k) = DropHead(m, k)
    BY <1>3, <1>5 DEF NonEmptyHead, HeadIsEmpty
  <2>2. m.next[h] \in Blocks
    BY <1>1, <1>3, <1>5 DEF IsEmpty, HeadIsEmpty, ShapeParts, IsHeap
  <2>3. k # "pool" /\ m.sizeInBlocks[k] \in Nat \ {0}
    BY <1>2, BagsAssumption DEF IsList
  <2>4. PICK Q : Q = [P EXCEPT ![m.head[k]] = Back(m)]
    OBVIOUS
  <2>5. Dropped(m, DropHead(m, k), k) /\ PoolHas(DropHead(m, k), Q)
    BY <1>1, <1>2, <1>3, <2>2, <2>3, <2>4, DropIs
  <2>6. PICK p : p = DropHead(m, k)
    OBVIOUS
  <2>7. OnlyData(p, w) /\ Shortened(m, w, m.next[m.head[k]])
    BY <2>1, <2>5, <2>6 DEF TopOf, Dropped
  <2>8. Shape(w, sh, Q, pos) /\ HeadLeft(m, P, Q, k)
    <3>1. m.next[m.head[k]] \in Blocks /\ m.data[m.head[k]] = <<>>
      BY <1>3, <1>5, <2>2
    <3>2. Dropped(m, p, k) /\ PoolHas(p, Q)
      BY <2>5, <2>6
    <3>3. Shape(m, sh, P, pos) /\ m.head[k] # NULL /\ k \in Bags
      OBVIOUS
    <3>4. MovesTo(P, Q, m.head[k], Back(m))
      BY <2>4 DEF MovesTo
    <3> QED
      BY ONLY <2>7, <3>1, <3>2, <3>3, <3>4, DropShape
  <2> QED
    BY <2>8
<1> QED
  BY <1>4, <1>5

\* BagRemove pops the last object of block g.
Popped(m, w, k, g) ==
  /\ w.data[g] = Front(m.data[g]) /\ \A b \in Blocks : b # g => w.data[b] = m.data[b]
  /\ w.head[k] # NULL /\ \A j \in Bags : j # k => w.head[j] = m.head[j] /\ w.sizeInBlocks[j] = m.sizeInBlocks[j]

\* remove, from a bag that is not empty.
LEMMA RemoveIs ==
  ASSUME NEW m, NEW sh, NEW P, NEW pos, NEW k \in Bags, Shape(m, sh, P, pos),
         m.head[k] # NULL, ~IsEmpty(m, k)
  PROVE  /\ \E Q : Shape(BagRemove(m, k), sh, Q, pos) /\ HeadLeft(m, P, Q, k)
         /\ Top(m, P, pos, k, TopOf(m, k))
         /\ Removed(m, k) = Last(m.data[TopOf(m, k)])
         /\ Popped(m, BagRemove(m, k), k, TopOf(m, k))
<1>1. PICK n \in Heaps : n = NonEmptyHead(m, k)
  BY TopIs
<1>2. PICK g \in Blocks : g = TopOf(m, k) /\ Top(m, P, pos, k, g)
  <2>1. Top(m, P, pos, k, TopOf(m, k))
    BY TopIs
  <2> QED
    BY <2>1 DEF Top
<1>3. /\ n.data = m.data /\ g = n.head[k]
      /\ \A j \in Bags : j # k => n.head[j] = m.head[j] /\ n.sizeInBlocks[j] = m.sizeInBlocks[j]
  BY <1>1, <1>2, TopIs DEF TopOf
<1>4. IsHeap(n) /\ n = Heap(n)
  BY HeapIs
<1>5. m.data[g] \in Seq(Objects) /\ m.data[g] # <<>> /\ Len(m.data[g]) <= BLOCK_SIZE
  BY <1>2, <1>3, <1>4 DEF IsHeap, Top
<1>6. PICK d : d = Front(m.data[g])
  OBVIOUS
<1>7. d \in Seq(Objects) /\ Len(d) < BLOCK_SIZE
  BY <1>5, <1>6, FrontIs, BlockSizeAssumption
<1>8. PICK D : D = [n.data EXCEPT ![g] = d]
  OBVIOUS
<1>9. PICK w : w = [n EXCEPT !.data = D]
  OBVIOUS
<1>10. BagRemove(m, k) = w
  BY <1>1, <1>3, <1>4, <1>6, <1>8, <1>9 DEF BagRemove, IsHeap, Heap
<1>11. OnlyData(n, w) /\ w = Heap(w) /\ w.data = D
  BY <1>4, <1>9 DEF Heap, OnlyData
<1>12. D[g] = d /\ DOMAIN D = Blocks /\ D = [b \in Blocks |-> D[b]] /\ \A b \in Blocks : b # g => D[b] = m.data[b]
  BY <1>3, <1>4, <1>8 DEF IsHeap
<1>13. IsHeap(w)
  <2>1. \A b \in Blocks : D[b] \in Seq(Objects) /\ Len(D[b]) <= BLOCK_SIZE
    <3>1. \A b \in Blocks : m.data[b] \in Seq(Objects) /\ Len(m.data[b]) <= BLOCK_SIZE
      BY <1>3, <1>4 DEF IsHeap
    <3>2. Len(d) <= BLOCK_SIZE
      BY <1>7, BlockSizeAssumption
    <3> QED
      BY ONLY <1>7, <1>12, <3>1, <3>2
  <2> QED
    BY ONLY <1>4, <1>11, <1>12, <2>1, DataHeap
<1>14. Shortened(m, w, g)
  BY <1>7, <1>11, <1>12, <1>13 DEF Shortened
<1>15. \E Q : Shape(w, sh, Q, pos) /\ HeadLeft(m, P, Q, k)
  BY <1>1, <1>2, <1>11, <1>14, PopShape
<1>16. Removed(m, k) = Last(m.data[g])
  BY <1>1, <1>3 DEF Removed
<1>17. Popped(m, w, k, g)
  BY <1>3, <1>6, <1>11, <1>12, NullAssumption DEF Popped, OnlyData
<1> QED
  BY <1>2, <1>10, <1>15, <1>16, <1>17

-----------------------------------------------------------------------------
\* Erase

\* A bag with an object is not empty for isEmpty.
LEMMA NonEmptyIs ==
  ASSUME NEW m, NEW sh, NEW P, NEW pos, NEW k \in Bags, Shape(m, sh, P, pos), m.head[k] # NULL,
         NEW b \in Blocks, P[b] = k, m.data[b] # <<>>
  PROVE  ~IsEmpty(m, k)
<1> SUFFICES ASSUME IsEmpty(m, k) PROVE FALSE
  OBVIOUS
<1>1. IsList(m, P, pos, k)
  BY ShapeIs DEF ShapeParts, Lists
<1>2. PICK h \in Blocks : h = m.head[k] /\ P[h] = k /\ pos[h] = m.sizeInBlocks[k]
  BY <1>1 DEF IsList
<1>3. m.next[h] = NULL /\ m.data[h] = <<>>
  BY <1>2 DEF IsEmpty, HeadIsEmpty
<1>4. Linked(m, P, pos, k, h)
  BY <1>1, <1>2 DEF IsList
<1>5. pos[h] = 1
  BY <1>3, <1>4, NullAssumption DEF Linked
<1>6. pos[b] \in 1 .. 1
  BY <1>1, <1>2, <1>5 DEF IsList
<1>7. b = h
  BY <1>1, <1>2, <1>5, <1>6 DEF IsList
<1> QED
  BY <1>3, <1>7

\* The last object of block g is now in slot ix of block b.
Erased(m, w, k, g, b, ix) ==
  /\ Len(w.data[g]) = Len(m.data[g]) - 1
  /\ \A i \in 1 .. Len(m.data[g]) - 1 :
       w.data[g][i] = IF b = g /\ i = ix THEN m.data[g][Len(m.data[g])] ELSE m.data[g][i]
  /\ b # g => /\ Len(w.data[b]) = Len(m.data[b])
              /\ \A i \in 1 .. Len(m.data[b]) :
                   w.data[b][i] = IF i = ix THEN m.data[g][Len(m.data[g])] ELSE m.data[b][i]
  /\ \A c \in Blocks : c # g /\ c # b => w.data[c] = m.data[c]
  /\ w.head[k] # NULL /\ \A j \in Bags : j # k => w.head[j] = m.head[j] /\ w.sizeInBlocks[j] = m.sizeInBlocks[j]

\* A sequence with one element replaced.
LEMMA ReplaceIs ==
  ASSUME NEW S, NEW s \in Seq(S), NEW ix \in 1 .. Len(s), NEW o \in S
  PROVE  /\ [s EXCEPT ![ix] = o] \in Seq(S) /\ Len([s EXCEPT ![ix] = o]) = Len(s)
         /\ \A i \in 1 .. Len(s) : [s EXCEPT ![ix] = o][i] = IF i = ix THEN o ELSE s[i]
OBVIOUS

\* erase(curr, ix), from any slot of the bag.
LEMMA EraseIs ==
  ASSUME NEW m, NEW sh, NEW P, NEW pos, NEW k \in Bags, Shape(m, sh, P, pos), m.head[k] # NULL,
         NEW b \in Blocks, P[b] = k, NEW ix \in 1 .. Len(m.data[b])
  PROVE  /\ \E Q : Shape(Erase(m, k, b, ix), sh, Q, pos) /\ HeadLeft(m, P, Q, k)
         /\ Top(m, P, pos, k, TopOf(m, k))
         /\ Erased(m, Erase(m, k, b, ix), k, TopOf(m, k), b, ix)
         /\ Erase(m, k, b, ix).next = NonEmptyHead(m, k).next
<1>1. m.data[b] # <<>> /\ m.data[b] \in Seq(Objects)
  <2>1. m.data[b] \in Seq(Objects)
    BY ShapeIs DEF ShapeParts, IsHeap
  <2> QED
    BY <2>1
<1>2. ~IsEmpty(m, k)
  BY <1>1, NonEmptyIs
<1>3. PICK n \in Heaps : n = NonEmptyHead(m, k)
  BY <1>2, TopIs
<1>4. PICK g \in Blocks : g = TopOf(m, k) /\ Top(m, P, pos, k, g)
  <2>1. Top(m, P, pos, k, TopOf(m, k))
    BY <1>2, TopIs
  <2> QED
    BY <2>1 DEF Top
<1>5. /\ n.data = m.data /\ g = n.head[k]
      /\ \A j \in Bags : j # k => n.head[j] = m.head[j] /\ n.sizeInBlocks[j] = m.sizeInBlocks[j]
  BY <1>2, <1>3, <1>4, TopIs DEF TopOf
<1>6. IsHeap(n) /\ n = Heap(n)
  BY HeapIs
<1>7. PICK s : s = m.data[g]
  OBVIOUS
<1>8. s \in Seq(Objects) /\ s # <<>> /\ Len(s) <= BLOCK_SIZE
  BY <1>4, <1>5, <1>6, <1>7 DEF IsHeap, Top
<1>9. PICK o : o = Last(s)
  OBVIOUS
<1>10. PICK r : r = [m.data[b] EXCEPT ![ix] = o]
  OBVIOUS
<1>11. o \in Objects /\ o = s[Len(s)]
  BY <1>8, <1>9, FrontIs
<1>12. /\ r \in Seq(Objects) /\ Len(r) = Len(m.data[b])
       /\ \A i \in 1 .. Len(m.data[b]) : r[i] = IF i = ix THEN o ELSE m.data[b][i]
  BY <1>1, <1>10, <1>11, ReplaceIs
<1>13. PICK D : D = IF b = g THEN [m.data EXCEPT ![g] = Front(r)]
                    ELSE [[m.data EXCEPT ![g] = Front(s)] EXCEPT ![b] = r]
  OBVIOUS
<1>14. PICK w : w = [n EXCEPT !.data = D]
  OBVIOUS
<1>15. Erase(m, k, b, ix) = w
  <2>1. CASE b = g
    <3>1. Erase(m, k, b, ix) = [n EXCEPT !.data[g] = Front([m.data[g] EXCEPT ![ix] = Last(m.data[g])])]
      BY <1>3, <1>5, <2>1 DEF Erase
    <3> QED
      BY <1>5, <1>6, <1>7, <1>9, <1>10, <1>13, <1>14, <2>1, <3>1 DEF Heap
  <2>2. CASE b # g
    <3>1. Erase(m, k, b, ix) = [n EXCEPT !.data[g] = Front(@), !.data[b][ix] = Last(m.data[g])]
      BY <1>3, <1>5, <2>2 DEF Erase
    <3>2. [n EXCEPT !.data[g] = Front(@), !.data[b][ix] = Last(m.data[g])]
            = [n EXCEPT !.data = [[m.data EXCEPT ![g] = Front(s)] EXCEPT ![b] = r]]
      <4>1. PICK a : a = [m.data EXCEPT ![g] = Front(s)]
        OBVIOUS
      <4>2. a[b] = m.data[b]
        BY <1>5, <1>6, <2>2, <4>1 DEF IsHeap
      <4>3. PICK e : e = [n EXCEPT !.data[g] = Front(@)]
        OBVIOUS
      <4>4. e = [n EXCEPT !.data = a]
        BY <1>5, <1>6, <1>7, <4>1, <4>3 DEF Heap
      <4>5. e.data = a
        BY <1>6, <4>4 DEF Heap
      <4>6. [n EXCEPT !.data[g] = Front(@), !.data[b][ix] = Last(m.data[g])]
              = [e EXCEPT !.data[b][ix] = Last(m.data[g])]
        BY <4>3
      <4>7. [e EXCEPT !.data[b][ix] = Last(m.data[g])] = [e EXCEPT !.data = [a EXCEPT ![b] = r]]
        BY <1>6, <1>7, <1>9, <1>10, <4>2, <4>4, <4>5 DEF Heap
      <4> QED
        BY <1>6, <4>1, <4>4, <4>6, <4>7 DEF Heap
    <3> QED
      BY <1>13, <1>14, <2>2, <3>1, <3>2
  <2> QED
    BY <2>1, <2>2
<1>16. OnlyData(n, w) /\ w = Heap(w) /\ w.data = D
  BY <1>6, <1>14 DEF Heap, OnlyData
<1>17. DOMAIN m.data = Blocks
  BY <1>5, <1>6 DEF IsHeap
<1>18. DOMAIN D = Blocks /\ D = [c \in Blocks |-> D[c]] /\ \A c \in Blocks : c # g /\ c # b => D[c] = m.data[c]
  BY <1>13, <1>17
<1>19. Len(s) \in Nat \ {0} /\ Front(s) \in Seq(Objects) /\ Len(Front(s)) = Len(s) - 1
       /\ \A i \in 1 .. Len(s) - 1 : Front(s)[i] = s[i]
  BY <1>8, FrontIs
<1>20. CASE b = g
  <2>1. D[g] = Front(r)
    BY <1>13, <1>17, <1>20
  <2>2. r # <<>> /\ Len(r) = Len(s)
    BY <1>7, <1>12, <1>19, <1>20
  <2>3. D[g] \in Seq(Objects) /\ Len(D[g]) = Len(s) - 1 /\ \A i \in 1 .. Len(s) - 1 : D[g][i] = r[i]
    <3>1. r \in Seq(Objects)
      BY <1>12
    <3>2. Front(r) \in Seq(Objects) /\ Len(Front(r)) = Len(r) - 1 /\ \A i \in 1 .. Len(r) - 1 : Front(r)[i] = r[i]
      BY ONLY <2>2, <3>1, FrontIs
    <3> QED
      BY ONLY <2>1, <2>2, <3>2
  <2>4. Len(D[g]) < BLOCK_SIZE
    BY <1>8, <1>19, <2>3, BlockSizeAssumption
  <2>5. \A i \in 1 .. Len(s) - 1 : D[g][i] = IF i = ix THEN s[Len(s)] ELSE s[i]
    <3>1. \A i \in 1 .. Len(s) : r[i] = IF i = ix THEN s[Len(s)] ELSE s[i]
      BY <1>7, <1>11, <1>12, <1>20
    <3>2. \A i \in 1 .. Len(s) - 1 : i \in 1 .. Len(s)
      BY <1>19
    <3> QED
      BY ONLY <2>3, <3>1, <3>2
  <2>6. \A c \in Blocks : D[c] \in Seq(Objects) /\ Len(D[c]) <= BLOCK_SIZE
    BY <1>5, <1>6, <1>18, <1>20, <2>3, <2>4, BlockSizeAssumption DEF IsHeap
  <2>7. IsHeap(w)
    BY <1>6, <1>16, <1>18, <2>6 DEF IsHeap, OnlyData
  <2>8. Shortened(m, w, g)
    BY <1>16, <1>18, <1>20, <2>4, <2>7 DEF Shortened
  <2>9. Erased(m, w, k, g, b, ix)
    BY <1>4, <1>5, <1>7, <1>16, <1>18, <1>20, <2>3, <2>5, NullAssumption DEF Erased, OnlyData
  <2>10. \E Q : Shape(w, sh, Q, pos) /\ HeadLeft(m, P, Q, k)
    BY <1>2, <1>3, <1>4, <1>16, <2>8, PopShape
  <2> QED
    BY <1>3, <1>4, <1>15, <1>16, <2>9, <2>10 DEF OnlyData
<1>21. CASE b # g
  <2>1. D[g] = Front(s) /\ D[b] = r
    BY <1>13, <1>17, <1>21
  <2>2. Len(D[g]) < BLOCK_SIZE /\ Len(D[g]) = Len(s) - 1
    BY <1>8, <1>19, <2>1, BlockSizeAssumption
  <2>3. \A c \in Blocks : D[c] \in Seq(Objects) /\ Len(D[c]) <= BLOCK_SIZE
    <3>1. \A c \in Blocks : m.data[c] \in Seq(Objects) /\ Len(m.data[c]) <= BLOCK_SIZE
      BY <1>5, <1>6 DEF IsHeap
    <3>2. r \in Seq(Objects) /\ Len(r) <= BLOCK_SIZE
      BY <1>12, <3>1
    <3>3. Front(s) \in Seq(Objects) /\ Len(Front(s)) <= BLOCK_SIZE
      BY <1>8, <1>19, BlockSizeAssumption
    <3> QED
      BY ONLY <1>18, <2>1, <3>1, <3>2, <3>3
  <2>4. IsHeap(w)
    BY <1>6, <1>16, <1>18, <2>3 DEF IsHeap, OnlyData
  <2>5. Shortened(m, w, g)
    BY <1>12, <1>16, <1>18, <2>1, <2>2, <2>4 DEF Shortened
  <2>6. Erased(m, w, k, g, b, ix)
    <3>1. /\ w.data[g] = Front(s) /\ w.data[b] = r /\ s = m.data[g]
          /\ \A c \in Blocks : c # g /\ c # b => w.data[c] = m.data[c]
      BY <1>7, <1>16, <1>18, <2>1
    <3>2. /\ w.head[k] # NULL /\ \A j \in Bags : j # k => w.head[j] = m.head[j]
          /\ \A j \in Bags : j # k => w.sizeInBlocks[j] = m.sizeInBlocks[j]
      BY <1>4, <1>5, <1>16, NullAssumption DEF OnlyData
    <3> QED
      BY ONLY <1>11, <1>12, <1>19, <1>21, <3>1, <3>2 DEF Erased
  <2>7. \E Q : Shape(w, sh, Q, pos) /\ HeadLeft(m, P, Q, k)
    BY <1>2, <1>3, <1>4, <1>16, <2>5, PopShape
  <2> QED
    BY <1>3, <1>4, <1>15, <1>16, <2>6, <2>7 DEF OnlyData
<1> QED
  BY <1>20, <1>21

-----------------------------------------------------------------------------
\* Blocks between a bag and the shared bag

\* The second block x of bag k leaves the list of s blocks.
Cut(m, w, k, x) ==
  /\ w = Heap(w) /\ IsHeap(w)
  /\ w.next[m.head[k]] = m.next[x] /\ w.next[x] = NULL
  /\ \A b \in Blocks : b # m.head[k] /\ b # x => w.next[b] = m.next[b]
  /\ w.data = m.data /\ w.head = m.head /\ w.tail = m.tail /\ w.pool = m.pool /\ w.live = m.live
  /\ w.sizeInBlocks[k] = m.sizeInBlocks[k] - 1
  /\ \A j \in Bags : j # k => w.sizeInBlocks[j] = m.sizeInBlocks[j]

CutAt(m, P, Q, pos, qos, k, x) ==
  /\ Q \in [Blocks -> Places] /\ qos \in [Blocks -> Nat]
  /\ Q[x] = "shared" /\ \A b \in Blocks : b # x => Q[b] = P[b]
  /\ qos[m.head[k]] = m.sizeInBlocks[k] - 1 /\ \A b \in Blocks : b # m.head[k] => qos[b] = pos[b]

\* A bag of more than two blocks has a full block behind its head.
LEMMA SecondIs ==
  ASSUME NEW m, NEW P, NEW pos, NEW k \in Bags, IsList(m, P, pos, k), m.sizeInBlocks[k] > 2
  PROVE  /\ SecondBlock(m, k) \in Blocks /\ P[SecondBlock(m, k)] = k
         /\ pos[SecondBlock(m, k)] = m.sizeInBlocks[k] - 1
         /\ Len(m.data[SecondBlock(m, k)]) = BLOCK_SIZE /\ SecondBlock(m, k) # m.head[k]
<1>1. PICK h \in Blocks : h = m.head[k] /\ P[h] = k /\ pos[h] = m.sizeInBlocks[k]
  BY DEF IsList
<1>2. Linked(m, P, pos, k, h) /\ m.sizeInBlocks[k] \in Nat
  BY <1>1 DEF IsList
<1>3. PICK x \in Blocks : x = m.next[h] /\ P[x] = k /\ pos[x] = m.sizeInBlocks[k] - 1
  BY <1>1, <1>2 DEF Linked
<1>4. x # h
  BY <1>1, <1>2, <1>3
<1>5. Len(m.data[x]) = BLOCK_SIZE
  BY <1>1, <1>3, <1>4 DEF IsList, Filled
<1> QED
  BY <1>1, <1>3, <1>4, <1>5 DEF SecondBlock

\* The list without its second block.
LEMMA CutList ==
  ASSUME NEW m, NEW w, NEW P, NEW pos, NEW Q, NEW qos, NEW k \in Bags, NEW x \in Blocks,
         IsList(m, P, pos, k), m.sizeInBlocks[k] > 2, x = SecondBlock(m, k),
         Cut(m, w, k, x), CutAt(m, P, Q, pos, qos, k, x)
  PROVE  IsList(w, Q, qos, k)
<1>1. PICK h \in Blocks : h = m.head[k] /\ P[h] = k
  BY DEF IsList
<1>2. PICK s \in Nat \ {0} : s = m.sizeInBlocks[k] /\ pos[h] = s /\ s > 2
  BY <1>1 DEF IsList
<1>3. P[x] = k /\ pos[x] = s - 1 /\ x # h /\ m.next[h] = x
  BY <1>1, <1>2, SecondIs DEF SecondBlock
<1>4. \A b \in Blocks : P[b] = k => pos[b] \in 1 .. s /\ Filled(m, k, b) /\ Linked(m, P, pos, k, b)
  BY <1>2 DEF IsList
<1>5. \A b, c \in Blocks : P[b] = k /\ P[c] = k /\ pos[b] = pos[c] => b = c
  BY DEF IsList
<1>6. Q[x] # k /\ (\A b \in Blocks : b # x => Q[b] = P[b]) /\ qos[h] = s - 1 /\ \A b \in Blocks : b # h => qos[b] = pos[b]
  BY <1>1, <1>2, BagsAssumption DEF CutAt
<1>7. PICK y \in Blocks : y = m.next[x] /\ P[y] = k /\ pos[y] = s - 2
  BY <1>2, <1>3, <1>4 DEF Linked
<1>8. y # x /\ y # h
  BY <1>2, <1>3, <1>7
<1>9. \A b \in Blocks : Q[b] = k /\ b # h => P[b] = k /\ b # x /\ qos[b] = pos[b] /\ pos[b] \in 1 .. s - 2
  <2>1. ASSUME NEW b \in Blocks, Q[b] = k, b # h PROVE P[b] = k /\ b # x /\ qos[b] = pos[b] /\ pos[b] \in 1 .. s - 2
    <3>1. b # x /\ P[b] = k /\ qos[b] = pos[b]
      BY <1>6, <2>1
    <3>2. pos[b] # s /\ pos[b] # s - 1 /\ pos[b] \in 1 .. s
      BY <1>1, <1>2, <1>3, <1>4, <1>5, <2>1, <3>1
    <3> QED
      BY <3>1, <3>2
  <2> QED
    BY <2>1
<1>10. /\ w.head[k] = h /\ w.tail = m.tail /\ w.data = m.data /\ w.sizeInBlocks[k] = s - 1
       /\ w.next[h] = y /\ \A b \in Blocks : b # h /\ b # x => w.next[b] = m.next[b]
  BY <1>1, <1>2, <1>7 DEF Cut
<1>11. ASSUME NEW b \in Blocks, Q[b] = k
       PROVE  qos[b] \in 1 .. s - 1 /\ Filled(w, k, b) /\ Linked(w, Q, qos, k, b)
  <2>1. CASE b = h
    <3>1. Filled(w, k, b)
      BY <1>1, <1>4, <1>10, <2>1 DEF Filled
    <3>2. Q[y] = k /\ qos[y] = s - 2 /\ s - 1 # 1
      BY <1>2, <1>6, <1>7, <1>8
    <3>3. Linked(w, Q, qos, k, b)
      BY <1>2, <1>6, <1>10, <2>1, <3>2 DEF Linked
    <3> QED
      BY <1>2, <1>6, <2>1, <3>1, <3>3
  <2>2. CASE b # h
    <3>1. P[b] = k /\ b # x /\ qos[b] = pos[b] /\ pos[b] \in 1 .. s - 2
      BY <1>9, <1>11, <2>2
    <3>2. Filled(m, k, b) /\ Linked(m, P, pos, k, b)
      BY <1>4, <3>1
    <3>3. Filled(w, k, b)
      BY <1>1, <1>10, <3>2 DEF Filled
    <3>4. w.next[b] = m.next[b]
      BY <1>10, <2>2, <3>1
    <3>5. Linked(w, Q, qos, k, b)
      <4>1. CASE pos[b] = 1
        BY <3>1, <3>2, <3>4, <4>1 DEF Linked
      <4>2. CASE pos[b] # 1
        <5>1. m.next[b] \in Blocks /\ P[m.next[b]] = k /\ pos[m.next[b]] = pos[b] - 1
          BY <3>2, <4>2 DEF Linked
        <5>2. m.next[b] # h /\ m.next[b] # x
          BY <1>2, <1>3, <3>1, <5>1
        <5> QED
          BY <1>6, <3>1, <3>4, <4>2, <5>1, <5>2 DEF Linked
      <4> QED
        BY <4>1, <4>2
    <3> QED
      BY <3>1, <3>3, <3>5
  <2> QED
    BY <2>1, <2>2
<1>12. \A b, c \in Blocks : Q[b] = k /\ Q[c] = k /\ qos[b] = qos[c] => b = c
  <2>1. \A b \in Blocks : Q[b] = k /\ b # h => qos[b] # qos[h]
    BY <1>6, <1>9
  <2> QED
    BY <1>5, <1>9, <2>1
<1>13. \A i \in 1 .. s - 1 : \E b \in Blocks : Q[b] = k /\ qos[b] = i
  <2>1. ASSUME NEW i \in 1 .. s - 1 PROVE \E b \in Blocks : Q[b] = k /\ qos[b] = i
    <3>1. CASE i = s - 1
      BY <1>1, <1>3, <1>6, <3>1
    <3>2. CASE i # s - 1
      <4>1. PICK b \in Blocks : P[b] = k /\ pos[b] = i
        BY <1>2 DEF IsList
      <4>2. b # h /\ b # x
        BY <1>2, <1>3, <3>2, <4>1
      <4> QED
        BY <1>6, <4>1, <4>2
    <3> QED
      BY <3>1, <3>2
  <2> QED
    BY <2>1
<1>14. m.tail[k] \in Blocks /\ Q[m.tail[k]] = k /\ qos[m.tail[k]] = 1
  <2>1. m.tail[k] \in Blocks /\ P[m.tail[k]] = k /\ pos[m.tail[k]] = 1
    BY DEF IsList
  <2>2. m.tail[k] # h /\ m.tail[k] # x
    BY <1>2, <1>3, <2>1
  <2> QED
    BY <1>6, <2>1, <2>2
<1>15. Q[h] = k /\ s - 1 \in Nat \ {0}
  BY <1>1, <1>2, <1>3, <1>6
<1> QED
  BY <1>6, <1>10, <1>11, <1>12, <1>13, <1>14, <1>15 DEF IsList

\* The second block goes to the shared bag.
LEMMA CutShape ==
  ASSUME NEW m, NEW w, NEW sh, NEW P, NEW pos, NEW Q, NEW qos, NEW k \in Bags, NEW x \in Blocks,
         Shape(m, sh, P, pos), m.head[k] # NULL, m.sizeInBlocks[k] > 2, x = SecondBlock(m, k),
         Cut(m, w, k, x), CutAt(m, P, Q, pos, qos, k, x)
  PROVE  Shape(w, sh \cup {x}, Q, qos)
<1>1. ShapeParts(m, sh, P, pos)
  BY ShapeIs
<1>2. IsList(m, P, pos, k)
  BY <1>1 DEF ShapeParts, Lists
<1>3. PICK h \in Blocks : h = m.head[k] /\ P[h] = k
  BY <1>2 DEF IsList
<1>4. P[x] = k /\ x # h /\ Len(m.data[x]) = BLOCK_SIZE
  BY <1>2, <1>3, SecondIs
<1>5. \A j \in Bags : j \notin {"none", "pool", "shared"}
  BY BagsAssumption
<1>6. Q[x] = "shared" /\ (\A b \in Blocks : b # x => Q[b] = P[b]) /\ \A b \in Blocks : b # h => qos[b] = pos[b]
  BY <1>3 DEF CutAt
<1>7. /\ w.next[x] = NULL /\ \A b \in Blocks : b # h /\ b # x => w.next[b] = m.next[b]
      /\ w.data = m.data /\ w.head = m.head /\ w.tail = m.tail /\ w.pool = m.pool /\ w.live = m.live
      /\ \A j \in Bags : j # k => w.sizeInBlocks[j] = m.sizeInBlocks[j]
  BY <1>3 DEF Cut
<1>8. IsList(w, Q, qos, k)
  BY <1>2, CutList
<1>9. ASSUME NEW j \in Bags, j # k PROVE Kept(m, w, P, pos, Q, qos, j)
  <2>1. P[h] # j /\ P[x] # j /\ Q[x] # j
    BY <1>3, <1>4, <1>5, <1>6, <1>9
  <2> QED
    BY <1>6, <1>7, <1>9, <2>1 DEF Kept
<1>10. Lists(w, Q, qos)
  <2>1. PICK S \in SUBSET Bags : S = {k}
    OBVIOUS
  <2>2. \A j \in S : w.head[j] # NULL /\ IsList(w, Q, qos, j)
    BY <1>7, <1>8, <2>1
  <2>3. \A j \in Bags \ S : Kept(m, w, P, pos, Q, qos, j)
    BY <1>9, <2>1
  <2>4. Lists(m, P, pos)
    BY <1>1 DEF ShapeParts
  <2> QED
    BY ONLY <2>2, <2>3, <2>4, S \in SUBSET Bags, OtherLists
<1>11. InShared(w, sh \cup {x}, Q)
  <2> SUFFICES ASSUME NEW b \in Blocks
               PROVE  /\ b \in sh \cup {x} <=> Q[b] = "shared"
                      /\ b \in sh \cup {x} => w.next[b] = NULL /\ Len(w.data[b]) = BLOCK_SIZE
    BY DEF InShared
  <2>1. (b \in sh <=> P[b] = "shared") /\ (b \in sh => m.next[b] = NULL /\ Len(m.data[b]) = BLOCK_SIZE)
    BY <1>1 DEF InShared, ShapeParts
  <2>2. CASE b = x
    BY <1>4, <1>6, <1>7, <2>2
  <2>3. CASE b # x
    BY <1>3, <1>5, <1>6, <1>7, <2>1, <2>3
  <2> QED
    BY <2>2, <2>3
<1>12. InPool(w, Q)
  <2>1. \A b \in Blocks : Q[b] = "pool" <=> P[b] = "pool"
    BY <1>4, <1>5, <1>6
  <2> QED
    BY <1>1, <1>7, <2>1 DEF InPool, ShapeParts
<1>13. Live(w, Q)
  <2>1. \A b \in Blocks : Q[b] = "none" <=> P[b] = "none"
    BY <1>4, <1>5, <1>6
  <2> QED
    BY <1>1, <1>7, <2>1 DEF Live, ShapeParts
<1>14. sh \cup {x} \subseteq Blocks
  BY <1>1 DEF ShapeParts
<1>15. Q \in [Blocks -> Places] /\ qos \in [Blocks -> Nat] /\ w = Heap(w) /\ IsHeap(w)
  BY DEF CutAt, Cut
<1>16. ShapeParts(w, sh \cup {x}, Q, qos)
  BY <1>10, <1>11, <1>12, <1>13, <1>14, <1>15 DEF ShapeParts
<1> QED
  BY <1>16, ShapeIs

\* What removeFullBlock of bag k changes: block x has left for the shared bag.
BlockLeft(m, w, P, Q, pos, qos, k, x) ==
  /\ P[x] = k /\ Q[x] = "shared"
  /\ \A b \in Blocks : (b # x => Q[b] = P[b]) /\ (P[b] # k => qos[b] = pos[b])
  /\ w.data = m.data /\ w.head = m.head
  /\ \A j \in Bags : j # k => w.sizeInBlocks[j] = m.sizeInBlocks[j]

\* removeFullBlock, from a bag of more than two blocks.
LEMMA RemoveFullIs ==
  ASSUME NEW m, NEW sh, NEW P, NEW pos, NEW k \in Bags, Shape(m, sh, P, pos), m.head[k] # NULL,
         m.sizeInBlocks[k] > 2
  PROVE  \E Q, qos : /\ Shape(RemoveFullBlock(m, k), sh \cup {SecondBlock(m, k)}, Q, qos)
                     /\ BlockLeft(m, RemoveFullBlock(m, k), P, Q, pos, qos, k, SecondBlock(m, k))
                     /\ SecondBlock(m, k) \in Blocks
<1>1. ShapeParts(m, sh, P, pos)
  BY ShapeIs
<1>2. IsList(m, P, pos, k)
  BY <1>1 DEF ShapeParts, Lists
<1>3. PICK h \in Blocks : h = m.head[k] /\ P[h] = k
  BY <1>2 DEF IsList
<1>4. PICK x \in Blocks : x = SecondBlock(m, k) /\ P[x] = k /\ x # h
  BY <1>2, <1>3, SecondIs
<1>5. IsHeap(m) /\ m = Heap(m) /\ P \in [Blocks -> Places] /\ pos \in [Blocks -> Nat]
  BY <1>1 DEF ShapeParts
<1>6. m.sizeInBlocks[k] \in Nat /\ m.sizeInBlocks[k] - 1 \in Nat
  BY <1>2 DEF IsList
<1>7. PICK N : N = [m.next EXCEPT ![h] = m.next[x], ![x] = NULL]
  OBVIOUS
<1>8. PICK Z : Z = [m.sizeInBlocks EXCEPT ![k] = @ - 1]
  OBVIOUS
<1>9. PICK w : w = RemoveFullBlock(m, k)
  OBVIOUS
<1>10. w = [m EXCEPT !.next = N, !.sizeInBlocks = Z]
  BY <1>3, <1>4, <1>7, <1>8, <1>9 DEF RemoveFullBlock
<1>11. /\ w.next = N /\ w.data = m.data /\ w.head = m.head /\ w.tail = m.tail /\ w.sizeInBlocks = Z
       /\ w.pool = m.pool /\ w.live = m.live /\ w = Heap(w)
  BY <1>5, <1>10 DEF Heap
<1>12. /\ N \in [Blocks -> Blocks \cup {NULL}] /\ N[h] = m.next[x] /\ N[x] = NULL
       /\ \A b \in Blocks : b # h /\ b # x => N[b] = m.next[b]
  <2>1. PICK f \in [Blocks -> Blocks \cup {NULL}] : f = m.next
    BY <1>5 DEF IsHeap
  <2>2. PICK y \in Blocks \cup {NULL} : y = f[x]
    BY <1>4
  <2>3. N = [f EXCEPT ![h] = y, ![x] = NULL]
    BY <1>7, <2>1, <2>2
  <2> QED
    BY <1>4, <2>1, <2>2, <2>3
<1>13. Z \in [Bags -> Nat] /\ Z[k] = m.sizeInBlocks[k] - 1 /\ \A j \in Bags : j # k => Z[j] = m.sizeInBlocks[j]
  BY <1>5, <1>6, <1>8 DEF IsHeap
<1>14. IsHeap(w)
  BY <1>5, <1>11, <1>12, <1>13 DEF IsHeap
<1>15. Cut(m, w, k, x)
  BY <1>3, <1>11, <1>12, <1>13, <1>14 DEF Cut
<1>16. PICK Q : Q = [P EXCEPT ![x] = "shared"]
  OBVIOUS
<1>17. PICK qos : qos = [pos EXCEPT ![h] = m.sizeInBlocks[k] - 1]
  OBVIOUS
<1>18. CutAt(m, P, Q, pos, qos, k, x)
  BY <1>3, <1>5, <1>6, <1>16, <1>17 DEF CutAt, Places
<1>19. Shape(w, sh \cup {x}, Q, qos)
  BY <1>4, <1>15, <1>18, CutShape
<1>20. BlockLeft(m, w, P, Q, pos, qos, k, x)
  BY <1>3, <1>4, <1>11, <1>13, <1>18 DEF BlockLeft, CutAt
<1> QED
  BY <1>4, <1>9, <1>19, <1>20

\* A block x of the shared bag becomes the last one of bag k.
Attached(m, w, k, x) ==
  /\ w = Heap(w) /\ IsHeap(w)
  /\ w.next[m.tail[k]] = x /\ \A b \in Blocks : b # m.tail[k] => w.next[b] = m.next[b]
  /\ w.data = m.data /\ w.head = m.head /\ w.pool = m.pool /\ w.live = m.live
  /\ w.tail[k] = x /\ w.sizeInBlocks[k] = m.sizeInBlocks[k] + 1
  /\ \A j \in Bags : j # k => w.tail[j] = m.tail[j] /\ w.sizeInBlocks[j] = m.sizeInBlocks[j]

AttachedAt(P, Q, pos, qos, k, x) ==
  /\ Q \in [Blocks -> Places] /\ qos \in [Blocks -> Nat]
  /\ Q[x] = k /\ qos[x] = 1
  /\ \A b \in Blocks : b # x => Q[b] = P[b] /\ qos[b] = IF P[b] = k THEN pos[b] + 1 ELSE pos[b]

\* The list with one more block at its end.
LEMMA AttachedList ==
  ASSUME NEW m, NEW w, NEW P, NEW pos \in [Blocks -> Nat], NEW Q, NEW qos, NEW k \in Bags, NEW x \in Blocks,
         IsList(m, P, pos, k), P[x] # k, m.next[x] = NULL, Len(m.data[x]) = BLOCK_SIZE,
         Attached(m, w, k, x), AttachedAt(P, Q, pos, qos, k, x)
  PROVE  IsList(w, Q, qos, k)
<1>1. PICK h \in Blocks : h = m.head[k] /\ P[h] = k
  BY DEF IsList
<1>2. PICK s \in Nat \ {0} : s = m.sizeInBlocks[k] /\ pos[h] = s
  BY <1>1 DEF IsList
<1>3. PICK t \in Blocks : t = m.tail[k] /\ P[t] = k /\ pos[t] = 1
  BY DEF IsList
<1>4. \A b \in Blocks : P[b] = k => pos[b] \in 1 .. s /\ Filled(m, k, b) /\ Linked(m, P, pos, k, b)
  BY <1>2 DEF IsList
<1>5. \A b, c \in Blocks : P[b] = k /\ P[c] = k /\ pos[b] = pos[c] => b = c
  BY DEF IsList
<1>6. /\ Q[x] = k /\ qos[x] = 1
      /\ \A b \in Blocks : b # x => Q[b] = P[b] /\ (P[b] = k => qos[b] = pos[b] + 1)
  BY DEF AttachedAt
<1>7. x # h /\ x # t
  BY <1>1, <1>3
<1>8. /\ w.head[k] = h /\ w.tail[k] = x /\ w.data = m.data /\ w.sizeInBlocks[k] = s + 1
      /\ w.next[t] = x /\ \A b \in Blocks : b # t => w.next[b] = m.next[b]
  BY <1>1, <1>2, <1>3 DEF Attached
<1>9. ASSUME NEW b \in Blocks, Q[b] = k
      PROVE  qos[b] \in 1 .. s + 1 /\ Filled(w, k, b) /\ Linked(w, Q, qos, k, b)
  <2>1. CASE b = x
    <3>1. Filled(w, k, b)
      BY <1>7, <1>8, <2>1 DEF Filled
    <3>2. Linked(w, Q, qos, k, b)
      BY <1>6, <1>7, <1>8, <2>1 DEF Linked
    <3> QED
      BY <1>6, <2>1, <3>1, <3>2
  <2>2. CASE b # x
    <3>1. P[b] = k /\ qos[b] = pos[b] + 1 /\ pos[b] \in 1 .. s /\ Filled(m, k, b) /\ Linked(m, P, pos, k, b)
      BY <1>4, <1>6, <1>9, <2>2
    <3>2. Filled(w, k, b)
      BY <1>1, <1>8, <3>1 DEF Filled
    <3>3. Linked(w, Q, qos, k, b)
      <4>1. CASE b = t
        <5>1. qos[b] = 1 + 1
          BY <1>3, <3>1, <4>1
        <5>2. w.next[b] = x /\ x \in Blocks
          BY <1>8, <4>1
        <5> QED
          BY <1>6, <5>1, <5>2 DEF Linked
      <4>2. CASE b # t
        <5>1. pos[b] # 1
          BY <1>3, <1>5, <3>1, <4>2
        <5>2. m.next[b] \in Blocks /\ P[m.next[b]] = k /\ pos[m.next[b]] = pos[b] - 1
          BY <3>1, <5>1 DEF Linked
        <5>3. m.next[b] # x
          BY <5>2
        <5>4. Q[m.next[b]] = k /\ qos[m.next[b]] = pos[b] - 1 + 1
          BY <1>6, <5>2, <5>3
        <5>5. w.next[b] = m.next[b] /\ qos[b] # 1 /\ pos[b] - 1 + 1 = qos[b] - 1
          BY <1>8, <3>1, <4>2
        <5> QED
          BY <5>2, <5>4, <5>5 DEF Linked
      <4> QED
        BY <4>1, <4>2
    <3> QED
      BY <3>1, <3>2, <3>3
  <2> QED
    BY <2>1, <2>2
<1>10. \A b, c \in Blocks : Q[b] = k /\ Q[c] = k /\ qos[b] = qos[c] => b = c
  <2>1. \A b \in Blocks : Q[b] = k /\ b # x => P[b] = k /\ qos[b] = pos[b] + 1 /\ pos[b] \in 1 .. s
    BY <1>4, <1>6
  <2> QED
    BY <1>5, <1>6, <2>1
<1>11. \A i \in 1 .. s + 1 : \E b \in Blocks : Q[b] = k /\ qos[b] = i
  <2>1. ASSUME NEW i \in 1 .. s + 1 PROVE \E b \in Blocks : Q[b] = k /\ qos[b] = i
    <3>1. CASE i = 1
      BY <1>6, <3>1
    <3>2. CASE i # 1
      <4>1. i - 1 \in 1 .. s
        BY <3>2
      <4>2. PICK b \in Blocks : P[b] = k /\ pos[b] = i - 1
        BY <1>2, <4>1 DEF IsList
      <4>3. b # x
        BY <4>2
      <4> QED
        BY <1>6, <4>2, <4>3
    <3> QED
      BY <3>1, <3>2
  <2> QED
    BY <2>1
<1>12. Q[h] = k /\ qos[h] = s + 1 /\ s + 1 \in Nat \ {0}
  BY <1>1, <1>2, <1>6, <1>7
<1> QED
  BY <1>6, <1>8, <1>9, <1>10, <1>11, <1>12 DEF IsList

\* A full block of the shared bag goes to the end of a list.
LEMMA AttachedShape ==
  ASSUME NEW m, NEW w, NEW sh, NEW P, NEW pos, NEW Q, NEW qos, NEW k \in Bags, NEW x \in sh,
         Shape(m, sh, P, pos), m.head[k] # NULL,
         Attached(m, w, k, x), AttachedAt(P, Q, pos, qos, k, x)
  PROVE  Shape(w, sh \ {x}, Q, qos)
<1>1. ShapeParts(m, sh, P, pos)
  BY ShapeIs
<1>2. IsList(m, P, pos, k) /\ pos \in [Blocks -> Nat]
  BY <1>1 DEF ShapeParts, Lists
<1>3. PICK t \in Blocks : t = m.tail[k] /\ P[t] = k
  BY <1>2 DEF IsList
<1>4. x \in Blocks /\ P[x] = "shared" /\ m.next[x] = NULL /\ Len(m.data[x]) = BLOCK_SIZE
  BY <1>1 DEF ShapeParts, InShared
<1>5. \A j \in Bags : j \notin {"none", "pool", "shared"}
  BY BagsAssumption
<1>6. /\ Q[x] = k /\ \A b \in Blocks : b # x => Q[b] = P[b] /\ (P[b] # k => qos[b] = pos[b])
  BY DEF AttachedAt
<1>7. /\ \A b \in Blocks : b # t => w.next[b] = m.next[b]
      /\ w.data = m.data /\ w.head = m.head /\ w.pool = m.pool /\ w.live = m.live
      /\ \A j \in Bags : j # k => w.tail[j] = m.tail[j] /\ w.sizeInBlocks[j] = m.sizeInBlocks[j]
  BY <1>3 DEF Attached
<1>8. IsList(w, Q, qos, k)
  BY <1>2, <1>4, <1>5, AttachedList
<1>9. ASSUME NEW j \in Bags, j # k PROVE Kept(m, w, P, pos, Q, qos, j)
  <2>1. P[t] # j /\ P[x] # j /\ Q[x] # j
    BY <1>3, <1>4, <1>5, <1>6, <1>9
  <2> QED
    BY <1>6, <1>7, <1>9, <2>1 DEF Kept
<1>10. Lists(w, Q, qos)
  <2>1. PICK S \in SUBSET Bags : S = {k}
    OBVIOUS
  <2>2. \A j \in S : w.head[j] # NULL /\ IsList(w, Q, qos, j)
    BY <1>7, <1>8, <2>1
  <2>3. \A j \in Bags \ S : Kept(m, w, P, pos, Q, qos, j)
    BY <1>9, <2>1
  <2>4. Lists(m, P, pos)
    BY <1>1 DEF ShapeParts
  <2> QED
    BY ONLY <2>2, <2>3, <2>4, S \in SUBSET Bags, OtherLists
<1>11. InShared(w, sh \ {x}, Q)
  <2> SUFFICES ASSUME NEW b \in Blocks
               PROVE  /\ b \in sh \ {x} <=> Q[b] = "shared"
                      /\ b \in sh \ {x} => w.next[b] = NULL /\ Len(w.data[b]) = BLOCK_SIZE
    BY DEF InShared
  <2>1. (b \in sh <=> P[b] = "shared") /\ (b \in sh => m.next[b] = NULL /\ Len(m.data[b]) = BLOCK_SIZE)
    BY <1>1 DEF InShared, ShapeParts
  <2>2. CASE b = x
    BY <1>5, <1>6, <2>2
  <2>3. CASE b # x
    BY <1>3, <1>5, <1>6, <1>7, <2>1, <2>3
  <2> QED
    BY <2>2, <2>3
<1>12. InPool(w, Q)
  <2>1. \A b \in Blocks : Q[b] = "pool" <=> P[b] = "pool"
    BY <1>4, <1>5, <1>6
  <2> QED
    BY <1>1, <1>7, <2>1 DEF InPool, ShapeParts
<1>13. Live(w, Q)
  <2>1. \A b \in Blocks : Q[b] = "none" <=> P[b] = "none"
    BY <1>4, <1>5, <1>6
  <2> QED
    BY <1>1, <1>7, <2>1 DEF Live, ShapeParts
<1>14. sh \ {x} \subseteq Blocks
  BY <1>1 DEF ShapeParts
<1>15. Q \in [Blocks -> Places] /\ qos \in [Blocks -> Nat] /\ w = Heap(w) /\ IsHeap(w)
  BY DEF AttachedAt, Attached
<1>16. ShapeParts(w, sh \ {x}, Q, qos)
  BY <1>10, <1>11, <1>12, <1>13, <1>14, <1>15 DEF ShapeParts
<1> QED
  BY <1>16, ShapeIs

\* What addFullBlock to bag k changes: block x has come from the shared bag.
BlockCame(m, w, P, Q, k, x) ==
  /\ P[x] = "shared" /\ Q[x] = k
  /\ \A b \in Blocks : b # x => Q[b] = P[b]
  /\ w.data = m.data /\ w.head = m.head

\* addFullBlock, of a block of the shared bag.
LEMMA AddFullIs ==
  ASSUME NEW m, NEW sh, NEW P, NEW pos, NEW k \in Bags, Shape(m, sh, P, pos), m.head[k] # NULL,
         NEW x \in sh
  PROVE  \E Q, qos : /\ Shape(AddFullBlock(m, k, x), sh \ {x}, Q, qos)
                     /\ BlockCame(m, AddFullBlock(m, k, x), P, Q, k, x)
<1>1. ShapeParts(m, sh, P, pos)
  BY ShapeIs
<1>2. IsList(m, P, pos, k)
  BY <1>1 DEF ShapeParts, Lists
<1>3. PICK t \in Blocks : t = m.tail[k] /\ P[t] = k
  BY <1>2 DEF IsList
<1>4. x \in Blocks /\ P[x] = "shared"
  BY <1>1 DEF ShapeParts, InShared
<1>5. IsHeap(m) /\ m = Heap(m) /\ P \in [Blocks -> Places] /\ pos \in [Blocks -> Nat]
  BY <1>1 DEF ShapeParts
<1>6. PICK N : N = [m.next EXCEPT ![t] = x]
  OBVIOUS
<1>7. PICK Z : Z = [m.sizeInBlocks EXCEPT ![k] = @ + 1]
  OBVIOUS
<1>8. PICK T : T = [m.tail EXCEPT ![k] = x]
  OBVIOUS
<1>9. PICK w : w = AddFullBlock(m, k, x)
  OBVIOUS
<1>10. w = [m EXCEPT !.next = N, !.tail = T, !.sizeInBlocks = Z]
  BY <1>3, <1>6, <1>7, <1>8, <1>9 DEF AddFullBlock
<1>11. /\ w.next = N /\ w.data = m.data /\ w.head = m.head /\ w.tail = T /\ w.sizeInBlocks = Z
       /\ w.pool = m.pool /\ w.live = m.live /\ w = Heap(w)
  BY <1>5, <1>10 DEF Heap
<1>12. /\ N \in [Blocks -> Blocks \cup {NULL}] /\ N[t] = x /\ \A b \in Blocks : b # t => N[b] = m.next[b]
  BY <1>4, <1>5, <1>6 DEF IsHeap
<1>13. Z \in [Bags -> Nat] /\ Z[k] = m.sizeInBlocks[k] + 1 /\ \A j \in Bags : j # k => Z[j] = m.sizeInBlocks[j]
  BY <1>5, <1>7 DEF IsHeap
<1>14. T \in [Bags -> Blocks \cup {NULL}] /\ T[k] = x /\ \A j \in Bags : j # k => T[j] = m.tail[j]
  BY <1>4, <1>5, <1>8 DEF IsHeap
<1>15. IsHeap(w)
  BY <1>5, <1>11, <1>12, <1>13, <1>14 DEF IsHeap
<1>16. Attached(m, w, k, x)
  BY <1>3, <1>11, <1>12, <1>13, <1>14, <1>15 DEF Attached
<1>17. PICK Q : Q = [P EXCEPT ![x] = k]
  OBVIOUS
<1>18. PICK qos : qos = [b \in Blocks |-> IF b = x THEN 1 ELSE IF P[b] = k THEN pos[b] + 1 ELSE pos[b]]
  OBVIOUS
<1>19. AttachedAt(P, Q, pos, qos, k, x)
  <2>1. Q \in [Blocks -> Places] /\ Q[x] = k /\ \A b \in Blocks : b # x => Q[b] = P[b]
    BY <1>4, <1>5, <1>17 DEF Places
  <2>2. qos \in [Blocks -> Nat] /\ qos[x] = 1
    BY <1>4, <1>5, <1>18
  <2>3. \A b \in Blocks : b # x => qos[b] = IF P[b] = k THEN pos[b] + 1 ELSE pos[b]
    BY <1>18
  <2> QED
    BY <2>1, <2>2, <2>3 DEF AttachedAt
<1>20. Shape(w, sh \ {x}, Q, qos)
  BY <1>16, <1>19, AttachedShape
<1>21. BlockCame(m, w, P, Q, k, x)
  BY <1>4, <1>11, <1>19 DEF BlockCame, AttachedAt
<1> QED
  BY <1>9, <1>20, <1>21

-----------------------------------------------------------------------------
\* appendMoveFullBlocks

\* The blocks of bag from behind block p, whose place is n, are now behind those of bag to.
Moved(m, w, to, from, p, n) ==
  /\ w = Heap(w) /\ IsHeap(w)
  /\ w.next[m.tail[to]] = m.next[p] /\ w.next[p] = NULL
  /\ \A b \in Blocks : b # m.tail[to] /\ b # p => w.next[b] = m.next[b]
  /\ w.data = m.data /\ w.head = m.head /\ w.pool = m.pool /\ w.live = m.live
  /\ w.tail[to] = m.tail[from] /\ w.tail[from] = p
  /\ w.sizeInBlocks[to] = m.sizeInBlocks[to] + (n - 1)
  /\ w.sizeInBlocks[from] = m.sizeInBlocks[from] - (n - 1)
  /\ \A j \in Bags : j # to /\ j # from => w.tail[j] = m.tail[j] /\ w.sizeInBlocks[j] = m.sizeInBlocks[j]

MovedAt(P, Q, pos, qos, to, from, n) ==
  /\ Q \in [Blocks -> Places] /\ qos \in [Blocks -> Nat]
  /\ \A b \in Blocks :
       /\ P[b] = from /\ pos[b] < n => Q[b] = to /\ qos[b] = pos[b]
       /\ P[b] = from /\ ~(pos[b] < n) => Q[b] = from /\ qos[b] = pos[b] - (n - 1)
       /\ P[b] = to => Q[b] = to /\ qos[b] = pos[b] + (n - 1)
       /\ P[b] # from /\ P[b] # to => Q[b] = P[b] /\ qos[b] = pos[b]

\* What is left of the list that the blocks are taken from.
LEMMA MovedFrom ==
  ASSUME NEW m, NEW w, NEW P, NEW pos \in [Blocks -> Nat], NEW Q, NEW qos,
         NEW to \in Bags, NEW from \in Bags, to # from, NEW p \in Blocks, P[p] = from, pos[p] # 1,
         IsList(m, P, pos, from), IsList(m, P, pos, to),
         Moved(m, w, to, from, p, pos[p]), MovedAt(P, Q, pos, qos, to, from, pos[p])
  PROVE  IsList(w, Q, qos, from)
<1>1. PICK h \in Blocks : h = m.head[from] /\ P[h] = from
  BY DEF IsList
<1>2. PICK s \in Nat \ {0} : s = m.sizeInBlocks[from] /\ pos[h] = s
  BY <1>1 DEF IsList
<1>3. PICK n \in Nat : n = pos[p]
  OBVIOUS
<1>4. \A b \in Blocks : P[b] = from => pos[b] \in 1 .. s /\ Filled(m, from, b) /\ Linked(m, P, pos, from, b)
  BY <1>2 DEF IsList
<1>5. \A b, c \in Blocks : P[b] = from /\ P[c] = from /\ pos[b] = pos[c] => b = c
  BY DEF IsList
<1>6. n \in 2 .. s
  BY <1>3, <1>4
<1>7. PICK t \in Blocks : t = m.tail[to] /\ P[t] = to
  BY DEF IsList
<1>8. \A b \in Blocks : /\ Q[b] = from <=> P[b] = from /\ ~(pos[b] < n)
                        /\ P[b] = from /\ ~(pos[b] < n) => qos[b] = pos[b] - (n - 1)
  BY <1>3 DEF MovedAt
<1>9. /\ w.head[from] = h /\ w.tail[from] = p /\ w.data = m.data /\ w.sizeInBlocks[from] = s - (n - 1)
      /\ w.next[p] = NULL /\ \A b \in Blocks : b # t /\ b # p => w.next[b] = m.next[b]
  BY <1>1, <1>2, <1>3, <1>7 DEF Moved
<1>10. PICK r \in Nat \ {0} : r = s - (n - 1)
  BY <1>6
<1>11. ASSUME NEW b \in Blocks, Q[b] = from
       PROVE  qos[b] \in 1 .. r /\ Filled(w, from, b) /\ Linked(w, Q, qos, from, b)
  <2>1. P[b] = from /\ ~(pos[b] < n) /\ qos[b] = pos[b] - (n - 1) /\ pos[b] \in 1 .. s
    BY <1>4, <1>8, <1>11
  <2>2. Filled(m, from, b) /\ Linked(m, P, pos, from, b)
    BY <1>4, <2>1
  <2>3. Filled(w, from, b)
    BY <1>1, <1>9, <2>2 DEF Filled
  <2>4. Linked(w, Q, qos, from, b)
    <3>1. CASE b = p
      <4>1. qos[b] = 1
        BY <1>3, <1>6, <2>1, <3>1
      <4> QED
        BY <1>9, <3>1, <4>1 DEF Linked
    <3>2. CASE b # p
      <4>1. pos[b] # n
        BY <1>3, <1>5, <2>1, <3>2
      <4>2. pos[b] > n /\ pos[b] # 1
        BY <1>6, <2>1, <4>1
      <4>3. PICK c \in Blocks : c = m.next[b] /\ P[c] = from /\ pos[c] = pos[b] - 1
        BY <2>2, <4>2 DEF Linked
      <4>4. ~(pos[c] < n)
        BY <1>6, <2>1, <4>2, <4>3
      <4>5. Q[c] = from /\ qos[c] = pos[b] - 1 - (n - 1)
        BY <1>8, <4>3, <4>4
      <4>6. b # t
        BY <1>7, <2>1
      <4>7. w.next[b] = c
        BY <1>9, <3>2, <4>3, <4>6
      <4>8. qos[b] # 1 /\ qos[c] = qos[b] - 1
        BY <1>6, <2>1, <4>2, <4>5
      <4> QED
        BY <4>5, <4>7, <4>8 DEF Linked
    <3> QED
      BY <3>1, <3>2
  <2>5. qos[b] \in 1 .. r
    BY <1>6, <1>10, <2>1
  <2> QED
    BY <2>3, <2>4, <2>5
<1>12. \A b, c \in Blocks : Q[b] = from /\ Q[c] = from /\ qos[b] = qos[c] => b = c
  <2>1. ASSUME NEW b \in Blocks, NEW c \in Blocks, Q[b] = from, Q[c] = from, qos[b] = qos[c] PROVE b = c
    <3>1. P[b] = from /\ qos[b] = pos[b] - (n - 1) /\ P[c] = from /\ qos[c] = pos[c] - (n - 1)
      BY <1>8, <2>1
    <3>2. pos[b] \in 1 .. s /\ pos[c] \in 1 .. s /\ pos[b] - (n - 1) = pos[c] - (n - 1)
      BY <1>4, <2>1, <3>1
    <3>3. \A i, j, l \in Nat : i - (l - 1) = j - (l - 1) => i = j
      OBVIOUS
    <3>4. pos[b] = pos[c]
      <4>1. pos[b] \in Nat /\ pos[c] \in Nat
        OBVIOUS
      <4> QED
        BY ONLY <3>2, <3>3, <4>1, n \in Nat
    <3> QED
      BY <1>5, <3>1, <3>4
  <2> QED
    BY <2>1
<1>13. \A i \in 1 .. r : \E b \in Blocks : Q[b] = from /\ qos[b] = i
  <2>1. ASSUME NEW i \in 1 .. r PROVE \E b \in Blocks : Q[b] = from /\ qos[b] = i
    <3>1. i + (n - 1) \in 1 .. s /\ ~(i + (n - 1) < n)
      BY <1>6, <1>10
    <3>2. PICK b \in Blocks : P[b] = from /\ pos[b] = i + (n - 1)
      BY <1>2, <3>1 DEF IsList
    <3>3. Q[b] = from /\ qos[b] = i + (n - 1) - (n - 1)
      BY <1>8, <3>1, <3>2
    <3>4. qos[b] = i
      BY <1>6, <3>3
    <3> QED
      BY <3>3, <3>4
  <2> QED
    BY <2>1
<1>14. Q[h] = from /\ qos[h] = r
  BY <1>1, <1>2, <1>6, <1>8, <1>10
<1>15. Q[p] = from /\ qos[p] = 1
  BY <1>3, <1>6, <1>8
<1> QED
  BY <1>9, <1>10, <1>11, <1>12, <1>13, <1>14, <1>15 DEF IsList

\* The list that the blocks are appended to.
LEMMA MovedTo ==
  ASSUME NEW m, NEW w, NEW P, NEW pos \in [Blocks -> Nat], NEW Q, NEW qos,
         NEW to \in Bags, NEW from \in Bags, to # from, NEW p \in Blocks, P[p] = from, pos[p] # 1,
         IsList(m, P, pos, from), IsList(m, P, pos, to),
         Moved(m, w, to, from, p, pos[p]), MovedAt(P, Q, pos, qos, to, from, pos[p])
  PROVE  IsList(w, Q, qos, to)
<1>1. PICK h \in Blocks : h = m.head[to] /\ P[h] = to
  BY DEF IsList
<1>2. PICK s \in Nat \ {0} : s = m.sizeInBlocks[to] /\ pos[h] = s
  BY <1>1 DEF IsList
<1>3. PICK n \in Nat : n = pos[p]
  OBVIOUS
<1>4. \A b \in Blocks : P[b] = to => pos[b] \in 1 .. s /\ Filled(m, to, b) /\ Linked(m, P, pos, to, b)
  BY <1>2 DEF IsList
<1>5. PICK f \in Nat \ {0} : f = m.sizeInBlocks[from]
  BY DEF IsList
<1>6. \A b \in Blocks : P[b] = from => pos[b] \in 1 .. f /\ Filled(m, from, b) /\ Linked(m, P, pos, from, b)
  BY <1>5 DEF IsList
<1>7. n \in 2 .. f
  BY <1>3, <1>6
<1>8. PICK t \in Blocks : t = m.tail[to] /\ P[t] = to /\ pos[t] = 1
  BY DEF IsList
<1>9. PICK g \in Blocks : g = m.tail[from] /\ P[g] = from /\ pos[g] = 1
  BY DEF IsList
<1>10. PICK a \in Blocks : a = m.head[from] /\ P[a] = from /\ pos[a] = f
  BY <1>5 DEF IsList
<1>11. \A b \in Blocks : /\ Q[b] = to <=> P[b] = to \/ (P[b] = from /\ pos[b] < n)
                         /\ P[b] = from /\ pos[b] < n => qos[b] = pos[b]
                         /\ P[b] = to => qos[b] = pos[b] + (n - 1)
  BY <1>3 DEF MovedAt
<1>12. /\ w.head[to] = h /\ w.tail[to] = g /\ w.data = m.data /\ w.sizeInBlocks[to] = s + (n - 1)
       /\ w.next[t] = m.next[p] /\ \A b \in Blocks : b # t /\ b # p => w.next[b] = m.next[b]
  BY <1>1, <1>2, <1>3, <1>8, <1>9 DEF Moved
<1>13. PICK r \in Nat \ {0} : r = s + (n - 1)
  BY <1>7
<1>14. PICK c \in Blocks : c = m.next[p] /\ P[c] = from /\ pos[c] = n - 1
  <2>1. Linked(m, P, pos, from, p)
    BY <1>6
  <2> QED
    BY <1>3, <2>1 DEF Linked
<1>15. ASSUME NEW b \in Blocks, Q[b] = to
       PROVE  qos[b] \in 1 .. r /\ Filled(w, to, b) /\ Linked(w, Q, qos, to, b)
  <2>1. CASE P[b] = to
    <3>1. pos[b] \in 1 .. s /\ Filled(m, to, b) /\ Linked(m, P, pos, to, b) /\ qos[b] = pos[b] + (n - 1)
      BY <1>4, <1>11, <2>1
    <3>2. Filled(w, to, b)
      BY <1>1, <1>12, <3>1 DEF Filled
    <3>3. b # p
      BY <2>1
    <3>4. Linked(w, Q, qos, to, b)
      <4>1. CASE b = t
        <5>1. Q[c] = to /\ qos[c] = n - 1
          BY <1>7, <1>11, <1>14
        <5>2. qos[b] # 1 /\ qos[c] = qos[b] - 1
          BY <1>7, <1>8, <3>1, <4>1, <5>1
        <5> QED
          BY <1>12, <1>14, <4>1, <5>1, <5>2 DEF Linked
      <4>2. CASE b # t
        <5>1. pos[b] # 1
          BY <1>8, <2>1, <4>2 DEF IsList
        <5>2. PICK d \in Blocks : d = m.next[b] /\ P[d] = to /\ pos[d] = pos[b] - 1
          BY <3>1, <5>1 DEF Linked
        <5>3. Q[d] = to /\ qos[d] = pos[b] - 1 + (n - 1)
          BY <1>11, <5>2
        <5>4. w.next[b] = d
          BY <1>12, <3>3, <4>2, <5>2
        <5>5. qos[b] # 1 /\ qos[d] = qos[b] - 1
          BY <1>7, <3>1, <5>1, <5>3
        <5> QED
          BY <5>3, <5>4, <5>5 DEF Linked
      <4> QED
        BY <4>1, <4>2
    <3>5. qos[b] \in 1 .. r
      BY <1>7, <1>13, <3>1
    <3> QED
      BY <3>2, <3>4, <3>5
  <2>2. CASE P[b] # to
    <3>1. P[b] = from /\ pos[b] < n /\ qos[b] = pos[b] /\ pos[b] \in 1 .. f
      BY <1>6, <1>11, <1>15, <2>2
    <3>2. Filled(m, from, b) /\ Linked(m, P, pos, from, b)
      BY <1>6, <3>1
    <3>3. b # a /\ b # h /\ b # t /\ b # p
      BY <1>1, <1>3, <1>7, <1>8, <1>10, <3>1
    <3>4. Filled(w, to, b)
      BY <1>10, <1>12, <3>2, <3>3 DEF Filled
    <3>5. Linked(w, Q, qos, to, b)
      <4>1. CASE pos[b] = 1
        BY <1>12, <3>1, <3>2, <3>3, <4>1 DEF Linked
      <4>2. CASE pos[b] # 1
        <5>1. PICK d \in Blocks : d = m.next[b] /\ P[d] = from /\ pos[d] = pos[b] - 1
          BY <3>2, <4>2 DEF Linked
        <5>2. pos[d] < n
          BY <1>7, <3>1, <5>1
        <5>3. Q[d] = to /\ qos[d] = qos[b] - 1
          BY <1>11, <3>1, <5>1, <5>2
        <5>4. w.next[b] = d
          BY <1>12, <3>3, <5>1
        <5> QED
          BY <3>1, <4>2, <5>3, <5>4 DEF Linked
      <4> QED
        BY <4>1, <4>2
    <3>6. qos[b] \in 1 .. r
      BY <1>7, <1>13, <3>1
    <3> QED
      BY <3>4, <3>5, <3>6
  <2> QED
    BY <2>1, <2>2
<1>16. \A b, d \in Blocks : Q[b] = to /\ Q[d] = to /\ qos[b] = qos[d] => b = d
  <2>1. ASSUME NEW b \in Blocks, NEW d \in Blocks, Q[b] = to, Q[d] = to, qos[b] = qos[d] PROVE b = d
    <3>1. CASE P[b] = to /\ P[d] = to
      <4>1. pos[b] = pos[d]
        BY <1>4, <1>7, <1>11, <2>1, <3>1
      <4> QED
        BY <3>1, <4>1 DEF IsList
    <3>2. CASE P[b] # to /\ P[d] # to
      <4>1. P[b] = from /\ P[d] = from /\ pos[b] = pos[d]
        BY <1>11, <2>1, <3>2
      <4> QED
        BY <4>1 DEF IsList
    <3>3. CASE P[b] = to /\ P[d] # to
      BY <1>4, <1>6, <1>7, <1>11, <2>1, <3>3
    <3>4. CASE P[b] # to /\ P[d] = to
      BY <1>4, <1>6, <1>7, <1>11, <2>1, <3>4
    <3> QED
      BY <3>1, <3>2, <3>3, <3>4
  <2> QED
    BY <2>1
<1>17. \A i \in 1 .. r : \E b \in Blocks : Q[b] = to /\ qos[b] = i
  <2>1. ASSUME NEW i \in 1 .. r PROVE \E b \in Blocks : Q[b] = to /\ qos[b] = i
    <3>1. CASE i < n
      <4>1. i \in 1 .. f
        BY <1>7, <3>1
      <4>2. PICK b \in Blocks : P[b] = from /\ pos[b] = i
        BY <1>5, <4>1 DEF IsList
      <4> QED
        BY <1>11, <3>1, <4>2
    <3>2. CASE ~(i < n)
      <4>1. i - (n - 1) \in 1 .. s
        BY <1>7, <1>13, <3>2
      <4>2. PICK b \in Blocks : P[b] = to /\ pos[b] = i - (n - 1)
        BY <1>2, <4>1 DEF IsList
      <4>3. Q[b] = to /\ qos[b] = i - (n - 1) + (n - 1)
        BY <1>11, <4>2
      <4>4. qos[b] = i
        BY <1>7, <4>3
      <4> QED
        BY <4>3, <4>4
    <3> QED
      BY <3>1, <3>2
  <2> QED
    BY <2>1
<1>18. Q[h] = to /\ qos[h] = r
  BY <1>1, <1>2, <1>11, <1>13
<1>19. Q[g] = to /\ qos[g] = 1
  BY <1>7, <1>9, <1>11
<1> QED
  BY <1>12, <1>13, <1>15, <1>16, <1>17, <1>18, <1>19 DEF IsList

\* Blocks that move from the end of one list to the end of another keep the shape.
LEMMA MovedShape ==
  ASSUME NEW m, NEW w, NEW sh, NEW P, NEW pos, NEW Q, NEW qos,
         NEW to \in Bags, NEW from \in Bags, to # from, NEW p \in Blocks, P[p] = from, pos[p] # 1,
         Shape(m, sh, P, pos), m.head[to] # NULL, m.head[from] # NULL,
         Moved(m, w, to, from, p, pos[p]), MovedAt(P, Q, pos, qos, to, from, pos[p])
  PROVE  Shape(w, sh, Q, qos)
<1>1. ShapeParts(m, sh, P, pos)
  BY ShapeIs
<1>2. IsList(m, P, pos, to) /\ IsList(m, P, pos, from) /\ pos \in [Blocks -> Nat]
  BY <1>1 DEF ShapeParts, Lists
<1>3. PICK t \in Blocks : t = m.tail[to] /\ P[t] = to
  BY <1>2 DEF IsList
<1>4. \A j \in Bags : j \notin {"none", "pool", "shared"}
  BY BagsAssumption
<1>5. \A b \in Blocks : /\ P[b] = from \/ P[b] = to => Q[b] = from \/ Q[b] = to
                        /\ P[b] # from /\ P[b] # to => Q[b] = P[b] /\ qos[b] = pos[b]
  BY DEF MovedAt
<1>6. /\ \A b \in Blocks : b # t /\ b # p => w.next[b] = m.next[b]
      /\ w.data = m.data /\ w.head = m.head /\ w.pool = m.pool /\ w.live = m.live
      /\ \A j \in Bags : j # to /\ j # from => w.tail[j] = m.tail[j] /\ w.sizeInBlocks[j] = m.sizeInBlocks[j]
  BY <1>3 DEF Moved
<1>7. IsList(w, Q, qos, to) /\ IsList(w, Q, qos, from)
  BY <1>2, MovedTo, MovedFrom
<1>8. ASSUME NEW j \in Bags, j # to, j # from PROVE Kept(m, w, P, pos, Q, qos, j)
  <2>1. P[t] # j /\ P[p] # j
    BY <1>3, <1>8
  <2> QED
    BY <1>5, <1>6, <1>8, <2>1 DEF Kept
<1>9. Lists(w, Q, qos)
  <2>1. PICK S \in SUBSET Bags : S = {to, from}
    OBVIOUS
  <2>2. \A j \in S : w.head[j] # NULL /\ IsList(w, Q, qos, j)
    BY <1>6, <1>7, <2>1
  <2>3. \A j \in Bags \ S : Kept(m, w, P, pos, Q, qos, j)
    BY <1>8, <2>1
  <2>4. Lists(m, P, pos)
    BY <1>1 DEF ShapeParts
  <2> QED
    BY ONLY <2>2, <2>3, <2>4, S \in SUBSET Bags, OtherLists
<1>10. \A b \in Blocks : /\ Q[b] = "pool" <=> P[b] = "pool"
                         /\ Q[b] = "none" <=> P[b] = "none"
                         /\ Q[b] = "shared" <=> P[b] = "shared"
  BY <1>4, <1>5
<1>11. InShared(w, sh, Q)
  <2>1. ASSUME NEW b \in Blocks, b \in sh PROVE b # t /\ b # p
    <3>1. P[b] = "shared"
      BY <1>1, <2>1 DEF ShapeParts, InShared
    <3> QED
      BY <1>3, <1>4, <3>1
  <2> QED
    BY <1>1, <1>6, <1>10, <2>1 DEF InShared, ShapeParts
<1>12. InPool(w, Q)
  BY <1>1, <1>6, <1>10 DEF InPool, ShapeParts
<1>13. Live(w, Q)
  BY <1>1, <1>6, <1>10 DEF Live, ShapeParts
<1>14. sh \subseteq Blocks
  BY <1>1 DEF ShapeParts
<1>15. Q \in [Blocks -> Places] /\ qos \in [Blocks -> Nat] /\ w = Heap(w) /\ IsHeap(w)
  BY DEF MovedAt, Moved
<1>16. ShapeParts(w, sh, Q, qos)
  BY <1>9, <1>11, <1>12, <1>13, <1>14, <1>15 DEF ShapeParts
<1> QED
  BY <1>16, ShapeIs

\* computeSizeInBlocks() finds what sizeInBlocks says.
LEMMA LengthIs ==
  ASSUME NEW m, NEW sh, NEW P, NEW pos, Shape(m, sh, P, pos), NEW k \in Bags, m.head[k] # NULL
  PROVE  Len(BlocksOf(m, k)) = m.sizeInBlocks[k]
<1>1. ShapeParts(m, sh, P, pos)
  BY ShapeIs
<1>2. IsList(m, P, pos, k) /\ P \in [Blocks -> Places] /\ pos \in [Blocks -> Nat]
  BY <1>1 DEF ShapeParts, Lists
<1>3. BlocksOf(m, k) \in [1 .. m.sizeInBlocks[k] -> Blocks]
  BY <1>2, BlocksAre DEF ListOf
<1>4. m.sizeInBlocks[k] \in Nat
  BY <1>2 DEF IsList
<1> QED
  BY <1>3, <1>4

\* The blocks of a list do not depend on the counters.
LEMMA SameBlocks ==
  ASSUME NEW m, NEW w, NEW k, w.next = m.next, w.head = m.head
  PROVE  BlocksOf(w, k) = BlocksOf(m, k)
BY DEF BlocksOf, Chain

\* So that to assign it to sizeInBlocks changes nothing.
LEMMA RecountIs ==
  ASSUME NEW m, NEW sh, NEW P, NEW pos, Shape(m, sh, P, pos), NEW k \in Bags, m.head[k] # NULL
  PROVE  Recount(m, k) = m
<1>1. Len(BlocksOf(m, k)) = m.sizeInBlocks[k]
  BY LengthIs
<1>2. IsHeap(m) /\ m = Heap(m)
  BY ShapeIs DEF ShapeParts
<1>3. [m.sizeInBlocks EXCEPT ![k] = m.sizeInBlocks[k]] = m.sizeInBlocks
  BY <1>2 DEF IsHeap
<1>4. Recount(m, k) = [m EXCEPT !.sizeInBlocks = m.sizeInBlocks]
  BY <1>1, <1>3 DEF Recount
<1> QED
  BY <1>2, <1>4 DEF Heap

\* What appendMoveFullBlocks changes: blocks of bag from behind block p are in bag to.
BlocksMoved(m, w, P, Q, pos, to, from, p) ==
  /\ \A b \in Blocks : Q[b] # P[b] => P[b] = from /\ Q[b] = to /\ pos[b] < pos[p]
  /\ w.data = m.data /\ w.head = m.head
  /\ w.sizeInBlocks[from] = m.sizeInBlocks[from] - (pos[p] - 1)

\* appendMoveFullBlocks, behind any block p of the bag.
LEMMA MoveBlocksIs ==
  ASSUME NEW m, NEW sh, NEW P, NEW pos, Shape(m, sh, P, pos), NEW to \in Bags, NEW from \in Bags, to # from,
         m.head[to] # NULL, m.head[from] # NULL, NEW p \in Blocks, P[p] = from
  PROVE  \E Q, qos : /\ Shape(AppendMoveFullBlocks(m, to, from, p), sh, Q, qos)
                     /\ BlocksMoved(m, AppendMoveFullBlocks(m, to, from, p), P, Q, pos, to, from, p)
<1>1. ShapeParts(m, sh, P, pos)
  BY ShapeIs
<1>2. IsHeap(m) /\ m = Heap(m) /\ P \in [Blocks -> Places] /\ pos \in [Blocks -> Nat]
  BY <1>1 DEF ShapeParts
<1>3. IsList(m, P, pos, to) /\ IsList(m, P, pos, from)
  BY <1>1 DEF ShapeParts, Lists
<1>4. CASE m.next[p] = NULL
  <2>1. AppendMoveFullBlocks(m, to, from, p) = m
    BY <1>4 DEF AppendMoveFullBlocks
  <2>2. BlocksMoved(m, m, P, P, pos, to, from, p)
    <3>1. pos[p] = 1 /\ m.sizeInBlocks[from] \in Nat
      BY <1>3, <1>4, NullAssumption DEF IsList, Linked
    <3> QED
      BY <3>1 DEF BlocksMoved
  <2> QED
    BY <2>1, <2>2
<1>5. CASE m.next[p] # NULL
  <2>1. PICK t \in Blocks : t = m.tail[to] /\ P[t] = to
    BY <1>3 DEF IsList
  <2>2. PICK g \in Blocks : g = m.tail[from] /\ P[g] = from
    BY <1>3 DEF IsList
  <2>3. PICK c : c = m.next[p] /\ c \in Blocks
    BY <1>2, <1>5 DEF IsHeap
  <2>4. PICK s \in Nat : s = m.sizeInBlocks[to]
    BY <1>3 DEF IsList
  <2>5. PICK f \in Nat : f = m.sizeInBlocks[from] /\ pos[p] \in 1 .. f /\ Linked(m, P, pos, from, p)
    BY <1>3 DEF IsList
  <2>6. PICK n \in Nat : n = pos[p] /\ n \in 2 .. f
    BY <1>5, <2>5 DEF Linked
  <2>7. PICK N : N = [m.next EXCEPT ![t] = c, ![p] = NULL]
    OBVIOUS
  <2>8. PICK T : T = [m.tail EXCEPT ![to] = g, ![from] = p]
    OBVIOUS
  <2>9. PICK Y : Y = [m.sizeInBlocks EXCEPT ![to] = s + (n - 1)]
    OBVIOUS
  <2>10. PICK Z : Z = [Y EXCEPT ![from] = f - (n - 1)]
    OBVIOUS
  <2>11. PICK v : v = [m EXCEPT !.next = N, !.tail = T]
    OBVIOUS
  <2>12. PICK w : w = [m EXCEPT !.next = N, !.tail = T, !.sizeInBlocks = Z]
    OBVIOUS
  <2>13. /\ w.next = N /\ w.data = m.data /\ w.head = m.head /\ w.tail = T /\ w.sizeInBlocks = Z
         /\ w.pool = m.pool /\ w.live = m.live /\ w = Heap(w)
    BY <1>2, <2>12 DEF Heap
  <2>14. v.next = N /\ v.head = m.head /\ v.sizeInBlocks = m.sizeInBlocks
    BY <1>2, <2>11 DEF Heap
  <2>15. t # p
    BY <2>1
  <2>16. /\ N \in [Blocks -> Blocks \cup {NULL}] /\ N[t] = c /\ N[p] = NULL
         /\ \A b \in Blocks : b # t /\ b # p => N[b] = m.next[b]
    BY <1>2, <2>3, <2>7, <2>15 DEF IsHeap
  <2>17. /\ T \in [Bags -> Blocks \cup {NULL}] /\ T[to] = g /\ T[from] = p
         /\ \A j \in Bags : j # to /\ j # from => T[j] = m.tail[j]
    BY <1>2, <2>8 DEF IsHeap
  <2>18. s + (n - 1) \in Nat /\ f - (n - 1) \in Nat
    BY <2>6
  <2>19. /\ Z \in [Bags -> Nat] /\ Z[to] = s + (n - 1) /\ Z[from] = f - (n - 1)
         /\ \A j \in Bags : j # to /\ j # from => Z[j] = m.sizeInBlocks[j]
    BY <1>2, <2>9, <2>10, <2>18 DEF IsHeap
  <2>20. IsHeap(w)
    BY <1>2, <2>13, <2>16, <2>17, <2>19 DEF IsHeap
  <2>21. Moved(m, w, to, from, p, pos[p])
    BY <2>1, <2>2, <2>3, <2>4, <2>5, <2>6, <2>13, <2>16, <2>17, <2>19, <2>20 DEF Moved
  <2>22. PICK Q : Q = [b \in Blocks |-> IF P[b] = from /\ pos[b] < n THEN to ELSE P[b]]
    OBVIOUS
  <2>23. PICK qos : qos = [b \in Blocks |-> IF P[b] = to THEN pos[b] + (n - 1)
                                            ELSE IF P[b] = from /\ ~(pos[b] < n) THEN pos[b] - (n - 1)
                                            ELSE pos[b]]
    OBVIOUS
  <2>24. MovedAt(P, Q, pos, qos, to, from, pos[p])
    <3>1. Q \in [Blocks -> Places]
      BY <1>2, <2>22 DEF Places
    <3>2. qos \in [Blocks -> Nat]
      BY <1>2, <2>6, <2>23
    <3> QED
      BY <2>6, <2>22, <2>23, <3>1, <3>2 DEF MovedAt
  <2>25. Shape(w, sh, Q, qos)
    <3>1. pos[p] # 1
      BY <2>6
    <3>2. Shape(m, sh, P, pos) /\ m.head[to] # NULL /\ m.head[from] # NULL /\ P[p] = from /\ to # from
      OBVIOUS
    <3> QED
      BY ONLY <2>21, <2>24, <3>1, <3>2, to \in Bags, from \in Bags, p \in Blocks, MovedShape
  <2>26. Len(BlocksOf(w, to)) = s + (n - 1) /\ Len(BlocksOf(w, from)) = f - (n - 1)
    <3>1. w.head[to] # NULL /\ w.head[from] # NULL
      BY <2>13
    <3>2. Len(BlocksOf(w, to)) = w.sizeInBlocks[to] /\ Len(BlocksOf(w, from)) = w.sizeInBlocks[from]
      BY ONLY <2>25, <3>1, to \in Bags, from \in Bags, LengthIs
    <3> QED
      BY <2>13, <2>19, <3>2
  <2>27. PICK y : y = Recount(v, to)
    OBVIOUS
  <2>28. y = [m EXCEPT !.next = N, !.tail = T, !.sizeInBlocks = Y]
    <3>1. BlocksOf(w, to) = BlocksOf(v, to)
      BY <2>13, <2>14, SameBlocks
    <3>2. Y = [v.sizeInBlocks EXCEPT ![to] = Len(BlocksOf(v, to))]
      BY <2>9, <2>14, <2>26, <3>1
    <3>3. y = [v EXCEPT !.sizeInBlocks = Y]
      BY <2>27, <3>2 DEF Recount
    <3> QED
      BY <2>11, <3>3
  <2>29. y.next = N /\ y.head = m.head /\ y.sizeInBlocks = Y
    BY <1>2, <2>28 DEF Heap
  <2>30. Recount(y, from) = w
    <3>1. BlocksOf(w, from) = BlocksOf(y, from)
      BY <2>13, <2>29, SameBlocks
    <3>2. Z = [y.sizeInBlocks EXCEPT ![from] = Len(BlocksOf(y, from))]
      BY <2>10, <2>26, <2>29, <3>1
    <3>3. Recount(y, from) = [y EXCEPT !.sizeInBlocks = Z]
      BY <3>2 DEF Recount
    <3> QED
      BY <2>12, <2>28, <3>3
  <2>31. v = [m EXCEPT !.next = [@ EXCEPT ![m.tail[to]] = m.next[p], ![p] = NULL],
                       !.tail = [@ EXCEPT ![to] = m.tail[from], ![from] = p]]
    BY <2>1, <2>2, <2>3, <2>7, <2>8, <2>11
  <2>32. AppendMoveFullBlocks(m, to, from, p) = w
    BY <1>5, <2>27, <2>30, <2>31 DEF AppendMoveFullBlocks
  <2>33. BlocksMoved(m, w, P, Q, pos, to, from, p)
    <3>1. w.sizeInBlocks[from] = m.sizeInBlocks[from] - (pos[p] - 1)
      BY <2>5, <2>6, <2>13, <2>19
    <3> QED
      BY <2>6, <2>13, <2>22, <3>1 DEF BlocksMoved
  <2> QED
    BY <2>25, <2>32, <2>33
<1> QED
  BY <1>4, <1>5

-----------------------------------------------------------------------------
\* Blocks that are given back by the destructors

\* The destructor of empty bag k: its only block is given back.
BagDeleted(m, w, P, Q, k) ==
  /\ HeadLeft(m, P, Q, k)
  /\ w.data = m.data /\ w.head[k] = NULL /\ \A j \in Bags : j # k => w.head[j] = m.head[j]

\* A list whose head has no successor has one block.
LEMMA OnlyBlock ==
  ASSUME NEW m, NEW P, NEW pos, NEW k \in Bags, IsList(m, P, pos, k), m.next[m.head[k]] = NULL
  PROVE  \A b \in Blocks : P[b] = k => b = m.head[k]
<1>1. PICK h \in Blocks : h = m.head[k] /\ P[h] = k /\ pos[h] = m.sizeInBlocks[k]
  BY DEF IsList
<1>2. Linked(m, P, pos, k, h)
  BY <1>1 DEF IsList
<1>3. pos[h] = 1
  BY <1>1, <1>2, NullAssumption DEF Linked
<1>4. \A b \in Blocks : P[b] = k => pos[b] \in 1 .. 1
  BY <1>1, <1>3 DEF IsList
<1>5. \A b \in Blocks : P[b] = k => pos[b] = pos[h]
  BY <1>3, <1>4
<1>6. \A b, c \in Blocks : P[b] = k /\ P[c] = k /\ pos[b] = pos[c] => b = c
  BY DEF IsList
<1> QED
  BY <1>1, <1>5, <1>6

\* The destructor of an empty bag.
LEMMA DeleteBagIs ==
  ASSUME NEW m, NEW sh, NEW P, NEW pos, Shape(m, sh, P, pos), NEW k \in Bags, m.head[k] # NULL,
         IsEmpty(m, k)
  PROVE  \E Q : Shape(DeleteBag(m, k), sh, Q, pos) /\ BagDeleted(m, DeleteBag(m, k), P, Q, k)
<1>1. ShapeParts(m, sh, P, pos)
  BY ShapeIs
<1>2. IsHeap(m) /\ m = Heap(m) /\ P \in [Blocks -> Places] /\ pos \in [Blocks -> Nat] /\ InPool(m, P) /\ Live(m, P)
  BY <1>1 DEF ShapeParts
<1>3. IsList(m, P, pos, k)
  BY <1>1 DEF ShapeParts, Lists
<1>4. PICK h \in Blocks : h = m.head[k] /\ P[h] = k
  BY <1>3 DEF IsList
<1>5. m.next[h] = NULL /\ m.data[h] = <<>>
  BY <1>4 DEF IsEmpty, HeadIsEmpty
<1>6. \A b \in Blocks : P[b] = k => b = h
  BY <1>3, <1>4, <1>5, OnlyBlock
<1>7. \A j \in Bags : j \notin {"none", "pool", "shared"}
  BY BagsAssumption
<1>8. PICK p : p = DeallocateBlock(m, h)
  OBVIOUS
<1>9. PICK Q : Q = [P EXCEPT ![h] = Back(m)]
  OBVIOUS
<1>10. Given(m, p, h) /\ PoolHas(p, Q)
  <2>1. m \in Heaps /\ P[h] # "pool"
    BY <1>2, <1>4, <1>7, HeapIs
  <2> QED
    BY ONLY <1>2, <1>8, <1>9, <2>1, h \in Blocks, GiveIs
<1>11. Back(m) \in {"pool", "none"}
  BY DEF Back
<1>12. Q \in [Blocks -> Places] /\ Q[h] = Back(m) /\ \A b \in Blocks : b # h => Q[b] = P[b]
  BY <1>2, <1>9, <1>11 DEF Places
<1>13. PICK H : H = [p.head EXCEPT ![k] = NULL]
  OBVIOUS
<1>14. PICK w : w = [p EXCEPT !.head = H]
  OBVIOUS
<1>15. w = DeleteBag(m, k)
  BY <1>4, <1>8, <1>13, <1>14 DEF DeleteBag
<1>16. IsHeap(p) /\ p = Heap(p)
  BY <1>10 DEF Given
<1>17. /\ w.next = p.next /\ w.data = p.data /\ w.head = H /\ w.tail = p.tail /\ w.sizeInBlocks = p.sizeInBlocks
       /\ w.pool = p.pool /\ w.live = p.live /\ w = Heap(w)
  BY <1>14, <1>16 DEF Heap
<1>18. /\ \A b \in Blocks : b # h => w.next[b] = m.next[b]
       /\ w.data = m.data /\ w.tail = m.tail /\ w.sizeInBlocks = m.sizeInBlocks
       /\ w.live = IF Back(m) = "none" THEN m.live \ {h} ELSE m.live
  BY <1>10, <1>17 DEF Given
<1>19. H \in [Bags -> Blocks \cup {NULL}] /\ H[k] = NULL /\ \A j \in Bags : j # k => H[j] = m.head[j]
  <2>1. p.head = m.head /\ p.head \in [Bags -> Blocks \cup {NULL}]
    BY <1>10, <1>16 DEF Given, IsHeap
  <2> QED
    BY <1>13, <2>1
<1>20. IsHeap(w)
  BY <1>16, <1>17, <1>19 DEF IsHeap
<1>21. ASSUME NEW j \in Bags, j # k PROVE Kept(m, w, P, pos, Q, pos, j)
  <2>1. P[h] # j /\ Q[h] # j
    BY <1>4, <1>7, <1>11, <1>12, <1>21
  <2> QED
    BY <1>12, <1>17, <1>18, <1>19, <1>21, <2>1 DEF Kept
<1>22. Lists(w, Q, pos)
  <2>1. ASSUME NEW j \in Bags, j # k, m.head[j] # NULL PROVE IsList(w, Q, pos, j)
    <3>1. IsList(m, P, pos, j)
      BY <1>1, <2>1 DEF ShapeParts, Lists
    <3> QED
      BY <1>21, <2>1, <3>1, ListFrame
  <2>2. ASSUME NEW j \in Bags, j # k, m.head[j] = NULL PROVE \A b \in Blocks : Q[b] # j
    <3>1. \A b \in Blocks : P[b] # j
      BY <1>1, <2>2 DEF ShapeParts, Lists
    <3> QED
      BY <1>7, <1>11, <1>12, <3>1
  <2>3. \A b \in Blocks : Q[b] # k
    BY <1>6, <1>7, <1>11, <1>12
  <2> QED
    BY <1>17, <1>19, <2>1, <2>2, <2>3 DEF Lists
<1>23. InShared(w, sh, Q)
  <2>1. \A b \in Blocks : Q[b] = "shared" <=> P[b] = "shared"
    BY <1>4, <1>7, <1>11, <1>12
  <2>2. h \notin sh
    BY <1>1, <1>4, <1>7 DEF ShapeParts, InShared
  <2> QED
    BY <1>1, <1>18, <2>1, <2>2 DEF InShared, ShapeParts
<1>24. InPool(w, Q)
  BY <1>2, <1>5, <1>10, <1>12, <1>17, <1>18 DEF InPool, PoolHas
<1>25. Live(w, Q)
  <2>1. h \in m.live
    BY <1>2, <1>4, <1>7 DEF Live
  <2> QED
    BY <1>2, <1>11, <1>12, <1>18, <2>1 DEF Live
<1>26. ShapeParts(w, sh, Q, pos)
  BY <1>1, <1>12, <1>17, <1>20, <1>22, <1>23, <1>24, <1>25 DEF ShapeParts
<1>27. HeadLeft(m, P, Q, k)
  BY <1>4, <1>5, <1>11, <1>12 DEF HeadLeft
<1>28. BagDeleted(m, w, P, Q, k)
  BY <1>17, <1>18, <1>19, <1>27 DEF BagDeleted
<1> QED
  BY <1>15, <1>26, <1>28, ShapeIs

\* Block x of the shared bag is emptied and given back.
BlockGone(m, w, P, Q, x) ==
  /\ P[x] = "shared" /\ Q[x] \in {"pool", "none"} /\ w.data[x] = <<>>
  /\ \A b \in Blocks : b # x => Q[b] = P[b] /\ w.data[b] = m.data[b]
  /\ w.head = m.head

\* The destructor of the shared bag, one block at a time.
LEMMA DrainIs ==
  ASSUME NEW m, NEW sh, NEW P, NEW pos, Shape(m, sh, P, pos), NEW x \in sh
  PROVE  LET w == DeallocateBlock([m EXCEPT !.data[x] = <<>>], x)
         IN  \E Q : Shape(w, sh \ {x}, Q, pos) /\ BlockGone(m, w, P, Q, x)
<1>1. ShapeParts(m, sh, P, pos)
  BY ShapeIs
<1>2. IsHeap(m) /\ m = Heap(m) /\ P \in [Blocks -> Places] /\ pos \in [Blocks -> Nat] /\ InPool(m, P) /\ Live(m, P)
  BY <1>1 DEF ShapeParts
<1>3. x \in Blocks /\ P[x] = "shared"
  BY <1>1 DEF ShapeParts, InShared
<1>4. \A j \in Bags : j \notin {"none", "pool", "shared"}
  BY BagsAssumption
<1>5. PICK D : D = [m.data EXCEPT ![x] = <<>>]
  OBVIOUS
<1>6. PICK v : v = [m EXCEPT !.data = D]
  OBVIOUS
<1>7. /\ v.next = m.next /\ v.data = D /\ v.head = m.head /\ v.tail = m.tail /\ v.sizeInBlocks = m.sizeInBlocks
      /\ v.pool = m.pool /\ v.live = m.live /\ v = Heap(v)
  BY <1>2, <1>6 DEF Heap
<1>8. D[x] = <<>> /\ DOMAIN D = Blocks /\ D = [b \in Blocks |-> D[b]] /\ \A b \in Blocks : b # x => D[b] = m.data[b]
  BY <1>2, <1>3, <1>5 DEF IsHeap
<1>9. IsHeap(v)
  <2>1. <<>> \in Seq(Objects) /\ Len(<<>>) <= BLOCK_SIZE
    BY BlockSizeAssumption
  <2>2. \A b \in Blocks : D[b] \in Seq(Objects) /\ Len(D[b]) <= BLOCK_SIZE
    BY <1>2, <1>8, <2>1 DEF IsHeap
  <2> QED
    BY <1>2, <1>7, <1>8, <2>2 DEF IsHeap
<1>10. InPool(v, P)
  BY <1>2, <1>3, <1>7, <1>8 DEF InPool
<1>11. PICK w : w = DeallocateBlock(v, x)
  OBVIOUS
<1>12. w = DeallocateBlock([m EXCEPT !.data[x] = <<>>], x)
  BY <1>5, <1>6, <1>11
<1>13. PICK Q : Q = [P EXCEPT ![x] = Back(v)]
  OBVIOUS
<1>14. Given(v, w, x) /\ PoolHas(w, Q)
  <2>1. v \in Heaps /\ P[x] # "pool"
    BY <1>3, <1>7, <1>9, HeapIs
  <2> QED
    BY ONLY <1>2, <1>3, <1>10, <1>11, <1>13, <2>1, GiveIs
<1>15. Back(v) \in {"pool", "none"}
  BY DEF Back
<1>16. Q \in [Blocks -> Places] /\ Q[x] = Back(v) /\ \A b \in Blocks : b # x => Q[b] = P[b]
  BY <1>2, <1>3, <1>13, <1>15 DEF Places
<1>17. /\ IsHeap(w) /\ w = Heap(w) /\ \A b \in Blocks : b # x => w.next[b] = m.next[b]
       /\ w.data = D /\ w.head = m.head /\ w.tail = m.tail /\ w.sizeInBlocks = m.sizeInBlocks
       /\ w.live = IF Back(v) = "none" THEN m.live \ {x} ELSE m.live
  BY <1>7, <1>14 DEF Given
<1>18. ASSUME NEW j \in Bags PROVE Kept(m, w, P, pos, Q, pos, j)
  <2>1. P[x] # j /\ Q[x] # j
    BY <1>3, <1>4, <1>15, <1>16
  <2> QED
    BY <1>8, <1>16, <1>17, <2>1 DEF Kept
<1>19. Lists(w, Q, pos)
  <2>1. PICK S \in SUBSET Bags : S = {}
    OBVIOUS
  <2>2. \A j \in Bags \ S : Kept(m, w, P, pos, Q, pos, j)
    BY <1>18, <2>1
  <2>3. \A j \in S : w.head[j] # NULL /\ IsList(w, Q, pos, j)
    BY <2>1
  <2>4. Lists(m, P, pos)
    BY <1>1 DEF ShapeParts
  <2> QED
    BY ONLY <2>2, <2>3, <2>4, S \in SUBSET Bags, OtherLists
<1>20. InShared(w, sh \ {x}, Q)
  BY <1>1, <1>8, <1>15, <1>16, <1>17 DEF InShared, ShapeParts
<1>21. InPool(w, Q)
  BY <1>2, <1>8, <1>14, <1>16, <1>17 DEF InPool, PoolHas
<1>22. Live(w, Q)
  <2>1. x \in m.live
    BY <1>2, <1>3 DEF Live
  <2> QED
    BY <1>2, <1>15, <1>16, <1>17, <2>1 DEF Live
<1>23. sh \ {x} \subseteq Blocks
  BY <1>1 DEF ShapeParts
<1>24. ShapeParts(w, sh \ {x}, Q, pos)
  BY <1>2, <1>16, <1>17, <1>19, <1>20, <1>21, <1>22, <1>23 DEF ShapeParts
<1>25. BlockGone(m, w, P, Q, x)
  BY <1>3, <1>8, <1>15, <1>16, <1>17 DEF BlockGone
<1> QED
  BY <1>12, <1>24, <1>25, ShapeIs

\* The destructor of the blockpool.
PoolDeleted(m, w, P, Q) ==
  /\ \A b \in Blocks : Q[b] = IF P[b] = "pool" THEN "none" ELSE P[b]
  /\ w.data = m.data /\ w.head = m.head /\ w.pool = <<>>

\* The destructor of the blockpool.
LEMMA DeletePoolIs ==
  ASSUME NEW m, NEW sh, NEW P, NEW pos, Shape(m, sh, P, pos)
  PROVE  LET w == [m EXCEPT !.live = @ \ ToSet(m.pool), !.pool = <<>>]
         IN  \E Q : Shape(w, sh, Q, pos) /\ PoolDeleted(m, w, P, Q)
<1>1. ShapeParts(m, sh, P, pos)
  BY ShapeIs
<1>2. IsHeap(m) /\ m = Heap(m) /\ P \in [Blocks -> Places] /\ pos \in [Blocks -> Nat] /\ InPool(m, P) /\ Live(m, P)
  BY <1>1 DEF ShapeParts
<1>3. \A j \in Bags : j \notin {"none", "pool", "shared"}
  BY BagsAssumption
<1>4. PICK L : L = m.live \ ToSet(m.pool)
  OBVIOUS
<1>5. PICK w : w = [m EXCEPT !.live = L, !.pool = <<>>]
  OBVIOUS
<1>6. /\ w.next = m.next /\ w.data = m.data /\ w.head = m.head /\ w.tail = m.tail
      /\ w.sizeInBlocks = m.sizeInBlocks /\ w.pool = <<>> /\ w.live = L /\ w = Heap(w)
  BY <1>2, <1>5 DEF Heap
<1>7. \A b \in Blocks : b \in ToSet(m.pool) <=> P[b] = "pool"
  <2>1. DOMAIN m.pool = 1 .. Len(m.pool)
    BY <1>2 DEF IsHeap
  <2> QED
    BY <1>2, <2>1 DEF InPool, ToSet
<1>8. IsHeap(w)
  <2>1. <<>> \in Seq(Blocks) /\ Len(<<>>) <= MAX_BLOCK_POOL_SIZE
    BY PoolSizeAssumption
  <2>2. L \in SUBSET Blocks
    BY <1>2, <1>4 DEF IsHeap
  <2> QED
    BY <1>2, <1>6, <2>1, <2>2 DEF IsHeap
<1>9. PICK Q : Q = [b \in Blocks |-> IF P[b] = "pool" THEN "none" ELSE P[b]]
  OBVIOUS
<1>10. Q \in [Blocks -> Places]
  BY <1>2, <1>9 DEF Places
<1>11. Lists(w, Q, pos)
  <2>1. PICK S \in SUBSET Bags : S = {}
    OBVIOUS
  <2>2. \A j \in Bags \ S : Kept(m, w, P, pos, Q, pos, j)
    BY <1>3, <1>6, <1>9 DEF Kept
  <2>3. \A j \in S : w.head[j] # NULL /\ IsList(w, Q, pos, j)
    BY <2>1
  <2>4. Lists(m, P, pos)
    BY <1>1 DEF ShapeParts
  <2> QED
    BY ONLY <2>2, <2>3, <2>4, S \in SUBSET Bags, OtherLists
<1>12. InShared(w, sh, Q)
  BY <1>1, <1>6, <1>9 DEF InShared, ShapeParts
<1>13. InPool(w, Q)
  <2>1. \A b \in Blocks : Q[b] # "pool"
    BY <1>9
  <2>2. 1 .. Len(w.pool) = {}
    BY <1>6
  <2> QED
    BY <2>1, <2>2 DEF InPool
<1>14. Live(w, Q)
  BY <1>2, <1>4, <1>6, <1>7, <1>9 DEF Live
<1>15. ShapeParts(w, sh, Q, pos)
  BY <1>1, <1>6, <1>8, <1>10, <1>11, <1>12, <1>13, <1>14 DEF ShapeParts
<1>16. PoolDeleted(m, w, P, Q)
  BY <1>6, <1>9 DEF PoolDeleted
<1> QED
  BY <1>4, <1>5, <1>15, <1>16, ShapeIs

-----------------------------------------------------------------------------
\* The initial heap

\* The constructors give every bag that is made an empty block of its own.
LEMMA InitIs ==
  ASSUME NEW made, made = Bags \/ made = {"retired"}
  PROVE  /\ \E P, pos : Shape(InitHeap(made), {}, P, pos)
         /\ \A b \in Blocks : InitHeap(made).data[b] = <<>>
         /\ \A k \in Bags : InitHeap(made).head[k] # NULL <=> k \in made
<1>1. made \subseteq Bags
  BY BagsAssumption
<1>2. \E f \in [made -> Blocks] : IsInjective(f)
  <2>1. PICK b \in Blocks, c \in Blocks : b # c
    BY BagsFit
  <2>2. PICK f : f = [k \in made |-> IF k = "retired" THEN b ELSE c]
    OBVIOUS
  <2>3. f \in [made -> Blocks]
    BY <2>1, <2>2
  <2>4. \A j, k \in made : f[j] = f[k] => j = k
    BY <1>1, <2>1, <2>2, BagsAssumption
  <2> QED
    BY <2>3, <2>4 DEF IsInjective
<1>3. PICK f : f = (CHOOSE g \in [made -> Blocks] : IsInjective(g))
  OBVIOUS
<1>4. f \in [made -> Blocks] /\ \A j, k \in made : f[j] = f[k] => j = k
  BY <1>2, <1>3 DEF IsInjective
<1>5. PICK H : H = [k \in Bags |-> IF k \in made THEN f[k] ELSE NULL]
  OBVIOUS
<1>6. H \in [Bags -> Blocks \cup {NULL}] /\ \A k \in Bags : (k \in made => H[k] = f[k]) /\ (k \notin made => H[k] = NULL)
  BY <1>4, <1>5
<1>7. PICK m : m = InitHeap(made)
  OBVIOUS
<1>8. /\ m.next = [b \in Blocks |-> NULL] /\ m.data = [b \in Blocks |-> <<>>]
      /\ m.head = H /\ m.tail = H /\ m.sizeInBlocks = [k \in Bags |-> 1]
      /\ m.pool = <<>> /\ m.live = Range(f) /\ m = Heap(m)
  BY <1>3, <1>5, <1>7 DEF InitHeap, Heap
<1>9. \A b \in Blocks : b \in m.live <=> \E k \in made : f[k] = b
  BY <1>4, <1>8 DEF Range
<1>10. m.live \subseteq Blocks
  BY <1>4, <1>8 DEF Range
<1>11. IsHeap(m)
  <2>1. <<>> \in Seq(Objects) /\ Len(<<>>) <= BLOCK_SIZE
    BY BlockSizeAssumption
  <2>2. <<>> \in Seq(Blocks) /\ Len(<<>>) <= MAX_BLOCK_POOL_SIZE
    BY PoolSizeAssumption
  <2> QED
    BY <1>6, <1>8, <1>10, <2>1, <2>2 DEF IsHeap
<1>12. PICK P : P = [b \in Blocks |-> IF \E k \in made : f[k] = b THEN CHOOSE k \in made : f[k] = b ELSE "none"]
  OBVIOUS
<1>13. \A k \in Bags : k \notin {"none", "pool", "shared"}
  BY BagsAssumption
<1>14. \A b \in Blocks : /\ (\E k \in made : f[k] = b) => P[b] \in made /\ f[P[b]] = b
                         /\ ~(\E k \in made : f[k] = b) => P[b] = "none"
  BY <1>12
<1>15. \A b \in Blocks : \A k \in made : P[b] = k <=> b = f[k]
  BY <1>1, <1>4, <1>13, <1>14
<1>16. P \in [Blocks -> Places]
  BY <1>1, <1>12, <1>14 DEF Places
<1>17. PICK pos : pos = [b \in Blocks |-> 1]
  OBVIOUS
<1>18. \A b \in Blocks : P[b] \in made \cup {"none"}
  BY <1>14
<1>19. ASSUME NEW k \in made PROVE IsList(m, P, pos, k)
  <2>1. k \in Bags /\ H[k] = f[k] /\ f[k] \in Blocks
    BY <1>1, <1>4, <1>6
  <2>2. m.sizeInBlocks[k] = 1 /\ m.head[k] = f[k] /\ m.tail[k] = f[k]
    BY <1>8, <2>1
  <2>3. \A b \in Blocks : P[b] = k <=> b = f[k]
    BY <1>15
  <2>4. pos[f[k]] = 1
    BY <1>17, <2>1
  <2>5. Filled(m, k, f[k])
    BY <1>8, <2>1, <2>2, BlockSizeAssumption DEF Filled
  <2>6. Linked(m, P, pos, k, f[k])
    BY <1>8, <2>1, <2>4 DEF Linked
  <2> QED
    BY <2>1, <2>2, <2>3, <2>4, <2>5, <2>6 DEF IsList
<1>20. Lists(m, P, pos)
  <2>1. ASSUME NEW k \in Bags, k \notin made PROVE m.head[k] = NULL /\ \A b \in Blocks : P[b] # k
    BY <1>6, <1>8, <1>13, <1>18, <2>1
  <2>2. ASSUME NEW k \in made PROVE m.head[k] # NULL
    BY <1>1, <1>4, <1>6, <1>8, NullAssumption
  <2> QED
    BY <1>19, <2>1, <2>2 DEF Lists
<1>21. InShared(m, {}, P)
  BY <1>1, <1>13, <1>18 DEF InShared
<1>22. InPool(m, P)
  <2>1. \A b \in Blocks : P[b] # "pool"
    BY <1>1, <1>13, <1>18
  <2>2. 1 .. Len(m.pool) = {}
    BY <1>8
  <2> QED
    BY <2>1, <2>2 DEF InPool
<1>23. Live(m, P)
  BY <1>1, <1>9, <1>13, <1>14 DEF Live
<1>24. pos \in [Blocks -> Nat]
  BY <1>17
<1>25. ShapeParts(m, {}, P, pos)
  BY <1>8, <1>11, <1>16, <1>20, <1>21, <1>22, <1>23, <1>24 DEF ShapeParts
<1>26. \A k \in Bags : m.head[k] # NULL <=> k \in made
  BY <1>4, <1>6, <1>8, NullAssumption
<1> QED
  BY <1>7, <1>8, <1>25, <1>26, ShapeIs

-----------------------------------------------------------------------------
\* The objects in the slots.  A slot may be left out, the one whose object is
\* about to be erased: slot ix of block x (no slot if x is NULL).

Distinct(m, P, x, ix) ==
  \A b, c \in Blocks : P[b] # "none" /\ P[c] # "none" =>
    \A i \in 1 .. Len(m.data[b]), j \in 1 .. Len(m.data[c]) :
      /\ ~(b = x /\ i = ix) /\ ~(c = x /\ j = ix)
      /\ m.data[b][i] = m.data[c][j]
      => b = c /\ i = j

Absent(m, P, x, ix, o) ==
  \A b \in Blocks : P[b] # "none" =>
    \A i \in 1 .. Len(m.data[b]) : ~(b = x /\ i = ix) => m.data[b][i] # o

\* Every slot of w is one of m.
Sub(m, P, w, Q) ==
  \A b \in Blocks : Q[b] # "none" =>
    \A i \in 1 .. Len(w.data[b]) :
      P[b] # "none" /\ i \in 1 .. Len(m.data[b]) /\ w.data[b][i] = m.data[b][i]

\* Every slot of w is one of m, but one behind those of block h with object o.
Gains(m, P, w, Q, h, o) ==
  \A b \in Blocks : Q[b] # "none" =>
    \A i \in 1 .. Len(w.data[b]) :
      \/ P[b] # "none" /\ i \in 1 .. Len(m.data[b]) /\ w.data[b][i] = m.data[b][i]
      \/ b = h /\ i = Len(m.data[h]) + 1 /\ w.data[b][i] = o

\* Fewer slots: no two of them hold one object if no two did.
LEMMA SubDistinct ==
  ASSUME NEW m, NEW P, NEW w, NEW Q, NEW x, NEW ix, Sub(m, P, w, Q), Distinct(m, P, x, ix)
  PROVE  Distinct(w, Q, x, ix)
<1> SUFFICES ASSUME NEW b \in Blocks, NEW c \in Blocks, Q[b] # "none", Q[c] # "none",
                    NEW i \in 1 .. Len(w.data[b]), NEW j \in 1 .. Len(w.data[c]),
                    ~(b = x /\ i = ix), ~(c = x /\ j = ix), w.data[b][i] = w.data[c][j]
             PROVE  b = c /\ i = j
  BY DEF Distinct
<1>1. P[b] # "none" /\ i \in 1 .. Len(m.data[b]) /\ w.data[b][i] = m.data[b][i]
  BY DEF Sub
<1>2. P[c] # "none" /\ j \in 1 .. Len(m.data[c]) /\ w.data[c][j] = m.data[c][j]
  BY DEF Sub
<1>3. m.data[b][i] = m.data[c][j]
  BY <1>1, <1>2
<1> QED
  BY ONLY <1>1, <1>2, <1>3, Distinct(m, P, x, ix), b \in Blocks, c \in Blocks,
     ~(b = x /\ i = ix), ~(c = x /\ j = ix) DEF Distinct

\* Fewer slots: what was in none of them is in none.
LEMMA SubAbsent ==
  ASSUME NEW m, NEW P, NEW w, NEW Q, NEW x, NEW ix, NEW o, Sub(m, P, w, Q), Absent(m, P, x, ix, o)
  PROVE  Absent(w, Q, x, ix, o)
BY DEF Sub, Absent

\* One more slot, for an object that was in none.
LEMMA GainsDistinct ==
  ASSUME NEW m, NEW P, NEW w, NEW Q, NEW x, NEW ix, NEW h, NEW o,
         Gains(m, P, w, Q, h, o), Distinct(m, P, x, ix), Absent(m, P, x, ix, o)
  PROVE  Distinct(w, Q, x, ix)
<1> SUFFICES ASSUME NEW b \in Blocks, NEW c \in Blocks, Q[b] # "none", Q[c] # "none",
                    NEW i \in 1 .. Len(w.data[b]), NEW j \in 1 .. Len(w.data[c]),
                    ~(b = x /\ i = ix), ~(c = x /\ j = ix), w.data[b][i] = w.data[c][j]
             PROVE  b = c /\ i = j
  BY DEF Distinct
<1>1. \/ P[b] # "none" /\ i \in 1 .. Len(m.data[b]) /\ w.data[b][i] = m.data[b][i]
      \/ b = h /\ i = Len(m.data[h]) + 1 /\ w.data[b][i] = o
  BY DEF Gains
<1>2. \/ P[c] # "none" /\ j \in 1 .. Len(m.data[c]) /\ w.data[c][j] = m.data[c][j]
      \/ c = h /\ j = Len(m.data[h]) + 1 /\ w.data[c][j] = o
  BY DEF Gains
<1>3. P[b] # "none" /\ i \in 1 .. Len(m.data[b]) => m.data[b][i] # o
  BY DEF Absent
<1>4. P[c] # "none" /\ j \in 1 .. Len(m.data[c]) => m.data[c][j] # o
  BY DEF Absent
<1>5. CASE b = h /\ i = Len(m.data[h]) + 1 /\ w.data[b][i] = o
  BY <1>2, <1>4, <1>5
<1>6. CASE P[b] # "none" /\ i \in 1 .. Len(m.data[b]) /\ w.data[b][i] = m.data[b][i]
  <2>1. P[c] # "none" /\ j \in 1 .. Len(m.data[c]) /\ w.data[c][j] = m.data[c][j]
    BY <1>2, <1>3, <1>6
  <2>2. m.data[b][i] = m.data[c][j]
    BY <1>6, <2>1
  <2> QED
    BY ONLY <1>6, <2>1, <2>2, Distinct(m, P, x, ix), b \in Blocks, c \in Blocks,
       ~(b = x /\ i = ix), ~(c = x /\ j = ix) DEF Distinct
<1> QED
  BY <1>1, <1>5, <1>6

\* One more slot, for another object.
LEMMA GainsAbsent ==
  ASSUME NEW m, NEW P, NEW w, NEW Q, NEW x, NEW ix, NEW h, NEW o, NEW u,
         Gains(m, P, w, Q, h, o), Absent(m, P, x, ix, u), o # u
  PROVE  Absent(w, Q, x, ix, u)
BY DEF Gains, Absent

\* With no slot left out.
LEMMA Whole ==
  ASSUME NEW m, NEW P, NEW x \in Blocks, NEW ix \in 1 .. Len(m.data[x]), P[x] # "none",
         Distinct(m, P, NULL, 0)
  PROVE  Distinct(m, P, x, ix) /\ Absent(m, P, x, ix, m.data[x][ix])
<1>1. NULL \notin Blocks
  BY NullAssumption
<1>2. \A b, c \in Blocks : P[b] # "none" /\ P[c] # "none" =>
        \A i \in 1 .. Len(m.data[b]), j \in 1 .. Len(m.data[c]) :
          m.data[b][i] = m.data[c][j] => b = c /\ i = j
  BY <1>1 DEF Distinct
<1>3. Distinct(m, P, x, ix)
  BY <1>2 DEF Distinct
<1>4. Absent(m, P, x, ix, m.data[x][ix])
  BY <1>2 DEF Absent
<1> QED
  BY <1>3, <1>4

\* What is in no slot is in no slot but one.
LEMMA AbsentWhole ==
  ASSUME NEW m, NEW P, NEW x, NEW ix, NEW o, Absent(m, P, NULL, 0, o)
  PROVE  Absent(m, P, x, ix, o)
BY NullAssumption DEF Absent

\* A step that leaves the objects where they are, and takes no block into use.
LEMMA DataSub ==
  ASSUME NEW m, NEW P, NEW w, NEW Q, w.data = m.data, \A b \in Blocks : Q[b] # "none" => P[b] # "none"
  PROVE  Sub(m, P, w, Q)
BY DEF Sub

\* The slots without those of a block that is emptied.
LEMMA GoneSub ==
  ASSUME NEW m, NEW P, NEW w, NEW Q, NEW x, BlockGone(m, w, P, Q, x)
  PROVE  Sub(m, P, w, Q)
<1> SUFFICES ASSUME NEW b \in Blocks, Q[b] # "none", NEW i \in 1 .. Len(w.data[b])
             PROVE  P[b] # "none" /\ i \in 1 .. Len(m.data[b]) /\ w.data[b][i] = m.data[b][i]
  BY DEF Sub
<1>1. b # x
  <2>1. w.data[x] = <<>>
    BY DEF BlockGone
  <2>2. 1 .. Len(w.data[x]) = {}
    BY <2>1
  <2> QED
    BY <2>2
<1> QED
  BY <1>1 DEF BlockGone

\* add takes one more slot into use.
LEMMA AddGains ==
  ASSUME NEW m, NEW sh, NEW P, NEW pos, Shape(m, sh, P, pos), NEW k \in Bags, m.head[k] # NULL,
         NEW w, NEW Q, NEW qos, NEW o \in Objects, Added(m, w, P, Q, pos, qos, k, o)
  PROVE  Gains(m, P, w, Q, m.head[k], o)
<1>1. ShapeParts(m, sh, P, pos)
  BY ShapeIs
<1>2. PICK h \in Blocks : h = m.head[k] /\ P[h] = k
  BY <1>1 DEF ShapeParts, Lists, IsList
<1>3. m.data[h] \in Seq(Objects)
  BY <1>1 DEF ShapeParts, IsHeap
<1>4. k \notin {"none", "pool"}
  BY BagsAssumption
<1> SUFFICES ASSUME NEW b \in Blocks, Q[b] # "none", NEW i \in 1 .. Len(w.data[b])
             PROVE  \/ P[b] # "none" /\ i \in 1 .. Len(m.data[b]) /\ w.data[b][i] = m.data[b][i]
                    \/ b = h /\ i = Len(m.data[h]) + 1 /\ w.data[b][i] = o
  BY <1>2 DEF Gains
<1>5. CASE Q[b] # P[b]
  <2>1. w.data[b] = <<>>
    BY <1>5 DEF Added
  <2>2. 1 .. Len(w.data[b]) = {}
    BY <2>1
  <2> QED
    BY <2>2
<1>6. CASE Q[b] = P[b] /\ b # h
  BY <1>2, <1>6 DEF Added
<1>7. CASE b = h
  <2>1. w.data[h] = Append(m.data[h], o)
    BY <1>2 DEF Added
  <2>2. /\ Len(w.data[h]) = Len(m.data[h]) + 1 /\ Len(m.data[h]) \in Nat
        /\ \A l \in 1 .. Len(m.data[h]) : w.data[h][l] = m.data[h][l]
        /\ w.data[h][Len(m.data[h]) + 1] = o
    BY ONLY <1>3, <2>1, o \in Objects, AppendIs
  <2>3. P[b] # "none"
    BY <1>2, <1>4, <1>7
  <2>4. i \in 1 .. Len(m.data[h]) \/ i = Len(m.data[h]) + 1
    BY <1>7, <2>2
  <2> QED
    BY <1>7, <2>2, <2>3, <2>4
<1> QED
  BY <1>5, <1>6, <1>7

\* What remove returns is in no slot afterwards.
LEMMA RemoveKeeps ==
  ASSUME NEW m, NEW sh, NEW P, NEW pos, Shape(m, sh, P, pos), NEW k \in Bags,
         NEW w, NEW Q, NEW g, HeadLeft(m, P, Q, k), Top(m, P, pos, k, g), Popped(m, w, k, g),
         Distinct(m, P, NULL, 0)
  PROVE  Sub(m, P, w, Q) /\ Absent(w, Q, NULL, 0, Last(m.data[g])) /\ Last(m.data[g]) \in Objects
<1>1. ShapeParts(m, sh, P, pos)
  BY ShapeIs
<1>2. g \in Blocks /\ P[g] = k /\ m.data[g] # <<>> /\ m.data[g] \in Seq(Objects)
  BY <1>1 DEF Top, ShapeParts, IsHeap
<1>3. /\ Len(m.data[g]) \in Nat \ {0} /\ Len(Front(m.data[g])) = Len(m.data[g]) - 1
      /\ \A i \in 1 .. Len(m.data[g]) - 1 : Front(m.data[g])[i] = m.data[g][i]
      /\ Last(m.data[g]) \in Objects /\ Last(m.data[g]) = m.data[g][Len(m.data[g])]
  BY ONLY <1>2, FrontIs
<1>4. /\ Len(w.data[g]) = Len(m.data[g]) - 1
      /\ \A i \in 1 .. Len(m.data[g]) - 1 : w.data[g][i] = m.data[g][i]
      /\ \A b \in Blocks : b # g => w.data[b] = m.data[b]
  BY <1>3 DEF Popped
<1>5. \A b \in Blocks : Q[b] # "none" => P[b] # "none"
  BY BagsAssumption DEF HeadLeft
<1>6. Sub(m, P, w, Q)
  <2> SUFFICES ASSUME NEW b \in Blocks, Q[b] # "none", NEW i \in 1 .. Len(w.data[b])
               PROVE  P[b] # "none" /\ i \in 1 .. Len(m.data[b]) /\ w.data[b][i] = m.data[b][i]
    BY DEF Sub
  <2>1. CASE b = g
    <3>1. i \in 1 .. Len(m.data[g]) - 1
      BY <1>4, <2>1
    <3>2. i \in 1 .. Len(m.data[g])
      BY <1>3, <3>1
    <3> QED
      BY <1>4, <1>5, <2>1, <3>1, <3>2
  <2>2. CASE b # g
    BY <1>4, <1>5, <2>2
  <2> QED
    BY <2>1, <2>2
<1>7. Absent(w, Q, NULL, 0, Last(m.data[g]))
  <2>1. P[g] # "none"
    BY <1>2, BagsAssumption
  <2>2. Len(m.data[g]) \in 1 .. Len(m.data[g])
    BY <1>3
  <2>3. Absent(m, P, g, Len(m.data[g]), Last(m.data[g]))
    BY <1>2, <1>3, <2>1, <2>2, Whole
  <2>4. ASSUME NEW b \in Blocks, Q[b] # "none", NEW i \in 1 .. Len(w.data[b])
        PROVE  w.data[b][i] # Last(m.data[g])
    <3>1. P[b] # "none" /\ i \in 1 .. Len(m.data[b]) /\ w.data[b][i] = m.data[b][i]
      BY <1>6, <2>4 DEF Sub
    <3>2. ~(b = g /\ i = Len(m.data[g]))
      BY <1>3, <1>4
    <3> QED
      BY <2>3, <3>1, <3>2 DEF Absent
  <2> QED
    BY <2>4 DEF Absent
<1> QED
  BY <1>3, <1>6, <1>7

\* The slot that the object now in slot i of block c has come from is not the erased one.
Source(m, w, P, g, b, ix, c, i, d, j) ==
  /\ d \in Blocks /\ P[d] # "none" /\ j \in 1 .. Len(m.data[d]) /\ w.data[c][i] = m.data[d][j]
  /\ ~(d = b /\ j = ix)
  /\ \/ c = b /\ i = ix /\ d = g /\ j = Len(m.data[g])
     \/ ~(c = b /\ i = ix) /\ d = c /\ j = i /\ ~(d = g /\ j = Len(m.data[g]))

\* Every slot after an erase holds the object of some slot before, not the erased one.
LEMMA SourceIs ==
  ASSUME NEW m, NEW w, NEW P, NEW Q, NEW k \in Bags, NEW g, NEW b \in Blocks, NEW ix \in 1 .. Len(m.data[b]),
         P[b] = k, g \in Blocks /\ P[g] = k, Len(m.data[g]) \in Nat \ {0}, Len(m.data[b]) \in Nat,
         HeadLeft(m, P, Q, k), Erased(m, w, k, g, b, ix),
         NEW c \in Blocks, Q[c] # "none", NEW i \in 1 .. Len(w.data[c])
  PROVE  \E d, j : Source(m, w, P, g, b, ix, c, i, d, j)
<1>1. P[c] # "none" /\ P[g] # "none" /\ P[b] # "none"
  BY BagsAssumption DEF HeadLeft
<1>2. PICK n \in Nat \ {0} : n = Len(m.data[g])
  OBVIOUS
<1>3. /\ Len(w.data[g]) = n - 1
      /\ \A l \in 1 .. n - 1 : w.data[g][l] = IF b = g /\ l = ix THEN m.data[g][n] ELSE m.data[g][l]
  BY <1>2 DEF Erased
<1>4. b # g => /\ Len(w.data[b]) = Len(m.data[b])
               /\ \A l \in 1 .. Len(m.data[b]) : w.data[b][l] = IF l = ix THEN m.data[g][n] ELSE m.data[b][l]
  BY <1>2 DEF Erased
<1>5. CASE c = b /\ i = ix
  <2>1. CASE b = g
    <3>1. i \in 1 .. n - 1
      BY <1>3, <1>5, <2>1
    <3>2. w.data[c][i] = m.data[g][n] /\ n \in 1 .. n /\ ix # n
      BY <1>2, <1>3, <1>5, <2>1, <3>1
    <3>3. Source(m, w, P, g, b, ix, c, i, g, n)
      BY <1>1, <1>2, <1>5, <3>2 DEF Source
    <3> QED
      BY <3>3
  <2>2. CASE b # g
    <3>1. w.data[c][i] = m.data[g][n] /\ n \in 1 .. n
      BY <1>2, <1>4, <1>5, <2>2
    <3>2. Source(m, w, P, g, b, ix, c, i, g, n)
      BY <1>1, <1>2, <1>5, <2>2, <3>1 DEF Source
    <3> QED
      BY <3>2
  <2> QED
    BY <2>1, <2>2
<1>6. CASE ~(c = b /\ i = ix)
  <2>1. i \in 1 .. Len(m.data[c]) /\ w.data[c][i] = m.data[c][i] /\ ~(c = g /\ i = n)
    <3>1. CASE c = g
      <4>1. i \in 1 .. n - 1
        BY <1>3, <3>1
      <4>2. i \in 1 .. n /\ i # n
        BY <4>1
      <4>3. ~(b = g /\ i = ix)
        BY <1>6, <3>1
      <4>4. w.data[g][i] = m.data[g][i]
        BY <1>3, <4>1, <4>3
      <4> QED
        BY <1>2, <3>1, <4>2, <4>4
    <3>2. CASE c = b /\ c # g
      BY <1>4, <1>6, <3>2
    <3>3. CASE c # b /\ c # g
      BY <3>3 DEF Erased
    <3> QED
      BY <3>1, <3>2, <3>3
  <2>2. Source(m, w, P, g, b, ix, c, i, c, i)
    BY <1>1, <1>2, <1>6, <2>1 DEF Source
  <2> QED
    BY <2>2
<1> QED
  BY <1>5, <1>6

\* erase leaves no object in two slots, and the erased one in none.
LEMMA EraseKeeps ==
  ASSUME NEW m, NEW sh, NEW P, NEW pos, Shape(m, sh, P, pos), NEW k \in Bags,
         NEW w, NEW Q, NEW g, NEW b \in Blocks, P[b] = k, NEW ix \in 1 .. Len(m.data[b]),
         HeadLeft(m, P, Q, k), Top(m, P, pos, k, g), Erased(m, w, k, g, b, ix),
         Distinct(m, P, b, ix)
  PROVE  /\ Distinct(w, Q, NULL, 0)
         /\ \A u : Absent(m, P, b, ix, u) => Absent(w, Q, NULL, 0, u)
<1>1. ShapeParts(m, sh, P, pos)
  BY ShapeIs
<1>2. g \in Blocks /\ P[g] = k /\ m.data[g] # <<>> /\ m.data[g] \in Seq(Objects) /\ m.data[b] \in Seq(Objects)
  BY <1>1 DEF Top, ShapeParts, IsHeap
<1>3. Len(m.data[g]) \in Nat \ {0} /\ Len(m.data[b]) \in Nat
  BY <1>2
<1>4. ASSUME NEW c \in Blocks, Q[c] # "none", NEW i \in 1 .. Len(w.data[c])
      PROVE  \E d, j : Source(m, w, P, g, b, ix, c, i, d, j)
  <2>1. g \in Blocks /\ P[g] = k
    BY <1>2
  <2> QED
    BY ONLY <1>3, <1>4, <2>1, SourceIs, k \in Bags, b \in Blocks, ix \in 1 .. Len(m.data[b]), P[b] = k,
       HeadLeft(m, P, Q, k), Erased(m, w, k, g, b, ix)
<1>5. ASSUME NEW c \in Blocks, NEW e \in Blocks, Q[c] # "none", Q[e] # "none",
             NEW i \in 1 .. Len(w.data[c]), NEW l \in 1 .. Len(w.data[e]), w.data[c][i] = w.data[e][l]
      PROVE  c = e /\ i = l
  <2>1. PICK d, j : Source(m, w, P, g, b, ix, c, i, d, j)
    BY <1>4, <1>5
  <2>2. PICK f, a : Source(m, w, P, g, b, ix, e, l, f, a)
    BY <1>4, <1>5
  <2>3. d \in Blocks /\ P[d] # "none" /\ j \in 1 .. Len(m.data[d]) /\ w.data[c][i] = m.data[d][j] /\ ~(d = b /\ j = ix)
    BY <2>1 DEF Source
  <2>4. f \in Blocks /\ P[f] # "none" /\ a \in 1 .. Len(m.data[f]) /\ w.data[e][l] = m.data[f][a] /\ ~(f = b /\ a = ix)
    BY <2>2 DEF Source
  <2>5. m.data[d][j] = m.data[f][a]
    BY <1>5, <2>3, <2>4
  <2>6. d = f /\ j = a
    BY ONLY <2>3, <2>4, <2>5, Distinct(m, P, b, ix) DEF Distinct
  <2> QED
    BY <2>1, <2>2, <2>6 DEF Source
<1>6. Distinct(w, Q, NULL, 0)
  BY <1>5 DEF Distinct
<1>7. ASSUME NEW u, Absent(m, P, b, ix, u) PROVE Absent(w, Q, NULL, 0, u)
  <2>1. ASSUME NEW c \in Blocks, Q[c] # "none", NEW i \in 1 .. Len(w.data[c]) PROVE w.data[c][i] # u
    <3>1. PICK d, j : Source(m, w, P, g, b, ix, c, i, d, j)
      BY <1>4, <2>1
    <3> QED
      BY <1>7, <3>1 DEF Source, Absent
  <2> QED
    BY <2>1 DEF Absent
<1> QED
  BY <1>6, <1>7

-----------------------------------------------------------------------------
\* What a bag or the shared bag holds

Holds(m, b, o) == \E i \in 1 .. Len(m.data[b]) : m.data[b][i] = o

\* The members of ObjectsIn.
LEMMA ObjectsAre ==
  ASSUME NEW m, NEW sh, NEW P, NEW pos, Shape(m, sh, P, pos), NEW bs \in SUBSET Blocks
  PROVE  \A o : o \in ObjectsIn(m, bs) <=> \E b \in bs : Holds(m, b, o)
<1>1. \A b \in Blocks : m.data[b] \in Seq(Objects)
  BY ShapeIs DEF ShapeParts, IsHeap
<1>2. \A b \in Blocks : DOMAIN m.data[b] = 1 .. Len(m.data[b])
  BY <1>1
<1>3. \A b \in Blocks : \A o : o \in ToSet(m.data[b]) <=> Holds(m, b, o)
  BY <1>2 DEF ToSet, Holds
<1> QED
  BY <1>3 DEF ObjectsIn

\* The blocks of a bag are those whose place it is.
LEMMA ContentsIs ==
  ASSUME NEW m, NEW sh, NEW P, NEW pos, Shape(m, sh, P, pos), NEW k \in Bags, m.head[k] # NULL
  PROVE  /\ ToSet(BlocksOf(m, k)) = {b \in Blocks : P[b] = k}
         /\ \A o : o \in Contents(m, k) <=> \E b \in Blocks : P[b] = k /\ Holds(m, b, o)
<1>1. ShapeParts(m, sh, P, pos)
  BY ShapeIs
<1>2. IsList(m, P, pos, k) /\ P \in [Blocks -> Places] /\ pos \in [Blocks -> Nat]
  BY <1>1 DEF ShapeParts, Lists
<1>3. PICK s \in Nat : s = m.sizeInBlocks[k]
  BY <1>2 DEF IsList
<1>4. PICK B : B = BlocksOf(m, k)
  OBVIOUS
<1>5. /\ B \in [1 .. s -> Blocks]
      /\ \A i \in 1 .. s : P[B[i]] = k
      /\ \A b \in Blocks : P[b] = k => B[s + 1 - pos[b]] = b
  <2>1. ListOf(BlocksOf(m, k), P, pos, k, m.sizeInBlocks[k])
    BY <1>2, BlocksAre
  <2>2. ListOf(B, P, pos, k, s)
    BY <1>3, <1>4, <2>1
  <2> QED
    BY <2>2 DEF ListOf
<1>6. \A b \in Blocks : P[b] = k => pos[b] \in 1 .. s
  BY <1>2, <1>3 DEF IsList
<1>7. ToSet(B) = {b \in Blocks : P[b] = k}
  <2>1. \A b \in Blocks : P[b] = k => s + 1 - pos[b] \in 1 .. s
    BY <1>6
  <2> QED
    BY <1>5, <2>1 DEF ToSet
<1>8. PICK S \in SUBSET Blocks : S = ToSet(B)
  BY <1>7
<1>9. \A o : o \in ObjectsIn(m, S) <=> \E b \in S : Holds(m, b, o)
  BY ObjectsAre
<1>10. \A o : o \in Contents(m, k) <=> \E b \in S : Holds(m, b, o)
  BY <1>4, <1>8, <1>9 DEF Contents
<1> QED
  BY <1>4, <1>7, <1>8, <1>10

\* A bag with a block has a head.
LEMMA HeadAlive ==
  ASSUME NEW m, NEW sh, NEW P, NEW pos, Shape(m, sh, P, pos), NEW k \in Bags, NEW b \in Blocks, P[b] = k
  PROVE  m.head[k] # NULL
BY ShapeIs DEF ShapeParts, Lists

\* The head of a bag is one of its blocks.
LEMMA HeadOf ==
  ASSUME NEW m, NEW sh, NEW P, NEW pos, Shape(m, sh, P, pos), NEW k \in Bags, m.head[k] # NULL
  PROVE  m.head[k] \in Blocks /\ P[m.head[k]] = k
BY ShapeIs DEF ShapeParts, Lists, IsList

-----------------------------------------------------------------------------
\* The objects in the blocks whose place is in K

Has(m, P, K, u) == \E b \in Blocks : P[b] \in K /\ Holds(m, b, u)

Keeps(m, P, w, Q, K) == \A u : Has(w, Q, K, u) <=> Has(m, P, K, u)
Gets(m, P, w, Q, K, o) == \A u : Has(w, Q, K, u) <=> Has(m, P, K, u) \/ u = o
Loses(m, P, w, Q, K, o) == \A u : Has(w, Q, K, u) <=> Has(m, P, K, u) /\ u # o

\* Where objects are ready to be reused.
Ready == {"free", "shared"}
Kinds == {{"retired"}, Ready}

\* A block that holds an object is not empty.
LEMMA NotEmpty ==
  ASSUME NEW m, NEW b, NEW u, Holds(m, b, u)
  PROVE  m.data[b] # <<>>
<1> SUFFICES ASSUME m.data[b] = <<>> PROVE FALSE
  OBVIOUS
<1>1. 1 .. Len(m.data[b]) = {}
  OBVIOUS
<1> QED
  BY <1>1 DEF Holds

\* Only empty blocks change their places.
LEMMA DataKeeps ==
  ASSUME NEW m, NEW P, NEW w, NEW Q, NEW K, w.data = m.data,
         \A b \in Blocks : (Q[b] \in K <=> P[b] \in K) \/ m.data[b] = <<>>
  PROVE  Keeps(m, P, w, Q, K)
<1>1. \A b, u : Holds(w, b, u) <=> Holds(m, b, u)
  BY DEF Holds
<1> QED
  BY <1>1, NotEmpty DEF Keeps, Has

\* What is in no slot is in no bag, and not in the shared bag.
LEMMA AbsentIs ==
  ASSUME NEW m, NEW sh, NEW P, NEW pos, Shape(m, sh, P, pos), NEW o
  PROVE  Absent(m, P, NULL, 0, o) <=> ~Has(m, P, {"retired"}, o) /\ ~Has(m, P, Ready, o)
<1>1. ShapeParts(m, sh, P, pos)
  BY ShapeIs
<1>2. \A b \in Blocks : P[b] \in Places /\ (P[b] = "pool" => m.data[b] = <<>>)
  BY <1>1 DEF ShapeParts, InPool
<1>3. \A b \in Blocks : P[b] \in {"retired", "free", "shared", "pool", "none"}
  BY <1>2, BagsAssumption DEF Places
<1>4. Absent(m, P, NULL, 0, o) <=> \A b \in Blocks : P[b] # "none" => ~Holds(m, b, o)
  BY NullAssumption DEF Absent, Holds
<1> QED
  BY <1>2, <1>3, <1>4, NotEmpty DEF Has, Ready

\* remove takes its result, and no other object, out of its bag.
LEMMA RemoveEffect ==
  ASSUME NEW m, NEW sh, NEW P, NEW pos, Shape(m, sh, P, pos), NEW k \in Bags,
         NEW w, NEW Q, NEW g, HeadLeft(m, P, Q, k), Top(m, P, pos, k, g), Popped(m, w, k, g),
         Distinct(m, P, NULL, 0), NEW K \in Kinds
  PROVE  /\ k \in K => Loses(m, P, w, Q, K, Last(m.data[g])) /\ Has(m, P, K, Last(m.data[g]))
         /\ k \notin K => Keeps(m, P, w, Q, K)
<1>1. ShapeParts(m, sh, P, pos)
  BY ShapeIs
<1>2. g \in Blocks /\ P[g] = k /\ m.data[g] # <<>> /\ m.data[g] \in Seq(Objects)
  BY <1>1 DEF Top, ShapeParts, IsHeap
<1>3. PICK n \in Nat \ {0} : n = Len(m.data[g])
  BY <1>2
<1>4. PICK o : o = Last(m.data[g])
  OBVIOUS
<1>5. o = m.data[g][n] /\ n \in 1 .. n
  <2>1. Last(m.data[g]) = m.data[g][Len(m.data[g])]
    BY ONLY <1>2, FrontIs
  <2> QED
    BY <1>3, <1>4, <2>1
<1>6. /\ Len(w.data[g]) = n - 1 /\ \A i \in 1 .. n - 1 : w.data[g][i] = m.data[g][i]
      /\ \A b \in Blocks : b # g => w.data[b] = m.data[b]
  <2>1. /\ Len(Front(m.data[g])) = Len(m.data[g]) - 1
        /\ \A i \in 1 .. Len(m.data[g]) - 1 : Front(m.data[g])[i] = m.data[g][i]
    BY ONLY <1>2, FrontIs
  <2> QED
    BY <1>3, <2>1 DEF Popped
<1>7. "none" \notin K /\ "pool" \notin K
  BY DEF Kinds, Ready
<1>8. k # "none" /\ k # "pool"
  BY BagsAssumption
<1>9. Absent(m, P, g, n, o)
  BY <1>2, <1>3, <1>5, <1>8, Whole
<1>10. Sub(m, P, w, Q) /\ Absent(w, Q, NULL, 0, o)
  BY <1>4, RemoveKeeps
<1>11. \A b \in Blocks : b # g => (Q[b] \in K <=> P[b] \in K) \/ m.data[b] = <<>>
  BY <1>2 DEF HeadLeft
<1>12. Q[g] = k
  BY <1>2 DEF HeadLeft
<1>13. \A b \in Blocks : b # g => \A u : Q[b] \in K /\ Holds(w, b, u) <=> P[b] \in K /\ Holds(m, b, u)
  <2>1. ASSUME NEW b \in Blocks, b # g, NEW u
        PROVE  Q[b] \in K /\ Holds(w, b, u) <=> P[b] \in K /\ Holds(m, b, u)
    <3>1. Holds(w, b, u) <=> Holds(m, b, u)
      BY <1>6, <2>1 DEF Holds
    <3> QED
      BY <1>11, <2>1, <3>1, NotEmpty
  <2> QED
    BY <2>1
<1>14. \A u : Holds(m, g, u) <=> Holds(w, g, u) \/ u = o
  <2>1. \A i \in 1 .. n : i \in 1 .. n - 1 \/ i = n
    BY <1>3
  <2>2. \A i \in 1 .. n - 1 : i \in 1 .. n
    BY <1>3
  <2> QED
    BY <1>3, <1>5, <1>6, <2>1, <2>2 DEF Holds
<1>15. CASE k \in K
  <2>1. ~Has(w, Q, K, o)
    BY <1>7, <1>10, NullAssumption DEF Has, Holds, Absent
  <2>2. Has(m, P, K, o)
    BY <1>2, <1>3, <1>5, <1>15 DEF Has, Holds
  <2>3. \A u : Has(m, P, K, u) <=> Has(w, Q, K, u) \/ u = o
    BY <1>2, <1>12, <1>13, <1>14, <1>15 DEF Has
  <2> QED
    BY <1>4, <1>15, <2>1, <2>2, <2>3 DEF Loses
<1>16. CASE k \notin K
  BY <1>2, <1>12, <1>13, <1>16 DEF Keeps, Has
<1> QED
  BY <1>15, <1>16

\* add puts its argument, and no other object, into its bag.
LEMMA AddEffect ==
  ASSUME NEW m, NEW sh, NEW P, NEW pos, Shape(m, sh, P, pos), NEW k \in Bags, m.head[k] # NULL,
         NEW w, NEW Q, NEW qos, NEW o \in Objects, Added(m, w, P, Q, pos, qos, k, o), NEW K \in Kinds
  PROVE  (k \in K => Gets(m, P, w, Q, K, o)) /\ (k \notin K => Keeps(m, P, w, Q, K))
<1>1. ShapeParts(m, sh, P, pos)
  BY ShapeIs
<1>2. PICK h \in Blocks : h = m.head[k] /\ P[h] = k
  BY HeadOf
<1>3. m.data[h] \in Seq(Objects) /\ \A b \in Blocks : P[b] = "pool" => m.data[b] = <<>>
  BY <1>1 DEF ShapeParts, IsHeap, InPool
<1>4. "none" \notin K /\ "pool" \notin K
  BY DEF Kinds, Ready
<1>5. k # "none" /\ k # "pool"
  BY BagsAssumption
<1>6. w.data[h] = Append(m.data[h], o) /\ Q[h] = k
  BY <1>2, <1>5 DEF Added
<1>7. \A u : Holds(w, h, u) <=> Holds(m, h, u) \/ u = o
  <2>1. /\ Len(w.data[h]) = Len(m.data[h]) + 1 /\ Len(m.data[h]) \in Nat
        /\ \A i \in 1 .. Len(m.data[h]) : w.data[h][i] = m.data[h][i]
        /\ w.data[h][Len(m.data[h]) + 1] = o
    BY <1>3, <1>6, AppendIs
  <2>2. PICK n \in Nat : n = Len(m.data[h])
    BY <2>1
  <2>3. \A i \in 1 .. n + 1 : i \in 1 .. n \/ i = n + 1
    OBVIOUS
  <2>4. n + 1 \in 1 .. n + 1 /\ \A i \in 1 .. n : i \in 1 .. n + 1
    OBVIOUS
  <2> QED
    BY <2>1, <2>2, <2>3, <2>4 DEF Holds
<1>8. \A b \in Blocks : b # h => \A u : Q[b] \in K /\ Holds(w, b, u) <=> P[b] \in K /\ Holds(m, b, u)
  <2>1. ASSUME NEW b \in Blocks, b # h, NEW u
        PROVE  Q[b] \in K /\ Holds(w, b, u) <=> P[b] \in K /\ Holds(m, b, u)
    <3>1. CASE Q[b] # P[b]
      <4>1. P[b] \notin K /\ w.data[b] = <<>>
        BY <1>4, <2>1, <3>1 DEF Added
      <4> QED
        BY <4>1, NotEmpty
    <3>2. CASE Q[b] = P[b] /\ P[b] # "none"
      <4>1. w.data[b] = m.data[b]
        BY <1>2, <2>1, <3>2 DEF Added
      <4> QED
        BY <3>2, <4>1 DEF Holds
    <3>3. CASE Q[b] = P[b] /\ P[b] = "none"
      BY <1>4, <3>3
    <3> QED
      BY <3>1, <3>2, <3>3
  <2> QED
    BY <2>1
<1>9. CASE k \in K
  BY <1>2, <1>6, <1>7, <1>8, <1>9 DEF Gets, Has
<1>10. CASE k \notin K
  BY <1>2, <1>6, <1>8, <1>10 DEF Keeps, Has
<1> QED
  BY <1>9, <1>10

-----------------------------------------------------------------------------
\* The add of the pool

\* The blocks of bag k and what they hold.
SameBag(m, P, pos, w, Q, qos, k) ==
  /\ w.head[k] = m.head[k]
  /\ \A b \in Blocks : /\ Q[b] = k <=> P[b] = k
                       /\ P[b] = k => qos[b] = pos[b] /\ w.data[b] = m.data[b]

AddedToPool(m, w, P, Q, pos, qos, o) ==
  /\ Gains(m, P, w, Q, m.head["free"], o)
  /\ SameBag(m, P, pos, w, Q, qos, "retired")
  /\ w.head["free"] # NULL
  /\ Gets(m, P, w, Q, Ready, o) /\ Keeps(m, P, w, Q, {"retired"})

\* add leaves the other bag as it is.
LEMMA AddedSame ==
  ASSUME NEW m, NEW sh, NEW P, NEW pos, Shape(m, sh, P, pos), NEW k \in Bags, m.head[k] # NULL, NEW w, NEW Q, NEW qos, NEW o,
         Added(m, w, P, Q, pos, qos, k, o), HeadStays(m, w, k) \/ HeadGrows(m, w, k), NEW j \in Bags, j # k
  PROVE  SameBag(m, P, pos, w, Q, qos, j)
<1>1. m.head[k] \in Blocks /\ P[m.head[k]] = k
  BY HeadOf
<1>2. w.head[j] = m.head[j]
  BY DEF HeadStays, HeadGrows
<1>3. j \notin {"none", "pool", "shared"}
  BY BagsAssumption
<1> QED
  BY <1>1, <1>2, <1>3 DEF Added, SameBag

\* The add of the pool, whether or not it hands a block to the shared bag.
LEMMA PoolAddIs ==
  ASSUME NEW m, NEW sh, NEW P, NEW pos, Shape(m, sh, P, pos), m.head["free"] # NULL,
         NEW o \in Objects, CanAdd(m, "free")
  PROVE  \E Q, qos : /\ Shape(PoolAdd(m, o).mem, sh \cup PoolAdd(m, o).given, Q, qos)
                     /\ AddedToPool(m, PoolAdd(m, o).mem, P, Q, pos, qos, o)
<1>1. "free" \in Bags /\ "retired" \in Bags /\ "retired" # "free"
  BY BagsAssumption
<1>2. PICK p : p = BagAdd(m, "free", o)
  OBVIOUS
<1>3. PICK Q, qos : /\ Shape(p, sh, Q, qos)
                    /\ Added(m, p, P, Q, pos, qos, "free", o)
                    /\ HeadStays(m, p, "free") \/ HeadGrows(m, p, "free")
  BY <1>1, <1>2, AddIs
<1>4. Gains(m, P, p, Q, m.head["free"], o)
  BY ONLY <1>1, <1>3, Shape(m, sh, P, pos), m.head["free"] # NULL, o \in Objects, AddGains
<1>5. m.head["free"] \in Blocks /\ P[m.head["free"]] = "free"
  BY <1>1, HeadOf
<1>6. SameBag(m, P, pos, p, Q, qos, "retired")
  BY ONLY <1>1, <1>3, Shape(m, sh, P, pos), m.head["free"] # NULL, AddedSame
<1>7. p.head["free"] # NULL
  <2>1. Q[m.head["free"]] = "free"
    BY <1>1, <1>3, <1>5, BagsAssumption DEF Added
  <2> QED
    BY <1>1, <1>3, <1>5, <2>1, HeadAlive
<1>10. Gets(m, P, p, Q, Ready, o) /\ Keeps(m, P, p, Q, {"retired"})
  <2>1. Ready \in Kinds /\ {"retired"} \in Kinds /\ "free" \in Ready /\ "free" \notin {"retired"}
    BY DEF Kinds, Ready
  <2> QED
    BY ONLY <1>1, <1>3, <2>1, Shape(m, sh, P, pos), m.head["free"] # NULL, o \in Objects, AddEffect
<1>8. CASE p.head # m.head /\ p.sizeInBlocks["free"] > POOL_THRESHOLD_IN_BLOCKS
  <2>1. PICK w : w = RemoveFullBlock(p, "free")
    OBVIOUS
  <2>2. PICK x : x = SecondBlock(p, "free")
    OBVIOUS
  <2>3. p.sizeInBlocks["free"] > 2
    <3>1. p.sizeInBlocks["free"] \in Nat
      BY <1>1, <1>3, <1>7, ShapeIs DEF ShapeParts, Lists, IsList
    <3> QED
      BY <1>8, <3>1, ThresholdAssumption
  <2>4. PICK R, ros : /\ Shape(w, sh \cup {x}, R, ros)
                      /\ BlockLeft(p, w, Q, R, qos, ros, "free", x)
                      /\ x \in Blocks
    BY <1>1, <1>3, <1>7, <2>1, <2>2, <2>3, RemoveFullIs
  <2>5. PoolAdd(m, o) = [mem |-> w, given |-> {x}]
    BY <1>2, <1>8, <2>1, <2>2 DEF PoolAdd
  <2>6. PoolAdd(m, o).mem = w /\ PoolAdd(m, o).given = {x}
    BY <2>5
  <2>7. w.data = p.data /\ \A b \in Blocks : R[b] # "none" => Q[b] # "none"
    BY <2>4, BagsAssumption DEF BlockLeft
  <2>8. Gains(m, P, w, R, m.head["free"], o)
    BY <1>4, <2>7 DEF Gains
  <2>9. SameBag(m, P, pos, w, R, ros, "retired")
    <3>1. \A b \in Blocks : (R[b] = "retired" <=> Q[b] = "retired") /\ (Q[b] = "retired" => ros[b] = qos[b])
      BY <2>4 DEF BlockLeft
    <3>2. w.head = p.head
      BY <2>4 DEF BlockLeft
    <3> QED
      BY <1>6, <2>7, <3>1, <3>2 DEF SameBag
  <2>10. w.head["free"] # NULL
    BY <1>7, <2>4 DEF BlockLeft
  <2>11. Gets(m, P, w, R, Ready, o) /\ Keeps(m, P, w, R, {"retired"})
    <3>1. \A b \in Blocks : /\ R[b] \in Ready <=> Q[b] \in Ready
                            /\ R[b] \in {"retired"} <=> Q[b] \in {"retired"}
      BY <2>4 DEF BlockLeft, Ready
    <3>2. Keeps(p, Q, w, R, Ready) /\ Keeps(p, Q, w, R, {"retired"})
      BY <2>7, <3>1, DataKeeps
    <3> QED
      BY <1>10, <3>2 DEF Gets, Keeps
  <2> QED
    BY <2>4, <2>6, <2>8, <2>9, <2>10, <2>11 DEF AddedToPool
<1>9. CASE ~(p.head # m.head /\ p.sizeInBlocks["free"] > POOL_THRESHOLD_IN_BLOCKS)
  <2>1. PoolAdd(m, o) = [mem |-> p, given |-> {}]
    BY <1>2, <1>9 DEF PoolAdd
  <2>2. PoolAdd(m, o).mem = p /\ sh \cup PoolAdd(m, o).given = sh
    BY <2>1
  <2>3. AddedToPool(m, p, P, Q, pos, qos, o)
    BY <1>4, <1>6, <1>7, <1>10 DEF AddedToPool
  <2>4. Shape(PoolAdd(m, o).mem, sh \cup PoolAdd(m, o).given, Q, qos)
    BY <1>3, <2>2
  <2> QED
    BY <2>2, <2>3, <2>4
<1> QED
  BY <1>8, <1>9

-----------------------------------------------------------------------------
\* A block of new objects

\* The first objects of the block are in the empty head block h.
BlockPushed(m, v, h, new) ==
  /\ OnlyData(m, v) /\ v = Heap(v) /\ IsHeap(v)
  /\ Len(v.data[h]) = BLOCK_SIZE - 1 /\ \A i \in 1 .. BLOCK_SIZE - 1 : v.data[h][i] = new[i]
  /\ \A b \in Blocks : b # h => v.data[b] = m.data[b]

\* The adds of a block of new objects, but the last one.
LEMMA BlockPushIs ==
  ASSUME NEW m \in Heaps, NEW h \in Blocks, NEW new \in [1 .. BLOCK_SIZE -> Objects]
  PROVE  /\ BlockPushed(m, [m EXCEPT !.data[h] = Front(new)], h, new)
         /\ Last(new) = new[BLOCK_SIZE] /\ Last(new) \in Objects
<1>1. IsHeap(m) /\ m = Heap(m)
  BY HeapIs
<1>2. new \in Seq(Objects) /\ Len(new) = BLOCK_SIZE /\ new # <<>>
  BY BlockSizeAssumption
<1>3. /\ Front(new) \in Seq(Objects) /\ Len(Front(new)) = BLOCK_SIZE - 1
      /\ \A i \in 1 .. BLOCK_SIZE - 1 : Front(new)[i] = new[i]
      /\ Last(new) \in Objects /\ Last(new) = new[BLOCK_SIZE]
  BY <1>2, FrontIs
<1>4. PICK F : F = Front(new)
  OBVIOUS
<1>5. PICK D : D = [m.data EXCEPT ![h] = F]
  OBVIOUS
<1>6. PICK v : v = [m EXCEPT !.data = D]
  OBVIOUS
<1>7. /\ v.next = m.next /\ v.data = D /\ v.head = m.head /\ v.tail = m.tail
      /\ v.sizeInBlocks = m.sizeInBlocks /\ v.pool = m.pool /\ v.live = m.live /\ v = Heap(v)
  BY <1>1, <1>6 DEF Heap
<1>8. D[h] = F /\ DOMAIN D = Blocks /\ D = [b \in Blocks |-> D[b]] /\ \A b \in Blocks : b # h => D[b] = m.data[b]
  BY <1>1, <1>5 DEF IsHeap
<1>9. IsHeap(v)
  <2>1. \A b \in Blocks : D[b] \in Seq(Objects) /\ Len(D[b]) <= BLOCK_SIZE
    BY <1>1, <1>3, <1>4, <1>8, BlockSizeAssumption DEF IsHeap
  <2> QED
    BY <1>1, <1>7, <1>8, <2>1 DEF IsHeap
<1>10. BlockPushed(m, v, h, new)
  BY <1>3, <1>4, <1>7, <1>8, <1>9 DEF BlockPushed, OnlyData
<1> QED
  BY <1>3, <1>4, <1>5, <1>6, <1>10

\* The objects of block new have been added to bag k.
BlockAdded(m, w, P, Q, pos, qos, k, new) ==
  /\ Distinct(w, Q, NULL, 0)
  /\ \A u : Absent(m, P, NULL, 0, u) /\ (\A i \in 1 .. BLOCK_SIZE : new[i] # u) => Absent(w, Q, NULL, 0, u)
  /\ \A j \in Bags : j # k => SameBag(m, P, pos, w, Q, qos, j)
  /\ w.head[k] # NULL /\ ~IsEmpty(w, k)
  /\ \A K \in Kinds : \A u :
       Has(w, Q, K, u) <=> Has(m, P, K, u) \/ (k \in K /\ \E i \in 1 .. BLOCK_SIZE : new[i] = u)

\* New objects that differ are in no two slots.
LEMMA PushedDistinct ==
  ASSUME NEW m, NEW v, NEW P, NEW h \in Blocks, NEW new, m.data[h] = <<>>, BlockPushed(m, v, h, new),
         \A i, j \in 1 .. BLOCK_SIZE : new[i] = new[j] => i = j,
         Distinct(m, P, NULL, 0), \A i \in 1 .. BLOCK_SIZE : Absent(m, P, NULL, 0, new[i])
  PROVE  /\ Distinct(v, P, NULL, 0) /\ Absent(v, P, NULL, 0, new[BLOCK_SIZE])
         /\ \A u : Absent(m, P, NULL, 0, u) /\ (\A i \in 1 .. BLOCK_SIZE : new[i] # u) => Absent(v, P, NULL, 0, u)
<1>1. NULL \notin Blocks
  BY NullAssumption
<1>2. /\ Len(v.data[h]) = BLOCK_SIZE - 1 /\ \A i \in 1 .. BLOCK_SIZE - 1 : v.data[h][i] = new[i]
      /\ \A b \in Blocks : b # h => v.data[b] = m.data[b]
  BY DEF BlockPushed
<1>3. 1 .. BLOCK_SIZE - 1 \subseteq 1 .. BLOCK_SIZE /\ BLOCK_SIZE \in 1 .. BLOCK_SIZE /\ BLOCK_SIZE \notin 1 .. BLOCK_SIZE - 1
  BY BlockSizeAssumption
<1>4. \A b \in Blocks : P[b] # "none" => \A i \in 1 .. Len(m.data[b]) : \A j \in 1 .. BLOCK_SIZE : m.data[b][i] # new[j]
  BY <1>1 DEF Absent
<1>5. \A b, c \in Blocks : P[b] # "none" /\ P[c] # "none" =>
        \A i \in 1 .. Len(m.data[b]), j \in 1 .. Len(m.data[c]) :
          m.data[b][i] = m.data[c][j] => b = c /\ i = j
  BY <1>1 DEF Distinct
<1>6. ASSUME NEW b \in Blocks, NEW c \in Blocks, P[b] # "none", P[c] # "none",
             NEW i \in 1 .. Len(v.data[b]), NEW j \in 1 .. Len(v.data[c]), v.data[b][i] = v.data[c][j]
      PROVE  b = c /\ i = j
  <2>1. CASE b = h /\ c = h
    BY <1>2, <1>3, <1>6, <2>1
  <2>2. CASE b # h /\ c # h
    BY <1>2, <1>5, <1>6, <2>2
  <2>3. CASE b = h /\ c # h
    <3>1. i \in 1 .. BLOCK_SIZE /\ v.data[b][i] = new[i]
      BY <1>2, <1>3, <1>6, <2>3
    <3>2. j \in 1 .. Len(m.data[c]) /\ v.data[c][j] = m.data[c][j]
      BY <1>2, <1>6, <2>3
    <3>3. m.data[c][j] # new[i]
      BY <1>4, <1>6, <3>1, <3>2
    <3> QED
      BY ONLY <1>6, <3>1, <3>2, <3>3
  <2>4. CASE b # h /\ c = h
    BY <1>2, <1>3, <1>4, <1>6, <2>4
  <2> QED
    BY <2>1, <2>2, <2>3, <2>4
<1>7. Distinct(v, P, NULL, 0)
  BY <1>6 DEF Distinct
<1>8. Absent(v, P, NULL, 0, new[BLOCK_SIZE])
  <2>1. ASSUME NEW b \in Blocks, P[b] # "none", NEW i \in 1 .. Len(v.data[b]) PROVE v.data[b][i] # new[BLOCK_SIZE]
    <3>1. CASE b = h
      BY <1>2, <1>3, <2>1, <3>1
    <3>2. CASE b # h
      BY <1>2, <1>3, <1>4, <2>1, <3>2
    <3> QED
      BY <3>1, <3>2
  <2> QED
    BY <2>1 DEF Absent
<1>9. ASSUME NEW u, Absent(m, P, NULL, 0, u), \A i \in 1 .. BLOCK_SIZE : new[i] # u
      PROVE  Absent(v, P, NULL, 0, u)
  <2>1. \A b \in Blocks : P[b] # "none" => \A i \in 1 .. Len(m.data[b]) : m.data[b][i] # u
    BY <1>1, <1>9 DEF Absent
  <2>2. ASSUME NEW b \in Blocks, P[b] # "none", NEW i \in 1 .. Len(v.data[b]) PROVE v.data[b][i] # u
    <3>1. CASE b = h
      BY <1>2, <1>3, <1>9, <2>2, <3>1
    <3>2. CASE b # h
      BY <1>2, <2>1, <2>2, <3>2
    <3> QED
      BY <3>1, <3>2
  <2> QED
    BY <2>2 DEF Absent
<1> QED
  BY <1>7, <1>8, <1>9

\* The adds of a block of new objects to a bag with an empty head block.
LEMMA AddBlockIs ==
  ASSUME NEW m, NEW sh, NEW P, NEW pos, Shape(m, sh, P, pos), NEW k \in Bags, m.head[k] # NULL,
         HeadIsEmpty(m, k), CanAllocate(m), NEW new \in [1 .. BLOCK_SIZE -> Objects], IsInjective(new),
         Distinct(m, P, NULL, 0), \A i \in 1 .. BLOCK_SIZE : Absent(m, P, NULL, 0, new[i])
  PROVE  \E Q, qos : /\ Shape(BagAddBlock(m, k, new), sh, Q, qos)
                     /\ BlockAdded(m, BagAddBlock(m, k, new), P, Q, pos, qos, k, new)
<1>1. ShapeParts(m, sh, P, pos) /\ m \in Heaps
  BY ShapeIs DEF Shape
<1>2. PICK h \in Blocks : h = m.head[k] /\ P[h] = k
  BY HeadOf
<1>3. m.data[h] = <<>>
  BY <1>2 DEF HeadIsEmpty
<1>4. \A i, j \in 1 .. BLOCK_SIZE : new[i] = new[j] => i = j
  BY DEF IsInjective
<1>5. PICK v : v = [m EXCEPT !.data[h] = Front(new)]
  OBVIOUS
<1>6. BlockPushed(m, v, h, new) /\ Last(new) = new[BLOCK_SIZE] /\ Last(new) \in Objects
  BY <1>1, <1>5, BlockPushIs
<1>7. Shape(v, sh, P, pos)
  <2>1. OnlyData(m, v) /\ v = Heap(v) /\ IsHeap(v) /\ v.head = m.head /\ \A b \in Blocks : b # h => v.data[b] = m.data[b]
    BY <1>6 DEF BlockPushed, OnlyData
  <2>2. Len(v.data[h]) < BLOCK_SIZE
    BY <1>6, BlockSizeAssumption DEF BlockPushed
  <2>3. ASSUME NEW b \in Blocks
        PROVE  /\ P[b] = "pool" => v.data[b] = m.data[b]
               /\ P[b] = "shared" => Len(v.data[b]) = Len(m.data[b])
               /\ \A j \in Bags : P[b] = j => Filled(v, j, b)
    <3>1. CASE b = h
      BY <1>2, <2>1, <2>2, <3>1, BagsAssumption DEF Filled
    <3>2. CASE b # h
      <4>1. ASSUME NEW j \in Bags, P[b] = j PROVE Filled(m, j, b)
        BY <1>1, <4>1 DEF ShapeParts, Lists, IsList
      <4> QED
        BY <2>1, <3>2, <4>1 DEF Filled
    <3> QED
      BY <3>1, <3>2
  <2> QED
    BY <2>1, <2>3, DataShape
<1>8. v.head = m.head /\ v.pool = m.pool /\ v.live = m.live /\ \A b \in Blocks : b # h => v.data[b] = m.data[b]
  BY <1>6 DEF BlockPushed, OnlyData
<1>9. CanAdd(v, k)
  BY <1>8 DEF CanAdd, CanAllocate
<1>10. PICK w : w = BagAdd(v, k, Last(new))
  OBVIOUS
<1>11. w = BagAddBlock(m, k, new)
  BY <1>2, <1>5, <1>10 DEF BagAddBlock
<1>12. PICK Q, qos : /\ Shape(w, sh, Q, qos)
                     /\ Added(v, w, P, Q, pos, qos, k, Last(new))
                     /\ HeadStays(v, w, k) \/ HeadGrows(v, w, k)
  BY <1>6, <1>7, <1>8, <1>9, <1>10, AddIs
<1>13. /\ Distinct(v, P, NULL, 0) /\ Absent(v, P, NULL, 0, Last(new))
       /\ \A u : Absent(m, P, NULL, 0, u) /\ (\A i \in 1 .. BLOCK_SIZE : new[i] # u) => Absent(v, P, NULL, 0, u)
  <2>1. m.data[h] = <<>> /\ BlockPushed(m, v, h, new)
    BY <1>3, <1>6
  <2>2. Distinct(m, P, NULL, 0) /\ \A i \in 1 .. BLOCK_SIZE : Absent(m, P, NULL, 0, new[i])
    OBVIOUS
  <2>3. /\ Distinct(v, P, NULL, 0) /\ Absent(v, P, NULL, 0, new[BLOCK_SIZE])
        /\ \A u : Absent(m, P, NULL, 0, u) /\ (\A i \in 1 .. BLOCK_SIZE : new[i] # u) => Absent(v, P, NULL, 0, u)
    BY ONLY <1>4, <2>1, <2>2, h \in Blocks, PushedDistinct
  <2> QED
    BY <1>6, <2>3
<1>14. Gains(v, P, w, Q, h, Last(new))
  BY <1>2, <1>6, <1>7, <1>8, <1>12, AddGains
<1>15. Distinct(w, Q, NULL, 0)
  BY <1>13, <1>14, GainsDistinct
<1>16. ASSUME NEW u, Absent(m, P, NULL, 0, u), \A i \in 1 .. BLOCK_SIZE : new[i] # u
       PROVE  Absent(w, Q, NULL, 0, u)
  <2>1. Absent(v, P, NULL, 0, u) /\ Last(new) # u
    BY <1>6, <1>13, <1>16, BlockSizeAssumption
  <2> QED
    BY <1>14, <2>1, GainsAbsent
<1>17. ASSUME NEW j \in Bags, j # k PROVE SameBag(m, P, pos, w, Q, qos, j)
  <2>1. SameBag(v, P, pos, w, Q, qos, j)
    BY <1>7, <1>8, <1>12, <1>17, AddedSame
  <2> QED
    BY <1>2, <1>8, <1>17, <2>1 DEF SameBag
<1>18. Q[h] = k /\ w.data[h] = Append(v.data[h], Last(new))
  BY <1>2, <1>8, <1>12, BagsAssumption DEF Added
<1>19. w.data[h] # <<>>
  <2>1. v.data[h] \in Seq(Objects)
    BY <1>6 DEF BlockPushed, IsHeap
  <2>2. Len(w.data[h]) = Len(v.data[h]) + 1 /\ Len(v.data[h]) \in Nat
    BY <1>6, <1>18, <2>1, AppendIs
  <2> QED
    BY <2>2
<1>20. w.head[k] # NULL
  BY <1>12, <1>18, HeadAlive
<1>21. ~IsEmpty(w, k)
  BY <1>12, <1>18, <1>19, <1>20, NonEmptyIs
<1>22. ASSUME NEW K \in Kinds, NEW u
       PROVE  Has(w, Q, K, u) <=> Has(m, P, K, u) \/ (k \in K /\ \E i \in 1 .. BLOCK_SIZE : new[i] = u)
  <2>1. /\ k \in K => Gets(v, P, w, Q, K, Last(new))
        /\ k \notin K => Keeps(v, P, w, Q, K)
    BY <1>6, <1>7, <1>8, <1>12, AddEffect
  <2>2. \A b \in Blocks : b # h => (Holds(v, b, u) <=> Holds(m, b, u))
    BY <1>8 DEF Holds
  <2>3. ~Holds(m, h, u)
    BY <1>3, NotEmpty
  <2>4. Holds(v, h, u) <=> \E i \in 1 .. BLOCK_SIZE - 1 : new[i] = u
    BY <1>6 DEF BlockPushed, Holds
  <2>5. Holds(v, h, u) \/ u = Last(new) <=> \E i \in 1 .. BLOCK_SIZE : new[i] = u
    <3>1. \A i \in 1 .. BLOCK_SIZE : i \in 1 .. BLOCK_SIZE - 1 \/ i = BLOCK_SIZE
      BY BlockSizeAssumption
    <3>2. BLOCK_SIZE \in 1 .. BLOCK_SIZE /\ \A i \in 1 .. BLOCK_SIZE - 1 : i \in 1 .. BLOCK_SIZE
      BY BlockSizeAssumption
    <3> QED
      BY <1>6, <2>4, <3>1, <3>2
  <2>6. CASE k \in K
    <3>1. Has(v, P, K, u) <=> Has(m, P, K, u) \/ Holds(v, h, u)
      BY <1>2, <2>2, <2>3, <2>6 DEF Has
    <3>2. Has(w, Q, K, u) <=> Has(v, P, K, u) \/ u = Last(new)
      BY <2>1, <2>6 DEF Gets
    <3> QED
      BY <2>5, <2>6, <3>1, <3>2
  <2>7. CASE k \notin K
    <3>1. Has(v, P, K, u) <=> Has(m, P, K, u)
      BY <1>2, <2>2, <2>7 DEF Has
    <3>2. Has(w, Q, K, u) <=> Has(v, P, K, u)
      BY <2>1, <2>7 DEF Keeps
    <3> QED
      BY <2>7, <3>1, <3>2
  <2> QED
    BY <2>6, <2>7
<1>23. BlockAdded(m, w, P, Q, pos, qos, k, new)
  BY <1>15, <1>16, <1>17, <1>20, <1>21, <1>22 DEF BlockAdded
<1> QED
  BY <1>11, <1>12, <1>23

-----------------------------------------------------------------------------
\* Iterators

Iterators == [curr : Blocks \cup {NULL}, ix : 1 .. BLOCK_SIZE]

\* x is at a slot of bag k.
In(m, P, k, x) == x.curr \in Blocks /\ P[x.curr] = k /\ x.ix \in 1 .. Len(m.data[x.curr])

AtEnd(x) == x.curr = NULL

\* The iteration of a bag meets slot i of block b before x.
Before(pos, b, i, x) == AtEnd(x) \/ pos[b] > pos[x.curr] \/ (b = x.curr /\ i < x.ix)

\* a is the slot after x: the next one of its block, or the first one of the next block.
Next1(m, P, pos, k, x, a) ==
  \/ a.curr = x.curr /\ a.ix = x.ix + 1 /\ In(m, P, k, a)
  \/ ~(x.ix + 1 <= Len(m.data[x.curr])) /\ AtEnd(a) /\ pos[x.curr] = 1
  \/ ~(x.ix + 1 <= Len(m.data[x.curr])) /\ a.ix = 1 /\ In(m, P, k, a) /\ pos[a.curr] = pos[x.curr] - 1

\* ++ of the iterator goes to the next slot of the bag, or to the end.
LEMMA AdvanceIs ==
  ASSUME NEW m, NEW sh, NEW P, NEW pos, Shape(m, sh, P, pos), NEW k \in Bags,
         NEW x \in Iterators, x.curr \in Blocks, P[x.curr] = k
  PROVE  Advance(m, x) \in Iterators /\ Next1(m, P, pos, k, x, Advance(m, x))
<1>1. ShapeParts(m, sh, P, pos)
  BY ShapeIs
<1>2. IsHeap(m) /\ pos \in [Blocks -> Nat]
  BY <1>1 DEF ShapeParts
<1>3. IsList(m, P, pos, k)
  BY <1>1, HeadAlive DEF ShapeParts, Lists
<1>4. PICK b \in Blocks : b = x.curr /\ P[b] = k
  OBVIOUS
<1>5. PICK i \in 1 .. BLOCK_SIZE : i = x.ix
  BY DEF Iterators
<1>6. x = [curr |-> b, ix |-> i]
  BY <1>4, <1>5 DEF Iterators
<1>7. Len(m.data[b]) \in Nat /\ Len(m.data[b]) <= BLOCK_SIZE
  BY <1>2 DEF IsHeap
<1>8. CASE i + 1 <= Len(m.data[b])
  <2>1. Advance(m, x) = [x EXCEPT !.ix = i + 1]
    BY <1>4, <1>5, <1>7, <1>8 DEF Advance
  <2>2. Advance(m, x) = [curr |-> b, ix |-> i + 1]
    BY <1>6, <2>1
  <2>3. i + 1 \in 1 .. Len(m.data[b]) /\ i + 1 \in 1 .. BLOCK_SIZE
    BY <1>5, <1>7, <1>8, BlockSizeAssumption
  <2>4. Advance(m, x) \in Iterators
    BY <2>2, <2>3 DEF Iterators
  <2>5. In(m, P, k, Advance(m, x)) /\ Advance(m, x).curr = x.curr /\ Advance(m, x).ix = x.ix + 1
    BY <1>4, <1>5, <2>2, <2>3 DEF In
  <2> QED
    BY <2>4, <2>5 DEF Next1
<1>9. CASE ~(i + 1 <= Len(m.data[b]))
  <2>1. Advance(m, x) = [curr |-> m.next[b], ix |-> 1]
    BY <1>4, <1>5, <1>7, <1>9 DEF Advance
  <2>2. 1 \in 1 .. BLOCK_SIZE
    BY BlockSizeAssumption
  <2>3. m.next[b] \in Blocks \cup {NULL}
    BY <1>2 DEF IsHeap
  <2>4. Advance(m, x) \in Iterators
    BY <2>1, <2>2, <2>3 DEF Iterators
  <2>5. Linked(m, P, pos, k, b)
    BY <1>3, <1>4 DEF IsList
  <2>6. CASE pos[b] = 1
    <3>1. AtEnd(Advance(m, x))
      BY <2>1, <2>5, <2>6 DEF Linked, AtEnd
    <3> QED
      BY <1>4, <1>5, <1>9, <2>4, <2>6, <3>1 DEF Next1
  <2>7. CASE pos[b] # 1
    <3>1. PICK c \in Blocks : c = m.next[b] /\ P[c] = k /\ pos[c] = pos[b] - 1
      BY <2>5, <2>7 DEF Linked
    <3>2. c # m.head[k]
      <4>1. pos[b] \in 1 .. m.sizeInBlocks[k] /\ pos[m.head[k]] = m.sizeInBlocks[k] /\ m.sizeInBlocks[k] \in Nat
        BY <1>3, <1>4 DEF IsList
      <4> QED
        BY <1>2, <3>1, <4>1
    <3>3. Len(m.data[c]) = BLOCK_SIZE
      BY <1>3, <3>1, <3>2 DEF IsList, Filled
    <3>4. In(m, P, k, Advance(m, x)) /\ Advance(m, x).curr = c /\ Advance(m, x).ix = 1
      BY <2>1, <2>2, <3>1, <3>3 DEF In
    <3> QED
      BY <1>4, <1>5, <1>9, <2>4, <3>1, <3>4 DEF Next1
  <2> QED
    BY <2>6, <2>7
<1> QED
  BY <1>8, <1>9

\* What is before the next slot is before x or at x.
LEMMA BeforeStep ==
  ASSUME NEW m, NEW sh, NEW P, NEW pos, Shape(m, sh, P, pos), NEW k \in Bags,
         NEW x \in Iterators, x.curr \in Blocks, P[x.curr] = k, NEW a, Next1(m, P, pos, k, x, a),
         NEW b \in Blocks, P[b] = k, NEW i \in 1 .. Len(m.data[b]), Before(pos, b, i, a)
  PROVE  Before(pos, b, i, x) \/ (b = x.curr /\ i = x.ix)
<1>1. ShapeParts(m, sh, P, pos)
  BY ShapeIs
<1>2. IsList(m, P, pos, k) /\ pos \in [Blocks -> Nat]
  BY <1>1, HeadAlive DEF ShapeParts, Lists
<1>3. PICK c \in Blocks : c = x.curr /\ P[c] = k
  OBVIOUS
<1>4. PICK j \in Nat : j = x.ix
  BY DEF Iterators
<1>5. Len(m.data[b]) \in Nat /\ pos[b] \in Nat /\ pos[c] \in Nat /\ pos[b] # 0
  BY <1>1, <1>2 DEF ShapeParts, IsHeap, IsList
<1>6. pos[b] = pos[c] => b = c
  BY <1>2, <1>3 DEF IsList
<1> SUFFICES pos[b] > pos[c] \/ (b = c /\ i < j) \/ (b = c /\ i = j)
  BY <1>3, <1>4 DEF Before
<1>7. CASE a.curr = x.curr /\ a.ix = x.ix + 1 /\ In(m, P, k, a)
  <2>1. a.curr = c /\ a.ix = j + 1 /\ ~AtEnd(a)
    BY <1>3, <1>4, <1>7, NullAssumption DEF AtEnd
  <2>2. pos[b] > pos[c] \/ (b = c /\ i < j + 1)
    BY <2>1 DEF Before
  <2> QED
    BY <1>5, <2>2
<1>8. CASE ~(x.ix + 1 <= Len(m.data[x.curr])) /\ AtEnd(a) /\ pos[x.curr] = 1
  <2>1. ~(j + 1 <= Len(m.data[c])) /\ pos[c] = 1
    BY <1>3, <1>4, <1>8
  <2>2. pos[b] > 1 \/ pos[b] = pos[c]
    BY <1>5, <2>1
  <2>3. b = c => i < j \/ i = j
    BY <1>5, <2>1
  <2> QED
    BY <1>6, <2>1, <2>2, <2>3
<1>9. CASE ~(x.ix + 1 <= Len(m.data[x.curr])) /\ a.ix = 1 /\ In(m, P, k, a) /\ pos[a.curr] = pos[x.curr] - 1
  <2>1. ~(j + 1 <= Len(m.data[c])) /\ pos[a.curr] = pos[c] - 1 /\ a.ix = 1 /\ ~AtEnd(a)
    BY <1>3, <1>4, <1>9, NullAssumption DEF AtEnd, In
  <2>2. b = c => i < j \/ i = j
    BY <1>5, <2>1
  <2>3. pos[b] > pos[c] - 1
    BY <1>5, <2>1 DEF Before
  <2>4. pos[b] > pos[c] \/ pos[b] = pos[c]
    BY <1>5, <2>3
  <2> QED
    BY <1>6, <2>2, <2>4
<1> QED
  BY <1>7, <1>8, <1>9 DEF Next1

\* begin() is at the first slot, or at the end when there is none.
LEMMA BeginIs ==
  ASSUME NEW m, NEW sh, NEW P, NEW pos, Shape(m, sh, P, pos), NEW k \in Bags, m.head[k] # NULL
  PROVE  /\ Begin(m, k) \in Iterators
         /\ AtEnd(Begin(m, k)) \/ In(m, P, k, Begin(m, k))
         /\ \A b \in Blocks : P[b] = k => \A i \in 1 .. Len(m.data[b]) : ~Before(pos, b, i, Begin(m, k))
<1>1. ShapeParts(m, sh, P, pos)
  BY ShapeIs
<1>2. IsList(m, P, pos, k) /\ pos \in [Blocks -> Nat] /\ IsHeap(m)
  BY <1>1 DEF ShapeParts, Lists
<1>3. PICK h \in Blocks : h = m.head[k] /\ P[h] = k /\ pos[h] = m.sizeInBlocks[k]
  BY <1>2 DEF IsList
<1>4. PICK x : x = [curr |-> h, ix |-> 1]
  OBVIOUS
<1>5. x \in Iterators /\ x.curr = h /\ x.ix = 1
  BY <1>4, BlockSizeAssumption DEF Iterators
<1>6. \A b \in Blocks : P[b] = k => pos[b] \in 1 .. m.sizeInBlocks[k]
  BY <1>2 DEF IsList
<1>7. m.data[h] \in Seq(Objects)
  BY <1>2 DEF IsHeap
<1>8. ASSUME NEW b \in Blocks, P[b] = k, NEW i \in 1 .. Len(m.data[b]) PROVE ~Before(pos, b, i, x)
  <2>1. ~(pos[b] > pos[h])
    BY <1>2, <1>3, <1>6, <1>8
  <2>2. ~(i < 1)
    OBVIOUS
  <2> QED
    BY <1>5, <2>1, <2>2, NullAssumption DEF Before, AtEnd
<1>9. CASE m.data[h] # <<>>
  <2>1. Begin(m, k) = x
    BY <1>3, <1>4, <1>9 DEF Begin, HeadIsEmpty
  <2>2. 1 \in 1 .. Len(m.data[h])
    BY <1>7, <1>9
  <2>3. In(m, P, k, x)
    BY <1>3, <1>5, <2>2 DEF In
  <2> QED
    BY <1>5, <1>8, <2>1, <2>3
<1>10. CASE m.data[h] = <<>>
  <2>1. PICK a : a = Advance(m, x)
    OBVIOUS
  <2>2. Begin(m, k) = a
    BY <1>3, <1>4, <1>10, <2>1 DEF Begin, HeadIsEmpty
  <2>3. a \in Iterators /\ Next1(m, P, pos, k, x, a)
    BY <1>3, <1>5, <2>1, AdvanceIs
  <2>4. x.ix + 1 > Len(m.data[x.curr])
    BY <1>5, <1>10
  <2>5. AtEnd(a) \/ In(m, P, k, a)
    BY <2>3 DEF Next1
  <2>6. ASSUME NEW b \in Blocks, P[b] = k, NEW i \in 1 .. Len(m.data[b]) PROVE ~Before(pos, b, i, a)
    <3>1. ~Before(pos, b, i, x)
      BY <1>8, <2>6
    <3>2. ~(b = x.curr /\ i = x.ix)
      BY <1>5, <1>10
    <3>3. x.curr \in Blocks /\ P[x.curr] = k
      BY <1>3, <1>5
    <3> QED
      BY ONLY <1>5, <2>3, <2>6, <3>1, <3>2, <3>3, BeforeStep, Shape(m, sh, P, pos), k \in Bags
  <2> QED
    BY <2>2, <2>3, <2>5, <2>6
<1> QED
  BY <1>9, <1>10

-----------------------------------------------------------------------------
\* Swap

Swapped(m, w, x, y) ==
  /\ OnlyData(m, w) /\ w = Heap(w) /\ IsHeap(w)
  /\ \A b \in Blocks : /\ Len(w.data[b]) = Len(m.data[b])
                       /\ \A i \in 1 .. Len(m.data[b]) :
                            w.data[b][i] = IF b = x.curr /\ i = x.ix THEN At(m, y)
                                           ELSE IF b = y.curr /\ i = y.ix THEN At(m, x)
                                           ELSE m.data[b][i]

\* The swap of two slots of a bag.
LEMMA SwapIs ==
  ASSUME NEW m \in Heaps, NEW P, NEW k, NEW x, NEW y, In(m, P, k, x), In(m, P, k, y)
  PROVE  Swapped(m, Swap(m, x, y), x, y)
<1>1. IsHeap(m) /\ m = Heap(m)
  BY HeapIs
<1>2. PICK b, i : b \in Blocks /\ i \in 1 .. Len(m.data[b]) /\ b = x.curr /\ i = x.ix
  BY DEF In
<1>3. PICK c, j : c \in Blocks /\ j \in 1 .. Len(m.data[c]) /\ c = y.curr /\ j = y.ix
  BY DEF In
<1>4. PICK o : o = m.data[b][i] /\ o = At(m, x)
  BY <1>2 DEF At
<1>5. PICK u : u = m.data[c][j] /\ u = At(m, y)
  BY <1>3 DEF At
<1>6. \A d \in Blocks : m.data[d] \in Seq(Objects) /\ Len(m.data[d]) <= BLOCK_SIZE
  BY <1>1 DEF IsHeap
<1>7. o \in Objects /\ u \in Objects
  <2>1. m.data[b] \in Seq(Objects) /\ m.data[c] \in Seq(Objects)
    BY <1>2, <1>3, <1>6
  <2>2. m.data[b][i] \in Objects /\ m.data[c][j] \in Objects
    BY ONLY <1>2, <1>3, <2>1
  <2> QED
    BY <1>4, <1>5, <2>2
<1>8. PICK E : E = [m.data EXCEPT ![c][j] = o]
  OBVIOUS
<1>9. PICK D : D = [E EXCEPT ![b][i] = u]
  OBVIOUS
<1>10. PICK w : w = [m EXCEPT !.data = D]
  OBVIOUS
<1>11. w = Swap(m, x, y)
  BY <1>2, <1>3, <1>4, <1>5, <1>8, <1>9, <1>10 DEF Swap
<1>12. /\ w.next = m.next /\ w.data = D /\ w.head = m.head /\ w.tail = m.tail
       /\ w.sizeInBlocks = m.sizeInBlocks /\ w.pool = m.pool /\ w.live = m.live /\ w = Heap(w)
  BY <1>1, <1>10 DEF Heap
<1>13. E[c] = [m.data[c] EXCEPT ![j] = o] /\ DOMAIN E = Blocks /\ E = [d \in Blocks |-> E[d]]
       /\ \A d \in Blocks : d # c => E[d] = m.data[d]
  BY <1>1, <1>3, <1>8 DEF IsHeap
<1>14. \A d \in Blocks :
         /\ E[d] \in Seq(Objects) /\ Len(E[d]) = Len(m.data[d])
         /\ \A l \in 1 .. Len(m.data[d]) : E[d][l] = IF d = c /\ l = j THEN o ELSE m.data[d][l]
  <2>1. /\ [m.data[c] EXCEPT ![j] = o] \in Seq(Objects) /\ Len([m.data[c] EXCEPT ![j] = o]) = Len(m.data[c])
        /\ \A l \in 1 .. Len(m.data[c]) : [m.data[c] EXCEPT ![j] = o][l] = IF l = j THEN o ELSE m.data[c][l]
    <3>1. m.data[c] \in Seq(Objects)
      BY <1>3, <1>6
    <3> QED
      BY ONLY <1>3, <1>7, <3>1, ReplaceIs
  <2>2. E[c] = [m.data[c] EXCEPT ![j] = o] /\ \A d \in Blocks : d # c => E[d] = m.data[d]
    BY <1>13
  <2>3. ASSUME NEW d \in Blocks
        PROVE  /\ E[d] \in Seq(Objects) /\ Len(E[d]) = Len(m.data[d])
               /\ \A l \in 1 .. Len(m.data[d]) :
                    E[d][l] = IF d = c /\ l = j THEN o ELSE m.data[d][l]
    <3>1. CASE d = c
      BY ONLY <2>1, <2>2, <3>1
    <3>2. CASE d # c
      BY ONLY <1>6, <2>2, <3>2, d \in Blocks
    <3> QED
      BY <3>1, <3>2
  <2> QED
    BY <2>3
<1>15. D[b] = [E[b] EXCEPT ![i] = u] /\ DOMAIN D = Blocks /\ D = [d \in Blocks |-> D[d]]
       /\ \A d \in Blocks : d # b => D[d] = E[d]
  BY <1>2, <1>9, <1>13
<1>16. \A d \in Blocks :
         /\ D[d] \in Seq(Objects) /\ Len(D[d]) = Len(m.data[d])
         /\ \A l \in 1 .. Len(m.data[d]) : D[d][l] = IF d = b /\ l = i THEN u ELSE E[d][l]
  <2>1. E[b] \in Seq(Objects) /\ i \in 1 .. Len(E[b])
    BY <1>2, <1>14
  <2>2. /\ [E[b] EXCEPT ![i] = u] \in Seq(Objects) /\ Len([E[b] EXCEPT ![i] = u]) = Len(E[b])
        /\ \A l \in 1 .. Len(E[b]) : [E[b] EXCEPT ![i] = u][l] = IF l = i THEN u ELSE E[b][l]
    BY <1>7, <2>1, ReplaceIs
  <2>3. ASSUME NEW d \in Blocks
        PROVE  /\ D[d] \in Seq(Objects) /\ Len(D[d]) = Len(m.data[d])
               /\ \A l \in 1 .. Len(m.data[d]) : D[d][l] = IF d = b /\ l = i THEN u ELSE E[d][l]
    <3>1. E[d] \in Seq(Objects) /\ Len(E[d]) = Len(m.data[d])
      BY <1>14
    <3>2. CASE d = b
      BY <1>15, <2>2, <3>1, <3>2
    <3>3. CASE d # b
      BY <1>15, <3>1, <3>3
    <3> QED
      BY <3>2, <3>3
  <2> QED
    BY <2>3
<1>17. IsHeap(w)
  <2>1. \A d \in Blocks : D[d] \in Seq(Objects) /\ Len(D[d]) <= BLOCK_SIZE
    BY <1>6, <1>16
  <2> QED
    BY <1>1, <1>12, <1>15, <2>1 DEF IsHeap
<1>18. \A d \in Blocks : /\ Len(D[d]) = Len(m.data[d])
                         /\ \A l \in 1 .. Len(m.data[d]) :
                              D[d][l] = IF d = b /\ l = i THEN u
                                        ELSE IF d = c /\ l = j THEN o ELSE m.data[d][l]
  BY <1>14, <1>16
<1> QED
  BY <1>2, <1>3, <1>4, <1>5, <1>11, <1>12, <1>17, <1>18 DEF Swapped, OnlyData

\* A swap keeps the shape.
LEMMA SwapShape ==
  ASSUME NEW m, NEW w, NEW sh, NEW P, NEW pos, Shape(m, sh, P, pos), NEW k \in Bags, NEW x, NEW y,
         In(m, P, k, x), In(m, P, k, y), Swapped(m, w, x, y)
  PROVE  Shape(w, sh, P, pos)
<1>1. ShapeParts(m, sh, P, pos)
  BY ShapeIs
<1>2. OnlyData(m, w) /\ w = Heap(w) /\ IsHeap(w) /\ \A b \in Blocks : Len(w.data[b]) = Len(m.data[b])
  BY DEF Swapped
<1>3. ASSUME NEW b \in Blocks
      PROVE  /\ P[b] = "pool" => w.data[b] = m.data[b]
             /\ P[b] = "shared" => Len(w.data[b]) = Len(m.data[b])
             /\ \A j \in Bags : P[b] = j => Filled(w, j, b)
  <2>1. P[b] = "pool" => w.data[b] = m.data[b]
    <3>1. ASSUME P[b] = "pool" PROVE m.data[b] = <<>>
      BY <1>1, <3>1 DEF ShapeParts, InPool
    <3>2. w.data[b] \in Seq(Objects)
      BY <1>2 DEF IsHeap
    <3> QED
      BY <1>2, <3>1, <3>2
  <2>2. ASSUME NEW j \in Bags, P[b] = j PROVE Filled(w, j, b)
    <3>1. Filled(m, j, b)
      BY <1>1, <2>2, HeadAlive DEF ShapeParts, Lists, IsList
    <3> QED
      BY <1>2, <3>1 DEF Filled, OnlyData
  <2> QED
    BY <1>2, <2>1, <2>2
<1> QED
  BY <1>2, <1>3, DataShape

\* The object in slot i of block b has come from slot a of block d.
From(m, w, P, x, y, b, i, d, a) ==
  /\ P[d] # "none" /\ a \in 1 .. Len(m.data[d]) /\ w.data[b][i] = m.data[d][a]
  /\ \/ b = x.curr /\ i = x.ix /\ d = y.curr /\ a = y.ix
     \/ ~(b = x.curr /\ i = x.ix) /\ b = y.curr /\ i = y.ix /\ d = x.curr /\ a = x.ix
     \/ ~(b = x.curr /\ i = x.ix) /\ ~(b = y.curr /\ i = y.ix) /\ d = b /\ a = i

\* A swap leaves every object in one slot.
LEMMA SwapDistinct ==
  ASSUME NEW m, NEW w, NEW P, NEW k \in Bags, NEW x, NEW y,
         In(m, P, k, x), In(m, P, k, y), Swapped(m, w, x, y), Distinct(m, P, NULL, 0)
  PROVE  /\ Distinct(w, P, NULL, 0)
         /\ \A u : Absent(m, P, NULL, 0, u) => Absent(w, P, NULL, 0, u)
<1>1. NULL \notin Blocks /\ P[x.curr] # "none" /\ P[y.curr] # "none"
  BY NullAssumption, BagsAssumption DEF In
<1>2. \A b, c \in Blocks : P[b] # "none" /\ P[c] # "none" =>
        \A i \in 1 .. Len(m.data[b]), j \in 1 .. Len(m.data[c]) :
          m.data[b][i] = m.data[c][j] => b = c /\ i = j
  BY <1>1 DEF Distinct
<1>3. /\ x.curr \in Blocks /\ x.ix \in 1 .. Len(m.data[x.curr]) /\ At(m, x) = m.data[x.curr][x.ix]
      /\ y.curr \in Blocks /\ y.ix \in 1 .. Len(m.data[y.curr]) /\ At(m, y) = m.data[y.curr][y.ix]
  BY DEF In, At
<1>4. ASSUME NEW b \in Blocks, P[b] # "none", NEW i \in 1 .. Len(w.data[b])
      PROVE  \E d \in Blocks, a \in Nat : From(m, w, P, x, y, b, i, d, a)
  <2>1. Len(w.data[b]) = Len(m.data[b])
    BY DEF Swapped
  <2>2. w.data[b][i] = IF b = x.curr /\ i = x.ix THEN At(m, y)
                       ELSE IF b = y.curr /\ i = y.ix THEN At(m, x)
                       ELSE m.data[b][i]
    BY <2>1 DEF Swapped
  <2>3. CASE b = x.curr /\ i = x.ix
    <3>1. From(m, w, P, x, y, b, i, y.curr, y.ix)
      BY <1>1, <1>3, <2>2, <2>3 DEF From
    <3> QED
      BY <1>3, <3>1
  <2>4. CASE ~(b = x.curr /\ i = x.ix) /\ b = y.curr /\ i = y.ix
    <3>1. From(m, w, P, x, y, b, i, x.curr, x.ix)
      BY <1>1, <1>3, <2>2, <2>4 DEF From
    <3> QED
      BY <1>3, <3>1
  <2>5. CASE ~(b = x.curr /\ i = x.ix) /\ ~(b = y.curr /\ i = y.ix)
    <3>1. From(m, w, P, x, y, b, i, b, i)
      BY <1>4, <2>1, <2>2, <2>5 DEF From
    <3> QED
      BY <3>1
  <2> QED
    BY <2>3, <2>4, <2>5
<1>5. ASSUME NEW b \in Blocks, NEW c \in Blocks, P[b] # "none", P[c] # "none",
             NEW i \in 1 .. Len(w.data[b]), NEW j \in 1 .. Len(w.data[c]), w.data[b][i] = w.data[c][j]
      PROVE  b = c /\ i = j
  <2>1. PICK d \in Blocks, a \in Nat : From(m, w, P, x, y, b, i, d, a)
    BY <1>4, <1>5
  <2>2. PICK f \in Blocks, g \in Nat : From(m, w, P, x, y, c, j, f, g)
    BY <1>4, <1>5
  <2>3. P[d] # "none" /\ a \in 1 .. Len(m.data[d]) /\ w.data[b][i] = m.data[d][a]
    BY <2>1 DEF From
  <2>4. P[f] # "none" /\ g \in 1 .. Len(m.data[f]) /\ w.data[c][j] = m.data[f][g]
    BY <2>2 DEF From
  <2>5. d = f /\ a = g
    <3>1. m.data[d][a] = m.data[f][g]
      BY <1>5, <2>3, <2>4
    <3> QED
      BY ONLY <1>2, <2>3, <2>4, <3>1, d \in Blocks, f \in Blocks
  <2> QED
    BY ONLY <2>1, <2>2, <2>5 DEF From
<1>6. Distinct(w, P, NULL, 0)
  BY <1>5 DEF Distinct
<1>7. ASSUME NEW u, Absent(m, P, NULL, 0, u) PROVE Absent(w, P, NULL, 0, u)
  <2>1. \A b \in Blocks : P[b] # "none" => \A i \in 1 .. Len(m.data[b]) : m.data[b][i] # u
    BY <1>1, <1>7 DEF Absent
  <2>2. ASSUME NEW b \in Blocks, P[b] # "none", NEW i \in 1 .. Len(w.data[b]) PROVE w.data[b][i] # u
    <3>1. PICK d \in Blocks, a \in Nat : From(m, w, P, x, y, b, i, d, a)
      BY <1>4, <2>2
    <3> QED
      BY <2>1, <3>1 DEF From
  <2> QED
    BY <2>2 DEF Absent
<1> QED
  BY <1>6, <1>7

\* The next slot comes after x and after all before x.
LEMMA BeforeNext ==
  ASSUME NEW m, NEW sh, NEW P, NEW pos, Shape(m, sh, P, pos), NEW k \in Bags,
         NEW x \in Iterators, x.curr \in Blocks, P[x.curr] = k, NEW a, Next1(m, P, pos, k, x, a),
         NEW b \in Blocks, P[b] = k, NEW i \in 1 .. Len(m.data[b]),
         Before(pos, b, i, x) \/ (b = x.curr /\ i = x.ix)
  PROVE  Before(pos, b, i, a)
<1>1. ShapeParts(m, sh, P, pos)
  BY ShapeIs
<1>2. pos \in [Blocks -> Nat]
  BY <1>1 DEF ShapeParts
<1>3. PICK c \in Blocks : c = x.curr /\ P[c] = k
  OBVIOUS
<1>4. PICK j \in Nat : j = x.ix
  BY DEF Iterators
<1>5. pos[b] \in Nat /\ pos[c] \in Nat
  BY <1>2
<1>6. pos[b] > pos[c] \/ (b = c /\ (i < j \/ i = j))
  BY <1>3, <1>4, NullAssumption DEF Before, AtEnd
<1>7. CASE a.curr = x.curr /\ a.ix = x.ix + 1 /\ In(m, P, k, a)
  BY <1>3, <1>4, <1>6, <1>7 DEF Before
<1>8. CASE ~(x.ix + 1 <= Len(m.data[x.curr])) /\ AtEnd(a) /\ pos[x.curr] = 1
  BY <1>8 DEF Before
<1>9. CASE ~(x.ix + 1 <= Len(m.data[x.curr])) /\ a.ix = 1 /\ In(m, P, k, a) /\ pos[a.curr] = pos[x.curr] - 1
  <2>1. pos[a.curr] = pos[c] - 1
    BY <1>3, <1>9
  <2>2. pos[b] > pos[c] - 1
    BY <1>5, <1>6
  <2> QED
    BY <2>1, <2>2 DEF Before
<1> QED
  BY <1>7, <1>8, <1>9 DEF Next1

-----------------------------------------------------------------------------
\* Bags without objects

BagIsEmpty(m, P, pos, k) == \A b \in Blocks : P[b] = k => pos[b] = 1 /\ m.data[b] = <<>>

\* isEmpty finds that no block of the bag holds an object.
LEMMA EmptyIs ==
  ASSUME NEW m, NEW sh, NEW P, NEW pos, Shape(m, sh, P, pos), NEW k \in Bags, m.head[k] # NULL
  PROVE  IsEmpty(m, k) <=> BagIsEmpty(m, P, pos, k)
<1>1. IsList(m, P, pos, k)
  BY ShapeIs DEF ShapeParts, Lists
<1>2. PICK h \in Blocks : h = m.head[k] /\ P[h] = k
  BY <1>1 DEF IsList
<1>3. Linked(m, P, pos, k, h)
  BY <1>1, <1>2 DEF IsList
<1>4. IsEmpty(m, k) <=> m.next[h] = NULL /\ m.data[h] = <<>>
  BY <1>2 DEF IsEmpty, HeadIsEmpty
<1>5. ASSUME IsEmpty(m, k) PROVE BagIsEmpty(m, P, pos, k)
  <2>1. \A b \in Blocks : P[b] = k => b = h
    BY <1>1, <1>2, <1>4, <1>5, OnlyBlock
  <2>2. pos[h] = 1
    BY <1>3, <1>4, <1>5, NullAssumption DEF Linked
  <2> QED
    BY <1>4, <1>5, <2>1, <2>2 DEF BagIsEmpty
<1>6. ASSUME BagIsEmpty(m, P, pos, k) PROVE IsEmpty(m, k)
  <2>1. pos[h] = 1 /\ m.data[h] = <<>>
    BY <1>2, <1>6 DEF BagIsEmpty
  <2> QED
    BY <1>3, <1>4, <2>1 DEF Linked
<1> QED
  BY <1>5, <1>6

-----------------------------------------------------------------------------
\* What the other operations do to the objects

\* Only objects of the shared bag go when one of its blocks is emptied.
LEMMA GoneEffect ==
  ASSUME NEW m, NEW w, NEW P, NEW Q, NEW x \in Blocks, BlockGone(m, w, P, Q, x)
  PROVE  /\ Keeps(m, P, w, Q, {"retired"})
         /\ \A u : Has(w, Q, Ready, u) => Has(m, P, Ready, u)
<1>1. \A b \in Blocks : b # x => \A u : Holds(w, b, u) <=> Holds(m, b, u)
  BY DEF BlockGone, Holds
<1>2. P[x] = "shared" /\ Q[x] \notin Ready /\ Q[x] # "retired" /\ \A b \in Blocks : b # x => Q[b] = P[b]
  BY DEF BlockGone, Ready
<1>3. Keeps(m, P, w, Q, {"retired"})
  BY <1>1, <1>2 DEF Keeps, Has
<1>4. \A u : Has(w, Q, Ready, u) => Has(m, P, Ready, u)
  BY <1>1, <1>2 DEF Has
<1> QED
  BY <1>3, <1>4

\* A swap moves no object to another bag.
LEMMA SwapEffect ==
  ASSUME NEW m, NEW w, NEW P, NEW k, NEW x, NEW y, NEW K,
         In(m, P, k, x), In(m, P, k, y), Swapped(m, w, x, y)
  PROVE  Keeps(m, P, w, P, K)
<1>1. /\ x.curr \in Blocks /\ P[x.curr] = k /\ x.ix \in 1 .. Len(m.data[x.curr]) /\ At(m, x) = m.data[x.curr][x.ix]
      /\ y.curr \in Blocks /\ P[y.curr] = k /\ y.ix \in 1 .. Len(m.data[y.curr]) /\ At(m, y) = m.data[y.curr][y.ix]
  BY DEF In, At
<1>2. \A b \in Blocks : /\ Len(w.data[b]) = Len(m.data[b])
                        /\ \A i \in 1 .. Len(m.data[b]) :
                             w.data[b][i] = IF b = x.curr /\ i = x.ix THEN At(m, y)
                                            ELSE IF b = y.curr /\ i = y.ix THEN At(m, x)
                                            ELSE m.data[b][i]
  BY DEF Swapped
<1>3. ASSUME NEW u, NEW b \in Blocks, P[b] \in K, NEW i \in 1 .. Len(w.data[b]), w.data[b][i] = u
      PROVE  Has(m, P, K, u)
  <2>1. i \in 1 .. Len(m.data[b])
    BY <1>2
  <2>2. \/ b = x.curr /\ u = m.data[y.curr][y.ix]
        \/ b = y.curr /\ u = m.data[x.curr][x.ix]
        \/ u = m.data[b][i]
    <3>1. w.data[b][i] = IF b = x.curr /\ i = x.ix THEN At(m, y)
                         ELSE IF b = y.curr /\ i = y.ix THEN At(m, x)
                         ELSE m.data[b][i]
      BY <1>2, <2>1
    <3> QED
      BY ONLY <1>1, <1>3, <3>1
  <2>3. CASE b = x.curr /\ u = m.data[y.curr][y.ix]
    BY <1>1, <1>3, <2>3 DEF Has, Holds
  <2>4. CASE b = y.curr /\ u = m.data[x.curr][x.ix]
    BY <1>1, <1>3, <2>4 DEF Has, Holds
  <2>5. CASE u = m.data[b][i]
    BY <1>3, <2>1, <2>5 DEF Has, Holds
  <2> QED
    BY <2>2, <2>3, <2>4, <2>5
<1>4. ASSUME NEW u, NEW b \in Blocks, P[b] \in K, NEW i \in 1 .. Len(m.data[b]), m.data[b][i] = u
      PROVE  Has(w, P, K, u)
  <2>1. /\ x.ix \in 1 .. Len(w.data[x.curr]) /\ w.data[x.curr][x.ix] = m.data[y.curr][y.ix]
        /\ y.ix \in 1 .. Len(w.data[y.curr])
        /\ (x.curr = y.curr /\ x.ix = y.ix) \/ w.data[y.curr][y.ix] = m.data[x.curr][x.ix]
    BY <1>1, <1>2
  <2>2. CASE b = x.curr /\ i = x.ix
    <3>1. w.data[y.curr][y.ix] = u
      BY <1>4, <2>1, <2>2
    <3> QED
      BY <1>1, <1>4, <2>1, <2>2, <3>1 DEF Has, Holds
  <2>3. CASE b = y.curr /\ i = y.ix
    BY <1>1, <1>4, <2>1, <2>3 DEF Has, Holds
  <2>4. CASE ~(b = x.curr /\ i = x.ix) /\ ~(b = y.curr /\ i = y.ix)
    <3>1. i \in 1 .. Len(w.data[b]) /\ w.data[b][i] = u
      BY <1>2, <1>4, <2>4
    <3> QED
      BY <1>4, <3>1 DEF Has, Holds
  <2> QED
    BY <2>2, <2>3, <2>4
<1> QED
  BY <1>3, <1>4 DEF Keeps, Has, Holds

\* The objects of the moved blocks are moved.
LEMMA MovedEffect ==
  ASSUME NEW m, NEW w, NEW P, NEW Q, NEW pos, NEW p, BlocksMoved(m, w, P, Q, pos, "free", "retired", p),
         Distinct(m, P, NULL, 0)
  PROVE  \A u : LET moved == \E b \in Blocks : Q[b] # P[b] /\ Holds(m, b, u)
                IN  /\ Has(w, Q, Ready, u) <=> Has(m, P, Ready, u) \/ moved
                    /\ Has(w, Q, {"retired"}, u) <=> Has(m, P, {"retired"}, u) /\ ~moved
                    /\ moved => Has(m, P, {"retired"}, u)
<1>1. \A b \in Blocks : \A u : Holds(w, b, u) <=> Holds(m, b, u)
  BY DEF BlocksMoved, Holds
<1>2. \A b \in Blocks : Q[b] # P[b] => P[b] = "retired" /\ Q[b] = "free"
  BY DEF BlocksMoved
<1>3. \A b, c \in Blocks : \A u : P[b] = "retired" /\ P[c] = "retired" /\ Holds(m, b, u) /\ Holds(m, c, u) => b = c
  BY NullAssumption DEF Distinct, Holds
<1> SUFFICES ASSUME NEW u
             PROVE  LET moved == \E b \in Blocks : Q[b] # P[b] /\ Holds(m, b, u)
                    IN  /\ Has(w, Q, Ready, u) <=> Has(m, P, Ready, u) \/ moved
                        /\ Has(w, Q, {"retired"}, u) <=> Has(m, P, {"retired"}, u) /\ ~moved
                        /\ moved => Has(m, P, {"retired"}, u)
  OBVIOUS
<1>4. Has(w, Q, Ready, u) <=> Has(m, P, Ready, u) \/ \E b \in Blocks : Q[b] # P[b] /\ Holds(m, b, u)
  BY <1>1, <1>2 DEF Has, Ready
<1>5. (\E b \in Blocks : Q[b] # P[b] /\ Holds(m, b, u)) => Has(m, P, {"retired"}, u)
  BY <1>2 DEF Has
<1>6. Has(w, Q, {"retired"}, u) <=> Has(m, P, {"retired"}, u) /\ ~\E b \in Blocks : Q[b] # P[b] /\ Holds(m, b, u)
  <2>1. ASSUME Has(w, Q, {"retired"}, u)
        PROVE  Has(m, P, {"retired"}, u) /\ ~\E b \in Blocks : Q[b] # P[b] /\ Holds(m, b, u)
    <3>1. PICK c \in Blocks : Q[c] = "retired" /\ Holds(w, c, u)
      BY <2>1 DEF Has
    <3>2. P[c] = "retired" /\ Q[c] = P[c] /\ Holds(m, c, u)
      BY <1>1, <1>2, <3>1
    <3>3. ASSUME NEW b \in Blocks, Q[b] # P[b], Holds(m, b, u) PROVE FALSE
      BY <1>2, <1>3, <3>2, <3>3
    <3> QED
      BY <3>2, <3>3 DEF Has
  <2>2. ASSUME Has(m, P, {"retired"}, u), ~\E b \in Blocks : Q[b] # P[b] /\ Holds(m, b, u)
        PROVE  Has(w, Q, {"retired"}, u)
    BY <1>1, <2>2 DEF Has
  <2> QED
    BY <2>1, <2>2
<1> QED
  BY <1>4, <1>5, <1>6

\* No slot of the bag retired but one holds o.
OnlyThere(m, P, b, ix, o) ==
  \A c \in Blocks : P[c] = "retired" => \A i \in 1 .. Len(m.data[c]) : ~(c = b /\ i = ix) => m.data[c][i] # o

\* erase takes its object, and no other, out of the bag.
LEMMA EraseEffect ==
  ASSUME NEW m, NEW sh, NEW P, NEW pos, Shape(m, sh, P, pos),
         NEW w, NEW Q, NEW g, NEW b \in Blocks, P[b] = "retired", NEW ix \in 1 .. Len(m.data[b]),
         HeadLeft(m, P, Q, "retired"), Top(m, P, pos, "retired", g), Erased(m, w, "retired", g, b, ix),
         NEW o, o = m.data[b][ix], OnlyThere(m, P, b, ix, o)
  PROVE  Loses(m, P, w, Q, {"retired"}, o) /\ Keeps(m, P, w, Q, Ready)
<1>0. \A c \in Blocks : P[c] = "retired" => \A i \in 1 .. Len(m.data[c]) : ~(c = b /\ i = ix) => m.data[c][i] # o
  BY DEF OnlyThere
<1> USE <1>0
<1>1. ShapeParts(m, sh, P, pos)
  BY ShapeIs
<1>2. g \in Blocks /\ P[g] = "retired" /\ m.data[g] # <<>> /\ m.data[g] \in Seq(Objects) /\ m.data[b] \in Seq(Objects)
  BY <1>1 DEF Top, ShapeParts, IsHeap
<1>3. PICK n \in Nat \ {0} : n = Len(m.data[g])
  BY <1>2
<1>4. Len(m.data[b]) \in Nat
  BY <1>2
<1>5. \A c \in Blocks : /\ Q[c] # P[c] => m.data[c] = <<>> /\ P[c] = "retired" /\ Q[c] \in {"pool", "none"}
                        /\ c # g /\ c # b => w.data[c] = m.data[c]
  BY DEF HeadLeft, Erased
<1>6. 1 .. Len(m.data[b]) # {} /\ m.data[b] # <<>>
  OBVIOUS
<1>7. Q[g] = "retired" /\ Q[b] = "retired"
  BY <1>2, <1>5, <1>6
<1>8. Keeps(m, P, w, Q, Ready)
  <2>1. ASSUME NEW c \in Blocks, NEW u PROVE Q[c] \in Ready /\ Holds(w, c, u) <=> P[c] \in Ready /\ Holds(m, c, u)
    <3>1. Q[c] \in Ready <=> P[c] \in Ready
      BY <1>5 DEF Ready
    <3>2. P[c] \in Ready => c # g /\ c # b
      BY <1>2 DEF Ready
    <3> QED
      BY <1>5, <3>1, <3>2 DEF Holds
  <2> QED
    BY <2>1 DEF Keeps, Has
<1>9. /\ Len(w.data[g]) = n - 1
      /\ \A i \in 1 .. n - 1 : w.data[g][i] = IF b = g /\ i = ix THEN m.data[g][n] ELSE m.data[g][i]
  BY <1>3 DEF Erased
<1>10. b # g => /\ Len(w.data[b]) = Len(m.data[b])
                /\ \A i \in 1 .. Len(m.data[b]) : w.data[b][i] = IF i = ix THEN m.data[g][n] ELSE m.data[b][i]
  BY <1>3 DEF Erased
<1>11. n \in 1 .. n /\ \A i \in 1 .. n : (i \in 1 .. n - 1 <=> i # n)
  BY <1>3
<1>12. ASSUME NEW u, Has(w, Q, {"retired"}, u) PROVE Has(m, P, {"retired"}, u) /\ u # o
  <2>1. PICK c, i : c \in Blocks /\ Q[c] = "retired" /\ i \in 1 .. Len(w.data[c]) /\ w.data[c][i] = u
    BY <1>12 DEF Has, Holds
  <2>2. Q[c] # "none" /\ Len(m.data[g]) \in Nat \ {0} /\ g \in Blocks /\ P[g] = "retired" /\ "retired" \in Bags
    BY <1>2, <1>3, <2>1, BagsAssumption
  <2>3. PICK d, j : Source(m, w, P, g, b, ix, c, i, d, j)
    BY ONLY <1>4, <2>1, <2>2, SourceIs, b \in Blocks, ix \in 1 .. Len(m.data[b]), P[b] = "retired",
       HeadLeft(m, P, Q, "retired"), Erased(m, w, "retired", g, b, ix)
  <2>4. d \in Blocks /\ j \in 1 .. Len(m.data[d]) /\ u = m.data[d][j] /\ ~(d = b /\ j = ix) /\ (d = g \/ d = c)
    BY <2>1, <2>3 DEF Source
  <2>5. P[d] = "retired"
    BY <1>2, <1>5, <2>1, <2>4
  <2> QED
    BY <2>4, <2>5 DEF Has, Holds
<1>13. ASSUME NEW u, Has(m, P, {"retired"}, u), u # o PROVE Has(w, Q, {"retired"}, u)
  <2>1. PICK c, i : c \in Blocks /\ P[c] = "retired" /\ i \in 1 .. Len(m.data[c]) /\ m.data[c][i] = u
    BY <1>13 DEF Has, Holds
  <2>2. ~(c = b /\ i = ix)
    BY <1>13, <2>1
  <2>3. Q[c] = "retired"
    <3>1. m.data[c] # <<>>
      BY <2>1
    <3> QED
      BY <1>5, <2>1, <3>1
  <2>4. CASE c = g /\ i = n
    <3>1. CASE b = g
      <4>1. ix \in 1 .. n - 1 /\ w.data[g][ix] = u
        BY <1>3, <1>9, <1>11, <2>1, <2>2, <2>4, <3>1
      <4> QED
        BY <1>2, <1>7, <1>9, <4>1 DEF Has, Holds
    <3>2. CASE b # g
      <4>1. ix \in 1 .. Len(w.data[b]) /\ w.data[b][ix] = u
        BY <1>10, <2>1, <2>4, <3>2
      <4> QED
        BY <1>7, <4>1 DEF Has, Holds
    <3> QED
      BY <3>1, <3>2
  <2>5. CASE ~(c = g /\ i = n)
    <3>1. i \in 1 .. Len(w.data[c]) /\ w.data[c][i] = u
      <4>1. CASE c = g
        <5>1. i \in 1 .. n - 1
          BY <1>3, <1>11, <2>1, <2>5, <4>1
        <5> QED
          BY <1>9, <2>1, <2>2, <4>1, <5>1
      <4>2. CASE c = b /\ c # g
        BY <1>10, <2>1, <2>2, <4>2
      <4>3. CASE c # b /\ c # g
        BY <1>5, <2>1, <4>3
      <4> QED
        BY <4>1, <4>2, <4>3
    <3> QED
      BY <2>1, <2>3, <3>1 DEF Has, Holds
  <2> QED
    BY <2>4, <2>5
<1> QED
  BY <1>8, <1>12, <1>13 DEF Loses

-----------------------------------------------------------------------------
\* The inductive invariant

HeldOut(m, P, he) == \A o \in he : Absent(m, P, NULL, 0, o)

\* Every object that a scan by iterator has passed is announced.
Filtered(m, P, pos, x, A) ==
  /\ AtEnd(x) \/ In(m, P, "retired", x)
  /\ \A b \in Blocks : P[b] = "retired" =>
       \A i \in 1 .. Len(m.data[b]) : Before(pos, b, i, x) => m.data[b][i] \in A

\* Slot y is not behind slot x.
NotAfter(pos, y, x) == pos[y.curr] > pos[x.curr] \/ (y.curr = x.curr /\ y.ix <= x.ix)

\* The objects before nextswap are announced, those from there up to the one that
\* is looked at are not.
SwapAt(m, P, pos, x, y, A) ==
  /\ AtEnd(y) => AtEnd(x)
  /\ ~AtEnd(y) => In(m, P, "retired", y)
  /\ ~AtEnd(x) => In(m, P, "retired", x) /\ NotAfter(pos, y, x)
  /\ \A b \in Blocks : P[b] = "retired" =>
       \A i \in 1 .. Len(m.data[b]) :
         /\ Before(pos, b, i, y) => m.data[b][i] \in A
         /\ Before(pos, b, i, x) /\ ~Before(pos, b, i, y) => m.data[b][i] \notin A
  /\ IsFiniteSet(A)

Control ==
  /\ scheme \in {"debra", "debraplus", "filter", "unpooled"}
  /\ held \subseteq Objects
  /\ announced \subseteq Objects
  /\ pc \in {"idle", "give", "clear", "filter", "swap", "moveAll", "giveLast", "clearLast",
             "deleteBag", "drainShared", "clearFree", "deletePool", "destroyed"}
  /\ it \in Iterators /\ nextswap \in Iterators
  /\ Alive("retired") <=> pc \notin {"drainShared", "clearFree", "deletePool", "destroyed"}
  /\ Alive("free") <=> Pooled /\ pc \notin {"deletePool", "destroyed"}
  /\ Pooled => pc \notin {"clear", "clearLast"}
  /\ ~Pooled => shared = {} /\ pc \in {"idle", "clear", "clearLast", "deleteBag", "deletePool", "destroyed"}
  /\ pc \in {"clearFree", "deletePool", "destroyed"} => shared = {}
  /\ pc = "destroyed" => mem.pool = <<>>
  /\ pc \notin {"filter", "swap"} => announced = {}

Layout(P, pos) ==
  /\ Shape(mem, shared, P, pos)
  /\ Distinct(mem, P, NULL, 0)
  /\ HeldOut(mem, P, held)
  /\ pc = "filter" => Filtered(mem, P, pos, it, announced)
  /\ pc = "swap" => SwapAt(mem, P, pos, it, nextswap, announced)
  /\ pc \in {"giveLast", "deleteBag"} => BagIsEmpty(mem, P, pos, "retired")

Inv == Control /\ \E P, pos : Layout(P, pos)

\* The step is one of the pool of objects.
Simulates == [Recycling!PoolNext]_(Recycling!poolVars)

RetiredOf(m) == IF m.head["retired"] # NULL THEN Contents(m, "retired") ELSE {}
ReadyOf(m, sh) == (IF m.head["free"] # NULL THEN Contents(m, "free") ELSE {}) \cup ObjectsIn(m, sh)

\* The members of the bags, by the places of the blocks.
LEMMA ReadyIs ==
  ASSUME NEW m, NEW sh, NEW P, NEW pos, Shape(m, sh, P, pos)
  PROVE  \A u : /\ u \in RetiredOf(m) <=> Has(m, P, {"retired"}, u)
                /\ u \in ReadyOf(m, sh) <=> Has(m, P, Ready, u)
<1>1. ShapeParts(m, sh, P, pos)
  BY ShapeIs
<1>2. "retired" \in Bags /\ "free" \in Bags
  BY BagsAssumption
<1>3. \A k \in Bags : m.head[k] # NULL =>
        \A u : u \in Contents(m, k) <=> \E b \in Blocks : P[b] = k /\ Holds(m, b, u)
  BY ContentsIs
<1>4. \A k \in Bags : m.head[k] = NULL => \A b \in Blocks : P[b] # k
  BY <1>1 DEF ShapeParts, Lists
<1>5. \A u : u \in ObjectsIn(m, sh) <=> \E b \in sh : Holds(m, b, u)
  BY <1>1, ObjectsAre DEF ShapeParts
<1>6. \A b \in Blocks : b \in sh <=> P[b] = "shared"
  BY <1>1 DEF ShapeParts, InShared
<1>7. sh \subseteq Blocks
  BY <1>1 DEF ShapeParts
<1> SUFFICES ASSUME NEW u
             PROVE  /\ u \in RetiredOf(m) <=> Has(m, P, {"retired"}, u)
                    /\ u \in ReadyOf(m, sh) <=> Has(m, P, Ready, u)
  OBVIOUS
<1>8. u \in RetiredOf(m) <=> \E b \in Blocks : P[b] = "retired" /\ Holds(m, b, u)
  BY <1>2, <1>3, <1>4 DEF RetiredOf
<1>9. u \in (IF m.head["free"] # NULL THEN Contents(m, "free") ELSE {})
        <=> \E b \in Blocks : P[b] = "free" /\ Holds(m, b, u)
  BY <1>2, <1>3, <1>4
<1>10. u \in ObjectsIn(m, sh) <=> \E b \in Blocks : P[b] = "shared" /\ Holds(m, b, u)
  BY <1>5, <1>6, <1>7
<1> QED
  BY <1>8, <1>9, <1>10 DEF ReadyOf, Has, Ready

\* The bags of the pool specification in this state ...
LEMMA NowIs ==
  /\ InBag("retired") = RetiredOf(mem)
  /\ InBag("free") \cup ObjectsIn(mem, shared) = ReadyOf(mem, shared)
BY DEF InBag, Alive, RetiredOf, ReadyOf

\* ... and in the next one.
LEMMA ThenIs ==
  /\ InBag("retired")' = RetiredOf(mem')
  /\ (InBag("free") \cup ObjectsIn(mem, shared))' = ReadyOf(mem', shared')
BY DEF InBag, Alive, RetiredOf, ReadyOf

\* The objects that no bag and no caller has.
LEMMA UnallocatedIs ==
  Unallocated = Objects \ (held \cup RetiredOf(mem) \cup ReadyOf(mem, shared))
BY DEF Unallocated, InBag, Alive, RetiredOf, ReadyOf

\* o has been removed from bag k, of the objects he that were out of the bags.
Taken(m, w, P, Q, k, he, o) ==
  /\ Distinct(w, Q, NULL, 0) /\ HeldOut(w, Q, he \cup {o}) /\ o \in Objects
  /\ w.head[k] # NULL /\ \A j \in Bags : j # k => w.head[j] = m.head[j]
  /\ \A K \in Kinds : /\ k \in K => Loses(m, P, w, Q, K, o) /\ Has(m, P, K, o)
                      /\ k \notin K => Keeps(m, P, w, Q, K)

\* remove, for the invariant.
LEMMA TakeIs ==
  ASSUME NEW m, NEW sh, NEW P, NEW pos, Shape(m, sh, P, pos), NEW k \in Bags, m.head[k] # NULL,
         ~IsEmpty(m, k), NEW he, Distinct(m, P, NULL, 0), HeldOut(m, P, he)
  PROVE  \E Q : /\ Shape(BagRemove(m, k), sh, Q, pos)
                /\ Taken(m, BagRemove(m, k), P, Q, k, he, Removed(m, k))
<1>1. PICK g : g = TopOf(m, k)
  OBVIOUS
<1>2. PICK w : w = BagRemove(m, k)
  OBVIOUS
<1>3. PICK Q : Shape(w, sh, Q, pos) /\ HeadLeft(m, P, Q, k)
  BY <1>2, RemoveIs
<1>4. Top(m, P, pos, k, g) /\ Removed(m, k) = Last(m.data[g]) /\ Popped(m, w, k, g)
  BY <1>1, <1>2, RemoveIs
<1>5. PICK o : o = Last(m.data[g])
  OBVIOUS
<1>6. Sub(m, P, w, Q) /\ Absent(w, Q, NULL, 0, o) /\ o \in Objects
  BY ONLY <1>3, <1>4, <1>5, RemoveKeeps, Shape(m, sh, P, pos), k \in Bags, Distinct(m, P, NULL, 0)
<1>7. Distinct(w, Q, NULL, 0)
  BY <1>6, SubDistinct
<1>8. HeldOut(w, Q, he \cup {o})
  <2>1. \A u \in he : Absent(w, Q, NULL, 0, u)
    BY <1>6, SubAbsent DEF HeldOut
  <2> QED
    BY <1>6, <2>1 DEF HeldOut
<1>9. \A K \in Kinds : /\ k \in K => Loses(m, P, w, Q, K, o) /\ Has(m, P, K, o)
                       /\ k \notin K => Keeps(m, P, w, Q, K)
  BY ONLY <1>3, <1>4, <1>5, RemoveEffect, Shape(m, sh, P, pos), k \in Bags, Distinct(m, P, NULL, 0)
<1>10. w.head[k] # NULL /\ \A j \in Bags : j # k => w.head[j] = m.head[j]
  BY <1>4 DEF Popped
<1>11. Taken(m, w, P, Q, k, he, o)
  BY <1>6, <1>7, <1>8, <1>9, <1>10 DEF Taken
<1> QED
  BY <1>2, <1>3, <1>4, <1>5, <1>11

\* The two kinds of places, and the bags among them.
LEMMA KindsAre ==
  /\ {"retired"} \in Kinds /\ Ready \in Kinds
  /\ "retired" \in {"retired"} /\ "free" \notin {"retired"} /\ "free" \in Ready /\ "retired" \notin Ready
  /\ "retired" \in Bags /\ "free" \in Bags
BY BagsAssumption DEF Kinds, Ready

-----------------------------------------------------------------------------
\* get

\* get takes o from the pool, after new objects came into it.
LEMMA TakenStep ==
  ASSUME Inv, pc = "idle", Pooled, UNCHANGED <<scheme, announced, pc, it, nextswap>>,
         NEW o \in Objects, held' = held \cup {o},
         NEW Q, NEW qos, Shape(mem', shared', Q, qos), Distinct(mem', Q, NULL, 0), HeldOut(mem', Q, held'),
         Alive("free")', mem'.head["retired"] = mem.head["retired"],
         NEW P, NEW pos, Layout(P, pos), NEW new, new \in SUBSET Unallocated,
         o \in new \/ Has(mem, P, Ready, o), Keeps(mem, P, mem', Q, {"retired"}),
         \A u : Has(mem', Q, Ready, u) <=> (Has(mem, P, Ready, u) \/ u \in new) /\ u # o
  PROVE  Inv' /\ Simulates
<1>1. Control'
  BY DEF Inv, Control, Alive, Pooled
<1>2. Layout(Q, qos)'
  BY DEF Layout
<1>3. Inv'
  BY <1>1, <1>2 DEF Inv
<1>4. Shape(mem, shared, P, pos)
  BY DEF Layout
<1>5. PICK R : R = RetiredOf(mem)
  OBVIOUS
<1>6. PICK A : A = ReadyOf(mem, shared)
  OBVIOUS
<1>7. PICK S : S = RetiredOf(mem')
  OBVIOUS
<1>8. PICK B : B = ReadyOf(mem', shared')
  OBVIOUS
<1>9. \A u : (u \in R <=> Has(mem, P, {"retired"}, u)) /\ (u \in A <=> Has(mem, P, Ready, u))
  BY <1>4, <1>5, <1>6, ReadyIs
<1>10. \A u : (u \in S <=> Has(mem', Q, {"retired"}, u)) /\ (u \in B <=> Has(mem', Q, Ready, u))
  BY <1>7, <1>8, ReadyIs
<1>11. \A u : (u \in S <=> u \in R) /\ (u \in B <=> (u \in A \/ u \in new) /\ u # o)
  BY <1>9, <1>10 DEF Keeps
<1>12. S = R /\ B = (A \cup new) \ {o} /\ o \in A \cup new
  <2>1. S = R
    <3>1. S = {u \in S : TRUE} /\ R = {u \in R : TRUE}
      BY <1>5, <1>7
    <3> QED
      BY <1>11, <3>1
  <2>2. B = (A \cup new) \ {o}
    BY <1>11
  <2> QED
    BY <1>9, <2>1, <2>2
<1>13. new \in SUBSET (Objects \ (held \cup R \cup A))
  BY <1>5, <1>6, UnallocatedIs
<1>14. Recycling!GetObject
  BY <1>5, <1>6, <1>7, <1>8, <1>12, <1>13, NowIs, ThenIs DEF Recycling!GetObject
<1> QED
  BY <1>3, <1>14 DEF Simulates, Recycling!PoolNext

-----------------------------------------------------------------------------
\* Steps of the pool of objects, from what they do to the bags.

\* The values of the pool's variables before and after a step.
Pools(P, Q, R, A, S, B) ==
  /\ R = InBag("retired") /\ A = InBag("free") \cup ObjectsIn(mem, shared)
  /\ S = InBag("retired")' /\ B = (InBag("free") \cup ObjectsIn(mem, shared))'
  /\ \A u : (u \in R <=> Has(mem, P, {"retired"}, u)) /\ (u \in A <=> Has(mem, P, Ready, u))
  /\ \A u : (u \in S <=> Has(mem', Q, {"retired"}, u)) /\ (u \in B <=> Has(mem', Q, Ready, u))

\* There are such values.
LEMMA PoolsAre ==
  ASSUME NEW P, NEW pos, NEW Q, NEW qos, Shape(mem, shared, P, pos), Shape(mem', shared', Q, qos)
  PROVE  \E R, A, S, B : Pools(P, Q, R, A, S, B)
<1>1. PICK R : R = RetiredOf(mem)
  OBVIOUS
<1>2. PICK A : A = ReadyOf(mem, shared)
  OBVIOUS
<1>3. PICK S : S = RetiredOf(mem')
  OBVIOUS
<1>4. PICK B : B = ReadyOf(mem', shared')
  OBVIOUS
<1>5. \A u : (u \in R <=> Has(mem, P, {"retired"}, u)) /\ (u \in A <=> Has(mem, P, Ready, u))
  BY <1>1, <1>2, ReadyIs
<1>6. \A u : (u \in S <=> Has(mem', Q, {"retired"}, u)) /\ (u \in B <=> Has(mem', Q, Ready, u))
  BY <1>3, <1>4, ReadyIs
<1>7. R = InBag("retired") /\ A = InBag("free") \cup ObjectsIn(mem, shared)
  BY <1>1, <1>2, NowIs
<1>8. S = InBag("retired")' /\ B = (InBag("free") \cup ObjectsIn(mem, shared))'
  BY <1>3, <1>4, ThenIs
<1> QED
  BY <1>5, <1>6, <1>7, <1>8 DEF Pools

\* Sets with the same members are equal.
LEMMA SameSet ==
  ASSUME NEW S, NEW R, \A u : u \in S <=> u \in R
  PROVE  S = R
OBVIOUS

\* The objects s become available.
LEMMA ReclaimStep ==
  ASSUME NEW P, NEW pos, NEW Q, NEW qos, Shape(mem, shared, P, pos), Shape(mem', shared', Q, qos),
         held' = held, announced' \in {announced, {}}, NEW s,
         \A u : /\ Has(mem', Q, Ready, u) <=> Has(mem, P, Ready, u) \/ u \in s
                /\ Has(mem', Q, {"retired"}, u) <=> Has(mem, P, {"retired"}, u) /\ u \notin s
                /\ u \in s => Has(mem, P, {"retired"}, u) /\ u \notin announced
  PROVE  Simulates
<1>1. PICK R, A, S, B : Pools(P, Q, R, A, S, B)
  BY PoolsAre
<1>2. s \in SUBSET (R \ announced)
  BY <1>1 DEF Pools
<1>3. S = R \ s
  <2>1. \A u : u \in S <=> u \in R /\ u \notin s
    BY <1>1 DEF Pools
  <2> QED
    BY <2>1
<1>4. B = A \cup s
  <2>1. \A u : u \in B <=> u \in A \/ u \in s
    BY <1>1 DEF Pools
  <2> QED
    BY <2>1
<1>5. Recycling!Reclaim
  BY <1>1, <1>2, <1>3, <1>4 DEF Pools, Recycling!Reclaim
<1> QED
  BY <1>5 DEF Simulates, Recycling!PoolNext

\* No object moves.
LEMMA StillStep ==
  ASSUME NEW P, NEW pos, NEW Q, NEW qos, Shape(mem, shared, P, pos), Shape(mem', shared', Q, qos),
         held' = held, announced' \in {announced, {}}, \A K \in Kinds : Keeps(mem, P, mem', Q, K)
  PROVE  Simulates
<1>1. \A u : /\ Has(mem', Q, Ready, u) <=> Has(mem, P, Ready, u) \/ u \in {}
             /\ Has(mem', Q, {"retired"}, u) <=> Has(mem, P, {"retired"}, u) /\ u \notin {}
             /\ u \in {} => Has(mem, P, {"retired"}, u) /\ u \notin announced
  BY KindsAre DEF Keeps
<1> QED
  BY <1>1, ReclaimStep

\* The objects s go back to the allocator.
LEMMA DiscardStep ==
  ASSUME NEW P, NEW pos, NEW Q, NEW qos, Shape(mem, shared, P, pos), Shape(mem', shared', Q, qos),
         held' = held, announced = {}, announced' = {}, NEW s,
         \A u : /\ Has(mem', Q, Ready, u) <=> Has(mem, P, Ready, u) /\ u \notin s
                /\ Has(mem', Q, {"retired"}, u) <=> Has(mem, P, {"retired"}, u) /\ u \notin s
                /\ u \in s => Has(mem, P, {"retired"}, u) \/ Has(mem, P, Ready, u)
  PROVE  Simulates
<1>1. PICK R, A, S, B : Pools(P, Q, R, A, S, B)
  BY PoolsAre
<1>2. s \in SUBSET (R \cup A)
  BY <1>1 DEF Pools
<1>3. S = R \ s
  <2>1. \A u : u \in S <=> u \in R /\ u \notin s
    BY <1>1 DEF Pools
  <2> QED
    BY <2>1
<1>4. B = A \ s
  <2>1. \A u : u \in B <=> u \in A /\ u \notin s
    BY <1>1 DEF Pools
  <2> QED
    BY <2>1
<1>5. Recycling!Discard
  BY <1>1, <1>2, <1>3, <1>4 DEF Pools, Recycling!Discard
<1> QED
  BY <1>5 DEF Simulates, Recycling!PoolNext

\* The program gives o back; the pool keeps it or not.
LEMMA PutStep ==
  ASSUME NEW P, NEW pos, NEW Q, NEW qos, Shape(mem, shared, P, pos), Shape(mem', shared', Q, qos),
         NEW o \in held, held' = held \ {o}, announced' = announced,
         Keeps(mem, P, mem', Q, {"retired"}),
         Gets(mem, P, mem', Q, Ready, o) \/ Keeps(mem, P, mem', Q, Ready)
  PROVE  Simulates
<1>1. PICK R, A, S, B : Pools(P, Q, R, A, S, B)
  BY PoolsAre
<1>2. S = R
  <2>1. \A u : u \in S <=> u \in R
    BY <1>1 DEF Pools, Keeps
  <2> QED
    BY <2>1, SameSet
<1>3. B = A \/ B = A \cup {o}
  <2>1. (\A u : u \in B <=> u \in A) \/ (\A u : u \in B <=> u \in A \/ u = o)
    BY <1>1 DEF Pools, Gets, Keeps
  <2> QED
    BY <2>1, SameSet
<1>4. Recycling!PutObject
  BY <1>1, <1>2, <1>3 DEF Pools, Recycling!PutObject
<1> QED
  BY <1>4 DEF Simulates, Recycling!PoolNext

\* The program retires o.
LEMMA RetireStep ==
  ASSUME NEW P, NEW pos, NEW Q, NEW qos, Shape(mem, shared, P, pos), Shape(mem', shared', Q, qos),
         NEW o \in held, held' = held \ {o}, announced' = announced,
         Gets(mem, P, mem', Q, {"retired"}, o), Keeps(mem, P, mem', Q, Ready)
  PROVE  Simulates
<1>1. PICK R, A, S, B : Pools(P, Q, R, A, S, B)
  BY PoolsAre
<1>2. B = A
  <2>1. \A u : u \in B <=> u \in A
    BY <1>1 DEF Pools, Keeps
  <2> QED
    BY <2>1, SameSet
<1>3. S = R \cup {o}
  <2>1. \A u : u \in S <=> u \in R \/ u = o
    BY <1>1 DEF Pools, Gets
  <2> QED
    BY <2>1
<1>4. Recycling!RetireObject
  BY <1>1, <1>2, <1>3 DEF Pools, Recycling!RetireObject
<1> QED
  BY <1>4 DEF Simulates, Recycling!PoolNext

\* The bags are not touched.
LEMMA AnnounceStep ==
  ASSUME mem' = mem, shared' = shared, held' = held, announced' \in SUBSET InBag("retired")
  PROVE  Simulates
<1>1. InBag("retired")' = InBag("retired")
  BY NowIs, ThenIs
<1>2. (InBag("free") \cup ObjectsIn(mem, shared))' = InBag("free") \cup ObjectsIn(mem, shared)
  BY NowIs, ThenIs
<1>3. Recycling!Announcements
  BY <1>1, <1>2 DEF Recycling!Announcements
<1> QED
  BY <1>3 DEF Simulates, Recycling!PoolNext

-----------------------------------------------------------------------------
\* get, add and retire keep the invariant and are steps of the pool.

\* The parts of Layout that do not depend on pc.
LEMMA PlacesAre ==
  ASSUME NEW P, NEW pos, Layout(P, pos)
  PROVE  Shape(mem, shared, P, pos) /\ Distinct(mem, P, NULL, 0) /\ HeldOut(mem, P, held)
BY DEF Layout

\* get from the bag of the thread.
LEMMA GetOwnInv ==
  ASSUME Inv, pc = "idle", Pooled, UNCHANGED <<scheme, announced, pc, it, nextswap>>, GetOwn
  PROVE  Inv' /\ Simulates
<1>1. PICK P, pos : Layout(P, pos)
  BY DEF Inv
<1>2. Shape(mem, shared, P, pos) /\ Distinct(mem, P, NULL, 0) /\ HeldOut(mem, P, held)
  BY <1>1, PlacesAre
<1>3. mem.head["free"] # NULL
  BY DEF Inv, Control, Alive
<1>4. PICK o : o = Removed(mem, "free")
  OBVIOUS
<1>5. ~IsEmpty(mem, "free") /\ held' = held \cup {o} /\ mem' = BagRemove(mem, "free") /\ shared' = shared
  BY <1>4 DEF GetOwn, TakeFrom
<1>6. PICK Q : Shape(mem', shared', Q, pos) /\ Taken(mem, mem', P, Q, "free", held, o)
  BY <1>2, <1>3, <1>4, <1>5, TakeIs, KindsAre
<1>7. /\ Distinct(mem', Q, NULL, 0) /\ HeldOut(mem', Q, held') /\ o \in Objects
      /\ mem'.head["free"] # NULL /\ mem'.head["retired"] = mem.head["retired"]
  BY <1>5, <1>6, KindsAre DEF Taken
<1>8. Has(mem, P, Ready, o) /\ Loses(mem, P, mem', Q, Ready, o) /\ Keeps(mem, P, mem', Q, {"retired"})
  BY <1>6, KindsAre DEF Taken
<1>9. Alive("free")'
  BY <1>7 DEF Alive
<1>10. \A u : Has(mem', Q, Ready, u) <=> (Has(mem, P, Ready, u) \/ u \in {}) /\ u # o
  BY <1>8 DEF Loses
<1>11. {} \in SUBSET Unallocated
  OBVIOUS
<1> QED
  BY <1>1, <1>5, <1>6, <1>7, <1>8, <1>9, <1>10, <1>11, TakenStep

\* get from a block of the shared bag.
LEMMA GetSharedInv ==
  ASSUME Inv, pc = "idle", Pooled, UNCHANGED <<scheme, announced, pc, it, nextswap>>, GetShared
  PROVE  Inv' /\ Simulates
<1>1. PICK P, pos : Layout(P, pos)
  BY DEF Inv
<1>2. Shape(mem, shared, P, pos) /\ Distinct(mem, P, NULL, 0) /\ HeldOut(mem, P, held)
  BY <1>1, PlacesAre
<1>3. mem.head["free"] # NULL
  BY DEF Inv, Control, Alive
<1>4. PICK x \in shared : TakeFrom(AddFullBlock(mem, "free", x)) /\ shared' = shared \ {x}
  BY DEF GetShared
<1>5. PICK a : a = AddFullBlock(mem, "free", x)
  OBVIOUS
<1>6. PICK R, ros : Shape(a, shared', R, ros) /\ BlockCame(mem, a, P, R, "free", x)
  BY <1>2, <1>3, <1>4, <1>5, AddFullIs, KindsAre
<1>7. PICK o : o = Removed(a, "free")
  OBVIOUS
<1>8. held' = held \cup {o} /\ mem' = BagRemove(a, "free")
  BY <1>4, <1>5, <1>7 DEF TakeFrom
<1>9. x \in Blocks /\ R[x] = "free" /\ a.head = mem.head /\ a.data = mem.data
  BY <1>2, <1>4, <1>6, ShapeIs DEF BlockCame, ShapeParts
<1>10. Len(mem.data[x]) = BLOCK_SIZE
  BY <1>2, <1>4, <1>9, ShapeIs DEF ShapeParts, InShared
<1>11. a.data[x] # <<>>
  BY <1>9, <1>10, BlockSizeAssumption
<1>12. ~IsEmpty(a, "free")
  BY <1>3, <1>6, <1>9, <1>11, NonEmptyIs, KindsAre
<1>13. \A b \in Blocks : R[b] # "none" => P[b] # "none"
  BY <1>6 DEF BlockCame
<1>14. Sub(mem, P, a, R)
  BY <1>9, <1>13, DataSub
<1>15. Distinct(a, R, NULL, 0) /\ HeldOut(a, R, held)
  BY <1>2, <1>14, SubDistinct, SubAbsent DEF HeldOut
<1>16. PICK Q : Shape(mem', shared', Q, ros) /\ Taken(a, mem', R, Q, "free", held, o)
  BY <1>3, <1>6, <1>7, <1>8, <1>9, <1>12, <1>15, TakeIs, KindsAre
<1>17. /\ Distinct(mem', Q, NULL, 0) /\ HeldOut(mem', Q, held') /\ o \in Objects
       /\ mem'.head["free"] # NULL /\ mem'.head["retired"] = mem.head["retired"]
  BY <1>8, <1>9, <1>16, KindsAre DEF Taken
<1>18. Has(a, R, Ready, o) /\ Loses(a, R, mem', Q, Ready, o) /\ Keeps(a, R, mem', Q, {"retired"})
  BY <1>16, KindsAre DEF Taken
<1>19. \A b \in Blocks : /\ R[b] \in Ready <=> P[b] \in Ready
                         /\ R[b] \in {"retired"} <=> P[b] \in {"retired"}
  BY <1>6 DEF BlockCame, Ready
<1>20. Keeps(mem, P, a, R, Ready)
  BY <1>9, <1>19, DataKeeps
<1>21. Keeps(mem, P, a, R, {"retired"})
  BY <1>9, <1>19, DataKeeps
<1>22. Has(mem, P, Ready, o) /\ Keeps(mem, P, mem', Q, {"retired"})
  BY <1>18, <1>20, <1>21 DEF Keeps
<1>23. \A u : Has(mem', Q, Ready, u) <=> (Has(mem, P, Ready, u) \/ u \in {}) /\ u # o
  BY <1>18, <1>20 DEF Loses, Keeps
<1>24. {} \in SUBSET Unallocated
  OBVIOUS
<1>25. Alive("free")'
  BY <1>17 DEF Alive
<1> QED
  BY <1>1, <1>8, <1>16, <1>17, <1>22, <1>23, <1>24, <1>25, TakenStep

\* get from a block of new objects.
LEMMA GetNewInv ==
  ASSUME Inv, pc = "idle", Pooled, UNCHANGED <<scheme, announced, pc, it, nextswap>>, GetNew
  PROVE  Inv' /\ Simulates
<1>1. PICK P, pos : Layout(P, pos)
  BY DEF Inv
<1>2. Shape(mem, shared, P, pos) /\ Distinct(mem, P, NULL, 0) /\ HeldOut(mem, P, held)
  BY <1>1, PlacesAre
<1>3. mem.head["free"] # NULL
  BY DEF Inv, Control, Alive
<1>4. PICK new \in [1 .. BLOCK_SIZE -> Unallocated] :
        IsInjective(new) /\ TakeFrom(BagAddBlock(mem, "free", new))
  BY DEF GetNew
<1>5. PICK a : a = BagAddBlock(mem, "free", new)
  OBVIOUS
<1>6. PICK o : o = Removed(a, "free")
  OBVIOUS
<1>7. /\ held' = held \cup {o} /\ mem' = BagRemove(a, "free") /\ shared' = shared
      /\ HeadIsEmpty(mem, "free") /\ CanAllocate(mem)
  BY <1>4, <1>5, <1>6 DEF TakeFrom, GetNew, IsEmpty
<1>8. new \in [1 .. BLOCK_SIZE -> Objects]
  BY <1>4, UnallocatedIs
<1>9. \A i \in 1 .. BLOCK_SIZE : new[i] \in Objects /\ new[i] \notin held /\ Absent(mem, P, NULL, 0, new[i])
  <2> SUFFICES ASSUME NEW i \in 1 .. BLOCK_SIZE
               PROVE  new[i] \in Objects /\ new[i] \notin held /\ Absent(mem, P, NULL, 0, new[i])
    OBVIOUS
  <2>1. new[i] \in Objects /\ new[i] \notin held /\ new[i] \notin RetiredOf(mem) /\ new[i] \notin ReadyOf(mem, shared)
    BY <1>4, UnallocatedIs
  <2>2. ~Has(mem, P, {"retired"}, new[i]) /\ ~Has(mem, P, Ready, new[i])
    BY <1>2, <2>1, ReadyIs
  <2> QED
    BY <1>2, <2>1, <2>2, AbsentIs
<1>10. PICK R, ros : Shape(a, shared, R, ros) /\ BlockAdded(mem, a, P, R, pos, ros, "free", new)
  BY <1>2, <1>3, <1>4, <1>5, <1>7, <1>8, <1>9, AddBlockIs, KindsAre
<1>11. Distinct(a, R, NULL, 0) /\ a.head["free"] # NULL /\ ~IsEmpty(a, "free")
  BY <1>10 DEF BlockAdded
<1>12. HeldOut(a, R, held)
  <2>1. \A u \in held : \A i \in 1 .. BLOCK_SIZE : new[i] # u
    BY <1>9
  <2> QED
    BY <1>2, <1>10, <2>1 DEF BlockAdded, HeldOut
<1>13. a.head["retired"] = mem.head["retired"]
  BY <1>10, KindsAre DEF BlockAdded, SameBag
<1>14. PICK Q : Shape(mem', shared', Q, ros) /\ Taken(a, mem', R, Q, "free", held, o)
  BY <1>6, <1>7, <1>10, <1>11, <1>12, TakeIs, KindsAre
<1>15. /\ Distinct(mem', Q, NULL, 0) /\ HeldOut(mem', Q, held') /\ o \in Objects
       /\ mem'.head["free"] # NULL /\ mem'.head["retired"] = mem.head["retired"]
  BY <1>7, <1>13, <1>14, KindsAre DEF Taken
<1>16. Has(a, R, Ready, o) /\ Loses(a, R, mem', Q, Ready, o) /\ Keeps(a, R, mem', Q, {"retired"})
  BY <1>14, KindsAre DEF Taken
<1>17. PICK N : N = {new[i] : i \in 1 .. BLOCK_SIZE}
  OBVIOUS
<1>18. N \in SUBSET Unallocated
  BY <1>4, <1>17
<1>19. \A u : /\ Has(a, R, Ready, u) <=> Has(mem, P, Ready, u) \/ u \in N
              /\ Has(a, R, {"retired"}, u) <=> Has(mem, P, {"retired"}, u)
  BY <1>10, <1>17, KindsAre DEF BlockAdded
<1>20. Keeps(mem, P, mem', Q, {"retired"}) /\ (o \in N \/ Has(mem, P, Ready, o))
  BY <1>16, <1>19 DEF Keeps
<1>21. \A u : Has(mem', Q, Ready, u) <=> (Has(mem, P, Ready, u) \/ u \in N) /\ u # o
  BY <1>16, <1>19 DEF Loses
<1>22. Alive("free")'
  BY <1>15 DEF Alive
<1> QED
  BY <1>1, <1>7, <1>14, <1>15, <1>18, <1>20, <1>21, <1>22, TakenStep

\* A new object that no pool keeps.
LEMMA GetUnpooledInv ==
  ASSUME Inv, pc = "idle", ~Pooled, UNCHANGED <<scheme, announced, pc, it, nextswap>>, GetUnpooled
  PROVE  Inv' /\ Simulates
<1>1. PICK P, pos : Layout(P, pos)
  BY DEF Inv
<1>2. Shape(mem, shared, P, pos) /\ Distinct(mem, P, NULL, 0) /\ HeldOut(mem, P, held)
  BY <1>1, PlacesAre
<1>3. PICK o \in Unallocated : held' = held \cup {o}
  BY DEF GetUnpooled
<1>4. mem' = mem /\ shared' = shared
  BY DEF GetUnpooled
<1>5. o \in Objects /\ o \notin held /\ o \notin RetiredOf(mem) /\ o \notin ReadyOf(mem, shared)
  BY <1>3, UnallocatedIs
<1>6. ~Has(mem, P, {"retired"}, o) /\ ~Has(mem, P, Ready, o)
  BY <1>2, <1>5, ReadyIs
<1>7. Absent(mem, P, NULL, 0, o)
  BY <1>2, <1>6, AbsentIs
<1>8. HeldOut(mem, P, held')
  BY <1>2, <1>3, <1>7 DEF HeldOut
<1>9. Control'
  BY <1>3, <1>4, <1>5 DEF Inv, Control, Alive, Pooled
<1>10. Layout(P, pos)'
  BY <1>1, <1>4, <1>8 DEF Layout
<1>11. Recycling!GetObject
  <2>1. PICK R : R = RetiredOf(mem)
    OBVIOUS
  <2>2. PICK A : A = ReadyOf(mem, shared)
    OBVIOUS
  <2>3. R = InBag("retired") /\ A = InBag("free") \cup ObjectsIn(mem, shared)
    BY <2>1, <2>2, NowIs
  <2>4. R = InBag("retired")' /\ A = (InBag("free") \cup ObjectsIn(mem, shared))'
    BY <1>4, <2>1, <2>2, ThenIs
  <2>5. {o} \in SUBSET (Objects \ (held \cup R \cup A)) /\ o \in A \cup {o} /\ A = (A \cup {o}) \ {o}
    BY <1>5, <2>1, <2>2
  <2> QED
    BY <1>3, <2>3, <2>4, <2>5 DEF Recycling!GetObject
<1> QED
  BY <1>9, <1>10, <1>11 DEF Inv, Simulates, Recycling!PoolNext

\* get of any scheme.
LEMMA GetInv ==
  ASSUME Inv, Get
  PROVE  Inv' /\ Simulates
<1>1. pc = "idle" /\ UNCHANGED <<scheme, announced, pc, it, nextswap>>
  BY DEF Get
<1>2. CASE Pooled
  BY <1>1, <1>2, GetOwnInv, GetSharedInv, GetNewInv DEF Get
<1>3. CASE ~Pooled
  BY <1>1, <1>3, GetUnpooledInv DEF Get
<1> QED
  BY <1>2, <1>3

\* Where no iterator is at work and the bag retired need not be empty.
LEMMA QuietLayout ==
  ASSUME NEW Q, NEW qos, Shape(mem', shared', Q, qos), Distinct(mem', Q, NULL, 0), HeldOut(mem', Q, held'),
         pc' \notin {"filter", "swap", "giveLast", "deleteBag"}
  PROVE  Layout(Q, qos)'
BY DEF Layout

\* An object that moves into a slot of the bags was not in them.
LEMMA IntoBag ==
  ASSUME NEW m, NEW P, NEW w, NEW Q, NEW h, NEW o, NEW he, o \in he,
         Distinct(m, P, NULL, 0), HeldOut(m, P, he), Gains(m, P, w, Q, h, o)
  PROVE  Distinct(w, Q, NULL, 0) /\ HeldOut(w, Q, he \ {o})
<1>1. Absent(m, P, NULL, 0, o)
  BY DEF HeldOut
<1>2. Distinct(w, Q, NULL, 0)
  BY <1>1, GainsDistinct
<1>3. ASSUME NEW u \in he \ {o} PROVE Absent(w, Q, NULL, 0, u)
  <2>1. Absent(m, P, NULL, 0, u) /\ o # u
    BY <1>3 DEF HeldOut
  <2> QED
    BY <2>1, GainsAbsent
<1> QED
  BY <1>2, <1>3 DEF HeldOut

\* The program gives an object back to the pool.
LEMMA PutInv ==
  ASSUME Inv, NEW o \in Objects, Put(o)
  PROVE  Inv' /\ Simulates
<1>1. PICK P, pos : Layout(P, pos)
  BY DEF Inv
<1>2. Shape(mem, shared, P, pos) /\ Distinct(mem, P, NULL, 0) /\ HeldOut(mem, P, held)
  BY <1>1, PlacesAre
<1>3. o \in held /\ held' = held \ {o} /\ pc = "idle" /\ UNCHANGED <<scheme, announced, pc, it, nextswap>>
  BY DEF Put
<1>4. CASE Pooled
  <2>1. mem.head["free"] # NULL
    BY <1>3, <1>4 DEF Inv, Control, Alive
  <2>2. mem' = PoolAdd(mem, o).mem /\ shared' = shared \cup PoolAdd(mem, o).given /\ CanAdd(mem, "free")
    BY <1>4 DEF Put
  <2>3. PICK Q, qos : Shape(mem', shared', Q, qos) /\ AddedToPool(mem, mem', P, Q, pos, qos, o)
    BY <1>2, <2>1, <2>2, PoolAddIs
  <2>4. Distinct(mem', Q, NULL, 0) /\ HeldOut(mem', Q, held')
    BY <1>2, <1>3, <2>3, IntoBag DEF AddedToPool
  <2>5. mem'.head["free"] # NULL /\ mem'.head["retired"] = mem.head["retired"]
    BY <2>3 DEF AddedToPool, SameBag
  <2>6. Control'
    BY <1>3, <1>4, <2>1, <2>5 DEF Inv, Control, Alive, Pooled
  <2>7. Layout(Q, qos)'
    BY <1>3, <2>3, <2>4, QuietLayout
  <2>8. Simulates
    BY <1>2, <1>3, <2>3, PutStep DEF AddedToPool
  <2> QED
    BY <2>6, <2>7, <2>8 DEF Inv
<1>5. CASE ~Pooled
  <2>1. mem' = mem /\ shared' = shared
    BY <1>5 DEF Put
  <2>2. Control'
    BY <1>3, <2>1 DEF Inv, Control, Alive, Pooled
  <2>3. HeldOut(mem, P, held')
    BY <1>2, <1>3 DEF HeldOut
  <2>4. Layout(P, pos)'
    BY <1>2, <1>3, <2>1, <2>3, QuietLayout
  <2>5. Keeps(mem, P, mem', P, {"retired"}) /\ Keeps(mem, P, mem', P, Ready)
    BY <2>1 DEF Keeps
  <2>6. Simulates
    BY <1>2, <1>3, <2>1, <2>5, PutStep
  <2> QED
    BY <2>2, <2>4, <2>6 DEF Inv
<1> QED
  BY <1>4, <1>5

\* The bag that an object is added to keeps a head block.
LEMMA AddedAlive ==
  ASSUME NEW m, NEW sh, NEW P, NEW pos, Shape(m, sh, P, pos), NEW k \in Bags, m.head[k] # NULL,
         NEW w, NEW sg, NEW Q, NEW qos, Shape(w, sg, Q, qos), NEW o, Added(m, w, P, Q, pos, qos, k, o)
  PROVE  w.head[k] # NULL
<1>1. m.head[k] \in Blocks /\ P[m.head[k]] = k
  BY HeadOf
<1>2. Q[m.head[k]] = k
  BY <1>1 DEF Added
<1> QED
  BY <1>1, <1>2, HeadAlive

\* The program retires an object.
LEMMA RetireInv ==
  ASSUME Inv, NEW o \in Objects, Retire(o)
  PROVE  Inv' /\ Simulates
<1>1. PICK P, pos : Layout(P, pos)
  BY DEF Inv
<1>2. Shape(mem, shared, P, pos) /\ Distinct(mem, P, NULL, 0) /\ HeldOut(mem, P, held)
  BY <1>1, PlacesAre
<1>3. /\ o \in held /\ held' = held \ {o} /\ pc = "idle" /\ UNCHANGED <<scheme, shared, announced, pc, it, nextswap>>
      /\ mem' = BagAdd(mem, "retired", o) /\ CanAdd(mem, "retired")
  BY DEF Retire
<1>4. mem.head["retired"] # NULL
  BY <1>3 DEF Inv, Control, Alive
<1>5. PICK Q, qos : /\ Shape(mem', shared', Q, qos) /\ Added(mem, mem', P, Q, pos, qos, "retired", o)
                    /\ HeadStays(mem, mem', "retired") \/ HeadGrows(mem, mem', "retired")
  BY <1>2, <1>3, <1>4, AddIs, KindsAre
<1>6. Gains(mem, P, mem', Q, mem.head["retired"], o)
  BY <1>2, <1>4, <1>5, AddGains, KindsAre
<1>7. Distinct(mem', Q, NULL, 0) /\ HeldOut(mem', Q, held')
  BY <1>2, <1>3, <1>6, IntoBag
<1>8. SameBag(mem, P, pos, mem', Q, qos, "free")
  BY <1>2, <1>4, <1>5, AddedSame, KindsAre
<1>9. Gets(mem, P, mem', Q, {"retired"}, o) /\ Keeps(mem, P, mem', Q, Ready)
  BY <1>2, <1>4, <1>5, AddEffect, KindsAre
<1>10. mem'.head["free"] = mem.head["free"]
  BY <1>8 DEF SameBag
<1>11. mem'.head["retired"] # NULL
  BY <1>2, <1>4, <1>5, AddedAlive, KindsAre
<1>12. Control'
  BY <1>3, <1>4, <1>10, <1>11 DEF Inv, Control, Alive, Pooled
<1>13. Layout(Q, qos)'
  BY <1>3, <1>5, <1>7, QuietLayout
<1>14. Simulates
  BY <1>2, <1>3, <1>5, <1>9, RetireStep
<1> QED
  BY <1>12, <1>13, <1>14 DEF Inv

-----------------------------------------------------------------------------
\* Blocks move between the bags, and the destructors.

\* Blocks without announced objects move from the bag retired to the bag free.
LEMMA BlocksMovedStep ==
  ASSUME Inv, NEW P, NEW pos, Layout(P, pos), NEW Q, NEW qos, Shape(mem', shared', Q, qos),
         NEW p, BlocksMoved(mem, mem', P, Q, pos, "free", "retired", p),
         held' = held, announced' \in {announced, {}},
         \A b \in Blocks : Q[b] # P[b] => \A u : Holds(mem, b, u) => u \notin announced
  PROVE  /\ Distinct(mem', Q, NULL, 0) /\ HeldOut(mem', Q, held') /\ mem'.head = mem.head
         /\ Simulates
<1>1. Shape(mem, shared, P, pos) /\ Distinct(mem, P, NULL, 0) /\ HeldOut(mem, P, held)
  BY PlacesAre
<1>2. mem'.data = mem.data /\ mem'.head = mem.head
  BY DEF BlocksMoved
<1>3. \A b \in Blocks : Q[b] # "none" => P[b] # "none"
  BY DEF BlocksMoved
<1>4. Sub(mem, P, mem', Q)
  BY <1>2, <1>3, DataSub
<1>5. Distinct(mem', Q, NULL, 0) /\ HeldOut(mem', Q, held')
  BY <1>1, <1>4, SubDistinct, SubAbsent DEF HeldOut
<1>6. PICK s : s = {u \in InBag("retired") : \E b \in Blocks : Q[b] # P[b] /\ Holds(mem, b, u)}
  OBVIOUS
<1>7. \A u : u \in InBag("retired") <=> Has(mem, P, {"retired"}, u)
  BY <1>1, ReadyIs, NowIs
<1>8. \A u : LET moved == \E b \in Blocks : Q[b] # P[b] /\ Holds(mem, b, u)
             IN  /\ Has(mem', Q, Ready, u) <=> Has(mem, P, Ready, u) \/ moved
                 /\ Has(mem', Q, {"retired"}, u) <=> Has(mem, P, {"retired"}, u) /\ ~moved
                 /\ moved => Has(mem, P, {"retired"}, u)
  BY <1>1, MovedEffect
<1>9. \A u : u \in s <=> \E b \in Blocks : Q[b] # P[b] /\ Holds(mem, b, u)
  BY <1>6, <1>7, <1>8
<1>10. \A u : /\ Has(mem', Q, Ready, u) <=> Has(mem, P, Ready, u) \/ u \in s
              /\ Has(mem', Q, {"retired"}, u) <=> Has(mem, P, {"retired"}, u) /\ u \notin s
              /\ u \in s => Has(mem, P, {"retired"}, u) /\ u \notin announced
  BY <1>8, <1>9
<1>11. Simulates
  BY <1>1, <1>10, ReclaimStep
<1> QED
  BY <1>2, <1>5, <1>11

\* The heap as it was.
LEMMA SameHeap ==
  ASSUME Inv, NEW P, NEW pos, Layout(P, pos), mem' = mem, shared' = shared, held' = held,
         announced' \in {announced, {}}
  PROVE  /\ Shape(mem', shared', P, pos) /\ Distinct(mem', P, NULL, 0) /\ HeldOut(mem', P, held')
         /\ Simulates
<1>1. Shape(mem, shared, P, pos) /\ Distinct(mem, P, NULL, 0) /\ HeldOut(mem, P, held)
  BY PlacesAre
<1>2. Shape(mem', shared', P, pos) /\ Distinct(mem', P, NULL, 0) /\ HeldOut(mem', P, held')
  BY <1>1
<1>3. \A K \in Kinds : Keeps(mem, P, mem', P, K)
  BY DEF Keeps
<1> QED
  BY <1>1, <1>2, <1>3, StillStep

\* DEBRA and the destructor of a reclaimer move all blocks behind the head.
LEMMA MoveAllBlocks ==
  ASSUME Inv, pc = "idle", pc' \in {"give", "moveAll"}, Pooled,
         mem' = AppendMoveFullBlocks(mem, "free", "retired", mem.head["retired"]),
         UNCHANGED <<scheme, shared, held, announced, it, nextswap>>
  PROVE  Inv' /\ Simulates
<1>1. PICK P, pos : Layout(P, pos)
  BY DEF Inv
<1>2. Shape(mem, shared, P, pos)
  BY <1>1, PlacesAre
<1>3. mem.head["retired"] # NULL /\ mem.head["free"] # NULL /\ announced = {}
  BY DEF Inv, Control, Alive
<1>4. mem.head["retired"] \in Blocks /\ P[mem.head["retired"]] = "retired"
  BY <1>2, <1>3, HeadOf, KindsAre
<1>5. PICK Q, qos : /\ Shape(mem', shared', Q, qos)
                    /\ BlocksMoved(mem, mem', P, Q, pos, "free", "retired", mem.head["retired"])
  BY <1>2, <1>3, <1>4, MoveBlocksIs, KindsAre
<1>6. Distinct(mem', Q, NULL, 0) /\ HeldOut(mem', Q, held') /\ mem'.head = mem.head /\ Simulates
  BY <1>1, <1>3, <1>5, BlocksMovedStep
<1>7. Control'
  BY <1>3, <1>6 DEF Inv, Control, Alive, Pooled
<1>8. Layout(Q, qos)'
  BY <1>5, <1>6, QuietLayout
<1> QED
  BY <1>6, <1>7, <1>8 DEF Inv

\* pool_none has no blocks to move.
LEMMA StillInv ==
  ASSUME Inv, pc = "idle", pc' \in {"clear", "clearLast"}, ~Pooled,
         UNCHANGED <<scheme, mem, shared, held, announced, it, nextswap>>
  PROVE  Inv' /\ Simulates
<1>1. PICK P, pos : Layout(P, pos)
  BY DEF Inv
<1>2. /\ Shape(mem', shared', P, pos) /\ Distinct(mem', P, NULL, 0) /\ HeldOut(mem', P, held')
      /\ Simulates
  BY <1>1, SameHeap
<1>3. Control'
  BY DEF Inv, Control, Alive, Pooled
<1>4. Layout(P, pos)'
  BY <1>2, QuietLayout
<1> QED
  BY <1>2, <1>3, <1>4 DEF Inv

\* rotateEpochBags of DEBRA.
LEMMA RotateInv ==
  ASSUME Inv, Rotate
  PROVE  Inv' /\ Simulates
<1>1. CASE Pooled
  BY <1>1, MoveAllBlocks DEF Rotate, Goto
<1>2. CASE ~Pooled
  BY <1>2, StillInv DEF Rotate, Goto
<1> QED
  BY <1>1, <1>2

\* addMoveAll, before its loop.
LEMMA DestroyReclaimerInv ==
  ASSUME Inv, DestroyReclaimer
  PROVE  Inv' /\ Simulates
<1>1. CASE Pooled
  BY <1>1, MoveAllBlocks DEF DestroyReclaimer, Goto
<1>2. CASE ~Pooled
  BY <1>2, StillInv DEF DestroyReclaimer, Goto
<1> QED
  BY <1>1, <1>2

\* A full block goes to the shared bag.
LEMMA GiveInv ==
  ASSUME Inv, Give
  PROVE  Inv' /\ Simulates
<1>1. PICK P, pos : Layout(P, pos)
  BY DEF Inv
<1>2. Shape(mem, shared, P, pos) /\ Distinct(mem, P, NULL, 0) /\ HeldOut(mem, P, held)
  BY <1>1, PlacesAre
<1>3. /\ pc \in {"give", "giveLast"} /\ UNCHANGED <<scheme, held, announced, pc, it, nextswap>>
      /\ mem' = RemoveFullBlock(mem, "free") /\ shared' = shared \cup {SecondBlock(mem, "free")}
      /\ mem.sizeInBlocks["free"] >= POOL_THRESHOLD_IN_BLOCKS
  BY DEF Give
<1>4. mem.head["free"] # NULL /\ Pooled
  BY <1>3 DEF Inv, Control, Alive
<1>5. mem.sizeInBlocks["free"] > 2
  <2>1. mem.sizeInBlocks["free"] \in Nat
    BY <1>2, ShapeIs, KindsAre DEF ShapeParts, IsHeap
  <2> QED
    BY <1>3, <2>1, ThresholdAssumption
<1>6. PICK x : x = SecondBlock(mem, "free")
  OBVIOUS
<1>7. PICK Q, qos : Shape(mem', shared', Q, qos) /\ BlockLeft(mem, mem', P, Q, pos, qos, "free", x)
  BY <1>2, <1>3, <1>4, <1>5, <1>6, RemoveFullIs, KindsAre
<1>8. mem'.data = mem.data /\ mem'.head = mem.head
  BY <1>7 DEF BlockLeft
<1>9. \A b \in Blocks : /\ Q[b] # "none" => P[b] # "none"
                        /\ Q[b] \in Ready <=> P[b] \in Ready
                        /\ Q[b] \in {"retired"} <=> P[b] \in {"retired"}
                        /\ P[b] = "retired" => qos[b] = pos[b]
  BY <1>7 DEF BlockLeft, Ready
<1>10. Sub(mem, P, mem', Q)
  BY <1>8, <1>9, DataSub
<1>11. Distinct(mem', Q, NULL, 0) /\ HeldOut(mem', Q, held')
  BY <1>2, <1>3, <1>10, SubDistinct, SubAbsent DEF HeldOut
<1>12. Keeps(mem, P, mem', Q, Ready)
  BY <1>8, <1>9, DataKeeps
<1>13. Keeps(mem, P, mem', Q, {"retired"})
  BY <1>8, <1>9, DataKeeps
<1>14. Simulates
  BY <1>2, <1>3, <1>7, <1>12, <1>13, StillStep DEF Kinds
<1>15. Control'
  BY <1>3, <1>4, <1>8 DEF Inv, Control, Alive, Pooled
<1>16. pc = "giveLast" => BagIsEmpty(mem', Q, qos, "retired")
  BY <1>1, <1>8, <1>9 DEF Layout, BagIsEmpty
<1>17. Layout(Q, qos)'
  BY <1>3, <1>7, <1>11, <1>16 DEF Layout
<1> QED
  BY <1>14, <1>15, <1>17 DEF Inv

\* The bag free has become small.
LEMMA GiveEndInv ==
  ASSUME Inv, GiveEnd
  PROVE  Inv' /\ Simulates
<1>1. PICK P, pos : Layout(P, pos)
  BY DEF Inv
<1>2. UNCHANGED <<scheme, mem, shared, held, announced, it, nextswap>>
  BY DEF GiveEnd
<1>3. (pc = "give" /\ pc' = "idle") \/ (pc = "giveLast" /\ pc' = "deleteBag")
  BY DEF GiveEnd, Goto
<1>4. /\ Shape(mem', shared', P, pos) /\ Distinct(mem', P, NULL, 0) /\ HeldOut(mem', P, held')
      /\ Simulates
  BY <1>1, <1>2, SameHeap
<1>5. Control'
  BY <1>2, <1>3 DEF Inv, Control, Alive, Pooled
<1>6. Layout(P, pos)'
  BY <1>1, <1>2, <1>3, <1>4 DEF Layout
<1> QED
  BY <1>4, <1>5, <1>6 DEF Inv

\* An object of a bag goes back to the allocator.
LEMMA ClearInv ==
  ASSUME Inv, NEW k \in Bags, Clear(k), Alive(k), announced = {},
         pc \notin {"filter", "swap", "giveLast", "deleteBag"}
  PROVE  Inv' /\ Simulates
<1>1. PICK P, pos : Layout(P, pos)
  BY DEF Inv
<1>2. Shape(mem, shared, P, pos) /\ Distinct(mem, P, NULL, 0) /\ HeldOut(mem, P, held)
  BY <1>1, PlacesAre
<1>3. /\ UNCHANGED <<scheme, shared, held, announced, pc, it, nextswap>>
      /\ ~IsEmpty(mem, k) /\ mem' = BagRemove(mem, k) /\ mem.head[k] # NULL
  BY DEF Clear, Alive
<1>4. PICK o : o = Removed(mem, k)
  OBVIOUS
<1>5. PICK Q : Shape(mem', shared', Q, pos) /\ Taken(mem, mem', P, Q, k, held, o)
  BY <1>2, <1>3, <1>4, TakeIs
<1>6. Distinct(mem', Q, NULL, 0) /\ HeldOut(mem', Q, held')
  BY <1>3, <1>5 DEF Taken, HeldOut
<1>7. \A j \in Bags : mem'.head[j] # NULL <=> mem.head[j] # NULL
  BY <1>3, <1>5 DEF Taken
<1>8. Control'
  <2>1. mem'.head["retired"] # NULL <=> mem.head["retired"] # NULL
    BY <1>7, KindsAre
  <2>2. mem'.head["free"] # NULL <=> mem.head["free"] # NULL
    BY <1>7, KindsAre
  <2>3. pc # "destroyed"
    BY <1>3, BagsAssumption DEF Inv, Control, Alive
  <2> QED
    BY <1>3, <2>1, <2>2, <2>3 DEF Inv, Control, Alive, Pooled
<1>9. Layout(Q, pos)'
  BY <1>3, <1>5, <1>6, QuietLayout
<1>10. ~Has(mem', Q, {"retired"}, o) /\ ~Has(mem', Q, Ready, o)
  <2>1. Absent(mem', Q, NULL, 0, o)
    BY <1>5 DEF Taken, HeldOut
  <2> QED
    BY <1>5, <2>1, AbsentIs
<1>11. \A K \in Kinds : /\ k \in K => Loses(mem, P, mem', Q, K, o) /\ Has(mem, P, K, o)
                        /\ k \notin K => Keeps(mem, P, mem', Q, K)
  BY <1>5 DEF Taken
<1>12. k = "retired" \/ k = "free"
  BY BagsAssumption
<1>13. \A u : /\ Has(mem', Q, Ready, u) <=> Has(mem, P, Ready, u) /\ u \notin {o}
              /\ Has(mem', Q, {"retired"}, u) <=> Has(mem, P, {"retired"}, u) /\ u \notin {o}
              /\ u \in {o} => Has(mem, P, {"retired"}, u) \/ Has(mem, P, Ready, u)
  <2>1. CASE k = "retired"
    <3>1. /\ Loses(mem, P, mem', Q, {"retired"}, o) /\ Has(mem, P, {"retired"}, o)
          /\ Keeps(mem, P, mem', Q, Ready)
      BY <1>11, <2>1, KindsAre
    <3> QED
      BY <1>10, <3>1 DEF Loses, Keeps
  <2>2. CASE k = "free"
    <3>1. /\ Loses(mem, P, mem', Q, Ready, o) /\ Has(mem, P, Ready, o)
          /\ Keeps(mem, P, mem', Q, {"retired"})
      BY <1>11, <2>2, KindsAre
    <3> QED
      BY <1>10, <3>1 DEF Loses, Keeps
  <2> QED
    BY <1>12, <2>1, <2>2
<1>14. Simulates
  BY <1>2, <1>3, <1>5, <1>13, DiscardStep
<1> QED
  BY <1>8, <1>9, <1>14 DEF Inv

\* deallocateAndClear of the bag retired.
LEMMA ClearRetiredInv ==
  ASSUME Inv, ClearRetired
  PROVE  Inv' /\ Simulates
<1>1. Alive("retired") /\ announced = {} /\ pc \in {"clear", "clearLast"} /\ Clear("retired")
  BY DEF Inv, Control, ClearRetired
<1> QED
  BY <1>1, ClearInv, KindsAre

\* deallocateAndClear of the bag free.
LEMMA ClearFreeInv ==
  ASSUME Inv, ClearFree
  PROVE  Inv' /\ Simulates
<1>1. Alive("free") /\ announced = {} /\ pc = "clearFree" /\ Clear("free")
  BY DEF Inv, Control, ClearFree
<1> QED
  BY <1>1, ClearInv, KindsAre

\* deallocateAndClear has emptied the bag.
LEMMA ClearEndInv ==
  ASSUME Inv, ClearEnd
  PROVE  Inv' /\ Simulates
<1>1. PICK P, pos : Layout(P, pos)
  BY DEF Inv
<1>2. UNCHANGED <<scheme, mem, shared, held, announced, it, nextswap>> /\ IsEmpty(mem, "retired")
  BY DEF ClearEnd
<1>3. (pc = "clear" /\ pc' = "idle") \/ (pc = "clearLast" /\ pc' = "deleteBag")
  BY DEF ClearEnd, Goto
<1>4. /\ Shape(mem', shared', P, pos) /\ Distinct(mem', P, NULL, 0) /\ HeldOut(mem', P, held')
      /\ Simulates
  BY <1>1, <1>2, SameHeap
<1>5. Control'
  BY <1>2, <1>3 DEF Inv, Control, Alive, Pooled
<1>6. mem.head["retired"] # NULL
  BY <1>3 DEF Inv, Control, Alive
<1>7. BagIsEmpty(mem', P, pos, "retired")
  BY <1>2, <1>4, <1>6, EmptyIs, KindsAre
<1>8. Layout(P, pos)'
  BY <1>2, <1>3, <1>4, <1>7 DEF Layout
<1> QED
  BY <1>4, <1>5, <1>8 DEF Inv

\* An iteration of addMoveAll.
LEMMA MoveOneInv ==
  ASSUME Inv, MoveOne
  PROVE  Inv' /\ Simulates
<1>1. PICK P, pos : Layout(P, pos)
  BY DEF Inv
<1>2. Shape(mem, shared, P, pos) /\ Distinct(mem, P, NULL, 0) /\ HeldOut(mem, P, held)
  BY <1>1, PlacesAre
<1>3. PICK a : a = BagRemove(mem, "retired")
  OBVIOUS
<1>4. PICK o : o = Removed(mem, "retired")
  OBVIOUS
<1>5. /\ UNCHANGED <<scheme, shared, held, announced, pc, it, nextswap>> /\ pc = "moveAll"
      /\ ~IsEmpty(mem, "retired") /\ CanAdd(a, "free") /\ mem' = BagAdd(a, "free", o)
  BY <1>3, <1>4 DEF MoveOne
<1>6. mem.head["retired"] # NULL /\ mem.head["free"] # NULL /\ announced = {} /\ Pooled
  BY <1>5 DEF Inv, Control, Alive
<1>7. PICK R : Shape(a, shared, R, pos) /\ Taken(mem, a, P, R, "retired", held, o)
  BY <1>2, <1>3, <1>4, <1>5, <1>6, TakeIs, KindsAre
<1>8. /\ Distinct(a, R, NULL, 0) /\ HeldOut(a, R, held \cup {o}) /\ o \in Objects
      /\ a.head["retired"] # NULL /\ a.head["free"] # NULL
  BY <1>6, <1>7, KindsAre DEF Taken
<1>9. /\ Has(mem, P, {"retired"}, o) /\ Loses(mem, P, a, R, {"retired"}, o)
      /\ Keeps(mem, P, a, R, Ready)
  BY <1>7, KindsAre DEF Taken
<1>10. PICK Q, qos : /\ Shape(mem', shared', Q, qos) /\ Added(a, mem', R, Q, pos, qos, "free", o)
                     /\ HeadStays(a, mem', "free") \/ HeadGrows(a, mem', "free")
  BY <1>5, <1>7, <1>8, AddIs, KindsAre
<1>11. Gains(a, R, mem', Q, a.head["free"], o)
  BY <1>7, <1>8, <1>10, AddGains, KindsAre
<1>12. o \notin held
  <2>1. ~Absent(mem, P, NULL, 0, o)
    BY <1>2, <1>9, AbsentIs
  <2> QED
    BY <1>2, <2>1 DEF HeldOut
<1>13. Distinct(mem', Q, NULL, 0) /\ HeldOut(mem', Q, held')
  <2>1. o \in held \cup {o} /\ (held \cup {o}) \ {o} = held
    BY <1>12
  <2> QED
    BY <1>5, <1>8, <1>11, <2>1, IntoBag
<1>14. SameBag(a, R, pos, mem', Q, qos, "retired")
  BY <1>7, <1>8, <1>10, AddedSame, KindsAre
<1>15. Gets(a, R, mem', Q, Ready, o) /\ Keeps(a, R, mem', Q, {"retired"})
  BY <1>7, <1>8, <1>10, AddEffect, KindsAre
<1>16. mem'.head["retired"] # NULL /\ mem'.head["free"] # NULL
  BY <1>7, <1>8, <1>10, <1>14, AddedAlive, KindsAre DEF SameBag
<1>17. Control'
  BY <1>5, <1>6, <1>16 DEF Inv, Control, Alive, Pooled
<1>18. Layout(Q, qos)'
  BY <1>5, <1>10, <1>13, QuietLayout
<1>19. \A u : /\ Has(mem', Q, Ready, u) <=> Has(mem, P, Ready, u) \/ u \in {o}
              /\ Has(mem', Q, {"retired"}, u) <=> Has(mem, P, {"retired"}, u) /\ u \notin {o}
              /\ u \in {o} => Has(mem, P, {"retired"}, u) /\ u \notin announced
  BY <1>6, <1>9, <1>15 DEF Gets, Keeps, Loses
<1>20. Simulates
  BY <1>2, <1>5, <1>10, <1>19, ReclaimStep
<1> QED
  BY <1>17, <1>18, <1>20 DEF Inv

\* addMoveAll has emptied the bag retired.
LEMMA MoveAllEndInv ==
  ASSUME Inv, MoveAllEnd
  PROVE  Inv' /\ Simulates
<1>1. PICK P, pos : Layout(P, pos)
  BY DEF Inv
<1>2. Shape(mem, shared, P, pos)
  BY <1>1, PlacesAre
<1>3. /\ UNCHANGED <<scheme, shared, held, announced, it, nextswap>> /\ IsEmpty(mem, "retired")
      /\ pc = "moveAll" /\ pc' = "giveLast"
  BY DEF MoveAllEnd, Goto
<1>4. mem.head["retired"] # NULL /\ mem.head["free"] # NULL
  BY <1>3 DEF Inv, Control, Alive
<1>5. mem' = mem
  <2>1. mem' = Recount(mem, "free")
    BY DEF MoveAllEnd
  <2> QED
    BY <1>2, <1>4, <2>1, RecountIs, KindsAre
<1>6. /\ Shape(mem', shared', P, pos) /\ Distinct(mem', P, NULL, 0) /\ HeldOut(mem', P, held')
      /\ Simulates
  BY <1>1, <1>3, <1>5, SameHeap
<1>7. Control'
  BY <1>3, <1>5 DEF Inv, Control, Alive, Pooled
<1>8. BagIsEmpty(mem', P, pos, "retired")
  BY <1>2, <1>3, <1>4, <1>5, EmptyIs, KindsAre
<1>9. Layout(P, pos)'
  BY <1>3, <1>6, <1>8 DEF Layout
<1> QED
  BY <1>6, <1>7, <1>9 DEF Inv

\* A bag without objects is deleted.
LEMMA BagDeletedStep ==
  ASSUME Inv, NEW P, NEW pos, Layout(P, pos), NEW k \in Bags, NEW Q,
         Shape(mem', shared', Q, pos), BagDeleted(mem, mem', P, Q, k),
         held' = held, announced' = announced
  PROVE  /\ Distinct(mem', Q, NULL, 0) /\ HeldOut(mem', Q, held')
         /\ Simulates
<1>1. Shape(mem, shared, P, pos) /\ Distinct(mem, P, NULL, 0) /\ HeldOut(mem, P, held)
  BY PlacesAre
<1>2. mem'.data = mem.data
  BY DEF BagDeleted
<1>3. \A b \in Blocks : Q[b] # P[b] => P[b] # "none" /\ mem.data[b] = <<>>
  BY BagsAssumption DEF BagDeleted, HeadLeft
<1>4. Sub(mem, P, mem', Q)
  BY <1>2, <1>3, DataSub
<1>5. Distinct(mem', Q, NULL, 0) /\ HeldOut(mem', Q, held')
  BY <1>1, <1>4, SubDistinct, SubAbsent DEF HeldOut
<1>6. \A K \in Kinds : Keeps(mem, P, mem', Q, K)
  <2> SUFFICES ASSUME NEW K \in Kinds PROVE Keeps(mem, P, mem', Q, K)
    OBVIOUS
  <2>1. \A b \in Blocks : (Q[b] \in K <=> P[b] \in K) \/ mem.data[b] = <<>>
    BY <1>3
  <2> QED
    BY <1>2, <2>1, DataKeeps
<1> QED
  BY <1>1, <1>5, <1>6, StillStep

\* The destructor of the bag retired finds it empty.
LEMMA DeleteRetiredBagInv ==
  ASSUME Inv, DeleteRetiredBag
  PROVE  Inv' /\ Simulates
<1>1. PICK P, pos : Layout(P, pos)
  BY DEF Inv
<1>2. Shape(mem, shared, P, pos)
  BY <1>1, PlacesAre
<1>3. /\ UNCHANGED <<scheme, shared, held, announced, it, nextswap>> /\ mem' = DeleteBag(mem, "retired")
      /\ pc = "deleteBag" /\ pc' = IF Pooled THEN "drainShared" ELSE "deletePool"
  BY DEF DeleteRetiredBag, Goto
<1>4. mem.head["retired"] # NULL
  BY <1>3 DEF Inv, Control, Alive
<1>5. IsEmpty(mem, "retired")
  BY <1>1, <1>2, <1>3, <1>4, EmptyIs, KindsAre DEF Layout
<1>6. PICK Q : Shape(mem', shared', Q, pos) /\ BagDeleted(mem, mem', P, Q, "retired")
  BY <1>2, <1>3, <1>4, <1>5, DeleteBagIs, KindsAre
<1>7. Distinct(mem', Q, NULL, 0) /\ HeldOut(mem', Q, held') /\ Simulates
  BY <1>1, <1>3, <1>6, BagDeletedStep, KindsAre
<1>8. mem'.head["retired"] = NULL /\ mem'.head["free"] = mem.head["free"]
  BY <1>6, KindsAre DEF BagDeleted
<1>9. Control'
  BY <1>3, <1>8 DEF Inv, Control, Alive, Pooled
<1>10. Layout(Q, pos)'
  BY <1>3, <1>6, <1>7, QuietLayout
<1> QED
  BY <1>7, <1>9, <1>10 DEF Inv

\* The destructor of the bag free finds it empty.
LEMMA DeleteFreeBagInv ==
  ASSUME Inv, DeleteFreeBag
  PROVE  Inv' /\ Simulates
<1>1. PICK P, pos : Layout(P, pos)
  BY DEF Inv
<1>2. Shape(mem, shared, P, pos)
  BY <1>1, PlacesAre
<1>3. /\ UNCHANGED <<scheme, shared, held, announced, it, nextswap>> /\ mem' = DeleteBag(mem, "free")
      /\ pc = "clearFree" /\ pc' = "deletePool" /\ IsEmpty(mem, "free")
  BY DEF DeleteFreeBag, Goto
<1>4. mem.head["free"] # NULL
  BY <1>3 DEF Inv, Control, Alive
<1>5. PICK Q : Shape(mem', shared', Q, pos) /\ BagDeleted(mem, mem', P, Q, "free")
  BY <1>2, <1>3, <1>4, DeleteBagIs, KindsAre
<1>6. Distinct(mem', Q, NULL, 0) /\ HeldOut(mem', Q, held') /\ Simulates
  BY <1>1, <1>3, <1>5, BagDeletedStep, KindsAre
<1>7. mem'.head["free"] = NULL /\ mem'.head["retired"] = mem.head["retired"]
  BY <1>5, KindsAre DEF BagDeleted
<1>8. Control'
  BY <1>3, <1>7 DEF Inv, Control, Alive, Pooled
<1>9. Layout(Q, pos)'
  BY <1>3, <1>5, <1>6, QuietLayout
<1> QED
  BY <1>6, <1>8, <1>9 DEF Inv

\* No object is retired and ready for reuse.
LEMMA Apart ==
  ASSUME NEW m, NEW P, NEW u, Distinct(m, P, NULL, 0), NULL \notin Blocks
  PROVE  ~(Has(m, P, {"retired"}, u) /\ Has(m, P, Ready, u))
<1> SUFFICES ASSUME Has(m, P, {"retired"}, u), Has(m, P, Ready, u) PROVE FALSE
  OBVIOUS
<1>1. PICK b, i : b \in Blocks /\ P[b] = "retired" /\ i \in 1 .. Len(m.data[b]) /\ m.data[b][i] = u
  BY DEF Has, Holds
<1>2. PICK c, j : c \in Blocks /\ P[c] \in Ready /\ j \in 1 .. Len(m.data[c]) /\ m.data[c][j] = u
  BY DEF Has, Holds
<1>3. b # NULL /\ c # NULL /\ P[b] # "none" /\ P[c] # "none" /\ b # c
  BY <1>1, <1>2 DEF Ready
<1> QED
  BY <1>1, <1>2, <1>3 DEF Distinct

\* A block of the shared bag is deleted.
LEMMA DrainSharedInv ==
  ASSUME Inv, DrainShared
  PROVE  Inv' /\ Simulates
<1>1. PICK P, pos : Layout(P, pos)
  BY DEF Inv
<1>2. Shape(mem, shared, P, pos) /\ Distinct(mem, P, NULL, 0) /\ HeldOut(mem, P, held)
  BY <1>1, PlacesAre
<1>3. UNCHANGED <<scheme, held, announced, pc, it, nextswap>> /\ pc = "drainShared"
  BY DEF DrainShared
<1>4. PICK x \in shared : /\ mem' = DeallocateBlock([mem EXCEPT !.data[x] = <<>>], x)
                          /\ shared' = shared \ {x}
  BY DEF DrainShared
<1>5. PICK Q : Shape(mem', shared', Q, pos) /\ BlockGone(mem, mem', P, Q, x)
  BY <1>2, <1>4, DrainIs
<1>6. Sub(mem, P, mem', Q)
  BY <1>5, GoneSub
<1>7. Distinct(mem', Q, NULL, 0) /\ HeldOut(mem', Q, held')
  BY <1>2, <1>3, <1>6, SubDistinct, SubAbsent DEF HeldOut
<1>8. mem'.head = mem.head
  BY <1>5 DEF BlockGone
<1>9. Control'
  BY <1>3, <1>4, <1>8 DEF Inv, Control, Alive, Pooled
<1>10. Layout(Q, pos)'
  BY <1>3, <1>5, <1>7, QuietLayout
<1>11. x \in Blocks
  BY <1>2, <1>4 DEF Shape
<1>12. Keeps(mem, P, mem', Q, {"retired"}) /\ \A u : Has(mem', Q, Ready, u) => Has(mem, P, Ready, u)
  BY <1>5, <1>11, GoneEffect
<1>13. PICK s : s = {u \in ReadyOf(mem, shared) : ~Has(mem', Q, Ready, u)}
  OBVIOUS
<1>14. \A u : u \in s <=> Has(mem, P, Ready, u) /\ ~Has(mem', Q, Ready, u)
  BY <1>2, <1>13, ReadyIs
<1>15. \A u : ~(Has(mem, P, {"retired"}, u) /\ Has(mem, P, Ready, u))
  BY <1>2, Apart, NullAssumption
<1>16. \A u : /\ Has(mem', Q, Ready, u) <=> Has(mem, P, Ready, u) /\ u \notin s
              /\ Has(mem', Q, {"retired"}, u) <=> Has(mem, P, {"retired"}, u) /\ u \notin s
              /\ u \in s => Has(mem, P, {"retired"}, u) \/ Has(mem, P, Ready, u)
  BY <1>12, <1>14, <1>15 DEF Keeps
<1>17. announced = {}
  BY <1>3 DEF Inv, Control
<1>18. Simulates
  BY <1>2, <1>3, <1>5, <1>16, <1>17, DiscardStep
<1> QED
  BY <1>9, <1>10, <1>18 DEF Inv

\* The shared bag is empty.
LEMMA DrainSharedEndInv ==
  ASSUME Inv, DrainSharedEnd
  PROVE  Inv' /\ Simulates
<1>1. PICK P, pos : Layout(P, pos)
  BY DEF Inv
<1>2. /\ UNCHANGED <<scheme, mem, shared, held, announced, it, nextswap>> /\ shared = {}
      /\ pc = "drainShared" /\ pc' = "clearFree"
  BY DEF DrainSharedEnd, Goto
<1>3. /\ Shape(mem', shared', P, pos) /\ Distinct(mem', P, NULL, 0) /\ HeldOut(mem', P, held')
      /\ Simulates
  BY <1>1, <1>2, SameHeap
<1>4. Control'
  BY <1>2 DEF Inv, Control, Alive, Pooled
<1>5. Layout(P, pos)'
  BY <1>2, <1>3, QuietLayout
<1> QED
  BY <1>3, <1>4, <1>5 DEF Inv

\* The blockpool is deleted, with the blocks that are in it.
LEMMA DeletePoolInv ==
  ASSUME Inv, DeletePool
  PROVE  Inv' /\ Simulates
<1>1. PICK P, pos : Layout(P, pos)
  BY DEF Inv
<1>2. Shape(mem, shared, P, pos) /\ Distinct(mem, P, NULL, 0) /\ HeldOut(mem, P, held)
  BY <1>1, PlacesAre
<1>3. /\ UNCHANGED <<scheme, shared, held, announced, it, nextswap>> /\ pc = "deletePool" /\ pc' = "destroyed"
      /\ mem' = [mem EXCEPT !.live = @ \ ToSet(mem.pool), !.pool = <<>>]
  BY DEF DeletePool, Goto
<1>4. PICK Q : Shape(mem', shared', Q, pos) /\ PoolDeleted(mem, mem', P, Q)
  BY <1>2, <1>3, DeletePoolIs
<1>5. mem'.data = mem.data /\ mem'.head = mem.head /\ mem'.pool = <<>>
  BY <1>4 DEF PoolDeleted
<1>6. \A b \in Blocks : /\ Q[b] # "none" => P[b] # "none"
                        /\ Q[b] \in Ready <=> P[b] \in Ready
                        /\ Q[b] \in {"retired"} <=> P[b] \in {"retired"}
  BY <1>4 DEF PoolDeleted, Ready
<1>7. Sub(mem, P, mem', Q)
  BY <1>5, <1>6, DataSub
<1>8. Distinct(mem', Q, NULL, 0) /\ HeldOut(mem', Q, held')
  BY <1>2, <1>3, <1>7, SubDistinct, SubAbsent DEF HeldOut
<1>9. Keeps(mem, P, mem', Q, Ready)
  BY <1>5, <1>6, DataKeeps
<1>10. Keeps(mem, P, mem', Q, {"retired"})
  BY <1>5, <1>6, DataKeeps
<1>11. Simulates
  BY <1>2, <1>3, <1>4, <1>9, <1>10, StillStep DEF Kinds
<1>12. Control'
  BY <1>3, <1>5 DEF Inv, Control, Alive, Pooled
<1>13. Layout(Q, pos)'
  BY <1>3, <1>4, <1>8, QuietLayout
<1> QED
  BY <1>11, <1>12, <1>13 DEF Inv

\* Nothing happens.
LEMMA StutterInv ==
  ASSUME Inv, UNCHANGED vars
  PROVE  Inv' /\ Simulates
<1>1. PICK P, pos : Layout(P, pos)
  BY DEF Inv
<1>2. UNCHANGED <<scheme, mem, shared, held, announced, pc, it, nextswap>>
  BY DEF vars
<1>3. Simulates
  BY <1>1, <1>2, SameHeap
<1>4. Control'
  BY <1>2 DEF Inv, Control, Alive, Pooled
<1>5. Layout(P, pos)'
  BY <1>1, <1>2 DEF Layout
<1> QED
  BY <1>3, <1>4, <1>5 DEF Inv

-----------------------------------------------------------------------------
\* The scan that swaps

\* No two blocks of a bag have one place in its list.
LEMMA PlacesOrdered ==
  ASSUME NEW m, NEW sh, NEW P, NEW pos, Shape(m, sh, P, pos), NEW k \in Bags
  PROVE  /\ \A b \in Blocks : P[b] = k => pos[b] \in Nat \ {0}
         /\ \A b, c \in Blocks : P[b] = k /\ P[c] = k /\ pos[b] = pos[c] => b = c
<1>1. ShapeParts(m, sh, P, pos)
  BY ShapeIs
<1>2. CASE m.head[k] = NULL
  BY <1>1, <1>2 DEF ShapeParts, Lists
<1>3. CASE m.head[k] # NULL
  <2>1. IsList(m, P, pos, k)
    BY <1>1, <1>3 DEF ShapeParts, Lists
  <2> QED
    BY <2>1 DEF IsList
<1> QED
  BY <1>2, <1>3

\* Blocks hold objects.
LEMMA HeldObjects ==
  ASSUME NEW m, NEW sh, NEW P, NEW pos, Shape(m, sh, P, pos), NEW b \in Blocks, NEW u, Holds(m, b, u)
  PROVE  u \in Objects
<1>1. m.data[b] \in Seq(Objects)
  BY ShapeIs DEF ShapeParts, IsHeap
<1>2. \A i \in 1 .. Len(m.data[b]) : m.data[b][i] \in Objects
  BY <1>1
<1> QED
  BY <1>2 DEF Holds

\* The slot that is looked at moves on, the slot y stays.
LEMMA NotAfterNext ==
  ASSUME NEW m, NEW sh, NEW P, NEW pos, Shape(m, sh, P, pos), NEW k \in Bags, NEW x, NEW y, NEW a,
         In(m, P, k, x), In(m, P, k, y), NotAfter(pos, y, x), Next1(m, P, pos, k, x, a), ~AtEnd(a)
  PROVE  NotAfter(pos, y, a)
<1>1. \A b \in Blocks : P[b] = k => pos[b] \in Nat \ {0}
  BY PlacesOrdered
<1>2. pos[x.curr] \in Nat /\ pos[y.curr] \in Nat /\ x.ix \in Nat /\ y.ix \in Nat
  <2>1. Len(m.data[x.curr]) \in Nat /\ Len(m.data[y.curr]) \in Nat
    BY ShapeIs DEF ShapeParts, IsHeap, In
  <2> QED
    BY <1>1, <2>1 DEF In
<1>3. CASE a.curr = x.curr /\ a.ix = x.ix + 1
  BY <1>2, <1>3 DEF NotAfter
<1>4. CASE pos[a.curr] = pos[x.curr] - 1
  BY <1>2, <1>4 DEF NotAfter
<1> QED
  BY <1>3, <1>4 DEF Next1

\* Both move on.
LEMMA NotAfterBoth ==
  ASSUME NEW m, NEW sh, NEW P, NEW pos, Shape(m, sh, P, pos), NEW k \in Bags, NEW x, NEW y, NEW a, NEW c,
         In(m, P, k, x), In(m, P, k, y), NotAfter(pos, y, x),
         Next1(m, P, pos, k, x, a), Next1(m, P, pos, k, y, c)
  PROVE  (AtEnd(c) => AtEnd(a)) /\ (~AtEnd(a) => NotAfter(pos, c, a))
<1>1. /\ \A b \in Blocks : P[b] = k => pos[b] \in Nat \ {0}
      /\ \A b, d \in Blocks : P[b] = k /\ P[d] = k /\ pos[b] = pos[d] => b = d
  BY PlacesOrdered
<1>2. Len(m.data[x.curr]) \in Nat /\ Len(m.data[y.curr]) \in Nat
  BY ShapeIs DEF ShapeParts, IsHeap, In
<1>3. /\ x.ix \in 1 .. Len(m.data[x.curr]) /\ y.ix \in 1 .. Len(m.data[y.curr])
      /\ pos[x.curr] \in Nat \ {0} /\ pos[y.curr] \in Nat \ {0}
      /\ x.curr \in Blocks /\ y.curr \in Blocks /\ P[x.curr] = k /\ P[y.curr] = k
  BY <1>1 DEF In
<1>4. ~AtEnd(a) => a.curr \in Blocks /\ P[a.curr] = k /\ pos[a.curr] \in Nat \ {0} /\ a.ix \in Nat \ {0}
  <2>1. ~AtEnd(a) => In(m, P, k, a)
    BY DEF Next1
  <2>2. ~AtEnd(a) => Len(m.data[a.curr]) \in Nat
    BY <2>1, ShapeIs DEF ShapeParts, IsHeap, In
  <2> QED
    BY <1>1, <2>1, <2>2 DEF In
<1>5. ~AtEnd(c) => c.curr \in Blocks /\ P[c.curr] = k /\ pos[c.curr] \in Nat \ {0}
  BY <1>1 DEF Next1, In
<1>6. \/ pos[y.curr] > pos[x.curr]
      \/ y.curr = x.curr /\ y.ix <= x.ix
  BY DEF NotAfter
<1>7. \/ a.curr = x.curr /\ a.ix = x.ix + 1 /\ ~AtEnd(a)
      \/ x.ix = Len(m.data[x.curr]) /\ AtEnd(a) /\ pos[x.curr] = 1
      \/ x.ix = Len(m.data[x.curr]) /\ a.ix = 1 /\ pos[a.curr] = pos[x.curr] - 1 /\ ~AtEnd(a)
  BY <1>2, <1>3, NullAssumption DEF Next1, In, AtEnd
<1>8. CASE c.curr = y.curr /\ c.ix = y.ix + 1 /\ ~AtEnd(c)
  <2> SUFFICES ASSUME ~AtEnd(a) PROVE NotAfter(pos, c, a)
    BY <1>8
  <2>1. CASE pos[y.curr] > pos[x.curr]
    <3>1. pos[a.curr] <= pos[x.curr]
      BY <1>3, <1>4, <1>7
    <3>2. pos[c.curr] > pos[a.curr]
      BY <1>3, <1>4, <1>8, <2>1, <3>1
    <3> QED
      BY <3>2 DEF NotAfter
  <2>2. CASE y.curr = x.curr /\ y.ix <= x.ix
    <3>1. (a.curr = c.curr /\ c.ix <= a.ix) \/ pos[c.curr] > pos[a.curr]
      BY <1>2, <1>3, <1>4, <1>7, <1>8, <2>2
    <3> QED
      BY <3>1 DEF NotAfter
  <2> QED
    BY <1>6, <2>1, <2>2
<1>9. CASE y.ix = Len(m.data[y.curr]) /\ AtEnd(c) /\ pos[y.curr] = 1
  <2>1. y.curr = x.curr /\ y.ix <= x.ix
    BY <1>3, <1>6, <1>9
  <2>2. x.ix = Len(m.data[x.curr]) /\ pos[x.curr] = 1
    BY <1>2, <1>3, <1>9, <2>1
  <2>3. AtEnd(a)
    BY <1>2, <1>3, <1>4, <1>7, <2>2 DEF Next1, In
  <2> QED
    BY <2>3
<1>10. CASE y.ix = Len(m.data[y.curr]) /\ c.ix = 1 /\ pos[c.curr] = pos[y.curr] - 1 /\ ~AtEnd(c)
  <2> SUFFICES ASSUME ~AtEnd(a) PROVE NotAfter(pos, c, a)
    BY <1>10
  <2>1. CASE pos[y.curr] > pos[x.curr]
    <3>1. pos[c.curr] >= pos[x.curr]
      BY <1>3, <1>5, <1>10, <2>1
    <3>2. pos[c.curr] > pos[a.curr] \/ (pos[c.curr] = pos[x.curr] /\ a.curr = x.curr)
      <4>1. pos[c.curr] \in Nat /\ pos[a.curr] \in Nat /\ pos[x.curr] \in Nat
        BY <1>3, <1>4, <1>5, <1>10
      <4>2. CASE a.curr = x.curr
        <5>1. pos[a.curr] = pos[x.curr]
          BY <4>2
        <5> QED
          BY <3>1, <4>1, <4>2, <5>1
      <4>3. CASE pos[a.curr] = pos[x.curr] - 1
        BY <3>1, <4>1, <4>3
      <4> QED
        BY <1>7, <4>2, <4>3
    <3>3. pos[c.curr] = pos[x.curr] => c.curr = x.curr
      BY <1>1, <1>3, <1>5, <1>10
    <3>4. c.ix <= a.ix
      BY <1>4, <1>10
    <3> QED
      BY <3>2, <3>3, <3>4 DEF NotAfter
  <2>2. CASE y.curr = x.curr /\ y.ix <= x.ix
    <3>1. x.ix = Len(m.data[x.curr])
      BY <1>2, <1>3, <1>10, <2>2
    <3>2. a.ix = 1 /\ pos[a.curr] = pos[x.curr] - 1
      <4>1. ~(x.ix + 1 <= Len(m.data[x.curr]))
        BY <1>2, <1>3, <3>1
      <4>2. ~(a.curr = x.curr /\ a.ix = x.ix + 1 /\ In(m, P, k, a))
        BY <4>1 DEF In
      <4> QED
        BY <4>2 DEF Next1
    <3>3. a.curr = c.curr
      BY <1>1, <1>4, <1>5, <1>10, <2>2, <3>2
    <3> QED
      BY <1>10, <3>2, <3>3 DEF NotAfter
  <2> QED
    BY <1>6, <2>1, <2>2
<1>11. \/ c.curr = y.curr /\ c.ix = y.ix + 1 /\ ~AtEnd(c)
       \/ y.ix = Len(m.data[y.curr]) /\ AtEnd(c) /\ pos[y.curr] = 1
       \/ y.ix = Len(m.data[y.curr]) /\ c.ix = 1 /\ pos[c.curr] = pos[y.curr] - 1 /\ ~AtEnd(c)
  BY <1>2, <1>3, NullAssumption DEF Next1, In, AtEnd
<1> QED
  BY <1>8, <1>9, <1>10, <1>11

\* A bag holds finitely many objects.
LEMMA MembersFinite ==
  ASSUME NEW m, NEW sh, NEW P, NEW pos, Shape(m, sh, P, pos), NEW k \in Bags, m.head[k] # NULL
  PROVE  IsFiniteSet(Contents(m, k))
<1>1. ShapeParts(m, sh, P, pos)
  BY ShapeIs
<1>2. \A b \in Blocks : m.data[b] \in Seq(Objects)
  BY <1>1 DEF ShapeParts, IsHeap
<1>3. PICK slots : slots = Blocks \X (1 .. BLOCK_SIZE)
  OBVIOUS
<1>4. IsFiniteSet(slots)
  <2>1. IsFiniteSet(1 .. BLOCK_SIZE)
    BY BlockSizeAssumption, FS_Interval
  <2>2. IsFiniteSet(Blocks \X (1 .. BLOCK_SIZE))
    BY <2>1, BlocksAssumption, FS_Product
  <2> QED
    BY <1>3, <2>2
<1>5. PICK f : f = [s \in slots |-> m.data[s[1]][s[2]]]
  OBVIOUS
<1>6. IsFiniteSet(Range(f))
  <2>1. f \in Surjection(slots, Range(f))
    BY <1>5 DEF Surjection, Range
  <2> QED
    BY <1>4, <2>1, FS_Surjection
<1>7. Contents(m, k) \subseteq Range(f)
  <2> SUFFICES ASSUME NEW u, u \in Contents(m, k) PROVE u \in Range(f)
    OBVIOUS
  <2>1. PICK b \in Blocks : Holds(m, b, u)
    BY ContentsIs
  <2>2. PICK i \in 1 .. Len(m.data[b]) : m.data[b][i] = u
    BY <2>1 DEF Holds
  <2>3. Len(m.data[b]) <= BLOCK_SIZE /\ Len(m.data[b]) \in Nat
    BY <1>1, <1>2 DEF ShapeParts, IsHeap
  <2>4. <<b, i>> \in slots
    BY <1>3, <2>2, <2>3, BlockSizeAssumption
  <2>5. f[<<b, i>>] = u
    BY <1>5, <2>2, <2>4
  <2> QED
    BY <1>5, <2>4, <2>5 DEF Range
<1> QED
  BY <1>6, <1>7, FS_Subset

\* The scan begins, with nextswap at the same slot.
LEMMA StartSwapInv ==
  ASSUME Inv, StartSwap
  PROVE  Inv' /\ Simulates
<1>1. PICK P, pos : Layout(P, pos)
  BY DEF Inv
<1>2. Shape(mem, shared, P, pos) /\ Distinct(mem, P, NULL, 0) /\ HeldOut(mem, P, held)
  BY <1>1, PlacesAre
<1>3. /\ UNCHANGED <<scheme, mem, shared, held>> /\ pc = "idle" /\ pc' = "swap"
      /\ announced' \in SUBSET InBag("retired") /\ it' = Begin(mem, "retired") /\ nextswap' = it'
      /\ scheme = "debraplus"
  BY DEF StartSwap, Goto
<1>4. mem.head["retired"] # NULL
  BY <1>3 DEF Inv, Control, Alive
<1>5. /\ it' \in Iterators /\ (AtEnd(it') \/ In(mem, P, "retired", it'))
      /\ \A b \in Blocks : P[b] = "retired" => \A i \in 1 .. Len(mem.data[b]) : ~Before(pos, b, i, it')
  BY <1>2, <1>3, <1>4, BeginIs, KindsAre
<1>6. announced' \subseteq Objects
  <2>1. \A u : u \in InBag("retired") => Has(mem, P, {"retired"}, u)
    BY <1>2, ReadyIs, NowIs
  <2>2. \A u : Has(mem, P, {"retired"}, u) => u \in Objects
    BY <1>2, HeldObjects DEF Has
  <2> QED
    BY <1>3, <2>1, <2>2
<1>7. Control'
  BY <1>3, <1>5, <1>6 DEF Inv, Control, Alive, Pooled
<1>8. SwapAt(mem, P, pos, it', nextswap', announced')
  <2>1. ~AtEnd(it') => it'.ix \in Nat
    BY <1>5, BlockSizeAssumption DEF Iterators
  <2>2. ~AtEnd(it') => NotAfter(pos, it', it')
    BY <2>1 DEF NotAfter
  <2>3. IsFiniteSet(announced')
    <3>1. IsFiniteSet(InBag("retired"))
      BY <1>2, <1>4, MembersFinite, KindsAre DEF InBag, Alive
    <3> QED
      BY <1>3, <3>1, FS_Subset
  <2> QED
    BY <1>3, <1>5, <2>2, <2>3 DEF SwapAt
<1>9. Layout(P, pos)'
  BY <1>2, <1>3, <1>8 DEF Layout
<1>10. Simulates
  BY <1>3, AnnounceStep
<1> QED
  BY <1>7, <1>9, <1>10 DEF Inv

\* A slot keeps its place when two objects are swapped.
LEMMA SwapIn ==
  ASSUME NEW m, NEW w, NEW P, NEW k, NEW x, NEW y, Swapped(m, w, x, y), NEW a
  PROVE  In(w, P, k, a) <=> In(m, P, k, a)
BY DEF Swapped, In

\* The object looked at is announced: it goes to the slot y.
LEMMA SwapAnnounced ==
  ASSUME NEW m, NEW w, NEW sh, NEW P, NEW pos, Shape(m, sh, P, pos), NEW x \in Iterators, NEW y \in Iterators,
         NEW A, SwapAt(m, P, pos, x, y, A), ~AtEnd(x), At(m, x) \in A, Swapped(m, w, x, y),
         NEW a, NEW c, Next1(m, P, pos, "retired", x, a), Next1(m, P, pos, "retired", y, c)
  PROVE  SwapAt(w, P, pos, a, c, A)
<1>1. ~AtEnd(y) /\ In(m, P, "retired", x) /\ In(m, P, "retired", y) /\ NotAfter(pos, y, x)
  BY DEF SwapAt
<1>2. (AtEnd(c) => AtEnd(a)) /\ (~AtEnd(a) => NotAfter(pos, c, a))
  BY <1>1, NotAfterBoth, KindsAre
<1>3. (~AtEnd(a) => In(w, P, "retired", a)) /\ (~AtEnd(c) => In(w, P, "retired", c))
  BY SwapIn DEF Next1
<1>4. ASSUME NEW b \in Blocks, P[b] = "retired", NEW i \in 1 .. Len(w.data[b]),
             Before(pos, b, i, a), ~Before(pos, b, i, c)
      PROVE  w.data[b][i] \notin A
  <2>1. i \in 1 .. Len(m.data[b])
    BY <1>4 DEF Swapped
  <2>2. Before(pos, b, i, x) \/ (b = x.curr /\ i = x.ix)
    BY <1>1, <1>4, <2>1, BeforeStep, KindsAre DEF In
  <2>3. ~Before(pos, b, i, y) /\ ~(b = y.curr /\ i = y.ix)
    BY <1>1, <1>4, <2>1, BeforeNext, KindsAre DEF In
  <2>4. CASE b = x.curr /\ i = x.ix
    <3>1. w.data[b][i] = m.data[y.curr][y.ix]
      BY <2>1, <2>4 DEF Swapped, At
    <3>2. Before(pos, y.curr, y.ix, x)
      <4>1. ~(y.curr = x.curr /\ y.ix = x.ix)
        BY <2>3, <2>4
      <4>2. x.ix \in Nat /\ y.ix \in Nat
        BY BlockSizeAssumption DEF Iterators
      <4> QED
        BY <1>1, <4>1, <4>2 DEF NotAfter, Before
    <3>3. ~Before(pos, y.curr, y.ix, y)
      <4>1. pos[y.curr] \in Nat /\ y.ix \in Nat
        BY <1>1, PlacesOrdered, KindsAre, BlockSizeAssumption DEF In, Iterators
      <4> QED
        BY <1>1, <4>1 DEF Before
    <3> QED
      BY <1>1, <3>1, <3>2, <3>3 DEF SwapAt, In
  <2>5. CASE ~(b = x.curr /\ i = x.ix)
    <3>1. w.data[b][i] = m.data[b][i]
      BY <2>1, <2>3, <2>5 DEF Swapped
    <3> QED
      BY <1>4, <2>1, <2>2, <2>3, <2>5, <3>1 DEF SwapAt
  <2> QED
    BY <2>4, <2>5
<1>5. ASSUME NEW b \in Blocks, P[b] = "retired", NEW i \in 1 .. Len(w.data[b]), Before(pos, b, i, c)
      PROVE  w.data[b][i] \in A
  <2>1. i \in 1 .. Len(m.data[b])
    BY <1>5 DEF Swapped
  <2>2. Before(pos, b, i, y) \/ (b = y.curr /\ i = y.ix)
    BY <1>1, <1>5, <2>1, BeforeStep, KindsAre DEF In
  <2>3. CASE b = y.curr /\ i = y.ix
    <3>1. w.data[b][i] = At(m, x)
      BY <2>1, <2>3 DEF Swapped, At
    <3> QED
      BY <3>1
  <2>4. CASE ~(b = y.curr /\ i = y.ix)
    <3>1. Before(pos, b, i, y)
      BY <2>2, <2>4
    <3>2. ~(b = x.curr /\ i = x.ix)
      <4>1. x.ix \in Nat /\ y.ix \in Nat /\ pos[x.curr] \in Nat /\ pos[y.curr] \in Nat
        BY <1>1, PlacesOrdered, KindsAre, BlockSizeAssumption DEF In, Iterators
      <4> QED
        BY <1>1, <3>1, <4>1 DEF NotAfter, Before
    <3>3. w.data[b][i] = m.data[b][i]
      BY <2>1, <2>4, <3>2 DEF Swapped
    <3> QED
      BY <1>5, <2>1, <3>1, <3>3 DEF SwapAt
  <2> QED
    BY <2>3, <2>4
<1> QED
  BY <1>2, <1>3, <1>4, <1>5 DEF SwapAt

\* It is not announced: it stays.
LEMMA SwapPassed ==
  ASSUME NEW m, NEW sh, NEW P, NEW pos, Shape(m, sh, P, pos), NEW x \in Iterators, NEW y \in Iterators,
         NEW A, SwapAt(m, P, pos, x, y, A), ~AtEnd(x), At(m, x) \notin A,
         NEW a, Next1(m, P, pos, "retired", x, a)
  PROVE  SwapAt(m, P, pos, a, y, A)
<1>1. ~AtEnd(y) /\ In(m, P, "retired", x) /\ In(m, P, "retired", y) /\ NotAfter(pos, y, x)
  BY DEF SwapAt
<1>2. ~AtEnd(a) => In(m, P, "retired", a) /\ NotAfter(pos, y, a)
  BY <1>1, NotAfterNext, KindsAre DEF Next1
<1>3. ASSUME NEW b \in Blocks, P[b] = "retired", NEW i \in 1 .. Len(m.data[b]),
             Before(pos, b, i, a), ~Before(pos, b, i, y)
      PROVE  m.data[b][i] \notin A
  <2>1. Before(pos, b, i, x) \/ (b = x.curr /\ i = x.ix)
    BY <1>1, <1>3, BeforeStep, KindsAre DEF In
  <2>2. CASE b = x.curr /\ i = x.ix
    BY <2>2 DEF At
  <2>3. CASE Before(pos, b, i, x)
    BY <1>3, <2>3 DEF SwapAt
  <2> QED
    BY <2>1, <2>2, <2>3
<1> QED
  BY <1>1, <1>2, <1>3 DEF SwapAt

\* An iteration of the scan.
LEMMA SwapStepInv ==
  ASSUME Inv, SwapStep
  PROVE  Inv' /\ Simulates
<1>1. PICK P, pos : Layout(P, pos)
  BY DEF Inv
<1>2. Shape(mem, shared, P, pos) /\ Distinct(mem, P, NULL, 0) /\ HeldOut(mem, P, held)
  BY <1>1, PlacesAre
<1>3. /\ UNCHANGED <<scheme, shared, held, announced, pc>> /\ pc = "swap" /\ ~AtEnd(it)
      /\ it' = Advance(mem, it)
  BY DEF SwapStep, AtEnd
<1>4. SwapAt(mem, P, pos, it, nextswap, announced) /\ it \in Iterators /\ nextswap \in Iterators
  BY <1>1, <1>3 DEF Layout, Inv, Control
<1>5. In(mem, P, "retired", it) /\ In(mem, P, "retired", nextswap)
  BY <1>3, <1>4 DEF SwapAt
<1>6. it' \in Iterators /\ Next1(mem, P, pos, "retired", it, it')
  BY <1>2, <1>3, <1>4, <1>5, AdvanceIs, KindsAre DEF In
<1>7. CASE At(mem, it) \in announced
  <2>1. mem' = Swap(mem, it, nextswap) /\ nextswap' = Advance(mem, nextswap)
    BY <1>7 DEF SwapStep
  <2>2. Swapped(mem, mem', it, nextswap)
    BY <1>2, <1>5, <2>1, SwapIs DEF Shape
  <2>3. nextswap' \in Iterators /\ Next1(mem, P, pos, "retired", nextswap, nextswap')
    BY <1>2, <1>4, <1>5, <2>1, AdvanceIs, KindsAre DEF In
  <2>4. Shape(mem', shared', P, pos)
    BY <1>2, <1>3, <1>5, <2>2, SwapShape, KindsAre
  <2>5. Distinct(mem', P, NULL, 0) /\ HeldOut(mem', P, held')
    BY <1>2, <1>3, <1>5, <2>2, SwapDistinct, KindsAre DEF HeldOut
  <2>6. SwapAt(mem', P, pos, it', nextswap', announced')
    BY <1>2, <1>3, <1>4, <1>6, <1>7, <2>2, <2>3, SwapAnnounced
  <2>7. mem'.head = mem.head
    BY <2>2 DEF Swapped, OnlyData
  <2>8. Control'
    BY <1>3, <1>6, <2>3, <2>7 DEF Inv, Control, Alive, Pooled
  <2>9. Layout(P, pos)'
    BY <1>3, <2>4, <2>5, <2>6 DEF Layout
  <2>10. \A K \in Kinds : Keeps(mem, P, mem', P, K)
    BY <1>5, <2>2, SwapEffect
  <2>11. Simulates
    BY <1>2, <1>3, <2>4, <2>10, StillStep
  <2> QED
    BY <2>8, <2>9, <2>11 DEF Inv
<1>8. CASE At(mem, it) \notin announced
  <2>1. mem' = mem /\ nextswap' = nextswap
    BY <1>8 DEF SwapStep
  <2>2. SwapAt(mem', P, pos, it', nextswap', announced')
    BY <1>2, <1>3, <1>4, <1>6, <1>8, <2>1, SwapPassed
  <2>3. Control'
    BY <1>3, <1>6, <2>1 DEF Inv, Control, Alive, Pooled
  <2>4. /\ Shape(mem', shared', P, pos) /\ Distinct(mem', P, NULL, 0) /\ HeldOut(mem', P, held')
        /\ Simulates
    BY <1>1, <1>3, <2>1, SameHeap
  <2>5. Layout(P, pos)'
    BY <1>3, <2>2, <2>4 DEF Layout
  <2> QED
    BY <2>3, <2>4, <2>5 DEF Inv
<1> QED
  BY <1>7, <1>8

\* The scan ends: the blocks behind nextswap hold no announced object.
LEMMA SwapEndInv ==
  ASSUME Inv, SwapEnd
  PROVE  Inv' /\ Simulates
<1>1. PICK P, pos : Layout(P, pos)
  BY DEF Inv
<1>2. Shape(mem, shared, P, pos) /\ Distinct(mem, P, NULL, 0) /\ HeldOut(mem, P, held)
  BY <1>1, PlacesAre
<1>3. /\ UNCHANGED <<scheme, shared, held, it>> /\ pc = "swap" /\ AtEnd(it)
      /\ pc' = (IF nextswap.curr = NULL THEN "idle" ELSE "give")
      /\ announced' = {} /\ nextswap' = NoIterator
  BY DEF SwapEnd, AtEnd, Goto
<1>4. SwapAt(mem, P, pos, it, nextswap, announced)
  BY <1>1, <1>3 DEF Layout
<1>5. nextswap' \in Iterators
  BY <1>3, BlockSizeAssumption DEF NoIterator, Iterators
<1>6. mem.head["retired"] # NULL /\ mem.head["free"] # NULL /\ Pooled
  BY <1>3 DEF Inv, Control, Alive
<1>7. \E Q, qos : /\ Shape(mem', shared', Q, qos) /\ Distinct(mem', Q, NULL, 0) /\ HeldOut(mem', Q, held')
                  /\ mem'.head = mem.head /\ Simulates
  <2>1. CASE nextswap.curr = NULL
    <3>1. mem' = mem
      BY <2>1 DEF SwapEnd
    <3> QED
      BY <1>1, <1>3, <3>1, SameHeap
  <2>2. CASE nextswap.curr # NULL
    <3>1. mem' = AppendMoveFullBlocks(mem, "free", "retired", nextswap.curr)
      BY <2>2 DEF SwapEnd
    <3>2. In(mem, P, "retired", nextswap)
      BY <1>4, <2>2 DEF SwapAt, AtEnd
    <3>3. PICK Q, qos : /\ Shape(mem', shared', Q, qos)
                        /\ BlocksMoved(mem, mem', P, Q, pos, "free", "retired", nextswap.curr)
      BY <1>2, <1>3, <1>6, <3>1, <3>2, MoveBlocksIs, KindsAre DEF In
    <3>4. ASSUME NEW b \in Blocks, Q[b] # P[b], NEW u, Holds(mem, b, u) PROVE u \notin announced
      <4>1. P[b] = "retired" /\ pos[b] < pos[nextswap.curr]
        BY <3>3, <3>4 DEF BlocksMoved
      <4>2. PICK i \in 1 .. Len(mem.data[b]) : mem.data[b][i] = u
        BY <3>4 DEF Holds
      <4>3. Before(pos, b, i, it)
        BY <1>3 DEF Before
      <4>4. ~Before(pos, b, i, nextswap)
        <5>1. pos[b] \in Nat /\ pos[nextswap.curr] \in Nat
          BY <1>2, <3>2, ShapeIs DEF ShapeParts, In
        <5> QED
          BY <2>2, <4>1, <5>1 DEF Before, AtEnd
      <4> QED
        BY <1>4, <4>1, <4>2, <4>3, <4>4 DEF SwapAt
    <3>5. Distinct(mem', Q, NULL, 0) /\ HeldOut(mem', Q, held') /\ mem'.head = mem.head /\ Simulates
      BY <1>1, <1>3, <3>3, <3>4, BlocksMovedStep
    <3> QED
      BY <3>3, <3>5
  <2> QED
    BY <2>1, <2>2
<1>8. PICK Q, qos : /\ Shape(mem', shared', Q, qos) /\ Distinct(mem', Q, NULL, 0) /\ HeldOut(mem', Q, held')
                    /\ mem'.head = mem.head /\ Simulates
  BY <1>7
<1>9. Control'
  BY <1>3, <1>5, <1>6, <1>8 DEF Inv, Control, Alive, Pooled
<1>10. Layout(Q, qos)'
  BY <1>3, <1>8, QuietLayout
<1> QED
  BY <1>8, <1>9, <1>10 DEF Inv

-----------------------------------------------------------------------------
\* How many blocks a scan leaves

\* n blocks of d slots each.
LEMMA SlotCount ==
  ASSUME NEW n \in Nat, NEW d \in Nat
  PROVE  Cardinality((1 .. n) \X (1 .. d)) = n * d
<1>1. \A k \in Nat : IsFiniteSet(1 .. k) /\ Cardinality(1 .. k) = k
  BY FS_Interval
<1>2. IsFiniteSet(1 .. n) /\ Cardinality(1 .. n) = n /\ IsFiniteSet(1 .. d) /\ Cardinality(1 .. d) = d
  BY <1>1
<1>3. Cardinality((1 .. n) \X (1 .. d)) = Cardinality(1 .. n) * Cardinality(1 .. d)
  BY <1>2, FS_Product
<1> QED
  BY <1>2, <1>3

\* Equal contents are those of one slot.
LEMMA OneSlot ==
  ASSUME NEW m, NEW P, Distinct(m, P, NULL, 0), NEW b \in Blocks, NEW c \in Blocks,
         P[b] # "none", P[c] # "none", b # NULL, c # NULL,
         NEW i \in 1 .. Len(m.data[b]), NEW j \in 1 .. Len(m.data[c]),
         m.data[b][i] = m.data[c][j]
  PROVE  b = c /\ i = j
BY ZenonT(30) DEF Distinct

\* The objects of full blocks are as many as the slots of these blocks: if those
\* of the blocks behind the head and before place low are in A, A has as many.
LEMMA FullBlocksCount ==
  ASSUME NEW m, NEW sh, NEW P, NEW pos, Shape(m, sh, P, pos), Distinct(m, P, NULL, 0),
         NEW k \in Bags, m.head[k] # NULL, NEW A, IsFiniteSet(A),
         NEW low \in Nat, NEW n \in Nat, n = m.sizeInBlocks[k] - 1 - low,
         \A b \in Blocks : P[b] = k /\ pos[b] > low =>
           \A i \in 1 .. Len(m.data[b]) : m.data[b][i] \in A
  PROVE  n * BLOCK_SIZE <= Cardinality(A)
<1>1. ShapeParts(m, sh, P, pos)
  BY ShapeIs
<1>2. IsList(m, P, pos, k) /\ pos \in [Blocks -> Nat]
  BY <1>1 DEF ShapeParts, Lists
<1>3. \A j \in 1 .. n : \E b \in Blocks : P[b] = k /\ pos[b] = low + j
  <2> SUFFICES ASSUME NEW j \in 1 .. n PROVE \E b \in Blocks : P[b] = k /\ pos[b] = low + j
    OBVIOUS
  <2>1. m.sizeInBlocks[k] \in Nat /\ low + j \in 1 .. m.sizeInBlocks[k]
    BY <1>2 DEF IsList
  <2> QED
    BY <1>2, <2>1 DEF IsList
<1>4. PICK B : B = [j \in 1 .. n |-> CHOOSE b \in Blocks : P[b] = k /\ pos[b] = low + j]
  OBVIOUS
<1>5. \A j \in 1 .. n : B[j] \in Blocks /\ P[B[j]] = k /\ pos[B[j]] = low + j
  BY <1>3, <1>4
<1>6. \A j \in 1 .. n : Len(m.data[B[j]]) = BLOCK_SIZE
  <2> SUFFICES ASSUME NEW j \in 1 .. n PROVE Len(m.data[B[j]]) = BLOCK_SIZE
    OBVIOUS
  <2>1. B[j] \in Blocks /\ P[B[j]] = k /\ pos[B[j]] = low + j
    BY <1>5
  <2>2. m.sizeInBlocks[k] \in Nat /\ pos[m.head[k]] = m.sizeInBlocks[k]
    BY <1>2 DEF IsList
  <2>3. B[j] # m.head[k]
    BY <2>1, <2>2
  <2> QED
    BY <1>2, <2>1, <2>3 DEF IsList, Filled
<1>7. PICK slots : slots = (1 .. n) \X (1 .. BLOCK_SIZE)
  OBVIOUS
<1>8. PICK f : f = [s \in slots |-> m.data[B[s[1]]][s[2]]]
  OBVIOUS
<1>9. ASSUME NEW s \in slots
      PROVE  /\ s[1] \in 1 .. n /\ s[2] \in 1 .. Len(m.data[B[s[1]]]) /\ s = <<s[1], s[2]>>
             /\ B[s[1]] \in Blocks /\ P[B[s[1]]] = k /\ pos[B[s[1]]] = low + s[1]
             /\ f[s] = m.data[B[s[1]]][s[2]]
  <2>1. s[1] \in 1 .. n /\ s[2] \in 1 .. BLOCK_SIZE /\ s = <<s[1], s[2]>>
    BY <1>7
  <2> QED
    BY <1>5, <1>6, <1>8, <2>1
<1>10. f \in [slots -> A]
  <2>1. ASSUME NEW s \in slots PROVE f[s] \in A
    <3>1. pos[B[s[1]]] > low
      BY <1>9
    <3> QED
      BY <1>9, <3>1
  <2> QED
    BY <1>8, <2>1
<1>11. ASSUME NEW s \in slots, NEW t \in slots, f[s] = f[t] PROVE s = t
  <2>1. k # "none"
    BY BagsAssumption
  <2>2. PICK b, i : /\ b \in Blocks /\ i \in 1 .. Len(m.data[b]) /\ P[b] = k
                    /\ b = B[s[1]] /\ i = s[2] /\ f[s] = m.data[b][i]
    BY <1>9
  <2>3. PICK c, j : /\ c \in Blocks /\ j \in 1 .. Len(m.data[c]) /\ P[c] = k
                    /\ c = B[t[1]] /\ j = t[2] /\ f[t] = m.data[c][j]
    BY <1>9
  <2>4. b # NULL /\ c # NULL
    BY <2>2, <2>3, NullAssumption
  <2>5. m.data[b][i] = m.data[c][j]
    BY <1>11, <2>2, <2>3
  <2>6. B[s[1]] = B[t[1]] /\ s[2] = t[2]
    <3>1. P[b] # "none" /\ P[c] # "none"
      BY <2>1, <2>2, <2>3
    <3>2. /\ b \in Blocks /\ c \in Blocks
          /\ i \in 1 .. Len(m.data[b]) /\ j \in 1 .. Len(m.data[c])
      BY <2>2, <2>3
    <3>3. b = c /\ i = j
      <4>1. ASSUME NEW bb \in Blocks, NEW cc \in Blocks, bb # NULL, cc # NULL,
                   P[bb] # "none", P[cc] # "none",
                   NEW ii \in 1 .. Len(m.data[bb]), NEW jj \in 1 .. Len(m.data[cc]),
                   m.data[bb][ii] = m.data[cc][jj]
            PROVE  bb = cc /\ ii = jj
        BY <4>1, OneSlot
      <4> QED
        BY <2>4, <2>5, <3>1, <3>2, <4>1
    <3> QED
      BY <2>2, <2>3, <3>3
  <2>7. low + s[1] = low + t[1]
    BY <1>9, <2>6
  <2>8. s[1] = t[1]
    BY <1>9, <2>7
  <2> QED
    BY <1>9, <2>6, <2>8
<1>12. f \in Injection(slots, A)
  BY <1>10, <1>11 DEF Injection, IsInjective
<1>13. Cardinality(slots) <= Cardinality(A)
  BY <1>12, FS_Injection
<1>14. Cardinality(slots) = n * BLOCK_SIZE
  BY <1>7, SlotCount, BlockSizeAssumption
<1> QED
  BY <1>13, <1>14

\* Rounding down.
LEMMA Quotient ==
  ASSUME NEW n \in Nat, NEW d \in Nat \ {0}, NEW c \in Nat, n * d <= c
  PROVE  n <= c \div d /\ c \div d \in Nat
<1>1. PICK q : q = c \div d /\ q \in Nat
  OBVIOUS
<1>2. c < (q + 1) * d
  BY <1>1
<1>3. ASSUME q < n PROVE FALSE
  <2>1. PICK e \in Nat : n = q + 1 + e
    <3>1. n - (q + 1) \in Nat /\ n = q + 1 + (n - (q + 1))
      BY <1>1, <1>3
    <3> QED
      BY <3>1
  <2>2. n * d = (q + 1) * d + e * d
    BY <1>1, <2>1
  <2>3. e * d \in Nat /\ (q + 1) * d \in Nat
    BY <1>1
  <2> QED
    BY <1>2, <2>2, <2>3
<1> QED
  BY <1>1, <1>3

\* At the end of a scan the blocks that stay are full of announced objects, but the
\* head and the block of nextswap.
LEMMA FewStay ==
  ASSUME Inv, SwapEnd
  PROVE  mem'.sizeInBlocks["retired"] <= Cardinality(announced) \div BLOCK_SIZE + 2
<1>1. PICK P, pos : Layout(P, pos)
  BY DEF Inv
<1>2. Shape(mem, shared, P, pos) /\ Distinct(mem, P, NULL, 0)
  BY <1>1, PlacesAre
<1>3. pc = "swap" /\ AtEnd(it)
  BY DEF SwapEnd, AtEnd, Goto
<1>4. SwapAt(mem, P, pos, it, nextswap, announced)
  BY <1>1, <1>3 DEF Layout
<1>5. mem.head["retired"] # NULL /\ mem.head["free"] # NULL
  BY <1>3 DEF Inv, Control, Alive, Pooled
<1>6. IsFiniteSet(announced) /\ Cardinality(announced) \in Nat
  BY <1>4, FS_CardinalityType DEF SwapAt
<1>7. pos \in [Blocks -> Nat] /\ IsList(mem, P, pos, "retired")
  BY <1>2, <1>5, ShapeIs, KindsAre DEF ShapeParts, Lists
<1>8. PICK n \in Nat : n = mem.sizeInBlocks["retired"] /\ n # 0
  BY <1>7 DEF IsList
<1>9. CASE nextswap.curr = NULL
  <2>1. mem' = mem
    BY <1>9 DEF SwapEnd
  <2>2. ASSUME NEW b \in Blocks, P[b] = "retired", NEW i \in 1 .. Len(mem.data[b])
        PROVE  mem.data[b][i] \in announced
    <3>1. Before(pos, b, i, nextswap)
      BY <1>9 DEF Before, AtEnd
    <3> QED
      BY <1>4, <2>2, <3>1 DEF SwapAt
  <2>3. PICK j \in Nat : j = n - 1 /\ j = n - 1 - 0
    BY <1>8
  <2>4. j * BLOCK_SIZE <= Cardinality(announced)
    BY <1>2, <1>5, <1>6, <1>8, <2>2, <2>3, FullBlocksCount, KindsAre
  <2>5. j <= Cardinality(announced) \div BLOCK_SIZE /\ Cardinality(announced) \div BLOCK_SIZE \in Nat
    BY <1>6, <2>4, Quotient, BlockSizeAssumption
  <2> QED
    BY <1>8, <2>1, <2>3, <2>5
<1>10. CASE nextswap.curr # NULL
  <2>1. mem' = AppendMoveFullBlocks(mem, "free", "retired", nextswap.curr)
    BY <1>10 DEF SwapEnd
  <2>2. In(mem, P, "retired", nextswap)
    BY <1>4, <1>10 DEF SwapAt, AtEnd
  <2>3. mem'.sizeInBlocks["retired"] = n - (pos[nextswap.curr] - 1)
    <3>1. "free" # "retired"
      OBVIOUS
    <3>2. \E Q : BlocksMoved(mem, mem', P, Q, pos, "free", "retired", nextswap.curr)
      BY <1>2, <1>5, <2>1, <2>2, <3>1, MoveBlocksIs, KindsAre DEF In
    <3> QED
      BY <1>8, <3>2 DEF BlocksMoved
  <2>4. PICK low \in Nat : low = pos[nextswap.curr] /\ low \in 1 .. n
    BY <1>7, <1>8, <2>2 DEF In, IsList
  <2>5. CASE low = n
    <3>1. mem'.sizeInBlocks["retired"] = 1
      BY <2>3, <2>4, <2>5
    <3>2. 0 <= Cardinality(announced) \div BLOCK_SIZE /\ Cardinality(announced) \div BLOCK_SIZE \in Nat
      BY <1>6, Quotient, BlockSizeAssumption
    <3> QED
      BY <3>1, <3>2
  <2>6. CASE low < n
    <3>1. ASSUME NEW b \in Blocks, P[b] = "retired", pos[b] > low, NEW i \in 1 .. Len(mem.data[b])
          PROVE  mem.data[b][i] \in announced
      <4>1. Before(pos, b, i, nextswap)
        BY <2>4, <3>1 DEF Before
      <4> QED
        BY <1>4, <3>1, <4>1 DEF SwapAt
    <3>2. PICK j \in Nat : j = n - 1 - low
      BY <2>4, <2>6
    <3>3. j * BLOCK_SIZE <= Cardinality(announced)
      <4>1. \A b \in Blocks : P[b] = "retired" /\ pos[b] > low =>
              \A i \in 1 .. Len(mem.data[b]) : mem.data[b][i] \in announced
        BY <3>1
      <4>2. j = mem.sizeInBlocks["retired"] - 1 - low /\ "retired" \in Bags
        BY <1>8, <3>2, KindsAre
      <4> QED
        BY ONLY <1>2, <1>5, <1>6, <4>1, <4>2, j \in Nat, low \in Nat, FullBlocksCount
    <3>4. j <= Cardinality(announced) \div BLOCK_SIZE /\ Cardinality(announced) \div BLOCK_SIZE \in Nat
      BY <1>6, <3>3, Quotient, BlockSizeAssumption
    <3> QED
      BY <2>3, <2>4, <3>2, <3>4
  <2> QED
    BY <2>4, <2>5, <2>6
<1> QED
  BY <1>9, <1>10

-----------------------------------------------------------------------------
\* The scan that erases

\* The scan begins.
LEMMA StartFilterInv ==
  ASSUME Inv, StartFilter
  PROVE  Inv' /\ Simulates
<1>1. PICK P, pos : Layout(P, pos)
  BY DEF Inv
<1>2. Shape(mem, shared, P, pos) /\ Distinct(mem, P, NULL, 0) /\ HeldOut(mem, P, held)
  BY <1>1, PlacesAre
<1>3. /\ UNCHANGED <<scheme, mem, shared, held, nextswap>> /\ pc = "idle" /\ pc' = "filter"
      /\ announced' \in SUBSET InBag("retired") /\ it' = Begin(mem, "retired") /\ scheme = "filter"
  BY DEF StartFilter, Goto
<1>4. mem.head["retired"] # NULL
  BY <1>3 DEF Inv, Control, Alive
<1>5. /\ it' \in Iterators /\ (AtEnd(it') \/ In(mem, P, "retired", it'))
      /\ \A b \in Blocks : P[b] = "retired" => \A i \in 1 .. Len(mem.data[b]) : ~Before(pos, b, i, it')
  BY <1>2, <1>3, <1>4, BeginIs, KindsAre
<1>6. announced' \subseteq Objects
  <2>1. \A u : u \in InBag("retired") => Has(mem, P, {"retired"}, u)
    BY <1>2, ReadyIs, NowIs
  <2>2. \A u : Has(mem, P, {"retired"}, u) => u \in Objects
    BY <1>2, HeldObjects DEF Has
  <2> QED
    BY <1>3, <2>1, <2>2
<1>7. Control'
  BY <1>3, <1>5, <1>6 DEF Inv, Control, Alive, Pooled
<1>8. Filtered(mem, P, pos, it', announced')
  BY <1>5 DEF Filtered
<1>9. Layout(P, pos)'
  BY <1>2, <1>3, <1>8 DEF Layout
<1>10. Simulates
  BY <1>3, AnnounceStep
<1> QED
  BY <1>7, <1>9, <1>10 DEF Inv

\* An iteration that finds an announced object.
LEMMA FilterKeepInv ==
  ASSUME Inv, FilterKeep
  PROVE  Inv' /\ Simulates
<1>1. PICK P, pos : Layout(P, pos)
  BY DEF Inv
<1>2. Shape(mem, shared, P, pos)
  BY <1>1, PlacesAre
<1>3. /\ UNCHANGED <<scheme, mem, shared, held, announced, pc, nextswap>> /\ pc = "filter" /\ ~AtEnd(it)
      /\ At(mem, it) \in announced /\ it' = Advance(mem, it)
  BY DEF FilterKeep, AtEnd
<1>4. Filtered(mem, P, pos, it, announced) /\ it \in Iterators
  BY <1>1, <1>3 DEF Layout, Inv, Control
<1>5. In(mem, P, "retired", it)
  BY <1>3, <1>4 DEF Filtered
<1>6. it' \in Iterators /\ Next1(mem, P, pos, "retired", it, it')
  BY <1>2, <1>3, <1>4, <1>5, AdvanceIs, KindsAre DEF In
<1>7. ASSUME NEW b \in Blocks, P[b] = "retired", NEW i \in 1 .. Len(mem.data[b]), Before(pos, b, i, it')
      PROVE  mem.data[b][i] \in announced
  <2>1. Before(pos, b, i, it) \/ (b = it.curr /\ i = it.ix)
    BY <1>2, <1>4, <1>5, <1>6, <1>7, BeforeStep, KindsAre DEF In
  <2> QED
    BY <1>3, <1>4, <1>7, <2>1 DEF Filtered, At
<1>8. Filtered(mem, P, pos, it', announced)
  BY <1>6, <1>7 DEF Filtered, Next1
<1>9. /\ Shape(mem', shared', P, pos) /\ Distinct(mem', P, NULL, 0) /\ HeldOut(mem', P, held')
      /\ Simulates
  BY <1>1, <1>3, SameHeap
<1>10. Control'
  BY <1>3, <1>6 DEF Inv, Control, Alive, Pooled
<1>11. Layout(P, pos)'
  BY <1>3, <1>8, <1>9 DEF Layout
<1> QED
  BY <1>9, <1>10, <1>11 DEF Inv

\* The scan ends.
LEMMA FilterEndInv ==
  ASSUME Inv, FilterEnd
  PROVE  Inv' /\ Simulates
<1>1. PICK P, pos : Layout(P, pos)
  BY DEF Inv
<1>2. /\ UNCHANGED <<scheme, mem, shared, held, it, nextswap>> /\ announced' = {}
      /\ pc = "filter" /\ pc' = "idle"
  BY DEF FilterEnd, Goto
<1>3. /\ Shape(mem', shared', P, pos) /\ Distinct(mem', P, NULL, 0) /\ HeldOut(mem', P, held')
      /\ Simulates
  BY <1>1, <1>2, SameHeap
<1>4. Control'
  BY <1>2 DEF Inv, Control, Alive, Pooled
<1>5. Layout(P, pos)'
  BY <1>2, <1>3, QuietLayout
<1> QED
  BY <1>3, <1>4, <1>5 DEF Inv

\* The bag retired is the same, and so is what an iterator has passed.
LEMMA SameFiltered ==
  ASSUME NEW m, NEW P, NEW pos, NEW a, NEW R, NEW ros, SameBag(m, P, pos, a, R, ros, "retired"),
         NEW x, NEW A, Filtered(m, P, pos, x, A), ~AtEnd(x)
  PROVE  Filtered(a, R, ros, x, A) /\ In(a, R, "retired", x)
<1>1. In(m, P, "retired", x)
  BY DEF Filtered
<1>2. In(a, R, "retired", x) /\ ros[x.curr] = pos[x.curr]
  BY <1>1 DEF In, SameBag
<1>3. ASSUME NEW b \in Blocks, R[b] = "retired", NEW i \in 1 .. Len(a.data[b]), Before(ros, b, i, x)
      PROVE  a.data[b][i] \in A
  <2>1. P[b] = "retired" /\ ros[b] = pos[b] /\ a.data[b] = m.data[b]
    BY <1>3 DEF SameBag
  <2>2. Before(pos, b, i, x)
    BY <1>2, <1>3, <2>1 DEF Before
  <2> QED
    BY <1>3, <2>1, <2>2 DEF Filtered
<1> QED
  BY <1>2, <1>3 DEF Filtered

\* What stays before the slot that erase fills.
LEMMA ErasedBefore ==
  ASSUME NEW m, NEW w, NEW sh, NEW P, NEW pos, Shape(m, sh, P, pos), NEW Q, NEW g, NEW x \in Iterators, NEW A,
         Filtered(m, P, pos, x, A), In(m, P, "retired", x), ~AtEnd(x),
         HeadLeft(m, P, Q, "retired"), Top(m, P, pos, "retired", g),
         Erased(m, w, "retired", g, x.curr, x.ix),
         NEW c \in Blocks, Q[c] = "retired", NEW i \in 1 .. Len(w.data[c]), Before(pos, c, i, x)
  PROVE  w.data[c][i] \in A
<1>1. P[c] = "retired"
  BY DEF HeadLeft
<1>2. pos[x.curr] \in Nat /\ x.ix \in Nat /\ pos[c] \in Nat
  BY ShapeIs, BlockSizeAssumption DEF ShapeParts, In, Iterators
<1>3. ~(c = x.curr /\ i = x.ix)
  BY <1>2 DEF Before
<1>4. Len(m.data[c]) \in Nat /\ Len(m.data[g]) \in Nat
  BY ShapeIs DEF ShapeParts, IsHeap, Top
<1>5. i \in 1 .. Len(m.data[c]) /\ w.data[c][i] = m.data[c][i]
  <2>1. CASE c = g
    <3>1. i \in 1 .. Len(m.data[g]) - 1
      BY <1>4, <2>1 DEF Erased
    <3>2. w.data[g][i] = m.data[g][i]
      BY <1>3, <2>1, <3>1 DEF Erased
    <3> QED
      BY <1>4, <2>1, <3>1, <3>2
  <2>2. CASE c # g /\ c = x.curr
    BY <1>3, <2>2 DEF Erased
  <2>3. CASE c # g /\ c # x.curr
    BY <2>3 DEF Erased
  <2> QED
    BY <2>1, <2>2, <2>3
<1> QED
  BY <1>1, <1>5 DEF Filtered

\* Where erase() leaves the iterator, it has passed only announced objects.
LEMMA AfterEraseIs ==
  ASSUME NEW m, NEW w, NEW sh, NEW P, NEW pos, Shape(m, sh, P, pos), NEW Q, Shape(w, sh, Q, pos),
         NEW g, NEW x \in Iterators, NEW A,
         Filtered(m, P, pos, x, A), In(m, P, "retired", x), ~AtEnd(x), g = TopOf(m, "retired"),
         HeadLeft(m, P, Q, "retired"), Top(m, P, pos, "retired", g),
         Erased(m, w, "retired", g, x.curr, x.ix), w = Erase(m, "retired", x.curr, x.ix)
  PROVE  AfterErase(m, "retired", x) \in Iterators /\ Filtered(w, Q, pos, AfterErase(m, "retired", x), A)
<1>1. x.curr \in Blocks /\ P[x.curr] = "retired" /\ x.ix \in 1 .. Len(m.data[x.curr])
  BY DEF In
<1>2. Len(m.data[x.curr]) \in Nat /\ Len(m.data[g]) \in Nat
  BY <1>1, ShapeIs DEF ShapeParts, IsHeap, Top
<1>3. Q[x.curr] = "retired"
  <2>1. m.data[x.curr] # <<>>
    BY <1>1, <1>2
  <2> QED
    BY <1>1, <2>1 DEF HeadLeft
<1>4. Advance(w, x) \in Iterators /\ Next1(w, Q, pos, "retired", x, Advance(w, x))
  BY <1>1, <1>3, AdvanceIs, KindsAre
<1>5. \A c \in Blocks : Q[c] = "retired" => \A i \in 1 .. Len(w.data[c]) : Before(pos, c, i, x) => w.data[c][i] \in A
  BY ErasedBefore
<1>6. \A c \in Blocks : Q[c] = "retired" => \A i \in 1 .. Len(w.data[c]) :
        Before(pos, c, i, Advance(w, x)) => Before(pos, c, i, x) \/ (c = x.curr /\ i = x.ix)
  BY <1>1, <1>3, <1>4, BeforeStep, KindsAre
<1>7. PICK inside : inside = IF x.ix > Len(w.data[x.curr]) THEN Advance(w, x) ELSE x
  OBVIOUS
<1>8. AfterErase(m, "retired", x) = IF x.curr # g THEN Advance(w, inside) ELSE inside
  BY <1>7 DEF AfterErase, FilledFromEarlier, TopOf
<1>9. CASE x.curr # g
  <2>1. Len(w.data[x.curr]) = Len(m.data[x.curr])
    BY <1>9 DEF Erased
  <2>2. inside = x
    BY <1>1, <1>2, <1>7, <2>1
  <2>3. AfterErase(m, "retired", x) = Advance(w, x)
    BY <1>8, <1>9, <2>2
  <2>4. w.data[x.curr][x.ix] \in A
    <3>1. w.data[x.curr][x.ix] = m.data[g][Len(m.data[g])]
      BY <1>1, <1>9 DEF Erased
    <3>2. g \in Blocks /\ P[g] = "retired" /\ m.data[g] # <<>> /\ pos[x.curr] <= pos[g]
      BY <1>1, <1>2 DEF Top
    <3>3. Len(m.data[g]) \in 1 .. Len(m.data[g])
      <4>1. m.data[g] \in Seq(Objects)
        BY <3>2, ShapeIs DEF ShapeParts, IsHeap
      <4> QED
        BY <3>2, <4>1
    <3>4. pos[x.curr] # pos[g]
      BY <1>1, <1>9, <3>2, PlacesOrdered, KindsAre
    <3>5. pos[x.curr] \in Nat /\ pos[g] \in Nat
      BY <1>1, <3>2, ShapeIs DEF ShapeParts
    <3>6. Before(pos, g, Len(m.data[g]), x)
      BY <3>2, <3>4, <3>5 DEF Before
    <3> QED
      BY <3>1, <3>2, <3>3, <3>6 DEF Filtered
  <2>5. \A c \in Blocks : Q[c] = "retired" => \A i \in 1 .. Len(w.data[c]) :
          Before(pos, c, i, Advance(w, x)) => w.data[c][i] \in A
    BY <1>5, <1>6, <2>4
  <2>6. AtEnd(Advance(w, x)) \/ In(w, Q, "retired", Advance(w, x))
    BY <1>4 DEF Next1
  <2> QED
    BY <1>4, <2>3, <2>5, <2>6 DEF Filtered
<1>10. CASE x.curr = g /\ x.ix < Len(m.data[g])
  <2>1. Len(w.data[g]) = Len(m.data[g]) - 1
    BY DEF Erased
  <2>2. x.ix \in 1 .. Len(w.data[g])
    BY <1>1, <1>2, <1>10, <2>1
  <2>3. inside = x
    BY <1>2, <1>7, <1>10, <2>1, <2>2
  <2>4. AfterErase(m, "retired", x) = x
    BY <1>8, <1>10, <2>3
  <2>5. In(w, Q, "retired", x)
    BY <1>1, <1>3, <1>10, <2>2 DEF In
  <2> QED
    BY <1>5, <2>4, <2>5 DEF Filtered
<1>11. CASE x.curr = g /\ x.ix = Len(m.data[g])
  <2>1. Len(w.data[g]) = Len(m.data[g]) - 1
    BY DEF Erased
  <2>2. x.ix > Len(w.data[x.curr])
    BY <1>1, <1>2, <1>11, <2>1
  <2>3. AfterErase(m, "retired", x) = Advance(w, x)
    BY <1>7, <1>8, <1>11, <2>2
  <2>4. \A i \in 1 .. Len(w.data[x.curr]) : i # x.ix
    BY <1>2, <1>11, <2>1
  <2>5. \A c \in Blocks : Q[c] = "retired" => \A i \in 1 .. Len(w.data[c]) :
          Before(pos, c, i, Advance(w, x)) => w.data[c][i] \in A
    BY <1>5, <1>6, <2>4
  <2>6. AtEnd(Advance(w, x)) \/ In(w, Q, "retired", Advance(w, x))
    BY <1>4 DEF Next1
  <2> QED
    BY <1>4, <2>3, <2>5, <2>6 DEF Filtered
<1> QED
  BY <1>1, <1>2, <1>9, <1>10, <1>11

\* An iteration that gives its object to the pool.
LEMMA FilterEraseInv ==
  ASSUME Inv, FilterErase
  PROVE  Inv' /\ Simulates
<1>1. PICK P, pos : Layout(P, pos)
  BY DEF Inv
<1>2. Shape(mem, shared, P, pos) /\ Distinct(mem, P, NULL, 0) /\ HeldOut(mem, P, held)
  BY <1>1, PlacesAre
<1>3. PICK o : o = At(mem, it)
  OBVIOUS
<1>4. PICK a : a = PoolAdd(mem, o).mem
  OBVIOUS
<1>5. PICK given : given = PoolAdd(mem, o).given
  OBVIOUS
<1>6. /\ UNCHANGED <<scheme, held, announced, pc, nextswap>> /\ pc = "filter" /\ ~AtEnd(it)
      /\ o \notin announced /\ CanAdd(mem, "free")
      /\ mem' = Erase(a, "retired", it.curr, it.ix) /\ it' = AfterErase(a, "retired", it)
      /\ shared' = shared \cup given
  BY <1>3, <1>4, <1>5 DEF FilterErase, AtEnd
<1>7. Filtered(mem, P, pos, it, announced) /\ it \in Iterators
  BY <1>1, <1>6 DEF Layout, Inv, Control
<1>8. mem.head["retired"] # NULL /\ mem.head["free"] # NULL /\ Pooled
  BY <1>6 DEF Inv, Control, Alive
<1>9. In(mem, P, "retired", it)
  BY <1>6, <1>7 DEF Filtered
<1>10. it.curr \in Blocks /\ P[it.curr] = "retired" /\ it.ix \in 1 .. Len(mem.data[it.curr])
       /\ o = mem.data[it.curr][it.ix]
  BY <1>3, <1>9 DEF In, At
<1>11. o \in Objects
  BY <1>2, <1>10, HeldObjects DEF Holds
<1>12. PICK R, ros : Shape(a, shared', R, ros) /\ AddedToPool(mem, a, P, R, pos, ros, o)
  BY <1>2, <1>4, <1>5, <1>6, <1>8, <1>11, PoolAddIs
<1>13. /\ Gains(mem, P, a, R, mem.head["free"], o) /\ SameBag(mem, P, pos, a, R, ros, "retired")
       /\ a.head["free"] # NULL /\ Gets(mem, P, a, R, Ready, o) /\ Keeps(mem, P, a, R, {"retired"})
  BY <1>12 DEF AddedToPool
<1>14. Filtered(a, R, ros, it, announced) /\ In(a, R, "retired", it)
  BY <1>6, <1>7, <1>13, SameFiltered
<1>15. a.head["retired"] # NULL /\ a.data[it.curr] = mem.data[it.curr]
  BY <1>8, <1>10, <1>13 DEF SameBag
<1>16. R[it.curr] = "retired" /\ it.ix \in 1 .. Len(a.data[it.curr])
  BY <1>14 DEF In
<1>17. PICK g : g = TopOf(a, "retired")
  OBVIOUS
<1>18. PICK Q : Shape(mem', shared', Q, ros) /\ HeadLeft(a, R, Q, "retired")
  BY <1>6, <1>10, <1>12, <1>15, <1>16, EraseIs, KindsAre
<1>19. Top(a, R, ros, "retired", g) /\ Erased(a, mem', "retired", g, it.curr, it.ix)
  <2>1. /\ Top(a, R, ros, "retired", TopOf(a, "retired"))
        /\ Erased(a, Erase(a, "retired", it.curr, it.ix), "retired", TopOf(a, "retired"), it.curr, it.ix)
    <3>1. PICK b, ix : b = it.curr /\ ix = it.ix
      OBVIOUS
    <3>2. PICK sg : sg = shared'
      OBVIOUS
    <3>3. /\ Shape(a, sg, R, ros) /\ a.head["retired"] # NULL /\ b \in Blocks /\ R[b] = "retired"
          /\ ix \in 1 .. Len(a.data[b]) /\ "retired" \in Bags
      BY <1>10, <1>12, <1>15, <1>16, <3>1, <3>2, KindsAre
    <3>4. /\ Top(a, R, ros, "retired", TopOf(a, "retired"))
          /\ Erased(a, Erase(a, "retired", b, ix), "retired", TopOf(a, "retired"), b, ix)
      BY ONLY <3>3, EraseIs
    <3> QED
      BY <3>1, <3>4
  <2> QED
    BY <1>6, <1>17, <2>1
<1>20. Distinct(mem, P, it.curr, it.ix) /\ Absent(mem, P, it.curr, it.ix, o)
  BY <1>2, <1>10, Whole
<1>21. Distinct(a, R, it.curr, it.ix)
  BY <1>13, <1>20, GainsDistinct
<1>22. Distinct(mem', Q, NULL, 0) /\ \A u : Absent(a, R, it.curr, it.ix, u) => Absent(mem', Q, NULL, 0, u)
  BY <1>10, <1>12, <1>16, <1>18, <1>19, <1>21, EraseKeeps, KindsAre
<1>23. HeldOut(mem', Q, held')
  <2> SUFFICES ASSUME NEW u \in held PROVE Absent(mem', Q, NULL, 0, u)
    BY <1>6 DEF HeldOut
  <2>1. Absent(mem, P, NULL, 0, u)
    BY <1>2 DEF HeldOut
  <2>2. u # o
    BY <1>10, <2>1, NullAssumption DEF Absent
  <2>3. Absent(mem, P, it.curr, it.ix, u)
    BY <2>1, AbsentWhole
  <2>4. Absent(a, R, it.curr, it.ix, u)
    BY <1>13, <2>2, <2>3, GainsAbsent
  <2> QED
    BY <1>22, <2>4
<1>24. it' \in Iterators /\ Filtered(mem', Q, ros, it', announced)
  BY <1>6, <1>7, <1>12, <1>14, <1>17, <1>18, <1>19, AfterEraseIs
<1>25. mem'.head["retired"] # NULL /\ mem'.head["free"] # NULL
  BY <1>13, <1>19, KindsAre DEF Erased
<1>26. Control'
  BY <1>6, <1>8, <1>24, <1>25 DEF Inv, Control, Alive, Pooled
<1>27. Layout(Q, ros)'
  BY <1>6, <1>18, <1>22, <1>23, <1>24 DEF Layout
<1>28. OnlyThere(a, R, it.curr, it.ix, o)
  <2> SUFFICES ASSUME NEW c \in Blocks, R[c] = "retired", NEW i \in 1 .. Len(a.data[c]), ~(c = it.curr /\ i = it.ix)
               PROVE  a.data[c][i] # o
    BY DEF OnlyThere
  <2>1. P[c] = "retired" /\ a.data[c] = mem.data[c]
    BY <1>13 DEF SameBag
  <2> QED
    BY <1>20, <2>1 DEF Absent
<1>29. Loses(a, R, mem', Q, {"retired"}, o) /\ Keeps(a, R, mem', Q, Ready)
  <2>1. o = a.data[it.curr][it.ix]
    BY <1>10, <1>15
  <2> QED
    <3>1. PICK b, ix : b = it.curr /\ ix = it.ix
      OBVIOUS
    <3>2. PICK sg : sg = shared'
      OBVIOUS
    <3>3. PICK w : w = mem'
      OBVIOUS
    <3>4. /\ Shape(a, sg, R, ros) /\ b \in Blocks /\ R[b] = "retired" /\ ix \in 1 .. Len(a.data[b])
          /\ HeadLeft(a, R, Q, "retired") /\ Top(a, R, ros, "retired", g)
          /\ Erased(a, w, "retired", g, b, ix) /\ o = a.data[b][ix]
      BY <1>10, <1>12, <1>16, <1>18, <1>19, <2>1, <3>1, <3>2, <3>3
    <3>5. OnlyThere(a, R, b, ix, o)
      BY <1>28, <3>1
    <3>6. Loses(a, R, w, Q, {"retired"}, o) /\ Keeps(a, R, w, Q, Ready)
      BY ONLY <3>4, <3>5, EraseEffect
    <3> QED
      BY <3>3, <3>6
<1>30. Has(mem, P, {"retired"}, o)
  BY <1>10 DEF Has, Holds
<1>31. \A u : /\ Has(mem', Q, Ready, u) <=> Has(mem, P, Ready, u) \/ u \in {o}
              /\ Has(mem', Q, {"retired"}, u) <=> Has(mem, P, {"retired"}, u) /\ u \notin {o}
              /\ u \in {o} => Has(mem, P, {"retired"}, u) /\ u \notin announced
  BY <1>6, <1>13, <1>29, <1>30 DEF Gets, Keeps, Loses
<1>32. Simulates
  BY <1>2, <1>6, <1>18, <1>31, ReclaimStep
<1> QED
  BY <1>26, <1>27, <1>32 DEF Inv

-----------------------------------------------------------------------------
\* The invariant holds at the start, and every step keeps it.

\* The constructors establish the invariant.
LEMMA InitInv ==
  ASSUME Init
  PROVE  Inv /\ Recycling!PoolInit
<1>1. PICK made : made = IF Pooled THEN Bags ELSE {"retired"}
  OBVIOUS
<1>2. mem = InitHeap(made) /\ shared = {} /\ held = {} /\ announced = {} /\ pc = "idle"
  BY <1>1 DEF Init
<1>3. made = Bags \/ made = {"retired"}
  BY <1>1
<1>4. /\ \A b \in Blocks : mem.data[b] = <<>>
      /\ \A k \in Bags : mem.head[k] # NULL <=> k \in made
  BY <1>2, <1>3, InitIs
<1>5. PICK P, pos : Shape(mem, shared, P, pos)
  BY <1>2, <1>3, InitIs
<1>6. Distinct(mem, P, NULL, 0)
  <2>1. \A b \in Blocks : Len(mem.data[b]) = 0
    BY <1>4
  <2>2. \A b \in Blocks : \A i \in 1 .. Len(mem.data[b]) : FALSE
    BY <2>1
  <2> QED
    BY <2>2 DEF Distinct
<1>7. HeldOut(mem, P, held)
  BY <1>2 DEF HeldOut
<1>8. it \in Iterators /\ nextswap \in Iterators
  BY BlockSizeAssumption DEF Init, NoIterator, Iterators
<1>9. "retired" \in made /\ ("free" \in made <=> Pooled)
  BY <1>1, KindsAre
<1>10. Control
  BY <1>2, <1>4, <1>8, <1>9, KindsAre DEF Init, Control, Alive
<1>11. Layout(P, pos)
  BY <1>2, <1>5, <1>6, <1>7 DEF Layout
<1>12. \A K, u : ~Has(mem, P, K, u)
  BY <1>4, NotEmpty DEF Has
<1>13. InBag("retired") = {} /\ InBag("free") \cup ObjectsIn(mem, shared) = {}
  <2>1. PICK A : A = ReadyOf(mem, shared)
    OBVIOUS
  <2>2. PICK R : R = RetiredOf(mem)
    OBVIOUS
  <2>3. \A u : u \notin A /\ u \notin R
    BY <1>5, <1>12, <2>1, <2>2, ReadyIs
  <2>4. A = {} /\ R = {}
    BY <2>3
  <2> QED
    BY <2>1, <2>2, <2>4, NowIs
<1> QED
  BY <1>2, <1>10, <1>11, <1>13 DEF Inv, Recycling!PoolInit

\* Every action keeps it, and is a step of the pool of objects.
LEMMA NextInv ==
  ASSUME Inv, [Next]_vars
  PROVE  Inv' /\ Simulates
<1>1. CASE Get
  BY <1>1, GetInv
<1>2. CASE \E o \in Objects : Put(o) \/ Retire(o)
  BY <1>2, PutInv, RetireInv
<1>3. CASE Rotate \/ Give \/ GiveEnd \/ ClearRetired \/ ClearEnd
  BY <1>3, RotateInv, GiveInv, GiveEndInv, ClearRetiredInv, ClearEndInv
<1>4. CASE StartSwap \/ SwapStep \/ SwapEnd
  BY <1>4, StartSwapInv, SwapStepInv, SwapEndInv
<1>5. CASE StartFilter \/ FilterKeep \/ FilterErase \/ FilterEnd
  BY <1>5, StartFilterInv, FilterKeepInv, FilterEraseInv, FilterEndInv
<1>6. CASE DestroyReclaimer \/ MoveOne \/ MoveAllEnd \/ DeleteRetiredBag
  BY <1>6, DestroyReclaimerInv, MoveOneInv, MoveAllEndInv, DeleteRetiredBagInv
<1>7. CASE DrainShared \/ DrainSharedEnd \/ ClearFree \/ DeleteFreeBag \/ DeletePool
  BY <1>7, DrainSharedInv, DrainSharedEndInv, ClearFreeInv, DeleteFreeBagInv, DeletePoolInv
<1>8. CASE Destroyed \/ UNCHANGED vars
  BY <1>8, StutterInv DEF Destroyed
<1> QED
  BY <1>1, <1>2, <1>3, <1>4, <1>5, <1>6, <1>7, <1>8 DEF Next

\* In every reachable state the blocks have places that fit Layout.
THEOREM Invariance == Spec => []Inv
<1>1. Init => Inv
  BY InitInv
<1>2. Inv /\ [Next]_vars => Inv'
  BY NextInv
<1> QED
  BY <1>1, <1>2, PTL DEF Spec

-----------------------------------------------------------------------------
\* What the invariant says of the code

\* Type correctness: after every call of a bag, pool or reclaimer the fields of
\* the blocks and bags, the shared bag and the iterators have their types; no
\* block holds more than BLOCK_SIZE objects.
THEOREM TypeCorrect == Spec => []TypeOK
<1>1. Inv => TypeOK
  <2> SUFFICES ASSUME Inv PROVE TypeOK
    OBVIOUS
  <2>1. PICK P, pos : Layout(P, pos)
    BY DEF Inv
  <2>2. mem \in Heaps /\ shared \subseteq Blocks
    BY <2>1 DEF Layout, Shape
  <2> QED
    BY <2>2 DEF Inv, Control, TypeOK, Iterators
<1> QED
  BY <1>1, Invariance, PTL

\* blockbag.h:205-209: whatever calls are made, the head block of a bag is not
\* full, all others are, tail is the last block and sizeInBlocks is their number.
THEOREM Valid == Spec => []Validate
<1>1. Inv => Validate
  <2> SUFFICES ASSUME Inv, NEW k \in Bags, mem.head[k] # NULL, NEW bs, bs = BlocksOf(mem, k)
               PROVE  /\ Len(mem.data[Head(bs)]) < BLOCK_SIZE
                      /\ \A b \in ToSet(Tail(bs)) : Len(mem.data[b]) = BLOCK_SIZE
                      /\ mem.tail[k] = Last(bs)
                      /\ mem.sizeInBlocks[k] = Len(bs)
    BY DEF Validate, Alive
  <2>1. PICK P, pos : Shape(mem, shared, P, pos)
    BY DEF Inv, Layout
  <2>2. ShapeParts(mem, shared, P, pos)
    BY <2>1, ShapeIs
  <2>3. IsList(mem, P, pos, k)
    BY <2>2 DEF ShapeParts, Lists
  <2>4. PICK n : n = mem.sizeInBlocks[k]
    OBVIOUS
  <2>5. n \in Nat \ {0} /\ ListOf(bs, P, pos, k, n)
    BY <2>2, <2>3, <2>4, BlocksAre DEF ShapeParts, IsList
  <2>6. bs \in [1 .. n -> Blocks] /\ \A i \in 1 .. n : P[bs[i]] = k /\ pos[bs[i]] = n + 1 - i
    BY <2>5 DEF ListOf
  <2>7. bs \in Seq(Blocks) /\ Len(bs) = n
    BY <2>5, <2>6
  <2>8. \A b, c \in Blocks : P[b] = k /\ P[c] = k /\ pos[b] = pos[c] => b = c
    BY <2>3 DEF IsList
  <2>9. bs[1] = mem.head[k]
    <3>1. bs[1] \in Blocks /\ P[bs[1]] = k /\ pos[bs[1]] = n
      BY <2>5, <2>6
    <3>2. mem.head[k] \in Blocks /\ P[mem.head[k]] = k /\ pos[mem.head[k]] = n
      BY <2>3, <2>4 DEF IsList
    <3> QED
      BY <2>8, <3>1, <3>2
  <2>10. bs[n] = mem.tail[k]
    <3>1. bs[n] \in Blocks /\ P[bs[n]] = k /\ pos[bs[n]] = 1
      BY <2>5, <2>6
    <3>2. mem.tail[k] \in Blocks /\ P[mem.tail[k]] = k /\ pos[mem.tail[k]] = 1
      BY <2>3 DEF IsList
    <3> QED
      BY <2>8, <3>1, <3>2
  <2>11. Head(bs) = bs[1] /\ Last(bs) = bs[n]
    BY <2>5, <2>7 DEF Last
  <2>12. \A b \in Blocks : P[b] = k => Filled(mem, k, b)
    BY <2>3 DEF IsList
  <2>13. Len(mem.data[Head(bs)]) < BLOCK_SIZE
    <3>1. mem.head[k] \in Blocks /\ P[mem.head[k]] = k
      BY <2>3 DEF IsList
    <3> QED
      BY <2>9, <2>11, <2>12, <3>1 DEF Filled
  <2>14. ASSUME NEW b \in ToSet(Tail(bs)) PROVE Len(mem.data[b]) = BLOCK_SIZE
    <3>1. PICK i \in 1 .. n - 1 : b = bs[i + 1]
      BY <2>5, <2>7 DEF ToSet
    <3>2. b \in Blocks /\ P[b] = k /\ pos[b] = n - i
      BY <2>5, <2>6, <3>1
    <3>3. b # mem.head[k]
      BY <2>3, <2>4, <2>5, <3>1, <3>2 DEF IsList
    <3> QED
      BY <2>12, <3>2, <3>3 DEF Filled
  <2> QED
    BY <2>4, <2>7, <2>10, <2>11, <2>13, <2>14
<1> QED
  BY <1>1, Invariance, PTL

\* No two slots of the bags hold one object, and no object of the bags is with
\* the program: get returns an object to one caller, and it is in no bag then.
THEOREM ObjectsInOnePlace == Spec => []OnePlace
<1>1. Inv => OnePlace
  <2> SUFFICES ASSUME Inv PROVE OnePlace
    OBVIOUS
  <2>1. PICK P, pos : Layout(P, pos)
    BY DEF Inv
  <2>2. Shape(mem, shared, P, pos) /\ Distinct(mem, P, NULL, 0) /\ HeldOut(mem, P, held)
    BY <2>1, PlacesAre
  <2>3. PICK blocks : blocks = mem.live \ ToSet(mem.pool)
    OBVIOUS
  <2>4. \A b \in blocks : b \in Blocks /\ P[b] # "none" /\ b # NULL
    BY <2>2, <2>3, ShapeIs, NullAssumption DEF ShapeParts, IsHeap, Live
  <2>5. PICK slots : slots = {s \in blocks \X (1 .. BLOCK_SIZE) : s[2] <= Len(mem.data[s[1]])}
    OBVIOUS
  <2>6. \A s \in slots : /\ s = <<s[1], s[2]>> /\ s[1] \in Blocks /\ P[s[1]] # "none" /\ s[1] # NULL
                         /\ s[2] \in 1 .. Len(mem.data[s[1]])
    <3> SUFFICES ASSUME NEW s \in slots
                 PROVE  /\ s = <<s[1], s[2]>> /\ s[1] \in Blocks /\ P[s[1]] # "none" /\ s[1] # NULL
                        /\ s[2] \in 1 .. Len(mem.data[s[1]])
      OBVIOUS
    <3>1. s \in blocks \X (1 .. BLOCK_SIZE) /\ s[2] <= Len(mem.data[s[1]])
      BY <2>5
    <3>2. s = <<s[1], s[2]>> /\ s[1] \in blocks /\ s[2] \in 1 .. BLOCK_SIZE
      BY <3>1
    <3>3. s[1] \in Blocks /\ P[s[1]] # "none" /\ s[1] # NULL
      BY <2>4, <3>2
    <3>4. Len(mem.data[s[1]]) \in Nat
      BY <2>2, <3>3, ShapeIs DEF ShapeParts, IsHeap
    <3> QED
      BY <3>1, <3>2, <3>3, <3>4, BlockSizeAssumption
  <2>7. \A s \in slots : mem.data[s[1]][s[2]] \notin held
    <3> SUFFICES ASSUME NEW s \in slots, mem.data[s[1]][s[2]] \in held PROVE FALSE
      OBVIOUS
    <3>1. Absent(mem, P, NULL, 0, mem.data[s[1]][s[2]])
      BY <2>2 DEF HeldOut
    <3> QED
      BY <2>6, <3>1 DEF Absent
  <2>8. \A s, t \in slots : mem.data[s[1]][s[2]] = mem.data[t[1]][t[2]] => s = t
    <3> SUFFICES ASSUME NEW s \in slots, NEW t \in slots, mem.data[s[1]][s[2]] = mem.data[t[1]][t[2]]
                 PROVE  s = t
      OBVIOUS
    <3>1. s[1] = t[1] /\ s[2] = t[2]
      BY <2>2, <2>6 DEF Distinct
    <3>2. s = <<s[1], s[2]>> /\ t = <<t[1], t[2]>>
      BY <2>6
    <3> QED
      BY <3>1, <3>2
  <2> QED
    BY <2>3, <2>5, <2>7, <2>8 DEF OnePlace
<1> QED
  BY <1>1, Invariance, PTL

\* After the destructors of record manager, pool and reclaimer no block is
\* allocated, and the shared bag and the blockpool are empty.
THEOREM NothingIsLeft == Spec => []NothingLeft
<1>1. Inv => NothingLeft
  <2> SUFFICES ASSUME Inv, pc = "destroyed" PROVE mem.live = {} /\ shared = {} /\ mem.pool = <<>>
    BY DEF NothingLeft
  <2>1. PICK P, pos : Shape(mem, shared, P, pos)
    BY DEF Inv, Layout
  <2>2. ShapeParts(mem, shared, P, pos)
    BY <2>1, ShapeIs
  <2>3. shared = {} /\ mem.pool = <<>> /\ mem.head["retired"] = NULL /\ mem.head["free"] = NULL
    BY DEF Inv, Control, Alive
  <2>4. ASSUME NEW b \in Blocks PROVE b \notin mem.live
    <3>1. P[b] # "retired" /\ P[b] # "free"
      BY <2>2, <2>3, KindsAre DEF ShapeParts, Lists
    <3>2. P[b] # "shared"
      BY <2>2, <2>3 DEF ShapeParts, InShared
    <3>3. P[b] # "pool"
      <4>1. Len(mem.pool) = 0
        BY <2>3
      <4> QED
        BY <2>2, <4>1 DEF ShapeParts, InPool
    <3>4. P[b] = "none"
      BY <2>2, <3>1, <3>2, <3>3, BagsAssumption DEF ShapeParts, Places
    <3> QED
      BY <2>2, <3>4 DEF ShapeParts, Live
  <2>5. mem.live \subseteq Blocks
    BY <2>2 DEF ShapeParts, IsHeap
  <2> QED
    BY <2>3, <2>4, <2>5
<1> QED
  BY <1>1, Invariance, PTL

\* A scan by iterator that erases leaves only announced objects in the bag,
\* although erase() moves objects of the head block into the holes.
THEOREM FilterLeavesAnnounced == Spec => FilterExact
<1>1. ASSUME Inv, Next, pc = "filter", pc' = "idle"
      PROVE  InBag("retired")' \subseteq announced
  <2>1. FilterEnd
    BY <1>1 DEF Next, Get, Put, Retire, Rotate, Give, GiveEnd, ClearRetired, ClearEnd, StartSwap, SwapStep,
                SwapEnd, StartFilter, FilterKeep, FilterErase, DestroyReclaimer, MoveOne, MoveAllEnd,
                DeleteRetiredBag, DrainShared, DrainSharedEnd, ClearFree, DeleteFreeBag, DeletePool,
                Destroyed, Goto
  <2>2. PICK P, pos : Layout(P, pos)
    BY <1>1 DEF Inv
  <2>3. Shape(mem, shared, P, pos) /\ Filtered(mem, P, pos, it, announced)
    BY <1>1, <2>2 DEF Layout
  <2>4. AtEnd(it) /\ mem' = mem
    BY <2>1 DEF FilterEnd, AtEnd
  <2>5. ASSUME NEW u, Has(mem, P, {"retired"}, u) PROVE u \in announced
    <3>1. PICK b, i : b \in Blocks /\ P[b] = "retired" /\ i \in 1 .. Len(mem.data[b]) /\ mem.data[b][i] = u
      BY <2>5 DEF Has, Holds
    <3>2. Before(pos, b, i, it)
      BY <2>4 DEF Before
    <3> QED
      BY <2>3, <3>1, <3>2 DEF Filtered
  <2>6. \A u : u \in InBag("retired")' => Has(mem, P, {"retired"}, u)
    <3>1. InBag("retired")' = RetiredOf(mem)
      BY <2>4, ThenIs
    <3> QED
      BY <2>3, <3>1, ReadyIs
  <2> QED
    BY <2>5, <2>6
<1>2. Inv /\ [Next]_vars => [pc = "filter" /\ pc' = "idle" => InBag("retired")' \subseteq announced]_vars
  BY <1>1
<1> QED
  BY <1>2, Invariance, PTL DEF Spec, FilterExact

\* Swapping the announced objects to the front pays: behind the head and the block
\* of nextswap every block that stays is full of announced objects, so that no scan
\* of DEBRA+ leaves more blocks than these fill, and two.
THEOREM FewBlocksStay == Spec => ScanLeavesFew
<1>1. Inv /\ [Next]_vars =>
        [SwapEnd => mem.sizeInBlocks'["retired"] <= Cardinality(announced) \div BLOCK_SIZE + 2]_vars
  <2> SUFFICES ASSUME Inv, SwapEnd
               PROVE  mem.sizeInBlocks'["retired"] <= Cardinality(announced) \div BLOCK_SIZE + 2
    OBVIOUS
  <2> QED
    BY FewStay
<1> QED
  BY <1>1, Invariance, PTL DEF Spec, ScanLeavesFew

\* Every block that is allocated is in one bag, once, in the shared bag or in the
\* blockpool (blockpool.h:59, 79), and those in the blockpool are empty: a block
\* is neither lost nor deleted or handed out twice.
THEOREM PlacesOfBlocks == Spec => []BlocksInOnePlace
<1>1. Inv => BlocksInOnePlace
  <2> SUFFICES ASSUME Inv PROVE BlocksInOnePlace
    OBVIOUS
  <2>1. PICK P, pos : Shape(mem, shared, P, pos)
    BY DEF Inv, Layout
  <2>2. ShapeParts(mem, shared, P, pos)
    BY <2>1, ShapeIs
  <2>3. PICK lists : lists = [k \in Bags |-> IF Alive(k) THEN BlocksOf(mem, k) ELSE <<>>]
    OBVIOUS
  <2>4. PICK places : places = [k \in Bags |-> ToSet(lists[k])]
    OBVIOUS
  <2>5. \A k \in Bags : places[k] = {b \in Blocks : P[b] = k}
    <3> SUFFICES ASSUME NEW k \in Bags PROVE places[k] = {b \in Blocks : P[b] = k}
      OBVIOUS
    <3>1. CASE mem.head[k] = NULL
      <4>1. lists[k] = <<>> /\ \A b \in Blocks : P[b] # k
        BY <2>2, <2>3, <3>1 DEF Alive, ShapeParts, Lists
      <4>2. ToSet(lists[k]) = {}
        BY <4>1 DEF ToSet
      <4> QED
        BY <2>4, <4>1, <4>2
    <3>2. CASE mem.head[k] # NULL
      <4>1. lists[k] = BlocksOf(mem, k)
        BY <2>3, <3>2 DEF Alive
      <4> QED
        BY <2>1, <2>4, <3>2, <4>1, ContentsIs
    <3> QED
      BY <3>1, <3>2
  <2>6. \A k \in Bags : IsInjective(lists[k])
    <3> SUFFICES ASSUME NEW k \in Bags PROVE IsInjective(lists[k])
      OBVIOUS
    <3>1. CASE mem.head[k] = NULL
      <4>1. lists[k] = <<>>
        BY <2>3, <3>1 DEF Alive
      <4> QED
        BY <4>1 DEF IsInjective
    <3>2. CASE mem.head[k] # NULL
      <4>1. PICK n : n = mem.sizeInBlocks[k]
        OBVIOUS
      <4>2. n \in Nat /\ ListOf(lists[k], P, pos, k, n)
        BY <2>2, <2>3, <3>2, <4>1, BlocksAre DEF ShapeParts, Lists, IsList, Alive
      <4>3. lists[k] \in [1 .. n -> Blocks] /\ \A i \in 1 .. n : pos[lists[k][i]] = n + 1 - i
        BY <4>2 DEF ListOf
      <4>4. ASSUME NEW i \in 1 .. n, NEW j \in 1 .. n, lists[k][i] = lists[k][j] PROVE i = j
        <5>1. pos[lists[k][i]] = n + 1 - i /\ pos[lists[k][j]] = n + 1 - j
          BY <4>3
        <5>2. n + 1 - i = n + 1 - j
          BY <4>4, <5>1
        <5> QED
          BY ONLY <4>2, <5>2, i \in 1 .. n, j \in 1 .. n
      <4> QED
        BY <4>3, <4>4 DEF IsInjective
    <3> QED
      BY <3>1, <3>2
  <2>7. IsInjective(mem.pool) /\ \A b : b \in ToSet(mem.pool) <=> b \in Blocks /\ P[b] = "pool"
    <3>1. mem.pool \in Seq(Blocks) /\ DOMAIN mem.pool = 1 .. Len(mem.pool)
      BY <2>2 DEF ShapeParts, IsHeap
    <3>2. \A i \in 1 .. Len(mem.pool) : mem.pool[i] \in Blocks
      BY <3>1
    <3>3. \A i, j \in 1 .. Len(mem.pool) : mem.pool[i] = mem.pool[j] => i = j
      BY <2>2 DEF ShapeParts, InPool
    <3>4. IsInjective(mem.pool)
      BY <3>1, <3>3 DEF IsInjective
    <3>5. \A b : b \in ToSet(mem.pool) <=> \E i \in 1 .. Len(mem.pool) : mem.pool[i] = b
      BY <3>1 DEF ToSet
    <3>6. \A b \in Blocks : P[b] = "pool" <=> \E i \in 1 .. Len(mem.pool) : mem.pool[i] = b
      BY <2>2 DEF ShapeParts, InPool
    <3> QED
      BY <3>2, <3>4, <3>5, <3>6
  <2>8. \A b : b \in shared <=> b \in Blocks /\ P[b] = "shared"
    BY <2>2 DEF ShapeParts, InShared
  <2>9. \A j, k \in Bags : j # k => places[j] \cap places[k] = {}
    BY <2>5
  <2>10. \A k \in Bags : places[k] \cap (shared \cup ToSet(mem.pool)) = {}
    BY <2>5, <2>7, <2>8, BagsAssumption
  <2>11. shared \cap ToSet(mem.pool) = {}
    BY <2>7, <2>8
  <2>12. mem.live = (UNION {places[k] : k \in Bags}) \cup shared \cup ToSet(mem.pool)
    <3>1. \A b : b \in mem.live <=> b \in Blocks /\ P[b] # "none"
      BY <2>2 DEF ShapeParts, Live, IsHeap
    <3>2. \A b \in Blocks : P[b] # "none" <=> P[b] \in Bags \/ P[b] = "shared" \/ P[b] = "pool"
      BY <2>2, BagsAssumption DEF ShapeParts, Places
    <3>3. \A b : b \in UNION {places[k] : k \in Bags} <=> b \in Blocks /\ P[b] \in Bags
      BY <2>5
    <3> DEFINE U == UNION {places[k] : k \in Bags}
               pool == ToSet(mem.pool)
    <3>4. \A b : b \in U <=> b \in Blocks /\ P[b] \in Bags
      BY <3>3
    <3>5. \A b : b \in pool <=> b \in Blocks /\ P[b] = "pool"
      BY <2>7
    <3> HIDE DEF U, pool
    <3>6. \A b : b \in U \/ b \in shared \/ b \in pool
            <=> b \in Blocks /\ (P[b] \in Bags \/ P[b] = "shared" \/ P[b] = "pool")
      BY <2>8, <3>4, <3>5
    <3>7. \A b : b \in mem.live <=> b \in U \/ b \in shared \/ b \in pool
      BY <3>1, <3>2, <3>6
    <3>8. \A b : b \in mem.live <=> b \in U \cup shared \cup pool
      BY <3>7
    <3> QED
      <4>1. mem.live = U \cup shared \cup pool
        BY ONLY <3>8, SameSet
      <4> QED
        BY <4>1 DEF U, pool
  <2>13. \A b \in ToSet(mem.pool) : mem.data[b] = <<>>
    BY <2>2, <2>7 DEF ShapeParts, InPool
  <2> QED
    BY <2>3, <2>4, <2>6, <2>7, <2>9, <2>10, <2>11, <2>12, <2>13 DEF BlocksInOnePlace
<1> QED
  BY <1>1, Invariance, PTL

\* The bags, with every block of theirs, implement the pool of objects: what get
\* returns was available, a scan makes no announced object available, and no
\* object comes or goes otherwise.
THEOREM ImplementsPool == Spec => RecyclingSpec
<1>1. Init => Recycling!PoolInit
  BY InitInv
<1>2. Inv /\ [Next]_vars => Simulates
  BY NextInv
<1>3. Inv /\ [Next]_vars => [Recycling!PoolNext]_(Recycling!poolVars)
  BY <1>2 DEF Simulates
<1> QED
  BY <1>1, <1>3, Invariance, PTL DEF Spec, RecyclingSpec, Recycling!PoolSpec
=============================================================================
