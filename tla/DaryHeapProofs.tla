---------------------------- MODULE DaryHeapProofs ----------------------------
(***************************************************************************)
(* Why the array of one heap is a priority queue, for every arity, initial *)
(* capacity, set of offers and of distances, at every write to the array.  *)
(*                                                                         *)
(* The argument.  While an offer is on its way up or down, the array with  *)
(* that offer put back at the index i is a heap (InOrder) but for one      *)
(* place: i and its parent (UpAt), or i and its children (DownAt).  Both   *)
(* say that the parent of i is no larger than the children of i, so that   *)
(* the next exchange breaks nothing but the order at the new i.  A heap    *)
(* has its minimum at 0: of the elements that are smaller the one with the *)
(* least index has a parent that is smaller too.  That argument, and that  *)
(* minHeapify finds a smallest child, are inductions over the indices, for *)
(* which LeastNatural serves: the order < is well-founded.                 *)
(***************************************************************************)
EXTENDS DaryHeap, WellFoundedInduction, TLAPS

\* E with offer o at index n.
Put(E, n, o) == [E EXCEPT ![n] = o]

\* The first n elements of array E are different offers.
Filled(E, n) ==
  /\ \A m \in 0 .. n - 1 : E[m] \in Offers
  /\ \A l, m \in 0 .. n - 1 : E[l] = E[m] => l = m

\* With keys k, element m is no smaller than its parent.
Above(E, k, m) == k[E[PARENT(m)]] <= k[E[m]]

InOrder(E, k, n) == \A m \in 1 .. n - 1 : Above(E, k, m)

\* The parent of h is no larger than the children of h.
Bridged(E, k, n, h) ==
  h > 0 => \A m \in 1 .. n - 1 : PARENT(m) = h => k[E[PARENT(h)]] <= k[E[m]]

UpAt(E, k, n, h) == Bridged(E, k, n, h) /\ \A m \in (1 .. n - 1) \ {h} : Above(E, k, m)

DownAt(E, k, n, h) ==
  Bridged(E, k, n, h) /\ \A m \in 1 .. n - 1 : PARENT(m) # h => Above(E, k, m)
-----------------------------------------------------------------------------
\* Induction

LEMMA LeastNatural ==
  ASSUME NEW S \in SUBSET Nat, S # {}
  PROVE  \E n \in S : \A m \in S : n <= m
<1> DEFINE R == OpToRel(<, Nat)
<1>1. IsWellFoundedOn(R, Nat)
  BY NatLessThanWellFounded
<1>2. \A x, y \in Nat : <<x, y>> \in R <=> x < y
  BY DEF OpToRel
<1> HIDE DEF R
<1>3. \E n \in S : \A m \in S : ~(<<m, n>> \in R)
  BY <1>1, WFMin
<1>4. PICK n \in S : \A m \in S : ~(<<m, n>> \in R)
  BY <1>3
<1>5. \A m \in S : n \in Nat /\ m \in Nat /\ ~(m < n)
  BY <1>2, <1>4
<1> QED
  BY <1>5

LEMMA Induction ==
  ASSUME NEW S, 0 \in S, \A n \in Nat : n \in S => n + 1 \in S
  PROVE  Nat \subseteq S
<1> SUFFICES ASSUME Nat \ S # {} PROVE FALSE
  OBVIOUS
<1>1. PICK n \in Nat \ S : \A m \in Nat \ S : n <= m
  BY LeastNatural
<1>2. n # 0 /\ n - 1 \in Nat /\ n - 1 + 1 = n
  BY <1>1
<1>3. n - 1 \in S
  BY <1>1, <1>2
<1> QED
  BY <1>1, <1>2, <1>3

IsFirst(f, U, s) == \A o \in U \ {s} : f[s] < f[o] \/ (f[s] = f[o] /\ s < o)

\* Among finitely many numbers there is a first smallest one.
LEMMA FirstSmallest ==
  ASSUME NEW f, NEW K \in Nat, NEW T \in SUBSET (0 .. K), T # {},
         \A x \in 0 .. K : f[x] \in Int
  PROVE  \E s \in T : IsFirst(f, T, s)
<1> DEFINE Good(k) == k <= K => \A U \in SUBSET (0 .. k) : U # {} => \E s \in U : IsFirst(f, U, s)
           S == {k \in Nat : Good(k)}
<1>1. Good(0)
  <2>1. ASSUME NEW U \in SUBSET (0 .. 0), U # {} PROVE U = {0}
    <3>1. \A x \in 0 .. 0 : x = 0
      OBVIOUS
    <3> QED
      BY <2>1, <3>1, Zenon
  <2>2. IsFirst(f, {0}, 0)
    BY DEF IsFirst
  <2>3. \A U \in SUBSET (0 .. 0) : U # {} => \E s \in U : IsFirst(f, U, s)
    BY <2>1, <2>2
  <2> QED
    BY <2>3
<1>2. ASSUME NEW k \in Nat, Good(k) PROVE Good(k + 1)
  <2> SUFFICES ASSUME k + 1 <= K, NEW U \in SUBSET (0 .. k + 1), U # {}
               PROVE  \E s \in U : IsFirst(f, U, s)
    OBVIOUS
  <2> DEFINE W == U \ {k + 1}
  <2>1. W \in SUBSET (0 .. k) /\ \A x \in U : f[x] \in Int /\ x \in Int /\ x <= k + 1
    OBVIOUS
  <2>2. W # {} => \E s \in W : IsFirst(f, W, s)
    BY <1>2, <2>1
  <2>3. CASE W = U
    BY <2>2, <2>3
  <2>4. CASE W = {}
    <3>1. U = {k + 1}
      BY <2>4
    <3> QED
      BY <3>1 DEF IsFirst
  <2>5. CASE k + 1 \in U /\ W # {}
    <3>1. PICK s \in W : IsFirst(f, W, s)
      BY <2>2, <2>5
    <3>2. CASE f[k + 1] < f[s]
      <4>1. IsFirst(f, U, k + 1)
        BY <2>1, <2>5, <3>1, <3>2 DEF IsFirst
      <4> QED
        BY <2>5, <4>1
    <3>3. CASE ~(f[k + 1] < f[s])
      <4>1. IsFirst(f, U, s)
        BY <2>1, <2>5, <3>1, <3>3 DEF IsFirst
      <4> QED
        BY <4>1
    <3> QED
      BY <3>2, <3>3
  <2> QED
    BY <2>3, <2>4, <2>5
<1>3. K \in S
  <2>1. 0 \in S /\ \A k \in Nat : k \in S => k + 1 \in S
    BY <1>1, <1>2
  <2> HIDE DEF S
  <2> QED
    BY <2>1, Induction
<1> QED
  BY <1>3
-----------------------------------------------------------------------------
\* PARENT and CHILD

LEMMA Quotient ==
  ASSUME NEW a \in Nat
  PROVE  /\ a \div D \in Nat
         /\ D * (a \div D) <= a
         /\ a < D * (a \div D) + D
BY ArityAssumption, Z3

LEMMA QuotientIs ==
  ASSUME NEW a \in Nat, NEW q \in Nat, D * q <= a, a < D * q + D
  PROVE  a \div D = q
BY ArityAssumption, Z3

LEMMA ParentType ==
  ASSUME NEW n \in Nat \ {0}
  PROVE  PARENT(n) \in Nat /\ PARENT(n) < n
<1> DEFINE q == (n - 1) \div D
<1>1. n - 1 \in Nat /\ q \in Nat /\ D * q <= n - 1
  BY Quotient
<1>2. q <= D * q
  <2> HIDE DEF q
  <2> QED
    BY <1>1, ArityAssumption, Z3
<1>3. D * q \in Int
  BY <1>1, ArityAssumption
<1> QED
  BY <1>1, <1>2, <1>3 DEF PARENT

LEMMA ChildType ==
  ASSUME NEW n \in Nat, NEW m \in Children(n)
  PROVE  m \in Nat /\ m > n /\ PARENT(m) = n
<1>1. PICK c \in 0 .. D - 1 : m = D * n + c + 1
  BY DEF Children, CHILD
<1>2. D * n \in Nat /\ n <= D * n
  BY ArityAssumption, Z3
<1>3. m - 1 \in Nat /\ D * n <= m - 1 /\ m - 1 < D * n + D
  BY <1>1, <1>2, ArityAssumption
<1> QED
  BY <1>1, <1>2, <1>3, QuotientIs DEF PARENT

LEMMA ChildrenAre ==
  ASSUME NEW n \in Nat, NEW m \in Nat \ {0}, PARENT(m) = n
  PROVE  m \in Children(n)
<1>1. m - 1 \in Nat /\ D * n <= m - 1 /\ m - 1 < D * n + D
  BY Quotient DEF PARENT
<1>2. D * n \in Nat
  BY ArityAssumption
<1> DEFINE c == m - 1 - D * n
<1>3. c \in 0 .. D - 1 /\ m = D * n + c + 1
  BY <1>1, <1>2, ArityAssumption
<1> QED
  BY <1>3 DEF Children, CHILD
-----------------------------------------------------------------------------
\* Heaps

\* F is E with the elements at g and h exchanged.
Exchanged(E, F, n, g, h) ==
  F[g] = E[h] /\ F[h] = E[g] /\ \A m \in (0 .. n - 1) \ {g, h} : F[m] = E[m]

Keyed(E, k, n) == \A m \in 0 .. n - 1 : k[E[m]] \in Int

LEMMA RootIsLeast ==
  ASSUME NEW E, NEW k, NEW n \in Nat, Keyed(E, k, n), InOrder(E, k, n)
  PROVE  \A m \in 0 .. n - 1 : k[E[0]] <= k[E[m]]
<1> DEFINE S == {m \in 0 .. n - 1 : k[E[m]] < k[E[0]]}
<1> SUFFICES ASSUME S # {} PROVE FALSE
  BY DEF Keyed
<1>0. \E m \in S : \A l \in S : m <= l
  <2>1. S \in SUBSET Nat
    OBVIOUS
  <2> HIDE DEF S
  <2> QED
    BY <2>1, LeastNatural
<1>1. PICK m \in S : \A l \in S : m <= l
  BY <1>0
<1>2. m \in 1 .. n - 1 /\ k[E[m]] < k[E[0]]
  BY <1>1 DEF Keyed
<1>3. PARENT(m) \in 0 .. n - 1 /\ PARENT(m) < m
  BY <1>2, ParentType
<1>4. ~(k[E[PARENT(m)]] < k[E[0]])
  BY <1>1, <1>2, <1>3
<1>5. k[E[PARENT(m)]] <= k[E[m]]
  BY <1>2 DEF InOrder, Above
<1>6. k[E[m]] \in Int /\ k[E[PARENT(m)]] \in Int /\ k[E[0]] \in Int
  BY <1>2, <1>3 DEF Keyed
<1> HIDE DEF S
<1> QED
  BY <1>2, <1>4, <1>5, <1>6

LEMMA ExchangeFilled ==
  ASSUME NEW E, NEW F, NEW n \in Nat, NEW g \in 0 .. n - 1, NEW h \in 0 .. n - 1,
         Exchanged(E, F, n, g, h), Filled(E, n)
  PROVE  Filled(F, n)
BY DEF Exchanged, Filled

\* decreaseKey: the element at h is smaller than its parent.
LEMMA UpStep ==
  ASSUME NEW E, NEW F, NEW k, NEW n \in Nat, NEW h \in 1 .. n - 1,
         Keyed(E, k, n), UpAt(E, k, n, h), k[E[h]] < k[E[PARENT(h)]],
         Exchanged(E, F, n, PARENT(h), h)
  PROVE  UpAt(F, k, n, PARENT(h))
<1>1. PICK p \in 0 .. n - 1 : p = PARENT(h) /\ p < h
  BY ParentType
<1>2. /\ F[p] = E[h] /\ F[h] = E[p] /\ \A m \in (0 .. n - 1) \ {p, h} : F[m] = E[m]
      /\ k[E[h]] < k[E[p]]
  BY <1>1 DEF Exchanged
<1>3. \A m \in 1 .. n - 1 : PARENT(m) \in 0 .. n - 1 /\ PARENT(m) < m
  BY ParentType
<1>4. \A m \in (1 .. n - 1) \ {h} : k[E[PARENT(m)]] <= k[E[m]]
  BY DEF UpAt, Above
<1>5. \A m \in 1 .. n - 1 : PARENT(m) = h => k[E[p]] <= k[E[m]]
  BY <1>1 DEF UpAt, Bridged
<1>6. ASSUME NEW m \in 1 .. n - 1, p > 0, PARENT(m) = p PROVE k[F[PARENT(p)]] <= k[F[m]]
  <2>1. F[PARENT(p)] = E[PARENT(p)] /\ k[E[PARENT(p)]] <= k[E[p]]
    BY <1>1, <1>2, <1>3, <1>4, <1>6
  <2>2. CASE m = h
    BY <1>2, <2>1, <2>2
  <2>3. CASE m # h
    <3>1. F[m] = E[m] /\ k[E[p]] <= k[E[m]]
      BY <1>2, <1>3, <1>4, <1>6, <2>3
    <3> QED
      BY <1>1, <1>3, <1>6, <2>1, <3>1 DEF Keyed
  <2> QED
    BY <2>2, <2>3
<1>7. ASSUME NEW m \in (1 .. n - 1) \ {p} PROVE k[F[PARENT(m)]] <= k[F[m]]
  <2> DEFINE q == PARENT(m)
  <2>1. q \in 0 .. n - 1 /\ q < m
    BY <1>3
  <2> HIDE DEF q
  <2>2. CASE m = h
    BY <1>1, <1>2, <2>2 DEF Keyed
  <2>3. CASE m # h /\ q = h
    <3>1. k[E[p]] <= k[E[m]]
      BY <1>5, <2>3 DEF q
    <3> QED
      BY <1>2, <1>7, <2>3, <3>1 DEF q
  <2>4. CASE m # h /\ q = p
    <3>1. k[E[p]] <= k[E[m]] /\ F[m] = E[m]
      BY <1>2, <1>4, <1>7, <2>4 DEF q
    <3>2. k[E[p]] \in Int /\ k[E[m]] \in Int /\ k[E[h]] \in Int
      BY DEF Keyed
    <3> QED
      BY <1>2, <2>4, <3>1, <3>2 DEF q
  <2>5. CASE m # h /\ q # h /\ q # p
    <3>1. k[E[q]] <= k[E[m]] /\ F[m] = E[m] /\ F[q] = E[q]
      BY <1>2, <1>4, <1>7, <2>1, <2>5 DEF q
    <3> QED
      BY <3>1 DEF q
  <2> QED
    BY <2>2, <2>3, <2>4, <2>5
<1> QED
  BY <1>1, <1>6, <1>7 DEF UpAt, Bridged, Above

LEMMA UpEnd ==
  ASSUME NEW E, NEW k, NEW n \in Nat, NEW h \in 0 .. n - 1,
         UpAt(E, k, n, h), h > 0 => k[E[PARENT(h)]] <= k[E[h]]
  PROVE  InOrder(E, k, n)
BY DEF UpAt, InOrder, Above

\* minHeapify: s is a smallest child of h, and smaller than h.
LEMMA DownStep ==
  ASSUME NEW E, NEW F, NEW k, NEW n \in Nat, NEW h \in 0 .. n - 1, NEW s \in 1 .. n - 1,
         Keyed(E, k, n), DownAt(E, k, n, h), PARENT(s) = h, k[E[s]] < k[E[h]],
         \A m \in 1 .. n - 1 : PARENT(m) = h => k[E[s]] <= k[E[m]],
         Exchanged(E, F, n, h, s)
  PROVE  DownAt(F, k, n, s)
<1>1. h < s
  BY ParentType
<1>2. F[h] = E[s] /\ F[s] = E[h] /\ \A m \in (0 .. n - 1) \ {h, s} : F[m] = E[m]
  BY DEF Exchanged
<1>3. \A m \in 1 .. n - 1 : PARENT(m) \in 0 .. n - 1 /\ PARENT(m) < m
  BY ParentType
<1>4. \A m \in 1 .. n - 1 : PARENT(m) # h => k[E[PARENT(m)]] <= k[E[m]]
  BY DEF DownAt, Above
<1>5. ASSUME NEW m \in 1 .. n - 1, PARENT(m) = s PROVE k[F[PARENT(s)]] <= k[F[m]]
  <2>1. m \notin {h, s} /\ k[E[s]] <= k[E[m]]
    BY <1>1, <1>3, <1>4, <1>5
  <2> QED
    BY <1>2, <2>1
<1>6. ASSUME NEW m \in 1 .. n - 1, PARENT(m) # s PROVE k[F[PARENT(m)]] <= k[F[m]]
  <2> DEFINE q == PARENT(m)
  <2>1. q \in 0 .. n - 1 /\ q < m
    BY <1>3
  <2>2. CASE m = s
    BY <1>2, <2>2 DEF Keyed
  <2>3. CASE m # s /\ q = h
    BY <1>2, <1>3, <2>3
  <2>4. CASE m = h
    <3>1. h > 0 /\ q # h /\ q # s
      BY <2>1, <2>4, <1>1
    <3>2. k[E[PARENT(h)]] <= k[E[s]]
      BY <3>1 DEF DownAt, Bridged
    <3> QED
      BY <1>2, <2>1, <2>4, <3>1, <3>2
  <2>5. CASE m \notin {h, s} /\ q # h
    BY <1>2, <1>4, <1>6, <2>1, <2>5
  <2> QED
    BY <2>2, <2>3, <2>4, <2>5
<1> QED
  BY <1>5, <1>6 DEF DownAt, Bridged, Above

LEMMA DownEnd ==
  ASSUME NEW E, NEW k, NEW n \in Nat, NEW h, DownAt(E, k, n, h),
         \A m \in 1 .. n - 1 : PARENT(m) = h => k[E[h]] <= k[E[m]]
  PROVE  InOrder(E, k, n)
BY DEF DownAt, InOrder, Above
-----------------------------------------------------------------------------
\* The inductive invariant

\* The array that elements points to is as large as it was before line 23 of
\* Heap.cpp doubled capacity.
Room == IF pc = "assign" THEN heap_size ELSE capacity

\* The offers in order: those in the array, and the one in hand where it is missing.
Virtual ==
  CASE pc = "sift" -> Put(elements, i, offer)
    [] pc = "clear" -> Put(elements, PARENT(i), offer)
    [] pc = "clearLast" -> Put(elements, 0, offer)
    [] pc = "swap" -> Put(elements, i, temp)
    [] OTHER -> elements

Count == IF pc \in {"append", "countDown"} THEN heap_size - 1 ELSE heap_size

Types ==
  /\ capacity \in Nat \ {0} /\ heap_size \in 0 .. capacity
  /\ elements \in [0 .. Room - 1 -> Offers \cup {NULL}]
  /\ array \in Nat
  /\ deleted \in BOOLEAN
  /\ dist \in [Offers -> Dists \cup {INT_MAX}]
  /\ pc \in PCs
  /\ offer \in Offers \cup {NULL}
  /\ key \in Dists \cup {INT_MAX}
  /\ i \in 0 .. capacity - 1
  /\ temp \in Offers \cup {NULL}
  /\ rpc \in {"idle", "load", "read"}
  /\ rarray \in Nat
  /\ root \in Offers \cup {NULL}

Sizes ==
  /\ deleted <=> pc = "assign"
  /\ pc = "grow" => heap_size = capacity
  /\ pc = "assign" => capacity = 2 * heap_size
  /\ pc = "count" => heap_size < capacity
  /\ pc \in {"append", "moveLast", "clearLast", "countDown"} => heap_size > 0
  /\ pc \in {"sift", "clear", "swap"} => i < heap_size
  /\ pc \in {"clear", "swap"} => i > 0
  /\ pc = "heapify" => i < heap_size \/ i = 0

Order ==
  /\ pc \in {"idle", "grow", "assign", "count", "append", "moveLast", "clearLast"} =>
       InOrder(Virtual, Key, Count)
  /\ pc = "sift" => UpAt(Virtual, Key, Count, i)
  /\ pc = "clear" => UpAt(Virtual, Key, Count, PARENT(i))
  /\ pc = "countDown" => DownAt(Virtual, Key, Count, 0)
  /\ pc \in {"heapify", "swap"} => DownAt(Virtual, Key, Count, i)

\* What the array holds in the places that Virtual does not tell.
Copies ==
  /\ \A m \in heap_size .. Room - 1 : elements[m] = NULL
  /\ pc \in {"append", "countDown"} => elements[heap_size - 1] = NULL
  /\ pc = "sift" => elements[i] \in {offer, NULL}
  /\ pc \in {"clear", "swap"} => elements[i] = elements[PARENT(i)]
  /\ pc = "moveLast" => offer = elements[0]
  /\ pc = "clearLast" => elements[0] = Virtual[heap_size - 1]

\* The offer in the owner's hand is in no place, and is the one that was asked for.
Hand ==
  /\ pc \in {"grow", "assign", "count", "append", "sift", "clear", "countDown"} => offer \in Offers
  /\ pc \in {"grow", "assign", "count", "append", "countDown"} =>
       \A m \in 0 .. Count - 1 : elements[m] # offer
  /\ pc \in {"grow", "assign", "count", "append"} => dist[offer] = key
  /\ pc = "countDown" => \A m \in 0 .. Count - 1 : dist[offer] <= dist[elements[m]]

IInv == Types /\ Sizes /\ Filled(Virtual, Count) /\ Order /\ Copies /\ Hand
-----------------------------------------------------------------------------
\* Lemmas about the state

LEMMA SameOrder ==
  ASSUME NEW E, NEW F, NEW k, NEW l, NEW n \in Nat, NEW h \in Nat,
         \A m \in 0 .. n - 1 : F[m] = E[m] /\ l[E[m]] = k[E[m]]
  PROVE  /\ Filled(E, n) => Filled(F, n)
         /\ InOrder(E, k, n) => InOrder(F, l, n)
         /\ UpAt(E, k, n, h) => UpAt(F, l, n, h)
         /\ DownAt(E, k, n, h) => DownAt(F, l, n, h)
<1>1. \A m \in 1 .. n - 1 : PARENT(m) \in 0 .. n - 1 /\ PARENT(m) < m
  BY ParentType
<1>2. \A m \in 1 .. n - 1 : Above(E, k, m) <=> Above(F, l, m)
  BY <1>1 DEF Above
<1>3. ASSUME Bridged(E, k, n, h) PROVE Bridged(F, l, n, h)
  <2> SUFFICES ASSUME h > 0, NEW m \in 1 .. n - 1, PARENT(m) = h
               PROVE  l[F[PARENT(h)]] <= l[F[m]]
    BY DEF Bridged
  <2>1. PARENT(h) \in 0 .. n - 1
    BY <1>1, ParentType
  <2> QED
    BY <1>3, <2>1 DEF Bridged
<1> QED
  BY <1>2, <1>3 DEF Filled, InOrder, UpAt, DownAt

LEMMA KeysAreNumbers ==
  ASSUME Types
  PROVE  /\ \A o \in Offers : Key[o] \in Int /\ dist[o] \in Int
         /\ key \in Int
BY DistAssumption DEF Types, Key

LEMMA VirtualKeyed ==
  ASSUME Types, NEW E, NEW n \in Nat, Filled(E, n)
  PROVE  Keyed(E, Key, n) /\ Keyed(E, dist, n)
BY KeysAreNumbers DEF Keyed, Filled

\* minHeapify finds the first smallest child, if it is smaller than h.
LEMMA SmallestChild ==
  ASSUME NEW h \in 0 .. heap_size - 1, heap_size \in Nat, Keyed(elements, dist, heap_size),
         NEW s, s = SmallestOf(h)
  PROVE  /\ s \in Compared(h) \cup {h}
         /\ \A m \in Compared(h) \cup {h} : dist[elements[s]] <= dist[elements[m]]
         /\ s # h => dist[elements[s]] < dist[elements[h]]
<1> DEFINE T == Compared(h) \cup {h}
           f == [m \in 0 .. heap_size - 1 |-> dist[elements[m]]]
<1>1. \A m \in Compared(h) : m \in 0 .. heap_size - 1 /\ m > h
  BY ChildType DEF Compared
<1>2. T \in SUBSET (0 .. heap_size - 1) /\ T # {}
  BY <1>1
<1>3. \A x \in 0 .. heap_size - 1 : f[x] \in Int /\ f[x] = dist[elements[x]]
  BY DEF Keyed
<1>4. \E x \in T : IsFirst(f, T, x)
  <2>1. heap_size - 1 \in Nat
    OBVIOUS
  <2> HIDE DEF T, f
  <2> QED
    BY <1>2, <1>3, <2>1, FirstSmallest
<1>5. \E x \in T : \A o \in T \ {x} :
        dist[elements[x]] < dist[elements[o]] \/ (dist[elements[x]] = dist[elements[o]] /\ x < o)
  BY <1>2, <1>3, <1>4 DEF IsFirst
<1>6. /\ s \in T
      /\ \A o \in T \ {s} :
           dist[elements[s]] < dist[elements[o]] \/ (dist[elements[s]] = dist[elements[o]] /\ s < o)
  BY <1>5 DEF SmallestOf
<1>7. \A m \in T : dist[elements[m]] \in Int
  BY <1>2, <1>3
<1> HIDE DEF f
<1> QED
  BY <1>1, <1>6, <1>7

LEMMA ComparedAre ==
  ASSUME NEW h \in Nat, heap_size \in Nat
  PROVE  Compared(h) = {m \in 1 .. heap_size - 1 : PARENT(m) = h}
<1>1. ASSUME NEW m \in Compared(h) PROVE m \in 1 .. heap_size - 1 /\ PARENT(m) = h
  BY <1>1, ChildType DEF Compared
<1>2. ASSUME NEW m \in 1 .. heap_size - 1, PARENT(m) = h PROVE m \in Compared(h)
  BY <1>2, ChildrenAre DEF Compared
<1> QED
  BY <1>1, <1>2
-----------------------------------------------------------------------------
\* Every step preserves the invariant.

LEMMA IInvInit == Init => IInv
<1> SUFFICES ASSUME Init PROVE IInv
  OBVIOUS
<1>1. heap_size = 0 /\ pc = "idle" /\ Virtual = elements /\ Count = 0
  BY DEF Init, Virtual, Count
<1>2. Types
  <2>1. Room = Capacity /\ elements \in [0 .. Room - 1 -> Offers \cup {NULL}]
    BY <1>1 DEF Init, Room
  <2>2. dist \in [Offers -> Dists \cup {INT_MAX}]
    BY DEF Init
  <2>3. deleted \in BOOLEAN
    BY DEF Init
  <2> QED
    BY <2>1, <2>2, <2>3, CapacityAssumption DEF Init, Types, PCs
<1>3. Sizes
  BY CapacityAssumption DEF Init, Sizes
<1>4. Filled(Virtual, Count) /\ Order
  BY <1>1 DEF Filled, Order, InOrder
<1>5. Copies /\ Hand
  BY <1>1, CapacityAssumption DEF Init, Copies, Hand, Room
<1> QED
  BY <1>2, <1>3, <1>4, <1>5 DEF IInv

LEMMA InsertKeeps ==
  ASSUME IInv, NEW o \in Offers, NEW d \in Dists, Insert(o, d)
  PROVE  IInv'
<1> USE DEF IInv
<1>1. /\ pc = "idle" /\ pc' \in {"grow", "count"} /\ (pc' = "grow" <=> heap_size >= capacity)
      /\ dist' = [dist EXCEPT ![o] = d] /\ offer' = o /\ key' = d
      /\ UNCHANGED <<heap_size, capacity, elements, array, deleted, i, temp, rpc, rarray, root>>
  BY DEF Insert, Goto, arrayVars, readerVars
<1>2. Virtual = elements /\ Virtual' = elements /\ Count = heap_size /\ Count' = heap_size
  BY <1>1 DEF Virtual, Count
<1>3. heap_size \in Nat /\ \A m \in 0 .. heap_size - 1 : elements[m] \in Offers /\ elements[m] # o
  <2>1. o \notin Slots
    BY <1>1 DEF Insert, Contents
  <2> QED
    BY <1>2, <2>1, NullAssumption DEF Filled, Slots, Types
<1>4. Types'
  BY <1>1 DEF Types, Room, PCs
<1>5. Sizes'
  BY <1>1 DEF Types, Sizes
<1>6. \A m \in 0 .. heap_size - 1 : Key'[elements[m]] = Key[elements[m]]
  BY <1>1, <1>3 DEF Key, Types
<1>7. Filled(Virtual, Count)' /\ InOrder(Virtual, Key, Count)'
  BY <1>1, <1>2, <1>3, <1>6, SameOrder DEF Order
<1>8. Copies' /\ Hand'
  BY <1>1, <1>2, <1>3 DEF Copies, Hand, Room, Types
<1> QED
  BY <1>1, <1>4, <1>5, <1>7, <1>8 DEF Order

LEMMA DeleteArrayKeeps ==
  ASSUME IInv, DeleteArray
  PROVE  IInv'
<1> USE DEF IInv
<1>1. /\ pc = "grow" /\ pc' = "assign" /\ heap_size = capacity
      /\ capacity' = 2 * capacity /\ deleted' = TRUE /\ capacity \in Nat \ {0}
      /\ UNCHANGED <<heap_size, elements, array, dist, offer, key, i, temp, rpc, rarray, root>>
  BY DEF DeleteArray, Goto, ownerVars, readerVars, Types, Sizes
<1>2. /\ Virtual = elements /\ Virtual' = elements /\ Count = heap_size /\ Count' = heap_size
      /\ Key' = Key /\ Room = heap_size /\ Room' = heap_size
  BY <1>1 DEF Virtual, Count, Key, Room
<1>3. Types' /\ Sizes'
  <2>1. capacity' \in Nat \ {0} /\ heap_size \in 0 .. capacity' /\ i \in 0 .. capacity' - 1
    BY <1>1 DEF Types
  <2> QED
    BY <1>1, <1>2, <2>1 DEF Types, Sizes, PCs
<1>4. Filled(Virtual, Count)' /\ Order'
  BY <1>1, <1>2 DEF Order
<1>5. Copies' /\ Hand'
  BY <1>1, <1>2 DEF Copies, Hand
<1> QED
  BY <1>3, <1>4, <1>5

LEMMA AssignArrayKeeps ==
  ASSUME IInv, AssignArray
  PROVE  IInv' /\ \A m \in 0 .. heap_size - 1 : elements'[m] = elements[m]
<1> USE DEF IInv
<1>1. /\ pc = "assign" /\ pc' = "count" /\ capacity = 2 * heap_size /\ deleted' = FALSE
      /\ heap_size \in Nat \ {0} /\ capacity \div 2 = heap_size
      /\ UNCHANGED <<heap_size, capacity, dist, offer, key, i, temp, rpc, rarray, root>>
  BY DEF AssignArray, Goto, ownerVars, readerVars, Types, Sizes
<1>2. elements' = [n \in 0 .. capacity - 1 |-> IF n < heap_size THEN elements[n] ELSE NULL]
  BY <1>1 DEF AssignArray
<1>3. \A m \in 0 .. heap_size - 1 : elements'[m] = elements[m]
  BY <1>1, <1>2
<1>4. /\ Virtual = elements /\ Virtual' = elements' /\ Count = heap_size /\ Count' = heap_size
      /\ Key' = Key /\ Room = heap_size /\ Room' = capacity
  BY <1>1 DEF Virtual, Count, Key, Room
<1>5. Types'
  <2>1. deleted' \in BOOLEAN
    BY <1>1
  <2>3. array' \in Nat
    BY DEF AssignArray, Types
  <2>2. elements' \in [0 .. Room' - 1 -> Offers \cup {NULL}]
    BY <1>2, <1>4 DEF Types
  <2> QED
    BY <1>1, <2>1, <2>2, <2>3 DEF Types, PCs
<1>6. Sizes'
  BY <1>1 DEF Sizes
<1>7. Filled(Virtual, Count)' /\ InOrder(Virtual, Key, Count)'
  BY <1>1, <1>3, <1>4, SameOrder DEF Order
<1>8. Order'
  BY <1>1, <1>7 DEF Order
<1>9. Copies' /\ Hand'
  BY <1>1, <1>2, <1>3, <1>4 DEF Copies, Hand
<1> QED
  BY <1>3, <1>5, <1>6, <1>7, <1>8, <1>9

LEMMA CountUpKeeps ==
  ASSUME IInv, CountUp
  PROVE  IInv'
<1> USE DEF IInv
<1>1. /\ pc = "count" /\ pc' = "append" /\ heap_size < capacity /\ heap_size' = heap_size + 1
      /\ UNCHANGED <<capacity, elements, array, deleted, dist, offer, key, i, temp, rpc, rarray, root>>
  BY DEF CountUp, Goto, ownerVars, readerVars, Sizes
<1>2. heap_size \in Nat /\ capacity \in Nat \ {0} /\ heap_size' - 1 = heap_size
  BY <1>1 DEF Types
<1>3. /\ Virtual = elements /\ Virtual' = elements /\ Count = heap_size /\ Count' = heap_size
      /\ Key' = Key /\ Room = capacity /\ Room' = capacity
  BY <1>1, <1>2 DEF Virtual, Count, Key, Room
<1>4. Types' /\ Sizes'
  BY <1>1, <1>2, <1>3 DEF Types, Sizes, PCs
<1>5. Filled(Virtual, Count)' /\ Order'
  BY <1>1, <1>3 DEF Order
<1>6. Copies' /\ Hand'
  BY <1>1, <1>2, <1>3 DEF Copies, Hand
<1> QED
  BY <1>4, <1>5, <1>6

LEMMA AppendKeeps ==
  ASSUME IInv, Append
  PROVE  IInv'
<1> USE DEF IInv
<1> DEFINE n == heap_size
<1>1. /\ pc = "append" /\ pc' = "sift" /\ n \in Nat \ {0} /\ n <= capacity
      /\ elements' = [elements EXCEPT ![n - 1] = offer]
      /\ dist' = [dist EXCEPT ![offer] = INT_MAX] /\ i' = n - 1
      /\ UNCHANGED <<heap_size, capacity, array, deleted, offer, key, temp, rpc, rarray, root>>
  BY DEF Append, Goto, readerVars, Sizes, Types
<1>2. /\ Room = capacity /\ Room' = capacity /\ Count = n - 1 /\ Count' = n
      /\ Virtual = elements /\ Virtual' = Put(elements', n - 1, offer)
  BY <1>1 DEF Virtual, Count, Room
<1>3. /\ offer \in Offers /\ dist[offer] = key
      /\ \A m \in 0 .. n - 2 : elements[m] \in Offers /\ elements[m] # offer
  BY <1>1, <1>2 DEF Hand, Filled
<1>4. elements \in [0 .. capacity - 1 -> Offers \cup {NULL}]
  BY <1>2 DEF Types
<1>5. /\ Virtual'[n - 1] = offer /\ elements'[n - 1] = offer
      /\ \A m \in 0 .. n - 2 : Virtual'[m] = elements[m]
      /\ \A m \in n .. capacity - 1 : elements'[m] = elements[m]
  <2>1. /\ elements' \in [0 .. capacity - 1 -> Offers \cup {NULL}] /\ elements'[n - 1] = offer
        /\ \A m \in (0 .. capacity - 1) \ {n - 1} : elements'[m] = elements[m]
    <3>1. n - 1 \in 0 .. capacity - 1
      BY <1>1 DEF Types
    <3> HIDE DEF n
    <3> QED
      BY <1>1, <1>3, <1>4, <3>1
  <2>2. Virtual'[n - 1] = offer /\ \A m \in 0 .. n - 2 : Virtual'[m] = elements'[m]
    BY <1>1, <1>2, <2>1 DEF Put
  <2> QED
    BY <1>1, <2>1, <2>2
<1>6. \A o \in Offers : Key'[o] = Key[o]
  BY <1>1, <1>3 DEF Key, Types
<1>7. Types'
  BY <1>1, <1>2, <1>3, <1>4 DEF Types, PCs
<1>8. Sizes'
  BY <1>1 DEF Sizes
<1>9. Filled(Virtual, Count)'
  <2>1. \A m \in 0 .. n - 1 : m = n - 1 \/ m \in 0 .. n - 2
    BY <1>1
  <2>2. \A l, m \in 0 .. n - 2 : elements[l] = elements[m] => l = m
    <3>1. Count - 1 = n - 2
      BY <1>1, <1>2
    <3> HIDE DEF n
    <3> QED
      BY <1>2, <3>1 DEF Filled
  <2> HIDE DEF n
  <2> QED
    BY <1>2, <1>3, <1>5, <2>1, <2>2 DEF Filled
<1>10. UpAt(Virtual', Key', n, n - 1)
  <2>1. \A m \in 1 .. n - 1 : PARENT(m) \in 0 .. n - 2 /\ PARENT(m) # n - 1
    BY <1>1, ParentType
  <2>2. ASSUME NEW m \in (1 .. n - 1) \ {n - 1} PROVE Above(Virtual', Key', m)
    <3>1. m \in 1 .. n - 2 /\ PARENT(m) \in 0 .. n - 2
      BY <1>1, <2>1
    <3>2. Above(elements, Key, m)
      BY <1>1, <1>2, <3>1 DEF Order, InOrder
    <3> QED
      BY <1>3, <1>5, <1>6, <3>1, <3>2 DEF Above
  <2> QED
    BY <2>1, <2>2 DEF UpAt, Bridged
<1>11. Order'
  BY <1>1, <1>2, <1>10 DEF Order
<1>12. Copies' /\ Hand'
  BY <1>1, <1>2, <1>3, <1>5 DEF Copies, Hand
<1> QED
  BY <1>7, <1>8, <1>9, <1>11, <1>12

LEMMA SiftCopyKeeps ==
  ASSUME IInv, SiftCopy
  PROVE  IInv'
<1> USE DEF IInv
<1>1. /\ pc = "sift" /\ pc' = "clear" /\ i > 0
      /\ elements' = [elements EXCEPT ![i] = elements[PARENT(i)]]
      /\ dist[elements[PARENT(i)]] > key
      /\ UNCHANGED <<heap_size, capacity, array, deleted, dist, offer, key, i, temp, rpc, rarray, root>>
  BY DEF SiftCopy, Goto, ParentIsLarger, ownerVars, readerVars
<1>2. heap_size \in Nat /\ i \in 1 .. heap_size - 1 /\ heap_size <= capacity /\ capacity \in Nat
  BY <1>1 DEF Sizes, Types
<1> PICK n \in Nat : n = heap_size
  BY <1>2
<1> PICK h \in 1 .. n - 1 : h = i
  BY <1>2
<1>3. PICK p \in 0 .. n - 1 : p = PARENT(h) /\ p < h
  BY ParentType
<1>4. /\ Room = capacity /\ Room' = capacity /\ Count = n /\ Count' = n /\ Key' = Key
      /\ Virtual = Put(elements, h, offer) /\ Virtual' = Put(elements', p, offer)
  BY <1>1, <1>3 DEF Virtual, Count, Room, Key
<1>5. elements \in [0 .. capacity - 1 -> Offers \cup {NULL}] /\ offer \in Offers
  BY <1>1, <1>4 DEF Types, Hand
<1>6. /\ elements' \in [0 .. capacity - 1 -> Offers \cup {NULL}] /\ elements'[h] = elements[p]
      /\ \A m \in (0 .. capacity - 1) \ {h} : elements'[m] = elements[m]
  BY <1>1, <1>2, <1>3, <1>5
<1>7. /\ Virtual[h] = offer /\ \A m \in (0 .. n - 1) \ {h} : Virtual[m] = elements[m]
      /\ Virtual'[p] = offer /\ \A m \in (0 .. n - 1) \ {p} : Virtual'[m] = elements'[m]
  BY <1>2, <1>4, <1>5, <1>6 DEF Put
<1>8. Exchanged(Virtual, Virtual', n, PARENT(h), h)
  BY <1>2, <1>3, <1>6, <1>7 DEF Exchanged
<1>9. Filled(Virtual, n) /\ UpAt(Virtual, Key, n, h)
  BY <1>1, <1>4 DEF Order
<1>10. elements[p] \in Offers /\ elements[p] # offer
  BY <1>3, <1>7, <1>9 DEF Filled
<1>11. Key[Virtual[h]] < Key[Virtual[PARENT(h)]]
  BY <1>1, <1>3, <1>5, <1>7, <1>10, KeysAreNumbers DEF Key
<1>12. Filled(Virtual', n)
  BY <1>3, <1>8, <1>9, ExchangeFilled
<1>13. UpAt(Virtual', Key, n, p)
  <2>1. Keyed(Virtual, Key, n)
    BY <1>9, VirtualKeyed
  <2> QED
    BY <1>3, <1>8, <1>9, <1>11, <2>1, UpStep
<1>14. Types'
  BY <1>1, <1>4, <1>6 DEF Types, PCs
<1>15. Sizes'
  BY <1>1 DEF Sizes
<1>16. Order'
  BY <1>1, <1>3, <1>4, <1>13 DEF Order
<1>17. Copies' /\ Hand'
  BY <1>1, <1>2, <1>3, <1>4, <1>6 DEF Copies, Hand
<1> QED
  BY <1>4, <1>12, <1>14, <1>15, <1>16, <1>17

LEMMA SiftClearKeeps ==
  ASSUME IInv, SiftClear
  PROVE  IInv'
<1> USE DEF IInv
<1>1. /\ pc = "clear" /\ pc' = "sift" /\ i' = PARENT(i)
      /\ elements' = [elements EXCEPT ![PARENT(i)] = NULL]
      /\ UNCHANGED <<heap_size, capacity, array, deleted, dist, offer, key, temp, rpc, rarray, root>>
  BY DEF SiftClear, Goto, readerVars
<1>2. heap_size \in Nat /\ i \in 1 .. heap_size - 1 /\ heap_size <= capacity /\ capacity \in Nat
  BY <1>1 DEF Sizes, Types
<1> PICK n \in Nat : n = heap_size
  BY <1>2
<1>3. PICK p \in 0 .. n - 1 : p = PARENT(i) /\ p < i
  BY <1>2, ParentType
<1>4. /\ Room = capacity /\ Room' = capacity /\ Count = n /\ Count' = n /\ Key' = Key
      /\ Virtual = Put(elements, p, offer) /\ Virtual' = Put(elements', p, offer)
  BY <1>1, <1>3 DEF Virtual, Count, Room, Key
<1>5. elements \in [0 .. capacity - 1 -> Offers \cup {NULL}]
  BY <1>1, <1>4 DEF Types
<1>6. /\ elements' \in [0 .. capacity - 1 -> Offers \cup {NULL}] /\ elements'[p] = NULL
      /\ \A m \in (0 .. capacity - 1) \ {p} : elements'[m] = elements[m]
  BY <1>1, <1>2, <1>3, <1>5
<1>7. \A m \in 0 .. n - 1 : Virtual'[m] = Virtual[m]
  BY <1>2, <1>4, <1>5, <1>6 DEF Put
<1>8. Filled(Virtual, n) /\ UpAt(Virtual, Key, n, p)
  BY <1>1, <1>3, <1>4 DEF Order
<1>9. Filled(Virtual', n) /\ UpAt(Virtual', Key, n, p)
  <2>1. p \in Nat /\ \A m \in 0 .. n - 1 : Virtual'[m] = Virtual[m] /\ Key[Virtual[m]] = Key[Virtual[m]]
    BY <1>7
  <2> QED
    BY ONLY <1>8, <2>1, n \in Nat, SameOrder
<1>10. Types'
  BY <1>1, <1>2, <1>3, <1>4, <1>6 DEF Types, PCs
<1>11. Sizes'
  BY <1>1, <1>3 DEF Sizes
<1>12. Order'
  BY <1>1, <1>3, <1>4, <1>9 DEF Order
<1>13. Copies' /\ Hand'
  BY <1>1, <1>2, <1>3, <1>4, <1>6 DEF Copies, Hand
<1> QED
  BY <1>4, <1>9, <1>10, <1>11, <1>12, <1>13

LEMMA PlaceKeeps ==
  ASSUME IInv, Place
  PROVE  IInv' /\ \A o \in Offers : Key'[o] = Key[o]
<1> USE DEF IInv
<1>1. /\ pc = "sift" /\ pc' = "idle" /\ i' = 0 /\ offer' = NULL /\ key' = INT_MAX
      /\ elements' = [elements EXCEPT ![i] = offer]
      /\ dist' = [dist EXCEPT ![offer] = key]
      /\ UNCHANGED <<heap_size, capacity, array, deleted, temp, rpc, rarray, root>>
  BY DEF Place, Goto, readerVars
<1>2. heap_size \in Nat /\ i \in 0 .. heap_size - 1 /\ heap_size <= capacity /\ capacity \in Nat \ {0}
  BY <1>1 DEF Sizes, Types
<1> PICK n \in Nat : n = heap_size
  BY <1>2
<1> PICK h \in 0 .. n - 1 : h = i
  BY <1>2
<1>3. /\ Room = capacity /\ Room' = capacity /\ Count = n /\ Count' = n
      /\ Virtual = elements' /\ Virtual' = elements'
  BY <1>1 DEF Virtual, Count, Room, Put
<1>4. elements \in [0 .. capacity - 1 -> Offers \cup {NULL}] /\ offer \in Offers
  BY <1>1, <1>3 DEF Types, Hand
<1>5. /\ elements' \in [0 .. capacity - 1 -> Offers \cup {NULL}] /\ elements'[h] = offer
      /\ \A m \in (0 .. capacity - 1) \ {h} : elements'[m] = elements[m]
  BY <1>1, <1>2, <1>4
<1>6. \A o \in Offers : Key'[o] = Key[o]
  BY <1>1, <1>4 DEF Key, Types
<1>7. Filled(elements', n) /\ UpAt(elements', Key, n, h)
  BY <1>1, <1>3 DEF Order
<1>8. h > 0 => Key[elements'[PARENT(h)]] <= Key[elements'[h]]
  <2> SUFFICES ASSUME h > 0 PROVE Key[elements'[PARENT(h)]] <= Key[elements'[h]]
    OBVIOUS
  <2>1. PICK p \in 0 .. n - 1 : p = PARENT(h) /\ p < h
    BY ParentType
  <2>2. elements'[p] = elements[p] /\ elements[p] \in Offers /\ elements[p] # offer
    BY <1>2, <1>5, <1>7, <2>1 DEF Filled
  <2>3. ~(dist[elements[p]] > key)
    BY <2>1 DEF Place, ParentIsLarger
  <2>4. Key[elements[p]] = dist[elements[p]] /\ Key[offer] = key
    BY <1>1, <1>4, <2>2 DEF Key
  <2> QED
    BY <1>4, <1>5, <2>1, <2>2, <2>3, <2>4, KeysAreNumbers
<1>9. InOrder(elements', Key, n)
  BY <1>7, <1>8, UpEnd
<1>10. InOrder(elements', Key', n)
  <2>1. \A m \in 0 .. n - 1 : Key'[elements'[m]] = Key[elements'[m]]
    BY <1>6, <1>7 DEF Filled
  <2> QED
    BY <1>9, <2>1, SameOrder
<1>11. Types'
  BY <1>1, <1>2, <1>3, <1>4, <1>5 DEF Types, PCs
<1>12. Sizes'
  BY <1>1 DEF Sizes
<1>13. Order'
  BY <1>1, <1>3, <1>10 DEF Order
<1>14. Copies' /\ Hand'
  BY <1>1, <1>2, <1>3, <1>5 DEF Copies, Hand
<1> QED
  BY <1>3, <1>6, <1>7, <1>11, <1>12, <1>13, <1>14

LEMMA ExtractMinKeeps ==
  ASSUME IInv, ExtractMin
  PROVE  IInv'
<1> USE DEF IInv
<1>1. /\ pc = "idle" /\ pc' = "moveLast" /\ heap_size # 0 /\ offer' = elements[0]
      /\ UNCHANGED <<heap_size, capacity, elements, array, deleted, dist, key, i, temp, rpc, rarray, root>>
  BY DEF ExtractMin, Goto, arrayVars, readerVars
<1>2. heap_size \in Nat \ {0} /\ heap_size <= capacity
  BY <1>1 DEF Types
<1>3. /\ Virtual = elements /\ Virtual' = elements /\ Count = heap_size /\ Count' = heap_size
      /\ Key' = Key /\ Room' = Room
  BY <1>1 DEF Virtual, Count, Key, Room
<1>4. offer' \in Offers
  BY <1>1, <1>2, <1>3 DEF Filled
<1>5. Types' /\ Sizes'
  BY <1>1, <1>2, <1>3, <1>4 DEF Types, Sizes, PCs
<1>6. Filled(Virtual, Count)' /\ Order'
  BY <1>1, <1>3 DEF Order
<1>7. Copies' /\ Hand'
  BY <1>1, <1>3 DEF Copies, Hand
<1> QED
  BY <1>5, <1>6, <1>7

LEMMA MoveLastKeeps ==
  ASSUME IInv, MoveLast
  PROVE  IInv'
<1> USE DEF IInv
<1>1. /\ pc = "moveLast" /\ pc' = "clearLast" /\ elements' = [elements EXCEPT ![0] = elements[heap_size - 1]]
      /\ UNCHANGED <<heap_size, capacity, array, deleted, dist, offer, key, i, temp, rpc, rarray, root>>
  BY DEF MoveLast, Goto, ownerVars, readerVars
<1>2. heap_size \in Nat \ {0} /\ heap_size <= capacity /\ capacity \in Nat
  BY <1>1 DEF Types, Sizes
<1> PICK n \in Nat \ {0} : n = heap_size
  BY <1>2
<1>3. /\ Virtual = elements /\ Virtual' = Put(elements', 0, offer) /\ Count = n /\ Count' = n
      /\ Key' = Key /\ Room = capacity /\ Room' = capacity
  BY <1>1 DEF Virtual, Count, Key, Room
<1>4. elements \in [0 .. capacity - 1 -> Offers \cup {NULL}] /\ offer = elements[0]
  BY <1>1, <1>3 DEF Types, Copies
<1>5. /\ elements' \in [0 .. capacity - 1 -> Offers \cup {NULL}] /\ elements'[0] = elements[n - 1]
      /\ \A m \in 1 .. capacity - 1 : elements'[m] = elements[m]
  BY <1>1, <1>2, <1>4
<1>6. \A m \in 0 .. n - 1 : Virtual'[m] = elements[m]
  BY <1>2, <1>3, <1>4, <1>5 DEF Put
<1>7. Filled(elements, n) /\ InOrder(elements, Key, n)
  BY <1>1, <1>3 DEF Order
<1>8. Filled(Virtual', n) /\ InOrder(Virtual', Key, n)
  BY ONLY <1>6, <1>7, n \in Nat \ {0}, SameOrder
<1>9. Types'
  BY <1>1, <1>3, <1>5 DEF Types, PCs
<1>10. Sizes'
  BY <1>1 DEF Sizes
<1>11. Order'
  BY <1>1, <1>3, <1>8 DEF Order
<1>12. Copies' /\ Hand'
  <2>1. elements'[0] = Virtual'[n - 1]
    BY <1>5, <1>6
  <2>2. \A m \in n .. Room' - 1 : elements'[m] = NULL
    BY <1>3, <1>5 DEF Copies
  <2> QED
    BY <1>1, <2>1, <2>2 DEF Copies, Hand
<1> QED
  BY <1>3, <1>8, <1>9, <1>10, <1>11, <1>12

LEMMA ClearLastKeeps ==
  ASSUME IInv, ClearLast
  PROVE  IInv'
<1> USE DEF IInv
<1>1. /\ pc = "clearLast" /\ pc' = "countDown" /\ elements' = [elements EXCEPT ![heap_size - 1] = NULL]
      /\ UNCHANGED <<heap_size, capacity, array, deleted, dist, offer, key, i, temp, rpc, rarray, root>>
  BY DEF ClearLast, Goto, ownerVars, readerVars
<1>2. heap_size \in Nat \ {0} /\ heap_size <= capacity /\ capacity \in Nat
  BY <1>1 DEF Types, Sizes
<1> PICK n \in Nat : n = heap_size - 1
  BY <1>2
<1>3. /\ Virtual = Put(elements, 0, offer) /\ Virtual' = elements' /\ Count = n + 1 /\ Count' = n
      /\ Key' = Key /\ Key = dist /\ Room = capacity /\ Room' = capacity
  <2>1. Key = [o \in Offers |-> dist[o]] /\ Key' = [o \in Offers |-> dist[o]]
    BY <1>1 DEF Key
  <2>2. dist = [o \in Offers |-> dist[o]]
    BY DEF Types
  <2> QED
    BY <1>1, <1>2, <2>1, <2>2 DEF Virtual, Count, Room
<1> PICK V : V = Virtual
  OBVIOUS
<1>4. /\ elements \in [0 .. capacity - 1 -> Offers \cup {NULL}]
      /\ Filled(V, n + 1) /\ InOrder(V, dist, n + 1) /\ elements[0] = V[n]
  BY <1>1, <1>3 DEF Types, Order, Copies
<1>5. V[0] = offer /\ \A m \in 1 .. n : V[m] = elements[m]
  BY <1>2, <1>3, <1>4 DEF Put
<1>6. /\ elements' \in [0 .. capacity - 1 -> Offers \cup {NULL}] /\ elements'[n] = NULL
      /\ \A m \in (0 .. capacity - 1) \ {n} : elements'[m] = elements[m]
  BY <1>1, <1>2, <1>4
<1>7. /\ n > 0 => elements'[0] = V[n]
      /\ \A m \in 1 .. n - 1 : elements'[m] = V[m]
  BY <1>2, <1>4, <1>5, <1>6
<1>8. Filled(elements', n)
  BY <1>4, <1>7 DEF Filled
<1>9. offer \in Offers /\ \A m \in 0 .. n - 1 : elements'[m] # offer
  BY <1>4, <1>5, <1>7 DEF Filled
<1>10. \A m \in 0 .. n - 1 : dist[offer] <= dist[elements'[m]]
  <2>1. Keyed(V, dist, n + 1)
    BY <1>4, VirtualKeyed
  <2>2. \A m \in 0 .. n : dist[V[0]] <= dist[V[m]]
    BY <1>4, <2>1, RootIsLeast
  <2> QED
    BY <1>5, <1>7, <2>2
<1>11. DownAt(elements', dist, n, 0)
  <2>1. ASSUME NEW m \in 1 .. n - 1, PARENT(m) # 0 PROVE Above(elements', dist, m)
    <3>1. PARENT(m) \in 1 .. n - 1
      BY <2>1, ParentType
    <3> QED
      BY <1>4, <1>7, <3>1 DEF InOrder, Above
  <2> QED
    BY <2>1 DEF DownAt, Bridged
<1>12. Types'
  BY <1>1, <1>3, <1>6 DEF Types, PCs
<1>13. Sizes'
  BY <1>1 DEF Sizes
<1>14. Order'
  BY <1>1, <1>3, <1>11 DEF Order
<1>15. Copies'
  BY <1>1, <1>2, <1>3, <1>6 DEF Copies
<1>16. Hand'
  BY <1>1, <1>3, <1>9, <1>10 DEF Hand
<1> QED
  BY <1>3, <1>8, <1>12, <1>13, <1>14, <1>15, <1>16

LEMMA CountDownKeeps ==
  ASSUME IInv, CountDown
  PROVE  IInv'
<1> USE DEF IInv
<1>1. /\ pc = "countDown" /\ pc' = "heapify" /\ heap_size' = heap_size - 1 /\ i' = 0
      /\ UNCHANGED <<capacity, elements, array, deleted, dist, offer, key, temp, rpc, rarray, root>>
  BY DEF CountDown, Goto, readerVars
<1>2. heap_size \in Nat \ {0} /\ heap_size <= capacity /\ capacity \in Nat \ {0}
  BY <1>1 DEF Types, Sizes
<1>3. /\ Virtual = elements /\ Virtual' = elements /\ Count = heap_size' /\ Count' = heap_size'
      /\ Key' = Key /\ Room = capacity /\ Room' = capacity
  BY <1>1 DEF Virtual, Count, Key, Room
<1>4. Types' /\ Sizes'
  BY <1>1, <1>2, <1>3 DEF Types, Sizes, PCs
<1>5. Filled(Virtual, Count)' /\ Order'
  BY <1>1, <1>3 DEF Order
<1>6. Copies' /\ Hand'
  BY <1>1, <1>2, <1>3 DEF Copies, Hand
<1> QED
  BY <1>4, <1>5, <1>6

LEMMA SwapFirstKeeps ==
  ASSUME IInv, SwapFirst
  PROVE  IInv' /\ SmallestOf(i) \in 0 .. heap_size - 1
<1> USE DEF IInv
<1> PICK s : s = SmallestOf(i)
  OBVIOUS
<1>1. /\ pc = "heapify" /\ pc' = "swap" /\ Compared(i) # {} /\ s # i
      /\ temp' = elements[i] /\ elements' = [elements EXCEPT ![i] = elements[s]] /\ i' = s
      /\ UNCHANGED <<heap_size, capacity, array, deleted, dist, offer, key, rpc, rarray, root>>
  BY DEF SwapFirst, Goto, Sinks, readerVars
<1>2. heap_size \in Nat /\ i \in 0 .. heap_size - 1 /\ heap_size <= capacity /\ capacity \in Nat
  <2>1. heap_size \in Nat /\ i \in Nat /\ heap_size <= capacity /\ capacity \in Nat
    BY DEF Types
  <2>2. PICK m : m \in Compared(i)
    BY <1>1
  <2>3. m \in 1 .. heap_size - 1
    BY <2>1, <2>2, ComparedAre
  <2> QED
    BY <1>1, <2>1, <2>3 DEF Sizes
<1> PICK n \in Nat : n = heap_size
  BY <1>2
<1> PICK h \in 0 .. n - 1 : h = i
  BY <1>2
<1>3. /\ Virtual = elements /\ Virtual' = Put(elements', s, elements[h]) /\ Count = n /\ Count' = n
      /\ Key' = Key /\ Key = dist /\ Room = capacity /\ Room' = capacity
  <2>1. Key = [o \in Offers |-> dist[o]] /\ Key' = [o \in Offers |-> dist[o]]
    BY <1>1 DEF Key
  <2>2. dist = [o \in Offers |-> dist[o]]
    BY DEF Types
  <2> QED
    BY <1>1, <1>2, <2>1, <2>2 DEF Virtual, Count, Room
<1>4. /\ elements \in [0 .. capacity - 1 -> Offers \cup {NULL}]
      /\ Filled(elements, n) /\ DownAt(elements, dist, n, h)
  BY <1>1, <1>3 DEF Types, Order
<1>5. Keyed(elements, dist, n)
  BY <1>4, VirtualKeyed
<1>6. Compared(h) = {m \in 1 .. n - 1 : PARENT(m) = h}
  BY <1>2, ComparedAre
<1>7. /\ s \in Compared(h) /\ dist[elements[s]] < dist[elements[h]]
      /\ \A m \in Compared(h) : dist[elements[s]] <= dist[elements[m]]
  BY <1>1, <1>2, <1>5, SmallestChild
<1>8. s \in 1 .. n - 1 /\ PARENT(s) = h
  BY <1>6, <1>7
<1>9. /\ elements' \in [0 .. capacity - 1 -> Offers \cup {NULL}] /\ elements'[h] = elements[s]
      /\ \A m \in (0 .. capacity - 1) \ {h} : elements'[m] = elements[m]
  BY <1>1, <1>2, <1>4, <1>8
<1>10. /\ Virtual'[s] = elements[h] /\ \A m \in (0 .. n - 1) \ {s} : Virtual'[m] = elements'[m]
  BY <1>2, <1>3, <1>8, <1>9 DEF Put
<1>11. Exchanged(elements, Virtual', n, h, s)
  BY <1>1, <1>2, <1>8, <1>9, <1>10 DEF Exchanged
<1>12. Filled(Virtual', n)
  BY <1>4, <1>8, <1>11, ExchangeFilled
<1>13. DownAt(Virtual', dist, n, s)
  BY <1>4, <1>5, <1>6, <1>7, <1>8, <1>11, DownStep
<1>14. Types'
  BY <1>1, <1>2, <1>3, <1>4, <1>8, <1>9 DEF Types, PCs
<1>15. Sizes'
  BY <1>1, <1>2, <1>8 DEF Sizes
<1>16. Order'
  BY <1>1, <1>3, <1>13 DEF Order
<1>17. Copies' /\ Hand'
  BY <1>1, <1>2, <1>3, <1>8, <1>9 DEF Copies, Hand
<1> QED
  BY <1>2, <1>3, <1>8, <1>12, <1>14, <1>15, <1>16, <1>17

LEMMA SwapSecondKeeps ==
  ASSUME IInv, SwapSecond
  PROVE  IInv'
<1> USE DEF IInv
<1>1. /\ pc = "swap" /\ pc' = "heapify" /\ elements' = [elements EXCEPT ![i] = temp] /\ temp' = NULL
      /\ UNCHANGED <<heap_size, capacity, array, deleted, dist, offer, key, i, rpc, rarray, root>>
  BY DEF SwapSecond, Goto, readerVars
<1>2. heap_size \in Nat /\ i \in 0 .. heap_size - 1 /\ heap_size <= capacity /\ capacity \in Nat
  BY <1>1 DEF Types, Sizes
<1>3. /\ Virtual = elements' /\ Virtual' = elements' /\ Count = heap_size /\ Count' = heap_size
      /\ Key' = Key /\ Room = capacity /\ Room' = capacity
  BY <1>1 DEF Virtual, Count, Key, Room, Put
<1>4. /\ elements' \in [0 .. capacity - 1 -> Offers \cup {NULL}]
      /\ \A m \in (0 .. capacity - 1) \ {i} : elements'[m] = elements[m]
  BY <1>1, <1>2, <1>3 DEF Types
<1>5. Types' /\ Sizes'
  BY <1>1, <1>3, <1>4 DEF Types, Sizes, PCs
<1>6. Filled(Virtual, Count)' /\ Order'
  BY <1>1, <1>3 DEF Order
<1>7. Copies' /\ Hand'
  BY <1>1, <1>2, <1>3, <1>4 DEF Copies, Hand
<1> QED
  BY <1>5, <1>6, <1>7

LEMMA ExtractReturnKeeps ==
  ASSUME IInv, ExtractReturn
  PROVE  IInv'
<1> USE DEF IInv
<1>1. /\ pc = "heapify" /\ pc' = "idle" /\ ~Sinks /\ offer' = NULL /\ i' = 0
      /\ UNCHANGED <<heap_size, capacity, elements, array, deleted, dist, key, temp, rpc, rarray, root>>
  BY DEF ExtractReturn, Goto, arrayVars, readerVars
<1>2. heap_size \in Nat /\ i \in Nat
  BY DEF Types
<1>3. /\ Virtual = elements /\ Virtual' = elements /\ Count = heap_size /\ Count' = heap_size
      /\ Key' = Key /\ Key = dist /\ Room = capacity /\ Room' = capacity
  <2>1. Key = [o \in Offers |-> dist[o]] /\ Key' = [o \in Offers |-> dist[o]]
    BY <1>1 DEF Key
  <2>2. dist = [o \in Offers |-> dist[o]]
    BY DEF Types
  <2> QED
    BY <1>1, <1>2, <2>1, <2>2 DEF Virtual, Count, Room
<1>4. Filled(elements, heap_size) /\ DownAt(elements, dist, heap_size, i)
  BY <1>1, <1>3 DEF Order
<1>5. \A m \in 1 .. heap_size - 1 : PARENT(m) = i => dist[elements[i]] <= dist[elements[m]]
  <2> SUFFICES ASSUME NEW c \in 1 .. heap_size - 1, PARENT(c) = i
               PROVE  dist[elements[i]] <= dist[elements[c]]
    OBVIOUS
  <2>1. i \in 0 .. heap_size - 1
    BY <1>2, ParentType
  <2>2. c \in Compared(i)
    BY <1>2, ComparedAre
  <2>3. i = SmallestOf(i)
    BY <1>1, <2>2 DEF Sinks
  <2>4. Keyed(elements, dist, heap_size)
    BY <1>2, <1>4, VirtualKeyed
  <2> QED
    BY <1>2, <2>1, <2>2, <2>3, <2>4, SmallestChild
<1>6. InOrder(elements, dist, heap_size)
  BY <1>2, <1>4, <1>5, DownEnd
<1>7. Types' /\ Sizes'
  BY <1>1, <1>3 DEF Types, Sizes, PCs
<1>8. Filled(Virtual, Count)' /\ Order'
  BY <1>1, <1>3, <1>4, <1>6 DEF Order
<1>9. Copies' /\ Hand'
  BY <1>1, <1>3 DEF Copies, Hand
<1> QED
  BY <1>7, <1>8, <1>9

LEMMA ReaderKeeps ==
  ASSUME IInv, ReaderStep
  PROVE  IInv'
<1> USE DEF IInv
<1>1. /\ UNCHANGED <<heap_size, capacity, elements, array, deleted, dist, pc, offer, key, i, temp>>
      /\ rpc' \in {"idle", "load", "read"} /\ rarray' \in Nat /\ root' \in Offers \cup {NULL}
  BY DEF ReaderStep, FindMinEmpty, FindMinNonEmpty, FindMinLoad, FindMinRead, arrayVars, ownerVars,
         Types
<1>2. Virtual' = Virtual /\ Count' = Count /\ Key' = Key /\ Room' = Room
  BY <1>1 DEF Virtual, Count, Key, Room
<1>3. Types' /\ Sizes'
  BY <1>1, <1>2 DEF Types, Sizes
<1>4. Order' /\ Copies' /\ Hand' /\ Filled(Virtual, Count)'
  BY <1>1, <1>2 DEF Order, Copies, Hand
<1> QED
  BY <1>3, <1>4

LEMMA IInvNext == IInv /\ [Next]_vars => IInv'
<1> SUFFICES ASSUME IInv, [Next]_vars PROVE IInv'
  OBVIOUS
<1>1. CASE OwnerStep
  BY <1>1, InsertKeeps, DeleteArrayKeeps, AssignArrayKeeps, CountUpKeeps, AppendKeeps,
     SiftCopyKeeps, SiftClearKeeps, PlaceKeeps, ExtractMinKeeps, MoveLastKeeps, ClearLastKeeps,
     CountDownKeeps, SwapFirstKeeps, SwapSecondKeeps, ExtractReturnKeeps DEF OwnerStep
<1>2. CASE ReaderStep
  BY <1>2, ReaderKeeps
<1>3. CASE UNCHANGED vars
  <2> USE <1>3 DEF IInv, vars, arrayVars, ownerVars, readerVars
  <2>1. Virtual' = Virtual /\ Count' = Count /\ Key' = Key /\ Room' = Room
    BY DEF Virtual, Count, Key, Room
  <2>2. Types' /\ Sizes'
    BY <2>1 DEF Types, Sizes
  <2>3. Order' /\ Copies' /\ Hand' /\ Filled(Virtual, Count)'
    BY <2>1 DEF Order, Copies, Hand
  <2> QED
    BY <2>2, <2>3
<1> QED
  BY <1>1, <1>2, <1>3 DEF Next

LEMMA IInvAlways == Spec => []IInv
  BY IInvInit, IInvNext, PTL DEF Spec

\* The variables keep their types, for every arity, capacity, set of offers and of
\* distances (dAryMinHeap.cpp, Heap.cpp): no index leaves the array.
THEOREM TypeCorrect == Spec => []TypeOK
<1>1. IInv => TypeOK
  <2> SUFFICES ASSUME IInv PROVE TypeOK
    OBVIOUS
  <2> USE DEF IInv, Types
  <2>1. CASE pc = "assign"
    <3>1. capacity \div 2 = heap_size /\ deleted
      BY <2>1 DEF Sizes
    <3>2. elements \in [0 .. IF deleted THEN capacity \div 2 - 1 ELSE capacity - 1 -> Offers \cup {NULL}]
      BY <2>1, <3>1 DEF Room
    <3> QED
      BY <3>2 DEF TypeOK
  <2>2. CASE pc # "assign"
    <3>1. ~deleted
      BY <2>2 DEF Sizes
    <3>2. elements \in [0 .. IF deleted THEN capacity \div 2 - 1 ELSE capacity - 1 -> Offers \cup {NULL}]
      BY <2>2, <3>1 DEF Room
    <3> QED
      BY <3>2 DEF TypeOK
  <2> QED
    BY <2>1, <2>2
<1> QED
  BY <1>1, IInvAlways, PTL

\* Neither decreaseKey nor minHeapify compares through a null pointer
\* (dAryMinHeap.cpp:42, 72).
THEOREM NullNeverCompared == Spec => []NoNullCompared
<1>1. IInv => NoNullCompared
  <2> SUFFICES ASSUME IInv PROVE NoNullCompared
    OBVIOUS
  <2> USE DEF IInv
  <2>1. heap_size \in Nat /\ heap_size <= capacity /\ i \in Nat /\ capacity \in Nat
    BY DEF Types
  <2>2. ASSUME pc = "sift", i > 0 PROVE elements[PARENT(i)] # NULL
    <3>1. PICK p \in 0 .. heap_size - 1 : p = PARENT(i) /\ p < i
      BY <2>1, <2>2, ParentType DEF Sizes
    <3>2. Virtual[p] \in Offers /\ Virtual = Put(elements, i, offer)
      BY <2>2, <3>1 DEF Virtual, Count, Filled
    <3>3. elements \in [0 .. capacity - 1 -> Offers \cup {NULL}]
      BY <2>2 DEF Types, Room
    <3>4. Virtual[p] = elements[p]
      BY <2>1, <3>1, <3>2, <3>3 DEF Put
    <3> QED
      BY <3>1, <3>2, <3>4, NullAssumption
  <2>3. ASSUME pc = "heapify", Compared(i) # {}, NEW n \in Compared(i) \cup {i}
        PROVE  n \in DOMAIN elements /\ elements[n] # NULL
    <3>1. n \in 0 .. heap_size - 1
      <4>1. PICK m : m \in Compared(i)
        BY <2>3
      <4>2. Compared(i) \subseteq 1 .. heap_size - 1
        BY <2>1, ComparedAre
      <4> QED
        BY <2>1, <2>3, <4>1, <4>2 DEF Sizes
    <3>2. elements \in [0 .. capacity - 1 -> Offers \cup {NULL}] /\ elements[n] \in Offers
      BY <2>3, <3>1 DEF Types, Room, Virtual, Count, Filled
    <3> QED
      BY <2>1, <3>1, <3>2, NullAssumption
  <2> QED
    BY <2>2, <2>3 DEF NoNullCompared
<1> QED
  BY <1>1, IInvAlways, PTL
-----------------------------------------------------------------------------
\* The priority queue

InHeap(E, n) == {E[m] : m \in 0 .. n - 1}

LEMMA ContentsAre ==
  Contents = (InHeap(elements, heap_size) \ {NULL})
             \cup (IF pc \in {"append", "sift", "clear", "moveLast", "clearLast", "countDown"}
                   THEN {offer} ELSE IF pc = "swap" THEN {temp} ELSE {})
BY DEF Contents, Slots, InHeap

\* A write to the array.
LEMMA WriteSlot ==
  ASSUME NEW E, NEW F, NEW n \in Nat, NEW h \in 0 .. n - 1,
         \A m \in (0 .. n - 1) \ {h} : F[m] = E[m]
  PROVE  InHeap(F, n) \cup {E[h]} = InHeap(E, n) \cup {F[h]}
BY DEF InHeap

LEMMA OneMore ==
  ASSUME NEW E, NEW n \in Nat
  PROVE  InHeap(E, n + 1) = InHeap(E, n) \cup {E[n]}
<1>1. \A m \in 0 .. n + 1 - 1 : m = n \/ m \in 0 .. n - 1
  OBVIOUS
<1>2. n \in 0 .. n + 1 - 1 /\ \A m \in 0 .. n - 1 : m \in 0 .. n + 1 - 1
  OBVIOUS
<1> QED
  BY <1>1, <1>2 DEF InHeap

LEMMA SetDistStep ==
  ASSUME IInv, NEW o \in Offers, NEW d \in Dists, Insert(o, d)
  PROVE  PQ!SetDist(o, d)
<1>1. /\ pc = "idle" /\ pc' \in {"grow", "count"} /\ o \notin Contents
      /\ dist' = [dist EXCEPT ![o] = d] /\ UNCHANGED <<heap_size, elements>>
  BY DEF Insert, Goto, arrayVars
<1>2. Contents' = Contents
  BY <1>1 DEF Contents, Slots
<1>3. Key = [x \in Offers |-> dist[x]] /\ Key' = [x \in Offers |-> dist'[x]]
  BY <1>1 DEF Key
<1>4. Key' = [Key EXCEPT ![o] = d]
  BY <1>1, <1>3 DEF IInv, Types
<1> QED
  BY <1>1, <1>2, <1>4 DEF PQ!SetDist

LEMMA InsertStep ==
  ASSUME IInv, CountUp
  PROVE  offer \in Offers /\ PQ!Insert(offer)
<1>1. /\ pc = "count" /\ pc' = "append" /\ heap_size < capacity /\ heap_size' = heap_size + 1
      /\ UNCHANGED <<elements, dist, offer, key>> /\ heap_size \in Nat /\ capacity \in Nat
  BY DEF CountUp, Goto, ownerVars, IInv, Sizes, Types
<1>2. elements[heap_size] = NULL /\ offer \in Offers /\ \A m \in 0 .. heap_size - 1 : elements[m] # offer
  BY <1>1 DEF IInv, Copies, Room, Hand, Count
<1>3. InHeap(elements, heap_size') = InHeap(elements, heap_size) \cup {NULL}
  BY <1>1, <1>2, OneMore
<1>4. Contents = InHeap(elements, heap_size) \ {NULL}
  BY <1>1, ContentsAre
<1>5. Contents' = (InHeap(elements, heap_size') \ {NULL}) \cup {offer}
  BY <1>1 DEF Contents, Slots, InHeap
<1>6. offer \notin Contents
  BY <1>2, <1>4 DEF InHeap
<1>7. Key' = Key
  BY <1>1 DEF Key
<1> QED
  BY <1>2, <1>3, <1>4, <1>5, <1>6, <1>7 DEF PQ!Insert

LEMMA ExtractStep ==
  ASSUME IInv, CountDown
  PROVE  offer \in Offers /\ PQ!ExtractMin(offer)
<1>1. /\ pc = "countDown" /\ pc' = "heapify" /\ heap_size' = heap_size - 1 /\ heap_size \in Nat \ {0}
      /\ UNCHANGED <<elements, dist, offer, key>>
  BY DEF CountDown, Goto, IInv, Sizes, Types
<1> PICK n \in Nat : n = heap_size - 1
  BY <1>1
<1>2. /\ elements[n] = NULL /\ offer \in Offers
      /\ \A m \in 0 .. n - 1 : elements[m] # offer /\ dist[offer] <= dist[elements[m]]
      /\ \A m \in 0 .. n - 1 : elements[m] \in Offers
  BY <1>1 DEF IInv, Copies, Hand, Count, Filled, Virtual
<1>3. InHeap(elements, heap_size) = InHeap(elements, n) \cup {NULL}
  BY <1>1, <1>2, OneMore
<1>4. Contents = (InHeap(elements, heap_size) \ {NULL}) \cup {offer}
  BY <1>1, ContentsAre
<1>5. Contents' = InHeap(elements, n) \ {NULL}
  BY <1>1 DEF Contents, Slots, InHeap
<1>6. offer \notin InHeap(elements, n)
  BY <1>2 DEF InHeap
<1>7. Key' = Key /\ \A o \in Offers : Key[o] = dist[o] /\ dist[o] \in Int
  BY <1>1, KeysAreNumbers DEF Key, IInv
<1>8. \A other \in Contents : Key[offer] <= Key[other]
  <2>1. \A other \in InHeap(elements, n) : Key[offer] <= Key[other]
    BY <1>2, <1>7 DEF InHeap
  <2>2. Key[offer] <= Key[offer]
    BY <1>2, <1>7
  <2> QED
    BY <1>3, <1>4, <2>1, <2>2
<1> QED
  BY <1>2, <1>3, <1>4, <1>5, <1>6, <1>7, <1>8, NullAssumption DEF PQ!ExtractMin, PQ!Smallest

LEMMA SlotIsIn ==
  ASSUME NEW E, NEW n \in Nat, NEW m \in 0 .. n - 1
  PROVE  E[m] \in InHeap(E, n)
BY DEF InHeap

LEMMA SameKey ==
  ASSUME \A o \in Offers : Key'[o] = Key[o]
  PROVE  Key' = Key
<1>1. Key = [o \in Offers |-> Key[o]] /\ Key' = [o \in Offers |-> Key'[o]]
  BY DEF Key
<1> QED
  BY <1>1

Stutters == UNCHANGED <<Contents, Key>>

LEMMA DeleteArrayStutters ==
  ASSUME IInv, DeleteArray
  PROVE  Stutters
<1>1. pc = "grow" /\ pc' = "assign" /\ UNCHANGED <<heap_size, elements, dist, offer, key, temp>>
  BY DEF DeleteArray, Goto, ownerVars
<1> QED
  BY <1>1 DEF Stutters, Contents, Slots, Key

LEMMA AssignArrayStutters ==
  ASSUME IInv, AssignArray
  PROVE  Stutters
<1>1. pc = "assign" /\ pc' = "count" /\ UNCHANGED <<heap_size, dist, offer, key, temp>>
  BY DEF AssignArray, Goto, ownerVars
<1>2. \A m \in 0 .. heap_size - 1 : elements'[m] = elements[m]
  BY AssignArrayKeeps
<1>3. Slots' = Slots
  BY <1>1, <1>2 DEF Slots
<1> QED
  BY <1>1, <1>3 DEF Stutters, Contents, Key

LEMMA AppendStutters ==
  ASSUME IInv, Append
  PROVE  Stutters
<1> USE DEF IInv
<1>1. /\ pc = "append" /\ pc' = "sift" /\ elements' = [elements EXCEPT ![heap_size - 1] = offer]
      /\ dist' = [dist EXCEPT ![offer] = INT_MAX] /\ UNCHANGED <<heap_size, offer, key, temp>>
      /\ heap_size \in Nat \ {0} /\ heap_size <= capacity /\ capacity \in Nat
  BY DEF Append, Goto, Sizes, Types
<1> PICK n \in Nat \ {0} : n = heap_size
  BY <1>1
<1>2. /\ elements[n - 1] = NULL /\ elements'[n - 1] = offer
      /\ \A m \in (0 .. n - 1) \ {n - 1} : elements'[m] = elements[m]
  BY <1>1 DEF Copies, Types, Room
<1>3. /\ Contents = (InHeap(elements, n) \ {NULL}) \cup {offer}
      /\ Contents' = (InHeap(elements', n) \ {NULL}) \cup {offer}
  BY <1>1 DEF Contents, Slots, InHeap
<1>4. Contents' = Contents
  <2>1. n - 1 \in 0 .. n - 1
    BY <1>1
  <2>2. InHeap(elements', n) \cup {elements[n - 1]} = InHeap(elements, n) \cup {elements'[n - 1]}
    BY <2>1, <1>2, WriteSlot
  <2> QED
    BY <2>2, <1>2, <1>3
<1>5. \A o \in Offers : Key'[o] = Key[o]
  BY <1>1 DEF Key, Types, Hand
<1> QED
  BY <1>4, <1>5, SameKey DEF Stutters

LEMMA SiftCopyStutters ==
  ASSUME IInv, SiftCopy
  PROVE  Stutters
<1> USE DEF IInv
<1>1. /\ pc = "sift" /\ pc' = "clear" /\ elements' = [elements EXCEPT ![i] = elements[PARENT(i)]]
      /\ UNCHANGED <<heap_size, dist, offer, key, temp>>
      /\ heap_size \in Nat /\ heap_size <= capacity /\ capacity \in Nat /\ i \in 1 .. heap_size - 1
  BY DEF SiftCopy, ParentIsLarger, Goto, ownerVars, Sizes, Types
<1> PICK n \in Nat : n = heap_size
  BY <1>1
<1>2. PARENT(i) \in 0 .. n - 1
  BY <1>1, ParentType
<1>3. /\ elements[i] \in {offer, NULL} /\ elements'[i] = elements[PARENT(i)]
      /\ \A m \in (0 .. n - 1) \ {i} : elements'[m] = elements[m]
  BY <1>1 DEF Copies, Types, Room
<1>4. elements'[i] \in InHeap(elements, n)
  BY <1>2, <1>3, SlotIsIn
<1>5. /\ Contents = (InHeap(elements, n) \ {NULL}) \cup {offer}
      /\ Contents' = (InHeap(elements', n) \ {NULL}) \cup {offer}
  BY <1>1 DEF Contents, Slots, InHeap
<1>6. Contents' = Contents
  <2>1. i \in 0 .. n - 1
    BY <1>1
  <2>2. InHeap(elements', n) \cup {elements[i]} = InHeap(elements, n) \cup {elements'[i]}
    BY <2>1, <1>3, WriteSlot
  <2> QED
    BY <2>2, <1>3, <1>4, <1>5
<1> QED
  BY <1>1, <1>6 DEF Stutters, Key

LEMMA SiftClearStutters ==
  ASSUME IInv, SiftClear
  PROVE  Stutters
<1> USE DEF IInv
<1>1. /\ pc = "clear" /\ pc' = "sift" /\ elements' = [elements EXCEPT ![PARENT(i)] = NULL]
      /\ UNCHANGED <<heap_size, dist, offer, key, temp>>
      /\ heap_size \in Nat /\ heap_size <= capacity /\ capacity \in Nat /\ i \in 1 .. heap_size - 1
  BY DEF SiftClear, Goto, Sizes, Types
<1> PICK n \in Nat : n = heap_size
  BY <1>1
<1> PICK p \in 0 .. n - 1 : p = PARENT(i) /\ p < i
  BY <1>1, ParentType
<1>2. /\ elements[p] = elements[i] /\ elements'[p] = NULL
      /\ \A m \in (0 .. n - 1) \ {p} : elements'[m] = elements[m]
  BY <1>1 DEF Copies, Types, Room
<1>3. elements[p] \in InHeap(elements', n)
  <2>1. elements'[i] = elements[p]
    BY <1>1, <1>2
  <2>2. i \in 0 .. n - 1
    BY <1>1
  <2> QED
    BY <2>1, <2>2 DEF InHeap
<1>4. /\ Contents = (InHeap(elements, n) \ {NULL}) \cup {offer}
      /\ Contents' = (InHeap(elements', n) \ {NULL}) \cup {offer}
  BY <1>1 DEF Contents, Slots, InHeap
<1>5. Contents' = Contents
  <2>1. p \in 0 .. n - 1
    BY <1>1
  <2>2. InHeap(elements', n) \cup {elements[p]} = InHeap(elements, n) \cup {elements'[p]}
    BY <2>1, <1>2, WriteSlot
  <2> QED
    BY <2>2, <1>2, <1>3, <1>4
<1> QED
  BY <1>1, <1>5 DEF Stutters, Key

LEMMA PlaceStutters ==
  ASSUME IInv, Place
  PROVE  Stutters
<1> USE DEF IInv
<1>1. /\ pc = "sift" /\ pc' = "idle" /\ elements' = [elements EXCEPT ![i] = offer]
      /\ UNCHANGED <<heap_size, temp>>
      /\ heap_size \in Nat /\ heap_size <= capacity /\ capacity \in Nat /\ i \in 0 .. heap_size - 1
      /\ offer \in Offers
  BY DEF Place, Goto, Sizes, Types, Hand
<1> PICK n \in Nat : n = heap_size
  BY <1>1
<1>2. /\ elements[i] \in {offer, NULL} /\ elements'[i] = offer
      /\ \A m \in (0 .. n - 1) \ {i} : elements'[m] = elements[m]
  BY <1>1 DEF Copies, Types, Room
<1>3. offer \in InHeap(elements', n) /\ offer # NULL
  <2>1. i \in 0 .. n - 1
    BY <1>1
  <2> QED
    BY <1>1, <1>2, <2>1, NullAssumption DEF InHeap
<1>4. /\ Contents = (InHeap(elements, n) \ {NULL}) \cup {offer}
      /\ Contents' = (InHeap(elements', n) \ {NULL}) \cup {}
  BY <1>1 DEF Contents, Slots, InHeap
<1>5. Contents' = Contents
  <2>1. i \in 0 .. n - 1
    BY <1>1
  <2>2. InHeap(elements', n) \cup {elements[i]} = InHeap(elements, n) \cup {elements'[i]}
    BY <2>1, <1>2, WriteSlot
  <2> QED
    BY <2>2, <1>2, <1>3, <1>4
<1> QED
  BY <1>5, PlaceKeeps, SameKey DEF Stutters

LEMMA ExtractMinStutters ==
  ASSUME IInv, ExtractMin
  PROVE  Stutters
<1> USE DEF IInv
<1>1. /\ pc = "idle" /\ pc' = "moveLast" /\ offer' = elements[0]
      /\ UNCHANGED <<heap_size, elements, dist, key, temp>> /\ heap_size \in Nat \ {0}
  BY DEF ExtractMin, Goto, arrayVars, Types
<1>2. elements[0] \in Slots
  BY <1>1, NullAssumption DEF Filled, Virtual, Count, Slots
<1> QED
  BY <1>1, <1>2 DEF Stutters, Contents, Slots, Key

LEMMA MoveLastStutters ==
  ASSUME IInv, MoveLast
  PROVE  Stutters
<1> USE DEF IInv
<1>1. /\ pc = "moveLast" /\ pc' = "clearLast" /\ elements' = [elements EXCEPT ![0] = elements[heap_size - 1]]
      /\ UNCHANGED <<heap_size, dist, offer, key, temp>>
      /\ heap_size \in Nat \ {0} /\ heap_size <= capacity /\ capacity \in Nat
  BY DEF MoveLast, Goto, ownerVars, Sizes, Types
<1> PICK n \in Nat \ {0} : n = heap_size
  BY <1>1
<1>2. /\ elements[0] = offer /\ elements'[0] = elements[n - 1]
      /\ \A m \in (0 .. n - 1) \ {0} : elements'[m] = elements[m]
  BY <1>1 DEF Copies, Types, Room
<1>3. elements'[0] \in InHeap(elements, n)
  <2>1. n - 1 \in 0 .. n - 1
    OBVIOUS
  <2> QED
    BY <1>2, <2>1 DEF InHeap
<1>4. /\ Contents = (InHeap(elements, n) \ {NULL}) \cup {offer}
      /\ Contents' = (InHeap(elements', n) \ {NULL}) \cup {offer}
  BY <1>1 DEF Contents, Slots, InHeap
<1>5. Contents' = Contents
  <2>1. 0 \in 0 .. n - 1
    OBVIOUS
  <2>2. InHeap(elements', n) \cup {elements[0]} = InHeap(elements, n) \cup {elements'[0]}
    BY <1>2, <2>1, WriteSlot
  <2> QED
    BY <2>2, <1>2, <1>3, <1>4
<1> QED
  BY <1>1, <1>5 DEF Stutters, Key

LEMMA ClearLastStutters ==
  ASSUME IInv, ClearLast
  PROVE  Stutters
<1> USE DEF IInv
<1>1. /\ pc = "clearLast" /\ pc' = "countDown" /\ elements' = [elements EXCEPT ![heap_size - 1] = NULL]
      /\ UNCHANGED <<heap_size, dist, offer, key, temp>>
      /\ heap_size \in Nat \ {0} /\ heap_size <= capacity /\ capacity \in Nat
  BY DEF ClearLast, Goto, ownerVars, Sizes, Types
<1> PICK n \in Nat \ {0} : n = heap_size
  BY <1>1
<1>2. /\ elements \in [0 .. capacity - 1 -> Offers \cup {NULL}]
      /\ elements'[n - 1] = NULL
      /\ \A m \in (0 .. n - 1) \ {n - 1} : elements'[m] = elements[m]
  BY <1>1 DEF Types, Room
<1>3. elements[n - 1] \in InHeap(elements', n) \cup {offer}
  <2>1. Virtual = Put(elements, 0, offer) /\ elements[0] = Virtual[n - 1]
    BY <1>1 DEF Virtual, Copies
  <2>2. CASE n = 1
    BY <1>1, <1>2, <2>1, <2>2 DEF Put
  <2>3. CASE n # 1
    <3>1. elements'[0] = elements[n - 1] /\ 0 \in 0 .. n - 1
      BY <1>1, <1>2, <2>1, <2>3 DEF Put
    <3> QED
      BY <3>1 DEF InHeap
  <2> QED
    BY <2>2, <2>3
<1>4. /\ Contents = (InHeap(elements, n) \ {NULL}) \cup {offer}
      /\ Contents' = (InHeap(elements', n) \ {NULL}) \cup {offer}
  BY <1>1 DEF Contents, Slots, InHeap
<1>5. Contents' = Contents
  <2> PICK h \in 0 .. n - 1 : h = n - 1
    OBVIOUS
  <2>1. \A m \in (0 .. n - 1) \ {h} : elements'[m] = elements[m]
    BY <1>2
  <2>2. InHeap(elements', n) \cup {elements[h]} = InHeap(elements, n) \cup {elements'[h]}
    BY <2>1, WriteSlot
  <2> QED
    BY <2>2, <1>2, <1>3, <1>4
<1> QED
  BY <1>1, <1>5 DEF Stutters, Key

LEMMA SwapFirstStutters ==
  ASSUME IInv, SwapFirst
  PROVE  Stutters
<1> USE DEF IInv
<1> PICK s : s = SmallestOf(i)
  OBVIOUS
<1>1. /\ pc = "heapify" /\ pc' = "swap" /\ temp' = elements[i]
      /\ elements' = [elements EXCEPT ![i] = elements[s]]
      /\ UNCHANGED <<heap_size, dist, offer, key>>
      /\ heap_size \in Nat /\ heap_size <= capacity /\ capacity \in Nat /\ i \in Nat
  BY DEF SwapFirst, Goto, Types
<1> PICK n \in Nat : n = heap_size
  BY <1>1
<1>2. s \in 0 .. n - 1
  BY SwapFirstKeeps
<1> PICK h \in 0 .. n - 1 : h = i
  <2>1. n > 0
    BY <1>2
  <2> QED
    BY <1>1, <2>1 DEF Sizes
<1>3. /\ temp' = elements[h] /\ elements'[h] = elements[s]
      /\ \A m \in (0 .. n - 1) \ {h} : elements'[m] = elements[m]
  BY <1>1 DEF Types, Room
<1>4. elements'[h] \in InHeap(elements, n) /\ elements[h] \in InHeap(elements, n) /\ elements[h] # NULL
  BY <1>1, <1>2, <1>3, NullAssumption DEF InHeap, Filled, Virtual, Count
<1>5. /\ Contents = InHeap(elements, n) \ {NULL}
      /\ Contents' = (InHeap(elements', n) \ {NULL}) \cup {temp'}
  BY <1>1 DEF Contents, Slots, InHeap
<1>6. Contents' = Contents
  <2>1. InHeap(elements', n) \cup {elements[h]} = InHeap(elements, n) \cup {elements'[h]}
    BY <1>3, WriteSlot
  <2> QED
    BY <2>1, <1>3, <1>4, <1>5
<1> QED
  BY <1>1, <1>6 DEF Stutters, Key

LEMMA SwapSecondStutters ==
  ASSUME IInv, SwapSecond
  PROVE  Stutters
<1> USE DEF IInv
<1>1. /\ pc = "swap" /\ pc' = "heapify" /\ elements' = [elements EXCEPT ![i] = temp]
      /\ UNCHANGED <<heap_size, dist, offer, key>>
      /\ heap_size \in Nat /\ heap_size <= capacity /\ capacity \in Nat /\ i \in 1 .. heap_size - 1
  BY DEF SwapSecond, Goto, Sizes, Types
<1> PICK n \in Nat : n = heap_size
  BY <1>1
<1> PICK p \in 0 .. n - 1 : p = PARENT(i) /\ p < i
  BY <1>1, ParentType
<1>2. i \in 0 .. n - 1
  BY <1>1
<1>3. /\ elements[i] = elements[p] /\ elements'[i] = temp
      /\ \A m \in (0 .. n - 1) \ {i} : elements'[m] = elements[m]
  BY <1>1 DEF Copies, Types, Room
<1>4. elements[i] \in InHeap(elements', n)
  <2>1. elements'[p] = elements[i]
    BY <1>1, <1>3
  <2> QED
    BY <2>1 DEF InHeap
<1>5. temp \in InHeap(elements', n) /\ temp # NULL
  <2>1. Virtual = elements' /\ Count = n
    BY <1>1 DEF Virtual, Count, Put
  <2>2. elements'[i] \in Offers
    BY <1>2, <2>1 DEF Filled
  <2> QED
    BY <1>2, <1>3, <2>2, NullAssumption DEF InHeap
<1>6. /\ Contents = (InHeap(elements, n) \ {NULL}) \cup {temp}
      /\ Contents' = InHeap(elements', n) \ {NULL}
  BY <1>1 DEF Contents, Slots, InHeap
<1>7. Contents' = Contents
  <2>1. InHeap(elements', n) \cup {elements[i]} = InHeap(elements, n) \cup {elements'[i]}
    BY ONLY SMTT(30), n \in Nat, <1>2, <1>3, WriteSlot
  <2> QED
    BY <2>1, <1>3, <1>4, <1>5, <1>6
<1> QED
  BY <1>1, <1>7 DEF Stutters, Key

LEMMA ExtractReturnStutters ==
  ASSUME ExtractReturn
  PROVE  Stutters
<1>1. pc = "heapify" /\ pc' = "idle" /\ UNCHANGED <<heap_size, elements, dist, key, temp>>
  BY DEF ExtractReturn, Goto, arrayVars
<1> QED
  BY <1>1 DEF Stutters, Contents, Slots, Key

LEMMA ReaderStutters ==
  ASSUME ReaderStep \/ UNCHANGED vars
  PROVE  Stutters
<1>1. UNCHANGED <<heap_size, elements, dist, pc, offer, key, temp>>
  BY DEF ReaderStep, FindMinEmpty, FindMinNonEmpty, FindMinLoad, FindMinRead, vars, arrayVars, ownerVars
<1> QED
  BY <1>1 DEF Stutters, Contents, Slots, Key

\* The heap is a priority queue, whatever its arity, its capacity and the number of
\* times it grows: every step of insert, increase_size, decreaseKey, extractMin and
\* minHeapify is a step of the queue or leaves it as it is (dAryMinHeap.cpp, Heap.cpp).
THEOREM ImplementsQueue == Spec => QueueSpec
<1>1. Init => PQ!QueueInit
  <2> SUFFICES ASSUME Init PROVE PQ!QueueInit
    OBVIOUS
  <2>1. Contents = {}
    BY DEF Init, Contents, Slots
  <2>2. Key = [o \in Offers |-> dist[o]] /\ dist \in [Offers -> Dists]
    BY DEF Init, Key
  <2>3. Key \in [Offers -> Dists]
    BY <2>2
  <2> QED
    BY <2>1, <2>3 DEF PQ!QueueInit
<1>2. IInv /\ [Next]_vars => [PQ!QueueNext]_<<Contents, Key>>
  <2> SUFFICES ASSUME IInv, [Next]_vars PROVE PQ!QueueNext \/ Stutters
    BY DEF Stutters
  <2>1. ASSUME NEW o \in Offers, NEW d \in Dists, Insert(o, d) PROVE PQ!QueueNext
    BY <2>1, SetDistStep DEF PQ!QueueNext
  <2>2. CASE CountUp
    BY <2>2, InsertStep DEF PQ!QueueNext
  <2>3. CASE CountDown
    BY <2>3, ExtractStep DEF PQ!QueueNext
  <2>4. CASE ReaderStep \/ UNCHANGED vars
    BY <2>4, ReaderStutters
  <2>5. CASE DeleteArray \/ AssignArray \/ Append \/ SiftCopy \/ SiftClear \/ Place \/ ExtractMin
             \/ MoveLast \/ ClearLast \/ SwapFirst \/ SwapSecond \/ ExtractReturn
    BY <2>5, DeleteArrayStutters, AssignArrayStutters, AppendStutters, SiftCopyStutters,
       SiftClearStutters, PlaceStutters, ExtractMinStutters, MoveLastStutters, ClearLastStutters,
       SwapFirstStutters, SwapSecondStutters, ExtractReturnStutters
  <2> QED
    BY <2>1, <2>2, <2>3, <2>4, <2>5 DEF Next, OwnerStep
<1> QED
  BY <1>1, <1>2, IInvAlways, PTL DEF Spec, QueueSpec, PQ!QueueSpec
-----------------------------------------------------------------------------
\* The findMin of a thread without the mutex

RootReadStep ==
  FindMinRead /\ ~ArrayGone =>
    root' \in IF pc # "idle" THEN Contents \cup {offer, NULL}
              ELSE IF Contents = {} THEN {NULL} ELSE PQ!Smallest

LEMMA RootReadStepHolds ==
  ASSUME IInv, FindMinRead, ~ArrayGone
  PROVE  root' \in IF pc # "idle" THEN Contents \cup {offer, NULL}
                   ELSE IF Contents = {} THEN {NULL} ELSE PQ!Smallest
<1> USE DEF IInv
<1>1. root' = elements[0] /\ root' \in Offers \cup {NULL} /\ pc # "assign"
  BY DEF FindMinRead, ArrayGone, Sizes
<1>2. heap_size \in Nat /\ heap_size <= capacity /\ capacity \in Nat \ {0} /\ Room = capacity
  BY <1>1 DEF Types, Room
<1>3. CASE heap_size = 0
  <2>1. elements[0] = NULL
    BY <1>2, <1>3 DEF Copies
  <2>2. pc = "idle" => Contents = {}
    BY <1>3 DEF Contents, Slots
  <2> QED
    BY <1>1, <2>1, <2>2
<1>4. CASE heap_size # 0
  <2>1. elements[0] \in Slots \cup {NULL}
    BY <1>2, <1>4 DEF Slots
  <2>2. ASSUME pc = "idle" PROVE elements[0] \in PQ!Smallest
    <3>1. /\ Filled(elements, heap_size) /\ InOrder(elements, Key, heap_size)
          /\ Contents = Slots
      BY <2>2 DEF Virtual, Count, Order, Contents
    <3>2. Keyed(elements, Key, heap_size)
      BY <1>2, <3>1, VirtualKeyed
    <3>3. \A m \in 0 .. heap_size - 1 : Key[elements[0]] <= Key[elements[m]]
      BY <1>2, <3>1, <3>2, RootIsLeast
    <3>4. elements[0] \in Contents
      BY <1>2, <1>4, <3>1, NullAssumption DEF Slots, Filled
    <3>5. \A o \in Contents : Key[elements[0]] <= Key[o]
      BY <3>1, <3>3 DEF Slots
    <3> QED
      BY <3>4, <3>5 DEF PQ!Smallest
  <2> QED
    BY <1>1, <2>1, <2>2 DEF Contents, PQ!Smallest
<1> QED
  BY <1>3, <1>4

\* A findMin without the mutex returns a smallest offer when no thread is at work in
\* the heap and the array is still the one whose address it has loaded, and otherwise
\* an offer of the heap, the one in the owner's hand or null (MultiQueues.cpp:83).
THEOREM RootReadsAreSound == Spec => RootRead
<1>1. IInv /\ [Next]_vars => [RootReadStep]_vars
  BY RootReadStepHolds DEF RootReadStep
<1> QED
  BY <1>1, IInvAlways, PTL DEF Spec, RootRead, RootReadStep
=============================================================================
