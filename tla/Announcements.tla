---------------------------- MODULE Announcements ----------------------------
(***************************************************************************)
(* The part that reclaimer_hazardptr and reclaimer_debraplus share: every  *)
(* thread's AtomicArrayList announce[tid] (arraylist.h), written by that   *)
(* thread alone, and the loop with which a thread collects the lists of    *)
(* all threads in comparing[tid], one read at a time, while their owners   *)
(* go on writing them.                                                     *)
(*                                                                         *)
(* The operators are parts of steps: each says what becomes of the         *)
(* variables it primes and of no other.  Memory is sequentially            *)
(* consistent: an announcement is followed by a full barrier, and a late   *)
(* removal only makes a scan keep more.  comparing[tid], a hash set whose  *)
(* table has room for all announcements twice, is a set.                   *)
(***************************************************************************)
EXTENDS Integers, FiniteSets

CONSTANTS NumProcesses, Objects,
          Capacity,          \* of an AtomicArrayList
          NULL               \* a slot never written

Threads == 0 .. NumProcesses - 1
Slots == 0 .. Capacity - 1
Unread == -1

VARIABLES data, size,        \* announce[tid]->data, announce[tid]->__size
          comparing,
          at                 \* the collecting loop: otherTid, sz, ixHP

announceVars == <<data, size>>
hashVars == <<comparing, at>>

Places == [other : 0 .. NumProcesses, sz : {Unread} \cup 1 .. Capacity, ix : Slots]

FirstPlace == [other |-> 0, sz |-> Unread, ix |-> 0]

AnnouncementsTypeOK ==
  /\ data \in [Threads -> [Slots -> Objects \cup {NULL}]]
  /\ size \in [Threads -> 0 .. Capacity]
  /\ comparing \in [Threads -> SUBSET Objects]
  /\ at \in [Threads -> Places]

AnnouncementsInit ==
  /\ data = [t \in Threads |-> [i \in Slots |-> NULL]]
  /\ size = [t \in Threads |-> 0]
  /\ comparing = [t \in Threads |-> {}]
  /\ at = [t \in Threads |-> FirstPlace]

-----------------------------------------------------------------------------
\* AtomicArrayList

Announced(t) == {data[t][i] : i \in {j \in Slots : j < size[t]}}

\* add: the slot, then the size.
AddStore(t, o) == size[t] < Capacity /\ data' = [data EXCEPT ![t][size[t]] = o]
AddCount(t) == size' = [size EXCEPT ![t] = @ + 1]

GetIndex(t, o) == CHOOSE i \in Slots : data[t][i] = o /\ \A j \in 0 .. i - 1 : data[t][j] # o

\* erase: the last entry moves to the slot of the erased one, then the size.
EraseStore(t, o) == data' = [data EXCEPT ![t][GetIndex(t, o)] = data[t][size[t] - 1]]
EraseCount(t) == size' = [size EXCEPT ![t] = @ - 1]

Clear(t) == size' = [size EXCEPT ![t] = 0]

-----------------------------------------------------------------------------
\* The collecting loop

Hashed(t) == at[t].other = NumProcesses

\* Mutant: what earlier scans found is not forgotten.
ClearComparingNot(t) == UNCHANGED comparing

ClearComparing(t) == comparing' = [comparing EXCEPT ![t] = {}]

\* Mutant: the loop reads one entry too many.
PlaceAtOver(other, sz, ix) ==
  IF ix <= sz THEN [other |-> other, sz |-> sz, ix |-> ix]
  ELSE [FirstPlace EXCEPT !.other = other + 1]

\* From entry ix on of a list in which sz entries were counted.
PlaceAt(other, sz, ix) ==
  IF ix < sz THEN [other |-> other, sz |-> sz, ix |-> ix]
  ELSE [FirstPlace EXCEPT !.other = other + 1]

ReadSize(t) ==
  /\ ~Hashed(t) /\ at[t].sz = Unread
  /\ at' = [at EXCEPT ![t] = PlaceAt(@.other, size[@.other], 0)]
  /\ UNCHANGED comparing

ReadSlot(t) ==
  /\ ~Hashed(t) /\ at[t].sz # Unread
  /\ comparing' = [comparing EXCEPT ![t] = @ \cup {data[at[t].other][at[t].ix]}]
  /\ at' = [at EXCEPT ![t] = PlaceAt(@.other, @.sz, @.ix + 1)]

Collect(t) == ReadSize(t) \/ ReadSlot(t)

Rewind(t) == at' = [at EXCEPT ![t] = FirstPlace]
=============================================================================
