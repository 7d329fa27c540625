--------------------------- MODULE RecyclingPool ---------------------------
(***************************************************************************)
(* What an object pool promises (pool_interface.h:48-57): an object is     *)
(* with the program, retired, or available for reuse, or not allocated;    *)
(* what get returns was available, and of the retired objects those that   *)
(* other threads have announced do not become available.                   *)
(***************************************************************************)
EXTENDS FiniteSets

CONSTANT Objects

VARIABLES held, retired, available, announced

poolVars == <<held, retired, available, announced>>

PoolTypeOK ==
  /\ held \subseteq Objects
  /\ retired \subseteq Objects
  /\ available \subseteq Objects
  /\ announced \subseteq Objects

PoolInit == held = {} /\ retired = {} /\ available = {} /\ announced = {}

\* get; the pool may first fetch new objects from the allocator
GetObject ==
  \E new \in SUBSET (Objects \ (held \cup retired \cup available)) :
    \E o \in available \cup new :
      /\ held' = held \cup {o}
      /\ available' = (available \cup new) \ {o}
      /\ UNCHANGED <<retired, announced>>

\* add; a pool that keeps nothing returns the object to the allocator
PutObject ==
  \E o \in held :
    /\ held' = held \ {o}
    /\ available' \in {available, available \cup {o}}
    /\ UNCHANGED <<retired, announced>>

RetireObject ==
  \E o \in held :
    /\ held' = held \ {o}
    /\ retired' = retired \cup {o}
    /\ UNCHANGED <<available, announced>>

\* The reclaimer has looked at the announcements.
Announcements ==
  /\ announced' \in SUBSET retired
  /\ UNCHANGED <<held, retired, available>>

Reclaim ==
  \E s \in SUBSET (retired \ announced) :
    /\ retired' = retired \ s
    /\ available' = available \cup s
    /\ announced' \in {announced, {}}
    /\ UNCHANGED held

\* Objects go back to the allocator.
Discard ==
  \E s \in SUBSET (retired \cup available) :
    /\ announced = {}
    /\ retired' = retired \ s
    /\ available' = available \ s
    /\ UNCHANGED <<held, announced>>

PoolNext == GetObject \/ PutObject \/ RetireObject \/ Announcements \/ Reclaim \/ Discard

PoolSpec == PoolInit /\ [][PoolNext]_poolVars
=============================================================================
