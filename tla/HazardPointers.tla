---------------------------- MODULE HazardPointers ----------------------------
(***************************************************************************)
(* class reclaimer_hazardptr (recordmgr/reclaimer_hazardptr.h): threads    *)
(* protect the objects they access by announcing them, and retire() gives  *)
(* to the pool, when retired[tid] is full, what no thread announces.       *)
(*                                                                         *)
(* The client is any that keeps the class's rules: it protects no object   *)
(* twice, and holds fewer than MAX_HAZARDPTRS_PER_THREAD at once           *)
(* (reclaimer_hazardptr.h:228).  The callback that tells whether an object *)
(* is retired is exact: it reads the state of the object once.             *)
(***************************************************************************)
EXTENDS Announcements, SequencesExt

CONSTANT ScanThreshold       \* the capacity of retired[tid]

VARIABLES pc,                \* what each thread executes next
          obj,               \* the argument of its protect or unprotect
          retired,           \* retired[tid]
          ix,                \* the loop over retired[tid]
          live,              \* the objects allocated and not retired
          moved              \* history: announcements that an erase moved while
                             \* some thread was collecting

vars == <<announceVars, hashVars, pc, obj, retired, ix, live, moved>>

PCs == {"idle", "count", "validate", "erase", "uncount", "collect", "sweep"}

Retired == UNION {ToSet(retired[t]) : t \in Threads}
Pool == Objects \ (live \cup Retired)

TypeOK ==
  /\ AnnouncementsTypeOK
  /\ pc \in [Threads -> PCs]
  /\ obj \in [Threads -> Objects \cup {NULL}]
  /\ retired \in [Threads -> Seq(Objects)] /\ \A t \in Threads : Len(retired[t]) <= ScanThreshold
  /\ ix \in [Threads -> 1 .. ScanThreshold + 1]
  /\ live \subseteq Objects
  /\ moved \in [Threads -> SUBSET Objects]

Init ==
  /\ AnnouncementsInit
  /\ pc = [t \in Threads |-> "idle"]
  /\ obj = [t \in Threads |-> NULL]
  /\ retired = [t \in Threads |-> <<>>]
  /\ ix = [t \in Threads |-> 1]
  /\ live = {}
  /\ moved = [t \in Threads |-> {}]

Goto(t, from, to) == pc[t] = from /\ pc' = [pc EXCEPT ![t] = to]

\* The objects a thread may access: announced, validated and not given up.
Held(t) == Announced(t) \ {obj[t]}

-----------------------------------------------------------------------------
\* protect

Protect(t, o) ==
  /\ Goto(t, "idle", "count")
  /\ size[t] + 1 < Capacity /\ o \notin Announced(t)
  /\ AddStore(t, o)
  /\ obj' = [obj EXCEPT ![t] = o]
  /\ UNCHANGED <<size, hashVars, retired, ix, live, moved>>

Count(t) ==
  /\ Goto(t, "count", "validate")
  /\ AddCount(t)
  /\ UNCHANGED <<data, hashVars, obj, retired, ix, live, moved>>

\* Mutant: the callback is not asked.
ValidateAlways(t) ==
  /\ Goto(t, "validate", "idle")
  /\ obj' = [obj EXCEPT ![t] = NULL]
  /\ UNCHANGED <<announceVars, hashVars, retired, ix, live, moved>>

\* notRetiredCallback: the object is protected, or unprotected again.
Validate(t) ==
  /\ Goto(t, "validate", IF obj[t] \in live THEN "idle" ELSE "erase")
  /\ obj' = [obj EXCEPT ![t] = IF @ \in live THEN NULL ELSE @]
  /\ UNCHANGED <<announceVars, hashVars, retired, ix, live, moved>>

-----------------------------------------------------------------------------
\* unprotect and enterQuiescentState

Unprotect(t, o) ==
  /\ Goto(t, "idle", "erase")
  /\ o \in Held(t)
  /\ obj' = [obj EXCEPT ![t] = o]
  /\ UNCHANGED <<announceVars, hashVars, retired, ix, live, moved>>

Collecting == \E u \in Threads : pc[u] = "collect"

\* The last announcement, moved to an earlier slot.
Relocated(t) == {data[t][size[t] - 1]} \ {obj[t]}

EraseMove(t) ==
  /\ Goto(t, "erase", "uncount")
  /\ EraseStore(t, obj[t])
  /\ moved' = [moved EXCEPT ![t] = IF Collecting THEN @ \cup Relocated(t) ELSE @]
  /\ UNCHANGED <<size, hashVars, obj, retired, ix, live>>

Uncount(t) ==
  /\ Goto(t, "uncount", "idle")
  /\ EraseCount(t)
  /\ obj' = [obj EXCEPT ![t] = NULL]
  /\ moved' = [moved EXCEPT ![t] = @ \ {obj[t]}]
  /\ UNCHANGED <<data, hashVars, retired, ix, live>>

EnterQuiescentState(t) ==
  /\ Goto(t, "idle", "idle")
  /\ size[t] > 0
  /\ Clear(t)
  /\ moved' = [moved EXCEPT ![t] = {}]
  /\ UNCHANGED <<data, hashVars, obj, retired, ix, live>>

-----------------------------------------------------------------------------
\* retire

Retire(t, o) ==
  /\ Goto(t, "idle", IF Len(retired[t]) + 1 = ScanThreshold THEN "collect" ELSE "idle")
  /\ o \in live
  /\ Len(retired[t]) < ScanThreshold
  /\ retired' = [retired EXCEPT ![t] = Append(@, o)]
  /\ live' = live \ {o}
  /\ UNCHANGED <<announceVars, hashVars, obj, ix, moved>>

CollectStep(t) ==
  /\ pc[t] = "collect"
  /\ Collect(t)
  /\ UNCHANGED <<announceVars, pc, obj, retired, ix, live, moved>>

StartSweep(t) ==
  /\ Goto(t, "collect", "sweep")
  /\ Hashed(t)
  /\ Rewind(t)
  /\ UNCHANGED <<announceVars, comparing, obj, retired, ix, live, moved>>

\* erase of an ArrayList: the last object takes the place of the erased one.
Erased(list, i) == Front([list EXCEPT ![i] = Last(list)])

\* An object that nobody was found to announce goes to the pool.
Sweep(t) ==
  /\ pc[t] = "sweep" /\ ix[t] <= Len(retired[t])
  /\ IF retired[t][ix[t]] \in comparing[t]
     THEN ix' = [ix EXCEPT ![t] = @ + 1] /\ UNCHANGED retired
     ELSE /\ retired' = [retired EXCEPT ![t] = Erased(@, ix[t])]
          /\ UNCHANGED ix
  /\ UNCHANGED <<announceVars, hashVars, pc, obj, live, moved>>

\* comparing[tid] is cleared at the next scan only; it is not used before.
RetireReturn(t) ==
  /\ Goto(t, "sweep", "idle")
  /\ ix[t] > Len(retired[t])
  /\ ix' = [ix EXCEPT ![t] = 1]
  /\ ClearComparing(t)
  /\ UNCHANGED <<announceVars, at, obj, retired, live, moved>>

\* The pool hands an object out again.
Allocate(t, o) ==
  /\ pc[t] = "idle"
  /\ o \in Pool
  /\ live' = live \cup {o}
  /\ UNCHANGED <<announceVars, hashVars, pc, obj, retired, ix, moved>>

Step(t) ==
  \/ Count(t) \/ Validate(t) \/ EraseMove(t) \/ Uncount(t) \/ EnterQuiescentState(t)
  \/ CollectStep(t) \/ StartSweep(t) \/ Sweep(t) \/ RetireReturn(t)
  \/ \E o \in Objects : Protect(t, o) \/ Unprotect(t, o) \/ Retire(t, o) \/ Allocate(t, o)

Next == \E t \in Threads : Step(t)

Spec == Init /\ [][Next]_vars

-----------------------------------------------------------------------------
\* Properties

\* "no hazard pointers point to the item, so we send it to the pool"
\* (reclaimer_hazardptr.h:238): no thread holds what is in the pool.
HeldNotFreed == \A t \in Threads : Held(t) \cap Pool = {}

\* The exception is an object whose announcement erase() (arraylist.h:66) moved
\* to an earlier slot while the lists were being collected, from then until
\* unprotect takes it back, however protect, unprotect and retire of all threads
\* interleave.
HeldKeptUnlessMoved == \A t \in Threads : Held(t) \cap Pool \subseteq moved[t]

\* A scan makes room: announcements never fill retired[tid] for good, so that
\* the add of the next retire (arraylist.h:117) finds a free place.
RoomToRetire == \A t \in Threads : pc[t] = "idle" => Len(retired[t]) < ScanThreshold
=============================================================================
