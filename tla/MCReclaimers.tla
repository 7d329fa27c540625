----------------------------- MODULE MCReclaimers -----------------------------
(***************************************************************************)
(* The reclaimers a record manager can be made with (its template argument *)
(* Reclaim), each on a small instance: a behaviour is one of DEBRA, of     *)
(* DEBRA+ or of hazard pointers.  The variables of the others keep their   *)
(* initial values.                                                         *)
(*                                                                         *)
(* Bounds: the epoch stops at MaxEpoch, and the instance with it.  With    *)
(* DEBRA+ and hazard pointers thread 1 alone allocates and retires, one    *)
(* object at a time with DEBRA+; thread 0 alone announces, and is the one  *)
(* that gets stuck.  With them a pool hands out its first object.          *)
(***************************************************************************)
EXTENDS DebraPlus

CONSTANTS Schemes,                    \* of "debra", "debraplus", "hazardptr"
          DebraObjects, HPObjects, HPCapacity, HPThreshold

VARIABLES scheme, hpData, hpSize, hpComparing, hpAt, hpPc, hpObj, hpRetired, hpIx, hpLive, hpMoved

hpVars == <<hpData, hpSize, hpComparing, hpAt, hpPc, hpObj, hpRetired, hpIx, hpLive, hpMoved>>

ASSUME HPAssumption ==
  HPCapacity \in Nat \ {0} /\ HPThreshold \in Nat \ {0} /\ NULL \notin HPObjects

HP == INSTANCE HazardPointers WITH
        Objects <- HPObjects, Capacity <- HPCapacity, ScanThreshold <- HPThreshold,
        data <- hpData, size <- hpSize, comparing <- hpComparing, at <- hpAt, pc <- hpPc,
        obj <- hpObj, retired <- hpRetired, ix <- hpIx, live <- hpLive, moved <- hpMoved

MaxEpoch == IF scheme = "debra" THEN 4 ELSE 3

FirstOf(S, o) == \A p \in S : o <= p

MCInit == scheme \in Schemes /\ PlusInit /\ HP!Init

DebraNext ==
  /\ scheme = "debra"
  /\ Next
  /\ epoch' <= MaxEpoch /\ live' \subseteq DebraObjects
  /\ UNCHANGED <<plusVars, hpVars>>

DebraPlusNext ==
  /\ scheme = "debraplus"
  /\ PlusNext
  /\ epoch' <= MaxEpoch
  /\ Cardinality(live') <= 1
  /\ \A o \in live' \ live : FirstOf(Objects \ (live \cup Retired), o)
  /\ \A b \in Bags : epochbags'[0][b] = {}
  /\ size'[1] = 0 /\ stage'[1] # "count"
  /\ UNCHANGED hpVars

HazardPointersNext ==
  /\ scheme = "hazardptr"
  /\ HP!Next
  /\ hpRetired'[0] = <<>> /\ hpPc'[1] \in {"idle", "collect", "sweep"}
  /\ Cardinality(hpLive') <= 2
  /\ \A o \in hpLive' \ hpLive : FirstOf(HP!Pool, o)
  /\ UNCHANGED <<vars, plusVars>>

MCNext == UNCHANGED scheme /\ (DebraNext \/ DebraPlusNext \/ HazardPointersNext)

mcVars == <<scheme, vars, plusVars, hpVars>>

MCSpec == MCInit /\ [][MCNext]_mcVars

Calls(t) ==
  \/ scheme = "debra" /\ (LeaveStep(t) \/ EnterQuiescentState(t)) /\ UNCHANGED plusVars
  \/ scheme = "debraplus" /\ (PlusLeaveStep(t) \/ PlusEnterQuiescentState(t))

\* Thread 1 goes on calling, and with DEBRA+ it retires or allocates now and
\* then. With DEBRA the operations of thread 0 end.
MCFairSpec ==
  /\ MCSpec
  /\ WF_plusAllVars(Calls(1))
  /\ WF_plusAllVars(scheme = "debra" /\ pc[0] # "outside" /\ Calls(0))
  /\ SF_plusAllVars(scheme = "debraplus" /\ \E o \in Objects : PlusRetire(1, o) \/ PlusAllocate(1, o))

-----------------------------------------------------------------------------
\* DEBRA+ and hazard pointers use their variables as declared.
SchemesTypeOK == PlusTypeOK /\ HP!TypeOK

HeldKeptUnlessMoved == HP!HeldKeptUnlessMoved
HeldNotFreed == HP!HeldNotFreed
RoomToRetire == HP!RoomToRetire

\* Nothing is left to retire, and the bag of thread 1 arouses no suspicion.
OutOfObjects == Retired = Objects /\ epochbags[1][index[1]] = {}

\* One thread that goes on calling is enough to advance the epoch. With DEBRA
\* whatever operations the others begin, if they end, and also when they stay
\* away: a quiescent thread holds nothing back (reclaimer_debra.h:148-149).
\* With DEBRA+ also when the other is stuck anywhere (reclaimer_debraplus.h:104-106),
\* unless the instance has no object left that the thread could retire.
EpochAdvances ==
  scheme # "hazardptr" => <>(epoch = MaxEpoch) \/ <>[]OutOfObjects
=============================================================================
