------------------------------- MODULE Debra -------------------------------
(***************************************************************************)
(* class reclaimer_debra (recordmgr/reclaimer_debra.h) over pool_none and  *)
(* allocator_new, for one record type: a global epoch, the epoch each      *)
(* thread has announced, and three bags of retired objects per thread.     *)
(*                                                                         *)
(* A thread calls leaveQuiescentState only when it is quiescent            *)
(* (record_manager_single_type.h:139) and may retire and allocate inside   *)
(* and outside an operation.  leaveQuiescentState is one step per access   *)
(* to what other threads write.                                            *)
(*                                                                         *)
(* announcedEpoch[tid] is one word, an epoch and the quiescent bit; here   *)
(* it is two functions that always change together.  Epochs are counted in *)
(* units of EPOCH_INCREMENT, so that the bit needs no room.                *)
(***************************************************************************)
EXTENDS Naturals, FiniteSets

CONSTANTS NumProcesses, MinOpsBeforeRead, Objects

ASSUME ProcessesAssumption == NumProcesses \in Nat \ {0}
ASSUME MinOpsAssumption == MinOpsBeforeRead \in Nat \ {0}

Threads == 0 .. NumProcesses - 1
NumberOfEpochBags == 3
Bags == 0 .. NumberOfEpochBags - 1

VARIABLES epoch,
          announcedEpoch,  \* BITS_EPOCH of the announcement
          quiescent,       \* QUIESCENT of the announcement
          checked,
          epochbags,       \* the objects in each of a thread's bags
          index,           \* which of them is currentBag
          opsSinceRead,    \* modulo MIN_OPS_BEFORE_READ, all that is used of it
          pc,              \* what each thread executes next
          readEpoch,       \* the local readEpoch of leaveQuiescentState
          live,            \* the objects allocated and not retired
          waits            \* history: the operations running when an object was
                           \* retired that have not ended since

shared == <<epoch, announcedEpoch, quiescent>>
private == <<checked, epochbags, index, opsSinceRead>>
vars == <<shared, private, pc, readEpoch, live, waits>>

PCs == {"outside", "rotate", "scan", "advance", "announce", "inside"}

Retired == UNION {epochbags[t][b] : t \in Threads, b \in Bags}

TypeOK ==
  /\ epoch \in Nat
  /\ announcedEpoch \in [Threads -> Nat]
  /\ quiescent \in [Threads -> BOOLEAN]
  /\ checked \in [Threads -> 0 .. NumProcesses]
  /\ epochbags \in [Threads -> [Bags -> SUBSET Objects]]
  /\ index \in [Threads -> Bags]
  /\ opsSinceRead \in [Threads -> 0 .. MinOpsBeforeRead - 1]
  /\ pc \in [Threads -> PCs]
  /\ readEpoch \in [Threads -> Nat]
  /\ live \subseteq Objects
  /\ waits \in [Objects -> SUBSET Threads]

Init ==
  /\ epoch = 0
  /\ announcedEpoch = [t \in Threads |-> 0]
  /\ quiescent = [t \in Threads |-> TRUE]
  /\ checked = [t \in Threads |-> 0]
  /\ epochbags = [t \in Threads |-> [b \in Bags |-> {}]]
  /\ index = [t \in Threads |-> 0]
  /\ opsSinceRead = [t \in Threads |-> 0]
  /\ pc = [t \in Threads |-> "outside"]
  /\ readEpoch = [t \in Threads |-> 0]
  /\ live = {}
  /\ waits = [o \in Objects |-> {}]

Goto(t, from, to) == pc[t] = from /\ pc' = [pc EXCEPT ![t] = to]

-----------------------------------------------------------------------------
\* leaveQuiescentState

ReadEpoch(t) ==
  /\ Goto(t, "outside", IF epoch # announcedEpoch[t] THEN "rotate" ELSE "scan")
  /\ readEpoch' = [readEpoch EXCEPT ![t] = epoch]
  /\ UNCHANGED <<shared, private, live, waits>>

NextIndex(t) == (index[t] + 1) % NumberOfEpochBags

\* Mutant: the scan is not started again in a new epoch.
RotateKeepsChecked(t) ==
  /\ Goto(t, "rotate", "scan")
  /\ index' = [index EXCEPT ![t] = NextIndex(t)]
  /\ epochbags' = [epochbags EXCEPT ![t][NextIndex(t)] = {}]
  /\ UNCHANGED <<shared, checked, opsSinceRead, readEpoch, live, waits>>

\* rotateEpochBags: pool_none frees the whole bag that becomes the current one.
Rotate(t) ==
  /\ Goto(t, "rotate", "scan")
  /\ checked' = [checked EXCEPT ![t] = 0]
  /\ index' = [index EXCEPT ![t] = NextIndex(t)]
  /\ epochbags' = [epochbags EXCEPT ![t][NextIndex(t)] = {}]
  /\ UNCHANGED <<shared, opsSinceRead, readEpoch, live, waits>>

\* Mutants: no test of the quiescent bit, and no test at all.
SeenInEpochOnly(t, other) == announcedEpoch[other] = readEpoch[t]
SeenAlways(t, other) == other \in Threads

\* The announcement of the other thread does not hold back the next epoch.
Seen(t, other) == announcedEpoch[other] = readEpoch[t] \/ quiescent[other]

\* Mutant: one operation more before the next announcement is read.
ScanNotNowLate(t) ==
  /\ Goto(t, "scan", "announce")
  /\ opsSinceRead[t] < MinOpsBeforeRead
  /\ opsSinceRead' = [opsSinceRead EXCEPT ![t] = @ + 1]
  /\ UNCHANGED <<shared, checked, epochbags, index, readEpoch, live, waits>>

ScanNotNow(t) ==
  /\ Goto(t, "scan", "announce")
  /\ opsSinceRead[t] + 1 < MinOpsBeforeRead
  /\ opsSinceRead' = [opsSinceRead EXCEPT ![t] = @ + 1]
  /\ UNCHANGED <<shared, checked, epochbags, index, readEpoch, live, waits>>

Scan(t) ==
  /\ pc[t] = "scan"
  /\ opsSinceRead[t] + 1 = MinOpsBeforeRead
  /\ opsSinceRead' = [opsSinceRead EXCEPT ![t] = 0]
  /\ IF Seen(t, checked[t])
     THEN /\ checked' = [checked EXCEPT ![t] = @ + 1]
          /\ Goto(t, "scan", IF checked[t] + 1 >= NumProcesses THEN "advance" ELSE "announce")
     ELSE UNCHANGED checked /\ Goto(t, "scan", "announce")
  /\ UNCHANGED <<shared, epochbags, index, readEpoch, live, waits>>

\* The compare-and-swap.
Advance(t) ==
  /\ Goto(t, "advance", "announce")
  /\ epoch' = IF epoch = readEpoch[t] THEN epoch + 1 ELSE epoch
  /\ UNCHANGED <<announcedEpoch, quiescent, private, readEpoch, live, waits>>

\* Nothing clears readEpoch when leaveQuiescentState returns; it is dead then.
Announce(t) ==
  /\ Goto(t, "announce", "inside")
  /\ announcedEpoch' = [announcedEpoch EXCEPT ![t] = readEpoch[t]]
  /\ quiescent' = [quiescent EXCEPT ![t] = FALSE]
  /\ readEpoch' = [readEpoch EXCEPT ![t] = 0]
  /\ UNCHANGED <<epoch, private, live, waits>>

LeaveStep(t) ==
  ReadEpoch(t) \/ Rotate(t) \/ ScanNotNow(t) \/ Scan(t) \/ Advance(t) \/ Announce(t)

-----------------------------------------------------------------------------
EnterQuiescentState(t) ==
  /\ Goto(t, "inside", "outside")
  /\ quiescent' = [quiescent EXCEPT ![t] = TRUE]
  /\ waits' = [o \in Objects |-> waits[o] \ {t}]
  /\ UNCHANGED <<epoch, announcedEpoch, private, readEpoch, live>>

Active == {t \in Threads : pc[t] = "inside"}

CanCall(t) == pc[t] \in {"outside", "inside"}

Retire(t, o) ==
  /\ CanCall(t)
  /\ o \in live
  /\ epochbags' = [epochbags EXCEPT ![t][index[t]] = @ \cup {o}]
  /\ live' = live \ {o}
  /\ waits' = [waits EXCEPT ![o] = Active]
  /\ UNCHANGED <<shared, checked, index, opsSinceRead, pc, readEpoch>>

\* allocate: pool_none asks allocator_new, which may reuse a freed address.
Allocate(t, o) ==
  /\ CanCall(t)
  /\ o \in Objects \ (live \cup Retired)
  /\ live' = live \cup {o}
  /\ UNCHANGED <<shared, private, pc, readEpoch, waits>>

Next ==
  \E t \in Threads :
    \/ LeaveStep(t)
    \/ EnterQuiescentState(t)
    \/ \E o \in Objects : Retire(t, o) \/ Allocate(t, o)

Spec == Init /\ [][Next]_vars

\* Every operation that has begun ends, and at least one thread goes on calling.
Fairness ==
  /\ \A t \in Threads : WF_vars(pc[t] # "outside" /\ (LeaveStep(t) \/ EnterQuiescentState(t)))
  /\ \E t \in Threads : WF_vars(ReadEpoch(t))

-----------------------------------------------------------------------------
\* Properties

\* checked[tid] is a valid thread whenever it is used as one
\* (reclaimer_debra.h:145-147): it can reach NUM_PROCESSES, and nothing but the
\* change of epoch that this brings about resets it.
CheckedInBounds == \A t \in Threads : pc[t] = "scan" => checked[t] \in Threads

Grace == INSTANCE GracePeriod WITH active <- Active, retired <- Retired

\* rotateEpochBags (reclaimer_debra.h:106-112) frees no object that an operation
\* running when it was retired could still reach, although an announcement may
\* be stale when it is made and is read at different moments.
GraceSpec == Grace!GraceSpec
=============================================================================
