------------------------------ MODULE DebraPlus ------------------------------
(***************************************************************************)
(* class reclaimer_debraplus (recordmgr/reclaimer_debraplus.h) with the    *)
(* crash recovery of recovery_manager.h, over a pool: DEBRA whose threads  *)
(* do not wait for one that is stuck inside an operation.  They interrupt  *)
(* it with a signal, whose handler ends the operation, and count it as     *)
(* seen.  What a thread announced with qProtect is not given to the pool,  *)
(* so that it can still use it when it recovers.                           *)
(*                                                                         *)
(* A thread that is signalled takes no further step of its operation, as   *)
(* DEBRA+ requires of the operating system; its handler runs at any later  *)
(* time or never.  Threads do not terminate: pthread_kill succeeds.  An    *)
(* announcement (Announcements) moves to no other slot here: erase() only  *)
(* takes back the last one.                                                *)
(***************************************************************************)
EXTENDS Debra

CONSTANTS MAX_PROTECT,          \* MAX_PROTECT_EVEN_IF_QUIESCENT
          BLOCK_SIZE,
          ScanThreshold,        \* in blocks
          NeutralizeThreshold,  \* in blocks
          NULL                  \* no object

ASSUME BlockSizeAssumption == BLOCK_SIZE \in Nat \ {0}
ASSUME ProtectAssumption == MAX_PROTECT \in Nat \ {0} /\ NULL \notin Objects

VARIABLES data, size, comparing, at,  \* see Announcements
          stage,       \* what a thread does within the pc it has in Debra
          obj,         \* the argument of a qProtect that runs
          blocked      \* the thread's mask blocks neutralizeSignal

A == INSTANCE Announcements WITH Capacity <- MAX_PROTECT

announceVars == <<data, size>>
plusVars == <<announceVars, comparing, at, stage, obj, blocked>>

Stages == {"none", "hash", "neutralize", "count", "validate", "signalled", "recover"}

PlusTypeOK ==
  /\ A!AnnouncementsTypeOK
  /\ stage \in [Threads -> Stages]
  /\ obj \in [Threads -> Objects \cup {NULL}]
  /\ blocked \in [Threads -> BOOLEAN]

\* The handler is installed; no thread has been signalled.
RecoveryInit ==
  /\ stage = [t \in Threads |-> "none"]
  /\ blocked = [t \in Threads |-> FALSE]

PlusInit ==
  /\ Init
  /\ A!AnnouncementsInit
  /\ RecoveryInit
  /\ obj = [t \in Threads |-> NULL]

Stage(t, from, to) == stage[t] = from /\ stage' = [stage EXCEPT ![t] = to]

\* The blocks of a blockbag of n objects: the last block added to is not full.
SizeInBlocks(bag) == Cardinality(bag) \div BLOCK_SIZE + 1

-----------------------------------------------------------------------------
\* rotateEpochBags

Freeable(t) == epochbags[t][NextIndex(t)]

RotateTo(t, bag) ==
  /\ Goto(t, "rotate", "scan")
  /\ checked' = [checked EXCEPT ![t] = 0]
  /\ index' = [index EXCEPT ![t] = NextIndex(t)]
  /\ epochbags' = [epochbags EXCEPT ![t][NextIndex(t)] = bag]
  /\ UNCHANGED <<shared, opsSinceRead, readEpoch, live, waits, announceVars, obj, blocked>>

RotateSmall(t) ==
  /\ stage[t] = "none"
  /\ SizeInBlocks(Freeable(t)) < ScanThreshold
  /\ RotateTo(t, Freeable(t))
  /\ UNCHANGED <<comparing, at, stage>>

StartHash(t) ==
  /\ pc[t] = "rotate" /\ Stage(t, "none", "hash")
  /\ SizeInBlocks(Freeable(t)) >= ScanThreshold
  /\ A!ClearComparing(t)
  /\ UNCHANGED <<vars, announceVars, at, obj, blocked>>

Hash(t) ==
  /\ stage[t] = "hash"
  /\ A!Collect(t)
  /\ UNCHANGED <<vars, announceVars, stage, obj, blocked>>

\* The objects announced were swapped to the front of a bag of n objects. What
\* is left in it ends with the block that the next one would be swapped into.
Kept(n, announced) ==
  LET head == n % BLOCK_SIZE
  IN  IF announced = n THEN n
      ELSE IF announced < head THEN head
      ELSE head + BLOCK_SIZE * ((announced - head) \div BLOCK_SIZE + 1)

\* Mutant: the announcements do not matter.
FreedAnyway(t) == SUBSET Freeable(t)

\* Which of the other objects are in those blocks depends on the order.
Freed(t) ==
  LET announced == Freeable(t) \cap comparing[t]
      n == Cardinality(Freeable(t))
  IN  {f \in SUBSET (Freeable(t) \ announced) : Cardinality(f) = n - Kept(n, Cardinality(announced))}

RotateLarge(t) ==
  /\ Stage(t, "hash", "none")
  /\ A!Hashed(t)
  /\ A!Rewind(t)
  /\ \E freed \in Freed(t) : RotateTo(t, Freeable(t) \ freed)
  /\ comparing' = [comparing EXCEPT ![t] = {}]

-----------------------------------------------------------------------------
\* leaveQuiescentState and neutralizeOther

\* Mutant: no thread is ever suspected.
SuspectsNever(t) == t \notin Threads

\* The current bag is so large that the other thread may have crashed.
Suspects(t) == SizeInBlocks(epochbags[t][index[t]]) >= NeutralizeThreshold

ScanOther(t) ==
  /\ pc[t] = "scan" /\ stage[t] = "none"
  /\ Seen(t, checked[t]) \/ ~Suspects(t)
  /\ Scan(t)
  /\ UNCHANGED plusVars

DecideToNeutralize(t) ==
  /\ pc[t] = "scan" /\ Stage(t, "none", "neutralize")
  /\ opsSinceRead[t] + 1 = MinOpsBeforeRead
  /\ ~Seen(t, checked[t]) /\ Suspects(t)
  /\ opsSinceRead' = [opsSinceRead EXCEPT ![t] = 0]
  /\ UNCHANGED <<shared, checked, epochbags, index, pc, readEpoch, live, waits,
                 announceVars, comparing, at, obj, blocked>>

\* The handler will not find the thread quiescent.
Interrupted(other) == ~quiescent[other] /\ ~blocked[other]

\* pthread_kill, and what leaveQuiescentState does when neutralizeOther is true.
Neutralize(t) ==
  LET other == checked[t]
      next == IF other + 1 >= NumProcesses THEN "advance" ELSE "announce"
  IN  /\ stage[t] = "neutralize"
      /\ checked' = [checked EXCEPT ![t] = @ + 1]
      /\ IF Interrupted(other)
         THEN /\ pc' = [pc EXCEPT ![t] = next, ![other] = "outside"]
              /\ stage' = [stage EXCEPT ![t] = "none", ![other] = "signalled"]
              /\ obj' = [obj EXCEPT ![other] = NULL]
              /\ waits' = [o \in Objects |-> waits[o] \ {other}]
         ELSE /\ pc' = [pc EXCEPT ![t] = next]
              /\ stage' = [stage EXCEPT ![t] = "none"]
              /\ UNCHANGED <<obj, waits>>
      /\ UNCHANGED <<shared, epochbags, index, opsSinceRead, readEpoch, live,
                     announceVars, comparing, at, blocked>>

PlusLeaveStep(t) ==
  \/ stage[t] = "none" /\ (ReadEpoch(t) \/ ScanNotNow(t) \/ Advance(t) \/ Announce(t)) /\ UNCHANGED plusVars
  \/ RotateSmall(t) \/ StartHash(t) \/ Hash(t) \/ RotateLarge(t)
  \/ ScanOther(t) \/ DecideToNeutralize(t) \/ Neutralize(t)

-----------------------------------------------------------------------------
\* The signal

\* crashhandler: enterQuiescentState, then siglongjmp out of the handler, which
\* leaves the signals of sa_mask blocked.
Handler(t) ==
  /\ Stage(t, "signalled", "recover")
  /\ quiescent' = [quiescent EXCEPT ![t] = TRUE]
  /\ blocked' = [blocked EXCEPT ![t] = TRUE]
  /\ UNCHANGED <<epoch, announcedEpoch, private, pc, readEpoch, live, waits,
                 announceVars, comparing, at, obj>>

\* Mutant: the signal stays blocked.
RecoverBlocked(t) ==
  /\ Stage(t, "recover", "none")
  /\ UNCHANGED <<vars, announceVars, comparing, at, obj, blocked>>

UnblockCrashRecoverySignal(t) == blocked' = [blocked EXCEPT ![t] = FALSE]

\* CHECKPOINT_AND_RUN_UPDATE: the recovery of the data structure is over.
Recover(t) ==
  /\ Stage(t, "recover", "none")
  /\ UnblockCrashRecoverySignal(t)
  /\ UNCHANGED <<vars, announceVars, comparing, at, obj>>

-----------------------------------------------------------------------------
\* qProtect, qUnprotectAll and retire

\* What an operation can reach: what is not retired, or was not when it began.
Reachable(t) == live \cup {o \in Retired : t \in waits[o]}

QProtect(t, o) ==
  /\ pc[t] = "inside" /\ Stage(t, "none", "count")
  /\ o \in Reachable(t) \ A!Announced(t)
  /\ A!AddStore(t, o)
  /\ obj' = [obj EXCEPT ![t] = o]
  /\ UNCHANGED <<vars, size, comparing, at, blocked>>

QCount(t) ==
  /\ Stage(t, "count", "validate")
  /\ A!AddCount(t)
  /\ UNCHANGED <<vars, data, comparing, at, obj, blocked>>

\* notRetiredCallback; erase() finds the object in the last slot.
QValidate(t) ==
  /\ Stage(t, "validate", "none")
  /\ IF obj[t] \in live THEN UNCHANGED size ELSE A!EraseCount(t)
  /\ obj' = [obj EXCEPT ![t] = NULL]
  /\ UNCHANGED <<vars, data, comparing, at, blocked>>

QUnprotectAll(t) ==
  /\ pc[t] = "outside" /\ stage[t] \in {"none", "recover"}
  /\ size[t] > 0
  /\ A!Clear(t)
  /\ UNCHANGED <<vars, data, comparing, at, stage, obj, blocked>>

\* retire() asserts that the thread is quiescent.
PlusRetire(t, o) ==
  /\ pc[t] = "outside" /\ stage[t] = "none"
  /\ Retire(t, o)
  /\ UNCHANGED plusVars

PlusEnterQuiescentState(t) ==
  stage[t] = "none" /\ EnterQuiescentState(t) /\ UNCHANGED plusVars

PlusAllocate(t, o) == stage[t] = "none" /\ Allocate(t, o) /\ UNCHANGED plusVars

PlusNext ==
  \E t \in Threads :
    \/ PlusLeaveStep(t) \/ PlusEnterQuiescentState(t)
    \/ Handler(t) \/ Recover(t)
    \/ QCount(t) \/ QValidate(t) \/ QUnprotectAll(t)
    \/ \E o \in Objects : QProtect(t, o) \/ PlusRetire(t, o) \/ PlusAllocate(t, o)

plusAllVars == <<vars, plusVars>>

PlusSpec == PlusInit /\ [][PlusNext]_plusAllVars

-----------------------------------------------------------------------------
\* Properties

\* What a thread has announced with qProtect is not given to the pool before
\* qUnprotectAll, although the thread was neutralized in the middle of a
\* qProtect, and the announcement was made while others collected the
\* announcements (reclaimer_debraplus.h:229-258).
AnnouncedKept == \A t \in Threads : A!Announced(t) \subseteq live \cup Retired
=============================================================================
