---------------------------- MODULE OfferRecords ----------------------------
(***************************************************************************)
(* The life of the offer records: allocated, published, extracted, retired *)
(* and freed by MultiQueues::insert and deleteMin, by relax, and by main   *)
(* at the end, through class Allocator and the reclaimer (module Debra).   *)
(*                                                                         *)
(* The queues are one set of records here, the graph is the set of         *)
(* vertices whose offers a thread may replace, and which vertices a thread *)
(* relaxes after a deleteMin is left open.  As in the code, operations call *)
(* enterQuiescentState first and leaveQuiescentState last.  A thread in    *)
(* leaveQuiescentState does nothing else until reclaimPC is "inside".      *)
(* mgr_lock makes each allocate and each retire one step.                  *)
(***************************************************************************)
EXTENDS Naturals, FiniteSets

CONSTANTS NumProcesses, MinOpsBeforeRead,
          Objects,   \* the addresses of offer records
          Vertices,  \* the indices of offers[]
          NULL,      \* no record
          NoThread,  \* the owner of a free mutex
          NoVertex   \* of a thread that relaxes nothing

VARIABLES epoch, announcedEpoch, quiescent, checked, epochbags, index, opsSinceRead,
          reclaimPC, readEpoch, live, waits,   \* the reclaimer: see Debra
          pool,         \* the records in the queues
          offers,       \* offers[index]
          offersLocks,  \* the owner of each mutex
          main,         \* what dijkstra_shortest_path is doing
          cleanup,      \* the vertices its last loop has still to visit
          pc,           \* what each thread executes next
          record,       \* its local offer, new_offer or min_offer
          at            \* the vertex it relaxes

debra == INSTANCE Debra WITH pc <- reclaimPC

Threads == debra!Threads

ASSUME ProcessesAssumption == NumProcesses \in Nat \ {0}
ASSUME NamesAssumption ==
  NULL \notin Objects /\ NoThread \notin Threads /\ NoVertex \notin Vertices

debraVars == <<epoch, announcedEpoch, quiescent, checked, epochbags, index, opsSinceRead,
               reclaimPC, readEpoch, live, waits>>
programVars == <<pool, offers, offersLocks, main, cleanup, record, at>>
vars == <<debraVars, programVars, pc>>

PCs == {"idle", "relaxing", "insert", "allocate", "publish", "leaveInsert", "lateWrite",
        "allocateRecord", "leaveRecord", "replace", "retireOld", "leaveReplace", "store",
        "extract", "retire", "leaveDelete", "leaveEmpty", "cleanupRetire", "leaveCleanup"}

\* main has thread id 0 while it inserts the source.
Init ==
  /\ debra!Init
  /\ pool = {}
  /\ offers = [v \in Vertices |-> NULL]
  /\ offersLocks = [v \in Vertices |-> NoThread]
  /\ main = "insert"
  /\ cleanup = Vertices
  /\ pc = [t \in Threads |-> IF t = 0 THEN "insert" ELSE "idle"]
  /\ record = [t \in Threads |-> NULL]
  /\ at = [t \in Threads |-> NoVertex]

\* t is not in the middle of leaveQuiescentState.
Ready(t) == reclaimPC[t] \in {"outside", "inside"}

Goto(t, from, to) ==
  /\ Ready(t)
  /\ pc[t] = from /\ pc' = [pc EXCEPT ![t] = to]

\* enterQuiescentState; it changes nothing for a thread that is quiescent.
Enter(t) ==
  IF reclaimPC[t] = "inside" THEN debra!EnterQuiescentState(t) ELSE UNCHANGED debraVars

Leave(t) == debra!ReadEpoch(t)

-----------------------------------------------------------------------------
\* MultiQueues::insert, from main or from relax

InsertEnter(t) ==
  /\ Goto(t, "insert", "allocate")
  /\ Enter(t)
  /\ UNCHANGED programVars

InsertAllocate(t, o) ==
  /\ Goto(t, "allocate", "publish")
  /\ debra!Allocate(t, o)
  /\ record' = [record EXCEPT ![t] = o]
  /\ UNCHANGED <<pool, offers, offersLocks, main, cleanup, at>>

Publish(t) ==
  /\ Goto(t, "publish", "leaveInsert")
  /\ pool' = pool \cup {record[t]}
  /\ UNCHANGED <<debraVars, offers, offersLocks, main, cleanup, record, at>>

InsertLeave(t) ==
  /\ Goto(t, "leaveInsert", IF main = "insert" THEN "idle" ELSE "lateWrite")
  /\ Leave(t)
  /\ record' = [record EXCEPT ![t] = IF main = "insert" THEN NULL ELSE @]
  /\ UNCHANGED <<pool, offers, offersLocks, main, cleanup, at>>

\* main, back from insert, starts the threads.
Create ==
  /\ main = "insert" /\ main' = "run"
  /\ pc[0] = "idle" /\ Ready(0)
  /\ UNCHANGED <<debraVars, pool, offers, offersLocks, cleanup, pc, record, at>>

-----------------------------------------------------------------------------
\* relax: the tests of its lines 40 and 43 are left open; if one fails the mutex is
\* given back, and nothing has changed.

RelaxLock(t, v) ==
  /\ Goto(t, "relaxing", "insert")
  /\ offersLocks[v] = NoThread
  /\ offersLocks' = [offersLocks EXCEPT ![v] = t]
  /\ at' = [at EXCEPT ![t] = v]
  /\ UNCHANGED <<debraVars, pool, offers, main, cleanup, record>>

\* new_offer->vertex and new_offer->dist are written again, and then
\* enterQuiescentState is called.
LateWrite(t) ==
  /\ Goto(t, "lateWrite", "allocateRecord")
  /\ Enter(t)
  /\ record' = [record EXCEPT ![t] = NULL]
  /\ UNCHANGED <<pool, offers, offersLocks, main, cleanup, at>>

RecordAllocate(t, o) ==
  /\ Goto(t, "allocateRecord", "leaveRecord")
  /\ debra!Allocate(t, o)
  /\ record' = [record EXCEPT ![t] = o]
  /\ UNCHANGED <<pool, offers, offersLocks, main, cleanup, at>>

\* Mutant: the old record is dropped.
RecordLeaveDropOld(t) ==
  /\ Goto(t, "leaveRecord", "store")
  /\ Leave(t)
  /\ UNCHANGED programVars

RecordLeave(t) ==
  /\ Goto(t, "leaveRecord", IF offers[at[t]] # NULL THEN "replace" ELSE "store")
  /\ Leave(t)
  /\ UNCHANGED programVars

ReplaceEnter(t) ==
  /\ Goto(t, "replace", "retireOld")
  /\ Enter(t)
  /\ UNCHANGED programVars

RetireOld(t) ==
  /\ Goto(t, "retireOld", "leaveReplace")
  /\ debra!Retire(t, offers[at[t]])
  /\ UNCHANGED programVars

ReplaceLeave(t) ==
  /\ Goto(t, "leaveReplace", "store")
  /\ Leave(t)
  /\ UNCHANGED programVars

\* Mutant: the record is stored only where there was none.
StoreOnce(t) ==
  /\ Goto(t, "store", "relaxing")
  /\ offers' = [offers EXCEPT ![at[t]] = IF @ = NULL THEN record[t] ELSE @]
  /\ offersLocks' = [offersLocks EXCEPT ![at[t]] = NoThread]
  /\ record' = [record EXCEPT ![t] = NULL]
  /\ at' = [at EXCEPT ![t] = NoVertex]
  /\ UNCHANGED <<debraVars, pool, main, cleanup>>

Store(t) ==
  /\ Goto(t, "store", "relaxing")
  /\ offers' = [offers EXCEPT ![at[t]] = record[t]]
  /\ offersLocks' = [offersLocks EXCEPT ![at[t]] = NoThread]
  /\ record' = [record EXCEPT ![t] = NULL]
  /\ at' = [at EXCEPT ![t] = NoVertex]
  /\ UNCHANGED <<debraVars, pool, main, cleanup>>

-----------------------------------------------------------------------------
\* MultiQueues::deleteMin

DeleteEnter(t) ==
  /\ main = "run"
  /\ Goto(t, "idle", "extract") \/ Goto(t, "relaxing", "extract")
  /\ Enter(t)
  /\ UNCHANGED programVars

Extract(t, o) ==
  /\ Goto(t, "extract", "retire")
  /\ o \in pool
  /\ pool' = pool \ {o}
  /\ record' = [record EXCEPT ![t] = o]
  /\ UNCHANGED <<debraVars, offers, offersLocks, main, cleanup, at>>

ExtractNothing(t) ==
  /\ Goto(t, "extract", "leaveEmpty")
  /\ pool = {}
  /\ UNCHANGED <<debraVars, programVars>>

\* The record is copied to *out before.
RetireExtracted(t) ==
  /\ Goto(t, "retire", "leaveDelete")
  /\ debra!Retire(t, record[t])
  /\ record' = [record EXCEPT ![t] = NULL]
  /\ UNCHANGED <<pool, offers, offersLocks, main, cleanup, at>>

DeleteLeave(t) ==
  /\ Goto(t, "leaveDelete", "relaxing") \/ Goto(t, "leaveEmpty", "idle")
  /\ Leave(t)
  /\ UNCHANGED programVars

-----------------------------------------------------------------------------
\* The end of dijkstra_shortest_path, with thread id 0

\* All threads have returned, the queue is empty (ParallelDijkstra!TerminationSound).
Join ==
  /\ main = "run" /\ main' = "joined"
  /\ pool = {}
  /\ \A t \in Threads : pc[t] = "idle" /\ Ready(t)
  /\ UNCHANGED <<debraVars, pool, offers, offersLocks, cleanup, pc, record, at>>

CleanupEnter(v) ==
  /\ main = "joined"
  /\ v \in cleanup /\ offers[v] # NULL
  /\ Goto(0, "idle", "cleanupRetire")
  /\ Enter(0)
  /\ at' = [at EXCEPT ![0] = v]
  /\ UNCHANGED <<pool, offers, offersLocks, main, cleanup, record>>

CleanupRetire ==
  /\ Goto(0, "cleanupRetire", "leaveCleanup")
  /\ debra!Retire(0, offers[at[0]])
  /\ cleanup' = cleanup \ {at[0]}
  /\ at' = [at EXCEPT ![0] = NoVertex]
  /\ UNCHANGED <<pool, offers, offersLocks, main, record>>

CleanupLeave ==
  /\ Goto(0, "leaveCleanup", "idle")
  /\ Leave(0)
  /\ UNCHANGED programVars

-----------------------------------------------------------------------------
\* The steps inside leaveQuiescentState.
ReclaimerStep(t) ==
  /\ ~Ready(t)
  /\ debra!LeaveStep(t)
  /\ UNCHANGED <<programVars, pc>>

ThreadStep(t) ==
  \/ InsertEnter(t) \/ Publish(t) \/ InsertLeave(t)
  \/ \E o \in Objects : InsertAllocate(t, o) \/ RecordAllocate(t, o) \/ Extract(t, o)
  \/ \E v \in Vertices : RelaxLock(t, v)
  \/ LateWrite(t) \/ RecordLeave(t) \/ ReplaceEnter(t) \/ RetireOld(t) \/ ReplaceLeave(t)
  \/ Store(t) \/ DeleteEnter(t) \/ ExtractNothing(t) \/ RetireExtracted(t) \/ DeleteLeave(t)
  \/ ReclaimerStep(t)

Next ==
  \/ \E t \in Threads : ThreadStep(t)
  \/ \E v \in Vertices : CleanupEnter(v)
  \/ Create \/ Join \/ CleanupRetire \/ CleanupLeave

Spec == Init /\ [][Next]_vars

-----------------------------------------------------------------------------
\* Properties

\* The records a thread has for itself, or is about to retire.
OwnedBy(t) == IF pc[t] \in {"publish", "leaveRecord", "replace", "retireOld", "leaveReplace",
                            "store", "retire"} THEN {record[t]} ELSE {}

\* Those recorded in offers[]: not while they are being replaced, nor after main
\* has retired them.
Recorded(v) ==
  IF offers[v] = NULL \/ v \notin cleanup
     \/ \E t \in Threads : at[t] = v /\ pc[t] \in {"leaveReplace", "store"}
  THEN {} ELSE {offers[v]}

\* Whatever a thread can reach through the queues or offers[] and dereference
\* under a mutex (dAryMinHeap.cpp, ParallelDijkstra.cpp:43), or is about to
\* retire, is allocated; and no record is in two places, to be retired twice.
RecordsLive ==
  /\ pool \subseteq live
  /\ \A t \in Threads : OwnedBy(t) \subseteq live \ pool
  /\ \A v \in Vertices : Recorded(v) \subseteq live \ pool
  /\ \A t, u \in Threads : t # u => OwnedBy(t) \cap OwnedBy(u) = {}
  /\ \A t \in Threads, v \in Vertices : OwnedBy(t) \cap Recorded(v) = {}

\* When main has visited all of offers[] every record has been retired.
NoLeak ==
  main = "joined" /\ (\A v \in cleanup : offers[v] = NULL) => live = {}

\* relax writes to the record that insert returned (ParallelDijkstra.cpp:46-47)
\* only while it is not freed, as it is if leaveQuiescentState is called "at the
\* beginning of each operation that accesses objects reclaimed by this epoch
\* manager" (reclaimer_debra.h:114-115).
LateWriteSafe ==
  \A t \in Threads : pc[t] = "lateWrite" /\ Ready(t) => record[t] \in live \cup debra!Retired
=============================================================================
