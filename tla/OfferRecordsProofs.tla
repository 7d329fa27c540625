------------------------- MODULE OfferRecordsProofs -------------------------
(***************************************************************************)
(* Why every record that can be reached is allocated, none is in two       *)
(* places, and none is left in the end, for any number of threads, of      *)
(* vertices and of records, and whatever the reclaimer does.               *)
(*                                                                         *)
(* The argument.  Every allocated record is in exactly one place (Places): *)
(* in the queues, with one thread, or in one element of offers[].  Each    *)
(* step moves at most one record from one place to another, into one or    *)
(* out of all.  That a thread which replaces offers[v] is alone to do so   *)
(* is the work of the mutex (Control).                                     *)
(***************************************************************************)
EXTENDS OfferRecords, TLAPS

Relaxing == {"insert", "allocate", "publish", "leaveInsert", "lateWrite", "allocateRecord",
             "leaveRecord", "replace", "retireOld", "leaveReplace", "store"}
Inserting == {"insert", "allocate", "publish", "leaveInsert", "idle"}
Cleaning == {"idle", "cleanupRetire", "leaveCleanup"}
Owning == {"publish", "leaveRecord", "replace", "retireOld", "leaveReplace", "store", "retire"}
Replacing == {"leaveReplace", "store"}

Types ==
  /\ live \subseteq Objects
  /\ offers \in [Vertices -> Objects \cup {NULL}]
  /\ offersLocks \in [Vertices -> Threads \cup {NoThread}]
  /\ main \in {"insert", "run", "joined"}
  /\ cleanup \subseteq Vertices
  /\ pc \in [Threads -> PCs]
  /\ record \in [Threads -> Objects \cup {NULL}]
  /\ at \in [Threads -> Vertices \cup {NoVertex}]

Control ==
  /\ main = "insert" => \A t \in Threads : pc[t] \in Inserting /\ (t # 0 => pc[t] = "idle")
  /\ main = "run" => \A t \in Threads :
       /\ pc[t] \notin {"cleanupRetire", "leaveCleanup"}
       /\ pc[t] \in Relaxing => at[t] \in Vertices /\ offersLocks[at[t]] = t
       /\ pc[t] \in {"replace", "retireOld"} => offers[at[t]] # NULL
  /\ main = "joined" => \A t \in Threads :
       /\ pc[t] \in Cleaning
       /\ pc[t] = "cleanupRetire" => t = 0 /\ at[t] \in cleanup /\ offers[at[t]] # NULL
  /\ main # "joined" => cleanup = Vertices
  /\ main = "joined" => pool = {}

\* The records in the queues, the allocated ones, those of each thread and those
\* of each vertex.
Places(queues, all, own, rec) ==
  /\ queues \subseteq all
  /\ \A t \in Threads : own[t] \subseteq all \ queues
  /\ \A v \in Vertices : rec[v] \subseteq all \ queues
  /\ \A t, u \in Threads : t # u => own[t] \cap own[u] = {}
  /\ \A v, w \in Vertices : v # w => rec[v] \cap rec[w] = {}
  /\ \A t \in Threads, v \in Vertices : own[t] \cap rec[v] = {}
  /\ \A o \in all : o \in queues \/ (\E t \in Threads : o \in own[t]) \/ (\E v \in Vertices : o \in rec[v])

Own == [t \in Threads |-> OwnedBy(t)]
Rec == [v \in Vertices |-> Recorded(v)]

IInv == Types /\ Control /\ Places(pool, live, Own, Rec)
-----------------------------------------------------------------------------
\* One record changes its place.
LEMMA PlaceNew ==
  ASSUME NEW queues, NEW all, NEW own, NEW rec, NEW own2, NEW t \in Threads, NEW o,
         Places(queues, all, own, rec), o \notin all, own[t] = {}, own2[t] = {o},
         \A u \in Threads \ {t} : own2[u] = own[u]
  PROVE  Places(queues, all \cup {o}, own2, rec)
BY DEF Places

LEMMA PlacePublish ==
  ASSUME NEW queues, NEW all, NEW own, NEW rec, NEW own2, NEW t \in Threads, NEW o,
         Places(queues, all, own, rec), own[t] = {o}, own2[t] = {},
         \A u \in Threads \ {t} : own2[u] = own[u]
  PROVE  Places(queues \cup {o}, all, own2, rec)
BY DEF Places

LEMMA PlaceExtract ==
  ASSUME NEW queues, NEW all, NEW own, NEW rec, NEW own2, NEW t \in Threads, NEW o \in queues,
         Places(queues, all, own, rec), own[t] = {}, own2[t] = {o},
         \A u \in Threads \ {t} : own2[u] = own[u]
  PROVE  Places(queues \ {o}, all, own2, rec)
BY DEF Places

LEMMA PlaceRetire ==
  ASSUME NEW queues, NEW all, NEW own, NEW rec, NEW own2, NEW t \in Threads, NEW o,
         Places(queues, all, own, rec), own[t] = {o}, own2[t] = {},
         \A u \in Threads \ {t} : own2[u] = own[u]
  PROVE  Places(queues, all \ {o}, own2, rec)
BY DEF Places

LEMMA PlaceRetireOld ==
  ASSUME NEW queues, NEW all, NEW own, NEW rec, NEW rec2, NEW v \in Vertices, NEW o,
         Places(queues, all, own, rec), rec[v] = {o}, rec2[v] = {},
         \A w \in Vertices \ {v} : rec2[w] = rec[w]
  PROVE  Places(queues, all \ {o}, own, rec2)
BY DEF Places

LEMMA PlaceStore ==
  ASSUME NEW queues, NEW all, NEW own, NEW rec, NEW own2, NEW rec2,
         NEW t \in Threads, NEW v \in Vertices, NEW o,
         Places(queues, all, own, rec), own[t] = {o}, own2[t] = {}, rec[v] = {}, rec2[v] = {o},
         \A u \in Threads \ {t} : own2[u] = own[u],
         \A w \in Vertices \ {v} : rec2[w] = rec[w]
  PROVE  Places(queues, all, own2, rec2)
BY DEF Places

LEMMA PlaceSame ==
  ASSUME NEW queues, NEW all, NEW own, NEW rec, NEW own2, NEW rec2,
         Places(queues, all, own, rec),
         \A u \in Threads : own2[u] = own[u],
         \A w \in Vertices : rec2[w] = rec[w]
  PROVE  Places(queues, all, own2, rec2)
BY DEF Places
-----------------------------------------------------------------------------
\* What the calls of the reclaimer do to the allocated records.
LEMMA CallsKeepLive ==
  ASSUME NEW t \in Threads, Enter(t) \/ Leave(t) \/ debra!LeaveStep(t)
  PROVE  live' = live
BY DEF Enter, Leave, debraVars, debra!EnterQuiescentState, debra!ReadEpoch, debra!LeaveStep,
       debra!Rotate, debra!ScanNotNow, debra!Scan, debra!Advance, debra!Announce

LEMMA AllocateLive ==
  ASSUME NEW t \in Threads, NEW o \in Objects, debra!Allocate(t, o)
  PROVE  o \notin live /\ live' = live \cup {o}
BY DEF debra!Allocate

LEMMA RetireLive ==
  ASSUME NEW t \in Threads, NEW o, debra!Retire(t, o)
  PROVE  o \in live /\ live' = live \ {o}
BY DEF debra!Retire

LEMMA ZeroIsThread == 0 \in Threads
BY ProcessesAssumption DEF Threads, debra!Threads

-----------------------------------------------------------------------------
LEMMA TypesNext == Types /\ Control /\ Places(pool, live, Own, Rec) /\ Next => Types'
<1> SUFFICES ASSUME Types, Control, Places(pool, live, Own, Rec), Next PROVE Types'
  OBVIOUS
<1> USE DEF Types, PCs, Goto, programVars
<1>1. ASSUME NEW t \in Threads,
             \/ InsertEnter(t) \/ InsertLeave(t) \/ LateWrite(t) \/ RecordLeave(t)
             \/ ReplaceEnter(t) \/ ReplaceLeave(t) \/ DeleteEnter(t) \/ DeleteLeave(t)
             \/ ReclaimerStep(t)
      PROVE  Types'
  <2>1. live' = live
    BY <1>1, CallsKeepLive DEF InsertEnter, InsertLeave, LateWrite, RecordLeave, ReplaceEnter,
       ReplaceLeave, DeleteEnter, DeleteLeave, ReclaimerStep
  <2> QED
    BY <1>1, <2>1 DEF InsertEnter, InsertLeave, LateWrite, RecordLeave, ReplaceEnter, ReplaceLeave,
       DeleteEnter, DeleteLeave, ReclaimerStep
<1>2. ASSUME NEW t \in Threads, NEW o \in Objects, InsertAllocate(t, o) \/ RecordAllocate(t, o)
      PROVE  Types'
  BY <1>2, AllocateLive DEF InsertAllocate, RecordAllocate
<1>3. ASSUME NEW t \in Threads, Publish(t) \/ ExtractNothing(t) PROVE Types'
  BY <1>3 DEF Publish, ExtractNothing, debraVars
<1>4. ASSUME NEW t \in Threads, NEW v \in Vertices, RelaxLock(t, v) PROVE Types'
  BY <1>4 DEF RelaxLock, debraVars
<1>5. ASSUME NEW t \in Threads, NEW o \in Objects, Extract(t, o) PROVE Types'
  BY <1>5 DEF Extract, debraVars
<1>6. ASSUME NEW t \in Threads, RetireOld(t) PROVE Types'
  BY <1>6, RetireLive DEF RetireOld
<1>7. ASSUME NEW t \in Threads, Store(t) PROVE Types'
  BY <1>7 DEF Store, debraVars
<1>8. ASSUME NEW t \in Threads, RetireExtracted(t) PROVE Types'
  BY <1>8, RetireLive DEF RetireExtracted
<1>9. CASE Create \/ Join
  BY <1>9 DEF Create, Join, debraVars
<1>10. ASSUME NEW v \in Vertices, CleanupEnter(v) PROVE Types'
  BY <1>10, CallsKeepLive, ZeroIsThread DEF CleanupEnter
<1>11. CASE CleanupRetire
  BY <1>11, RetireLive, ZeroIsThread DEF CleanupRetire
<1>12. CASE CleanupLeave
  BY <1>12, CallsKeepLive, ZeroIsThread DEF CleanupLeave
<1> QED
  BY <1>1, <1>2, <1>3, <1>4, <1>5, <1>6, <1>7, <1>8, <1>9, <1>10, <1>11, <1>12 DEF Next, ThreadStep

LEMMA ControlNext == Types /\ Control /\ Next => Control'
<1> SUFFICES ASSUME Types, Control, Next PROVE Control'
  OBVIOUS
<1> USE NamesAssumption DEF Types, Control, PCs, Goto, programVars, Relaxing, Inserting, Cleaning
<1>1. ASSUME NEW t \in Threads,
             \/ InsertEnter(t) \/ LateWrite(t)
             \/ ReplaceEnter(t) \/ ReplaceLeave(t) \/ DeleteEnter(t) \/ DeleteLeave(t)
             \/ ReclaimerStep(t)
      PROVE  Control'
  BY <1>1 DEF InsertEnter, LateWrite, ReplaceEnter, ReplaceLeave, DeleteEnter, DeleteLeave,
              ReclaimerStep
<1>2. ASSUME NEW t \in Threads, NEW o \in Objects, InsertAllocate(t, o) \/ RecordAllocate(t, o)
      PROVE  Control'
  BY <1>2 DEF InsertAllocate, RecordAllocate
<1>3. ASSUME NEW t \in Threads, Publish(t) \/ ExtractNothing(t) PROVE Control'
  BY <1>3 DEF Publish, ExtractNothing
<1>4. ASSUME NEW t \in Threads, NEW v \in Vertices, RelaxLock(t, v) PROVE Control'
  BY <1>4 DEF RelaxLock
<1>5. ASSUME NEW t \in Threads, NEW o \in Objects, Extract(t, o) PROVE Control'
  BY <1>5 DEF Extract
<1>6. ASSUME NEW t \in Threads, RetireOld(t) \/ RetireExtracted(t) PROVE Control'
  BY <1>6 DEF RetireOld, RetireExtracted
<1>7. ASSUME NEW t \in Threads, Store(t) PROVE Control'
  BY <1>7 DEF Store
<1>8. ASSUME NEW t \in Threads, InsertLeave(t) \/ RecordLeave(t) PROVE Control'
  BY <1>8 DEF InsertLeave, RecordLeave
<1>9. CASE Create \/ Join
  BY <1>9 DEF Create, Join
<1>10. ASSUME NEW v \in Vertices, CleanupEnter(v) PROVE Control'
  BY <1>10, ZeroIsThread DEF CleanupEnter
<1>11. CASE CleanupRetire
  BY <1>11, ZeroIsThread DEF CleanupRetire
<1>12. CASE CleanupLeave
  BY <1>12, ZeroIsThread DEF CleanupLeave
<1> QED
  BY <1>1, <1>2, <1>3, <1>4, <1>5, <1>6, <1>7, <1>8, <1>9, <1>10, <1>11, <1>12 DEF Next, ThreadStep
-----------------------------------------------------------------------------
\* A vertex is only replaced by the thread that has locked it.
LEMMA ReplacedBy ==
  ASSUME Types, Control, main = "run", NEW t \in Threads, pc[t] \in Relaxing,
         NEW u \in Threads, pc[u] \in Relaxing, at[u] = at[t]
  PROVE  u = t
BY DEF Control

LEMMA PlacesKept ==
  ASSUME Places(pool, live, Own, Rec), pool' = pool, live' = live,
         \A u \in Threads : OwnedBy(u)' = OwnedBy(u),
         \A v \in Vertices : Recorded(v)' = Recorded(v)
  PROVE  Places(pool, live, Own, Rec)'
<1>1. /\ \A u \in Threads : Own'[u] = Own[u]
      /\ \A v \in Vertices : Rec'[v] = Rec[v]
  BY DEF Own, Rec
<1> HIDE DEF Own, Rec
<1>2. Places(pool, live, Own', Rec')
  BY <1>1, PlaceSame
<1> QED
  BY <1>2 DEF Places

\* Steps that leave every record where it is.
LEMMA PlacesStill ==
  ASSUME IInv, NEW t \in Threads,
         \/ InsertEnter(t) \/ InsertLeave(t) \/ LateWrite(t) \/ RecordLeave(t)
         \/ ReplaceEnter(t) \/ ReplaceLeave(t) \/ DeleteEnter(t) \/ DeleteLeave(t)
         \/ ReclaimerStep(t) \/ ExtractNothing(t) \/ \E v \in Vertices : RelaxLock(t, v)
  PROVE  Places(pool, live, Own, Rec)'
<1> USE DEF IInv, Types, Goto, programVars
<1>1. live' = live
  BY CallsKeepLive DEF InsertEnter, InsertLeave, LateWrite, RecordLeave, ReplaceEnter, ReplaceLeave,
     DeleteEnter, DeleteLeave, ReclaimerStep, ExtractNothing, RelaxLock, debraVars
<1>2. /\ pool' = pool /\ offers' = offers /\ cleanup' = cleanup
      /\ \A u \in Threads : OwnedBy(u)' = OwnedBy(u)
  BY DEF InsertEnter, InsertLeave, LateWrite, RecordLeave, ReplaceEnter, ReplaceLeave,
     DeleteEnter, DeleteLeave, ReclaimerStep, ExtractNothing, RelaxLock, OwnedBy
<1>3. CASE ~RecordLeave(t)
  <2>1. \A u \in Threads : pc'[u] \in Replacing \/ pc[u] \in Replacing =>
          pc'[u] \in Replacing /\ pc[u] \in Replacing /\ at'[u] = at[u]
    BY <1>3 DEF InsertEnter, InsertLeave, LateWrite, ReplaceEnter, ReplaceLeave,
       DeleteEnter, DeleteLeave, ReclaimerStep, ExtractNothing, RelaxLock, Replacing
  <2>2. \A v \in Vertices : Recorded(v)' = Recorded(v)
    BY <1>2, <2>1 DEF Recorded, Replacing
  <2> QED
    BY <1>1, <1>2, <2>2, PlacesKept
<1>4. CASE RecordLeave(t)
  <2>1. /\ at' = at
        /\ pc'[t] = IF offers[at[t]] # NULL THEN "replace" ELSE "store"
        /\ pc[t] = "leaveRecord" /\ \A u \in Threads \ {t} : pc'[u] = pc[u]
    BY <1>4 DEF RecordLeave
  <2>2. ASSUME NEW v \in Vertices PROVE Recorded(v)' = Recorded(v)
    <3>1. CASE offers[v] = NULL
      BY <1>2, <3>1 DEF Recorded
    <3>2. CASE offers[v] # NULL
      <4>1. \A u \in Threads : at'[u] = v =>
              (pc'[u] \in {"leaveReplace", "store"} <=> pc[u] \in {"leaveReplace", "store"})
        BY <2>1, <3>2
      <4> QED
        BY <1>2, <2>1, <4>1 DEF Recorded
    <3> QED
      BY <3>1, <3>2
  <2> QED
    BY <1>1, <1>2, <2>2, PlacesKept
<1> QED
  BY <1>3, <1>4

\* Steps that move a record of thread t, not of offers[].
LEMMA PlacesThread ==
  ASSUME IInv, NEW t \in Threads, NEW o \in Objects,
         \/ InsertAllocate(t, o) \/ RecordAllocate(t, o) \/ Extract(t, o)
         \/ (Publish(t) \/ RetireExtracted(t)) /\ o = record[t]
  PROVE  Places(pool, live, Own, Rec)'
<1> USE DEF IInv, Types, Goto
<1>1. /\ \A u \in Threads \ {t} : OwnedBy(u)' = OwnedBy(u)
      /\ \A v \in Vertices : Recorded(v)' = Recorded(v)
  BY DEF InsertAllocate, RecordAllocate, Extract, Publish, RetireExtracted, OwnedBy, Recorded
<1>2. /\ \A u \in Threads \ {t} : Own'[u] = Own[u]
      /\ \A v \in Vertices : Rec'[v] = Rec[v]
  BY <1>1 DEF Own, Rec
<1>3. Own[t] = OwnedBy(t) /\ Own'[t] = OwnedBy(t)'
  BY DEF Own
<1>4. Places(pool', live', Own', Rec)
  <2>1. CASE InsertAllocate(t, o) \/ RecordAllocate(t, o)
    <3>1. Own[t] = {} /\ Own'[t] = {o} /\ pool' = pool
      BY <1>3, <2>1 DEF InsertAllocate, RecordAllocate, OwnedBy
    <3>2. o \notin live /\ live' = live \cup {o}
      BY <2>1, AllocateLive DEF InsertAllocate, RecordAllocate
    <3> HIDE DEF Own, Rec
    <3> QED
      BY <1>2, <3>1, <3>2, PlaceNew
  <2>2. CASE Extract(t, o)
    <3>1. Own[t] = {} /\ Own'[t] = {o} /\ o \in pool /\ pool' = pool \ {o} /\ live' = live
      BY <1>3, <2>2 DEF Extract, OwnedBy, debraVars
    <3> QED
      BY <1>2, <3>1, PlaceExtract
  <2>3. CASE Publish(t) /\ o = record[t]
    <3>1. Own[t] = {o} /\ Own'[t] = {} /\ pool' = pool \cup {o} /\ live' = live
      BY <1>3, <2>3 DEF Publish, OwnedBy, debraVars
    <3> QED
      BY <1>2, <3>1, PlacePublish
  <2>4. CASE RetireExtracted(t) /\ o = record[t]
    <3>1. Own[t] = {o} /\ Own'[t] = {} /\ pool' = pool
      BY <1>3, <2>4 DEF RetireExtracted, OwnedBy
    <3>2. live' = live \ {o}
      BY <2>4, RetireLive DEF RetireExtracted
    <3> QED
      BY <1>2, <3>1, <3>2, PlaceRetire
  <2> QED
    BY <2>1, <2>2, <2>3, <2>4
<1>5. Places(pool', live', Own', Rec')
  BY <1>2, <1>4, PlaceSame
<1> QED
  BY <1>5 DEF Places

LEMMA RecordOwned ==
  ASSUME IInv, NEW t \in Threads, pc[t] \in Owning
  PROVE  record[t] \in Objects /\ record[t] # NULL
<1>1. OwnedBy(t) = {record[t]} /\ Own[t] = OwnedBy(t)
  BY DEF OwnedBy, Own, Owning
<1> QED
  BY <1>1, NamesAssumption DEF IInv, Places, Types

LEMMA PlacesRetireOld ==
  ASSUME IInv, NEW t \in Threads, RetireOld(t)
  PROVE  Places(pool, live, Own, Rec)'
<1> USE DEF IInv, Types
<1>1. main = "run"
  BY DEF RetireOld, Goto, Control, Inserting, Cleaning
<1>2. /\ pc[t] = "retireOld" /\ pc'[t] = "leaveReplace" /\ \A u \in Threads \ {t} : pc'[u] = pc[u]
      /\ UNCHANGED <<pool, offers, cleanup, record, at>>
  BY DEF RetireOld, Goto, programVars
<1>0. at[t] \in Vertices /\ offers[at[t]] # NULL
  BY <1>1, <1>2 DEF Control, Relaxing
<1> PICK v \in Vertices, o \in Objects : v = at[t] /\ o = offers[v]
  BY <1>0
<1>3. v = at[t] /\ o = offers[v] /\ v \in Vertices /\ o # NULL /\ v \in cleanup
  BY <1>0, <1>1 DEF Control
<1>4. \A u \in Threads : at[u] = v => pc[u] \notin Replacing
  BY <1>1, <1>2, <1>3, ReplacedBy DEF Replacing, Relaxing
<1>5. Recorded(v) = {o} /\ Recorded(v)' = {}
  BY <1>2, <1>3, <1>4 DEF Recorded, Replacing
<1>6. /\ \A u \in Threads : OwnedBy(u)' = OwnedBy(u)
      /\ \A w \in Vertices \ {v} : Recorded(w)' = Recorded(w)
  BY <1>2 DEF OwnedBy, Recorded
<1>7. /\ \A u \in Threads : Own'[u] = Own[u]
      /\ \A w \in Vertices \ {v} : Rec'[w] = Rec[w]
      /\ Rec[v] = {o} /\ Rec'[v] = {}
  BY <1>3, <1>5, <1>6 DEF Own, Rec
<1>8. live' = live \ {o}
  BY <1>3, RetireLive DEF RetireOld
<1>9. Places(pool, live', Own, Rec')
  BY <1>3, <1>7, <1>8, PlaceRetireOld
<1>10. Places(pool, live', Own', Rec')
  BY <1>7, <1>9, PlaceSame
<1> QED
  BY <1>2, <1>10 DEF Places

LEMMA PlacesStore ==
  ASSUME IInv, NEW t \in Threads, Store(t)
  PROVE  Places(pool, live, Own, Rec)'
<1> USE DEF IInv, Types
<1>1. main = "run"
  BY DEF Store, Goto, Control, Inserting, Cleaning
<1>0. pc[t] = "store" /\ at[t] \in Vertices /\ record[t] # NULL
  BY <1>1, RecordOwned DEF Store, Goto, Control, Relaxing, Owning
<1> PICK v \in Vertices, o \in Objects : v = at[t] /\ o = record[t]
  BY <1>0
<1>2. /\ v = at[t] /\ o = record[t]
      /\ pc[t] = "store" /\ pc'[t] = "relaxing" /\ \A u \in Threads \ {t} : pc'[u] = pc[u]
      /\ at'[t] = NoVertex /\ \A u \in Threads \ {t} : at'[u] = at[u] /\ record'[u] = record[u]
      /\ offers' = [offers EXCEPT ![v] = o]
      /\ UNCHANGED <<pool, cleanup, live>>
  BY DEF Store, Goto, debraVars
<1>3. v \in Vertices /\ v \in cleanup
  BY <1>1, <1>2 DEF Control, Relaxing
<1>4. o # NULL
  BY <1>0, <1>2
<1>5. \A u \in Threads \ {t} : pc[u] \in Replacing => at[u] # v
  BY <1>1, <1>2, ReplacedBy DEF Replacing, Relaxing
<1>6. Recorded(v) = {}
  BY <1>2 DEF Recorded
<1>7. Recorded(v)' = {o}
  <2>1. \A u \in Threads : ~(at'[u] = v /\ pc'[u] \in Replacing)
    BY <1>2, <1>5 DEF Replacing
  <2>2. offers'[v] = o
    BY <1>2, <1>3
  <2> QED
    BY <1>2, <1>3, <1>4, <2>1, <2>2 DEF Recorded, Replacing
<1>8. ASSUME NEW w \in Vertices \ {v} PROVE Recorded(w)' = Recorded(w)
  <2>1. offers'[w] = offers[w]
    BY <1>2
  <2>2. \A u \in Threads : (at'[u] = w /\ pc'[u] \in Replacing) <=> (at[u] = w /\ pc[u] \in Replacing)
    BY <1>2, NamesAssumption DEF Replacing
  <2> QED
    BY <1>2, <2>1, <2>2 DEF Recorded, Replacing
<1>9. /\ \A u \in Threads \ {t} : OwnedBy(u)' = OwnedBy(u)
      /\ OwnedBy(t) = {o} /\ OwnedBy(t)' = {}
  BY <1>2 DEF OwnedBy
<1>10. /\ \A u \in Threads \ {t} : Own'[u] = Own[u]
       /\ Own[t] = {o} /\ Own'[t] = {}
       /\ \A w \in Vertices \ {v} : Rec'[w] = Rec[w]
       /\ Rec[v] = {} /\ Rec'[v] = {o}
  BY <1>3, <1>6, <1>7, <1>8, <1>9 DEF Own, Rec
<1>11. Places(pool, live, Own, Rec)
  OBVIOUS
<1> HIDE DEF IInv, Types
<1>12. Places(pool, live, Own', Rec')
  BY ONLY <1>10, <1>11, PlaceStore, t \in Threads, v \in Vertices
<1> QED
  BY <1>2, <1>12 DEF Places

LEMMA PlacesMain ==
  ASSUME IInv, Create \/ Join \/ CleanupLeave \/ \E v \in Vertices : CleanupEnter(v)
  PROVE  Places(pool, live, Own, Rec)'
<1> USE ZeroIsThread DEF IInv, Types, Goto, programVars
<1>1. live' = live
  BY CallsKeepLive DEF Create, Join, CleanupLeave, CleanupEnter, debraVars
<1>2. /\ UNCHANGED <<pool, offers, cleanup>>
      /\ \A u \in Threads : OwnedBy(u)' = OwnedBy(u)
  BY DEF Create, Join, CleanupLeave, CleanupEnter, OwnedBy
<1>3. \A u \in Threads : pc'[u] \in Replacing \/ pc[u] \in Replacing =>
        pc'[u] \in Replacing /\ pc[u] \in Replacing /\ at'[u] = at[u]
  BY DEF Create, Join, CleanupLeave, CleanupEnter, Replacing
<1>4. \A v \in Vertices : Recorded(v)' = Recorded(v)
  BY <1>2, <1>3 DEF Recorded, Replacing
<1> QED
  BY <1>1, <1>2, <1>4, PlacesKept

LEMMA PlacesCleanup ==
  ASSUME IInv, CleanupRetire
  PROVE  Places(pool, live, Own, Rec)'
<1> USE ZeroIsThread DEF IInv, Types
<1>1. main = "joined"
  BY DEF CleanupRetire, Goto, Control, Inserting
<1>0. at[0] \in Vertices /\ offers[at[0]] # NULL
  BY <1>1 DEF CleanupRetire, Goto, Control
<1> PICK v \in Vertices, o \in Objects : v = at[0] /\ o = offers[v]
  BY <1>0
<1>2. /\ v = at[0] /\ o = offers[v]
      /\ pc[0] = "cleanupRetire" /\ pc'[0] = "leaveCleanup" /\ \A u \in Threads \ {0} : pc'[u] = pc[u]
      /\ cleanup' = cleanup \ {v}
      /\ UNCHANGED <<pool, offers, record>>
  BY DEF CleanupRetire, Goto
<1>3. v \in Vertices /\ o # NULL /\ v \in cleanup
  BY <1>0, <1>1, <1>2 DEF Control
<1>4. \A u \in Threads : pc[u] \notin Replacing /\ pc'[u] \notin Replacing
  BY <1>1, <1>2 DEF Control, Cleaning, Replacing
<1>5. Recorded(v) = {o} /\ Recorded(v)' = {}
  BY <1>2, <1>3, <1>4 DEF Recorded, Replacing
<1>6. /\ \A u \in Threads : OwnedBy(u)' = OwnedBy(u)
      /\ \A w \in Vertices \ {v} : Recorded(w)' = Recorded(w)
  BY <1>2, <1>4 DEF OwnedBy, Recorded, Replacing
<1>7. /\ \A u \in Threads : Own'[u] = Own[u]
      /\ \A w \in Vertices \ {v} : Rec'[w] = Rec[w]
      /\ Rec[v] = {o} /\ Rec'[v] = {}
  BY <1>3, <1>5, <1>6 DEF Own, Rec
<1>8. live' = live \ {o}
  BY <1>2, RetireLive DEF CleanupRetire
<1>9. Places(pool, live', Own, Rec')
  BY <1>3, <1>7, <1>8, PlaceRetireOld
<1>10. Places(pool, live', Own', Rec')
  BY <1>7, <1>9, PlaceSame
<1> QED
  BY <1>2, <1>10 DEF Places
-----------------------------------------------------------------------------
LEMMA IInvInit == Init => IInv
<1> SUFFICES ASSUME Init PROVE IInv
  OBVIOUS
<1>1. Types /\ Control
  BY NamesAssumption, ZeroIsThread
     DEF Init, debra!Init, Types, Control, PCs, Inserting, Cleaning
<1>2. live = {} /\ pool = {} /\ \A t \in Threads : OwnedBy(t) = {}
  BY DEF Init, debra!Init, OwnedBy
<1>3. \A v \in Vertices : Recorded(v) = {}
  BY DEF Init, Recorded
<1> QED
  BY <1>1, <1>2, <1>3 DEF IInv, Places, Own, Rec

LEMMA IInvNext == IInv /\ [Next]_vars => IInv'
<1> SUFFICES ASSUME IInv, [Next]_vars PROVE IInv'
  OBVIOUS
<1>1. CASE Next
  <2>1. Types' /\ Control'
    BY <1>1, TypesNext, ControlNext DEF IInv
  <2>2. ASSUME NEW t \in Threads, Publish(t) \/ RetireExtracted(t)
        PROVE  Places(pool, live, Own, Rec)'
    BY <2>2, RecordOwned, PlacesThread DEF Publish, RetireExtracted, Goto, Owning
  <2>3. Places(pool, live, Own, Rec)'
    BY <1>1, <2>2, PlacesStill, PlacesThread, PlacesRetireOld, PlacesStore, PlacesMain, PlacesCleanup
       DEF Next, ThreadStep
  <2> QED
    BY <2>1, <2>3 DEF IInv
<1>2. CASE UNCHANGED vars
  <2>1. Types' /\ Control'
    BY <1>2 DEF vars, debraVars, programVars, IInv, Types, Control
  <2>2. /\ pool' = pool /\ live' = live
        /\ \A u \in Threads : OwnedBy(u)' = OwnedBy(u)
        /\ \A v \in Vertices : Recorded(v)' = Recorded(v)
    BY <1>2 DEF vars, debraVars, programVars, OwnedBy, Recorded
  <2> QED
    BY <2>1, <2>2, PlacesKept DEF IInv
<1> QED
  BY <1>1, <1>2

LEMMA IInvAlways == Spec => []IInv
BY IInvInit, IInvNext, PTL DEF Spec
-----------------------------------------------------------------------------
\* Whatever a thread can reach through the queues or offers[], or is about to
\* retire, is allocated, and no record is in two places, to be retired twice
\* (MultiQueues.cpp insert and deleteMin, ParallelDijkstra.cpp:45-62): for any
\* number of threads, vertices and records.
THEOREM RecordsAreLive == Spec => []RecordsLive
<1>1. IInv => RecordsLive
  <2> SUFFICES ASSUME IInv PROVE RecordsLive
    OBVIOUS
  <2>1. /\ \A t \in Threads : Own[t] = OwnedBy(t)
        /\ \A v \in Vertices : Rec[v] = Recorded(v)
    BY DEF Own, Rec
  <2> QED
    BY <2>1 DEF IInv, Places, RecordsLive
<1> QED
  BY <1>1, IInvAlways, PTL

\* When main has visited all of offers[] every record has been retired
\* (ParallelDijkstra.cpp:242-250): none was dropped on the way.
THEOREM NothingLeaks == Spec => []NoLeak
<1>1. IInv => NoLeak
  <2> SUFFICES ASSUME IInv, main = "joined", \A v \in cleanup : offers[v] = NULL
               PROVE  live = {}
    BY DEF NoLeak
  <2>1. pool = {} /\ \A t \in Threads : OwnedBy(t) = {}
    BY DEF IInv, Control, Cleaning, OwnedBy
  <2>2. \A v \in Vertices : Recorded(v) = {}
    BY DEF Recorded
  <2> QED
    BY <2>1, <2>2 DEF IInv, Places, Own, Rec
<1> QED
  BY <1>1, IInvAlways, PTL
=============================================================================
