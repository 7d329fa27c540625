----------------------- MODULE ParallelDijkstraProofs -----------------------
(***************************************************************************)
(* Why a thread that returns may return, why no offer is lost, and why the *)
(* distances main reads after the joins are the shortest ones: for any     *)
(* number of threads and any graph (for the last, one whose vertices have  *)
(* an index of their own, IndexedGraph).  All of it rests on the           *)
(* assumption on memory that the header of ParallelDijkstra states.        *)
(*                                                                         *)
(* The termination test.  While work is left some started thread is        *)
(* Active: it has not concluded that there is none (SomeoneActive),        *)
(* because whoever finds the queue empty while work is left has found it   *)
(* in another thread's hands.  A started thread that is done stays done.   *)
(* A scan of done[] meets only started threads that are done (Scanned)     *)
(* until it meets a thread not yet started, whose flag holds anything;     *)
(* threads start in the order of the scan, so that by then it has seen     *)
(* every started thread done: no thread is Active, and nothing is left.    *)
(*                                                                         *)
(* The offers.  A pending offer stays pending until the distance of its    *)
(* vertex is as good (Keeps), since a thread gives an offer up only after  *)
(* comparing it with a distance that never grows.  So a distance once      *)
(* Covered, by a pending offer or by distances, stays covered.  The offer  *)
(* that relax inserts is covered from its insertion on, and the mutex of   *)
(* offers[v] keeps it better than the recorded one until it is recorded    *)
(* (Offering); the mutex of distances[v] does the same for the thread that *)
(* settles an offer (Settling).                                            *)
(*                                                                         *)
(* The result.  Labels p that start at 0 and that no edge exceeds bound    *)
(* the distances from below: every offer carries the length of a walk      *)
(* (Below).  The distances are such labels themselves in the end: once a   *)
(* distance is stored, each edge of its vertex is covered by an offer or a *)
(* distance as good, or the thread that stored it has still to relax that  *)
(* edge (Explored); and in the end no thread has anything to relax and     *)
(* nothing is pending (AllQuiet).                                          *)
(*                                                                         *)
(* The mutexes.  Each is held only where the code holds it (Owned), and    *)
(* the one a thread waits for while holding another is given back by a     *)
(* thread that holds nothing else.                                         *)
(*                                                                         *)
(* The reference.  The distances are the lengths InputGraph finds path by  *)
(* path (ReferenceIs).  Labels bound Within[k] from below for every k; and *)
(* of the vertices that k edges are not enough for, a nearest one has its  *)
(* last edge from one they are enough for (Crossing), since otherwise the  *)
(* labels of all of them could grow.  So one more edge is enough for one   *)
(* vertex more, and NumVertices edges are enough for all.                  *)
(*                                                                         *)
(* The sums.  Every offer was found along a path of vertices each of which *)
(* had a distance no greater by then (Found).  An offer that improves the  *)
(* distance of its vertex is therefore for a vertex that the path has not  *)
(* met, and the bound on the rest of the path (PathBounds, of which        *)
(* LongestFrom is one) still holds.                                        *)
(***************************************************************************)
EXTENDS DijkstraProgram, FiniteSetTheorems, WellFoundedInduction, TLAPS

Started(t) == t < created

Concluding(t) == done[t] \/ pc[t] = "markDone" \/ phase[t] = "refused"

Active(t) == Started(t) /\ ~Concluding(t)

\* Between two offers, or without one.
Quiet(t) ==
  \/ pc[t] \in {"unstarted", "loop", "markDone", "scan", "returned"}
  \/ pc[t] = "deleteMin" /\ phase[t] \in {"deleteMin", "refused"}

AllQuiet ==
  /\ main \in {"create", "joined"}
  /\ pool = {}
  /\ \A t \in Threads : Quiet(t)

\* What a thread's call of the queue can be doing, given where the thread is.
CallPhases(p) ==
  IF p = "deleteMin" THEN {"deleteMin", "discount", "removed", "refused"}
  ELSE IF p = "inserting" THEN {"insert", "put", "inserted"}
  ELSE {"idle"}

Flow(t) ==
  /\ pc[t] = "unstarted" <=> ~Started(t)
  /\ main # "inserting" \/ t # 0 => phase[t] \in CallPhases(pc[t])
  /\ Started(t) /\ done[t] => pc[t] \in {"loop", "markDone", "scan", "returned"}
  /\ pc[t] \in {"scan", "returned"} => done[t]
  /\ pc[t] # "scan" => scan[t] = 0

Control ==
  /\ pc \in [Threads -> PCs]
  /\ phase \in [Threads -> queue!Phases]
  /\ done \in [Threads -> BOOLEAN]
  /\ scan \in [Threads -> Threads]
  /\ created \in 0 .. NumOfThreads
  /\ main \in {"insert", "inserting", "create", "joined"}
  /\ main \in {"insert", "inserting"} => created = 0
  /\ main = "inserting" => phase[0] \in {"insert", "put", "inserted"}
  /\ \A t \in Threads : Flow(t)

SomeoneActive == created = 0 \/ AllQuiet \/ \E t \in Threads : Active(t)

Scanned ==
  \A t \in Threads : pc[t] = "scan" =>
    AllQuiet \/ \A u \in Threads : u < scan[t] => Started(u) /\ done[u]

ReturnedQuiet == \A t \in Threads : pc[t] = "returned" => AllQuiet

IInv == Control /\ SomeoneActive /\ Scanned /\ ReturnedQuiet
-----------------------------------------------------------------------------
LEMMA ControlInit == Init => Control
BY ThreadsAssumption DEF Init, Control, Flow, PCs, Threads, Started, CallPhases, queue!PoolInit, queue!Phases

LEMMA ControlMain == Control /\ MainStep => Control'
<1> SUFFICES ASSUME Control, MainStep PROVE Control'
  OBVIOUS
<1> USE ThreadsAssumption DEF Control, Flow, PCs, Threads, Started, CallPhases, queue!Phases,
        queueVars, dataVars, mainVars, threadVars
<1>1. CASE MainInsert
  <2>1. \A u \in Threads : Flow(u)'
    BY <1>1 DEF MainInsert, queue!InsertCall, queue!Goto
  <2> QED
    BY <1>1, <2>1 DEF MainInsert, queue!InsertCall, queue!Goto
<1>2. CASE MainInserted
  BY <1>2 DEF MainInserted, queue!Return, queue!Goto
<1>3. CASE Create
  BY SMTT(30), <1>3 DEF Create
<1>4. CASE Join
  BY <1>4 DEF Join
<1> QED
  BY <1>1, <1>2, <1>3, <1>4 DEF MainStep

LEMMA ControlQueue ==
  ASSUME Control, NEW t \in Threads, QueueStep(t)
  PROVE  Control'
<1> USE ThreadsAssumption DEF Control, Flow, PCs, Threads, Started, CallPhases, queue!Phases,
        queueVars, dataVars, mainVars, threadVars, QueueStep, queue!Goto
<1>1. CASE queue!Announce(t)
  BY SMTT(30), <1>1 DEF queue!Announce
<1>2. CASE queue!Put(t)
  <2>1. \A u \in Threads \ {t} : Flow(u)'
    BY <1>2 DEF queue!Put
  <2>2. Flow(t)'
    BY SMTT(30), <1>2 DEF queue!Put
  <2> QED
    BY SMTT(30), <1>2, <2>1, <2>2 DEF queue!Put
<1>3. CASE queue!Take(t)
  <2>1. \A u \in Threads \ {t} : Flow(u)'
    BY <1>3 DEF queue!Take
  <2>2. Flow(t)'
    BY ZenonT(30), <1>3 DEF queue!Take
  <2> QED
    BY SMTT(30), <1>3, <2>1, <2>2 DEF queue!Take
<1>4. CASE queue!Discount(t)
  BY SMTT(30), <1>4 DEF queue!Discount
<1>5. CASE queue!Refuse(t)
  <2>1. \A u \in Threads \ {t} : Flow(u)'
    BY <1>5 DEF queue!Refuse
  <2>2. Flow(t)'
    BY ZenonT(30), <1>5 DEF queue!Refuse
  <2> QED
    BY <1>5, <2>1, <2>2 DEF queue!Refuse
<1> QED
  BY <1>1, <1>2, <1>3, <1>4, <1>5

LEMMA ControlThread ==
  ASSUME Control, NEW t \in Threads, ThreadStep(t)
  PROVE  Control'
<1> USE ThreadsAssumption DEF Control, Flow, PCs, Threads, Started, CallPhases, queue!Phases, Goto,
        queueVars, dataVars, mainVars, threadVars
<1>1. CASE LoopEmpty(t)
  BY SMTT(30), <1>1 DEF LoopEmpty
<1>2. CASE LoopDelete(t)
  BY SMTT(30), <1>2 DEF LoopDelete, queue!DeleteCall, queue!Goto
<1>3. CASE LoopSpin(t)
  <2>1. \A u \in Threads \ {t} : Flow(u)'
    BY <1>3 DEF LoopSpin
  <2>2. Flow(t)'
    <3>1. pc[t] = "loop" /\ pc'[t] = "scan" /\ done[t]
      BY <1>3 DEF LoopSpin
    <3> QED
      BY <1>3, <3>1 DEF LoopSpin
  <2> QED
    BY SMTT(30), <1>3, <2>1, <2>2 DEF LoopSpin
<1>4. CASE GotNothing(t)
  BY <1>4 DEF GotNothing, queue!Return, queue!Goto
<1>5. CASE MarkDone(t)
  BY SMTT(30), <1>5 DEF MarkDone
<1>6. CASE FinishedWork(t)
  <2>1. \A u \in Threads \ {t} : Flow(u)'
    BY <1>6 DEF FinishedWork
  <2>2. /\ pc[t] = "scan" /\ pc'[t] \in {"loop", "scan", "returned"}
        /\ scan'[t] \in Threads /\ (pc'[t] # "scan" => scan'[t] = 0)
        /\ done' = done /\ phase' = phase /\ UNCHANGED <<main, created>>
    <3> DEFINE k == scan[t]
    <3>1. k \in Nat /\ k <= NumOfThreads - 1
      OBVIOUS
    <3>2. /\ pc[t] = "scan"
          /\ pc'[t] = IF ~done[k] THEN "loop"
                      ELSE IF k = NumOfThreads - 1 THEN "returned" ELSE "scan"
          /\ scan'[t] = IF done[k] /\ k < NumOfThreads - 1 THEN k + 1 ELSE 0
      BY <1>6 DEF FinishedWork
    <3>3. done' = done /\ phase' = phase /\ UNCHANGED <<main, created>>
      BY <1>6 DEF FinishedWork
    <3> HIDE DEF k
    <3> QED
      BY <3>1, <3>2, <3>3
  <2>3. Flow(t)'
    BY <2>2
  <2>4. pc' \in [Threads -> PCs] /\ scan' \in [Threads -> Threads]
    BY SMTT(30), <1>6, <2>2 DEF FinishedWork
  <2> QED
    BY ZenonT(30), <2>1, <2>2, <2>3, <2>4
<1>7. CASE GotMin(t)
  BY <1>7 DEF GotMin, queue!Return, queue!Goto
<1>8. CASE Improves(t)
  BY <1>8 DEF Improves
<1>9. CASE Stale(t)
  BY SMTT(30), <1>9 DEF Stale
<1>10. CASE Update(t)
  BY <1>10 DEF Update, NextNeighbor
<1>11. CASE LockOffer(t)
  <2>1. \A u \in Threads \ {t} : Flow(u)'
    BY <1>11 DEF LockOffer
  <2>2. Flow(t)'
    BY <1>11 DEF LockOffer
  <2> QED
    BY <1>11, <2>1, <2>2 DEF LockOffer
<1>12. CASE RelaxInsert(t)
  BY SMTT(30), <1>12 DEF RelaxInsert, queue!InsertCall, queue!Goto
<1>13. CASE RelaxNothing(t)
  BY <1>13 DEF RelaxNothing, NextNeighbor
<1>14. CASE RelaxInserted(t)
  BY <1>14 DEF RelaxInserted, queue!Return, queue!Goto, NextNeighbor
<1> QED
  BY <1>1, <1>2, <1>3, <1>4, <1>5, <1>6, <1>7, <1>8, <1>9, <1>10, <1>11, <1>12, <1>13, <1>14 DEF ThreadStep

-----------------------------------------------------------------------------
\* Once nothing is left nothing will ever be left to do.
LEMMA AllQuietMain == Control /\ AllQuiet /\ MainStep => AllQuiet'
<1> USE DEF Control, Flow, CallPhases, AllQuiet, Quiet, Started, queueVars, threadVars, dataVars
<1>1. ASSUME Control, AllQuiet, Create PROVE AllQuiet'
  BY <1>1 DEF Create
<1>2. ASSUME Control, AllQuiet, Join PROVE AllQuiet'
  BY <1>2 DEF Join
<1> QED
  BY <1>1, <1>2 DEF MainStep, MainInsert, MainInserted

LEMMA AllQuietQueue ==
  ASSUME Control, AllQuiet, NEW t \in Threads, QueueStep(t)
  PROVE  AllQuiet'
<1>1. phase[t] \in {"idle", "deleteMin", "refused"}
  BY DEF Control, Flow, CallPhases, AllQuiet, Quiet
<1>2. queue!Refuse(t)
  BY <1>1 DEF QueueStep, queue!Announce, queue!Put, queue!Take, queue!Discount, queue!Goto, AllQuiet
<1> QED
  BY <1>2 DEF QueueStep, queue!Refuse, queue!Goto, Control, AllQuiet, Quiet, mainVars, threadVars

LEMMA AllQuietThread ==
  ASSUME Control, AllQuiet, NEW t \in Threads, ThreadStep(t)
  PROVE  AllQuiet'
<1> USE DEF Control, Flow, CallPhases, AllQuiet, Quiet, Goto, queueVars, mainVars, dataVars
<1>1. CASE LoopEmpty(t)
  BY <1>1 DEF LoopEmpty
<1>2. CASE LoopDelete(t)
  BY <1>2 DEF LoopDelete, queue!DeleteCall, queue!Goto
<1>3. CASE LoopSpin(t)
  BY <1>3 DEF LoopSpin
<1>4. CASE GotNothing(t)
  BY <1>4 DEF GotNothing, queue!Return, queue!Goto
<1>5. CASE MarkDone(t)
  BY <1>5 DEF MarkDone
<1>6. CASE FinishedWork(t)
  BY <1>6 DEF FinishedWork
<1>7. CASE GotMin(t)
  BY <1>7 DEF GotMin
<1>8. pc[t] \notin Busy
  BY DEF Busy
<1> QED
  BY <1>1, <1>2, <1>3, <1>4, <1>5, <1>6, <1>7, <1>8
     DEF ThreadStep, Busy, Improves, Stale, Update, NextNeighbor, LockOffer, RelaxInsert,
         RelaxNothing, RelaxInserted

LEMMA AllQuietNext == Control /\ AllQuiet /\ Next => AllQuiet'
<1>1. Control /\ AllQuiet /\ Ended => AllQuiet'
  BY DEF Ended, vars, queueVars, mainVars, threadVars, AllQuiet, Quiet
<1> QED
  BY <1>1, AllQuietMain, AllQuietQueue, AllQuietThread DEF Next

LEMMA ControlNext == Control /\ Next => Control'
<1>1. Control /\ Ended => Control'
  BY DEF Ended, vars, queueVars, mainVars, threadVars, Control, Flow, Started
<1> QED
  BY <1>1, ControlMain, ControlQueue, ControlThread DEF Next

-----------------------------------------------------------------------------
\* If work is left while the queue has nothing to show, a started thread that
\* is not done has it in its hands.
LEMMA WorkIsInHands ==
  ASSUME Control, created # 0, IsEmpty, ~AllQuiet
  PROVE  \E v \in Threads : Active(v) /\ ~Quiet(v)
<1>1. pool = {} /\ \A t \in Threads : phase[t] \notin {"put", "discount"}
  BY DEF IsEmpty, queue!Counted
<1>2. PICK v \in Threads : ~Quiet(v)
  BY <1>1 DEF AllQuiet, Control
<1>3. Started(v) /\ ~done[v]
  BY <1>2 DEF Quiet, Control, Flow
<1>4. pc[v] # "markDone" /\ phase[v] # "refused"
  BY <1>2 DEF Quiet, Control, Flow, CallPhases, PCs
<1> QED
  BY <1>2, <1>3, <1>4 DEF Active, Concluding

\* A thread that concludes there is no work leaves another one active, or is
\* right.
LEMMA ActiveMain == Control /\ SomeoneActive /\ MainStep => SomeoneActive'
<1> SUFFICES ASSUME Control, SomeoneActive, MainStep PROVE SomeoneActive'
  OBVIOUS
<1>1. CASE AllQuiet
  BY <1>1, AllQuietMain DEF SomeoneActive
<1>2. CASE Create /\ created = 0
  BY <1>2, ThreadsAssumption
     DEF Create, SomeoneActive, Active, Started, Concluding, Control, Flow, CallPhases, Threads, queueVars
<1>3. CASE Create /\ \E u \in Threads : Active(u)
  BY <1>3 DEF Create, SomeoneActive, Active, Started, Concluding, Control, Threads, queueVars
<1>4. CASE ~Create
  BY <1>4 DEF MainStep, MainInsert, MainInserted, Join, Control, SomeoneActive, AllQuiet,
              Active, Started, Concluding, Quiet, queueVars, threadVars, mainVars, dataVars
<1> QED
  BY <1>1, <1>2, <1>3, <1>4 DEF SomeoneActive

LEMMA ActiveQueue ==
  ASSUME Control, SomeoneActive, NEW t \in Threads, QueueStep(t)
  PROVE  SomeoneActive'
<1>1. CASE created = 0
  BY <1>1 DEF QueueStep, SomeoneActive, mainVars
<1>2. CASE AllQuiet
  BY <1>2, AllQuietQueue DEF SomeoneActive
<1>3. CASE created # 0 /\ ~AllQuiet
  <2>1. UNCHANGED <<created, done, pc>>
    BY DEF QueueStep, mainVars, threadVars
  <2>2. CASE queue!Refuse(t)
    <3>1. PICK v \in Threads : Active(v) /\ ~Quiet(v)
      BY <1>3, <2>2, WorkIsInHands DEF queue!Refuse, IsEmpty
    <3>2. v # t
      BY <3>1, <2>2 DEF queue!Refuse, queue!Goto, Control, Flow, CallPhases, Quiet
    <3>3. phase'[v] = phase[v]
      BY <3>2, <2>2 DEF queue!Refuse, queue!Goto, Control
    <3> QED
      BY <2>1, <3>1, <3>3 DEF SomeoneActive, Active, Started, Concluding
  <2>3. CASE ~queue!Refuse(t)
    <3>1. PICK u \in Threads : Active(u)
      BY <1>3 DEF SomeoneActive
    <3>2. phase'[u] # "refused"
      BY <3>1, <2>3 DEF QueueStep, queue!Announce, queue!Put, queue!Take, queue!Discount,
                        queue!Goto, Control, Active, Concluding
    <3> QED
      BY <2>1, <3>1, <3>2 DEF SomeoneActive, Active, Started, Concluding
  <2> QED
    BY <2>2, <2>3
<1> QED
  BY <1>1, <1>2, <1>3

LEMMA ActiveThread ==
  ASSUME Control, SomeoneActive, NEW t \in Threads, ThreadStep(t)
  PROVE  SomeoneActive'
<1> USE DEF SomeoneActive, Active, Started, Concluding, Goto, queueVars, mainVars, dataVars
<1>1. CASE AllQuiet
  BY <1>1, AllQuietThread
<1>2. CASE created = 0
  BY <1>2 DEF ThreadStep, LoopEmpty, LoopDelete, LoopSpin, GotNothing, MarkDone, FinishedWork,
     GotMin, Improves, Stale, Update, LockOffer, RelaxInsert, RelaxNothing, RelaxInserted
<1>3. CASE created # 0 /\ ~AllQuiet /\ LoopEmpty(t)
  <2>1. PICK v \in Threads : Active(v) /\ ~Quiet(v)
    BY <1>3, WorkIsInHands DEF LoopEmpty
  <2>2. v # t
    BY <1>3, <2>1 DEF LoopEmpty, Quiet
  <2> QED
    BY <1>3, <2>1, <2>2 DEF LoopEmpty, Control
<1>4. CASE created # 0 /\ ~AllQuiet /\ ~LoopEmpty(t)
  <2>1. PICK u \in Threads : Active(u)
    BY <1>4
  <2> SUFFICES Active(u)'
    OBVIOUS
  <2>2. CASE GotNothing(t)
    BY <2>1, <2>2 DEF GotNothing, queue!Return, queue!Goto, Control
  <2>3. CASE MarkDone(t)
    BY <2>1, <2>3 DEF MarkDone, Control
  <2>4. CASE LoopDelete(t)
    BY <2>1, <2>4 DEF LoopDelete, queue!DeleteCall, queue!Goto, Control
  <2>5. CASE LoopSpin(t)
    BY <2>1, <2>5 DEF LoopSpin, Control
  <2>6. CASE FinishedWork(t)
    BY <2>1, <2>6 DEF FinishedWork, Control
  <2>7. CASE GotMin(t)
    BY <2>1, <2>7 DEF GotMin, queue!Return, queue!Goto, Control
  <2>8. CASE Improves(t)
    BY <2>1, <2>8 DEF Improves, Control
  <2>9. CASE Stale(t)
    BY <2>1, <2>9 DEF Stale, Control
  <2>10. CASE Update(t)
    BY <2>1, <2>10 DEF Update, NextNeighbor, Control
  <2>11. CASE LockOffer(t)
    BY <2>1, <2>11 DEF LockOffer, Control
  <2>12. CASE RelaxInsert(t)
    BY <2>1, <2>12 DEF RelaxInsert, queue!InsertCall, queue!Goto, Control
  <2>13. CASE RelaxNothing(t)
    BY <2>1, <2>13 DEF RelaxNothing, NextNeighbor, Control
  <2>14. CASE RelaxInserted(t)
    BY <2>1, <2>14 DEF RelaxInserted, queue!Return, queue!Goto, NextNeighbor, Control
  <2> QED
    BY <1>4, <2>2, <2>3, <2>4, <2>5, <2>6, <2>7, <2>8, <2>9, <2>10, <2>11, <2>12, <2>13, <2>14 DEF ThreadStep
<1> QED
  BY <1>1, <1>2, <1>3, <1>4

LEMMA ActiveNext == Control /\ SomeoneActive /\ Next => SomeoneActive'
<1>1. Control /\ SomeoneActive /\ Ended => SomeoneActive'
  BY DEF Ended, vars, queueVars, mainVars, threadVars, SomeoneActive, Active, Started, Concluding,
         AllQuiet, Quiet
<1> QED
  BY <1>1, ActiveMain, ActiveQueue, ActiveThread DEF Next

-----------------------------------------------------------------------------
\* What a step does to a thread's scan of done[] and to the flags it has read.
ThreadsDo(t) ==
  /\ pc'[t] = "scan" =>
       \/ scan'[t] = 0
       \/ pc[t] = "scan" /\ scan'[t] = scan[t]
       \/ pc[t] = "scan" /\ done[scan[t]] /\ scan'[t] = scan[t] + 1
  /\ pc'[t] = "returned" =>
       \/ pc[t] = "returned"
       \/ pc[t] = "scan" /\ done[scan[t]] /\ scan[t] = NumOfThreads - 1
  /\ Started(t) /\ done[t] => Started(t)' /\ done'[t]

LEMMA ScanMain ==
  ASSUME Control, MainStep, NEW t \in Threads
  PROVE  ThreadsDo(t)
<1> USE DEF ThreadsDo, Control, Flow, Started, threadVars
<1>1. CASE Create
  <2>1. scan' = scan /\ created' = created + 1
    BY <1>1 DEF Create
  <2>2. CASE t = created
    BY <1>1, <2>1, <2>2 DEF Create
  <2>3. CASE t # created
    <3>1. pc'[t] = pc[t] /\ done'[t] = done[t]
      BY <1>1, <2>3 DEF Create
    <3>2. Started(t) => Started(t)'
      BY <2>1, ThreadsAssumption DEF Threads
    <3> QED
      BY <2>1, <3>1, <3>2
  <2> QED
    BY <2>2, <2>3
<1>2. CASE ~Create
  BY <1>2 DEF MainStep, MainInsert, MainInserted, Join
<1> QED
  BY <1>1, <1>2

LEMMA ScanQueue ==
  ASSUME Control, NEW w \in Threads, QueueStep(w), NEW t \in Threads
  PROVE  ThreadsDo(t)
BY DEF QueueStep, ThreadsDo, Control, Flow, Started, mainVars, threadVars

LEMMA ScanThread ==
  ASSUME Control, NEW w \in Threads, ThreadStep(w), NEW t \in Threads
  PROVE  ThreadsDo(t)
<1> USE DEF ThreadsDo, Control, Flow, Started, Goto, mainVars
<1>1. CASE FinishedWork(w)
  <2>1. CASE t # w
    BY <1>1, <2>1 DEF FinishedWork
  <2>2. CASE t = w
    <3> DEFINE k == scan[t]
    <3>1. /\ pc[t] = "scan"
          /\ pc'[t] = IF ~done[k] THEN "loop"
                      ELSE IF k = NumOfThreads - 1 THEN "returned" ELSE "scan"
          /\ scan'[t] = IF done[k] /\ k < NumOfThreads - 1 THEN k + 1 ELSE 0
      BY <1>1, <2>2 DEF FinishedWork
    <3>2. done' = done /\ created' = created
      BY <1>1 DEF FinishedWork
    <3>3. k = scan[t]
      OBVIOUS
    <3> HIDE DEF k
    <3> QED
      BY <3>1, <3>2, <3>3
  <2> QED
    BY <2>1, <2>2
<1>2. CASE LoopEmpty(w)
  BY <1>2 DEF LoopEmpty
<1>3. CASE LoopDelete(w)
  BY <1>3 DEF LoopDelete
<1>4. CASE LoopSpin(w)
  BY <1>4 DEF LoopSpin
<1>5. CASE GotNothing(w)
  BY <1>5 DEF GotNothing
<1>6. CASE MarkDone(w)
  BY <1>6 DEF MarkDone
<1>7. CASE GotMin(w)
  BY <1>7 DEF GotMin
<1>8. CASE Improves(w) \/ LockOffer(w) \/ RelaxInsert(w) \/ Stale(w)
  BY <1>8 DEF Improves, LockOffer, RelaxInsert, Stale
<1>9. CASE Update(w) \/ RelaxNothing(w) \/ RelaxInserted(w)
  BY <1>9 DEF Update, RelaxNothing, RelaxInserted, NextNeighbor
<1> QED
  BY <1>1, <1>2, <1>3, <1>4, <1>5, <1>6, <1>7, <1>8, <1>9 DEF ThreadStep

LEMMA ScanNext ==
  ASSUME Control, Next, NEW t \in Threads
  PROVE  ThreadsDo(t)
<1>1. ASSUME Ended PROVE ThreadsDo(t)
  BY <1>1 DEF Ended, vars, threadVars, mainVars, ThreadsDo, Control, Flow, Started
<1> QED
  BY <1>1, ScanMain, ScanQueue, ScanThread DEF Next

\* A scan that has met a thread not yet started has met every started one.
LEMMA ScanSound ==
  ASSUME Control, SomeoneActive, Scanned,
         NEW t \in Threads, pc[t] = "scan", done[scan[t]]
  PROVE  AllQuiet \/ \A u \in Threads : u <= scan[t] => Started(u) /\ done[u]
<1> SUFFICES ASSUME ~AllQuiet
             PROVE  \A u \in Threads : u <= scan[t] => Started(u) /\ done[u]
  OBVIOUS
<1>1. \A u \in Threads : u < scan[t] => Started(u) /\ done[u]
  BY DEF Scanned
<1>2. /\ scan[t] \in Threads /\ scan[t] \in Int /\ created \in Int /\ created # 0
      /\ \A u \in Threads : u \in Int
  <2>1. Started(t) /\ t \in Nat
    BY ThreadsAssumption DEF Control, Flow, Threads
  <2> QED
    BY <2>1, ThreadsAssumption DEF Control, Threads, Started
<1>3. \A u \in Threads : u <= scan[t] <=> u < scan[t] \/ u = scan[t]
  BY <1>2
<1>4. Started(scan[t])
  <2> SUFFICES ASSUME created <= scan[t] PROVE FALSE
    BY <1>2 DEF Started
  <2>1. \A u \in Threads : ~Active(u)
    BY <1>1, <1>2 DEF Active, Started, Concluding
  <2> QED
    BY <1>2, <2>1 DEF SomeoneActive
<1> QED
  BY <1>1, <1>3, <1>4

LEMMA ScannedStep == Control /\ SomeoneActive /\ Scanned /\ Next => Scanned'
<1> SUFFICES ASSUME Control, SomeoneActive, Scanned, Next, ~AllQuiet',
                    NEW t \in Threads, pc'[t] = "scan",
                    NEW u \in Threads, u < scan'[t]
             PROVE  Started(u)' /\ done'[u]
  BY DEF Scanned
<1>1. ~AllQuiet
  BY AllQuietNext
<1>2. u \in Nat /\ scan[t] \in Nat
  BY ThreadsAssumption DEF Control, Threads
<1>3. Started(u) /\ done[u]
  <2>1. pc[t] = "scan" /\ (u < scan[t] \/ (done[scan[t]] /\ u <= scan[t]))
    BY <1>2, ScanNext DEF ThreadsDo
  <2> QED
    BY <1>1, <2>1, ScanSound DEF Scanned
<1> QED
  BY <1>3, ScanNext DEF ThreadsDo

LEMMA ReturnedStep ==
  Control /\ SomeoneActive /\ Scanned /\ ReturnedQuiet /\ Next => ReturnedQuiet'
<1> SUFFICES ASSUME Control, SomeoneActive, Scanned, ReturnedQuiet, Next,
                    NEW t \in Threads, pc'[t] = "returned"
             PROVE  AllQuiet
  BY AllQuietNext DEF ReturnedQuiet
<1>1. CASE pc[t] = "returned"
  BY <1>1 DEF ReturnedQuiet
<1>2. CASE pc[t] = "scan" /\ done[scan[t]] /\ scan[t] = NumOfThreads - 1
  <2> SUFFICES ASSUME ~AllQuiet PROVE FALSE
    OBVIOUS
  <2>1. \A u \in Threads : u <= scan[t]
    BY <1>2, ThreadsAssumption DEF Threads
  <2>2. \A u \in Threads : done[u]
    BY <1>2, <2>1, ScanSound
  <2>3. created # 0
    BY ThreadsAssumption, <1>2 DEF Control, Flow, Started, Threads
  <2> QED
    BY <2>2, <2>3 DEF SomeoneActive, Active, Concluding
<1> QED
  BY <1>1, <1>2, ScanNext DEF ThreadsDo

-----------------------------------------------------------------------------
LEMMA IInvInit == Init => IInv
<1> SUFFICES ASSUME Init PROVE IInv
  OBVIOUS
<1>1. Control
  BY ControlInit
<1> QED
  BY <1>1 DEF Init, IInv, SomeoneActive, Scanned, ReturnedQuiet

LEMMA IInvNext == IInv /\ [Next]_vars => IInv'
<1>1. IInv /\ Next => IInv'
  BY ControlNext, ActiveNext, ScannedStep, ReturnedStep DEF IInv
<1>2. IInv /\ UNCHANGED vars => IInv'
  BY ControlNext, ActiveNext, ScannedStep, ReturnedStep
     DEF IInv, Control, Flow, SomeoneActive, Active, Scanned, ReturnedQuiet, AllQuiet, Quiet,
         Started, Concluding, vars, queueVars, mainVars, threadVars
<1> QED
  BY <1>1, <1>2

LEMMA IInvSound == IInv => TerminationSound
<1> SUFFICES ASSUME Control, AllQuiet PROVE IsEmpty /\ \A t \in Threads : pc[t] \notin Busy /\ phase[t] # "removed"
  BY DEF IInv, ReturnedQuiet, TerminationSound
<1>1. \A t \in Threads : pc[t] \notin Busy /\ phase[t] \in {"idle", "deleteMin", "refused"}
  BY DEF Control, Flow, CallPhases, AllQuiet, Quiet, Busy
<1> QED
  BY <1>1 DEF IsEmpty, queue!Counted, AllQuiet

\* No thread of parallel_Dijkstra returns while an offer is in the queue, on its
\* way in or out, or in a thread's hands: for any number of threads, any graph
\* and any initial contents of done[] (ParallelDijkstra.cpp:21-28, 123-143).
THEOREM TerminationIsSound == Spec => []TerminationSound
<1>1. Spec => []IInv
  BY IInvInit, IInvNext, PTL DEF Spec
<1> QED
  BY <1>1, IInvSound, PTL
-----------------------------------------------------------------------------
\* No offer is lost.

Settles == {"compare", "update"}
Relaxing == {"relax", "compareOffer", "inserting"}

\* Some thread will still compare offer o with distances.
Pending(o) ==
  \/ o \in pool
  \/ \E t \in Threads : phase[t] \in queue!Owning /\ holds[t] = o
  \/ \E t \in Threads : pc[t] \in Settles /\ curr[t] = o

Covered(v, d) ==
  distances[v] <= d \/ \E o \in Offers : Pending(o) /\ Index[o.vertex] = v /\ o.dist = d

Hands(t) ==
  /\ phase[t] \in queue!Owning => holds[t] \in Offers
  /\ pc[t] \in Busy => curr[t] \in Offers
  /\ pc[t] \in Relaxing => edge[t] \in 1 .. Len(Neighbors[curr[t].vertex])

Data ==
  /\ distances \in [Vertices -> Nat]
  /\ distancesLocks \in [Vertices -> Threads \cup {NoThread}]
  /\ offers \in [Vertices -> Nat \cup {NULL}]
  /\ offersLocks \in [Vertices -> Threads \cup {NoThread}]

Pool ==
  /\ pool \subseteq Offers
  /\ holds \in [Threads -> Offers \cup {NULL}]
  /\ curr \in [Threads -> Offers \cup {NULL}]
  /\ edge \in [Threads -> Nat]

Typed == Data /\ Pool /\ \A t \in Threads : Hands(t)

Settling(t) ==
  pc[t] = "update" =>
    distancesLocks[CurrIndex(t)] = t /\ curr[t].dist < distances[CurrIndex(t)]

Offering(t) ==
  /\ pc[t] \in {"compareOffer", "inserting"} => offersLocks[RelaxIndex(t)] = t
  /\ pc[t] = "inserting" =>
       /\ offers[RelaxIndex(t)] # NULL => Alt(t) < offers[RelaxIndex(t)]
       /\ Covered(RelaxIndex(t), Alt(t))

Recorded == \A v \in Vertices : offers[v] # NULL => Covered(v, offers[v])

OInv ==
  /\ Control
  /\ Typed
  /\ Recorded
  /\ \A t \in Threads : Settling(t)
  /\ \A t \in Threads : Offering(t)
-----------------------------------------------------------------------------
\* Records, and what a thread at work holds.
LEMMA OfferFields ==
  ASSUME NEW o \in Offers
  PROVE  o.vertex \in Vertices /\ o.dist \in Nat /\ Index[o.vertex] \in Vertices /\ o # NULL
BY NullAssumption, GraphAssumption DEF Offers

LEMMA OfferMade ==
  ASSUME NEW v \in Vertices, NEW d \in Nat, NEW t \in Threads
  PROVE  /\ [vertex |-> v, dist |-> d, by |-> t] \in Offers
         /\ [vertex |-> v, dist |-> d, by |-> t].vertex = v
         /\ [vertex |-> v, dist |-> d, by |-> t].dist = d
BY DEF Offers

LEMMA SeqElement ==
  ASSUME NEW S, NEW s \in Seq(S), NEW i \in 1 .. Len(s)
  PROVE  s[i] \in S
OBVIOUS

LEMMA CurrTyped ==
  ASSUME Typed, NEW t \in Threads, pc[t] \in Busy
  PROVE  /\ curr[t] \in Offers /\ curr[t] # NULL
         /\ curr[t].vertex \in Vertices /\ curr[t].dist \in Nat /\ CurrIndex(t) \in Vertices
BY OfferFields DEF Typed, Hands, CurrIndex

LEMMA RelaxTyped ==
  ASSUME Typed, NEW t \in Threads, pc[t] \in Relaxing
  PROVE  Neighbor(t).to \in Vertices /\ RelaxIndex(t) \in Vertices /\ Alt(t) \in Nat
<1>1. curr[t].vertex \in Vertices /\ curr[t].dist \in Nat
  BY CurrTyped DEF Relaxing, Busy
<1>2. edge[t] \in 1 .. Len(Neighbors[curr[t].vertex])
  BY DEF Typed, Hands
<1>3. Neighbor(t) \in [to : Vertices, weight : Nat]
  <2> DEFINE S == [to : Vertices, weight : Nat]
  <2> HIDE DEF S
  <2>1. Neighbors[curr[t].vertex] \in Seq(S)
    BY <1>1, GraphAssumption DEF S
  <2>2. Neighbor(t) \in S
    BY <1>2, <2>1, SeqElement DEF Neighbor
  <2> QED
    BY <2>2 DEF S
<1>4. Neighbor(t).to \in Vertices /\ Neighbor(t).weight \in Nat
  BY <1>3
<1> QED
  BY <1>1, <1>4, GraphAssumption DEF RelaxIndex, Alt
-----------------------------------------------------------------------------
\* What NextNeighbor does to the thread that takes it.
LEMMA NeighborStep ==
  ASSUME Control, Typed, NEW t \in Threads, NEW from, NEW i \in Nat \ {0},
         pc[t] \in Busy, NextNeighbor(t, from, i)
  PROVE  /\ pc'[t] \in {"relax", "loop"}
         /\ curr' \in [Threads -> Offers \cup {NULL}] /\ edge' \in [Threads -> Nat]
         /\ \A u \in Threads \ {t} : pc'[u] = pc[u] /\ curr'[u] = curr[u] /\ edge'[u] = edge[u]
         /\ pc'[t] = "relax" =>
              curr'[t] \in Offers /\ edge'[t] \in 1 .. Len(Neighbors[curr'[t].vertex])
<1>1. curr[t] \in Offers
  BY CurrTyped
<1>2. curr \in [Threads -> Offers \cup {NULL}] /\ edge \in [Threads -> Nat] /\ pc \in [Threads -> PCs]
  BY DEF Typed, Pool, Control
<1>3. Len(Neighbors[curr[t].vertex]) \in Nat
  BY <1>1, OfferFields, GraphAssumption
<1>4. CASE i <= Len(Neighbors[curr[t].vertex])
  <2>1. pc'[t] = "relax" /\ edge' = [edge EXCEPT ![t] = i] /\ curr' = [curr EXCEPT ![t] = curr[t]]
    BY <1>2, <1>4 DEF NextNeighbor, Goto
  <2> QED
    BY <1>1, <1>2, <1>3, <1>4, <2>1 DEF NextNeighbor, Goto
<1>5. CASE ~(i <= Len(Neighbors[curr[t].vertex]))
  <2>1. pc'[t] = "loop" /\ edge' = [edge EXCEPT ![t] = 1] /\ curr' = [curr EXCEPT ![t] = NULL]
    BY <1>2, <1>5 DEF NextNeighbor, Goto
  <2> QED
    BY <1>2, <2>1 DEF NextNeighbor, Goto
<1> QED
  BY <1>4, <1>5
-----------------------------------------------------------------------------
\* What a step of thread t leaves alone.
Frame(t) ==
  /\ \A u \in Threads \ {t} : pc'[u] = pc[u] /\ curr'[u] = curr[u] /\ edge'[u] = edge[u]
  /\ \A u \in Threads \ {t} : phase'[u] = phase[u] /\ holds'[u] = holds[u]
  /\ \A v \in Vertices :
       /\ distancesLocks[v] # t => distances'[v] = distances[v]
       /\ distancesLocks[v] \notin {NoThread, t} => distancesLocks'[v] = distancesLocks[v]
       /\ offersLocks[v] # t => offers'[v] = offers[v]
       /\ offersLocks[v] \notin {NoThread, t} => offersLocks'[v] = offersLocks[v]

LEMMA FrameQueue ==
  ASSUME Control, Typed, NEW t \in Threads, QueueStep(t)
  PROVE  Frame(t)
BY DEF Frame, Control, Typed, Pool, QueueStep, queue!Announce, queue!Put, queue!Take,
       queue!Discount, queue!Refuse, queue!Goto, dataVars, mainVars, threadVars

LEMMA FrameThread ==
  ASSUME OInv, NEW t \in Threads, ThreadStep(t)
  PROVE  Frame(t)
<1> USE DEF OInv, Frame, Typed, Data, Pool, Control, Goto, queueVars, dataVars, mainVars
<1>1. CASE LoopEmpty(t) \/ LoopSpin(t) \/ MarkDone(t) \/ FinishedWork(t)
  BY <1>1 DEF LoopEmpty, LoopSpin, MarkDone, FinishedWork
<1>2. CASE LoopDelete(t)
  BY <1>2 DEF LoopDelete, queue!DeleteCall, queue!Goto
<1>3. CASE GotNothing(t) \/ GotMin(t)
  BY <1>3 DEF GotNothing, GotMin, queue!Return, queue!Goto
<1>4. CASE Improves(t)
  BY <1>4 DEF Improves
<1>5. CASE Stale(t)
  BY <1>5 DEF Stale
<1>6. CASE Update(t)
  BY <1>6 DEF Update, NextNeighbor, Settling
<1>7. CASE LockOffer(t)
  BY <1>7 DEF LockOffer
<1>8. CASE RelaxInsert(t)
  BY <1>8 DEF RelaxInsert, queue!InsertCall, queue!Goto
<1>9. CASE RelaxNothing(t)
  BY <1>9 DEF RelaxNothing, NextNeighbor, Offering
<1>10. CASE RelaxInserted(t)
  BY <1>10 DEF RelaxInserted, NextNeighbor, Offering, queue!Return, queue!Goto
<1> QED
  BY <1>1, <1>2, <1>3, <1>4, <1>5, <1>6, <1>7, <1>8, <1>9, <1>10 DEF ThreadStep
-----------------------------------------------------------------------------
\* Types
LEMMA OthersHands ==
  ASSUME Typed, NEW t \in Threads, Frame(t), NEW u \in Threads \ {t}
  PROVE  Hands(u)'
BY DEF Typed, Frame, Hands

LEMMA TypedMain == OInv /\ MainStep => Typed'
<1> SUFFICES ASSUME OInv, MainStep PROVE Typed'
  OBVIOUS
<1> USE DEF OInv, Typed, Data, Pool, Control, queueVars, dataVars, threadVars
<1>1. CASE MainInsert
  <2>1. [vertex |-> Source, dist |-> 0, by |-> 0] \in Offers
    BY GraphAssumption, ThreadsAssumption DEF Offers, Threads
  <2>2. Pool' /\ Data'
    BY <1>1, <2>1 DEF MainInsert, queue!InsertCall
  <2>3. \A t \in Threads : Hands(t)'
    BY <1>1, <2>1 DEF MainInsert, queue!InsertCall, queue!Goto, Hands
  <2> QED
    BY <2>2, <2>3
<1>2. CASE MainInserted
  <2>1. \A t \in Threads : Hands(t)'
    BY <1>2 DEF MainInserted, queue!Return, queue!Goto, queue!Owning, Hands
  <2> QED
    BY <1>2, <2>1 DEF MainInserted, queue!Return
<1>3. CASE Create \/ Join
  BY <1>3 DEF Create, Join, Hands, Busy, Relaxing
<1> QED
  BY <1>1, <1>2, <1>3 DEF MainStep

LEMMA TypedQueue ==
  ASSUME OInv, NEW t \in Threads, QueueStep(t)
  PROVE  Typed'
<1>1. \A u \in Threads \ {t} : Hands(u)'
  BY FrameQueue, OthersHands DEF OInv
<1>2. Data' /\ Pool'
  BY DEF OInv, Typed, Data, Pool, Hands, Control, QueueStep, queue!Announce, queue!Put, queue!Take,
         queue!Discount, queue!Refuse, queue!Goto, queue!Owning, dataVars, threadVars
<1>3. Hands(t)'
  BY DEF OInv, Typed, Data, Pool, Hands, Control, QueueStep, queue!Announce, queue!Put, queue!Take,
         queue!Discount, queue!Refuse, queue!Goto, queue!Owning, dataVars, threadVars
<1> QED
  BY <1>1, <1>2, <1>3 DEF Typed

LEMMA TypedThread ==
  ASSUME OInv, NEW t \in Threads, ThreadStep(t)
  PROVE  Typed'
<1>1. \A u \in Threads \ {t} : Hands(u)'
  BY FrameThread, OthersHands DEF OInv
<1> SUFFICES Data' /\ Pool' /\ Hands(t)'
  BY <1>1 DEF Typed
<1> USE DEF OInv, Typed, Data, Pool, Hands, Control, Goto, Busy, Relaxing, queueVars, dataVars, mainVars
<1>2. CASE LoopEmpty(t) \/ LoopSpin(t) \/ MarkDone(t)
  BY <1>2 DEF LoopEmpty, LoopSpin, MarkDone
<1>3. CASE FinishedWork(t)
  BY <1>3 DEF FinishedWork
<1>4. CASE LoopDelete(t)
  BY <1>4 DEF LoopDelete, queue!DeleteCall, queue!Goto, queue!Owning
<1>5. CASE GotNothing(t)
  BY <1>5 DEF GotNothing, queue!Return, queue!Goto, queue!Owning
<1>6. CASE GotMin(t)
  BY <1>6 DEF GotMin, queue!Return, queue!Goto, queue!Owning
<1>7. CASE Improves(t)
  <2>1. Pool' /\ Hands(t)'
    BY <1>7 DEF Improves
  <2>2. Data'
    BY <1>7 DEF Improves
  <2> QED
    BY <2>1, <2>2
<1>8. CASE Stale(t)
  BY <1>8 DEF Stale
<1>9. CASE Update(t)
  <2>1. Pool' /\ Hands(t)'
    BY <1>9, NeighborStep DEF Update, NextNeighbor
  <2>2. Data'
    BY <1>9, CurrTyped DEF Update, NextNeighbor
  <2> QED
    BY <2>1, <2>2
<1>10. CASE LockOffer(t)
  BY <1>10 DEF LockOffer
<1>11. CASE RelaxInsert(t)
  <2>1. pc[t] = "compareOffer" /\ pc'[t] = "inserting"
    BY <1>11 DEF RelaxInsert
  <2>2. [vertex |-> Neighbor(t).to, dist |-> Alt(t), by |-> t] \in Offers
    BY <2>1, RelaxTyped, OfferMade
  <2> QED
    BY <1>11, <2>1, <2>2 DEF RelaxInsert, queue!InsertCall, queue!Goto
<1>12. CASE RelaxNothing(t)
  <2>1. pc[t] \in Busy /\ edge[t] + 1 \in Nat \ {0}
    BY <1>12 DEF RelaxNothing, NextNeighbor
  <2>2. Pool' /\ Hands(t)'
    BY <1>12, <2>1, NeighborStep DEF RelaxNothing
  <2>3. Data'
    BY <1>12 DEF RelaxNothing, NextNeighbor
  <2> QED
    BY <2>2, <2>3
<1>13. CASE RelaxInserted(t)
  <2>1. pc[t] \in Busy /\ edge[t] + 1 \in Nat \ {0} /\ pc[t] \in Relaxing
    BY <1>13 DEF RelaxInserted, NextNeighbor
  <2>2. Pool' /\ Hands(t)'
    BY <1>13, <2>1, NeighborStep DEF RelaxInserted, queue!Return, queue!Goto, queue!Owning
  <2>3. Data'
    BY <1>13, <2>1, RelaxTyped DEF RelaxInserted, NextNeighbor
  <2> QED
    BY <2>2, <2>3
<1> QED
  BY <1>2, <1>3, <1>4, <1>5, <1>6, <1>7, <1>8, <1>9, <1>10, <1>11, <1>12, <1>13 DEF ThreadStep

-----------------------------------------------------------------------------
\* No distance grows, and a pending offer is given up only for a distance as
\* good.
Keeps ==
  /\ \A v \in Vertices : distances'[v] <= distances[v]
  /\ \A o \in Offers : Pending(o) => Pending(o)' \/ distances'[Index[o.vertex]] <= o.dist

LEMMA StaysCovered ==
  ASSUME Typed, Typed', Keeps, NEW v \in Vertices, NEW d \in Nat, Covered(v, d)
  PROVE  Covered(v, d)'
<1>1. distances[v] \in Nat /\ distances'[v] \in Nat
  BY DEF Typed, Data
<1>2. CASE distances[v] <= d
  BY <1>1, <1>2 DEF Keeps, Covered
<1>3. CASE \E o \in Offers : Pending(o) /\ Index[o.vertex] = v /\ o.dist = d
  BY <1>3 DEF Keeps, Covered
<1> QED
  BY <1>2, <1>3 DEF Covered

LEMMA KeepsMain == OInv /\ MainStep => Keeps
<1> SUFFICES ASSUME OInv, MainStep PROVE Keeps
  OBVIOUS
<1>1. distances' = distances /\ \A v \in Vertices : distances[v] \in Nat
  BY DEF OInv, Typed, Data, MainStep, MainInsert, MainInserted, Create, Join, dataVars
<1> SUFFICES ASSUME NEW o \in Offers, Pending(o) PROVE Pending(o)'
  BY <1>1 DEF Keeps
<1> USE DEF OInv, Control, Flow, Pending, queueVars, threadVars
<1>2. CASE MainInsert
  BY <1>2 DEF MainInsert, queue!InsertCall, queue!Goto, queue!Owning, Typed, Pool
<1>3. CASE MainInserted
  BY <1>3 DEF MainInserted, queue!Return, queue!Goto, queue!Owning, Typed, Pool
<1>4. CASE Create
  BY <1>4 DEF Create, Settles, Started
<1>5. CASE Join
  BY <1>5 DEF Join
<1> QED
  BY <1>2, <1>3, <1>4, <1>5 DEF MainStep

LEMMA KeepsQueue ==
  ASSUME OInv, NEW t \in Threads, QueueStep(t)
  PROVE  Keeps
<1>1. distances' = distances /\ \A v \in Vertices : distances[v] \in Nat
  BY DEF OInv, Typed, Data, QueueStep, dataVars
<1> SUFFICES ASSUME NEW o \in Offers, Pending(o) PROVE Pending(o)'
  BY <1>1 DEF Keeps
<1> USE DEF OInv, Typed, Pool, Control, Pending, queue!Goto, queue!Owning, threadVars, QueueStep
<1>2. CASE queue!Announce(t)
  BY <1>2 DEF queue!Announce
<1>3. CASE queue!Put(t)
  BY <1>3 DEF queue!Put
<1>4. CASE queue!Take(t)
  BY <1>4 DEF queue!Take
<1>5. CASE queue!Discount(t)
  BY <1>5 DEF queue!Discount
<1>6. CASE queue!Refuse(t)
  BY <1>6 DEF queue!Refuse
<1> QED
  BY <1>2, <1>3, <1>4, <1>5, <1>6

LEMMA KeepsThread ==
  ASSUME OInv, NEW t \in Threads, ThreadStep(t)
  PROVE  Keeps
<1> USE DEF OInv, Goto, queueVars, dataVars, mainVars
<1>1. \A v \in Vertices : distances[v] \in Nat
  BY DEF Typed, Data
<1>2. ASSUME distances' = distances, \A o \in Offers : Pending(o) => Pending(o)'
      PROVE  Keeps
  BY <1>1, <1>2 DEF Keeps
<1>3. CASE LoopEmpty(t) \/ LoopSpin(t) \/ MarkDone(t) \/ FinishedWork(t)
  BY <1>2, <1>3 DEF LoopEmpty, LoopSpin, MarkDone, FinishedWork, Pending, Settles, Control
<1>4. CASE LoopDelete(t)
  BY <1>2, <1>4 DEF LoopDelete, queue!DeleteCall, queue!Goto, Pending, Settles, Control, queue!Owning
<1>5. CASE GotNothing(t)
  BY <1>2, <1>5 DEF GotNothing, queue!Return, queue!Goto, Pending, Settles, Control, queue!Owning, Typed, Pool
<1>6. CASE GotMin(t)
  BY <1>2, <1>6 DEF GotMin, queue!Return, queue!Goto, Pending, Settles, Control, queue!Owning, Typed, Pool
<1>7. CASE Improves(t) \/ LockOffer(t)
  BY <1>2, <1>7 DEF Improves, LockOffer, Pending, Settles, Control
<1>8. CASE Stale(t)
  <2>1. distances' = distances /\ distances[CurrIndex(t)] <= curr[t].dist
    BY <1>1, <1>8, CurrTyped DEF Stale, Busy
  <2>2. \A o \in Offers : o # curr[t] /\ Pending(o) => Pending(o)'
    BY <1>8 DEF Stale, Pending, Settles, Control, Typed, Pool
  <2> QED
    BY <1>1, <2>1, <2>2 DEF Keeps, CurrIndex
<1>9. CASE Update(t)
  <2>1. /\ curr[t].dist \in Nat /\ CurrIndex(t) \in Vertices
        /\ curr[t].dist < distances[CurrIndex(t)]
    BY <1>9, CurrTyped DEF Update, NextNeighbor, Busy, Settling
  <2>2. distances' = [distances EXCEPT ![CurrIndex(t)] = curr[t].dist]
    BY <1>9 DEF Update
  <2>3. \A v \in Vertices : distances'[v] <= distances[v]
    BY <1>1, <2>1, <2>2 DEF Typed, Data
  <2>4. distances'[CurrIndex(t)] <= curr[t].dist
    BY <2>1, <2>2 DEF Typed, Data
  <2>5. \A o \in Offers : o # curr[t] /\ Pending(o) => Pending(o)'
    BY <1>9 DEF Update, NextNeighbor, Pending, Settles, Control, Typed, Pool
  <2> QED
    BY <2>3, <2>4, <2>5 DEF Keeps, CurrIndex
<1>10. CASE RelaxInsert(t)
  BY <1>2, <1>10 DEF RelaxInsert, queue!InsertCall, queue!Goto, Pending, Settles, Control, queue!Owning, Typed, Pool
<1>11. CASE RelaxNothing(t)
  BY <1>2, <1>11 DEF RelaxNothing, NextNeighbor, Pending, Settles, Control, Typed, Pool
<1>12. CASE RelaxInserted(t)
  <2>1. phase[t] = "inserted"
    <3>1. phase[t] \in {"insert", "put", "inserted"}
      BY <1>12, ThreadsAssumption
         DEF RelaxInserted, NextNeighbor, Control, Flow, CallPhases, Started, Threads
    <3> QED
      BY <1>12, <3>1 DEF RelaxInserted, queue!Return, queue!Goto
  <2> QED
    BY <1>2, <1>12, <2>1 DEF RelaxInserted, NextNeighbor, queue!Return, queue!Goto, queue!Owning,
                             Pending, Settles, Control, Typed, Pool
<1> QED
  BY <1>3, <1>4, <1>5, <1>6, <1>7, <1>8, <1>9, <1>10, <1>11, <1>12 DEF ThreadStep
-----------------------------------------------------------------------------
\* The steps of a thread leave what the others have locked, and what they hold.
LEMMA OthersSettling ==
  ASSUME OInv, NEW t \in Threads, Frame(t), NEW u \in Threads \ {t}
  PROVE  Settling(u)'
<1> SUFFICES ASSUME pc'[u] = "update"
             PROVE  distancesLocks'[CurrIndex(u)'] = u /\ curr'[u].dist < distances'[CurrIndex(u)']
  BY DEF Settling
<1>1. pc[u] = "update" /\ curr'[u] = curr[u] /\ CurrIndex(u)' = CurrIndex(u)
  BY DEF Frame, CurrIndex
<1>2. CurrIndex(u) \in Vertices
  BY <1>1, CurrTyped DEF OInv, Busy
<1>3. distancesLocks[CurrIndex(u)] = u /\ curr[u].dist < distances[CurrIndex(u)]
  BY <1>1 DEF OInv, Settling
<1>4. u \notin {NoThread, t}
  BY ThreadsAssumption DEF Threads, NoThread
<1> QED
  BY <1>1, <1>2, <1>3, <1>4 DEF Frame

LEMMA OthersOffering ==
  ASSUME OInv, Typed', Keeps, NEW t \in Threads, Frame(t), NEW u \in Threads \ {t}
  PROVE  Offering(u)'
<1> SUFFICES ASSUME pc'[u] \in {"compareOffer", "inserting"} PROVE Offering(u)'
  BY DEF Offering
<1>1. /\ pc'[u] = pc[u] /\ RelaxIndex(u)' = RelaxIndex(u) /\ Alt(u)' = Alt(u)
      /\ RelaxIndex(u) \in Vertices /\ Alt(u) \in Nat
  BY RelaxTyped DEF Frame, RelaxIndex, Alt, Neighbor, OInv, Relaxing
<1>2. offersLocks[RelaxIndex(u)] = u
  BY <1>1 DEF OInv, Offering
<1>3. u \notin {NoThread, t}
  BY ThreadsAssumption DEF Threads, NoThread
<1>4. /\ offersLocks'[RelaxIndex(u)] = u
      /\ offers'[RelaxIndex(u)] = offers[RelaxIndex(u)]
  BY <1>1, <1>2, <1>3 DEF Frame
<1>5. ASSUME pc[u] = "inserting"
      PROVE  /\ offers[RelaxIndex(u)] # NULL => Alt(u) < offers[RelaxIndex(u)]
             /\ Covered(RelaxIndex(u), Alt(u))'
  BY <1>1, <1>5, StaysCovered DEF OInv, Offering
<1> QED
  BY <1>1, <1>4, <1>5 DEF Offering

\* The thread that steps: what it locks it finds as good as it knew.
LEMMA OwnSettling ==
  ASSUME OInv, NEW t \in Threads, ThreadStep(t)
  PROVE  Settling(t)'
<1> SUFFICES ASSUME pc'[t] = "update" PROVE Settling(t)'
  BY DEF Settling
<1>1. Improves(t)
  BY DEF ThreadStep, LoopEmpty, LoopDelete, LoopSpin, GotNothing, MarkDone, FinishedWork, GotMin,
         Stale, Update, LockOffer, RelaxInsert, RelaxNothing, RelaxInserted, NextNeighbor, Goto,
         OInv, Control
<1>2. CurrIndex(t) \in Vertices /\ CurrIndex(t)' = CurrIndex(t)
  BY <1>1, CurrTyped DEF Improves, Goto, OInv, Busy, CurrIndex
<1> QED
  BY <1>1, <1>2 DEF Improves, Settling, OInv, Typed, Data

LEMMA OwnOffering ==
  ASSUME OInv, Typed', Keeps, NEW t \in Threads, ThreadStep(t)
  PROVE  Offering(t)'
<1> SUFFICES ASSUME pc'[t] \in {"compareOffer", "inserting"} PROVE Offering(t)'
  BY DEF Offering
<1>1. LockOffer(t) \/ RelaxInsert(t)
  BY DEF ThreadStep, LoopEmpty, LoopDelete, LoopSpin, GotNothing, MarkDone, FinishedWork, GotMin,
         Improves, Stale, Update, RelaxNothing, RelaxInserted, NextNeighbor, Goto, OInv, Control
<1>2. /\ pc[t] \in Relaxing /\ Neighbor(t).to \in Vertices
      /\ RelaxIndex(t) \in Vertices /\ Alt(t) \in Nat
      /\ RelaxIndex(t)' = RelaxIndex(t) /\ Alt(t)' = Alt(t)
  BY <1>1, RelaxTyped DEF LockOffer, RelaxInsert, Goto, Relaxing, OInv, RelaxIndex, Alt, Neighbor
<1>3. CASE LockOffer(t)
  BY <1>2, <1>3 DEF LockOffer, Goto, Offering, OInv, Typed, Data, Control
<1>4. CASE RelaxInsert(t)
  <2> DEFINE r == [vertex |-> Neighbor(t).to, dist |-> Alt(t), by |-> t]
  <2>0. r \in Offers /\ r.vertex = Neighbor(t).to /\ r.dist = Alt(t)
    BY <1>2, OfferMade
  <2>1. PICK o \in Offers : o = r /\ o.vertex = Neighbor(t).to /\ o.dist = Alt(t)
    <3> HIDE DEF r
    <3> QED
      BY <2>0
  <2>2. phase'[t] = "insert" /\ holds'[t] = o
    BY <1>4, <2>1 DEF RelaxInsert, queue!InsertCall, queue!Goto, OInv, Control, Typed, Pool
  <2>3. Pending(o)'
    BY <2>2 DEF Pending, queue!Owning
  <2>4. Covered(RelaxIndex(t), Alt(t))'
    <3>1. Index[o.vertex] = RelaxIndex(t)' /\ o.dist = Alt(t)'
      BY <1>2, <2>1 DEF RelaxIndex
    <3> QED
      BY <2>3, <3>1 DEF Covered
  <2>5. /\ offersLocks' = offersLocks /\ offers' = offers
        /\ offers[RelaxIndex(t)] # NULL => Alt(t) < offers[RelaxIndex(t)]
        /\ offersLocks[RelaxIndex(t)] = t
    BY <1>4 DEF RelaxInsert, Goto, dataVars, Better, OInv, Offering
  <2> QED
    BY <1>2, <2>4, <2>5 DEF Offering
<1> QED
  BY <1>1, <1>3, <1>4
-----------------------------------------------------------------------------
\* What is recorded only improves, and is covered when it is recorded.
OffersImprove ==
  \A v \in Vertices : offers[v] # NULL => offers'[v] # NULL /\ offers'[v] <= offers[v]

LEMMA RecordStep ==
  ASSUME OInv, Typed', Keeps, NEW t \in Threads, RelaxInserted(t)
  PROVE  Recorded' /\ OffersImprove
<1>1. /\ RelaxIndex(t) \in Vertices /\ Alt(t) \in Nat
      /\ offers[RelaxIndex(t)] # NULL => Alt(t) < offers[RelaxIndex(t)]
      /\ Covered(RelaxIndex(t), Alt(t))
  BY RelaxTyped DEF RelaxInserted, NextNeighbor, Goto, Relaxing, OInv, Offering
<1>2. offers' = [offers EXCEPT ![RelaxIndex(t)] = Alt(t)]
  BY DEF RelaxInserted
<1>3. offers \in [Vertices -> Nat \cup {NULL}]
  BY DEF OInv, Typed, Data
<1>4. OffersImprove
  BY <1>1, <1>2, <1>3, NullAssumption DEF OffersImprove
<1>5. ASSUME NEW v \in Vertices, offers'[v] # NULL
      PROVE  Covered(v, offers[v])'
  <2>1. PICK d \in Nat : d = offers'[v]
    BY <1>5 DEF Typed, Data
  <2>2. Covered(v, d)
    BY <1>1, <1>2, <1>3, <1>5, <2>1 DEF OInv, Recorded
  <2> QED
    BY <2>1, <2>2, StaysCovered DEF OInv
<1> QED
  BY <1>4, <1>5 DEF Recorded

LEMMA RecordedSame ==
  ASSUME OInv, Typed', Keeps, offers' = offers
  PROVE  Recorded' /\ OffersImprove
<1>1. offers \in [Vertices -> Nat \cup {NULL}]
  BY DEF OInv, Typed, Data
<1>2. ASSUME NEW v \in Vertices, offers[v] # NULL PROVE Covered(v, offers[v])'
  <2>1. PICK d \in Nat : d = offers[v]
    BY <1>1, <1>2
  <2> QED
    BY <1>2, <2>1, StaysCovered DEF OInv, Recorded
<1> QED
  BY <1>1, <1>2 DEF Recorded, OffersImprove
-----------------------------------------------------------------------------
\* The invariant is inductive.
LEMMA OInvInit == Init => OInv
<1> SUFFICES ASSUME Init PROVE OInv
  OBVIOUS
<1>1. Control
  BY ControlInit
<1>2. Typed
  BY GraphAssumption
     DEF Init, Typed, Data, Pool, Hands, queue!PoolInit, queue!Owning, Busy, Relaxing
<1>3. Recorded /\ \A t \in Threads : Settling(t) /\ Offering(t)
  BY DEF Init, Recorded, Settling, Offering
<1> QED
  BY <1>1, <1>2, <1>3 DEF OInv

LEMMA OInvMain == OInv /\ MainStep => OInv' /\ Keeps /\ OffersImprove
<1> SUFFICES ASSUME OInv, MainStep PROVE OInv' /\ Keeps /\ OffersImprove
  OBVIOUS
<1>1. Control' /\ Typed' /\ Keeps
  BY ControlMain, TypedMain, KeepsMain DEF OInv
<1>2. /\ UNCHANGED <<distances, distancesLocks, offers, offersLocks, curr, edge>>
      /\ \A t \in Threads : pc'[t] \in Busy => pc'[t] = pc[t]
  BY DEF MainStep, MainInsert, MainInserted, Create, Join, dataVars, threadVars, OInv, Control, Busy
<1>3. \A t \in Threads : Settling(t)'
  BY <1>2 DEF OInv, Settling, CurrIndex, Busy
<1>4. ASSUME NEW t \in Threads PROVE Offering(t)'
  <2> SUFFICES ASSUME pc'[t] \in {"compareOffer", "inserting"} PROVE Offering(t)'
    BY DEF Offering
  <2>1. /\ pc'[t] = pc[t] /\ RelaxIndex(t)' = RelaxIndex(t) /\ Alt(t)' = Alt(t)
        /\ RelaxIndex(t) \in Vertices /\ Alt(t) \in Nat
    BY <1>2, RelaxTyped DEF OInv, RelaxIndex, Alt, Neighbor, Busy, Relaxing
  <2>2. pc[t] = "inserting" => Covered(RelaxIndex(t), Alt(t))'
    BY <1>1, <2>1, StaysCovered DEF OInv, Offering
  <2> QED
    BY <1>2, <2>1, <2>2 DEF OInv, Offering
<1> QED
  BY <1>1, <1>2, <1>3, <1>4, RecordedSame DEF OInv

LEMMA OInvThreads ==
  ASSUME OInv, NEW t \in Threads, QueueStep(t) \/ ThreadStep(t)
  PROVE  OInv' /\ Keeps /\ OffersImprove
<1>1. Control' /\ Typed' /\ Keeps /\ Frame(t)
  BY ControlQueue, ControlThread, TypedQueue, TypedThread, KeepsQueue, KeepsThread,
     FrameQueue, FrameThread DEF OInv
<1>2. \A u \in Threads \ {t} : Settling(u)' /\ Offering(u)'
  BY <1>1, OthersSettling, OthersOffering
<1>3. CASE ThreadStep(t)
  <2>1. Settling(t)' /\ Offering(t)'
    BY <1>1, <1>3, OwnSettling, OwnOffering
  <2>2. RelaxInserted(t) \/ offers' = offers
    BY <1>3 DEF ThreadStep, LoopEmpty, LoopDelete, LoopSpin, GotNothing, MarkDone, FinishedWork,
           GotMin, Improves, Stale, Update, LockOffer, RelaxInsert, RelaxNothing, dataVars
  <2>3. Recorded' /\ OffersImprove
    BY <1>1, <2>2, RecordStep, RecordedSame
  <2> QED
    BY <1>1, <1>2, <2>1, <2>3 DEF OInv
<1>4. CASE QueueStep(t)
  <2>1. UNCHANGED <<distances, distancesLocks, offers, offersLocks, pc, curr, edge>>
    BY <1>4 DEF QueueStep, dataVars, threadVars
  <2>2. Settling(t)'
    BY <2>1 DEF OInv, Settling, CurrIndex
  <2>3. Offering(t)'
    <3> SUFFICES ASSUME pc'[t] \in {"compareOffer", "inserting"} PROVE Offering(t)'
      BY DEF Offering
    <3>1. /\ RelaxIndex(t)' = RelaxIndex(t) /\ Alt(t)' = Alt(t)
          /\ RelaxIndex(t) \in Vertices /\ Alt(t) \in Nat
      BY <2>1, RelaxTyped DEF OInv, RelaxIndex, Alt, Neighbor, Relaxing
    <3>2. pc[t] = "inserting" => Covered(RelaxIndex(t), Alt(t))'
      BY <1>1, <3>1, StaysCovered DEF OInv, Offering
    <3> QED
      BY <2>1, <3>1, <3>2 DEF OInv, Offering
  <2> QED
    BY <1>1, <1>2, <2>1, <2>2, <2>3, RecordedSame DEF OInv
<1> QED
  BY <1>3, <1>4

LEMMA OInvNext == OInv /\ [Next]_vars => OInv' /\ Keeps /\ OffersImprove
<1> SUFFICES ASSUME OInv, [Next]_vars PROVE OInv' /\ Keeps /\ OffersImprove
  OBVIOUS
<1>1. CASE MainStep
  BY <1>1, OInvMain
<1>2. CASE \E t \in Threads : QueueStep(t) \/ ThreadStep(t)
  BY <1>2, OInvThreads
<1>3. CASE UNCHANGED vars
  <2> USE <1>3 DEF vars, queueVars, dataVars, mainVars, threadVars
  <2>1. Control'
    BY DEF OInv, Control, Flow, Started
  <2>2. Typed'
    BY DEF OInv, Typed, Data, Pool, Hands
  <2>3. Keeps /\ OffersImprove
    BY DEF OInv, Typed, Data, Keeps, OffersImprove, Pending
  <2>4. Recorded'
    BY DEF OInv, Recorded, Covered, Pending
  <2>5. \A t \in Threads : Settling(t)' /\ Offering(t)'
    BY ZenonT(30) DEF OInv, Settling, Offering, CurrIndex, RelaxIndex, Alt, Neighbor, Covered, Pending
  <2> QED
    BY <2>1, <2>2, <2>3, <2>4, <2>5 DEF OInv
<1> QED
  BY <1>1, <1>2, <1>3 DEF Next, Ended

LEMMA OInvAlways == Spec => []OInv
BY OInvInit, OInvNext, PTL DEF Spec
-----------------------------------------------------------------------------
\* Every variable of the program keeps its type: a step of parallel_Dijkstra
\* never reads a curr_v, an edge or an offer that is not there
\* (ParallelDijkstra.cpp:123-168).
THEOREM DijkstraTypes == Spec => []TypeOK
<1>1. OInv => TypeOK
  BY DEF OInv, Typed, Data, Pool, Control, TypeOK, queue!PoolTypeOK, Threads
<1> QED
  BY <1>1, OInvAlways, PTL

\* An offer recorded in offers[v] that would still improve distances[v] is in
\* the queue or in the hands of a thread that will settle it: relax may skip an
\* edge because of it (ParallelDijkstra.cpp:40-64), for any number of threads
\* and any graph.
THEOREM NoOfferIsLost == Spec => []NoOfferLost
<1>1. OInv => NoOfferLost
  <2> SUFFICES ASSUME OInv, NEW v \in Vertices, offers[v] # NULL, offers[v] < distances[v]
               PROVE  \E o \in pool \cup {holds[t] : t \in Threads} \cup {curr[t] : t \in Threads} :
                        o # NULL /\ Index[o.vertex] = v /\ o.dist = offers[v]
    BY DEF NoOfferLost
  <2>1. distances[v] \in Nat /\ offers[v] \in Nat
    BY DEF OInv, Typed, Data
  <2>2. PICK o \in Offers : Pending(o) /\ Index[o.vertex] = v /\ o.dist = offers[v]
    BY <2>1 DEF OInv, Recorded, Covered
  <2>3. o # NULL
    BY OfferFields
  <2>4. o \in pool \cup {holds[t] : t \in Threads} \cup {curr[t] : t \in Threads}
    BY <2>2 DEF Pending
  <2> QED
    BY <2>2, <2>3, <2>4
<1> QED
  BY <1>1, OInvAlways, PTL

\* However many threads hold offers for a vertex, neither its distance nor its
\* recorded offer ever gets worse (ParallelDijkstra.cpp:40-64, 150-157).
THEOREM DistancesOnlyImprove == Spec => OnlyImproves
<1>1. OInv /\ [Next]_vars =>
        [\A v \in Vertices :
           /\ distances'[v] <= distances[v]
           /\ offers[v] # NULL => offers'[v] # NULL /\ offers'[v] <= offers[v]]_vars
  BY OInvNext DEF Keeps, OffersImprove
<1> QED
  BY <1>1, OInvAlways, PTL DEF Spec, OnlyImproves
-----------------------------------------------------------------------------
\* The result

\* The vertices main() built from edge lines, the source among them.
IndexedGraph ==
  /\ Index[Source] = Source
  /\ \A v \in Vertices : \A i \in 1 .. Len(Neighbors[v]) :
       Index[Neighbors[v][i].to] = Neighbors[v][i].to

\* Offer o is pending, or a thread is exploring its vertex because of it.
Carried(o) == Pending(o) \/ \E t \in Threads : pc[t] \in Relaxing /\ curr[t] = o

\* What a new offer can be.
Born(o) ==
  \/ o.vertex = Source /\ o.dist = 0
  \/ \E t \in Threads :
       /\ pc[t] \in Relaxing /\ Alt(t) < distances[RelaxIndex(t)]
       /\ o.vertex = Neighbor(t).to /\ o.dist = Alt(t)

Indexed == \A o \in Offers : Carried(o) => Index[o.vertex] = o.vertex

Below(p) ==
  /\ \A v \in Vertices : p[v] <= distances[v]
  /\ \A o \in Offers : Carried(o) => p[o.vertex] <= o.dist

Bounded(v, d) == \E e \in 0 .. d : Covered(v, e)

\* Thread t has still to relax edge i of v with v's distance d.
Exploring(t, v, d, i) ==
  pc[t] \in Relaxing /\ curr[t].vertex = v /\ curr[t].dist = d /\ edge[t] <= i

ExploredEdge(v, d, i) ==
  \/ Bounded(Neighbors[v][i].to, d + Neighbors[v][i].weight)
  \/ \E t \in Threads : Exploring(t, v, d, i)

Explored ==
  \A v \in Vertices : distances[v] < INT_MAX =>
    \A i \in 1 .. Len(Neighbors[v]) : ExploredEdge(v, distances[v], i)

SourceCovered == main = "insert" \/ Covered(Source, 0)

Over == main = "joined" => AllQuiet

RInv ==
  /\ IInv /\ OInv
  /\ Indexed /\ Explored /\ SourceCovered /\ Over
  /\ \A v \in Vertices : distances[v] <= INT_MAX
-----------------------------------------------------------------------------
\* Offers come from the source or from an edge being relaxed.
LEMMA CarriedQueue ==
  ASSUME OInv, NEW t \in Threads, QueueStep(t), NEW o \in Offers, Carried(o)'
  PROVE  Carried(o)
<1> USE DEF OInv, Typed, Pool, Control, Carried, Pending, queue!Goto, queue!Owning, threadVars, QueueStep
<1>1. CASE queue!Announce(t)
  BY <1>1 DEF queue!Announce
<1>2. CASE queue!Put(t)
  BY <1>2 DEF queue!Put
<1>3. CASE queue!Take(t)
  BY <1>3 DEF queue!Take
<1>4. CASE queue!Discount(t)
  BY <1>4 DEF queue!Discount
<1>5. CASE queue!Refuse(t)
  BY <1>5 DEF queue!Refuse
<1> QED
  BY <1>1, <1>2, <1>3, <1>4, <1>5

LEMMA CarriedMain ==
  ASSUME OInv, MainStep, NEW o \in Offers, Carried(o)'
  PROVE  Carried(o) \/ Born(o)
<1> USE DEF OInv, Control, Flow, Carried, Pending, queueVars, threadVars
<1>1. CASE MainInsert
  <2> DEFINE r == [vertex |-> Source, dist |-> 0, by |-> 0]
  <2>1. r.vertex = Source /\ r.dist = 0
    OBVIOUS
  <2>2. holds' = [holds EXCEPT ![0] = r] /\ phase' = [phase EXCEPT ![0] = "insert"]
    BY <1>1 DEF MainInsert, queue!InsertCall, queue!Goto
  <2> HIDE DEF r
  <2>3. Carried(o) \/ o = r
    BY <1>1, <2>2 DEF MainInsert, queue!InsertCall, queue!Goto, queue!Owning, Typed, Pool
  <2> QED
    BY <2>1, <2>3 DEF Born
<1>2. CASE MainInserted
  BY <1>2 DEF MainInserted, queue!Return, queue!Goto, queue!Owning, Typed, Pool
<1>3. CASE Create
  BY <1>3 DEF Create, Settles, Relaxing, Started
<1>4. CASE Join
  BY <1>4 DEF Join
<1> QED
  BY <1>1, <1>2, <1>3, <1>4 DEF MainStep

LEMMA CarriedThread ==
  ASSUME OInv, NEW t \in Threads, ThreadStep(t), NEW o \in Offers, Carried(o)'
  PROVE  Carried(o) \/ Born(o)
<1> USE DEF OInv, Carried, Pending, Settles, Relaxing, Control, Typed, Pool, Goto,
        queueVars, dataVars, mainVars
<1>1. CASE LoopEmpty(t) \/ LoopSpin(t) \/ MarkDone(t) \/ FinishedWork(t)
  BY <1>1 DEF LoopEmpty, LoopSpin, MarkDone, FinishedWork
<1>2. CASE LoopDelete(t)
  BY <1>2 DEF LoopDelete, queue!DeleteCall, queue!Goto, queue!Owning
<1>3. CASE GotNothing(t)
  BY <1>3 DEF GotNothing, queue!Return, queue!Goto, queue!Owning
<1>4. CASE GotMin(t)
  BY <1>4 DEF GotMin, queue!Return, queue!Goto, queue!Owning
<1>5. CASE Improves(t) \/ LockOffer(t)
  BY <1>5 DEF Improves, LockOffer
<1>6. CASE Stale(t)
  BY <1>6 DEF Stale
<1>7. CASE Update(t)
  <2>1. curr[t] # NULL /\ curr'[t] \in {curr[t], NULL}
    BY <1>7, CurrTyped DEF Update, NextNeighbor, Busy
  <2> QED
    BY <1>7, <2>1, OfferFields DEF Update, NextNeighbor
<1>8. CASE RelaxInsert(t)
  <2> DEFINE r == [vertex |-> Neighbor(t).to, dist |-> Alt(t), by |-> t]
  <2>1. r.vertex = Neighbor(t).to /\ r.dist = Alt(t)
    OBVIOUS
  <2>2. holds' = [holds EXCEPT ![t] = r] /\ phase' = [phase EXCEPT ![t] = "insert"]
    BY <1>8 DEF RelaxInsert, queue!InsertCall, queue!Goto
  <2> HIDE DEF r
  <2>3. Carried(o) \/ o = r
    BY <1>8, <2>2 DEF RelaxInsert, queue!InsertCall, queue!Goto, queue!Owning
  <2>4. pc[t] \in Relaxing /\ Alt(t) < distances[RelaxIndex(t)]
    BY <1>8 DEF RelaxInsert, Better
  <2> QED
    BY <2>1, <2>3, <2>4 DEF Born
<1>9. CASE RelaxNothing(t)
  <2>1. curr[t] # NULL /\ curr'[t] \in {curr[t], NULL}
    BY <1>9, CurrTyped DEF RelaxNothing, NextNeighbor, Busy
  <2> QED
    BY <1>9, <2>1, OfferFields DEF RelaxNothing, NextNeighbor
<1>10. CASE RelaxInserted(t)
  <2>1. curr[t] # NULL /\ curr'[t] \in {curr[t], NULL}
    BY <1>10, CurrTyped DEF RelaxInserted, NextNeighbor, Busy
  <2> QED
    BY <1>10, <2>1, OfferFields DEF RelaxInserted, NextNeighbor, queue!Return, queue!Goto, queue!Owning
<1> QED
  BY <1>1, <1>2, <1>3, <1>4, <1>5, <1>6, <1>7, <1>8, <1>9, <1>10 DEF ThreadStep

LEMMA CarriedNext ==
  ASSUME OInv, [Next]_vars, NEW o \in Offers, Carried(o)'
  PROVE  Carried(o) \/ Born(o)
<1>1. CASE UNCHANGED vars
  BY <1>1 DEF vars, queueVars, threadVars, Carried, Pending
<1> QED
  BY <1>1, CarriedMain, CarriedQueue, CarriedThread DEF Next, Ended
-----------------------------------------------------------------------------
\* The edge a thread relaxes.
LEMMA EdgeRelaxed ==
  ASSUME OInv, NEW t \in Threads, pc[t] \in Relaxing
  PROVE  /\ curr[t] \in Offers /\ Carried(curr[t])
         /\ curr[t].vertex \in Vertices /\ curr[t].dist \in Nat
         /\ edge[t] \in 1 .. Len(Neighbors[curr[t].vertex])
         /\ Neighbor(t) = Neighbors[curr[t].vertex][edge[t]]
         /\ Neighbor(t).to \in Vertices /\ Alt(t) \in Nat
         /\ Alt(t) = curr[t].dist + Neighbor(t).weight
BY CurrTyped, RelaxTyped DEF OInv, Typed, Hands, Carried, Neighbor, Alt, Relaxing, Busy

LEMMA IndexedNext ==
  ASSUME IndexedGraph, OInv, Indexed, [Next]_vars
  PROVE  Indexed'
<1> SUFFICES ASSUME NEW o \in Offers, Carried(o)' PROVE Index[o.vertex] = o.vertex
  BY DEF Indexed
<1>1. CASE Carried(o)
  BY <1>1 DEF Indexed
<1>2. CASE Born(o)
  BY <1>2, EdgeRelaxed DEF Born, IndexedGraph
<1> QED
  BY <1>1, <1>2, CarriedNext

LEMMA DistancesNext ==
  ASSUME OInv, [Next]_vars, NEW v \in Vertices, distances'[v] # distances[v]
  PROVE  \E t \in Threads : Update(t) /\ v = CurrIndex(t) /\ distances'[v] = curr[t].dist
<1>1. PICK t \in Threads : ThreadStep(t)
  BY DEF Next, Ended, MainStep, MainInsert, MainInserted, Create, Join, QueueStep, vars, dataVars
<1>2. Update(t)
  BY <1>1 DEF ThreadStep, LoopEmpty, LoopDelete, LoopSpin, GotNothing, MarkDone, FinishedWork,
     GotMin, Improves, Stale, LockOffer, RelaxInsert, RelaxNothing, RelaxInserted, dataVars
<1>3. v = CurrIndex(t) /\ distances'[v] = curr[t].dist
  BY <1>2 DEF Update, OInv, Typed, Data
<1> QED
  BY <1>2, <1>3

LEMMA EdgeTyped ==
  ASSUME NEW v \in Vertices, NEW i \in 1 .. Len(Neighbors[v])
  PROVE  Neighbors[v][i].to \in Vertices /\ Neighbors[v][i].weight \in Nat
<1> DEFINE S == [to : Vertices, weight : Nat]
<1>1. \A s \in S : s.to \in Vertices /\ s.weight \in Nat
  OBVIOUS
<1> HIDE DEF S
<1>2. Neighbors[v] \in Seq(S)
  BY GraphAssumption DEF S
<1> QED
  BY <1>1, <1>2, SeqElement

LEMMA PotentialEdge ==
  ASSUME NEW p \in Potentials, NEW v \in Vertices, NEW i \in 1 .. Len(Neighbors[v])
  PROVE  /\ p[Source] = 0 /\ p[v] \in Nat
         /\ Neighbors[v][i].to \in Vertices /\ Neighbors[v][i].weight \in Nat
         /\ p[Neighbors[v][i].to] \in Nat
         /\ p[Neighbors[v][i].to] <= p[v] + Neighbors[v][i].weight
BY SMTT(30), EdgeTyped, GraphAssumption DEF Potentials

LEMMA BelowNext ==
  ASSUME OInv, Indexed, [Next]_vars, NEW p \in Potentials, Below(p)
  PROVE  Below(p)'
<1>0. \A v \in Vertices : p[v] \in Nat /\ distances[v] \in Nat
  BY GraphAssumption DEF Potentials, OInv, Typed, Data
<1>1. ASSUME NEW v \in Vertices PROVE p[v] <= distances'[v]
  <2>1. CASE distances'[v] = distances[v]
    BY <2>1 DEF Below
  <2>2. CASE distances'[v] # distances[v]
    <3>1. PICK t \in Threads : Update(t) /\ v = CurrIndex(t) /\ distances'[v] = curr[t].dist
      BY <2>2, DistancesNext
    <3>2. curr[t] \in Offers /\ Carried(curr[t])
      BY <3>1, CurrTyped DEF Update, NextNeighbor, Goto, OInv, Busy, Carried, Pending, Settles
    <3> QED
      BY <3>1, <3>2 DEF Indexed, Below, CurrIndex
  <2> QED
    BY <2>1, <2>2
<1>2. ASSUME NEW o \in Offers, Carried(o)' PROVE p[o.vertex] <= o.dist
  <2>1. CASE Carried(o)
    BY <2>1 DEF Below
  <2>2. CASE o.vertex = Source /\ o.dist = 0
    BY <2>2 DEF Potentials
  <2>3. ASSUME NEW t \in Threads, pc[t] \in Relaxing, o.vertex = Neighbor(t).to, o.dist = Alt(t)
        PROVE  p[o.vertex] <= o.dist
    <3>1. /\ curr[t] \in Offers /\ Carried(curr[t])
          /\ curr[t].vertex \in Vertices /\ curr[t].dist \in Nat
          /\ edge[t] \in 1 .. Len(Neighbors[curr[t].vertex])
          /\ Neighbor(t) = Neighbors[curr[t].vertex][edge[t]]
          /\ Alt(t) = curr[t].dist + Neighbor(t).weight
      BY <2>3, EdgeRelaxed
    <3>2. p[curr[t].vertex] <= curr[t].dist
      BY <3>1 DEF Below
    <3>3. /\ p[curr[t].vertex] \in Nat /\ Neighbor(t).weight \in Nat /\ p[Neighbor(t).to] \in Nat
          /\ p[Neighbor(t).to] <= p[curr[t].vertex] + Neighbor(t).weight
      BY <3>1, PotentialEdge
    <3>4. p[Neighbor(t).to] <= curr[t].dist + Neighbor(t).weight
      <4>1. PICK a \in Nat, b \in Nat, c \in Nat, d \in Nat :
              /\ a = p[curr[t].vertex] /\ b = Neighbor(t).weight
              /\ c = p[Neighbor(t).to] /\ d = curr[t].dist
        BY <3>1, <3>3
      <4>2. a <= d /\ c <= a + b
        BY <3>2, <3>3, <4>1
      <4>3. c <= d + b
        BY ONLY <4>2, a \in Nat, b \in Nat, c \in Nat, d \in Nat
      <4> QED
        BY <4>1, <4>3
    <3>5. p[o.vertex] <= Alt(t)
      BY <2>3, <3>1, <3>4
    <3> QED
      BY <2>3, <3>5
  <2> QED
    BY <1>2, <2>1, <2>2, <2>3, CarriedNext DEF Born
<1> QED
  BY <1>1, <1>2 DEF Below
-----------------------------------------------------------------------------
\* An edge once relaxed stays bounded; until then its thread explores it.
LEMMA BoundedStays ==
  ASSUME Typed, Typed', Keeps, NEW v \in Vertices, NEW d \in Nat, Bounded(v, d)
  PROVE  Bounded(v, d)'
<1>1. PICK e \in 0 .. d : Covered(v, e)
  BY DEF Bounded
<1>2. Covered(v, e)'
  BY <1>1, StaysCovered
<1> QED
  BY <1>2 DEF Bounded

LEMMA EdgeAdvances ==
  ASSUME OInv, NEW t \in Threads, NEW from, pc[t] \in Relaxing,
         NextNeighbor(t, from, edge[t] + 1),
         NEW v \in Vertices, NEW d \in Nat, NEW i \in 1 .. Len(Neighbors[v]),
         Exploring(t, v, d, i), edge[t] < i
  PROVE  Exploring(t, v, d, i)'
<1>1. edge[t] \in Nat /\ curr[t].vertex = v /\ i \in Nat
  BY DEF OInv, Typed, Pool, Exploring
<1>2. Len(Neighbors[v]) \in Nat
  BY GraphAssumption
<1>3. edge[t] + 1 <= Len(Neighbors[curr[t].vertex]) /\ edge[t] + 1 <= i
  BY <1>1, <1>2
<1>4. pc'[t] = "relax" /\ edge'[t] = edge[t] + 1 /\ curr'[t] = curr[t]
  BY <1>3 DEF NextNeighbor, Goto, OInv, Control, Typed, Pool
<1> QED
  BY <1>3, <1>4 DEF Exploring, Relaxing

\* The edge that relax has handled is bounded.
LEMMA EdgeHandled ==
  ASSUME OInv, NEW t \in Threads, RelaxNothing(t) \/ RelaxInserted(t)
  PROVE  Bounded(RelaxIndex(t), Alt(t))
<1>1. pc[t] \in Relaxing
  BY DEF RelaxNothing, RelaxInserted, NextNeighbor, Goto, Relaxing
<1>2. RelaxIndex(t) \in Vertices /\ Alt(t) \in Nat
  BY <1>1, RelaxTyped DEF OInv
<1>3. CASE RelaxInserted(t)
  BY <1>2, <1>3 DEF RelaxInserted, NextNeighbor, Goto, OInv, Offering, Bounded
<1>4. CASE RelaxNothing(t)
  <2>1. /\ distances[RelaxIndex(t)] \in Nat
        /\ offers[RelaxIndex(t)] \in Nat \cup {NULL}
    BY <1>2 DEF OInv, Typed, Data
  <2>2. CASE distances[RelaxIndex(t)] <= Alt(t)
    BY <1>2, <2>2 DEF Bounded, Covered
  <2>3. CASE offers[RelaxIndex(t)] # NULL /\ offers[RelaxIndex(t)] <= Alt(t)
    BY <1>2, <2>1, <2>3 DEF Bounded, OInv, Recorded
  <2> QED
    BY <1>2, <1>4, <2>1, <2>2, <2>3 DEF RelaxNothing, Better
<1> QED
  BY <1>3, <1>4

LEMMA ExploringNext ==
  ASSUME IndexedGraph, OInv, OInv', Keeps, [Next]_vars, NEW t \in Threads,
         NEW v \in Vertices, NEW d \in Nat, NEW i \in 1 .. Len(Neighbors[v]), Exploring(t, v, d, i)
  PROVE  ExploredEdge(v, d, i)'
<1>1. CASE pc'[t] = pc[t] /\ curr'[t] = curr[t] /\ edge'[t] = edge[t]
  BY <1>1 DEF Exploring, ExploredEdge
<1>2. CASE LockOffer(t) \/ RelaxInsert(t)
  BY <1>2 DEF LockOffer, RelaxInsert, Goto, Exploring, ExploredEdge, Relaxing, OInv, Control
<1>3. CASE RelaxNothing(t) \/ RelaxInserted(t)
  <2>1. pc[t] \in Relaxing /\ edge[t] \in Nat /\ edge[t] <= i /\ curr[t].vertex = v /\ curr[t].dist = d
    BY DEF Exploring, OInv, Typed, Pool
  <2>2. CASE edge[t] < i
    <3>1. Exploring(t, v, d, i)'
      BY <1>3, <2>1, <2>2, EdgeAdvances DEF RelaxNothing, RelaxInserted
    <3> QED
      BY <3>1 DEF ExploredEdge
  <2>3. CASE edge[t] = i
    <3>1. /\ RelaxIndex(t) = Neighbors[v][i].to
          /\ Alt(t) = d + Neighbors[v][i].weight
      BY <2>1, <2>3 DEF RelaxIndex, Neighbor, Alt, IndexedGraph
    <3>2. /\ Neighbors[v][i].to \in Vertices
          /\ d + Neighbors[v][i].weight \in Nat
      BY <2>1, <3>1, RelaxTyped DEF OInv, Neighbor
    <3>3. Bounded(Neighbors[v][i].to, d + Neighbors[v][i].weight)
      BY <1>3, <3>1, EdgeHandled
    <3>4. Bounded(Neighbors[v][i].to, d + Neighbors[v][i].weight)'
      BY <3>2, <3>3, BoundedStays DEF OInv
    <3> QED
      BY <3>4 DEF ExploredEdge
  <2> QED
    BY <2>1, <2>2, <2>3
<1>4. CASE MainStep \/ UNCHANGED vars
  <2>1. pc'[t] = pc[t] /\ curr'[t] = curr[t] /\ edge'[t] = edge[t]
    BY <1>4 DEF MainStep, MainInsert, MainInserted, Create, Join, vars, threadVars, Exploring, Relaxing,
                OInv, Control, Flow, Started
  <2> QED
    BY <1>1, <2>1
<1>5. ASSUME NEW w \in Threads, QueueStep(w) \/ ThreadStep(w), w # t PROVE ExploredEdge(v, d, i)'
  <2>1. Frame(w)
    BY <1>5, FrameQueue, FrameThread DEF OInv
  <2> QED
    BY <1>1, <1>5, <2>1 DEF Frame
<1>6. CASE QueueStep(t)
  BY <1>1, <1>6 DEF QueueStep, threadVars
<1>7. CASE ThreadStep(t)
  <2>1. LockOffer(t) \/ RelaxInsert(t) \/ RelaxNothing(t) \/ RelaxInserted(t)
    BY <1>7 DEF ThreadStep, LoopEmpty, LoopDelete, LoopSpin, GotNothing, MarkDone, FinishedWork,
           GotMin, Improves, Stale, Update, NextNeighbor, Goto, Exploring, Relaxing
  <2> QED
    BY <1>2, <1>3, <2>1
<1> QED
  BY <1>4, <1>5, <1>6, <1>7 DEF Next, Ended

\* A distance just stored: its thread is about to relax every edge.
LEMMA ExploredUpdate ==
  ASSUME OInv, Indexed, NEW t \in Threads, Update(t), NEW v \in Vertices, v = CurrIndex(t),
         NEW d \in Nat, d = curr[t].dist, NEW i \in 1 .. Len(Neighbors[v])
  PROVE  ExploredEdge(v, d, i)'
<1>1. pc[t] = "update" /\ curr[t] \in Offers /\ Carried(curr[t])
  BY CurrTyped DEF Update, NextNeighbor, Goto, OInv, Busy, Carried, Pending, Settles
<1>2. curr[t].vertex = v
  BY <1>1 DEF Indexed, CurrIndex
<1>3. Len(Neighbors[v]) \in Nat /\ 1 <= Len(Neighbors[v]) /\ 1 <= i
  BY GraphAssumption
<1>4. pc'[t] = "relax" /\ edge'[t] = 1 /\ curr'[t] = curr[t]
  BY <1>2, <1>3 DEF Update, NextNeighbor, Goto, OInv, Control, Typed, Pool
<1> QED
  BY <1>2, <1>3, <1>4 DEF ExploredEdge, Exploring, Relaxing

LEMMA ExploredNext ==
  ASSUME IndexedGraph, OInv, OInv', Keeps, Indexed, Explored, [Next]_vars
  PROVE  Explored'
<1> SUFFICES ASSUME NEW v \in Vertices, distances'[v] < INT_MAX, NEW i \in 1 .. Len(Neighbors[v])
             PROVE  ExploredEdge(v, distances[v], i)'
  BY DEF Explored
<1>1. PICK d \in Nat : d = distances'[v]
  BY DEF OInv, Typed, Data
<1>2. CASE distances'[v] = distances[v]
  <2>1. ExploredEdge(v, d, i)
    BY <1>1, <1>2 DEF Explored
  <2>2. CASE Bounded(Neighbors[v][i].to, d + Neighbors[v][i].weight)
    <3>1. Neighbors[v][i].to \in Vertices /\ Neighbors[v][i].weight \in Nat
      BY EdgeTyped
    <3>2. d + Neighbors[v][i].weight \in Nat
      BY <3>1
    <3> QED
      BY <1>1, <2>2, <3>1, <3>2, BoundedStays DEF OInv, ExploredEdge
  <2>3. CASE \E t \in Threads : Exploring(t, v, d, i)
    <3>1. ExploredEdge(v, d, i)'
      BY <2>3, ExploringNext
    <3> QED
      BY <1>1, <3>1
  <2> QED
    BY <2>1, <2>2, <2>3 DEF ExploredEdge
<1>3. CASE distances'[v] # distances[v]
  <2>1. PICK t \in Threads : Update(t) /\ v = CurrIndex(t) /\ d = curr[t].dist
    BY <1>1, <1>3, DistancesNext
  <2>2. ExploredEdge(v, d, i)'
    BY <2>1, ExploredUpdate
  <2> QED
    BY <1>1, <2>2
<1> QED
  BY <1>2, <1>3
-----------------------------------------------------------------------------
LEMMA SourceNext ==
  ASSUME IndexedGraph, OInv, OInv', Keeps, SourceCovered, [Next]_vars
  PROVE  SourceCovered'
<1>1. CASE Covered(Source, 0)
  BY <1>1, StaysCovered, GraphAssumption DEF SourceCovered, OInv
<1>2. CASE MainInsert
  <2> DEFINE o == [vertex |-> Source, dist |-> 0, by |-> 0]
  <2>1. 0 \in Threads
    BY ThreadsAssumption DEF Threads
  <2>2. o \in Offers /\ o.vertex = Source /\ o.dist = 0
    BY <2>1, OfferMade, GraphAssumption
  <2>3. PICK r \in Offers : r = o /\ r.vertex = Source /\ r.dist = 0
    <3> HIDE DEF o
    <3> QED
      BY <2>2
  <2>4. phase'[0] = "insert" /\ holds'[0] = r
    BY <1>2, <2>1, <2>3 DEF MainInsert, queue!InsertCall, queue!Goto, OInv, Control, Typed, Pool
  <2>5. Pending(r)'
    BY <2>1, <2>4 DEF Pending, queue!Owning
  <2> QED
    BY <2>3, <2>5 DEF SourceCovered, Covered, IndexedGraph
<1>3. CASE main' = "insert"
  BY <1>3 DEF SourceCovered
<1>4. main = "insert" => MainInsert \/ main' = "insert"
  BY DEF Next, Ended, MainStep, MainInserted, Create, Join, QueueStep, vars, mainVars,
     ThreadStep, LoopEmpty, LoopDelete, LoopSpin, GotNothing, MarkDone, FinishedWork,
     GotMin, Improves, Stale, Update, LockOffer, RelaxInsert, RelaxNothing, RelaxInserted
<1> QED
  BY <1>1, <1>2, <1>3, <1>4 DEF SourceCovered

LEMMA OverNext ==
  ASSUME IInv, Over, [Next]_vars
  PROVE  Over'
<1>1. CASE UNCHANGED vars
  BY <1>1 DEF Over, AllQuiet, Quiet, vars, queueVars, mainVars, threadVars
<1>2. CASE Next /\ AllQuiet
  BY <1>2, AllQuietNext DEF IInv, Over
<1>3. CASE Next /\ ~AllQuiet
  <2>1. ~Join
    BY <1>3, ThreadsAssumption DEF Join, IInv, ReturnedQuiet, Threads
  <2>2. main' # "joined"
    BY <1>3, <2>1
       DEF Over, Next, Ended, MainStep, MainInsert, MainInserted, Create, QueueStep, vars, mainVars,
           ThreadStep, LoopEmpty, LoopDelete, LoopSpin, GotNothing, MarkDone, FinishedWork,
           GotMin, Improves, Stale, Update, LockOffer, RelaxInsert, RelaxNothing, RelaxInserted
  <2> QED
    BY <2>2 DEF Over
<1> QED
  BY <1>1, <1>2, <1>3
-----------------------------------------------------------------------------
LEMMA RInvInit == ASSUME IndexedGraph, Init PROVE RInv
<1>1. IInv /\ OInv
  BY IInvInit, OInvInit
<1>2. \A o \in Offers : ~Carried(o)
  BY DEF Init, Carried, Pending, queue!PoolInit, queue!Owning, Settles, Relaxing
<1> QED
  BY <1>1, <1>2, GraphAssumption DEF Init, RInv, Indexed, Explored, SourceCovered, Over

LEMMA RInvNext == ASSUME IndexedGraph, RInv, [Next]_vars PROVE RInv'
<1>1. IInv' /\ OInv' /\ Keeps
  BY IInvNext, OInvNext DEF RInv
<1>2. Indexed' /\ Explored' /\ SourceCovered' /\ Over'
  BY <1>1, IndexedNext, ExploredNext, SourceNext, OverNext DEF RInv
<1>3. ASSUME NEW v \in Vertices PROVE distances'[v] <= INT_MAX
  <2>1. distances[v] \in Nat /\ distances'[v] \in Nat /\ distances[v] <= INT_MAX
    BY <1>1 DEF RInv, OInv, Typed, Data
  <2> QED
    BY <1>1, <2>1, GraphAssumption DEF Keeps
<1> QED
  BY <1>1, <1>2, <1>3 DEF RInv

\* In the end nothing is pending and nobody relaxes anything.
LEMMA NothingLeft ==
  ASSUME RInv, AllQuiet
  PROVE  \A v \in Vertices, d \in Nat : Covered(v, d) => distances[v] <= d
<1>1. \A t \in Threads : phase[t] \in {"idle", "deleteMin", "refused"} /\ pc[t] \notin Settles
  BY DEF RInv, IInv, Control, Flow, CallPhases, AllQuiet, Quiet, Settles
<1>2. \A o \in Offers : ~Pending(o)
  BY <1>1 DEF AllQuiet, Pending, queue!Owning
<1> QED
  BY <1>2 DEF Covered

LEMMA DistancesArePotential ==
  ASSUME IndexedGraph, RInv, main = "joined"
  PROVE  distances \in Potentials
<1>1. AllQuiet
  BY DEF RInv, Over
<1>2. \A v \in Vertices : distances[v] \in Nat /\ distances[v] <= INT_MAX
  BY DEF RInv, OInv, Typed, Data
<1>3. distances \in [Vertices -> 0 .. INT_MAX]
  BY <1>2, GraphAssumption DEF RInv, OInv, Typed, Data
<1>4. distances[Source] = 0
  BY <1>1, <1>2, NothingLeft, GraphAssumption DEF RInv, SourceCovered
<1>5. ASSUME NEW v \in Vertices, NEW i \in 1 .. Len(Neighbors[v])
      PROVE  distances[Neighbors[v][i].to] <= distances[v] + Neighbors[v][i].weight
  <2>1. Neighbors[v][i].to \in Vertices /\ Neighbors[v][i].weight \in Nat
    BY EdgeTyped
  <2>2. CASE distances[v] < INT_MAX
    <3>1. \A t \in Threads : pc[t] \notin Relaxing
      BY <1>1 DEF RInv, IInv, Control, AllQuiet, Quiet, Relaxing
    <3>2. Bounded(Neighbors[v][i].to, distances[v] + Neighbors[v][i].weight)
      BY <2>2, <3>1 DEF RInv, Explored, ExploredEdge, Exploring
    <3>3. PICK e \in 0 .. distances[v] + Neighbors[v][i].weight : Covered(Neighbors[v][i].to, e)
      BY <3>2 DEF Bounded
    <3>4. distances[Neighbors[v][i].to] <= e
      BY <1>1, <2>1, <3>3, NothingLeft
    <3> QED
      BY <1>2, <2>1, <3>3, <3>4
  <2>3. CASE distances[v] = INT_MAX
    <3> DEFINE a == distances[Neighbors[v][i].to]  w == Neighbors[v][i].weight
    <3>1. a \in Nat /\ a <= INT_MAX /\ w \in Nat
      BY <1>2, <2>1
    <3> HIDE DEF a, w
    <3>2. a <= INT_MAX + w
      BY <3>1, GraphAssumption
    <3> QED
      BY <2>3, <3>2 DEF a, w
  <2> QED
    BY <1>2, <2>2, <2>3, GraphAssumption
<1> QED
  BY <1>3, <1>4, <1>5 DEF Potentials

LEMMA BelowInit == ASSUME Init, NEW p \in Potentials PROVE Below(p)
<1>1. \A o \in Offers : ~Carried(o)
  BY DEF Init, Carried, Pending, queue!PoolInit, queue!Owning, Settles, Relaxing
<1> QED
  BY <1>1, GraphAssumption DEF Init, Below, Potentials

\* When main has joined the threads, the distances it writes to output.txt are
\* the lengths of the shortest paths from the source: for any number of threads,
\* any order in which the relaxed queue hands out the offers and any graph whose
\* vertices have an index of their own (ParallelDijkstra.cpp:31-68, 98-169).
THEOREM ResultIsCorrect == ASSUME IndexedGraph PROVE Spec => []ResultCorrect
<1> DEFINE Inv == RInv /\ \A p \in Potentials : Below(p)
<1>1. Init => Inv
  BY RInvInit, BelowInit
<1>2. Inv /\ [Next]_vars => Inv'
  <2> SUFFICES ASSUME Inv, [Next]_vars PROVE Inv'
    OBVIOUS
  <2>1. RInv'
    BY RInvNext
  <2>2. \A p \in Potentials : Below(p)'
    BY BelowNext DEF RInv
  <2> QED
    BY <2>1, <2>2 DEF Potentials
<1>3. Inv => ResultCorrect
  <2> SUFFICES ASSUME Inv, main = "joined" PROVE ShortestDistances(distances)
    BY DEF ResultCorrect
  <2>1. distances \in Potentials
    BY DistancesArePotential
  <2> QED
    BY <2>1 DEF ShortestDistances, Below
<1> QED
  BY <1>1, <1>2, <1>3, PTL DEF Spec
-----------------------------------------------------------------------------
\* The mutexes of the vertices: who holds one, and who waits for one.

\* A mutex of distances is held over lines 150-157 alone, one of offers over
\* lines 34-66 alone (ParallelDijkstra.cpp).
DistancesOwned ==
  \A v \in Vertices : distancesLocks[v] # NoThread =>
    \E t \in Threads : distancesLocks[v] = t /\ pc[t] = "update" /\ CurrIndex(t) = v

OffersOwned ==
  \A v \in Vertices : offersLocks[v] # NoThread =>
    \E t \in Threads :
      offersLocks[v] = t /\ pc[t] \in {"compareOffer", "inserting"} /\ RelaxIndex(t) = v

Owned == DistancesOwned /\ OffersOwned

\* What pthread_mutex_lock keeps waiting.
Blocked(t) ==
  \/ pc[t] = "compare" /\ distancesLocks[CurrIndex(t)] # NoThread
  \/ pc[t] = "relax" /\ offersLocks[RelaxIndex(t)] # NoThread
  \/ pc[t] = "compareOffer" /\ distancesLocks[RelaxIndex(t)] # NoThread

LEMMA DistancesOwnedThread ==
  ASSUME OInv, Owned, NEW t \in Threads, ThreadStep(t), Frame(t)
  PROVE  DistancesOwned'
<1> SUFFICES ASSUME NEW v \in Vertices, distancesLocks'[v] # NoThread
             PROVE  \E u \in Threads : distancesLocks'[v] = u /\ pc'[u] = "update" /\ CurrIndex(u)' = v
  BY DEF DistancesOwned
<1>1. /\ distancesLocks \in [Vertices -> Threads \cup {NoThread}] /\ pc \in [Threads -> PCs]
      /\ pc[t] \in Busy => CurrIndex(t) \in Vertices
  BY CurrTyped DEF OInv, Typed, Data, Control
<1>2. CASE Improves(t)
  <2>1. CurrIndex(t)' = CurrIndex(t) /\ pc[t] = "compare" /\ pc'[t] = "update"
    BY <1>1, <1>2 DEF Improves, Goto, CurrIndex
  <2>2. CASE v = CurrIndex(t)
    BY <1>1, <1>2, <2>1, <2>2 DEF Improves
  <2>3. CASE v # CurrIndex(t)
    <3>1. distancesLocks[v] = distancesLocks'[v]
      BY <1>1, <1>2, <2>3 DEF Improves
    <3>2. PICK u \in Threads : distancesLocks[v] = u /\ pc[u] = "update" /\ CurrIndex(u) = v
      BY <3>1 DEF Owned, DistancesOwned
    <3> QED
      BY <2>1, <3>1, <3>2 DEF Frame, CurrIndex
  <2> QED
    BY <2>2, <2>3
<1>3. CASE Update(t)
  <2>1. pc[t] = "update" /\ distancesLocks' = [distancesLocks EXCEPT ![CurrIndex(t)] = NoThread]
    BY <1>3 DEF Update, NextNeighbor, Goto
  <2>2. v # CurrIndex(t) /\ distancesLocks[v] = distancesLocks'[v]
    BY <1>1, <2>1
  <2>3. PICK u \in Threads : distancesLocks[v] = u /\ pc[u] = "update" /\ CurrIndex(u) = v
    BY <2>2 DEF Owned, DistancesOwned
  <2> QED
    BY <2>2, <2>3 DEF Frame, CurrIndex
<1>4. CASE ~Improves(t) /\ ~Update(t)
  <2>1. distancesLocks' = distancesLocks /\ pc[t] # "update"
    BY <1>4 DEF ThreadStep, LoopEmpty, LoopDelete, LoopSpin, GotNothing, MarkDone, FinishedWork,
           GotMin, Stale, LockOffer, RelaxInsert, RelaxNothing, RelaxInserted, NextNeighbor, Goto,
           dataVars
  <2>2. PICK u \in Threads : distancesLocks[v] = u /\ pc[u] = "update" /\ CurrIndex(u) = v
    BY <2>1 DEF Owned, DistancesOwned
  <2> QED
    BY <2>1, <2>2 DEF Frame, CurrIndex
<1> QED
  BY <1>2, <1>3, <1>4

LEMMA OffersOwnedThread ==
  ASSUME OInv, Owned, NEW t \in Threads, ThreadStep(t), Frame(t)
  PROVE  OffersOwned'
<1> SUFFICES ASSUME NEW v \in Vertices, offersLocks'[v] # NoThread
             PROVE  \E u \in Threads :
                      /\ offersLocks'[v] = u /\ pc'[u] \in {"compareOffer", "inserting"}
                      /\ RelaxIndex(u)' = v
  BY DEF OffersOwned
<1>1. /\ offersLocks \in [Vertices -> Threads \cup {NoThread}] /\ pc \in [Threads -> PCs]
      /\ pc[t] \in Relaxing => RelaxIndex(t) \in Vertices
  BY RelaxTyped DEF OInv, Typed, Data, Control
<1>2. ASSUME offersLocks'[v] = offersLocks[v],
             pc[t] \in {"compareOffer", "inserting"} /\ RelaxIndex(t) = v =>
               pc'[t] \in {"compareOffer", "inserting"} /\ RelaxIndex(t)' = v
      PROVE  \E u \in Threads :
               /\ offersLocks'[v] = u /\ pc'[u] \in {"compareOffer", "inserting"}
               /\ RelaxIndex(u)' = v
  <2>1. PICK u \in Threads :
          /\ offersLocks[v] = u /\ pc[u] \in {"compareOffer", "inserting"} /\ RelaxIndex(u) = v
    BY <1>2 DEF Owned, OffersOwned
  <2>2. CASE u = t
    BY <1>2, <2>1, <2>2
  <2>3. CASE u # t
    BY <1>2, <2>1, <2>3 DEF Frame, RelaxIndex, Neighbor
  <2> QED
    BY <2>2, <2>3
<1>3. CASE LockOffer(t)
  <2>1. RelaxIndex(t)' = RelaxIndex(t) /\ pc[t] = "relax" /\ pc'[t] = "compareOffer"
    BY <1>1, <1>3 DEF LockOffer, Goto, RelaxIndex, Neighbor
  <2>2. CASE v = RelaxIndex(t)
    BY <1>1, <1>3, <2>1, <2>2 DEF LockOffer
  <2>3. CASE v # RelaxIndex(t)
    <3>1. offersLocks'[v] = offersLocks[v]
      BY <1>1, <1>3, <2>3 DEF LockOffer
    <3> QED
      BY <1>2, <2>1, <3>1
  <2> QED
    BY <2>2, <2>3
<1>4. CASE RelaxNothing(t) \/ RelaxInserted(t)
  <2>1. /\ pc[t] \in {"compareOffer", "inserting"}
        /\ offersLocks' = [offersLocks EXCEPT ![RelaxIndex(t)] = NoThread]
    BY <1>4 DEF RelaxNothing, RelaxInserted, NextNeighbor, Goto
  <2>2. v # RelaxIndex(t) /\ offersLocks'[v] = offersLocks[v]
    BY <1>1, <2>1
  <2> QED
    BY <1>2, <2>2
<1>5. CASE RelaxInsert(t)
  <2>1. RelaxIndex(t)' = RelaxIndex(t) /\ pc'[t] = "inserting" /\ offersLocks' = offersLocks
    BY <1>1, <1>5 DEF RelaxInsert, Goto, RelaxIndex, Neighbor, dataVars
  <2> QED
    BY <1>2, <2>1
<1>6. CASE ~LockOffer(t) /\ ~RelaxNothing(t) /\ ~RelaxInserted(t) /\ ~RelaxInsert(t)
  <2>1. offersLocks' = offersLocks /\ pc[t] \notin {"compareOffer", "inserting"}
    BY <1>6 DEF ThreadStep, LoopEmpty, LoopDelete, LoopSpin, GotNothing, MarkDone, FinishedWork,
           GotMin, Improves, Stale, Update, NextNeighbor, Goto, dataVars
  <2> QED
    BY <1>2, <2>1
<1> QED
  BY <1>3, <1>4, <1>5, <1>6

LEMMA OwnedSame ==
  ASSUME Owned, UNCHANGED <<distancesLocks, offersLocks, curr, edge>>,
         \A t \in Threads : pc[t] \in Busy => pc'[t] = pc[t]
  PROVE  Owned'
<1>1. DistancesOwned'
  <2> SUFFICES ASSUME NEW v \in Vertices, distancesLocks[v] # NoThread
               PROVE  \E t \in Threads : distancesLocks[v] = t /\ pc'[t] = "update" /\ CurrIndex(t) = v
    BY DEF DistancesOwned, CurrIndex
  <2>1. PICK t \in Threads : distancesLocks[v] = t /\ pc[t] = "update" /\ CurrIndex(t) = v
    BY DEF Owned, DistancesOwned
  <2> QED
    BY <2>1 DEF Busy
<1>2. OffersOwned'
  <2> SUFFICES ASSUME NEW v \in Vertices, offersLocks[v] # NoThread
               PROVE  \E t \in Threads :
                        /\ offersLocks[v] = t /\ pc'[t] \in {"compareOffer", "inserting"}
                        /\ RelaxIndex(t) = v
    BY DEF OffersOwned, RelaxIndex, Neighbor
  <2>1. PICK t \in Threads :
          offersLocks[v] = t /\ pc[t] \in {"compareOffer", "inserting"} /\ RelaxIndex(t) = v
    BY DEF Owned, OffersOwned
  <2> QED
    BY <2>1 DEF Busy
<1> QED
  BY <1>1, <1>2 DEF Owned

LEMMA OwnedNext == OInv /\ Owned /\ [Next]_vars => Owned'
<1> SUFFICES ASSUME OInv, Owned, [Next]_vars PROVE Owned'
  OBVIOUS
<1>1. CASE MainStep
  <2>1. /\ UNCHANGED <<distancesLocks, offersLocks, curr, edge>>
        /\ \A t \in Threads : pc[t] \in Busy => pc'[t] = pc[t]
    <3>1. CASE Create
      <4>1. created \in Threads /\ pc[created] = "unstarted" /\ pc \in [Threads -> PCs]
        BY <3>1, ThreadsAssumption DEF Create, OInv, Control, Flow, Started, Threads
      <4> QED
        BY <3>1, <4>1 DEF Create, dataVars, Busy
    <3>2. CASE MainInsert \/ MainInserted \/ Join
      BY <3>2 DEF MainInsert, MainInserted, Join, dataVars, threadVars
    <3> QED
      BY <1>1, <3>1, <3>2 DEF MainStep
  <2> QED
    BY <2>1, OwnedSame
<1>2. ASSUME NEW t \in Threads, ThreadStep(t) PROVE Owned'
  BY <1>2, FrameThread, DistancesOwnedThread, OffersOwnedThread DEF Owned
<1>3. CASE (\E t \in Threads : QueueStep(t)) \/ UNCHANGED vars
  <2>1. UNCHANGED <<distancesLocks, offersLocks, pc, curr, edge>>
    BY <1>3 DEF QueueStep, vars, dataVars, threadVars
  <2> QED
    BY <2>1, OwnedSame
<1> QED
  BY <1>1, <1>2, <1>3 DEF Next, Ended

LEMMA OwnedInit == Init => Owned
BY DEF Init, Owned, DistancesOwned, OffersOwned

\* No circular wait among the vertices' mutexes: whenever a thread waits for
\* one, a thread that waits for none is between locking one and giving it back.
\* relax waits for a mutex of distances while it holds one of offers, for the
\* same vertex, and for nobody's the other way round (ParallelDijkstra.cpp:34-66,
\* 150-157).
THEOREM NoCircularWait ==
  Spec => [](\A t \in Threads : Blocked(t) =>
               \E u \in Threads :
                 ~Blocked(u) /\ pc[u] \in {"update", "compareOffer", "inserting"})
<1>1. ASSUME OInv, Owned, NEW t \in Threads, Blocked(t)
      PROVE  \E u \in Threads :
               ~Blocked(u) /\ pc[u] \in {"update", "compareOffer", "inserting"}
  <2>1. ASSUME NEW v \in Vertices, distancesLocks[v] # NoThread
        PROVE  \E u \in Threads :
                 ~Blocked(u) /\ pc[u] \in {"update", "compareOffer", "inserting"}
    <3>1. PICK u \in Threads : pc[u] = "update"
      BY <1>1, <2>1 DEF Owned, DistancesOwned
    <3> QED
      BY <3>1 DEF Blocked
  <2>2. CASE pc[t] = "compare" /\ distancesLocks[CurrIndex(t)] # NoThread
    BY <1>1, <2>1, <2>2, CurrTyped DEF OInv, Busy
  <2>3. CASE pc[t] = "compareOffer" /\ distancesLocks[RelaxIndex(t)] # NoThread
    BY <1>1, <2>1, <2>3, RelaxTyped DEF OInv, Relaxing
  <2>4. CASE pc[t] = "relax" /\ offersLocks[RelaxIndex(t)] # NoThread
    <3>1. RelaxIndex(t) \in Vertices
      BY <1>1, <2>4, RelaxTyped DEF OInv, Relaxing
    <3>2. PICK u \in Threads : pc[u] \in {"compareOffer", "inserting"}
      BY <1>1, <2>4, <3>1 DEF Owned, OffersOwned
    <3>3. CASE Blocked(u)
      <4>1. pc[u] = "compareOffer" /\ distancesLocks[RelaxIndex(u)] # NoThread
        BY <3>2, <3>3 DEF Blocked
      <4> QED
        BY <1>1, <4>1, <2>1, RelaxTyped DEF OInv, Relaxing
    <3> QED
      BY <3>2, <3>3
  <2> QED
    BY <1>1, <2>2, <2>3, <2>4 DEF Blocked
<1>2. OInv /\ Owned =>
        \A t \in Threads : Blocked(t) =>
          \E u \in Threads : ~Blocked(u) /\ pc[u] \in {"update", "compareOffer", "inserting"}
  BY <1>1
<1> QED
  BY <1>2, OwnedInit, OwnedNext, OInvAlways, PTL DEF Spec

\* Once main has joined the threads, every mutex of a vertex has been given
\* back, on whichever path each thread left its last offer
\* (ParallelDijkstra.cpp:34-66, 146-168).
THEOREM LocksGivenBack ==
  Spec => [](main = "joined" =>
               \A v \in Vertices : distancesLocks[v] = NoThread /\ offersLocks[v] = NoThread)
<1>1. IInv /\ Over /\ Owned =>
        (main = "joined" =>
           \A v \in Vertices : distancesLocks[v] = NoThread /\ offersLocks[v] = NoThread)
  BY DEF Over, AllQuiet, Quiet, Owned, DistancesOwned, OffersOwned
<1>2. Init => IInv /\ Over /\ Owned
  BY IInvInit, OwnedInit DEF Init, Over
<1>3. OInv /\ IInv /\ Over /\ Owned /\ [Next]_vars => IInv' /\ Over' /\ Owned'
  BY IInvNext, OverNext, OwnedNext
<1> QED
  BY <1>1, <1>2, <1>3, OInvAlways, PTL DEF Spec
-----------------------------------------------------------------------------
\* The graph main() builds

\* A set of numbers that is not empty has a least one.
LEMMA LeastNatural ==
  ASSUME NEW S \in SUBSET Nat, S # {}
  PROVE  \E n \in S : \A m \in S : n <= m
<1> DEFINE R == OpToRel(<, Nat)
<1>1. IsWellFoundedOn(R, Nat)
  BY NatLessThanWellFounded
<1>2. \A x, y \in Nat : <<x, y>> \in R <=> x < y
  BY DEF OpToRel
<1> HIDE DEF R
<1>3. \E n \in S : \A m \in S : ~(<<m, n>> \in R)
  BY <1>1, WFMin
<1>4. PICK n \in S : \A m \in S : ~(<<m, n>> \in R)
  BY <1>3
<1>5. \A m \in S : n \in Nat /\ m \in Nat /\ ~(m < n)
  BY <1>2, <1>4
<1> QED
  BY <1>5

\* A finite one has a greatest.
LEMMA FiniteMax ==
  ASSUME NEW S \in SUBSET Nat, S # {}, IsFiniteSet(S)
  PROVE  Input!Max(S) \in S /\ \A x \in S : x <= Input!Max(S)
<1> DEFINE HasMax(T) == \E x \in T : \A y \in T : x >= y
           Bad == {n \in Nat : \E T \in SUBSET S : T # {} /\ Cardinality(T) = n /\ ~HasMax(T)}
<1>1. ASSUME NEW T \in SUBSET S PROVE IsFiniteSet(T) /\ Cardinality(T) \in Nat
  BY FS_Subset, FS_CardinalityType
<1>2. Bad = {}
  <2> SUFFICES ASSUME Bad # {} PROVE FALSE
    OBVIOUS
  <2>1. PICK n \in Bad : \A m \in Bad : n <= m
    BY LeastNatural
  <2>2. PICK T \in SUBSET S : T # {} /\ Cardinality(T) = n /\ ~HasMax(T)
    OBVIOUS
  <2>3. PICK x \in T : TRUE
    BY <2>2
  <2> DEFINE U == T \ {x}
  <2>4. U \in SUBSET S /\ Cardinality(U) = n - 1 /\ n \in Nat /\ n - 1 \in Nat
    <3>1. IsFiniteSet(T) /\ U \in SUBSET S
      BY <1>1
    <3>2. Cardinality(U) = n - 1 /\ n \in Nat
      BY <2>2, <2>3, <3>1, FS_RemoveElement
    <3> QED
      BY <1>1, <3>1, <3>2
  <2>5. U # {}
    <3> SUFFICES ASSUME U = {} PROVE HasMax(T)
      BY <2>2
    <3>1. T = {x} /\ x \in Nat
      BY <2>3
    <3> QED
      BY <3>1
  <2>6. HasMax(U)
    <3>1. n - 1 \notin Bad
      BY <2>1, <2>4
    <3> QED
      BY <2>4, <2>5, <3>1
  <2>7. PICK y \in U : \A z \in U : y >= z
    BY <2>6
  <2>8. x \in Nat /\ y \in Nat /\ y \in T /\ \A z \in T : z \in Nat /\ (z = x \/ z \in U)
    BY <2>3
  <2>9. CASE x >= y
    <3>1. \A z \in T : x >= z
      BY <2>7, <2>8, <2>9
    <3> QED
      BY <2>2, <2>3, <3>1
  <2>10. CASE y >= x
    <3>1. \A z \in T : y >= z
      BY <2>7, <2>8, <2>10
    <3> QED
      BY <2>2, <2>8, <3>1
  <2> QED
    BY <2>8, <2>9, <2>10
<1>3. HasMax(S)
  BY <1>1, <1>2
<1>4. Input!Max(S) \in S /\ \A y \in S : Input!Max(S) >= y
  BY <1>3, Zenon DEF Input!Max
<1> QED
  BY <1>4
-----------------------------------------------------------------------------
\* The adjacency lists

\* What edge line e appends to the list of v.
Appended(list, e, v) ==
  list \o (IF e.v1 = v THEN <<[to |-> e.v2, weight |-> e.weight]>> ELSE <<>>)
       \o (IF e.v2 = v THEN <<[to |-> e.v1, weight |-> e.weight]>> ELSE <<>>)

\* The recursion of FoldLeft has a solution.
LEMMA FoldSolution ==
  ASSUME NEW v
  PROVE  \E g : g = [s \in SUBSET DOMAIN Edges |->
                       IF s = {} THEN <<>>
                       ELSE Appended(g[s \ {Input!Max(s)}], Edges[Input!Max(s)], v)]
<1> DEFINE D == DOMAIN Edges
           Step(g, s) == IF s = {} THEN <<>>
                         ELSE Appended(g[s \ {Input!Max(s)}], Edges[Input!Max(s)], v)
           Solves(g, k) == /\ g = [s \in SUBSET D |-> g[s]]
                           /\ \A s \in SUBSET D : Cardinality(s) <= k => g[s] = Step(g, s)
           Solved(k) == \E g : Solves(g, k)
           Bad == {k \in Nat : ~Solved(k)}
<1>1. D = 1 .. Len(Edges) /\ D \subseteq Nat /\ IsFiniteSet(D) /\ Cardinality(D) \in Nat
  <2>1. D = 1 .. Len(Edges) /\ Len(Edges) \in Nat
    <3> DEFINE E == [v1 : Vertices, v2 : Vertices, weight : Nat]
    <3>1. Edges \in Seq(E)
      BY InputAssumption
    <3> HIDE DEF E
    <3> QED
      BY <3>1
  <2>2. IsFiniteSet(D) /\ D \subseteq Nat
    BY <2>1, FS_Interval
  <2> QED
    BY <2>1, <2>2, FS_CardinalityType
<1>2. ASSUME NEW s \in SUBSET D
      PROVE  /\ IsFiniteSet(s) /\ Cardinality(s) \in Nat /\ Cardinality(s) <= Cardinality(D)
             /\ s # {} => /\ Input!Max(s) \in s /\ Cardinality(s) # 0
                          /\ Cardinality(s \ {Input!Max(s)}) = Cardinality(s) - 1
  <2>1. IsFiniteSet(s) /\ Cardinality(s) \in Nat /\ Cardinality(s) <= Cardinality(D)
    BY <1>1, FS_Subset, FS_CardinalityType
  <2>2. ASSUME s # {} PROVE Input!Max(s) \in s /\ Cardinality(s) # 0
    BY <1>1, <2>1, <2>2, FiniteMax, FS_EmptySet
  <2> QED
    BY <2>1, <2>2, FS_RemoveElement
<1> HIDE DEF D, Step
<1>3. Solved(0)
  <2> DEFINE g == [s \in SUBSET D |-> <<>>]
  <2>1. ASSUME NEW s \in SUBSET D, Cardinality(s) <= 0 PROVE g[s] = Step(g, s)
    <3>1. s = {}
      <4> HIDE DEF g
      <4>1. Cardinality(s) \in Nat /\ IsFiniteSet(s)
        BY <1>2
      <4>2. Cardinality(s) = 0
        BY <2>1, <4>1
      <4> QED
        BY <4>1, <4>2, FS_EmptySet
    <3> QED
      BY <3>1 DEF Step
  <2> QED
    BY <2>1
<1>4. ASSUME NEW k \in Nat \ {0}, Solved(k - 1) PROVE Solved(k)
  <2>1. PICK g : Solves(g, k - 1)
    BY <1>4
  <2> DEFINE h == [s \in SUBSET D |-> Step(g, s)]
  <2>2. ASSUME NEW s \in SUBSET D, Cardinality(s) <= k PROVE h[s] = Step(h, s)
    <3>1. CASE s = {}
      BY <3>1 DEF Step
    <3>2. CASE s # {}
      <4> DEFINE r == s \ {Input!Max(s)}
      <4>1. r \in SUBSET D /\ Cardinality(r) <= k - 1
        BY <1>2, <2>2, <3>2
      <4>2. g[r] = Step(g, r) /\ h[r] = Step(g, r) /\ h[s] = Step(g, s)
        BY <2>1, <4>1
      <4> HIDE DEF h
      <4> QED
        BY <3>2, <4>2 DEF Step
    <3> QED
      BY <3>1, <3>2
  <2>3. h = [s \in SUBSET D |-> h[s]]
    OBVIOUS
  <2> HIDE DEF h
  <2> QED
    BY <2>2, <2>3
<1> HIDE DEF Solved
<1>5. Bad = {}
  <2> SUFFICES ASSUME Bad # {} PROVE FALSE
    OBVIOUS
  <2>1. PICK k \in Bad : \A m \in Bad : k <= m
    BY LeastNatural
  <2>2. k \in Nat \ {0} /\ k - 1 \in Nat /\ k - 1 \notin Bad
    BY <1>3, <2>1
  <2> QED
    BY <1>4, <2>2
<1>6. PICK g : Solves(g, Cardinality(D))
  BY <1>1, <1>5 DEF Solved
<1>7. g = [s \in SUBSET D |-> Step(g, s)]
  BY <1>2, <1>6
<1> QED
  BY <1>7 DEF D, Step

\* u is in the list, at the end of an edge of weight w.
Listed(list, u, w) == \E i \in 1 .. Len(list) : list[i].to = u /\ list[i].weight = w

\* Every neighbour v has comes from an edge line of v, and each line of v gives it one.
Drawn(list, v, k) ==
  /\ list \in Seq([to : Vertices, weight : Nat])
  /\ \A i \in 1 .. Len(list) : \E j \in 1 .. k :
       /\ list[i].weight = Edges[j].weight
       /\ \/ Edges[j].v1 = v /\ Edges[j].v2 = list[i].to
          \/ Edges[j].v2 = v /\ Edges[j].v1 = list[i].to
  /\ \A j \in 1 .. k :
       /\ Edges[j].v1 = v => Listed(list, Edges[j].v2, Edges[j].weight)
       /\ Edges[j].v2 = v => Listed(list, Edges[j].v1, Edges[j].weight)

LEMMA EdgeLine ==
  ASSUME NEW j \in 1 .. Len(Edges)
  PROVE  Edges[j].v1 \in Vertices /\ Edges[j].v2 \in Vertices /\ Edges[j].weight \in Nat
<1> DEFINE E == [v1 : Vertices, v2 : Vertices, weight : Nat]
<1>1. \A e \in E : e.v1 \in Vertices /\ e.v2 \in Vertices /\ e.weight \in Nat
  OBVIOUS
<1>2. Edges \in Seq(E)
  BY InputAssumption
<1> HIDE DEF E
<1>3. Edges[j] \in E
  BY <1>2
<1> QED
  BY <1>1, <1>3

LEMMA ListedJoin ==
  ASSUME NEW N, NEW s \in Seq(N), NEW r \in Seq(N)
  PROVE  \A u, w : /\ Listed(s, u, w) => Listed(s \o r, u, w)
                   /\ Listed(r, u, w) => Listed(s \o r, u, w)
<1>1. /\ Len(s \o r) = Len(s) + Len(r) /\ Len(s) \in Nat /\ Len(r) \in Nat
      /\ \A i \in 1 .. Len(s) : (s \o r)[i] = s[i]
      /\ \A i \in 1 .. Len(r) : (s \o r)[Len(s) + i] = r[i]
  OBVIOUS
<1>2. ASSUME NEW u, NEW w, Listed(s, u, w) PROVE Listed(s \o r, u, w)
  <2>1. PICK i \in 1 .. Len(s) : s[i].to = u /\ s[i].weight = w
    BY <1>2 DEF Listed
  <2>2. i \in 1 .. Len(s \o r) /\ (s \o r)[i] = s[i]
    BY <1>1
  <2> QED
    BY <2>1, <2>2 DEF Listed
<1>3. ASSUME NEW u, NEW w, Listed(r, u, w) PROVE Listed(s \o r, u, w)
  <2>1. PICK i \in 1 .. Len(r) : r[i].to = u /\ r[i].weight = w
    BY <1>3 DEF Listed
  <2>2. Len(s) + i \in 1 .. Len(s \o r) /\ (s \o r)[Len(s) + i] = r[i]
    BY <1>1
  <2> QED
    BY <2>1, <2>2 DEF Listed
<1> QED
  BY <1>2, <1>3

LEMMA AppendedDrawn ==
  ASSUME NEW v, NEW k \in 1 .. Len(Edges), NEW list, Drawn(list, v, k - 1)
  PROVE  Drawn(Appended(list, Edges[k], v), v, k)
<1> DEFINE N == [to : Vertices, weight : Nat]
           e == Edges[k]
           a == IF e.v1 = v THEN <<[to |-> e.v2, weight |-> e.weight]>> ELSE <<>>
           b == IF e.v2 = v THEN <<[to |-> e.v1, weight |-> e.weight]>> ELSE <<>>
           From(n) == \E j \in 1 .. k :
                        /\ n.weight = Edges[j].weight
                        /\ \/ Edges[j].v1 = v /\ Edges[j].v2 = n.to
                           \/ Edges[j].v2 = v /\ Edges[j].v1 = n.to
           Good(s) == s \in Seq(N) /\ \A i \in 1 .. Len(s) : From(s[i])
<1>1. e.v1 \in Vertices /\ e.v2 \in Vertices /\ e.weight \in Nat /\ k \in Nat \ {0} /\ k \in 1 .. k
  BY EdgeLine, InputAssumption
<1>2. Good(list)
  <2>1. \A i \in 1 .. Len(list) : From(list[i])
    <3>1. \A i \in 1 .. Len(list) : \E j \in 1 .. k - 1 :
            /\ list[i].weight = Edges[j].weight
            /\ \/ Edges[j].v1 = v /\ Edges[j].v2 = list[i].to
               \/ Edges[j].v2 = v /\ Edges[j].v1 = list[i].to
      BY DEF Drawn
    <3>2. \A j \in 1 .. k - 1 : j \in 1 .. k
      BY <1>1
    <3> QED
      BY ONLY <3>1, <3>2
  <2> QED
    BY <2>1 DEF Drawn
<1>3. Good(a) /\ (e.v1 = v => Listed(a, e.v2, e.weight))
  <2>1. CASE e.v1 = v
    <3> DEFINE n == [to |-> e.v2, weight |-> e.weight]
    <3>1. n \in N /\ n.to = e.v2 /\ n.weight = e.weight
      BY <1>1
    <3>2. From(n)
      BY <1>1, <2>1, <3>1
    <3>3. a = <<n>>
      BY <2>1
    <3> HIDE DEF n, N, From, a
    <3>4. Good(a) /\ 1 \in 1 .. Len(a) /\ a[1] = n
      BY <3>1, <3>2, <3>3
    <3> QED
      BY <3>1, <3>4 DEF Listed
  <2>2. CASE e.v1 # v
    BY <2>2
  <2> QED
    BY <2>1, <2>2
<1>4. Good(b) /\ (e.v2 = v => Listed(b, e.v1, e.weight))
  <2>1. CASE e.v2 = v
    <3> DEFINE n == [to |-> e.v1, weight |-> e.weight]
    <3>1. n \in N /\ n.to = e.v1 /\ n.weight = e.weight
      BY <1>1
    <3>2. From(n)
      BY <1>1, <2>1, <3>1
    <3>3. b = <<n>>
      BY <2>1
    <3> HIDE DEF n, N, From, b
    <3>4. Good(b) /\ 1 \in 1 .. Len(b) /\ b[1] = n
      BY <3>1, <3>2, <3>3
    <3> QED
      BY <3>1, <3>4 DEF Listed
  <2>2. CASE e.v2 # v
    BY <2>2
  <2> QED
    BY <2>1, <2>2
<1>5. Appended(list, e, v) = (list \o a) \o b
  BY DEF Appended
<1> HIDE DEF N, From, a, b
<1>6. Good(list \o a)
  <2>1. Good(a)
    BY <1>3
  <2> QED
    BY ONLY <1>2, <2>1
<1>7. Good((list \o a) \o b)
  <2>1. Good(b)
    BY <1>4
  <2> QED
    BY ONLY <1>6, <2>1
<1>8. \A u, w : /\ Listed(list, u, w) => Listed((list \o a) \o b, u, w)
                /\ Listed(a, u, w) => Listed((list \o a) \o b, u, w)
                /\ Listed(b, u, w) => Listed((list \o a) \o b, u, w)
  <2>1. list \in Seq(N) /\ a \in Seq(N) /\ b \in Seq(N) /\ list \o a \in Seq(N)
    BY <1>2, <1>3, <1>4, <1>6
  <2>2. \A u, w : /\ Listed(list, u, w) => Listed(list \o a, u, w)
                  /\ Listed(a, u, w) => Listed(list \o a, u, w)
    BY ONLY <2>1, ListedJoin
  <2>3. \A u, w : /\ Listed(list \o a, u, w) => Listed((list \o a) \o b, u, w)
                  /\ Listed(b, u, w) => Listed((list \o a) \o b, u, w)
    BY ONLY <2>1, ListedJoin
  <2> QED
    BY <2>2, <2>3
<1>9. ASSUME NEW j \in 1 .. k
      PROVE  /\ Edges[j].v1 = v => Listed((list \o a) \o b, Edges[j].v2, Edges[j].weight)
             /\ Edges[j].v2 = v => Listed((list \o a) \o b, Edges[j].v1, Edges[j].weight)
  <2>1. CASE j = k
    BY <1>3, <1>4, <1>8, <2>1
  <2>2. CASE j # k
    <3>1. j \in 1 .. k - 1
      BY <1>1, <2>2
    <3> QED
      BY <1>8, <3>1 DEF Drawn
  <2> QED
    BY <2>1, <2>2
<1> QED
  BY <1>5, <1>7, <1>9 DEF Drawn, N, From

LEMMA AdjacencyDrawn ==
  ASSUME NEW v \in Vertices
  PROVE  Drawn(Neighbors[v], v, Len(Edges))
<1> DEFINE D == DOMAIN Edges
           Solves(g) == g = [s \in SUBSET D |->
                               IF s = {} THEN <<>>
                               ELSE Appended(g[s \ {Input!Max(s)}], Edges[Input!Max(s)], v)]
           iter == CHOOSE iter : Solves(iter)
           Bad == {k \in Nat : k <= Len(Edges) /\ ~Drawn(iter[1 .. k], v, k)}
<1>1. Solves(iter)
  <2>1. \E g : Solves(g)
    BY FoldSolution
  <2> HIDE DEF Solves
  <2> QED
    BY <2>1, Zenon
<1>2. Neighbors[v] = iter[D]
  BY InputAssumption DEF Input!AdjacencyLists, Input!FoldLeft, Input!MapThenFoldSet, Appended
<1>3. D = 1 .. Len(Edges) /\ Len(Edges) \in Nat
  <2> DEFINE E == [v1 : Vertices, v2 : Vertices, weight : Nat]
  <2>1. Edges \in Seq(E)
    BY InputAssumption
  <2> HIDE DEF E
  <2> QED
    BY <2>1
<1> HIDE DEF iter
<1>4. Drawn(iter[1 .. 0], v, 0)
  <2>1. iter[{}] = <<>>
    BY <1>1
  <2>2. 1 .. 0 = {}
    OBVIOUS
  <2>3. Drawn(<<>>, v, 0)
    BY DEF Drawn
  <2> QED
    BY <2>1, <2>2, <2>3
<1>5. ASSUME NEW k \in 1 .. Len(Edges), Drawn(iter[1 .. k - 1], v, k - 1)
      PROVE  Drawn(iter[1 .. k], v, k)
  <2>0. k \in Nat \ {0}
    BY <1>3
  <2>1. (1 .. k) \in SUBSET Nat /\ 1 .. k # {} /\ IsFiniteSet(1 .. k) /\ k \in 1 .. k
    <3>1. IsFiniteSet(1 .. k)
      BY <2>0, FS_Interval
    <3> QED
      BY <2>0, <3>1
  <2>2. Input!Max(1 .. k) \in 1 .. k /\ k <= Input!Max(1 .. k)
    BY <2>1, FiniteMax
  <2>3. Input!Max(1 .. k) = k
    BY <1>3, <2>2
  <2>4. (1 .. k) \ {k} = 1 .. k - 1 /\ (1 .. k) \in SUBSET D
    BY <1>3
  <2>5. iter[1 .. k] = Appended(iter[1 .. k - 1], Edges[k], v)
    BY <1>1, <2>1, <2>3, <2>4
  <2> QED
    BY <1>5, <2>5, AppendedDrawn
<1>6. Bad = {}
  <2> SUFFICES ASSUME Bad # {} PROVE FALSE
    OBVIOUS
  <2>1. PICK k \in Bad : \A m \in Bad : k <= m
    BY LeastNatural
  <2>2. k \in 1 .. Len(Edges)
    BY <1>3, <1>4, <2>1
  <2>3. k - 1 \in Nat /\ k - 1 <= Len(Edges) /\ k - 1 \notin Bad
    BY <1>3, <2>1, <2>2
  <2> QED
    BY <1>5, <2>2, <2>3
<1> QED
  BY <1>2, <1>3, <1>6

\* No neighbour is heavier than the heaviest line.
LEMMA WeightBounded ==
  ASSUME NEW v \in Vertices, NEW i \in 1 .. Len(Neighbors[v])
  PROVE  Neighbors[v][i].weight <= Input!HeaviestEdge /\ Input!HeaviestEdge \in Nat
<1> DEFINE S == {0} \cup {e.weight : e \in Input!Range(Edges)}
           weigh == [j \in 1 .. Len(Edges) |-> Edges[j].weight]
<1>1. Len(Edges) \in Nat /\ Input!Range(Edges) = {Edges[j] : j \in 1 .. Len(Edges)}
  <2> DEFINE E == [v1 : Vertices, v2 : Vertices, weight : Nat]
  <2>1. Edges \in Seq(E)
    BY InputAssumption
  <2> HIDE DEF E
  <2> QED
    BY <2>1 DEF Input!Range
<1>2. S = {0} \cup {Edges[j].weight : j \in 1 .. Len(Edges)}
  BY <1>1
<1>3. S \in SUBSET Nat /\ S # {}
  <2>1. \A j \in 1 .. Len(Edges) : Edges[j].weight \in Nat
    BY EdgeLine
  <2> HIDE DEF S
  <2> QED
    BY <1>2, <2>1
<1>4. IsFiniteSet(S)
  <2> DEFINE T == {Edges[j].weight : j \in 1 .. Len(Edges)}
  <2>1. weigh \in Surjection(1 .. Len(Edges), T)
    BY DEF Surjection
  <2>2. IsFiniteSet(1 .. Len(Edges))
    BY <1>1, FS_Interval
  <2>3. IsFiniteSet(T)
    BY <2>1, <2>2, FS_Surjection
  <2>4. S = T \cup {0}
    BY <1>2
  <2> QED
    BY <2>3, <2>4, FS_AddElement
<1>5. PICK j \in 1 .. Len(Edges) : Neighbors[v][i].weight = Edges[j].weight
  BY AdjacencyDrawn DEF Drawn
<1>6. Neighbors[v][i].weight \in S
  BY <1>2, <1>5
<1> HIDE DEF S
<1> QED
  BY <1>3, <1>4, <1>6, FiniteMax DEF Input!HeaviestEdge, S

\* Every edge is in the lists of both its ends.
LEMMA BothWays ==
  ASSUME NEW v \in Vertices, NEW i \in 1 .. Len(Neighbors[v])
  PROVE  Listed(Neighbors[Neighbors[v][i].to], v, Neighbors[v][i].weight)
<1> DEFINE u == Neighbors[v][i].to
<1>1. PICK j \in 1 .. Len(Edges) :
        /\ Neighbors[v][i].weight = Edges[j].weight
        /\ \/ Edges[j].v1 = v /\ Edges[j].v2 = u
           \/ Edges[j].v2 = v /\ Edges[j].v1 = u
  BY AdjacencyDrawn DEF Drawn
<1>2. u \in Vertices
  BY <1>1, EdgeLine
<1>3. /\ Edges[j].v1 = u => Listed(Neighbors[u], Edges[j].v2, Edges[j].weight)
      /\ Edges[j].v2 = u => Listed(Neighbors[u], Edges[j].v1, Edges[j].weight)
  BY <1>2, AdjacencyDrawn DEF Drawn
<1> QED
  BY <1>1, <1>3

\* main() gives every vertex that has an edge an index of its own.
LEMMA LinesIndex ==
  ASSUME Source = 0 \/ Neighbors[Source] # <<>>
  PROVE  IndexedGraph
<1>1. ASSUME NEW v \in Vertices, Neighbors[v] # <<>> PROVE Index[v] = v
  BY <1>1, InputAssumption DEF Input!VertexIndex
<1>2. ASSUME NEW v \in Vertices, NEW i \in 1 .. Len(Neighbors[v])
      PROVE  Index[Neighbors[v][i].to] = Neighbors[v][i].to
  <2> DEFINE u == Neighbors[v][i].to
  <2>0. Drawn(Neighbors[v], v, Len(Edges))
    BY AdjacencyDrawn
  <2>1. PICK j \in 1 .. Len(Edges) : u = Edges[j].v1 \/ u = Edges[j].v2
    BY <1>2, <2>0 DEF Drawn
  <2>2. u \in Vertices
    BY <2>1, EdgeLine
  <2>3. Neighbors[u] # <<>>
    <3>1. \E w, x : Listed(Neighbors[u], w, x)
      BY SMTT(30), <2>1, <2>2, AdjacencyDrawn DEF Drawn
    <3> QED
      BY <3>1 DEF Listed
  <2> QED
    BY <1>1, <2>2, <2>3
<1>3. Index[Source] = Source
  <2>1. CASE Neighbors[Source] # <<>>
    BY <1>1, <2>1, GraphAssumption
  <2>2. CASE Source = 0
    BY <2>2, GraphAssumption, InputAssumption DEF Input!VertexIndex
  <2> QED
    BY <2>1, <2>2
<1> QED
  BY <1>2, <1>3 DEF IndexedGraph

\* The distances main() writes are the lengths of the shortest paths for every
\* input file that has a line for its source, or whose source is vertex 0 (the
\* index of a vertex that no line mentions, main.cpp:53).
THEOREM ResultForInput ==
  ASSUME Source = 0 \/ Neighbors[Source] # <<>>
  PROVE  Spec => []ResultCorrect
BY LinesIndex, ResultIsCorrect

-----------------------------------------------------------------------------
\* Bounds f[seen][v] on the length of a path from v that visits no vertex of seen.
PathBounds ==
  {f \in [SUBSET Vertices -> [Vertices -> Nat]] :
     \A seen \in SUBSET Vertices, v \in Vertices : \A i \in 1 .. Len(Neighbors[v]) :
       Neighbors[v][i].to \notin seen =>
         Neighbors[v][i].weight + f[seen \cup {Neighbors[v][i].to}][Neighbors[v][i].to]
           <= f[seen][v]}

\* What LongestFrom takes the greatest of.
Lengths(f, seen, v) ==
  LET onward == {n \in Input!Range(Neighbors[v]) : n.to \notin seen}
  IN  {0} \cup {n.weight + f[seen \cup {n.to}][n.to] : n \in onward}

Longer(f, seen) == [v \in Vertices |-> Input!Max(Lengths(f, seen, v))]

LEMMA RangeTyped ==
  ASSUME NEW v \in Vertices
  PROVE  /\ Input!Range(Neighbors[v]) = {Neighbors[v][i] : i \in 1 .. Len(Neighbors[v])}
         /\ Len(Neighbors[v]) \in Nat
         /\ IsFiniteSet(Input!Range(Neighbors[v]))
         /\ \A n \in Input!Range(Neighbors[v]) : n.to \in Vertices /\ n.weight \in Nat
<1> DEFINE N == [to : Vertices, weight : Nat]
<1>1. \A n \in N : n.to \in Vertices /\ n.weight \in Nat
  OBVIOUS
<1>2. Neighbors[v] \in Seq(N)
  BY GraphAssumption
<1> HIDE DEF N
<1>3. /\ Input!Range(Neighbors[v]) = {Neighbors[v][i] : i \in 1 .. Len(Neighbors[v])}
      /\ Len(Neighbors[v]) \in Nat /\ DOMAIN Neighbors[v] = 1 .. Len(Neighbors[v])
      /\ \A i \in 1 .. Len(Neighbors[v]) : Neighbors[v][i] \in N
  BY <1>2 DEF Input!Range
<1>4. IsFiniteSet(Input!Range(Neighbors[v]))
  <2> DEFINE item == [i \in 1 .. Len(Neighbors[v]) |-> Neighbors[v][i]]
  <2>1. item \in Surjection(1 .. Len(Neighbors[v]), Input!Range(Neighbors[v]))
    BY <1>3 DEF Surjection
  <2>2. IsFiniteSet(1 .. Len(Neighbors[v]))
    BY <1>3, FS_Interval
  <2> QED
    BY <2>1, <2>2, FS_Surjection
<1> QED
  BY <1>1, <1>3, <1>4

\* They are finitely many numbers if f gives numbers.
LEMMA LengthsTyped ==
  ASSUME NEW v \in Vertices, NEW seen \in SUBSET Vertices, NEW f,
         \A u \in Vertices \ seen : f[seen \cup {u}][u] \in Nat
  PROVE  /\ Input!Max(Lengths(f, seen, v)) \in Nat
         /\ \A x \in Lengths(f, seen, v) : x <= Input!Max(Lengths(f, seen, v))
<1> DEFINE onward == {n \in Input!Range(Neighbors[v]) : n.to \notin seen}
           length(n) == n.weight + f[seen \cup {n.to}][n.to]
           T == {length(n) : n \in onward}
           len == [n \in onward |-> length(n)]
<1>1. \A n \in onward : length(n) \in Nat
  <2> SUFFICES ASSUME NEW n \in onward PROVE length(n) \in Nat
    OBVIOUS
  <2>1. n.to \in Vertices \ seen /\ n.weight \in Nat
    BY RangeTyped
  <2>2. f[seen \cup {n.to}][n.to] \in Nat
    BY <2>1
  <2> QED
    BY <2>1, <2>2
<1>2. Lengths(f, seen, v) = T \cup {0}
  BY DEF Lengths
<1>3. IsFiniteSet(onward)
  BY RangeTyped, FS_Subset
<1> HIDE DEF onward, length
<1>4. IsFiniteSet(T)
  <2>1. len \in Surjection(onward, T)
    BY DEF Surjection
  <2> QED
    BY <1>3, <2>1, FS_Surjection
<1>5. Lengths(f, seen, v) \in SUBSET Nat /\ Lengths(f, seen, v) # {}
  BY <1>1, <1>2
<1>6. IsFiniteSet(Lengths(f, seen, v))
  BY <1>2, <1>4, FS_AddElement
<1> QED
  BY <1>5, <1>6, FiniteMax

\* How many vertices are not seen.
Left(seen) == Cardinality(Vertices \ seen)

LEMMA LeftTyped ==
  ASSUME NEW seen \in SUBSET Vertices
  PROVE  /\ Left(seen) \in Nat /\ Left(seen) < Cardinality(Vertices) + 1
         /\ Cardinality(Vertices) \in Nat
         /\ \A u \in Vertices \ seen : Left(seen \cup {u}) = Left(seen) - 1
<1>1. IsFiniteSet(Vertices) /\ Cardinality(Vertices) \in Nat
  BY InputAssumption, FS_Interval, FS_CardinalityType DEF Input!InputVertices
<1>2. Left(seen) \in Nat /\ Left(seen) <= Cardinality(Vertices) /\ IsFiniteSet(Vertices \ seen)
  BY <1>1, FS_Subset, FS_CardinalityType DEF Left
<1>3. ASSUME NEW u \in Vertices \ seen PROVE Left(seen \cup {u}) = Left(seen) - 1
  <2>1. Vertices \ (seen \cup {u}) = (Vertices \ seen) \ {u}
    OBVIOUS
  <2>2. Cardinality((Vertices \ seen) \ {u}) = Cardinality(Vertices \ seen) - 1
    BY <1>2, FS_RemoveElement
  <2> QED
    BY <2>1, <2>2 DEF Left
<1>4. Left(seen) < Cardinality(Vertices) + 1
  BY <1>1, <1>2
<1> QED
  BY <1>1, <1>2, <1>3, <1>4

\* The recursion of LongestFrom has a solution, of numbers.
LEMMA LongestSolution ==
  \E g \in [SUBSET Vertices -> [Vertices -> Nat]] : g = [seen \in SUBSET Vertices |-> Longer(g, seen)]
<1> DEFINE W == SUBSET Vertices
           Solves(g, k) == /\ g \in [W -> [Vertices -> Nat]]
                           /\ \A seen \in W : Left(seen) < k => g[seen] = Longer(g, seen)
           Solved(k) == \E g : Solves(g, k)
           Bad == {k \in Nat : ~Solved(k)}
<1>3. Solved(0)
  <2> DEFINE g == [seen \in W |-> [v \in Vertices |-> 0]]
  <2>1. g \in [W -> [Vertices -> Nat]]
    OBVIOUS
  <2> HIDE DEF g
  <2>2. \A seen \in W : ~(Left(seen) < 0)
    BY LeftTyped
  <2> QED
    BY <2>1, <2>2
<1>4. ASSUME NEW k \in Nat \ {0}, Solved(k - 1) PROVE Solved(k)
  <2>1. PICK g : Solves(g, k - 1)
    BY <1>4
  <2> DEFINE h == [seen \in W |-> Longer(g, seen)]
  <2>2. h \in [W -> [Vertices -> Nat]]
    <3>1. ASSUME NEW seen \in W PROVE Longer(g, seen) \in [Vertices -> Nat]
      <4>1. \A u \in Vertices : g[seen \cup {u}][u] \in Nat
        BY <2>1
      <4>2. \A v \in Vertices : Input!Max(Lengths(g, seen, v)) \in Nat
        BY <4>1, LengthsTyped
      <4> QED
        BY <4>2 DEF Longer
    <3> QED
      BY <3>1
  <2>3. ASSUME NEW seen \in W, Left(seen) < k PROVE h[seen] = Longer(h, seen)
    <3>1. ASSUME NEW u \in Vertices \ seen PROVE g[seen \cup {u}] = h[seen \cup {u}]
      <4>1. (seen \cup {u}) \in W /\ Left(seen \cup {u}) < k - 1
        BY LeftTyped, <2>3
      <4> QED
        BY <2>1, <4>1
    <3>2. h[seen] = Longer(g, seen)
      OBVIOUS
    <3> HIDE DEF h
    <3>3. ASSUME NEW v \in Vertices PROVE Lengths(g, seen, v) = Lengths(h, seen, v)
      <4> DEFINE onward == {n \in Input!Range(Neighbors[v]) : n.to \notin seen}
      <4>1. ASSUME NEW n \in onward PROVE g[seen \cup {n.to}] = h[seen \cup {n.to}]
        <5>1. n.to \in Vertices \ seen
          BY RangeTyped
        <5> QED
          BY <3>1, <5>1
      <4> HIDE DEF onward
      <4>2. {n.weight + g[seen \cup {n.to}][n.to] : n \in onward}
              = {n.weight + h[seen \cup {n.to}][n.to] : n \in onward}
        BY <4>1
      <4> QED
        BY <4>2 DEF Lengths, onward
    <3>4. Longer(g, seen) = Longer(h, seen)
      BY <3>3 DEF Longer
    <3> QED
      BY <3>2, <3>4
  <2> HIDE DEF h
  <2> QED
    BY <2>2, <2>3
<1> HIDE DEF Solved
<1>5. Bad = {}
  <2> SUFFICES ASSUME Bad # {} PROVE FALSE
    OBVIOUS
  <2>1. PICK k \in Bad : \A m \in Bad : k <= m
    BY LeastNatural
  <2>2. k \in Nat \ {0} /\ k - 1 \in Nat /\ k - 1 \notin Bad
    BY <1>3, <2>1
  <2> QED
    BY <1>4, <2>2
<1>6. PICK g : Solves(g, Cardinality(Vertices) + 1)
  <2>1. Cardinality(Vertices) + 1 \in Nat
    BY LeftTyped
  <2> QED
    BY <1>5, <2>1 DEF Solved
<1>7. \A seen \in W : g[seen] = Longer(g, seen)
  BY LeftTyped, <1>6
<1>8. g = [seen \in W |-> Longer(g, seen)]
  BY <1>6, <1>7
<1> QED
  BY <1>6, <1>8

\* Its length is one of the bounds.
LEMMA LongestBounds == Input!LongestFrom \in PathBounds
<1> DEFINE W == SUBSET Vertices
           L == Input!LongestFrom
           Solves(g) == g = [seen \in W |-> Longer(g, seen)]
           Bad == {k \in Nat : \E seen \in W : Left(seen) = k /\ L[seen] \notin [Vertices -> Nat]}
<1>1. \E g : Solves(g)
  BY LongestSolution
<1>2. L = CHOOSE g : Solves(g)
  BY InputAssumption DEF Input!LongestFrom, Longer, Lengths
<1>3. L = [seen \in W |-> Longer(L, seen)]
  <2> HIDE DEF Solves, L
  <2>1. Solves(L)
    BY <1>1, <1>2, Zenon
  <2> QED
    BY <2>1 DEF Solves
<1> HIDE DEF L
<1>4. \A seen \in W : L[seen] = Longer(L, seen)
  BY <1>3
<1>5. ASSUME NEW seen \in W, \A u \in Vertices \ seen : L[seen \cup {u}] \in [Vertices -> Nat]
      PROVE  /\ L[seen] \in [Vertices -> Nat]
             /\ \A v \in Vertices : \A x \in Lengths(L, seen, v) : x <= L[seen][v]
  <2>1. ASSUME NEW v \in Vertices
        PROVE  /\ Input!Max(Lengths(L, seen, v)) \in Nat
               /\ \A x \in Lengths(L, seen, v) : x <= Input!Max(Lengths(L, seen, v))
    <3>1. \A u \in Vertices \ seen : L[seen \cup {u}][u] \in Nat
      BY <1>5
    <3> QED
      BY <3>1, LengthsTyped
  <2>2. L[seen] = [v \in Vertices |-> Input!Max(Lengths(L, seen, v))]
    BY <1>4 DEF Longer
  <2> QED
    BY <2>1, <2>2
<1>6. Bad = {}
  <2> SUFFICES ASSUME Bad # {} PROVE FALSE
    OBVIOUS
  <2>1. PICK k \in Bad : \A m \in Bad : k <= m
    BY LeastNatural
  <2>2. PICK seen \in W : Left(seen) = k /\ L[seen] \notin [Vertices -> Nat]
    BY <2>1
  <2>3. ASSUME NEW u \in Vertices \ seen PROVE L[seen \cup {u}] \in [Vertices -> Nat]
    <3>1. (seen \cup {u}) \in W /\ Left(seen \cup {u}) = k - 1 /\ k \in Nat /\ k - 1 \in Nat
      BY <2>2, LeftTyped
    <3>2. k - 1 \notin Bad
      BY <2>1, <3>1
    <3> QED
      BY <3>1, <3>2
  <2> QED
    BY <1>5, <2>2, <2>3
<1>7. \A seen \in W : L[seen] \in [Vertices -> Nat]
  BY <1>6, LeftTyped
<1>8. L \in [W -> [Vertices -> Nat]]
  <2>1. DOMAIN L = W /\ L = [seen \in W |-> L[seen]]
    BY <1>3, <1>4
  <2> QED
    BY <1>7, <2>1
<1>9. ASSUME NEW seen \in W, NEW v \in Vertices, NEW i \in 1 .. Len(Neighbors[v]),
             Neighbors[v][i].to \notin seen
      PROVE  Neighbors[v][i].weight + L[seen \cup {Neighbors[v][i].to}][Neighbors[v][i].to]
               <= L[seen][v]
  <2> DEFINE n == Neighbors[v][i]
             onward == {e \in Input!Range(Neighbors[v]) : e.to \notin seen}
  <2>1. n \in onward
    BY <1>9, RangeTyped
  <2>2. n.weight + L[seen \cup {n.to}][n.to] \in Lengths(L, seen, v)
    BY <2>1 DEF Lengths
  <2>3. \A u \in Vertices \ seen : L[seen \cup {u}] \in [Vertices -> Nat]
    BY <1>7
  <2> QED
    BY <1>5, <2>2, <2>3
<1> QED
  BY <1>8, <1>9 DEF PathBounds, L
-----------------------------------------------------------------------------
\* The reference

\* The lengths of the ways to v over a neighbour whose length is known, and its own.
Ways(f, v) ==
  LET steps == {n \in Input!Range(Neighbors[v]) : f[n.to] # INT_MAX}
  IN  {f[v]} \cup {f[n.to] + n.weight : n \in steps}

Nearer(f) == [v \in Vertices |-> Input!Min(Ways(f, v))]

OnlySource == [v \in Vertices |-> IF v = Source THEN 0 ELSE INT_MAX]

\* The shortest of them.
LEMMA NearerIs ==
  ASSUME NEW f \in [Vertices -> Nat], NEW v \in Vertices
  PROVE  /\ Input!Min(Ways(f, v)) \in Nat
         /\ Input!Min(Ways(f, v)) <= f[v]
         /\ \A i \in 1 .. Len(Neighbors[v]) : f[Neighbors[v][i].to] # INT_MAX =>
              Input!Min(Ways(f, v)) <= f[Neighbors[v][i].to] + Neighbors[v][i].weight
         /\ \/ Input!Min(Ways(f, v)) = f[v]
            \/ \E i \in 1 .. Len(Neighbors[v]) :
                 Input!Min(Ways(f, v)) = f[Neighbors[v][i].to] + Neighbors[v][i].weight
<1> DEFINE S == Ways(f, v)
<1>1. /\ Input!Range(Neighbors[v]) = {Neighbors[v][i] : i \in 1 .. Len(Neighbors[v])}
      /\ \A i \in 1 .. Len(Neighbors[v]) : Neighbors[v][i].to \in Vertices /\ Neighbors[v][i].weight \in Nat
  BY RangeTyped
<1>2. f[v] \in S
  BY DEF Ways
<1>3. \A i \in 1 .. Len(Neighbors[v]) : f[Neighbors[v][i].to] # INT_MAX =>
        f[Neighbors[v][i].to] + Neighbors[v][i].weight \in S
  BY <1>1 DEF Ways
<1>4. \A x \in S : \/ x = f[v]
                    \/ \E i \in 1 .. Len(Neighbors[v]) : x = f[Neighbors[v][i].to] + Neighbors[v][i].weight
  BY <1>1 DEF Ways
<1>5. S \in SUBSET Nat /\ S # {}
  BY <1>1, <1>2, <1>4
<1> HIDE DEF S
<1>6. \E x \in S : \A y \in S : x <= y
  BY <1>5, LeastNatural
<1>7. Input!Min(S) \in S /\ \A y \in S : Input!Min(S) <= y
  BY <1>6, Zenon DEF Input!Min
<1>8. Input!Min(S) \in Nat /\ Input!Min(S) <= f[v]
  BY <1>2, <1>5, <1>7
<1> QED
  BY <1>3, <1>4, <1>7, <1>8 DEF S

\* The recursion of Within has a solution, of numbers.
LEMMA WithinIs ==
  /\ NumVertices \in Nat
  /\ Input!Within[0] = OnlySource
  /\ \A k \in 0 .. NumVertices : Input!Within[k] \in [Vertices -> Nat]
  /\ \A k \in 1 .. NumVertices : Input!Within[k] = Nearer(Input!Within[k - 1])
<1> DEFINE K == 0 .. NumVertices
           Step(g, k) == IF k = 0 THEN OnlySource ELSE Nearer(g[k - 1])
           Eq(g) == g = [k \in K |-> Step(g, k)]
           Solves(g, n) == /\ g \in [K -> [Vertices -> Nat]]
                           /\ \A k \in K : k <= n => g[k] = Step(g, k)
           Solved(n) == \E g : Solves(g, n)
           Bad == {n \in Nat : ~Solved(n)}
           W == Input!Within
<1>1. NumVertices \in Nat /\ 0 \in K /\ \A k \in K : k \in Nat /\ (k # 0 => k - 1 \in K)
  BY InputAssumption
<1>2. OnlySource \in [Vertices -> Nat]
  BY GraphAssumption DEF OnlySource
<1>3. \A f \in [Vertices -> Nat] : Nearer(f) \in [Vertices -> Nat]
  BY NearerIs DEF Nearer
<1> HIDE DEF K
<1>4. Solved(0)
  <2> DEFINE g == [k \in K |-> OnlySource]
  <2>1. g \in [K -> [Vertices -> Nat]]
    BY <1>2
  <2>2. \A k \in K : k <= 0 => k = 0 /\ g[k] = OnlySource
    BY <1>1
  <2> HIDE DEF g
  <2> QED
    BY <2>1, <2>2
<1>5. ASSUME NEW n \in Nat \ {0}, Solved(n - 1) PROVE Solved(n)
  <2>1. PICK g : Solves(g, n - 1)
    BY <1>5
  <2> DEFINE h == [k \in K |-> Step(g, k)]
  <2>2. h \in [K -> [Vertices -> Nat]]
    <3>1. \A k \in K : Step(g, k) \in [Vertices -> Nat]
      BY <1>1, <1>2, <1>3, <2>1
    <3> HIDE DEF Step
    <3> QED
      BY <3>1
  <2>3. ASSUME NEW k \in K, k <= n PROVE h[k] = Step(h, k)
    <3>1. CASE k = 0
      BY <3>1
    <3>2. CASE k # 0
      <4>1. k - 1 \in K /\ k - 1 <= n - 1
        BY <1>1, <2>3, <3>2
      <4>2. g[k - 1] = h[k - 1]
        <5>1. g[k - 1] = Step(g, k - 1)
          BY <2>1, <4>1
        <5> HIDE DEF Step
        <5> QED
          BY <4>1, <5>1
      <4>3. h[k] = Nearer(g[k - 1])
        BY <3>2
      <4> HIDE DEF h
      <4> QED
        BY <3>2, <4>2, <4>3
    <3> QED
      BY <3>1, <3>2
  <2> HIDE DEF h, Step
  <2> QED
    BY <2>2, <2>3
<1> HIDE DEF Solved
<1>6. Bad = {}
  <2> SUFFICES ASSUME Bad # {} PROVE FALSE
    OBVIOUS
  <2>1. PICK n \in Bad : \A m \in Bad : n <= m
    BY LeastNatural
  <2>2. n \in Nat \ {0} /\ n - 1 \in Nat /\ n - 1 \notin Bad
    BY <1>4, <2>1
  <2> QED
    BY <1>5, <2>2
<1>7. PICK g : Solves(g, NumVertices)
  BY <1>1, <1>6 DEF Solved
<1>8. Eq(g)
  <2>1. \A k \in K : g[k] = Step(g, k)
    BY <1>7 DEF K
  <2> HIDE DEF Step
  <2> QED
    BY <1>7, <2>1
<1>9. W = CHOOSE f : Eq(f)
  BY InputAssumption DEF Input!Within, Nearer, Ways, OnlySource, K
<1>10. Eq(W)
  <2> HIDE DEF Eq, W
  <2> QED
    BY <1>8, <1>9, Zenon
<1> HIDE DEF W
<1>11. \A k \in K : W[k] = Step(W, k)
  <2> HIDE DEF Step
  <2> QED
    BY <1>10
<1>12. W[0] = OnlySource /\ \A k \in K \ {0} : W[k] = Nearer(W[k - 1])
  BY <1>1, <1>11
<1>13. \A k \in K : W[k] \in [Vertices -> Nat]
  <2> DEFINE Off == {k \in K : W[k] \notin [Vertices -> Nat]}
  <2> SUFFICES ASSUME Off # {} PROVE FALSE
    OBVIOUS
  <2>1. PICK k \in Off : \A m \in Off : k <= m
    BY <1>1, LeastNatural
  <2>2. k # 0
    BY <1>2, <1>12
  <2>3. k \in Nat /\ k - 1 \in K /\ ~(k <= k - 1)
    BY <1>1, <2>2
  <2>4. W[k - 1] \in [Vertices -> Nat]
    BY <2>1, <2>3
  <2> QED
    BY <1>3, <1>12, <2>2, <2>4
<1> QED
  BY <1>1, <1>12, <1>13 DEF K, W

\* What one more edge adds.
LEMMA WithinStep ==
  ASSUME NEW k \in 1 .. NumVertices, NEW v \in Vertices
  PROVE  /\ k - 1 \in 0 .. NumVertices /\ Input!Within[k - 1] \in [Vertices -> Nat]
         /\ Input!Within[k][v] \in Nat
         /\ Input!Within[k][v] <= Input!Within[k - 1][v]
         /\ \A i \in 1 .. Len(Neighbors[v]) : Input!Within[k - 1][Neighbors[v][i].to] # INT_MAX =>
              Input!Within[k][v] <= Input!Within[k - 1][Neighbors[v][i].to] + Neighbors[v][i].weight
         /\ \/ Input!Within[k][v] = Input!Within[k - 1][v]
            \/ \E i \in 1 .. Len(Neighbors[v]) :
                 Input!Within[k][v] = Input!Within[k - 1][Neighbors[v][i].to] + Neighbors[v][i].weight
<1>1. k - 1 \in 0 .. NumVertices
  BY WithinIs
<1>2. PICK f \in [Vertices -> Nat] : f = Input!Within[k - 1]
  BY <1>1, WithinIs
<1>3. Input!Within[k][v] = Input!Min(Ways(f, v))
  BY <1>2, WithinIs DEF Nearer
<1> QED
  BY <1>1, <1>2, <1>3, NearerIs

LEMMA VerticesFinite ==
  IsFiniteSet(Vertices) /\ Cardinality(Vertices) = NumVertices
<1>1. NumVertices \in Nat /\ Vertices = 0 .. NumVertices - 1
  BY InputAssumption DEF Input!InputVertices
<1>2. NumVertices - 1 \in Int /\ 0 \in Int
  BY <1>1
<1>3. IsFiniteSet(0 .. NumVertices - 1) /\ Cardinality(0 .. NumVertices - 1) = IF 0 > NumVertices - 1 THEN 0 ELSE NumVertices - 1 - 0 + 1
  BY <1>2, FS_Interval
<1> QED
  BY <1>1, <1>3

\* No length is longer than "no path".
LEMMA WithinBounded == \A k \in 0 .. NumVertices, v \in Vertices : Input!Within[k][v] <= INT_MAX
<1> DEFINE Low(k) == \A v \in Vertices : Input!Within[k][v] <= INT_MAX
           Bad == {k \in 0 .. NumVertices : ~Low(k)}
<1>1. Low(0)
  BY WithinIs, GraphAssumption DEF OnlySource
<1>2. ASSUME NEW k \in 1 .. NumVertices, Low(k - 1) PROVE Low(k)
  <2> SUFFICES ASSUME NEW v \in Vertices PROVE Input!Within[k][v] <= INT_MAX
    OBVIOUS
  <2>1. /\ Input!Within[k][v] <= Input!Within[k - 1][v]
        /\ Input!Within[k][v] \in Nat /\ Input!Within[k - 1][v] \in Nat
    BY WithinStep
  <2> QED
    BY <1>2, <2>1, GraphAssumption
<1> HIDE DEF Low
<1>3. Bad = {}
  <2> SUFFICES ASSUME Bad # {} PROVE FALSE
    OBVIOUS
  <2>1. Bad \in SUBSET Nat
    BY WithinIs
  <2>2. PICK k \in Bad : \A m \in Bad : k <= m
    BY <2>1, LeastNatural
  <2>3. k \in 1 .. NumVertices
    BY <1>1, <2>2
  <2>4. k - 1 \in 0 .. NumVertices /\ ~(k <= k - 1)
    BY <2>3, WithinIs
  <2> QED
    BY <1>2, <2>2, <2>3, <2>4
<1> QED
  BY <1>3 DEF Low

\* No path is shorter than labels allow.
LEMMA WithinAbove ==
  ASSUME NEW p \in Potentials
  PROVE  \A k \in 0 .. NumVertices, v \in Vertices : p[v] <= Input!Within[k][v]
<1> DEFINE Above(k) == \A v \in Vertices : p[v] <= Input!Within[k][v]
           Bad == {k \in 0 .. NumVertices : ~Above(k)}
<1>1. /\ p[Source] = 0 /\ \A v \in Vertices : p[v] \in Nat /\ p[v] <= INT_MAX
      /\ \A v \in Vertices : \A i \in 1 .. Len(Neighbors[v]) :
           p[Neighbors[v][i].to] <= p[v] + Neighbors[v][i].weight
  BY SMTT(30), GraphAssumption DEF Potentials
<1>2. Above(0)
  BY <1>1, WithinIs DEF OnlySource
<1>3. ASSUME NEW k \in 1 .. NumVertices, Above(k - 1) PROVE Above(k)
  <2> SUFFICES ASSUME NEW v \in Vertices PROVE p[v] <= Input!Within[k][v]
    OBVIOUS
  <2>1. CASE Input!Within[k][v] = Input!Within[k - 1][v]
    BY <1>3, <2>1
  <2>2. ASSUME NEW i \in 1 .. Len(Neighbors[v]),
               Input!Within[k][v] = Input!Within[k - 1][Neighbors[v][i].to] + Neighbors[v][i].weight
        PROVE  p[v] <= Input!Within[k][v]
    <3>1. PICK u \in Vertices, w \in Nat : u = Neighbors[v][i].to /\ w = Neighbors[v][i].weight
      BY EdgeTyped
    <3>2. PICK j \in 1 .. Len(Neighbors[u]) : Neighbors[u][j].to = v /\ Neighbors[u][j].weight = w
      BY <3>1, BothWays DEF Listed
    <3>3. p[v] <= p[u] + w
      BY <1>1, <3>2
    <3>4. p[u] <= Input!Within[k - 1][u]
      BY <1>3, <3>1
    <3>5. Input!Within[k - 1][u] \in Nat /\ p[u] \in Nat /\ p[v] \in Nat
      BY <1>1, <3>1, WithinStep
    <3> QED
      BY SMTT(30), <2>2, <3>1, <3>3, <3>4, <3>5
  <2> QED
    BY <2>1, <2>2, WithinStep
<1> HIDE DEF Above
<1>4. Bad = {}
  <2> SUFFICES ASSUME Bad # {} PROVE FALSE
    OBVIOUS
  <2>1. Bad \in SUBSET Nat
    BY WithinIs
  <2>2. PICK k \in Bad : \A m \in Bad : k <= m
    BY <2>1, LeastNatural
  <2>3. k \in 1 .. NumVertices
    BY <1>2, <2>2
  <2>4. k - 1 \in 0 .. NumVertices /\ ~(k <= k - 1)
    BY <2>3, WithinIs
  <2> QED
    BY <1>3, <2>2, <2>3, <2>4
<1> QED
  BY <1>4 DEF Above

\* Of the vertices outside S, with the source in S, a nearest one has a shortest
\* path whose last edge comes from S: else the labels outside S could grow.
LEMMA Crossing ==
  ASSUME NEW d, ShortestDistances(d), NEW S \in SUBSET Vertices, Source \in S,
         NEW x \in Vertices \ S, d[x] # INT_MAX
  PROVE  \E u \in S : \E i \in 1 .. Len(Neighbors[u]) :
           /\ Neighbors[u][i].to \notin S
           /\ d[Neighbors[u][i].to] = d[u] + Neighbors[u][i].weight
<1> DEFINE Crosses(u, i) == Neighbors[u][i].to \notin S
           Out(u) == {i \in 1 .. Len(Neighbors[u]) : Crosses(u, i)}
           Cross == {n \in Nat : \E u \in S : \E i \in Out(u) : n = d[u] + Neighbors[u][i].weight}
<1>1. /\ d \in [Vertices -> 0 .. INT_MAX] /\ d[Source] = 0
      /\ \A v \in Vertices : \A i \in 1 .. Len(Neighbors[v]) :
           d[Neighbors[v][i].to] <= d[v] + Neighbors[v][i].weight
  BY DEF ShortestDistances, Potentials
<1>2. \A v \in Vertices : d[v] \in Nat /\ d[v] <= INT_MAX
  BY <1>1, GraphAssumption
<1>3. \A v \in Vertices : \A i \in 1 .. Len(Neighbors[v]) :
        Neighbors[v][i].to \in Vertices /\ Neighbors[v][i].weight \in Nat
  BY EdgeTyped
<1>4. PICK M \in Cross \cup {INT_MAX} : \A n \in Cross \cup {INT_MAX} : M <= n
  <2>1. Cross \cup {INT_MAX} \in SUBSET Nat
    BY GraphAssumption
  <2> HIDE DEF Cross
  <2> QED
    BY <2>1, LeastNatural
<1>5. M \in Nat /\ M <= INT_MAX
  BY <1>4, GraphAssumption
<1>6. \A u \in S : \A i \in Out(u) : M <= d[u] + Neighbors[u][i].weight
  <2> SUFFICES ASSUME NEW u \in S, NEW i \in Out(u) PROVE M <= d[u] + Neighbors[u][i].weight
    OBVIOUS
  <2>1. d[u] + Neighbors[u][i].weight \in Nat
    BY <1>2, <1>3
  <2>2. d[u] + Neighbors[u][i].weight \in Cross
    BY <2>1
  <2> QED
    BY <1>4, <2>2
<1> DEFINE p == [v \in Vertices |-> IF v \in S \/ M <= d[v] THEN d[v] ELSE M]
<1>7. p \in Potentials
  <2>1. p \in [Vertices -> 0 .. INT_MAX]
    BY <1>1, <1>2, <1>5
  <2>2. p[Source] = 0
    BY <1>1, GraphAssumption
  <2>3. ASSUME NEW v \in Vertices, NEW i \in 1 .. Len(Neighbors[v])
        PROVE  p[Neighbors[v][i].to] <= p[v] + Neighbors[v][i].weight
    <3>1. PICK u \in Vertices, w \in Nat : u = Neighbors[v][i].to /\ w = Neighbors[v][i].weight
      BY <1>3
    <3>2. d[u] <= d[v] + w
      BY <1>1, <3>1
    <3>3. v \in S /\ u \notin S => M <= d[v] + w
      BY <1>6, <3>1
    <3>4. d[u] \in Nat /\ d[v] \in Nat
      BY <1>2
    <3>5. /\ p[u] = IF u \in S \/ M <= d[u] THEN d[u] ELSE M
          /\ p[v] = IF v \in S \/ M <= d[v] THEN d[v] ELSE M
      OBVIOUS
    <3> HIDE DEF p
    <3>6. p[u] <= p[v] + w
      BY <1>5, <3>2, <3>3, <3>4, <3>5
    <3> QED
      BY <3>1, <3>6
  <2> HIDE DEF p
  <2> QED
    BY <2>1, <2>2, <2>3 DEF Potentials
<1>8. \A v \in Vertices \ S : M <= d[v]
  <2> SUFFICES ASSUME NEW v \in Vertices \ S, ~(M <= d[v]) PROVE FALSE
    OBVIOUS
  <2>1. p[v] <= d[v]
    <3> HIDE DEF p
    <3> QED
      BY <1>7 DEF ShortestDistances
  <2>2. p[v] = M
    OBVIOUS
  <2> QED
    BY <2>1, <2>2
<1>9. M \in Cross
  <2>1. M <= d[x] /\ d[x] < INT_MAX
    BY <1>2, <1>8, GraphAssumption
  <2>2. M # INT_MAX
    BY <1>2, <1>5, <2>1, GraphAssumption
  <2> QED
    BY <1>4, <2>2
<1>10. PICK u \in S : \E i \in Out(u) : M = d[u] + Neighbors[u][i].weight
  BY <1>9
<1>11. PICK i \in Out(u) : M = d[u] + Neighbors[u][i].weight
  BY <1>10
<1>12. PICK v \in Vertices \ S : v = Neighbors[u][i].to
  BY <1>3, <1>11
<1>13. M <= d[v] /\ d[v] <= M
  BY <1>1, <1>8, <1>11, <1>12
<1>14. d[v] = M
  BY <1>2, <1>5, <1>13
<1> QED
  BY <1>11, <1>12, <1>14

\* The vertices whose distance k edges are enough for.
Near(d, k, S) ==
  /\ S \in SUBSET Vertices /\ Source \in S
  /\ \A v \in S : Input!Within[k][v] <= d[v]
  /\ Cardinality(S) >= k + 1 \/ \A v \in Vertices \ S : d[v] = INT_MAX

\* One more edge is enough for one vertex more.
LEMMA OneNearer ==
  ASSUME NEW d, ShortestDistances(d), NEW k \in 1 .. NumVertices, NEW S, Near(d, k - 1, S)
  PROVE  \E T : Near(d, k, T)
<1>1. S \in SUBSET Vertices /\ Source \in S /\ \A v \in S : Input!Within[k - 1][v] <= d[v]
  BY DEF Near
<1>2. \A v \in Vertices : d[v] \in Nat /\ d[v] <= INT_MAX
  BY GraphAssumption DEF ShortestDistances, Potentials
<1>3. \A v \in Vertices : /\ Input!Within[k - 1][v] \in Nat /\ Input!Within[k][v] \in Nat
                           /\ Input!Within[k][v] <= Input!Within[k - 1][v]
  BY WithinStep
<1>4. \A v \in S : Input!Within[k][v] <= d[v]
  BY <1>1, <1>2, <1>3
<1>5. CASE \A v \in Vertices \ S : d[v] = INT_MAX
  BY <1>1, <1>4, <1>5 DEF Near
<1>6. CASE \E v \in Vertices \ S : d[v] # INT_MAX
  <2>1. PICK u \in S : \E i \in 1 .. Len(Neighbors[u]) :
           /\ Neighbors[u][i].to \notin S
           /\ d[Neighbors[u][i].to] = d[u] + Neighbors[u][i].weight
    BY <1>1, <1>6, Crossing
  <2>2. PICK i \in 1 .. Len(Neighbors[u]) :
           /\ Neighbors[u][i].to \notin S
           /\ d[Neighbors[u][i].to] = d[u] + Neighbors[u][i].weight
    BY <2>1
  <2>3. PICK v \in Vertices, w \in Nat : v = Neighbors[u][i].to /\ w = Neighbors[u][i].weight
    BY <1>1, EdgeTyped
  <2>4. v \notin S /\ d[v] = d[u] + w /\ u \in Vertices
    BY <1>1, <2>2, <2>3
  <2>5. PICK j \in 1 .. Len(Neighbors[v]) : Neighbors[v][j].to = u /\ Neighbors[v][j].weight = w
    <3>1. Listed(Neighbors[Neighbors[u][i].to], u, Neighbors[u][i].weight)
      BY <2>4, BothWays
    <3>2. Listed(Neighbors[v], u, w)
      BY <2>3, <3>1
    <3> QED
      BY <3>2 DEF Listed
  <2>6. Input!Within[k - 1][u] <= d[u] /\ (Input!Within[k - 1][u] = INT_MAX => d[u] = INT_MAX)
    BY SMTT(30), <1>1, <1>2, <2>4, GraphAssumption
  <2>7. Input!Within[k][v] <= d[v]
    <3>0. /\ d[u] \in Nat /\ d[v] \in Nat /\ d[u] <= INT_MAX /\ d[v] <= INT_MAX /\ INT_MAX \in Nat
          /\ Input!Within[k - 1][u] \in Nat /\ Input!Within[k][v] \in Nat
      BY <1>2, <1>3, <2>4, GraphAssumption
    <3>1. CASE Input!Within[k - 1][u] # INT_MAX
      <4>1. Input!Within[k][v] <= Input!Within[k - 1][u] + w
        BY <2>5, <3>1, WithinStep
      <4> QED
        BY ONLY SMTT(30), <2>4, <2>6, <3>0, <4>1, w \in Nat
    <3>2. CASE Input!Within[k - 1][u] = INT_MAX
      <4>1. d[v] = INT_MAX
        BY ONLY <2>4, <2>6, <3>0, <3>2, w \in Nat
      <4>2. Input!Within[k][v] <= INT_MAX
        BY WithinBounded
      <4> QED
        BY <4>1, <4>2
    <3> QED
      BY <3>1, <3>2
  <2>8. Cardinality(S) \in Nat /\ Cardinality(S \cup {v}) = Cardinality(S) + 1
    <3>1. IsFiniteSet(S)
      BY <1>1, VerticesFinite, FS_Subset
    <3> QED
      BY <2>4, <3>1, FS_AddElement, FS_CardinalityType
  <2>9. k \in Nat /\ Cardinality(S) >= (k - 1) + 1
    BY <1>6, WithinIs DEF Near
  <2>10. Cardinality(S \cup {v}) >= k + 1
    BY <2>8, <2>9
  <2>11. Near(d, k, S \cup {v})
    BY <1>1, <1>4, <2>3, <2>7, <2>10 DEF Near
  <2> QED
    BY <2>11
<1> QED
  BY <1>5, <1>6

\* As many edges as there are vertices are enough.
LEMMA WithinReaches ==
  ASSUME NEW d, ShortestDistances(d)
  PROVE  \A v \in Vertices : Input!Within[NumVertices][v] <= d[v]
<1> DEFINE Bad == {k \in 0 .. NumVertices : ~(\E S : Near(d, k, S))}
<1>1. \E S : Near(d, 0, S)
  <2>1. d[Source] = 0 /\ Input!Within[0][Source] = 0
    BY WithinIs, GraphAssumption DEF ShortestDistances, Potentials, OnlySource
  <2>2. Cardinality({Source}) = 1
    BY FS_Singleton
  <2>3. Near(d, 0, {Source})
    BY <2>1, <2>2, GraphAssumption DEF Near
  <2> QED
    BY <2>3
<1>2. Bad = {}
  <2> SUFFICES ASSUME Bad # {} PROVE FALSE
    OBVIOUS
  <2>1. Bad \in SUBSET Nat
    BY WithinIs
  <2>2. PICK k \in Bad : \A m \in Bad : k <= m
    BY <2>1, LeastNatural
  <2>3. k \in 1 .. NumVertices
    BY <1>1, <2>2
  <2>4. k - 1 \in 0 .. NumVertices /\ ~(k <= k - 1)
    BY <2>3, WithinIs
  <2> QED
    BY <2>2, <2>3, <2>4, OneNearer
<1>3. PICK S : Near(d, NumVertices, S)
  BY <1>2, WithinIs
<1>4. \A v \in Vertices \ S : d[v] = INT_MAX
  <2>1. S \in SUBSET Vertices
    BY <1>3 DEF Near
  <2>2. Cardinality(S) \in Nat /\ Cardinality(S) <= NumVertices
    BY <2>1, VerticesFinite, FS_Subset, FS_CardinalityType
  <2>3. NumVertices \in Nat
    BY WithinIs
  <2>4. ~(Cardinality(S) >= NumVertices + 1)
    BY <2>2, <2>3
  <2> QED
    BY <1>3, <2>4 DEF Near
<1>5. \A v \in Vertices : Input!Within[NumVertices][v] <= INT_MAX
  BY WithinBounded, WithinIs
<1> QED
  BY <1>3, <1>4, <1>5 DEF Near

\* The greatest labels are the lengths found path by path.
LEMMA ReferenceIs ==
  ASSUME NEW d, ShortestDistances(d)
  PROVE  d = Input!ShortestDistance
<1>1. d \in Potentials
  BY DEF ShortestDistances
<1>2. \A v \in Vertices : d[v] \in Nat
  BY <1>1, GraphAssumption DEF Potentials
<1>3. NumVertices \in 0 .. NumVertices
  BY WithinIs
<1>4. Input!Within[NumVertices] \in [Vertices -> Nat]
  BY <1>3, WithinIs
<1>5. \A v \in Vertices : d[v] <= Input!Within[NumVertices][v] /\ Input!Within[NumVertices][v] <= d[v]
  BY <1>1, <1>3, WithinAbove, WithinReaches
<1>6. \A v \in Vertices : d[v] = Input!Within[NumVertices][v]
  BY <1>2, <1>4, <1>5
<1>7. d \in [Vertices -> Nat]
  BY <1>1, <1>2 DEF Potentials
<1> QED
  BY <1>4, <1>6, <1>7 DEF Input!ShortestDistance

\* What main() writes to output.txt are the lengths that a sequential search over
\* the lines of the input finds, path by path (ParallelDijkstra.cpp:236-240).
THEOREM ResultIsReference ==
  ASSUME Source = 0 \/ Neighbors[Source] # <<>>
  PROVE  Spec => [](main = "joined" => distances = Input!ShortestDistance)
<1>1. ResultCorrect => (main = "joined" => distances = Input!ShortestDistance)
  BY ReferenceIs DEF ResultCorrect
<1> QED
  BY <1>1, ResultForInput, PTL

-----------------------------------------------------------------------------
\* The sums

Settled == \A t \in Threads : pc[t] \in Relaxing => distances[curr[t].vertex] <= curr[t].dist

\* Offer o was found along a path of the vertices of seen, each of which had a
\* distance no greater than o's by then.
FoundAlong(f, o, seen) ==
  /\ o.vertex \in seen
  /\ \A u \in seen \ {o.vertex} : distances[u] <= o.dist
  /\ o.dist + f[seen][o.vertex] <= f[{Source}][Source]

Found(f) ==
  \A o \in Offers : Carried(o) => \E seen \in SUBSET Vertices : FoundAlong(f, o, seen)

LEMMA RelaxingBefore ==
  ASSUME OInv, [Next]_vars, NEW t \in Threads, pc'[t] \in Relaxing
  PROVE  /\ curr'[t] = curr[t]
         /\ \/ pc[t] \in Relaxing
            \/ Update(t) /\ pc[t] = "update" /\ 1 <= Len(Neighbors[curr[t].vertex])
<1>0. pc \in [Threads -> PCs] /\ curr \in [Threads -> Offers \cup {NULL}]
  BY DEF OInv, Control, Typed, Pool
<1>1. CASE pc'[t] = pc[t] /\ curr'[t] = curr[t]
  <2>1. pc[t] \in Relaxing
    BY <1>1
  <2> QED
    BY <1>1, <2>1
<1>2. CASE MainStep \/ UNCHANGED vars
  <2>1. pc'[t] = pc[t] /\ curr'[t] = curr[t]
    BY <1>0, <1>2 DEF MainStep, MainInsert, MainInserted, Create, Join, vars, threadVars, Relaxing
  <2> QED
    BY <1>1, <2>1
<1>3. ASSUME NEW w \in Threads, QueueStep(w) \/ ThreadStep(w), w # t
      PROVE  pc'[t] = pc[t] /\ curr'[t] = curr[t]
  <2>1. Frame(w)
    BY <1>3, FrameQueue, FrameThread DEF OInv
  <2> QED
    BY <1>3, <2>1 DEF Frame
<1>4. CASE QueueStep(t)
  BY <1>1, <1>4 DEF QueueStep, threadVars
<1>5. CASE ThreadStep(t)
  <2>1. CASE LockOffer(t) \/ RelaxInsert(t)
    <3>1. pc[t] \in Relaxing /\ curr'[t] = curr[t]
      BY <2>1 DEF LockOffer, RelaxInsert, Goto, Relaxing
    <3> QED
      BY <3>1
  <2>2. ASSUME NEW from, NEW i, NextNeighbor(t, from, i)
        PROVE  pc[t] = from /\ curr'[t] = curr[t] /\ i <= Len(Neighbors[curr[t].vertex])
    BY <1>0, <2>2 DEF NextNeighbor, Goto, Relaxing
  <2>3. CASE RelaxNothing(t) \/ RelaxInserted(t)
    <3>1. NextNeighbor(t, "compareOffer", edge[t] + 1) \/ NextNeighbor(t, "inserting", edge[t] + 1)
      BY <2>3 DEF RelaxNothing, RelaxInserted
    <3>2. pc[t] \in {"compareOffer", "inserting"} /\ curr'[t] = curr[t]
      BY <2>2, <3>1
    <3>3. pc[t] \in Relaxing
      BY <3>2 DEF Relaxing
    <3> QED
      BY <3>2, <3>3
  <2>4. CASE Update(t)
    BY <2>2, <2>4 DEF Update
  <2>5. CASE ~(LockOffer(t) \/ RelaxInsert(t) \/ RelaxNothing(t) \/ RelaxInserted(t) \/ Update(t))
    BY <1>0, <1>5, <2>5 DEF ThreadStep, LoopEmpty, LoopDelete, LoopSpin, GotNothing, MarkDone, FinishedWork,
           GotMin, Improves, Stale, Goto, Relaxing
  <2> QED
    BY <2>1, <2>3, <2>4, <2>5
<1> QED
  BY <1>1, <1>2, <1>3, <1>4, <1>5 DEF Next, Ended

LEMMA SettledNext ==
  ASSUME OInv, OInv', Keeps, Indexed, Settled, [Next]_vars
  PROVE  Settled'
<1> SUFFICES ASSUME NEW t \in Threads, pc'[t] \in Relaxing
             PROVE  distances'[curr'[t].vertex] <= curr'[t].dist
  BY DEF Settled
<1>1. curr'[t] = curr[t] /\ (pc[t] \in Relaxing \/ (Update(t) /\ pc[t] = "update"))
  BY RelaxingBefore
<1>2. pc[t] \in Busy
  BY <1>1 DEF Relaxing, Busy
<1>3. curr[t] \in Offers /\ curr[t].vertex \in Vertices /\ curr[t].dist \in Nat
  BY <1>2, CurrTyped DEF OInv
<1>4. distances[curr[t].vertex] \in Nat /\ distances'[curr[t].vertex] \in Nat
      /\ distances'[curr[t].vertex] <= distances[curr[t].vertex]
  BY <1>3 DEF OInv, Typed, Data, Keeps
<1>5. CASE pc[t] \in Relaxing
  <2>1. distances[curr[t].vertex] <= curr[t].dist
    BY <1>5 DEF Settled
  <2> QED
    BY <1>1, <1>3, <1>4, <2>1
<1>6. CASE Update(t) /\ pc[t] = "update"
  <2>1. Carried(curr[t])
    BY <1>6, <1>3 DEF Carried, Pending, Settles
  <2>2. CurrIndex(t) = curr[t].vertex
    BY <1>3, <2>1 DEF Indexed, CurrIndex
  <2>3. distances'[curr[t].vertex] = curr[t].dist
    BY <1>3, <1>6, <2>2 DEF Update, OInv, Typed, Data
  <2> QED
    BY <1>1, <1>3, <2>3
<1> QED
  BY <1>1, <1>5, <1>6

LEMMA PathBoundTyped ==
  ASSUME NEW f \in PathBounds, NEW seen \in SUBSET Vertices, NEW v \in Vertices
  PROVE  f[seen][v] \in Nat
<1>1. f \in [SUBSET Vertices -> [Vertices -> Nat]]
  BY DEF PathBounds
<1>2. f[seen] \in [Vertices -> Nat]
  BY <1>1
<1> QED
  BY <1>2

\* An offer that is better than its vertex's distance is for a vertex its path
\* has not met.
LEMMA FoundNext ==
  ASSUME IndexedGraph, OInv, OInv', Keeps, Settled, NEW f \in PathBounds, Found(f), [Next]_vars
  PROVE  Found(f)'
<1> SUFFICES ASSUME NEW o \in Offers, Carried(o)'
             PROVE  \E seen \in SUBSET Vertices : FoundAlong(f, o, seen)'
  BY DEF Found
<1>0. ASSUME NEW u \in Vertices
      PROVE  distances[u] \in Nat /\ distances'[u] \in Nat /\ distances'[u] <= distances[u]
  BY DEF OInv, Typed, Data, Keeps
<1>1. ASSUME NEW seen \in SUBSET Vertices, o.vertex \in seen
      PROVE  f[seen][o.vertex] \in Nat /\ f[{Source}][Source] \in Nat /\ o.dist \in Nat
  <2>1. o.vertex \in Vertices /\ o.dist \in Nat /\ {Source} \in SUBSET Vertices /\ Source \in Vertices
    BY GraphAssumption, OfferFields
  <2> QED
    BY <2>1, PathBoundTyped
<1>2. CASE Carried(o)
  <2>1. PICK seen \in SUBSET Vertices : FoundAlong(f, o, seen)
    BY <1>2 DEF Found
  <2>2. ASSUME NEW u \in seen \ {o.vertex} PROVE distances'[u] <= o.dist
    <3>1. distances[u] <= o.dist
      BY <2>1 DEF FoundAlong
    <3> QED
      BY <1>0, <3>1, OfferFields
  <2>3. FoundAlong(f, o, seen)'
    BY <2>1, <2>2 DEF FoundAlong
  <2> QED
    BY <2>3
<1>3. CASE o.vertex = Source /\ o.dist = 0
  <2>1. FoundAlong(f, o, {Source})'
    BY <1>1, <1>3, GraphAssumption DEF FoundAlong
  <2> QED
    BY <2>1, GraphAssumption
<1>4. ASSUME NEW t \in Threads, pc[t] \in Relaxing, Alt(t) < distances[RelaxIndex(t)],
             o.vertex = Neighbor(t).to, o.dist = Alt(t)
      PROVE  \E seen \in SUBSET Vertices : FoundAlong(f, o, seen)'
  <2> DEFINE c == curr[t]  n == Neighbor(t)
  <2>1. /\ c \in Offers /\ Carried(c) /\ c.vertex \in Vertices /\ c.dist \in Nat
        /\ edge[t] \in 1 .. Len(Neighbors[c.vertex]) /\ n = Neighbors[c.vertex][edge[t]]
        /\ n.to \in Vertices /\ Alt(t) \in Nat /\ Alt(t) = c.dist + n.weight
    BY <1>4, EdgeRelaxed
  <2>2. n.weight \in Nat
    BY <2>1, EdgeTyped
  <2>3. PICK seen \in SUBSET Vertices : FoundAlong(f, c, seen)
    BY <2>1 DEF Found
  <2>4. RelaxIndex(t) = n.to
    BY <2>1 DEF IndexedGraph, RelaxIndex
  <2>5. ASSUME NEW u \in seen PROVE distances[u] <= c.dist
    BY <1>4, <2>3 DEF FoundAlong, Settled
  <2> HIDE DEF c, n
  <2>6. n.to \notin seen
    <3> SUFFICES ASSUME n.to \in seen PROVE FALSE
      OBVIOUS
    <3>1. distances[n.to] \in Nat /\ distances[n.to] <= c.dist /\ Alt(t) < distances[n.to]
      BY <1>0, <1>4, <2>1, <2>4, <2>5
    <3> QED
      BY <2>1, <2>2, <3>1
  <2> DEFINE more == seen \cup {o.vertex}
  <2>7. o.vertex = n.to /\ o.dist = Alt(t)
    BY <1>4 DEF n
  <2>8. more \in SUBSET Vertices
    BY <2>1, <2>7
  <2>9. n.weight + f[more][n.to] <= f[seen][c.vertex]
    BY <2>1, <2>6, <2>7 DEF PathBounds
  <2>10. f[more][n.to] \in Nat /\ f[seen][c.vertex] \in Nat /\ f[{Source}][Source] \in Nat
    <3>1. {Source} \in SUBSET Vertices /\ Source \in Vertices
      BY GraphAssumption
    <3> QED
      BY <2>1, <2>8, <3>1, PathBoundTyped
  <2>11. c.dist + f[seen][c.vertex] <= f[{Source}][Source]
    BY <2>3 DEF FoundAlong
  <2>12. Alt(t) + f[more][n.to] <= f[{Source}][Source]
    <3>1. /\ Alt(t) = c.dist + n.weight /\ c.dist \in Nat
      BY <2>1
    <3> HIDE DEF more
    <3> QED
      BY ONLY <2>2, <2>9, <2>10, <2>11, <3>1
  <2>13. ASSUME NEW u \in more \ {o.vertex} PROVE distances'[u] <= o.dist
    <3>1. distances[u] <= c.dist /\ u \in Vertices
      BY <2>5
    <3> QED
      BY SMTT(30), <1>0, <2>1, <2>2, <2>7, <3>1
  <2>14. FoundAlong(f, o, more)'
    BY <2>7, <2>12, <2>13 DEF FoundAlong
  <2> QED
    BY <2>8, <2>14
<1> QED
  BY <1>2, <1>3, <1>4, CarriedNext DEF Born

LEMMA FoundInit == ASSUME Init, NEW f PROVE Settled /\ Found(f)
<1>1. \A o \in Offers : ~Carried(o)
  BY DEF Init, Carried, Pending, queue!PoolInit, queue!Owning, Settles, Relaxing
<1> QED
  BY <1>1 DEF Init, Settled, Found, Relaxing

LEMMA SumsAreBounded ==
  ASSUME OInv, Found(Input!LongestFrom)
  PROVE  SumsBounded
<1> DEFINE f == Input!LongestFrom
<1> SUFFICES ASSUME NEW t \in Threads, pc[t] \in Relaxing
             PROVE  Alt(t) <= Input!LongestPath + Input!HeaviestEdge
  BY DEF SumsBounded, Relaxing
<1>1. /\ curr[t] \in Offers /\ Carried(curr[t]) /\ curr[t].vertex \in Vertices /\ curr[t].dist \in Nat
      /\ edge[t] \in 1 .. Len(Neighbors[curr[t].vertex])
      /\ Neighbor(t) = Neighbors[curr[t].vertex][edge[t]]
      /\ Alt(t) = curr[t].dist + Neighbor(t).weight
  BY EdgeRelaxed
<1>2. PICK seen \in SUBSET Vertices : FoundAlong(f, curr[t], seen)
  BY <1>1 DEF Found
<1>3. f[seen][curr[t].vertex] \in Nat /\ f[{Source}][Source] \in Nat
  <2>1. {Source} \in SUBSET Vertices /\ Source \in Vertices
    BY GraphAssumption
  <2> QED
    BY <1>1, <2>1, LongestBounds, PathBoundTyped
<1>4. curr[t].dist + f[seen][curr[t].vertex] <= f[{Source}][Source]
  BY <1>2 DEF FoundAlong
<1>5. Neighbor(t).weight \in Nat /\ Neighbor(t).weight <= Input!HeaviestEdge /\ Input!HeaviestEdge \in Nat
  BY <1>1, EdgeTyped, WeightBounded
<1>6. Input!LongestPath = f[{Source}][Source]
  BY DEF Input!LongestPath
<1>7. Alt(t) = curr[t].dist + Neighbor(t).weight /\ curr[t].dist \in Nat
  BY <1>1
<1> HIDE DEF f
<1>8. Alt(t) <= f[{Source}][Source] + Input!HeaviestEdge
  BY ONLY <1>3, <1>4, <1>5, <1>7
<1> QED
  BY <1>6, <1>8

\* A source without an edge is the only vertex met, and nothing is relaxed.
Alone ==
  /\ \A t \in Threads : pc[t] \notin Relaxing
  /\ \A o \in Offers : Carried(o) => o.vertex = Source

LEMMA AloneNext ==
  ASSUME Neighbors[Source] = <<>>, OInv, Alone, [Next]_vars
  PROVE  Alone'
<1>1. ASSUME NEW t \in Threads, pc'[t] \in Relaxing PROVE FALSE
  <2>1. pc[t] = "update" /\ 1 <= Len(Neighbors[curr[t].vertex])
    BY <1>1, RelaxingBefore DEF Alone
  <2>2. curr[t] \in Offers
    BY <2>1, CurrTyped DEF OInv, Busy
  <2>3. curr[t].vertex = Source
    BY <2>1, <2>2 DEF Alone, Carried, Pending, Settles
  <2> QED
    BY <2>1, <2>3
<1>2. ASSUME NEW o \in Offers, Carried(o)' PROVE o.vertex = Source
  BY <1>2, CarriedNext DEF Alone, Born
<1> QED
  BY <1>1, <1>2 DEF Alone

LEMMA AloneInit == Init => Alone
BY DEF Init, Alone, Carried, Pending, queue!PoolInit, queue!Owning, Settles, Relaxing

\* The sum that a thread computes for an edge is at most the length of a longest
\* path without repeated vertices and the weight of the heaviest line, for every
\* input file, any number of threads and any order of the offers: curr_dist +
\* weight overflows only if such a path does (ParallelDijkstra.cpp:163).
THEOREM SumsStayBounded == Spec => []SumsBounded
<1>1. CASE Neighbors[Source] = <<>>
  <2> DEFINE Inv == OInv /\ Alone
  <2>1. Init => Inv
    BY OInvInit, AloneInit
  <2>2. Inv /\ [Next]_vars => Inv'
    BY <1>1, OInvNext, AloneNext
  <2>3. Inv => SumsBounded
    BY DEF Alone, SumsBounded, Relaxing
  <2> QED
    BY <2>1, <2>2, <2>3, PTL DEF Spec
<1>2. CASE Neighbors[Source] # <<>>
  <2> DEFINE Inv == RInv /\ Settled /\ Found(Input!LongestFrom)
  <2>0. IndexedGraph
    BY <1>2, LinesIndex
  <2>1. Init => Inv
    BY <2>0, RInvInit, FoundInit
  <2>2. Inv /\ [Next]_vars => Inv'
    <3> SUFFICES ASSUME Inv, [Next]_vars PROVE Inv'
      OBVIOUS
    <3>1. RInv' /\ OInv /\ OInv' /\ Keeps /\ Indexed
      BY <2>0, RInvNext, OInvNext DEF RInv
    <3>2. Settled'
      BY <3>1, SettledNext
    <3>3. Found(Input!LongestFrom)'
      BY <2>0, <3>1, LongestBounds, FoundNext
    <3> QED
      BY <3>1, <3>2, <3>3
  <2>3. Inv => SumsBounded
    BY SumsAreBounded DEF RInv
  <2> QED
    BY <2>1, <2>2, <2>3, PTL DEF Spec
<1> QED
  BY <1>1, <1>2
=============================================================================
