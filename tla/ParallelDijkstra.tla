-------------------------- MODULE ParallelDijkstra --------------------------
(***************************************************************************)
(* dijkstra_shortest_path and parallel_Dijkstra (ParallelDijkstra.cpp):    *)
(* main inserts the source, starts p threads, joins them and reads         *)
(* distances; each thread takes offers from the shared MultiQueues,        *)
(* settles them and relaxes their edges, until the threads agree, through  *)
(* done[], that nothing is left.                                           *)
(*                                                                         *)
(* The MultiQueues is module OfferPool, what class MultiQueues implements  *)
(* (MultiQueues!PoolSpec).  An offer's address is named by what the record *)
(* carries and who allocated it.  The section guarded by one               *)
(* distancesLocks mutex is one step where it is a single read or takes no  *)
(* branch that writes.                                                     *)
(*                                                                         *)
(* Memory is taken to be reused only when nothing refers to it any more,   *)
(* so that the writes of lines 46-47 to the record just inserted change    *)
(* nothing.  The code does not ensure this (OfferRecords!LateWriteSafe is  *)
(* violated): what is said here of offers and distances is said of the     *)
(* behaviours in which no such write comes after its record was freed.     *)
(***************************************************************************)
EXTENDS Integers, Sequences, FiniteSets

CONSTANTS Vertices,      \* G->vertices
          Source,        \* G->source
          Neighbors,     \* vertex->neighbors: a sequence of [to, weight] per vertex
          Index,         \* vertex->index
          INT_MAX,       \* the distance of a vertex not reached
          NumOfThreads,  \* p
          NULL           \* no offer

ASSUME GraphAssumption ==
  /\ Source \in Vertices
  /\ Neighbors \in [Vertices -> Seq([to : Vertices, weight : Nat])]
  /\ Index \in [Vertices -> Vertices]
  /\ INT_MAX \in Nat

ASSUME ThreadsAssumption == NumOfThreads \in Nat \ {0}

Threads == 0 .. NumOfThreads - 1
NoThread == -1

Offers == [vertex : Vertices, dist : Nat, by : Threads]

ASSUME NullAssumption == NULL \notin Offers /\ NULL \notin Nat

VARIABLES pool, phase, holds,   \* the shared MultiQueues: see OfferPool
          distances,            \* distances[index]
          distancesLocks,       \* the owner of each mutex
          offers,               \* dist of offers[index], or NULL
          offersLocks,          \* the owner of each mutex
          done,                 \* done[tid]; not initialized by its declaration
          main,                 \* what dijkstra_shortest_path does next
          created,              \* the i of its loop of pthread_create
          pc,                   \* what each thread executes next
          curr,                 \* a thread's min_offer / curr_v, curr_dist
          edge,                 \* the i of the loop over curr_v->neighbors
          scan                  \* the i of finished_work

queue == INSTANCE OfferPool

queueVars == <<pool, phase, holds>>
mainVars == <<main, created>>
dataVars == <<distances, distancesLocks, offers, offersLocks>>
threadVars == <<done, pc, curr, edge, scan>>
vars == <<queueVars, dataVars, mainVars, threadVars>>

PCs == {"unstarted", "loop", "markDone", "scan", "deleteMin", "compare", "update",
        "relax", "compareOffer", "inserting", "returned"}

TypeOK ==
  /\ queue!PoolTypeOK
  /\ distances \in [Vertices -> Nat]
  /\ distancesLocks \in [Vertices -> Threads \cup {NoThread}]
  /\ offers \in [Vertices -> Nat \cup {NULL}]
  /\ offersLocks \in [Vertices -> Threads \cup {NoThread}]
  /\ done \in [Threads -> BOOLEAN]
  /\ main \in {"insert", "inserting", "create", "joined"}
  /\ created \in 0 .. NumOfThreads
  /\ pc \in [Threads -> PCs]
  /\ curr \in [Threads -> Offers \cup {NULL}]
  /\ edge \in [Threads -> Nat]
  /\ scan \in [Threads -> 0 .. NumOfThreads - 1]

Init ==
  /\ queue!PoolInit
  /\ distances = [v \in Vertices |-> INT_MAX]
  /\ distancesLocks = [v \in Vertices |-> NoThread]
  /\ offers = [v \in Vertices |-> NULL]
  /\ offersLocks = [v \in Vertices |-> NoThread]
  /\ done \in [Threads -> BOOLEAN]
  /\ main = "insert"
  /\ created = 0
  /\ pc = [t \in Threads |-> "unstarted"]
  /\ curr = [t \in Threads |-> NULL]
  /\ edge = [t \in Threads |-> 1]
  /\ scan = [t \in Threads |-> 0]

-----------------------------------------------------------------------------
\* dijkstra_shortest_path

MainInsert ==
  /\ main = "insert" /\ main' = "inserting"
  /\ queue!InsertCall(0, [vertex |-> Source, dist |-> 0, by |-> 0])
  /\ UNCHANGED <<dataVars, created, threadVars>>

MainInserted ==
  /\ main = "inserting" /\ main' = "create"
  /\ queue!Return(0)
  /\ UNCHANGED <<dataVars, created, threadVars>>

\* done[i] = false and pthread_create: threads started earlier are running.
Create ==
  /\ main = "create" /\ created < NumOfThreads
  /\ created' = created + 1
  /\ done' = [done EXCEPT ![created] = FALSE]
  /\ pc' = [pc EXCEPT ![created] = "loop"]
  /\ UNCHANGED <<queueVars, dataVars, main, curr, edge, scan>>

Join ==
  /\ main = "create" /\ main' = "joined"
  /\ created = NumOfThreads
  /\ \A t \in Threads : pc[t] = "returned"
  /\ UNCHANGED <<queueVars, dataVars, created, threadVars>>

-----------------------------------------------------------------------------
\* parallel_Dijkstra: the loop and its termination test

Goto(t, from, to) == pc[t] = from /\ pc' = [pc EXCEPT ![t] = to]

\* queue->is_empty()
IsEmpty == queue!Counted = {}

\* Nobody but t writes done[t] once t runs: reading it is part of the same step.
LoopEmpty(t) ==
  /\ IsEmpty
  /\ Goto(t, "loop", "markDone")
  /\ UNCHANGED <<queueVars, dataVars, mainVars, done, curr, edge, scan>>

LoopDelete(t) ==
  /\ ~IsEmpty /\ ~done[t]
  /\ Goto(t, "loop", "deleteMin")
  /\ queue!DeleteCall(t)
  /\ UNCHANGED <<dataVars, mainVars, done, curr, edge, scan>>

LoopSpin(t) ==
  /\ ~IsEmpty /\ done[t]
  /\ Goto(t, "loop", "scan")
  /\ UNCHANGED <<queueVars, dataVars, mainVars, done, curr, edge, scan>>

GotNothing(t) ==
  /\ phase[t] = "refused"
  /\ Goto(t, "deleteMin", "markDone")
  /\ queue!Return(t)
  /\ UNCHANGED <<dataVars, mainVars, done, curr, edge, scan>>

MarkDone(t) ==
  /\ Goto(t, "markDone", "scan")
  /\ done' = [done EXCEPT ![t] = TRUE]
  /\ UNCHANGED <<queueVars, dataVars, mainVars, curr, edge, scan>>

\* Mutant: finished_work is true when any thread is done.
FinishedWorkAny(t) ==
  /\ Goto(t, "scan", IF done[scan[t]] THEN "returned"
                     ELSE IF scan[t] = NumOfThreads - 1 THEN "loop" ELSE "scan")
  /\ scan' = [scan EXCEPT ![t] =
                IF ~done[@] /\ @ < NumOfThreads - 1 THEN @ + 1 ELSE 0]
  /\ UNCHANGED <<queueVars, dataVars, mainVars, done, curr, edge>>

\* Mutant: finished_work reads done[p].
FinishedWorkTooFar(t) ==
  /\ Goto(t, "scan", IF ~done[scan[t]] THEN "loop"
                     ELSE IF scan[t] = NumOfThreads THEN "returned" ELSE "scan")
  /\ scan' = [scan EXCEPT ![t] = IF done[@] /\ @ < NumOfThreads THEN @ + 1 ELSE 0]
  /\ UNCHANGED <<queueVars, dataVars, mainVars, done, curr, edge>>

\* One iteration of finished_work, and what its answer leads to.
FinishedWork(t) ==
  /\ Goto(t, "scan", IF ~done[scan[t]] THEN "loop"
                     ELSE IF scan[t] = NumOfThreads - 1 THEN "returned" ELSE "scan")
  /\ scan' = [scan EXCEPT ![t] =
                IF done[@] /\ @ < NumOfThreads - 1 THEN @ + 1 ELSE 0]
  /\ UNCHANGED <<queueVars, dataVars, mainVars, done, curr, edge>>

-----------------------------------------------------------------------------
\* parallel_Dijkstra: an offer

GotMin(t) ==
  /\ phase[t] = "removed"
  /\ Goto(t, "deleteMin", "compare")
  /\ queue!Return(t)
  /\ curr' = [curr EXCEPT ![t] = holds[t]]
  /\ done' = [done EXCEPT ![t] = FALSE]
  /\ UNCHANGED <<dataVars, mainVars, edge, scan>>

CurrIndex(t) == Index[curr[t].vertex]

\* Mutant: distances is compared and written without its mutex.
ImprovesUnlocked(t) ==
  /\ Goto(t, "compare", "update")
  /\ curr[t].dist < distances[CurrIndex(t)]
  /\ distancesLocks' = [distancesLocks EXCEPT ![CurrIndex(t)] = t]
  /\ UNCHANGED <<queueVars, distances, offers, offersLocks, mainVars, done, curr, edge, scan>>

\* The offer improves on distances[curr_v]: keep the lock and write.
Improves(t) ==
  /\ Goto(t, "compare", "update")
  /\ distancesLocks[CurrIndex(t)] = NoThread
  /\ curr[t].dist < distances[CurrIndex(t)]
  /\ distancesLocks' = [distancesLocks EXCEPT ![CurrIndex(t)] = t]
  /\ UNCHANGED <<queueVars, distances, offers, offersLocks, mainVars, done, curr, edge, scan>>

Stale(t) ==
  /\ Goto(t, "compare", "loop")
  /\ distancesLocks[CurrIndex(t)] = NoThread
  /\ curr[t].dist >= distances[CurrIndex(t)]
  /\ curr' = [curr EXCEPT ![t] = NULL]
  /\ UNCHANGED <<queueVars, dataVars, mainVars, done, edge, scan>>

\* The loop over the neighbours goes on, from neighbour i, or is over.
NextNeighbor(t, from, i) ==
  /\ Goto(t, from, IF i <= Len(Neighbors[curr[t].vertex]) THEN "relax" ELSE "loop")
  /\ edge' = [edge EXCEPT ![t] = IF i <= Len(Neighbors[curr[t].vertex]) THEN i ELSE 1]
  /\ curr' = [curr EXCEPT ![t] = IF i <= Len(Neighbors[@.vertex]) THEN @ ELSE NULL]

\* Mutant: the new distance is not stored.
UpdateNothing(t) ==
  /\ NextNeighbor(t, "update", 1)
  /\ distancesLocks' = [distancesLocks EXCEPT ![CurrIndex(t)] = NoThread]
  /\ UNCHANGED <<queueVars, distances, offers, offersLocks, mainVars, done, scan>>

\* Mutant: the mutex is not given back.
UpdateKeepsLock(t) ==
  /\ NextNeighbor(t, "update", 1)
  /\ distances' = [distances EXCEPT ![CurrIndex(t)] = curr[t].dist]
  /\ UNCHANGED <<queueVars, distancesLocks, offers, offersLocks, mainVars, done, scan>>

Update(t) ==
  /\ NextNeighbor(t, "update", 1)
  /\ distances' = [distances EXCEPT ![CurrIndex(t)] = curr[t].dist]
  /\ distancesLocks' = [distancesLocks EXCEPT ![CurrIndex(t)] = NoThread]
  /\ UNCHANGED <<queueVars, offers, offersLocks, mainVars, done, scan>>

-----------------------------------------------------------------------------
\* relax(neighbor, alt)

Neighbor(t) == Neighbors[curr[t].vertex][edge[t]]
RelaxIndex(t) == Index[Neighbor(t).to]
Alt(t) == curr[t].dist + Neighbor(t).weight

LockOffer(t) ==
  /\ Goto(t, "relax", "compareOffer")
  /\ offersLocks[RelaxIndex(t)] = NoThread
  /\ offersLocks' = [offersLocks EXCEPT ![RelaxIndex(t)] = t]
  /\ UNCHANGED <<queueVars, distances, distancesLocks, offers, mainVars, done, curr, edge, scan>>

\* Mutant: a vertex that was offered once is not offered again.
BetterOnce(t) ==
  /\ Alt(t) < distances[RelaxIndex(t)]
  /\ offers[RelaxIndex(t)] = NULL

Better(t) ==
  /\ Alt(t) < distances[RelaxIndex(t)]
  /\ offers[RelaxIndex(t)] # NULL => Alt(t) < offers[RelaxIndex(t)]

RelaxInsert(t) ==
  /\ Goto(t, "compareOffer", "inserting")
  /\ distancesLocks[RelaxIndex(t)] = NoThread
  /\ Better(t)
  /\ queue!InsertCall(t, [vertex |-> Neighbor(t).to, dist |-> Alt(t), by |-> t])
  /\ UNCHANGED <<dataVars, mainVars, done, curr, edge, scan>>

RelaxNothing(t) ==
  /\ NextNeighbor(t, "compareOffer", edge[t] + 1)
  /\ distancesLocks[RelaxIndex(t)] = NoThread
  /\ ~Better(t)
  /\ offersLocks' = [offersLocks EXCEPT ![RelaxIndex(t)] = NoThread]
  /\ UNCHANGED <<queueVars, distances, distancesLocks, offers, mainVars, done, scan>>

\* insert returned: offers[vertex] becomes a new record of the same distance,
\* the old one is retired, and the lock is given back.  The writes of lines 46-47
\* store what is there already, unless the record was freed (see the header).
RelaxInserted(t) ==
  /\ NextNeighbor(t, "inserting", edge[t] + 1)
  /\ queue!Return(t)
  /\ offers' = [offers EXCEPT ![RelaxIndex(t)] = Alt(t)]
  /\ offersLocks' = [offersLocks EXCEPT ![RelaxIndex(t)] = NoThread]
  /\ UNCHANGED <<distances, distancesLocks, mainVars, done, scan>>

-----------------------------------------------------------------------------
\* The steps inside insert and deleteMin: the client only waits.
QueueStep(t) ==
  /\ \/ queue!Announce(t) \/ queue!Put(t) \/ queue!Take(t)
     \/ queue!Discount(t) \/ queue!Refuse(t)
  /\ UNCHANGED <<dataVars, mainVars, threadVars>>

MainStep == MainInsert \/ MainInserted \/ Create \/ Join

ThreadStep(t) ==
  \/ LoopEmpty(t) \/ LoopDelete(t) \/ LoopSpin(t) \/ GotNothing(t) \/ MarkDone(t)
  \/ FinishedWork(t) \/ GotMin(t) \/ Improves(t) \/ Stale(t) \/ Update(t)
  \/ LockOffer(t) \/ RelaxInsert(t) \/ RelaxNothing(t) \/ RelaxInserted(t)

\* The program has ended.
Ended == main = "joined" /\ UNCHANGED vars

Next ==
  \/ MainStep
  \/ \E t \in Threads : QueueStep(t) \/ ThreadStep(t)
  \/ Ended

\* The scheduler runs main and every thread again and again.
Fairness ==
  /\ WF_vars(MainStep)
  /\ \A t \in Threads : WF_vars(QueueStep(t)) /\ WF_vars(ThreadStep(t))

Spec == Init /\ [][Next]_vars
FairSpec == Spec /\ Fairness

-----------------------------------------------------------------------------
\* Properties

Busy == {"compare", "update", "relax", "compareOffer", "inserting"}

\* A thread gives up only when the whole computation is over: no offer is left
\* in the queue, on its way in or out of it, or in a thread's hands, whatever
\* the done[] of a thread not yet started contained (ParallelDijkstra.cpp:132,
\* 139).
TerminationSound ==
  (\E t \in Threads : pc[t] = "returned") =>
    /\ IsEmpty
    /\ \A t \in Threads : pc[t] \notin Busy /\ phase[t] # "removed"

\* An offer recorded in offers[v] that would still improve distances[v] is
\* pending: in the queue, or held by a thread that will settle it.  relax skips
\* an edge on the strength of offers[v] alone (ParallelDijkstra.cpp:43).
NoOfferLost ==
  \A v \in Vertices : offers[v] # NULL /\ offers[v] < distances[v] =>
    \E o \in pool \cup {holds[t] : t \in Threads} \cup {curr[t] : t \in Threads} :
      o # NULL /\ Index[o.vertex] = v /\ o.dist = offers[v]

\* Labels of the vertices that start at 0 and no edge exceeds.  The lengths of
\* the shortest paths are the greatest such labels, INT_MAX where there is none.
Potentials ==
  {p \in [Vertices -> 0 .. INT_MAX] :
     /\ p[Source] = 0
     /\ \A v \in Vertices : \A i \in 1 .. Len(Neighbors[v]) :
          p[Neighbors[v][i].to] <= p[v] + Neighbors[v][i].weight}

ShortestDistances(f) ==
  f \in Potentials /\ \A p \in Potentials : \A v \in Vertices : p[v] <= f[v]

\* What main writes to output.txt are the lengths of the shortest paths, whatever
\* order the relaxed queue delivered the offers in (ParallelDijkstra.cpp:236-240),
\* unless lines 46-47 have overwritten an offer that reuses a freed record.
ResultCorrect == main = "joined" => ShortestDistances(distances)

\* However many threads hold offers for the same vertex, neither its distance
\* nor its recorded offer ever gets worse.
OnlyImproves ==
  [][\A v \in Vertices :
       /\ distances'[v] <= distances[v]
       /\ offers[v] # NULL => offers'[v] # NULL /\ offers'[v] <= offers[v]]_vars

\* The threads agree in the end: all return and main joins them.
Termination == <>(main = "joined")
=============================================================================
