----------------------------- MODULE OfferPool -----------------------------
(***************************************************************************)
(* What class MultiQueues promises the threads that share it, without      *)
(* queues, locks, random sampling or a counter: a pool of offers.          *)
(*                                                                         *)
(* An offer becomes visible to is_empty() before it can be taken, and      *)
(* stays visible until after it was taken (Counted): that is what          *)
(* ParallelDijkstra.cpp's termination test relies on.  deleteMin may       *)
(* answer "nothing" only when no offer is visible, and may hand out ANY    *)
(* offer of the pool: the order of a MultiQueue is relaxed.                *)
(***************************************************************************)
EXTENDS Naturals, FiniteSets

CONSTANTS Threads,   \* the threads (tid) that call the pool
          Offers,    \* the addresses of Offer records
          NULL       \* no offer

VARIABLES pool,      \* the offers that can be taken
          phase,     \* what each thread's call is doing
          holds      \* the offer a thread's call carries, or NULL

poolVars == <<pool, phase, holds>>

Phases == {"idle", "insert", "put", "inserted",
           "deleteMin", "discount", "removed", "refused"}

PoolTypeOK ==
  /\ pool \subseteq Offers
  /\ phase \in [Threads -> Phases]
  /\ holds \in [Threads -> Offers \cup {NULL}]

\* The offers is_empty() must see.
Counted == pool \cup {holds[t] : t \in {u \in Threads : phase[u] \in {"put", "discount"}}}

\* An offer belongs to the inserting call until it is put, and to the deleting
\* call from the moment it is taken.
Owning == {"insert", "put", "discount", "removed"}

Owned(o) == \E t \in Threads : phase[t] \in Owning /\ holds[t] = o

PoolInit ==
  /\ pool = {}
  /\ phase = [t \in Threads |-> "idle"]
  /\ holds = [t \in Threads |-> NULL]

Goto(t, from, to) == phase[t] = from /\ phase' = [phase EXCEPT ![t] = to]

\* insert(vertex, dist, tid) is called; it works on a record nobody else has.
InsertCall(t, o) ==
  /\ Goto(t, "idle", "insert")
  /\ o \notin pool /\ ~Owned(o)
  /\ holds' = [holds EXCEPT ![t] = o]
  /\ UNCHANGED pool

\* The offer becomes visible to is_empty().
Announce(t) ==
  /\ Goto(t, "insert", "put")
  /\ UNCHANGED <<pool, holds>>

\* The offer can be taken from now on.
Put(t) ==
  /\ Goto(t, "put", "inserted")
  /\ pool' = pool \cup {holds[t]}
  /\ UNCHANGED holds

\* deleteMin is called.
DeleteCall(t) ==
  /\ Goto(t, "idle", "deleteMin")
  /\ UNCHANGED <<pool, holds>>

Take(t) ==
  /\ Goto(t, "deleteMin", "discount")
  /\ \E o \in pool : pool' = pool \ {o} /\ holds' = [holds EXCEPT ![t] = o]

\* The taken offer is no longer visible to is_empty().
Discount(t) ==
  /\ Goto(t, "discount", "removed")
  /\ UNCHANGED <<pool, holds>>

\* deleteMin may give up only when there is nothing to see.
Refuse(t) ==
  /\ Goto(t, "deleteMin", "refused")
  /\ Counted = {}
  /\ UNCHANGED <<pool, holds>>

\* The call returns; its locals are gone.
Return(t) ==
  /\ \E from \in {"inserted", "removed", "refused"} : Goto(t, from, "idle")
  /\ holds' = [holds EXCEPT ![t] = NULL]
  /\ UNCHANGED pool

\* The steps of a call that is under way.
PoolStep(t) ==
  \/ Announce(t) \/ Put(t) \/ Take(t) \/ Discount(t) \/ Refuse(t) \/ Return(t)

PoolNext ==
  \E t \in Threads :
    \/ \E o \in Offers : InsertCall(t, o)
    \/ DeleteCall(t)
    \/ PoolStep(t)

PoolSpec == PoolInit /\ [][PoolNext]_poolVars

\* A call that can make progress does: the promise of a call that is not starved.
PoolFairness == \A t \in Threads : WF_poolVars(PoolStep(t))

FairPoolSpec == PoolSpec /\ PoolFairness
=============================================================================
