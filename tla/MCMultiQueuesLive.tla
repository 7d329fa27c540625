------------------------- MODULE MCMultiQueuesLive -------------------------
(***************************************************************************)
(* MultiQueues used by threads that make a bounded number of calls each:   *)
(* under the fairness of MultiQueues every call has to return.  Without    *)
(* the bound a deleteMin can starve: the others may empty every queue it   *)
(* samples before it gets there, forever.                                  *)
(***************************************************************************)
EXTENDS MultiQueues

CONSTANTS CallBudget  \* the number of calls each thread makes

VARIABLE calls        \* the calls each thread has made

BudgetInit == Init /\ calls = [t \in Threads |-> 0]

BudgetNext ==
  \E t \in Threads :
    \/ /\ calls[t] < CallBudget
       /\ Call(t)
       /\ calls' = [calls EXCEPT ![t] = @ + 1]
    \/ Step(t) /\ UNCHANGED calls

BudgetSpec == BudgetInit /\ [][BudgetNext]_<<vars, calls>> /\ Fairness

\* Every insert and every deleteMin returns: no lock stays locked, no thread
\* waits for a lock forever, and deleteMin does not spin on heaps that stay
\* empty while numOffers says otherwise.
CallsReturn == \A t \in Threads : pc[t] # "idle" ~> pc[t] = "idle"
=============================================================================
