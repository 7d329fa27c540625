----------------------------- MODULE SharedBag -----------------------------
(***************************************************************************)
(* What lockfreeblockbag promises: getBlock takes some block of the bag    *)
(* and gives it to its caller, or answers NULL when the bag is empty;      *)
(* addBlock puts a block of its caller into the bag; each at one moment    *)
(* between call and return.                                                *)
(***************************************************************************)
CONSTANTS Procs, Blocks

VARIABLES bag,    \* the blocks in the bag
          owned,  \* the blocks each process has for itself
          doing   \* what each process is doing

bagVars == <<bag, owned, doing>>

BagTypeOK ==
  /\ bag \subseteq Blocks
  /\ owned \in [Procs -> SUBSET Blocks]
  /\ doing \in [Procs -> {"idle", "get", "gotBlock", "gotNull", "add", "added"}]

BagInit ==
  /\ bag = {}
  /\ owned \in [Procs -> SUBSET Blocks]
  /\ \A p, q \in Procs : p # q => owned[p] \cap owned[q] = {}
  /\ doing = [p \in Procs |-> "idle"]

Step(p, from, to) == doing[p] = from /\ doing' = [doing EXCEPT ![p] = to]

Call(p) ==
  /\ Step(p, "idle", "get") \/ Step(p, "idle", "add")
  /\ UNCHANGED <<bag, owned>>

TakeBlock(p) ==
  /\ Step(p, "get", "gotBlock")
  /\ \E b \in bag :
       /\ bag' = bag \ {b}
       /\ owned' = [owned EXCEPT ![p] = @ \cup {b}]

FindEmpty(p) ==
  /\ Step(p, "get", "gotNull")
  /\ bag = {}
  /\ UNCHANGED <<bag, owned>>

GiveBlock(p) ==
  /\ Step(p, "add", "added")
  /\ \E b \in owned[p] :
       /\ bag' = bag \cup {b}
       /\ owned' = [owned EXCEPT ![p] = @ \ {b}]

Return(p) ==
  /\ \E how \in {"gotBlock", "gotNull", "added"} : Step(p, how, "idle")
  /\ UNCHANGED <<bag, owned>>

\* delete in one process, and new in another returns the same address
Reallocate(p, q) ==
  /\ p # q
  /\ \E b \in owned[p] :
       owned' = [owned EXCEPT ![p] = @ \ {b}, ![q] = @ \cup {b}]
  /\ UNCHANGED <<bag, doing>>

BagNext ==
  \/ \E p \in Procs : Call(p) \/ TakeBlock(p) \/ FindEmpty(p) \/ GiveBlock(p) \/ Return(p)
  \/ \E p, q \in Procs : Reallocate(p, q)

BagSpec == BagInit /\ [][BagNext]_bagVars
=============================================================================
