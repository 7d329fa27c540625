---------------------------- MODULE LockFreeBag ----------------------------
(***************************************************************************)
(* lockfreeblockbag.h: a stack of blocks that threads share, one step per  *)
(* access to shared memory.                                                *)
(*                                                                         *)
(* The head is a pointer and a tag, replaced together by compare-and-swap. *)
(* A block that is not in the bag belongs to a process, which may write    *)
(* its next as it likes, or delete it; a new block may then have the same  *)
(* address.  So what getBlock reads from a block that has left the bag is  *)
(* arbitrary.                                                              *)
(***************************************************************************)
EXTENDS Integers, Sequences

CONSTANTS Procs, Blocks, NULL,
          MaxTag  \* bound: the tags a run explores

ASSUME NullAssumption == NULL \notin Blocks
ASSUME MaxTagAssumption == MaxTag \in Nat

VARIABLES head,     \* the atomic<tagged_ptr>
          next,     \* next of each block
          owned,    \* the blocks that belong to each process
          pc,
          expHead,  \* the local expHead
          after,    \* what getBlock has read from expHead.ptr->next
          b,        \* the block addBlock adds
          stack     \* history: the blocks in the bag, the head last

vars == <<head, next, owned, pc, expHead, after, b, stack>>

Pointers == Blocks \cup {NULL}
TaggedPtrs == [ptr : Pointers, tag : Nat]

NoTaggedPtr == [ptr |-> NULL, tag |-> 0]

TypeOK ==
  /\ head \in TaggedPtrs
  /\ next \in [Blocks -> Pointers]
  /\ owned \in [Procs -> SUBSET Blocks]
  /\ pc \in [Procs -> {"idle", "getLoad", "getNext", "getSwap", "getClear", "gotNull",
                       "addLoad", "addLink", "addSwap", "added"}]
  /\ expHead \in [Procs -> TaggedPtrs]
  /\ after \in [Procs -> Pointers]
  /\ b \in [Procs -> Pointers]
  /\ stack \in Seq(Blocks)

\* The blocks are those of bags of single processes.
Init ==
  /\ head = NoTaggedPtr
  /\ next \in [Blocks -> Pointers]
  /\ owned \in [Procs -> SUBSET Blocks]
  /\ \A p, q \in Procs : p # q => owned[p] \cap owned[q] = {}
  /\ pc = [p \in Procs |-> "idle"]
  /\ expHead = [p \in Procs |-> NoTaggedPtr]
  /\ after = [p \in Procs |-> NULL]
  /\ b = [p \in Procs |-> NULL]
  /\ stack = <<>>

Goto(p, from, to) == pc[p] = from /\ pc' = [pc EXCEPT ![p] = to]

\* The locals of a call end with it.
ResetLocals(p) ==
  /\ expHead' = [expHead EXCEPT ![p] = NoTaggedPtr]
  /\ after' = [after EXCEPT ![p] = NULL]
  /\ b' = [b EXCEPT ![p] = NULL]

-----------------------------------------------------------------------------
\* getBlock

GetBlock(p) ==
  /\ Goto(p, "idle", "getLoad")
  /\ UNCHANGED <<head, next, owned, expHead, after, b, stack>>

GetLoad(p) ==
  /\ Goto(p, "getLoad", IF head.ptr = NULL THEN "gotNull" ELSE "getNext")
  /\ expHead' = [expHead EXCEPT ![p] = head]
  /\ UNCHANGED <<head, next, owned, after, b, stack>>

GetNext(p) ==
  /\ Goto(p, "getNext", "getSwap")
  /\ after' = [after EXCEPT ![p] = next[expHead[p].ptr]]
  /\ UNCHANGED <<head, next, owned, expHead, b, stack>>

\* Mutant: a head without a tag.
GetSwapUntagged(p) ==
  /\ Goto(p, "getSwap", "getClear")
  /\ head.ptr = expHead[p].ptr /\ head.tag < MaxTag
  /\ head' = [ptr |-> after[p], tag |-> head.tag + 1]
  /\ owned' = [owned EXCEPT ![p] = @ \cup {expHead[p].ptr}]
  /\ stack' = SubSeq(stack, 1, Len(stack) - 1)
  /\ UNCHANGED <<next, expHead, after, b>>

GetSwap(p) ==
  /\ Goto(p, "getSwap", "getClear")
  /\ head = expHead[p] /\ head.tag < MaxTag
  /\ head' = [ptr |-> after[p], tag |-> head.tag + 1]
  /\ owned' = [owned EXCEPT ![p] = @ \cup {expHead[p].ptr}]
  /\ stack' = SubSeq(stack, 1, Len(stack) - 1)
  /\ UNCHANGED <<next, expHead, after, b>>

\* result->next = NULL
GetClear(p) ==
  /\ Goto(p, "getClear", "idle")
  /\ next' = [next EXCEPT ![expHead[p].ptr] = NULL]
  /\ ResetLocals(p)
  /\ UNCHANGED <<head, owned, stack>>

ReturnNull(p) ==
  /\ Goto(p, "gotNull", "idle")
  /\ ResetLocals(p)
  /\ UNCHANGED <<head, next, owned, stack>>

-----------------------------------------------------------------------------
\* addBlock

AddBlock(p) ==
  /\ Goto(p, "idle", "addLoad")
  /\ \E x \in owned[p] : b' = [b EXCEPT ![p] = x]
  /\ UNCHANGED <<head, next, owned, expHead, after, stack>>

AddLoad(p) ==
  /\ Goto(p, "addLoad", "addLink")
  /\ expHead' = [expHead EXCEPT ![p] = head]
  /\ UNCHANGED <<head, next, owned, after, b, stack>>

AddLink(p) ==
  /\ Goto(p, "addLink", "addSwap")
  /\ next' = [next EXCEPT ![b[p]] = expHead[p].ptr]
  /\ UNCHANGED <<head, owned, expHead, after, b, stack>>

\* Mutant: expHead is loaded again by a failed swap, and the link is not written again.
SwapFailsKeepLink(p) ==
  /\ Goto(p, "getSwap", "getLoad") \/ Goto(p, "addSwap", "addSwap")
  /\ expHead' = [expHead EXCEPT ![p] = head]
  /\ UNCHANGED <<head, next, owned, after, b, stack>>

\* compare_exchange_weak may fail although the values are equal.
SwapFails(p) ==
  /\ Goto(p, "getSwap", "getLoad") \/ Goto(p, "addSwap", "addLoad")
  /\ UNCHANGED <<head, next, owned, expHead, after, b, stack>>

\* Mutant: the tag counts the blocks.
AddSwapTagDown(p) ==
  /\ Goto(p, "addSwap", "added")
  /\ head = expHead[p] /\ head.tag < MaxTag
  /\ head' = [ptr |-> b[p], tag |-> head.tag - 1]
  /\ owned' = [owned EXCEPT ![p] = @ \ {b[p]}]
  /\ stack' = Append(stack, b[p])
  /\ UNCHANGED <<next, expHead, after, b>>

AddSwap(p) ==
  /\ Goto(p, "addSwap", "added")
  /\ head = expHead[p] /\ head.tag < MaxTag
  /\ head' = [ptr |-> b[p], tag |-> head.tag + 1]
  /\ owned' = [owned EXCEPT ![p] = @ \ {b[p]}]
  /\ stack' = Append(stack, b[p])
  /\ UNCHANGED <<next, expHead, after, b>>

AddReturn(p) ==
  /\ Goto(p, "added", "idle")
  /\ ResetLocals(p)
  /\ UNCHANGED <<head, next, owned, stack>>

-----------------------------------------------------------------------------
\* What the bag of a process does with its blocks between the calls.

Use(p) ==
  /\ pc[p] = "idle"
  /\ \E x \in owned[p], y \in Pointers : next' = [next EXCEPT ![x] = y]
  /\ UNCHANGED <<head, owned, pc, expHead, after, b, stack>>

\* blockpool of p deletes a block, and that of q allocates one.
Reallocate(p, q) ==
  /\ p # q /\ pc[p] = "idle" /\ pc[q] = "idle"
  /\ \E x \in owned[p] :
       owned' = [owned EXCEPT ![p] = @ \ {x}, ![q] = @ \cup {x}]
  /\ UNCHANGED <<head, next, pc, expHead, after, b, stack>>

Next ==
  \/ \E p \in Procs :
       \/ GetBlock(p) \/ GetLoad(p) \/ GetNext(p) \/ GetSwap(p) \/ GetClear(p) \/ ReturnNull(p)
       \/ AddBlock(p) \/ AddLoad(p) \/ AddLink(p) \/ AddSwap(p) \/ AddReturn(p)
       \/ SwapFails(p) \/ Use(p)
  \/ \E p, q \in Procs : Reallocate(p, q)

Spec == Init /\ [][Next]_vars

-----------------------------------------------------------------------------
InStack == {stack[i] : i \in 1 .. Len(stack)}

\* The pointers are the list of the blocks that were added and not yet taken: no
\* interleaving of swaps and of reuse of the blocks (ABA) detaches or revives one.
Linked ==
  /\ head.ptr = IF stack = <<>> THEN NULL ELSE stack[Len(stack)]
  /\ \A i \in 1 .. Len(stack) : next[stack[i]] = IF i = 1 THEN NULL ELSE stack[i - 1]

\* A block belongs to one process, or is in the bag, where it is once.
OneOwner ==
  /\ \A p, q \in Procs : p # q => owned[p] \cap owned[q] = {}
  /\ \A p \in Procs : owned[p] \cap InStack = {}
  /\ \A i, j \in 1 .. Len(stack) : stack[i] = stack[j] => i = j

\* The stack implements the bag: what getBlock returns was in it, it answers NULL
\* only when nothing is, and a block goes to one caller.
Doing(p) ==
  CASE pc[p] \in {"getLoad", "getNext", "getSwap"} -> "get"
    [] pc[p] = "getClear" -> "gotBlock"
    [] pc[p] \in {"addLoad", "addLink", "addSwap"} -> "add"
    [] OTHER -> pc[p]

Abstract == INSTANCE SharedBag WITH
  bag <- InStack,
  doing <- [p \in Procs |-> Doing(p)]

SharedBagSpec == Abstract!BagSpec
=============================================================================
