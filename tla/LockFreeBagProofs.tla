------------------------- MODULE LockFreeBagProofs -------------------------
(***************************************************************************)
(* Why the tag is enough, for any number of processes and of blocks.       *)
(*                                                                         *)
(* The argument.  Tags only grow, so a process that finds its expHead      *)
(* still at the head knows that no swap has succeeded since it loaded it   *)
(* (Tags).  The block at the head has then been in the bag all the time,   *)
(* nobody owned it, and what was read from its next is still its next      *)
(* (ReadIsFresh), however often the block came and went before.            *)
(***************************************************************************)
EXTENDS LockFreeBag, SequenceTheorems, TLAPS

Getting(p) == pc[p] \in {"getNext", "getSwap"}
Adding(p) == pc[p] \in {"addLoad", "addLink", "addSwap"}
HasLoaded(p) == Getting(p) \/ pc[p] \in {"addLink", "addSwap"}

Tags ==
  \A p \in Procs : HasLoaded(p) =>
    /\ expHead[p].tag <= head.tag
    /\ expHead[p].tag = head.tag => expHead[p] = head

ReadIsFresh ==
  \A p \in Procs : pc[p] = "getSwap" /\ expHead[p] = head => after[p] = next[head.ptr]

LinkIsWritten ==
  \A p \in Procs : pc[p] = "addSwap" => next[b[p]] = expHead[p].ptr

InHand ==
  \A p \in Procs :
    /\ Getting(p) => expHead[p].ptr \in Blocks
    /\ Adding(p) => b[p] \in owned[p]
    /\ pc[p] = "getClear" => expHead[p].ptr \in owned[p]

IInv == TypeOK /\ Linked /\ OneOwner /\ Tags /\ ReadIsFresh /\ LinkIsWritten /\ InHand

-----------------------------------------------------------------------------
LEMMA Pushed ==
  ASSUME NEW s \in Seq(Blocks), NEW x \in Blocks
  PROVE  /\ Append(s, x) \in Seq(Blocks)
         /\ Len(Append(s, x)) = Len(s) + 1
         /\ \A i \in 1 .. Len(s) : Append(s, x)[i] = s[i]
         /\ Append(s, x)[Len(s) + 1] = x
OBVIOUS

LEMMA Popped ==
  ASSUME NEW s \in Seq(Blocks), s # <<>>, NEW r, r = SubSeq(s, 1, Len(s) - 1)
  PROVE  /\ r \in Seq(Blocks)
         /\ Len(s) \in Nat \ {0}
         /\ Len(r) = Len(s) - 1
         /\ \A i \in 1 .. Len(r) : r[i] = s[i]
         /\ s[Len(s)] \in Blocks
<1>1. Len(s) \in Nat \ {0}
  OBVIOUS
<1>2. \A i \in 1 .. Len(s) - 1 : s[i] \in Blocks
  BY <1>1
<1>3. /\ SubSeq(s, 1, Len(s) - 1) \in Seq(Blocks)
      /\ Len(SubSeq(s, 1, Len(s) - 1)) = IF 1 <= Len(s) - 1 THEN Len(s) - 1 - 1 + 1 ELSE 0
      /\ \A i \in 1 .. Len(s) - 1 - 1 + 1 : SubSeq(s, 1, Len(s) - 1)[i] = s[1 + i - 1]
  BY <1>1, <1>2, SubSeqProperties
<1>4. \A n \in Nat \ {0} :
        /\ n - 1 - 1 + 1 = n - 1
        /\ (IF 1 <= n - 1 THEN n - 1 - 1 + 1 ELSE 0) = n - 1
        /\ \A i \in 1 .. n - 1 : 1 + i - 1 = i
  OBVIOUS
<1>5. Len(r) = Len(s) - 1
  BY <1>1, <1>3, <1>4
<1>6. \A i \in 1 .. Len(r) : r[i] = s[i]
  BY <1>1, <1>3, <1>4, <1>5
<1> QED
  BY <1>1, <1>3, <1>5, <1>6

LEMMA IInvInit == Init => IInv
BY DEF Init, IInv, TypeOK, Linked, OneOwner, InStack, Tags, ReadIsFresh, LinkIsWritten, InHand,
       Getting, Adding, HasLoaded, NoTaggedPtr, TaggedPtrs, Pointers

\* A successful swap finds the block it loaded on top of the stack.
LEMMA TopOfStack ==
  ASSUME IInv, NEW p \in Procs, pc[p] = "getSwap", head = expHead[p]
  PROVE  /\ stack # <<>>
         /\ Len(stack) \in Nat \ {0}
         /\ stack[Len(stack)] = head.ptr
         /\ head.ptr \in Blocks
         /\ after[p] = IF Len(stack) = 1 THEN NULL ELSE stack[Len(stack) - 1]
<1>1. head.ptr \in Blocks /\ head.ptr # NULL
  BY NullAssumption DEF IInv, InHand, Getting
<1>2. stack # <<>> /\ stack[Len(stack)] = head.ptr
  BY <1>1 DEF IInv, Linked
<1>3. Len(stack) \in Nat \ {0}
  BY <1>2 DEF IInv, TypeOK
<1>4. after[p] = next[head.ptr]
  BY DEF IInv, ReadIsFresh
<1>5. Len(stack) \in 1 .. Len(stack)
  BY <1>3
<1>6. next[stack[Len(stack)]] = IF Len(stack) = 1 THEN NULL ELSE stack[Len(stack) - 1]
  BY <1>5 DEF IInv, Linked
<1> QED
  BY <1>1, <1>2, <1>3, <1>4, <1>6

LEMMA TypeNext == IInv /\ Next => TypeOK'
<1> SUFFICES ASSUME IInv, Next PROVE TypeOK'
  OBVIOUS
<1>a. TypeOK /\ InHand
  BY DEF IInv
<1>b. NoTaggedPtr \in TaggedPtrs /\ NULL \in Pointers /\ head.ptr \in Pointers /\ head.tag \in Nat
  BY <1>a DEF NoTaggedPtr, TaggedPtrs, Pointers, TypeOK
<1>c. \A x \in Pointers, n \in Nat : [ptr |-> x, tag |-> n] \in TaggedPtrs
  BY DEF TaggedPtrs
<1> USE DEF TypeOK, Goto
<1>1. ASSUME NEW p \in Procs, GetSwap(p) PROVE TypeOK'
  <2>1. stack' \in Seq(Blocks)
    BY <1>1, <1>a, TopOfStack, Popped DEF GetSwap
  <2>2. head' \in TaggedPtrs
    BY <1>1, <1>a, <1>b, <1>c DEF GetSwap
  <2> QED
    BY <1>1, <1>a, <2>1, <2>2 DEF GetSwap, InHand, Getting
<1>2. ASSUME NEW p \in Procs, AddSwap(p) PROVE TypeOK'
  <2>1. b[p] \in owned[p] /\ b[p] \in Blocks /\ b[p] \in Pointers
    BY <1>2, <1>a DEF AddSwap, InHand, Adding
  <2>2. stack' \in Seq(Blocks)
    BY <1>2, <1>a, <2>1, Pushed DEF AddSwap
  <2>3. head' \in TaggedPtrs
    BY <1>2, <1>b, <1>c, <2>1 DEF AddSwap
  <2> QED
    BY <1>2, <1>a, <2>1, <2>2, <2>3 DEF AddSwap
<1>3. ASSUME NEW p \in Procs, GetBlock(p) \/ GetLoad(p) \/ AddLoad(p) \/ SwapFails(p)
      PROVE  TypeOK'
  BY <1>3, <1>a DEF GetBlock, GetLoad, AddLoad, SwapFails
<1>4. ASSUME NEW p \in Procs, ReturnNull(p) \/ AddReturn(p) PROVE TypeOK'
  BY SMTT(30), <1>4, <1>a, <1>b DEF ReturnNull, AddReturn, ResetLocals
<1>5. ASSUME NEW p \in Procs, NEW q \in Procs, Reallocate(p, q) PROVE TypeOK'
  BY <1>5, <1>a DEF Reallocate
<1>6. ASSUME NEW p \in Procs, GetNext(p) PROVE TypeOK'
  BY <1>6, <1>a DEF GetNext, InHand, Getting
<1>7. ASSUME NEW p \in Procs, AddBlock(p) PROVE TypeOK'
  BY <1>7, <1>a DEF AddBlock, Pointers
<1>8. ASSUME NEW p \in Procs, AddLink(p) PROVE TypeOK'
  BY <1>8, <1>a DEF AddLink, TaggedPtrs
<1>9. ASSUME NEW p \in Procs, Use(p) PROVE TypeOK'
  BY <1>9, <1>a DEF Use
<1>10. ASSUME NEW p \in Procs, GetClear(p) PROVE TypeOK'
  BY <1>10, <1>a, <1>b DEF GetClear, ResetLocals
<1> QED
  BY <1>1, <1>2, <1>3, <1>4, <1>5, <1>6, <1>7, <1>8, <1>9, <1>10 DEF Next

\* Only the two successful swaps change the head and the stack; what a process
\* writes to is a block it owns, which is not in the stack.
Writes(p) == GetClear(p) \/ AddLink(p) \/ Use(p)

LEMMA OwnedIsWritten ==
  ASSUME IInv, NEW p \in Procs, Writes(p)
  PROVE  \E x \in owned[p] : \A y \in Blocks : y # x => next'[y] = next[y]
<1> USE DEF IInv, TypeOK, InHand, Adding, Goto
<1>1. CASE GetClear(p)
  BY <1>1 DEF GetClear
<1>2. CASE AddLink(p)
  BY <1>2 DEF AddLink
<1>3. CASE Use(p)
  BY <1>3 DEF Use
<1> QED
  BY <1>1, <1>2, <1>3 DEF Writes

LEMMA LinkedNext == IInv /\ Next => Linked' /\ OneOwner'
<1> SUFFICES ASSUME IInv, Next PROVE Linked' /\ OneOwner'
  OBVIOUS
<1>a. TypeOK /\ Linked /\ OneOwner /\ InHand /\ Len(stack) \in Nat
  BY DEF IInv, TypeOK
<1>1. ASSUME NEW p \in Procs, GetSwap(p) PROVE Linked' /\ OneOwner'
  <2> DEFINE n == Len(stack)
  <2>1. /\ stack # <<>> /\ n \in Nat \ {0}
        /\ stack[n] = head.ptr /\ head.ptr \in Blocks
        /\ after[p] = IF n = 1 THEN NULL ELSE stack[n - 1]
    BY <1>1, TopOfStack DEF GetSwap, Goto
  <2>2. Len(stack') = n - 1 /\ \A i \in 1 .. n - 1 : stack'[i] = stack[i]
    BY <1>1, <1>a, <2>1, Popped DEF GetSwap, TypeOK
  <2>3. stack' = <<>> <=> n = 1
    BY <2>1, <2>2, TypeNext DEF TypeOK
  <2>4. /\ head'.ptr = after[p] /\ next' = next
        /\ owned' = [owned EXCEPT ![p] = @ \cup {head.ptr}]
    BY <1>1 DEF GetSwap
  <2>5. Linked'
    <3>1. n # 1 => n - 1 \in 1 .. n - 1 /\ Len(stack') = n - 1
      BY <2>1, <2>2
    <3>2. head'.ptr = IF stack' = <<>> THEN NULL ELSE stack'[Len(stack')]
      BY <2>1, <2>2, <2>3, <2>4, <3>1
    <3>3. \A i \in 1 .. n - 1 : i \in 1 .. n /\ (i # 1 => i - 1 \in 1 .. n - 1)
      BY <2>1
    <3>4. \A i \in 1 .. n - 1 : next[stack'[i]] = IF i = 1 THEN NULL ELSE stack'[i - 1]
      BY <1>a, <2>2, <3>3 DEF Linked
    <3> QED
      BY <2>2, <2>4, <3>2, <3>4 DEF Linked
  <2>6. head.ptr \in InStack /\ InStack' \subseteq InStack /\ head.ptr \notin InStack'
    BY <1>a, <2>1, <2>2 DEF InStack, OneOwner
  <2>7. \A q, r \in Procs : q # r => owned'[q] \cap owned'[r] = {}
    BY <1>a, <2>4, <2>6 DEF OneOwner, TypeOK
  <2>8. \A q \in Procs : owned'[q] \cap InStack' = {}
    BY <1>a, <2>4, <2>6 DEF OneOwner, TypeOK
  <2>9. \A i, j \in 1 .. Len(stack') : stack'[i] = stack'[j] => i = j
    BY <1>a, <2>1, <2>2 DEF OneOwner
  <2> QED
    BY <2>5, <2>7, <2>8, <2>9 DEF OneOwner
<1>2. ASSUME NEW p \in Procs, AddSwap(p) PROVE Linked' /\ OneOwner'
  <2> DEFINE n == Len(stack)
  <2>1. b[p] \in owned[p] /\ b[p] \in Blocks /\ b[p] # NULL /\ b[p] \notin InStack
    BY <1>2, <1>a, NullAssumption DEF AddSwap, Goto, InHand, Adding, TypeOK, OneOwner
  <2>2. next[b[p]] = head.ptr
    BY <1>2 DEF AddSwap, Goto, IInv, LinkIsWritten
  <2>3. /\ Len(stack') = n + 1 /\ stack'[n + 1] = b[p]
        /\ \A i \in 1 .. n : stack'[i] = stack[i]
    BY <1>2, <1>a, <2>1, Pushed DEF AddSwap, TypeOK
  <2>4. /\ head'.ptr = b[p] /\ next' = next
        /\ owned' = [owned EXCEPT ![p] = @ \ {b[p]}]
    BY <1>2 DEF AddSwap
  <2>5. stack' # <<>> /\ (stack = <<>> <=> n = 0)
    BY <1>a, <2>3, TypeNext DEF TypeOK
  <2>6. Linked'
    <3>1. head'.ptr = stack'[Len(stack')]
      BY <2>3, <2>4
    <3>2. ASSUME NEW i \in 1 .. n + 1
          PROVE  next[stack'[i]] = IF i = 1 THEN NULL ELSE stack'[i - 1]
      <4>1. CASE i = n + 1
        BY <4>1, <1>a, <2>2, <2>3, <2>5 DEF Linked
      <4>2. CASE i # n + 1
        <5>1. i \in 1 .. n /\ (i # 1 => i - 1 \in 1 .. n)
          BY <4>2, <1>a
        <5> QED
          BY <5>1, <1>a, <2>3 DEF Linked
      <4> QED
        BY <4>1, <4>2
    <3> QED
      BY <3>1, <3>2, <2>3, <2>4, <2>5 DEF Linked
  <2>7. InStack' = InStack \cup {b[p]}
    BY <1>a, <2>3 DEF InStack
  <2>8. \A q, r \in Procs : q # r => owned'[q] \cap owned'[r] = {}
    BY <1>a, <2>4 DEF OneOwner, TypeOK
  <2>9. \A q \in Procs : owned'[q] \cap InStack' = {}
    BY <1>a, <2>1, <2>4, <2>7 DEF OneOwner, TypeOK
  <2>10. \A i, j \in 1 .. Len(stack') : stack'[i] = stack'[j] => i = j
    <3>1. \A i \in 1 .. n : stack'[i] # b[p]
      BY <2>1, <2>3 DEF InStack
    <3>2. \A i \in 1 .. n + 1 : i = n + 1 \/ i \in 1 .. n
      BY <1>a
    <3> QED
      BY <1>a, <2>3, <3>1, <3>2 DEF OneOwner
  <2> QED
    BY <2>6, <2>8, <2>9, <2>10 DEF OneOwner
<1>3. ASSUME NEW p \in Procs, Writes(p) PROVE Linked' /\ OneOwner'
  <2>1. head' = head /\ owned' = owned /\ stack' = stack
    BY <1>3 DEF Writes, GetClear, AddLink, Use
  <2>2. \A i \in 1 .. Len(stack) : next'[stack[i]] = next[stack[i]]
    BY <1>3, <1>a, OwnedIsWritten DEF OneOwner, InStack, TypeOK
  <2> QED
    BY <1>a, <2>1, <2>2 DEF Linked, OneOwner, InStack
<1>4. ASSUME UNCHANGED <<head, next, owned, stack>> PROVE Linked' /\ OneOwner'
  BY <1>4, <1>a DEF Linked, OneOwner, InStack
<1>5. ASSUME NEW p \in Procs, NEW q \in Procs, Reallocate(p, q) PROVE Linked' /\ OneOwner'
  <2>1. Linked'
    BY <1>5, <1>a DEF Reallocate, Linked
  <2>2. OneOwner'
    BY <1>5, <1>a DEF Reallocate, OneOwner, InStack, TypeOK
  <2> QED
    BY <2>1, <2>2
<1>6. ASSUME NEW p \in Procs,
             \/ GetBlock(p) \/ GetLoad(p) \/ GetNext(p) \/ ReturnNull(p)
             \/ AddBlock(p) \/ AddLoad(p) \/ AddReturn(p) \/ SwapFails(p)
      PROVE  Linked' /\ OneOwner'
  BY <1>4, <1>6
     DEF GetBlock, GetLoad, GetNext, ReturnNull, AddBlock, AddLoad, AddReturn, SwapFails
<1> QED
  BY <1>1, <1>2, <1>3, <1>5, <1>6 DEF Next, Writes

LEMMA LocalsNext == IInv /\ Next => Tags' /\ ReadIsFresh' /\ LinkIsWritten' /\ InHand'
<1> SUFFICES ASSUME IInv, Next PROVE Tags' /\ ReadIsFresh' /\ LinkIsWritten' /\ InHand'
  OBVIOUS
<1>a. TypeOK /\ OneOwner /\ Tags /\ ReadIsFresh /\ LinkIsWritten /\ InHand
  BY DEF IInv
<1>b. head.ptr \in Blocks => head.ptr \in InStack
  <2> SUFFICES ASSUME head.ptr \in Blocks PROVE head.ptr \in InStack
    OBVIOUS
  <2>1. stack # <<>> /\ head.ptr = stack[Len(stack)]
    BY NullAssumption DEF IInv, Linked
  <2>2. Len(stack) \in 1 .. Len(stack)
    BY <2>1, <1>a DEF TypeOK
  <2> QED
    BY <2>1, <2>2 DEF InStack
<1>c. head.tag \in Nat /\ \A q \in Procs : expHead[q].tag \in Nat
  BY <1>a DEF TypeOK, TaggedPtrs
<1> USE DEF TypeOK, Goto, Getting, Adding, HasLoaded
<1>1. ASSUME NEW p \in Procs, GetSwap(p) PROVE Tags' /\ ReadIsFresh' /\ LinkIsWritten' /\ InHand'
  <2>1. /\ head'.tag = head.tag + 1 /\ next' = next /\ expHead' = expHead
        /\ after' = after /\ b' = b
    BY <1>1 DEF GetSwap
  <2>2. pc' = [pc EXCEPT ![p] = "getClear"]
    BY <1>1 DEF GetSwap
  <2>3. Tags'
    BY <1>a, <1>c, <2>1, <2>2 DEF Tags
  <2>4. ReadIsFresh'
    <3>1. ASSUME NEW q \in Procs, pc'[q] = "getSwap" PROVE expHead[q].tag <= head.tag
      BY <3>1, <1>a, <2>2 DEF Tags
    <3> QED
      BY <1>c, <2>1, <3>1 DEF ReadIsFresh
  <2>5. LinkIsWritten'
    BY <1>a, <2>1, <2>2 DEF LinkIsWritten
  <2>6. InHand'
    <3>1. \A q \in Procs : owned[q] \subseteq owned'[q]
      BY <1>1, <1>a DEF GetSwap
    <3>2. expHead[p].ptr \in owned'[p]
      BY <1>1, <1>a DEF GetSwap
    <3> QED
      BY <1>a, <2>1, <2>2, <3>1, <3>2 DEF InHand
  <2> QED
    BY <2>3, <2>4, <2>5, <2>6
<1>2. ASSUME NEW p \in Procs, AddSwap(p) PROVE Tags' /\ ReadIsFresh' /\ LinkIsWritten' /\ InHand'
  <2>1. /\ head'.tag = head.tag + 1 /\ next' = next /\ expHead' = expHead
        /\ after' = after /\ b' = b
    BY <1>2 DEF AddSwap
  <2>2. pc' = [pc EXCEPT ![p] = "added"]
    BY <1>2 DEF AddSwap
  <2>3. Tags'
    BY <1>a, <1>c, <2>1, <2>2 DEF Tags
  <2>4. ReadIsFresh'
    <3>1. ASSUME NEW q \in Procs, pc'[q] = "getSwap" PROVE expHead[q].tag <= head.tag
      BY <3>1, <1>a, <2>2 DEF Tags
    <3> QED
      BY <1>c, <2>1, <3>1 DEF ReadIsFresh
  <2>5. LinkIsWritten'
    BY <1>a, <2>1, <2>2 DEF LinkIsWritten
  <2>6. InHand'
    <3>1. \A q \in Procs : q # p => owned'[q] = owned[q]
      BY <1>2, <1>a DEF AddSwap
    <3> QED
      BY <1>a, <2>1, <2>2, <3>1 DEF InHand
  <2> QED
    BY <2>3, <2>4, <2>5, <2>6
<1>3. ASSUME NEW p \in Procs, GetLoad(p) PROVE Tags' /\ ReadIsFresh' /\ LinkIsWritten' /\ InHand'
  <2>1. expHead' = [expHead EXCEPT ![p] = head] /\ UNCHANGED <<head, next, owned, after, b, stack>>
    BY <1>3 DEF GetLoad
  <2>2. pc' = [pc EXCEPT ![p] = IF head.ptr = NULL THEN "gotNull" ELSE "getNext"]
    BY <1>3 DEF GetLoad
  <2>3. Tags'
    BY <1>a, <1>c, <2>1, <2>2 DEF Tags
  <2>4. ReadIsFresh' /\ LinkIsWritten'
    BY <1>a, <2>1, <2>2 DEF ReadIsFresh, LinkIsWritten
  <2>5. InHand'
    BY <1>a, <2>1, <2>2 DEF InHand, TaggedPtrs, Pointers
  <2> QED
    BY <2>3, <2>4, <2>5
<1>4. ASSUME NEW p \in Procs, AddLoad(p) PROVE Tags' /\ ReadIsFresh' /\ LinkIsWritten' /\ InHand'
  <2>1. /\ expHead' = [expHead EXCEPT ![p] = head] /\ UNCHANGED <<head, next, owned, after, b, stack>>
        /\ pc[p] = "addLoad" /\ pc' = [pc EXCEPT ![p] = "addLink"]
    BY <1>4 DEF AddLoad
  <2>2. Tags'
    BY <1>a, <1>c, <2>1 DEF Tags
  <2>3. ReadIsFresh' /\ LinkIsWritten' /\ InHand'
    BY <1>a, <2>1 DEF ReadIsFresh, LinkIsWritten, InHand
  <2> QED
    BY <2>2, <2>3
<1>5. ASSUME NEW p \in Procs, GetNext(p) PROVE Tags' /\ ReadIsFresh' /\ LinkIsWritten' /\ InHand'
  <2>1. /\ after' = [after EXCEPT ![p] = next[expHead[p].ptr]]
        /\ UNCHANGED <<head, next, owned, expHead, b, stack>>
        /\ pc[p] = "getNext" /\ pc' = [pc EXCEPT ![p] = "getSwap"]
    BY <1>5 DEF GetNext
  <2>2. ReadIsFresh'
    BY <1>a, <2>1 DEF ReadIsFresh
  <2>3. Tags' /\ LinkIsWritten' /\ InHand'
    BY <1>a, <2>1 DEF Tags, LinkIsWritten, InHand
  <2> QED
    BY <2>2, <2>3
<1>6. ASSUME NEW p \in Procs, GetClear(p) PROVE Tags' /\ ReadIsFresh' /\ LinkIsWritten' /\ InHand'
  <2>1. /\ pc[p] = "getClear" /\ pc' = [pc EXCEPT ![p] = "idle"]
        /\ UNCHANGED <<head, owned, stack>> /\ ResetLocals(p)
    BY <1>6 DEF GetClear
  <2>2. PICK x \in owned[p] : \A y \in Blocks : y # x => next'[y] = next[y]
    BY <1>6, OwnedIsWritten DEF Writes
  <2>3. Tags' /\ InHand'
    BY <1>a, <2>1 DEF ResetLocals, Tags, InHand
  <2>4. ReadIsFresh'
    <3> SUFFICES ASSUME NEW q \in Procs, q # p, pc[q] = "getSwap", expHead[q] = head
                 PROVE  after[q] = next'[head.ptr]
      BY <1>a, <2>1 DEF ResetLocals, ReadIsFresh
    <3>1. head.ptr \in Blocks /\ head.ptr # x
      BY <1>a, <1>b, <2>2 DEF InHand, OneOwner
    <3> QED
      BY <1>a, <2>2, <3>1 DEF ReadIsFresh
  <2>5. LinkIsWritten'
    <3> SUFFICES ASSUME NEW q \in Procs, q # p, pc[q] = "addSwap"
                 PROVE  next'[b[q]] = expHead[q].ptr
      BY <1>a, <2>1 DEF ResetLocals, LinkIsWritten
    <3>1. b[q] \in owned[q] /\ b[q] # x
      BY <1>a, <2>2 DEF InHand, OneOwner
    <3> QED
      BY <1>a, <2>2, <3>1 DEF LinkIsWritten
  <2> QED
    BY <2>3, <2>4, <2>5
<1>7. ASSUME NEW p \in Procs, AddLink(p) \/ Use(p)
      PROVE  Tags' /\ ReadIsFresh' /\ LinkIsWritten' /\ InHand'
  <2>1. /\ UNCHANGED <<head, owned, stack, expHead, after, b>>
        /\ \A q \in Procs : q # p => pc'[q] = pc[q]
        /\ \/ pc[p] = "addLink" /\ pc'[p] = "addSwap" /\ next'[b[p]] = expHead[p].ptr
           \/ pc[p] = "idle" /\ pc'[p] = "idle"
    BY <1>7, <1>a DEF AddLink, Use, InHand
  <2>2. PICK x \in owned[p] : \A y \in Blocks : y # x => next'[y] = next[y]
    BY <1>7, OwnedIsWritten DEF Writes
  <2>3. Tags' /\ InHand'
    BY <1>a, <2>1 DEF Tags, InHand
  <2>4. ReadIsFresh'
    <3> SUFFICES ASSUME NEW q \in Procs, pc[q] = "getSwap", expHead[q] = head
                 PROVE  after[q] = next'[head.ptr]
      BY <1>a, <2>1 DEF ReadIsFresh
    <3>1. head.ptr \in Blocks /\ head.ptr # x
      BY <1>a, <1>b, <2>2 DEF InHand, OneOwner
    <3> QED
      BY <1>a, <2>2, <3>1 DEF ReadIsFresh
  <2>5. LinkIsWritten'
    <3> SUFFICES ASSUME NEW q \in Procs, q # p, pc[q] = "addSwap"
                 PROVE  next'[b[q]] = expHead[q].ptr
      BY <1>a, <2>1 DEF LinkIsWritten
    <3>1. b[q] \in owned[q] /\ b[q] # x
      BY <1>a, <2>2 DEF InHand, OneOwner
    <3> QED
      BY <1>a, <2>2, <3>1 DEF LinkIsWritten
  <2> QED
    BY <2>3, <2>4, <2>5
<1>8. ASSUME NEW p \in Procs, GetBlock(p) \/ SwapFails(p)
      PROVE  Tags' /\ ReadIsFresh' /\ LinkIsWritten' /\ InHand'
  BY <1>8, <1>a DEF GetBlock, SwapFails, Tags, ReadIsFresh, LinkIsWritten, InHand
<1>9. ASSUME NEW p \in Procs, ReturnNull(p) \/ AddReturn(p)
      PROVE  Tags' /\ ReadIsFresh' /\ LinkIsWritten' /\ InHand'
  <2>1. /\ pc[p] \in {"gotNull", "added"} /\ pc' = [pc EXCEPT ![p] = "idle"]
        /\ UNCHANGED <<head, next, owned, stack>> /\ ResetLocals(p)
    BY <1>9 DEF ReturnNull, AddReturn
  <2>2. Tags' /\ InHand'
    BY <1>a, <2>1 DEF ResetLocals, Tags, InHand
  <2>3. ReadIsFresh' /\ LinkIsWritten'
    BY <1>a, <2>1 DEF ResetLocals, ReadIsFresh, LinkIsWritten
  <2> QED
    BY <2>2, <2>3
<1>10. ASSUME NEW p \in Procs, AddBlock(p)
       PROVE  Tags' /\ ReadIsFresh' /\ LinkIsWritten' /\ InHand'
  BY <1>10, <1>a DEF AddBlock, Tags, ReadIsFresh, LinkIsWritten, InHand
<1>11. ASSUME NEW p \in Procs, NEW q \in Procs, Reallocate(p, q)
       PROVE  Tags' /\ ReadIsFresh' /\ LinkIsWritten' /\ InHand'
  BY <1>11, <1>a DEF Reallocate, Tags, ReadIsFresh, LinkIsWritten, InHand
<1> QED
  BY <1>1, <1>2, <1>3, <1>4, <1>5, <1>6, <1>7, <1>8, <1>9, <1>10, <1>11 DEF Next

LEMMA IInvNext == IInv /\ [Next]_vars => IInv'
<1>1. IInv /\ Next => IInv'
  BY TypeNext, LinkedNext, LocalsNext DEF IInv
<1>2. IInv /\ UNCHANGED vars => IInv'
  BY DEF vars, IInv, TypeOK, Linked, OneOwner, InStack, Tags, ReadIsFresh, LinkIsWritten, InHand,
         Getting, Adding, HasLoaded
<1> QED
  BY <1>1, <1>2

-----------------------------------------------------------------------------
\* Every variable keeps its type, for any number of processes and blocks.
THEOREM TypeCorrect == Spec => []TypeOK
<1> QED
  BY IInvInit, IInvNext, PTL DEF Spec, IInv

\* The list that starts at the head is that of the blocks added and not taken
\* (lockfreeblockbag.h:75-101), whatever becomes of blocks outside.
THEOREM ListIsLinked == Spec => []Linked
<1> QED
  BY IInvInit, IInvNext, PTL DEF Spec, IInv

\* No block has two owners or is in the bag twice.
THEOREM OwnersAreUnique == Spec => []OneOwner
<1> QED
  BY IInvInit, IInvNext, PTL DEF Spec, IInv

-----------------------------------------------------------------------------
LEMMA TopLeaves ==
  ASSUME IInv, NEW p \in Procs, GetSwap(p)
  PROVE  head.ptr \in InStack /\ InStack' = InStack \ {head.ptr}
<1> DEFINE n == Len(stack)
<1>1. stack # <<>> /\ n \in Nat \ {0} /\ stack[n] = head.ptr
  BY TopOfStack DEF GetSwap, Goto
<1>2. Len(stack') = n - 1 /\ \A i \in 1 .. n - 1 : stack'[i] = stack[i]
  BY <1>1, Popped DEF GetSwap, IInv, TypeOK
<1>3. \A i \in 1 .. n : i = n \/ i \in 1 .. n - 1
  BY <1>1
<1>4. \A i \in 1 .. n - 1 : i \in 1 .. n /\ stack[i] # stack[n]
  BY <1>1 DEF IInv, OneOwner
<1>5. n \in 1 .. n
  BY <1>1
<1> QED
  BY <1>1, <1>2, <1>3, <1>4, <1>5 DEF InStack

LEMMA TopArrives ==
  ASSUME IInv, NEW p \in Procs, AddSwap(p)
  PROVE  InStack' = InStack \cup {b[p]}
<1> DEFINE n == Len(stack)
<1>1. b[p] \in Blocks /\ n \in Nat
  BY DEF AddSwap, Goto, IInv, InHand, Adding, TypeOK
<1>2. /\ Len(stack') = n + 1 /\ stack'[n + 1] = b[p]
      /\ \A i \in 1 .. n : stack'[i] = stack[i]
  BY <1>1, Pushed DEF AddSwap, IInv, TypeOK
<1>3. \A i \in 1 .. n + 1 : i = n + 1 \/ i \in 1 .. n
  BY <1>1
<1>4. n + 1 \in 1 .. n + 1 /\ \A i \in 1 .. n : i \in 1 .. n + 1
  BY <1>1
<1> QED
  BY <1>2, <1>3, <1>4 DEF InStack

LEMMA BagStep == IInv /\ IInv' /\ Next => [Abstract!BagNext]_(Abstract!bagVars)
<1> SUFFICES ASSUME IInv, IInv', Next PROVE [Abstract!BagNext]_(Abstract!bagVars)
  OBVIOUS
<1>a. TypeOK /\ TypeOK' /\ Linked /\ OneOwner /\ InHand
  BY DEF IInv, TypeOK
<1> DEFINE D == [p \in Procs |-> Doing(p)]
<1> USE DEF TypeOK, Goto
<1>1. ASSUME NEW p \in Procs, NEW from, NEW to, Goto(p, from, to),
             NEW x, NEW y, x = Doing(p), y = Doing(p)'
      PROVE  D[p] = x /\ D' = [D EXCEPT ![p] = y]
  BY <1>1, <1>a DEF Doing
<1>2. ASSUME NEW p \in Procs, GetSwap(p) PROVE Abstract!TakeBlock(p)
  <2>1. Doing(p) = "get" /\ Doing(p)' = "gotBlock"
    BY <1>2, <1>a DEF GetSwap, Doing
  <2>2. head.ptr \in InStack /\ InStack' = InStack \ {head.ptr}
    BY <1>2, TopLeaves
  <2>3. owned' = [owned EXCEPT ![p] = @ \cup {head.ptr}]
    BY <1>2 DEF GetSwap
  <2>4. Abstract!Step(p, "get", "gotBlock")
    BY <1>1, <1>2, <2>1 DEF GetSwap, Abstract!Step
  <2> QED
    BY <2>2, <2>3, <2>4 DEF Abstract!TakeBlock
<1>3. ASSUME NEW p \in Procs, AddSwap(p) PROVE Abstract!GiveBlock(p)
  <2>1. Doing(p) = "add" /\ Doing(p)' = "added"
    BY <1>3, <1>a DEF AddSwap, Doing
  <2>2. b[p] \in owned[p] /\ b[p] \in Blocks
    BY <1>3, <1>a DEF AddSwap, InHand, Adding
  <2>3. InStack' = InStack \cup {b[p]}
    BY <1>3, TopArrives
  <2>4. owned' = [owned EXCEPT ![p] = @ \ {b[p]}]
    BY <1>3 DEF AddSwap
  <2>5. Abstract!Step(p, "add", "added")
    BY <1>1, <1>3, <2>1 DEF AddSwap, Abstract!Step
  <2> QED
    BY <2>2, <2>3, <2>4, <2>5 DEF Abstract!GiveBlock
<1>4. ASSUME NEW p \in Procs, GetBlock(p) \/ AddBlock(p) PROVE Abstract!Call(p)
  <2>1. UNCHANGED <<InStack, owned>>
    BY <1>4 DEF GetBlock, AddBlock, InStack
  <2>2. Abstract!Step(p, "idle", "get") \/ Abstract!Step(p, "idle", "add")
    BY <1>1, <1>4, <1>a DEF GetBlock, AddBlock, Doing, Abstract!Step
  <2> QED
    BY <2>1, <2>2 DEF Abstract!Call
<1>5. ASSUME NEW p \in Procs, GetLoad(p), head.ptr = NULL PROVE Abstract!FindEmpty(p)
  <2>1. stack = <<>>
    BY <1>5, <1>a, NullAssumption DEF Linked
  <2>2. InStack = {} /\ UNCHANGED <<InStack, owned>>
    BY <1>5, <2>1 DEF GetLoad, InStack
  <2>3. Abstract!Step(p, "get", "gotNull")
    BY ZenonT(30), <1>1, <1>5, <1>a DEF GetLoad, Doing, Abstract!Step
  <2> QED
    BY <2>2, <2>3 DEF Abstract!FindEmpty
<1>6. ASSUME NEW p \in Procs, GetClear(p) \/ ReturnNull(p) \/ AddReturn(p) PROVE Abstract!Return(p)
  <2>1. UNCHANGED <<InStack, owned>>
    BY <1>6 DEF GetClear, ReturnNull, AddReturn, InStack
  <2>2. \E how \in {"gotBlock", "gotNull", "added"} : Abstract!Step(p, how, "idle")
    BY <1>1, <1>6, <1>a DEF GetClear, ReturnNull, AddReturn, Doing, Abstract!Step
  <2> QED
    BY <2>1, <2>2 DEF Abstract!Return
<1>7. ASSUME NEW p \in Procs, NEW q \in Procs, Reallocate(p, q) PROVE Abstract!Reallocate(p, q)
  BY <1>7 DEF Reallocate, Abstract!Reallocate, InStack, Doing
<1>8. ASSUME NEW p \in Procs,
             \/ GetLoad(p) /\ head.ptr # NULL
             \/ GetNext(p) \/ AddLoad(p) \/ AddLink(p) \/ SwapFails(p) \/ Use(p)
      PROVE  UNCHANGED Abstract!bagVars
  <2>1. UNCHANGED <<InStack, owned>>
    BY <1>8 DEF GetLoad, GetNext, AddLoad, AddLink, SwapFails, Use, InStack
  <2>2. \A q \in Procs : Doing(q)' = Doing(q)
    BY <1>8, <1>a DEF GetLoad, GetNext, AddLoad, AddLink, SwapFails, Use, Doing
  <2> QED
    BY <2>1, <2>2 DEF Abstract!bagVars
<1> QED
  BY <1>2, <1>3, <1>4, <1>5, <1>6, <1>7, <1>8 DEF Next, Abstract!BagNext

\* The lock-free stack implements the shared bag: no interleaving, no failed
\* swap and no reuse of a block makes a block appear twice or disappear, or
\* getBlock answer NULL while the bag has a block (lockfreeblockbag.h:75-101).
THEOREM ImplementsSharedBag == Spec => SharedBagSpec
<1>1. Init => Abstract!BagInit
  BY DEF Init, Abstract!BagInit, InStack, Doing
<1>2. IInv /\ IInv' /\ [Next]_vars => [Abstract!BagNext]_(Abstract!bagVars)
  <2>1. UNCHANGED vars => UNCHANGED Abstract!bagVars
    BY DEF vars, Abstract!bagVars, InStack, Doing
  <2> QED
    BY <2>1, BagStep
<1> QED
  BY <1>1, <1>2, IInvInit, IInvNext, PTL DEF Spec, SharedBagSpec, Abstract!BagSpec
=============================================================================
