------------------------ MODULE HazardPointersProofs ------------------------
(***************************************************************************)
(* Theorems about HazardPointers, instantiated by MCReclaimers as HP, for  *)
(* any number of threads, objects and hazard pointers.                     *)
(*                                                                         *)
(* The argument for HeldIsKept follows one object o, held by t, from the   *)
(* retire() that fills retired[u] to the end of u's sweep: while u         *)
(* collects, an announcement of o by t is either in comparing[u] already   *)
(* or in a slot that the loop of u has still to read (Met, Ahead).  The    *)
(* owner of a list writes it meanwhile, so the slot must be one that the   *)
(* announcement keeps (Stays): protect writes behind the last one, and     *)
(* unprotect moves the last one only, which moved[t] then names.  The      *)
(* slots that count are those below Stable(t): between the two stores of   *)
(* erase() the last slot still holds an announcement that is elsewhere.    *)
(*                                                                         *)
(* RetireHasRoom counts: what a sweep keeps is in comparing[t], which a    *)
(* scan fills from NumProcesses lists of less than HPCapacity entries      *)
(* (Collected), and retired[t] has each object once (Once).                *)
(***************************************************************************)
EXTENDS MCReclaimers, DebraProofs, SequenceTheorems, FiniteSetTheorems, TLAPS

\* The entries of announce[t] that stay when unprotect returns.
Stable(t) == IF hpPc[t] = "uncount" THEN hpSize[t] - 1 ELSE hpSize[t]

\* announce[t], in the hands of its owner.
List(t) ==
  /\ hpSize[t] < HPCapacity
  /\ \A j \in 0 .. hpSize[t] - 1 : hpData[t][j] \in HPObjects
  /\ \A j, k \in 0 .. Stable(t) - 1 : hpData[t][j] = hpData[t][k] => j = k
  /\ (hpObj[t] = NULL) <=> hpPc[t] \in {"idle", "collect", "sweep"}
  /\ hpPc[t] = "count" =>
       /\ hpSize[t] + 1 < HPCapacity /\ hpData[t][hpSize[t]] = hpObj[t]
       /\ \A j \in 0 .. hpSize[t] - 1 : hpData[t][j] # hpObj[t]
  /\ hpPc[t] \in {"validate", "erase"} => \E j \in 0 .. hpSize[t] - 1 : hpData[t][j] = hpObj[t]
  /\ hpPc[t] = "uncount" =>
       /\ hpSize[t] > 0
       /\ \A j \in 0 .. hpSize[t] - 2 : hpData[t][j] # hpObj[t]
       /\ \/ hpData[t][hpSize[t] - 1] = hpObj[t]
          \/ \E j \in 0 .. hpSize[t] - 2 : hpData[t][j] = hpData[t][hpSize[t] - 1]

\* The collecting loop of t.
Loop(t) ==
  /\ hpPc[t] # "collect" => hpAt[t] = HP!FirstPlace
  /\ hpPc[t] # "sweep" => hpIx[t] = 1
  /\ hpPc[t] \notin {"collect", "sweep"} => hpComparing[t] = {}
  /\ hpAt[t].sz # HP!Unread =>
       /\ hpAt[t].other < NumProcesses /\ hpAt[t].ix < hpAt[t].sz /\ hpAt[t].sz < HPCapacity
       /\ \A j \in 0 .. hpAt[t].sz - 1 : hpData[hpAt[t].other][j] \in HPObjects
  /\ hpAt[t].sz = HP!Unread => hpAt[t].ix = 0

\* retired[t] holds each object once, and none that is live.
Once(t) ==
  /\ \A j, k \in DOMAIN hpRetired[t] : hpRetired[t][j] = hpRetired[t][k] => j = k
  /\ \A j \in DOMAIN hpRetired[t] : hpRetired[t][j] \notin hpLive

\* The loop of u has still to read an announcement of o by t.
Ahead(u, t, o) ==
  \/ hpAt[u].other < t
  \/ /\ hpAt[u].other = t
     /\ \/ hpAt[u].sz = HP!Unread
        \/ \E j \in hpAt[u].ix .. hpAt[u].sz - 1 : hpData[t][j] = o /\ j < Stable(t)

Met(u, t, o) == o \in hpComparing[u] \/ (hpPc[u] = "collect" /\ Ahead(u, t, o))

Unmoved(t) == HP!Held(t) \ hpMoved[t]

ScannedBy(u) ==
  hpPc[u] \in {"collect", "sweep"} =>
    \A t \in Threads, j \in DOMAIN hpRetired[u] :
      hpRetired[u][j] \in Unmoved(t) => Met(u, t, hpRetired[u][j])

Scanned == \A u \in Threads : ScannedBy(u)

\* What a scan can have collected: at most so many entries.
Collected(t) ==
  /\ IsFiniteSet(hpComparing[t])
  /\ hpPc[t] = "collect" => Cardinality(hpComparing[t]) <= hpAt[t].other * (HPCapacity - 1) + hpAt[t].ix
  /\ hpPc[t] = "sweep" =>
       /\ Cardinality(hpComparing[t]) <= NumProcesses * (HPCapacity - 1)
       /\ \A j \in 1 .. hpIx[t] - 1 : j \in DOMAIN hpRetired[t] /\ hpRetired[t][j] \in hpComparing[t]

\* The inductive invariant.
HPInv ==
  /\ HP!TypeOK
  /\ \A t \in Threads : List(t) /\ Loop(t) /\ Once(t) /\ Collected(t)
  /\ Scanned
  /\ HeldKeptUnlessMoved

-----------------------------------------------------------------------------
\* Lemmas about the lists

LEMMA ThreadsAre == HP!Threads = Threads
BY DEF HP!Threads, Threads

LEMMA ErasedIs ==
  ASSUME NEW S, NEW list \in Seq(S), NEW i \in 1 .. Len(list)
  PROVE  /\ HP!Erased(list, i) \in Seq(S)
         /\ Len(HP!Erased(list, i)) = Len(list) - 1
         /\ \A j \in 1 .. Len(list) - 1 :
              HP!Erased(list, i)[j] = IF j = i THEN list[Len(list)] ELSE list[j]
<1> DEFINE moved == [list EXCEPT ![i] = list[Len(list)]]
<1>1. Len(list) \in Nat \ {0} /\ DOMAIN list = 1 .. Len(list) /\ list[Len(list)] \in S
  BY LenProperties, ElementOfSeq
<1>2. moved \in Seq(S) /\ Len(moved) = Len(list) /\ \A j \in 1 .. Len(list) : moved[j] = IF j = i THEN list[Len(list)] ELSE list[j]
  BY <1>1, ExceptSeq
<1>3. HP!Erased(list, i) = SubSeq(moved, 1, Len(moved) - 1)
  BY DEF HP!Erased, HP!Front, HP!Last
<1> HIDE DEF moved
<1>4. /\ SubSeq(moved, 1, Len(moved) - 1) \in Seq(S)
      /\ Len(SubSeq(moved, 1, Len(moved) - 1)) = Len(list) - 1
      /\ \A j \in 1 .. Len(list) - 1 : SubSeq(moved, 1, Len(moved) - 1)[j] = moved[j]
  BY <1>1, <1>2
<1> QED
  BY <1>1, <1>2, <1>3, <1>4

LEMMA TypesAre ==
  ASSUME HP!TypeOK
  PROVE  /\ hpData \in [Threads -> [0 .. HPCapacity - 1 -> HPObjects \cup {NULL}]]
         /\ hpSize \in [Threads -> 0 .. HPCapacity]
         /\ hpComparing \in [Threads -> SUBSET HPObjects]
         /\ hpAt \in [Threads -> [other : 0 .. NumProcesses, sz : {-1} \cup 1 .. HPCapacity,
                                  ix : 0 .. HPCapacity - 1]]
         /\ hpPc \in [Threads -> HP!PCs]
         /\ hpObj \in [Threads -> HPObjects \cup {NULL}]
         /\ hpRetired \in [Threads -> Seq(HPObjects)]
         /\ \A t \in Threads : Len(hpRetired[t]) <= HPThreshold
         /\ hpIx \in [Threads -> 1 .. HPThreshold + 1]
         /\ hpLive \subseteq HPObjects
         /\ hpMoved \in [Threads -> SUBSET HPObjects]
BY ThreadsAre DEF HP!TypeOK, HP!AnnouncementsTypeOK, HP!Slots, HP!Places, HP!Unread

LEMMA SlotsBelow ==
  ASSUME NEW E, NEW n \in 0 .. HPCapacity
  PROVE  {E[i] : i \in {j \in HP!Slots : j < n}} = {E[j] : j \in 0 .. n - 1}
<1>1. {j \in HP!Slots : j < n} = 0 .. n - 1
  BY HPAssumption DEF HP!Slots
<1> QED
  BY <1>1

LEMMA HeldIs ==
  ASSUME NEW t \in Threads, hpSize[t] \in 0 .. HPCapacity
  PROVE  /\ HP!Announced(t) = {hpData[t][j] : j \in 0 .. hpSize[t] - 1}
         /\ HP!Held(t) = {hpData[t][j] : j \in 0 .. hpSize[t] - 1} \ {hpObj[t]}
BY SlotsBelow DEF HP!Held, HP!Announced

LEMMA HeldNextIs ==
  ASSUME NEW t \in Threads, hpSize'[t] \in 0 .. HPCapacity
  PROVE  HP!Held(t)' = {hpData'[t][j] : j \in 0 .. hpSize'[t] - 1} \ {hpObj'[t]}
<1> PICK n \in 0 .. HPCapacity : n = hpSize'[t]
  OBVIOUS
<1> PICK E : E = hpData'[t]
  OBVIOUS
<1>1. HP!Held(t)' = {E[i] : i \in {j \in HP!Slots : j < n}} \ {hpObj'[t]}
  BY DEF HP!Held, HP!Announced
<1>2. {j \in HP!Slots : j < n} = 0 .. n - 1
  BY HPAssumption DEF HP!Slots
<1>3. {E[j] : j \in 0 .. n - 1} = {hpData'[t][j] : j \in 0 .. hpSize'[t] - 1}
  OBVIOUS
<1> QED
  BY ONLY <1>1, <1>2, <1>3

\* What t announces goes on being found where it is.
Stays(t) ==
  HP!Collecting =>
    \A j \in 0 .. Stable(t) - 1 :
      hpData[t][j] \in Unmoved(t)' => hpData'[t][j] = hpData[t][j] /\ j < Stable(t)'

LEMMA ProtectKeeps ==
  ASSUME HP!TypeOK, NEW t \in Threads, List(t), NEW o \in HPObjects, HP!Protect(t, o)
  PROVE  List(t)' /\ Unmoved(t)' \subseteq Unmoved(t) /\ Stays(t)
<1> USE TypesAre, HPAssumption
<1> PICK n \in 0 .. HPCapacity : n = hpSize[t]
  OBVIOUS
<1>1. /\ hpPc[t] = "idle" /\ hpPc'[t] = "count" /\ n + 1 < HPCapacity
      /\ hpData' = [hpData EXCEPT ![t][n] = o] /\ hpObj'[t] = o /\ hpObj[t] = NULL
      /\ hpSize'[t] = n /\ UNCHANGED hpMoved
  BY DEF HP!Protect, HP!Goto, HP!AddStore, List
<1>2. hpData'[t] = [hpData[t] EXCEPT ![n] = o] /\ hpData[t] \in [0 .. HPCapacity - 1 -> HPObjects \cup {NULL}]
  BY <1>1
<1>3. hpData'[t][n] = o /\ \A j \in 0 .. n - 1 : hpData'[t][j] = hpData[t][j]
  BY <1>1, <1>2
<1>4. \A j \in 0 .. n - 1 : hpData[t][j] # o
  BY HeldIs DEF HP!Protect
<1>5. Stable(t) = n /\ Stable(t)' = n
  BY <1>1 DEF Stable
<1>6. List(t)'
  BY <1>1, <1>3, <1>4, <1>5 DEF List
<1>7. HP!Held(t)' = {hpData'[t][j] : j \in 0 .. n - 1} \ {o}
  BY <1>1, HeldNextIs
<1>8. HP!Held(t)' \subseteq HP!Held(t)
  <2>1. HP!Held(t) = {hpData[t][j] : j \in 0 .. n - 1} \ {NULL}
    BY <1>1, HeldIs
  <2>2. \A j \in 0 .. n - 1 : hpData[t][j] # NULL
    BY DEF List
  <2> QED
    BY ONLY <1>3, <1>7, <2>1, <2>2
<1> QED
  BY <1>1, <1>3, <1>5, <1>6, <1>8 DEF Unmoved, Stays

LEMMA CountKeeps ==
  ASSUME HP!TypeOK, NEW t \in Threads, List(t), HP!Count(t)
  PROVE  List(t)' /\ Unmoved(t)' \subseteq Unmoved(t) /\ Stays(t)
<1> USE TypesAre, HPAssumption
<1> PICK n \in Nat : n = hpSize[t]
  OBVIOUS
<1>1. /\ hpPc[t] = "count" /\ hpPc'[t] = "validate" /\ n + 1 < HPCapacity /\ hpSize'[t] = n + 1
      /\ UNCHANGED <<hpData, hpObj, hpMoved>>
  BY DEF HP!Count, HP!Goto, HP!AddCount, List
<1>2. Stable(t) = n /\ Stable(t)' = n + 1
  BY <1>1 DEF Stable
<1>3. hpData[t][n] = hpObj[t] /\ hpObj[t] \in HPObjects
      /\ \A j \in 0 .. n - 1 : hpData[t][j] # hpObj[t]
  BY <1>1 DEF List
<1>4. \A j \in 0 .. n + 1 - 1 : j = n \/ j \in 0 .. n - 1
  OBVIOUS
<1>5. List(t)'
  <2>1. \A j \in 0 .. n + 1 - 1 : hpData[t][j] \in HPObjects
    BY <1>3, <1>4 DEF List
  <2>2. \A j, k \in 0 .. n + 1 - 1 : hpData[t][j] = hpData[t][k] => j = k
    <3>1. \A j, k \in 0 .. n - 1 : hpData[t][j] = hpData[t][k] => j = k
      BY <1>2 DEF List
    <3> QED
      BY ONLY <3>1, <1>3, <1>4
  <2>3. n \in 0 .. n + 1 - 1
    OBVIOUS
  <2> QED
    BY SMTT(30), <1>1, <1>2, <1>3, <2>1, <2>2, <2>3 DEF List
<1>6. HP!Held(t)' = {hpData[t][j] : j \in 0 .. n + 1 - 1} \ {hpObj[t]}
  <2>1. hpSize'[t] \in 0 .. HPCapacity /\ hpSize'[t] = n + 1
    BY <1>1
  <2>2. hpData' = hpData /\ hpObj' = hpObj
    BY <1>1
  <2> QED
    BY ONLY <2>1, <2>2, HeldNextIs, t \in Threads
<1>7. HP!Held(t)' \subseteq HP!Held(t)
  <2>1. HP!Held(t) = {hpData[t][j] : j \in 0 .. n - 1} \ {hpObj[t]}
    BY HeldIs
  <2> QED
    BY ONLY <1>3, <1>4, <1>6, <2>1
<1> QED
  BY <1>1, <1>2, <1>5, <1>7 DEF Unmoved, Stays

LEMMA ValidateKeeps ==
  ASSUME HP!TypeOK, NEW t \in Threads, List(t), HP!Validate(t)
  PROVE  List(t)' /\ Unmoved(t)' \subseteq Unmoved(t) \cup hpLive /\ Stays(t)
<1> USE TypesAre, HPAssumption
<1>1. /\ hpPc[t] = "validate" /\ hpPc'[t] = IF hpObj[t] \in hpLive THEN "idle" ELSE "erase"
      /\ hpObj'[t] = IF hpObj[t] \in hpLive THEN NULL ELSE hpObj[t]
      /\ UNCHANGED <<hpData, hpSize, hpMoved>>
  BY DEF HP!Validate, HP!Goto, HP!announceVars
<1>2. Stable(t) = hpSize[t] /\ Stable(t)' = hpSize[t]
  BY <1>1 DEF Stable
<1>3. List(t)'
  BY <1>1, <1>2 DEF List
<1>4. HP!Held(t)' \subseteq HP!Held(t) \cup hpLive
  BY <1>1 DEF HP!Held, HP!Announced
<1> QED
  BY <1>1, <1>2, <1>3, <1>4 DEF Unmoved, Stays

LEMMA UnprotectKeeps ==
  ASSUME HP!TypeOK, NEW t \in Threads, List(t), NEW o \in HPObjects, HP!Unprotect(t, o)
  PROVE  List(t)' /\ Unmoved(t)' \subseteq Unmoved(t) /\ Stays(t)
<1> USE TypesAre, HPAssumption
<1>1. /\ hpPc[t] = "idle" /\ hpPc'[t] = "erase" /\ hpObj'[t] = o /\ hpObj[t] = NULL
      /\ UNCHANGED <<hpData, hpSize, hpMoved>>
  BY DEF HP!Unprotect, HP!Goto, HP!announceVars, List
<1>2. Stable(t) = hpSize[t] /\ Stable(t)' = hpSize[t]
  BY <1>1 DEF Stable
<1>3. \E j \in 0 .. hpSize[t] - 1 : hpData[t][j] = o
  <2>1. o \in HP!Held(t) /\ hpSize[t] \in 0 .. HPCapacity
    BY DEF HP!Unprotect
  <2> QED
    BY ONLY <2>1, HeldIs, t \in Threads
<1>4. List(t)'
  BY <1>1, <1>2, <1>3 DEF List
<1>5. HP!Held(t)' \subseteq HP!Held(t)
  <2>1. NULL \notin HP!Announced(t)
    <3>1. \A j \in 0 .. hpSize[t] - 1 : hpData[t][j] # NULL
      BY DEF List
    <3> QED
      BY <3>1 DEF HP!Announced, HP!Slots
  <2> QED
    BY <1>1, <2>1 DEF HP!Held, HP!Announced
<1> QED
  BY <1>1, <1>2, <1>4, <1>5 DEF Unmoved, Stays

\* erase finds the announcement.
LEMMA IndexIs ==
  ASSUME HP!TypeOK, NEW t \in Threads, List(t), hpPc[t] = "erase"
  PROVE  \E g \in 0 .. hpSize[t] - 1 :
           /\ HP!GetIndex(t, hpObj[t]) = g
           /\ \A j \in 0 .. hpSize[t] - 1 : hpData[t][j] = hpObj[t] <=> j = g
<1> USE TypesAre, HPAssumption
<1>1. PICK g \in 0 .. hpSize[t] - 1 : hpData[t][g] = hpObj[t]
  BY DEF List
<1>2. \A j \in 0 .. hpSize[t] - 1 : hpData[t][j] = hpObj[t] <=> j = g
  BY <1>1 DEF List, Stable
<1>3. /\ g \in HP!Slots /\ \A j \in 0 .. g - 1 : hpData[t][j] # hpObj[t]
      /\ \A i \in HP!Slots : hpData[t][i] = hpObj[t] /\ (\A j \in 0 .. i - 1 : hpData[t][j] # hpObj[t]) => i = g
  BY <1>1, <1>2 DEF HP!Slots
<1>4. HP!GetIndex(t, hpObj[t]) = g
  BY <1>1, <1>3 DEF HP!GetIndex
<1> QED
  BY <1>2, <1>4

LEMMA EraseMoveKeeps ==
  ASSUME HP!TypeOK, NEW t \in Threads, List(t), HP!EraseMove(t)
  PROVE  List(t)' /\ Unmoved(t)' \subseteq Unmoved(t) /\ Stays(t)
<1> USE TypesAre, HPAssumption
<1>1. hpPc[t] = "erase" /\ hpPc'[t] = "uncount" /\ UNCHANGED <<hpSize, hpObj>>
  BY DEF HP!EraseMove, HP!Goto
<1> PICK o \in HPObjects : o = hpObj[t]
  BY <1>1 DEF List
<1>2. \E j \in 0 .. hpSize[t] - 1 : hpData[t][j] = o
  BY <1>1 DEF List
<1> PICK n \in Nat : n = hpSize[t] - 1
  BY <1>2
<1>3. n + 1 < HPCapacity /\ hpSize[t] = n + 1
  BY DEF List
<1> PICK g \in 0 .. n : /\ HP!GetIndex(t, o) = g
                        /\ \A j \in 0 .. n : hpData[t][j] = o <=> j = g
  <2>1. \E h \in 0 .. hpSize[t] - 1 :
           /\ HP!GetIndex(t, hpObj[t]) = h
           /\ \A j \in 0 .. hpSize[t] - 1 : hpData[t][j] = hpObj[t] <=> j = h
    BY <1>1, IndexIs
  <2> QED
    BY <2>1
<1> PICK E \in [0 .. HPCapacity - 1 -> HPObjects \cup {NULL}] : E = hpData[t]
  OBVIOUS
<1>4. /\ hpData'[t] = [E EXCEPT ![g] = E[n]]
      /\ hpMoved'[t] = IF HP!Collecting THEN hpMoved[t] \cup ({E[n]} \ {o}) ELSE hpMoved[t]
  BY <1>3 DEF HP!EraseMove, HP!EraseStore, HP!Relocated
<1>5. /\ hpData'[t][g] = E[n] /\ \A j \in 0 .. n : j # g => hpData'[t][j] = E[j]
  BY <1>3, <1>4
<1>6. /\ Stable(t) = n + 1 /\ Stable(t)' = n
  BY <1>1, <1>3 DEF Stable
<1>7. /\ \A j \in 0 .. n : E[j] \in HPObjects
      /\ \A j, k \in 0 .. n : E[j] = E[k] => j = k
      /\ \A j \in 0 .. n : E[j] = o <=> j = g
  BY <1>3, <1>6 DEF List
<1>8. List(t)'
  <2>1. \A j \in 0 .. n : hpData'[t][j] \in HPObjects
    <3>1. n \in 0 .. n
      OBVIOUS
    <3> QED
      BY ONLY <1>5, <1>7, <3>1
  <2>2. \A j, k \in 0 .. n - 1 : hpData'[t][j] = hpData'[t][k] => j = k
    BY ONLY <1>5, <1>7, n \in Nat, g \in 0 .. n
  <2>3. \A j \in 0 .. n - 1 : hpData'[t][j] # o
    BY ONLY <1>5, <1>7, n \in Nat, g \in 0 .. n
  <2>4. hpData'[t][n] = o \/ \E j \in 0 .. n - 1 : hpData'[t][j] = hpData'[t][n]
    BY ONLY <1>5, <1>7, n \in Nat, g \in 0 .. n
  <2>5. hpSize'[t] = n + 1 /\ hpObj'[t] = o /\ hpPc'[t] = "uncount" /\ o # NULL
    BY <1>1, <1>3
  <2>6. /\ hpSize'[t] < HPCapacity
        /\ \A j \in 0 .. hpSize'[t] - 1 : hpData'[t][j] \in HPObjects
        /\ \A j, k \in 0 .. Stable(t)' - 1 : hpData'[t][j] = hpData'[t][k] => j = k
    BY ONLY <1>3, <1>6, <2>1, <2>2, <2>5, n \in Nat, HPAssumption
  <2>7. /\ hpSize'[t] > 0
        /\ \A j \in 0 .. hpSize'[t] - 2 : hpData'[t][j] # hpObj'[t]
        /\ \/ hpData'[t][hpSize'[t] - 1] = hpObj'[t]
           \/ \E j \in 0 .. hpSize'[t] - 2 : hpData'[t][j] = hpData'[t][hpSize'[t] - 1]
    BY ONLY <2>3, <2>4, <2>5, n \in Nat
  <2> QED
    BY ONLY <2>5, <2>6, <2>7 DEF List
<1>9. HP!Held(t)' \subseteq HP!Held(t)
  <2>1. HP!Held(t) = {E[j] : j \in 0 .. n} \ {o}
    <3>1. n = hpSize[t] - 1
      OBVIOUS
    <3> QED
      BY <3>1, HeldIs
  <2>2. HP!Held(t)' = {hpData'[t][j] : j \in 0 .. n} \ {o}
    <3>1. hpSize'[t] \in 0 .. HPCapacity /\ hpSize'[t] - 1 = n /\ hpObj'[t] = o
      BY <1>1, <1>3
    <3> QED
      BY ONLY <3>1, HeldNextIs, t \in Threads
  <2>3. n \in 0 .. n
    OBVIOUS
  <2> QED
    BY ONLY <1>5, <2>1, <2>2, <2>3
<1>10. Stays(t)
  <2> SUFFICES ASSUME HP!Collecting, NEW j \in 0 .. n, E[j] \in Unmoved(t)'
               PROVE  hpData'[t][j] = E[j] /\ j < n
    BY <1>6 DEF Stays
  <2>1. E[j] # o /\ E[j] # E[n]
    BY <1>1, <1>4 DEF Unmoved, HP!Held
  <2> QED
    BY <1>5, <1>7, <2>1
<1> QED
  BY <1>4, <1>8, <1>9, <1>10 DEF Unmoved

LEMMA UncountKeeps ==
  ASSUME HP!TypeOK, NEW t \in Threads, List(t), HP!Uncount(t)
  PROVE  List(t)' /\ Unmoved(t)' \subseteq Unmoved(t) /\ Stays(t)
<1> USE TypesAre, HPAssumption
<1>1. /\ hpPc[t] = "uncount" /\ hpPc'[t] = "idle" /\ hpSize'[t] = hpSize[t] - 1 /\ hpObj'[t] = NULL
      /\ hpMoved'[t] = hpMoved[t] \ {hpObj[t]} /\ UNCHANGED hpData
  BY DEF HP!Uncount, HP!Goto, HP!EraseCount
<1> PICK n \in Nat : n = hpSize[t] - 1
  BY <1>1 DEF List
<1>2. n + 1 < HPCapacity /\ hpSize[t] = n + 1 /\ hpObj[t] # NULL
  BY <1>1 DEF List
<1>3. Stable(t) = n /\ Stable(t)' = n
  BY <1>1, <1>2 DEF Stable
<1>4. \A j \in 0 .. n - 1 : hpData[t][j] # hpObj[t] /\ hpData[t][j] \in HPObjects
  <2>1. \A j \in 0 .. n + 1 - 2 : hpData[t][j] # hpObj[t]
    BY <1>1, <1>2 DEF List
  <2>2. \A j \in 0 .. n + 1 - 1 : hpData[t][j] \in HPObjects
    BY <1>2 DEF List
  <2> QED
    BY <2>1, <2>2
<1>5. List(t)'
  BY SMTT(30), <1>1, <1>2, <1>3, <1>4 DEF List
<1>6. HP!Held(t)' \subseteq HP!Held(t) \ {hpObj[t]}
  <2>1. HP!Held(t) = {hpData[t][j] : j \in 0 .. hpSize[t] - 1} \ {hpObj[t]}
    BY HeldIs
  <2>2. HP!Held(t)' = {hpData[t][j] : j \in 0 .. n - 1} \ {NULL}
    <3>1. hpSize'[t] \in 0 .. HPCapacity /\ hpSize'[t] = n /\ hpObj'[t] = NULL /\ hpData' = hpData
      BY <1>1, <1>2
    <3> QED
      BY ONLY <3>1, HeldNextIs, t \in Threads
  <2>3. \A j \in 0 .. n - 1 : j \in 0 .. hpSize[t] - 1
    BY <1>2
  <2> QED
    BY ONLY <1>4, <2>1, <2>2, <2>3
<1> QED
  BY <1>1, <1>3, <1>5, <1>6 DEF Unmoved, Stays

LEMMA EnterQuiescentStateKeeps ==
  ASSUME HP!TypeOK, NEW t \in Threads, List(t), HP!EnterQuiescentState(t)
  PROVE  List(t)' /\ Unmoved(t)' \subseteq Unmoved(t) /\ Stays(t)
<1> USE TypesAre, HPAssumption
<1>1. /\ hpPc[t] = "idle" /\ hpPc'[t] = "idle" /\ hpSize'[t] = 0 /\ UNCHANGED <<hpData, hpObj>>
  BY DEF HP!EnterQuiescentState, HP!Goto, HP!Clear
<1>2. Stable(t)' = 0
  BY <1>1 DEF Stable
<1>3. List(t)'
  BY <1>1, <1>2 DEF List
<1>4. HP!Held(t)' = {}
  BY <1>1 DEF HP!Held, HP!Announced, HP!Slots
<1> QED
  BY <1>3, <1>4 DEF Unmoved, Stays
-----------------------------------------------------------------------------
\* A step of protect, unprotect or enterQuiescentState

AnnounceStep(t) ==
  \/ HP!Count(t) \/ HP!Validate(t) \/ HP!EraseMove(t) \/ HP!Uncount(t) \/ HP!EnterQuiescentState(t)
  \/ \E o \in HPObjects : HP!Protect(t, o) \/ HP!Unprotect(t, o)

LEMMA AnnounceStepKeeps ==
  ASSUME HP!TypeOK, NEW t \in Threads, List(t), AnnounceStep(t)
  PROVE  List(t)' /\ Unmoved(t)' \subseteq Unmoved(t) \cup hpLive /\ Stays(t)
BY ProtectKeeps, CountKeeps, ValidateKeeps, UnprotectKeeps, EraseMoveKeeps, UncountKeeps,
   EnterQuiescentStateKeeps DEF AnnounceStep

LEMMA AnnounceFrame ==
  ASSUME HP!TypeOK, NEW t \in Threads, List(t), AnnounceStep(t)
  PROVE  /\ UNCHANGED <<hpComparing, hpAt, hpRetired, hpIx, hpLive>>
         /\ hpPc[t] \notin {"collect", "sweep"} /\ hpPc'[t] \notin {"collect", "sweep"}
         /\ \A u \in Threads \ {t} :
              /\ hpPc'[u] = hpPc[u] /\ hpObj'[u] = hpObj[u] /\ hpData'[u] = hpData[u]
              /\ hpSize'[u] = hpSize[u] /\ hpMoved'[u] = hpMoved[u]
         /\ \A u \in Threads, j \in 0 .. HPCapacity - 1 :
              hpData[u][j] \in HPObjects => hpData'[u][j] \in HPObjects
<1> USE TypesAre, HPAssumption
<1>1. /\ UNCHANGED <<hpComparing, hpAt, hpRetired, hpIx, hpLive>>
      /\ hpPc[t] \notin {"collect", "sweep"} /\ hpPc'[t] \notin {"collect", "sweep"}
      /\ \A u \in Threads \ {t} :
           /\ hpPc'[u] = hpPc[u] /\ hpObj'[u] = hpObj[u] /\ hpData'[u] = hpData[u]
           /\ hpSize'[u] = hpSize[u] /\ hpMoved'[u] = hpMoved[u]
  BY DEF AnnounceStep, HP!Protect, HP!Count, HP!Validate, HP!Unprotect, HP!EraseMove, HP!Uncount,
         HP!EnterQuiescentState, HP!Goto, HP!announceVars, HP!hashVars, HP!AddStore, HP!AddCount,
         HP!EraseStore, HP!EraseCount, HP!Clear
<1>2. ASSUME NEW j \in 0 .. HPCapacity - 1, hpData[t][j] \in HPObjects
      PROVE  hpData'[t][j] \in HPObjects
  <2>1. ASSUME NEW o \in HPObjects, HP!Protect(t, o) PROVE hpData'[t][j] \in HPObjects
    BY <1>2, <2>1 DEF HP!Protect, HP!AddStore
  <2>2. CASE HP!EraseMove(t)
    <3>1. hpSize[t] - 1 \in 0 .. HPCapacity - 1 /\ hpData[t][hpSize[t] - 1] \in HPObjects
      BY <2>2 DEF HP!EraseMove, HP!Goto, List
    <3>2. hpData' = [hpData EXCEPT ![t][HP!GetIndex(t, hpObj[t])] = hpData[t][hpSize[t] - 1]]
      BY <2>2 DEF HP!EraseMove, HP!EraseStore
    <3> QED
      BY <1>2, <3>1, <3>2
  <2>3. CASE UNCHANGED hpData
    BY <1>2, <2>3
  <2> QED
    BY <2>1, <2>2, <2>3 DEF AnnounceStep, HP!Count, HP!Validate, HP!Unprotect, HP!Uncount,
       HP!EnterQuiescentState, HP!announceVars
<1> QED
  BY <1>1, <1>2

\* What Unmoved and the lists depend on.
LEMMA HeldSame ==
  ASSUME NEW u \in Threads, hpObj'[u] = hpObj[u], hpData'[u] = hpData[u],
         hpSize'[u] = hpSize[u], hpMoved'[u] = hpMoved[u]
  PROVE  HP!Held(u)' = HP!Held(u) /\ Unmoved(u)' = Unmoved(u)
<1>1. HP!Held(u)' = HP!Held(u)
  BY DEF HP!Held, HP!Announced
<1> QED
  BY <1>1 DEF Unmoved

LEMMA ListSame ==
  ASSUME NEW u \in Threads, hpObj'[u] = hpObj[u], hpData'[u] = hpData[u],
         hpSize'[u] = hpSize[u], hpPc'[u] = hpPc[u], List(u)
  PROVE  List(u)' /\ Stable(u)' = Stable(u)
BY DEF List, Stable

LEMMA CollectedSame ==
  ASSUME NEW u \in Threads, hpComparing'[u] = hpComparing[u], hpAt'[u] = hpAt[u],
         hpPc'[u] = hpPc[u], hpIx'[u] = hpIx[u], hpRetired'[u] = hpRetired[u], Collected(u)
  PROVE  Collected(u)'
BY DEF Collected

LEMMA AnnounceStepScanned ==
  ASSUME HPInv, NEW t \in Threads, AnnounceStep(t)
  PROVE  Scanned'
<1>1. /\ HP!TypeOK /\ List(t) /\ Scanned
      /\ UNCHANGED <<hpComparing, hpAt, hpRetired, hpIx, hpLive>>
      /\ hpPc[t] \notin {"collect", "sweep"} /\ hpPc'[t] \notin {"collect", "sweep"}
      /\ \A u \in Threads \ {t} :
           /\ hpPc'[u] = hpPc[u] /\ hpObj'[u] = hpObj[u] /\ hpData'[u] = hpData[u]
           /\ hpSize'[u] = hpSize[u] /\ hpMoved'[u] = hpMoved[u]
  BY AnnounceFrame DEF HPInv
<1>2. Unmoved(t)' \subseteq Unmoved(t) \cup hpLive /\ Stays(t)
  BY <1>1, AnnounceStepKeeps
<1> SUFFICES ASSUME NEW u \in Threads, NEW w \in Threads, hpPc'[u] \in {"collect", "sweep"},
                    NEW j \in DOMAIN hpRetired[u], hpRetired[u][j] \in Unmoved(w)'
             PROVE  Met(u, w, hpRetired[u][j])'
  <2>1. hpRetired' = hpRetired
    BY <1>1
  <2> QED
    BY <2>1 DEF Scanned, ScannedBy, Met, Ahead
<1>3. u # t /\ hpPc'[u] = hpPc[u]
  BY <1>1
<1> PICK o : o = hpRetired[u][j]
  OBVIOUS
<1>4. CASE w # t
  <2>1. Unmoved(w)' = Unmoved(w)
    BY <1>1, <1>4, HeldSame
  <2>2. Stable(w)' = Stable(w)
    BY <1>1, <1>4 DEF Stable
  <2>3. Met(u, w, o)
    BY <1>1, <1>3, <2>1 DEF Scanned, ScannedBy
  <2> QED
    BY <1>1, <1>3, <1>4, <2>2, <2>3 DEF Met, Ahead
<1>5. CASE w = t
  <2>1. o \notin hpLive
    BY DEF HPInv, Once
  <2>2. o \in Unmoved(t)
    BY <1>2, <1>5, <2>1
  <2>3. Met(u, t, o)
    BY <1>1, <1>3, <1>5, <2>2 DEF Scanned, ScannedBy
  <2>4. CASE o \in hpComparing[u]
    BY <1>1, <1>5, <2>4 DEF Met
  <2>5. CASE hpPc[u] = "collect" /\ Ahead(u, t, o)
    <3>1. HP!Collecting
      BY <2>5, ThreadsAre DEF HP!Collecting
    <3>2. \A i \in hpAt[u].ix .. hpAt[u].sz - 1 :
            hpData[t][i] = o /\ i < Stable(t) => hpData'[t][i] = o /\ i < Stable(t)'
      <4>1. \A i \in 0 .. Stable(t) - 1 : hpData[t][i] = o => hpData'[t][i] = o /\ i < Stable(t)'
        BY <1>2, <1>5, <3>1 DEF Stays
      <4>2. hpAt[u].ix \in 0 .. HPCapacity - 1 /\ hpAt[u].sz \in {-1} \cup 1 .. HPCapacity
        BY <1>1, TypesAre
      <4>3. Stable(t) \in Int
        <5>1. hpSize[t] \in 0 .. HPCapacity
          BY <1>1, TypesAre
        <5> QED
          BY <5>1, HPAssumption DEF Stable
      <4> QED
        BY ONLY <4>1, <4>2, <4>3, HPAssumption
    <3> QED
      BY <1>1, <1>3, <1>5, <2>5, <3>2 DEF Met, Ahead
  <2> QED
    BY <2>3, <2>4, <2>5 DEF Met
<1> QED
  BY <1>4, <1>5

LEMMA AnnounceStepInvariants ==
  ASSUME HPInv, NEW t \in Threads, AnnounceStep(t)
  PROVE  /\ \A u \in Threads : List(u)' /\ Loop(u)' /\ Once(u)' /\ Collected(u)'
         /\ HeldKeptUnlessMoved'
<1>1. /\ HP!TypeOK /\ \A u \in Threads : List(u) /\ Loop(u) /\ Once(u) /\ Collected(u)
  BY DEF HPInv
<1>2. /\ UNCHANGED <<hpComparing, hpAt, hpRetired, hpIx, hpLive>>
      /\ hpPc[t] \notin {"collect", "sweep"} /\ hpPc'[t] \notin {"collect", "sweep"}
      /\ \A u \in Threads \ {t} :
           /\ hpPc'[u] = hpPc[u] /\ hpObj'[u] = hpObj[u] /\ hpData'[u] = hpData[u]
           /\ hpSize'[u] = hpSize[u] /\ hpMoved'[u] = hpMoved[u]
  BY <1>1, AnnounceFrame
<1>3. \A u \in Threads, j \in 0 .. HPCapacity - 1 : hpData[u][j] \in HPObjects => hpData'[u][j] \in HPObjects
  BY <1>1, AnnounceFrame
<1>4. List(t)' /\ Unmoved(t)' \subseteq Unmoved(t) \cup hpLive
  BY <1>1, AnnounceStepKeeps
<1>5. ASSUME NEW u \in Threads PROVE List(u)'
  BY <1>1, <1>2, <1>4, ListSame
<1>6. ASSUME NEW u \in Threads PROVE Loop(u)'
  <2>1. hpAt'[u] = hpAt[u] /\ hpIx'[u] = hpIx[u] /\ hpComparing'[u] = hpComparing[u]
        /\ (hpPc'[u] = hpPc[u] \/ (hpPc[u] \notin {"collect", "sweep"} /\ hpPc'[u] \notin {"collect", "sweep"}))
    BY <1>2
  <2>2. hpAt[u].sz # HP!Unread =>
          \A j \in 0 .. hpAt[u].sz - 1 : hpData'[hpAt[u].other][j] \in HPObjects
    <3> SUFFICES ASSUME hpAt[u].sz # HP!Unread, NEW j \in 0 .. hpAt[u].sz - 1
                 PROVE  hpData'[hpAt[u].other][j] \in HPObjects
      OBVIOUS
    <3>1. hpAt[u].other < NumProcesses /\ hpAt[u].sz < HPCapacity /\ hpData[hpAt[u].other][j] \in HPObjects
      BY <1>1 DEF Loop
    <3>2. hpAt[u].other \in Nat /\ hpAt[u].sz \in Int
      BY <1>1, TypesAre, HPAssumption
    <3>3. hpAt[u].other \in Threads /\ j \in 0 .. HPCapacity - 1
      BY <3>1, <3>2, HPAssumption, ProcessesAssumption DEF Threads
    <3> QED
      BY <1>3, <3>1, <3>3
  <2>3. Loop(u)
    BY <1>1
  <2> QED
    BY <2>1, <2>2, <2>3 DEF Loop
<1>7. ASSUME NEW u \in Threads PROVE Once(u)'
  BY <1>1, <1>2 DEF Once
<1>8. ASSUME NEW u \in Threads PROVE Collected(u)'
  <2>1. CASE u = t
    BY <1>1, <1>2, <2>1 DEF Collected
  <2>2. CASE u # t
    BY <1>1, <1>2, <2>2, CollectedSame
  <2> QED
    BY <2>1, <2>2
<1>9. HeldKeptUnlessMoved'
  <2>1. HP!Pool' = HP!Pool /\ HP!Pool \cap hpLive = {}
    BY <1>2 DEF HP!Pool, HP!Retired, HP!ToSet
  <2> SUFFICES ASSUME NEW u \in Threads PROVE Unmoved(u)' \cap HP!Pool = {}
    BY <2>1, ThreadsAre DEF HeldKeptUnlessMoved, HP!HeldKeptUnlessMoved, Unmoved
  <2>2. Unmoved(u) \cap HP!Pool = {}
    BY ThreadsAre DEF HPInv, HeldKeptUnlessMoved, HP!HeldKeptUnlessMoved, Unmoved
  <2>3. CASE u = t
    BY <1>4, <2>1, <2>2, <2>3
  <2>4. CASE u # t
    <3>1. Unmoved(u)' = Unmoved(u)
      BY <1>2, <2>4, HeldSame
    <3> QED
      BY <2>2, <3>1
  <2> QED
    BY <2>3, <2>4
<1> QED
  BY <1>5, <1>6, <1>7, <1>8, <1>9
-----------------------------------------------------------------------------
\* A step of retire or of the pool

ScanStep(t) ==
  \/ HP!CollectStep(t) \/ HP!StartSweep(t) \/ HP!Sweep(t) \/ HP!RetireReturn(t)
  \/ \E o \in HPObjects : HP!Retire(t, o) \/ HP!Allocate(t, o)

LEMMA ScanFrame ==
  ASSUME HP!TypeOK, NEW t \in Threads, List(t), ScanStep(t)
  PROVE  /\ UNCHANGED <<hpData, hpSize, hpObj, hpMoved>>
         /\ hpPc[t] \in {"idle", "collect", "sweep"} /\ hpPc'[t] \in {"idle", "collect", "sweep"}
         /\ \A u \in Threads \ {t} :
              /\ hpPc'[u] = hpPc[u] /\ hpComparing'[u] = hpComparing[u] /\ hpAt'[u] = hpAt[u]
              /\ hpRetired'[u] = hpRetired[u] /\ hpIx'[u] = hpIx[u]
BY TypesAre DEF ScanStep, HP!CollectStep, HP!StartSweep, HP!Sweep, HP!RetireReturn, HP!Retire, HP!Allocate,
   HP!Goto, HP!announceVars, HP!hashVars, HP!Collect, HP!ReadSize, HP!ReadSlot, HP!Rewind, HP!ClearComparing

LEMMA ScanFrameKeeps ==
  ASSUME HP!TypeOK, NEW t \in Threads, NEW u \in Threads, List(t), List(u), ScanStep(t)
  PROVE  List(u)' /\ Stable(u)' = Stable(u) /\ Unmoved(u)' = Unmoved(u)
<1>1. /\ UNCHANGED <<hpData, hpSize, hpObj, hpMoved>>
      /\ hpPc[t] \in {"idle", "collect", "sweep"} /\ hpPc'[t] \in {"idle", "collect", "sweep"}
      /\ u # t => hpPc'[u] = hpPc[u]
  BY ScanFrame
<1>2. Unmoved(u)' = Unmoved(u)
  BY <1>1, HeldSame
<1>3. CASE u # t
  BY <1>1, <1>2, <1>3, ListSame
<1>4. CASE u = t
  BY <1>1, <1>2, <1>4 DEF List, Stable
<1> QED
  BY <1>3, <1>4

LEMMA ScanFrameOthers ==
  ASSUME HPInv, NEW t \in Threads, NEW u \in Threads \ {t}, ScanStep(t)
  PROVE  Loop(u)' /\ Collected(u)' /\ ScannedBy(u)'
<1>1. /\ UNCHANGED <<hpData, hpSize, hpObj, hpMoved>>
      /\ hpPc'[u] = hpPc[u] /\ hpComparing'[u] = hpComparing[u] /\ hpAt'[u] = hpAt[u]
      /\ hpRetired'[u] = hpRetired[u] /\ hpIx'[u] = hpIx[u]
  BY ScanFrame DEF HPInv
<1>2. Loop(u)'
  BY <1>1 DEF HPInv, Loop
<1>3. Collected(u)'
  BY <1>1, CollectedSame DEF HPInv
<1>4. ASSUME NEW w \in Threads PROVE Unmoved(w)' = Unmoved(w) /\ Stable(w)' = Stable(w)
  BY ScanFrameKeeps DEF HPInv
<1>5. ASSUME NEW w \in Threads, NEW o PROVE Met(u, w, o)' <=> Met(u, w, o)
  BY <1>1, <1>4 DEF Met, Ahead
<1>6. ScannedBy(u)
  BY DEF HPInv, Scanned
<1>7. ScannedBy(u)'
  BY <1>1, <1>4, <1>5, <1>6 DEF ScannedBy
<1> QED
  BY <1>2, <1>3, <1>7

LEMMA RetiredIs ==
  ASSUME NEW o
  PROVE  o \in HP!Retired <=> \E u \in Threads : \E j \in DOMAIN hpRetired[u] : hpRetired[u][j] = o
BY ThreadsAre DEF HP!Retired, HP!ToSet

LEMMA RetiredNextIs ==
  ASSUME NEW o
  PROVE  o \in HP!Retired' <=> \E u \in Threads : \E j \in DOMAIN hpRetired'[u] : hpRetired'[u][j] = o
BY ThreadsAre DEF HP!Retired, HP!ToSet

\* Nothing that a thread holds unmoved is in the pool.
LEMMA KeptIs ==
  HeldKeptUnlessMoved <=> \A w \in Threads : Unmoved(w) \cap HP!Pool = {}
BY ThreadsAre DEF HeldKeptUnlessMoved, HP!HeldKeptUnlessMoved, Unmoved

LEMMA KeptIfPoolKept ==
  ASSUME HPInv, NEW t \in Threads, ScanStep(t),
         \A o \in HP!Pool' : o \in HP!Pool \/ \A w \in Threads : o \notin Unmoved(w)
  PROVE  HeldKeptUnlessMoved'
<1>1. HeldKeptUnlessMoved' <=> \A w \in Threads : Unmoved(w)' \cap HP!Pool' = {}
  BY ThreadsAre DEF HeldKeptUnlessMoved, HP!HeldKeptUnlessMoved, Unmoved
<1>2. \A w \in Threads : Unmoved(w) \cap HP!Pool = {}
  BY KeptIs DEF HPInv
<1>3. ASSUME NEW w \in Threads PROVE Unmoved(w)' = Unmoved(w)
  BY ScanFrameKeeps DEF HPInv
<1> QED
  BY <1>1, <1>2, <1>3

\* What a thread holds is announced where it stays.
LEMMA HeldFound ==
  ASSUME HP!TypeOK, NEW w \in Threads, List(w), NEW o \in HP!Held(w)
  PROVE  \E j \in 0 .. hpSize[w] - 1 : hpData[w][j] = o /\ j < Stable(w)
<1> PICK n \in 0 .. HPCapacity : n = hpSize[w]
  BY TypesAre
<1>1. o # hpObj[w] /\ \E j \in 0 .. n - 1 : hpData[w][j] = o
  BY HeldIs
<1>2. CASE hpPc[w] # "uncount"
  BY <1>1, <1>2 DEF Stable
<1>3. CASE hpPc[w] = "uncount"
  <2>1. Stable(w) = n - 1
    BY <1>3 DEF Stable
  <2>2. hpData[w][n - 1] = hpObj[w] \/ \E j \in 0 .. n - 2 : hpData[w][j] = hpData[w][n - 1]
    BY <1>3 DEF List
  <2>3. \A j \in 0 .. n - 1 : j = n - 1 \/ j \in 0 .. n - 2
    BY HPAssumption
  <2>4. \A j \in 0 .. n - 2 : j \in 0 .. n - 1 /\ j < n - 1
    BY HPAssumption
  <2> QED
    BY <1>1, <2>1, <2>2, <2>3, <2>4
<1> QED
  BY <1>2, <1>3

\* Of the invariant, what the action of t itself can disturb.
OwnScan(t) == Loop(t) /\ Collected(t) /\ ScannedBy(t)

LEMMA RetireKeeps ==
  ASSUME HPInv, NEW t \in Threads, NEW o \in HPObjects, HP!Retire(t, o)
  PROVE  OwnScan(t)' /\ (\A u \in Threads : Once(u)') /\ HeldKeptUnlessMoved'
<1> USE HPAssumption, ProcessesAssumption
<1> PICK list \in Seq(HPObjects) : list = hpRetired[t]
  BY TypesAre DEF HPInv
<1>1. /\ hpPc[t] = "idle" /\ hpPc'[t] \in {"idle", "collect"} /\ o \in hpLive /\ hpLive' = hpLive \ {o}
      /\ hpRetired' = [hpRetired EXCEPT ![t] = Append(list, o)]
      /\ UNCHANGED <<hpData, hpComparing, hpAt, hpIx>>
  BY TypesAre DEF HPInv, HP!Retire, HP!Goto, HP!announceVars, HP!hashVars
<1>2. hpAt[t] = HP!FirstPlace /\ hpIx[t] = 1 /\ hpComparing[t] = {}
  BY <1>1 DEF HPInv, Loop
<1>3. HP!FirstPlace.other = 0 /\ HP!FirstPlace.sz = HP!Unread /\ HP!FirstPlace.ix = 0
  BY DEF HP!FirstPlace
<1>4. Loop(t)'
  BY <1>1, <1>2, <1>3 DEF Loop
<1>5. Collected(t)'
  <2>1. IsFiniteSet({}) /\ Cardinality({}) = 0
    BY FS_EmptySet
  <2>2. hpAt'[t].other * (HPCapacity - 1) + hpAt'[t].ix = 0
    BY <1>1, <1>2, <1>3
  <2>3. hpComparing'[t] = {}
    BY <1>1, <1>2
  <2> QED
    BY <1>1, <2>1, <2>2, <2>3 DEF Collected
<1>6. ScannedBy(t)'
  <2>1. \A w \in Threads : 0 < w \/ 0 = w
    BY DEF Threads
  <2> QED
    BY <1>1, <1>2, <1>3, <2>1 DEF ScannedBy, Met, Ahead
<1>7. /\ hpRetired'[t] = Append(list, o) /\ \A u \in Threads \ {t} : hpRetired'[u] = hpRetired[u]
      /\ DOMAIN Append(list, o) = 1 .. Len(list) + 1 /\ Append(list, o)[Len(list) + 1] = o
      /\ DOMAIN list = 1 .. Len(list) /\ \A j \in 1 .. Len(list) : Append(list, o)[j] = list[j]
      /\ Len(list) \in Nat
  BY <1>1, TypesAre DEF HPInv
<1>8. ASSUME NEW u \in Threads PROVE Once(u)'
  <2>1. Once(u) /\ Once(t)
    BY DEF HPInv
  <2>2. CASE u = t
    <3>1. \A j \in 1 .. Len(list) : list[j] # o
      BY <1>1, <1>7, <2>1 DEF Once
    <3>2. \A j \in 1 .. Len(list) + 1 : j \in 1 .. Len(list) \/ j = Len(list) + 1
      BY <1>7
    <3>3. \A j, k \in DOMAIN Append(list, o) : Append(list, o)[j] = Append(list, o)[k] => j = k
      BY <1>7, <2>1, <3>1, <3>2 DEF Once
    <3>4. \A j \in DOMAIN Append(list, o) : Append(list, o)[j] \notin hpLive \ {o}
      BY <1>7, <2>1, <3>2 DEF Once
    <3> QED
      BY <1>1, <1>7, <2>2, <3>3, <3>4 DEF Once
  <2>3. CASE u # t
    BY <1>1, <1>7, <2>1, <2>3 DEF Once
  <2> QED
    BY <2>2, <2>3
<1>9. HeldKeptUnlessMoved'
  <2>1. ASSUME NEW p, p \in HP!Retired PROVE p \in HP!Retired'
    <3>1. PICK u \in Threads : \E j \in DOMAIN hpRetired[u] : hpRetired[u][j] = p
      BY <2>1, RetiredIs
    <3>2. \E j \in DOMAIN hpRetired'[u] : hpRetired'[u][j] = p
      <4>1. \A j \in 1 .. Len(list) : j \in 1 .. Len(list) + 1
        BY <1>7
      <4> QED
        BY <1>7, <3>1, <4>1
    <3> QED
      BY <3>2, RetiredNextIs
  <2>2. o \in HP!Retired'
    <3>1. Len(list) + 1 \in DOMAIN hpRetired'[t] /\ hpRetired'[t][Len(list) + 1] = o
      BY <1>7
    <3> QED
      BY <3>1, RetiredNextIs
  <2>3. \A p \in HP!Pool' : p \in HP!Pool
    BY <1>1, <2>1, <2>2 DEF HP!Pool
  <2>4. ScanStep(t)
    BY DEF ScanStep
  <2> QED
    BY <2>3, <2>4, KeptIfPoolKept
<1> QED
  BY <1>4, <1>5, <1>6, <1>8, <1>9 DEF OwnScan

LEMMA OneListMore ==
  ASSUME NEW a \in Nat, NEW c \in Nat
  PROVE  (a + 1) * c = a * c + c /\ a * c \in Nat
OBVIOUS

\* A step of the loop goes to the next entry or to the next list.
LEMMA PlaceIs ==
  ASSUME NEW other \in Nat, NEW sz \in Nat, NEW i \in Nat
  PROVE  \/ i < sz /\ HP!PlaceAt(other, sz, i).other = other
                   /\ HP!PlaceAt(other, sz, i).sz = sz /\ HP!PlaceAt(other, sz, i).ix = i
         \/ i >= sz /\ HP!PlaceAt(other, sz, i).other = other + 1
                    /\ HP!PlaceAt(other, sz, i).sz = HP!Unread /\ HP!PlaceAt(other, sz, i).ix = 0
BY DEF HP!PlaceAt, HP!FirstPlace

LEMMA ReadSizeKeeps ==
  ASSUME HPInv, NEW t \in Threads, hpPc[t] = "collect", HP!CollectStep(t), HP!ReadSize(t)
  PROVE  OwnScan(t)'
<1> USE HPAssumption, ProcessesAssumption
<1>1. HP!TypeOK /\ Loop(t) /\ Collected(t) /\ ScannedBy(t) /\ \A w \in Threads : List(w)
  BY DEF HPInv, Scanned
<1>2. UNCHANGED <<hpData, hpSize, hpPc, hpObj, hpRetired, hpIx, hpLive, hpMoved, hpComparing>>
  BY DEF HP!CollectStep, HP!announceVars, HP!ReadSize
<1> PICK a \in 0 .. NumProcesses : a = hpAt[t].other
  BY <1>1, TypesAre
<1>3. a \in Threads /\ hpAt[t].sz = HP!Unread /\ hpAt[t].ix = 0
  BY <1>1 DEF HP!ReadSize, HP!Hashed, Loop, Threads
<1> PICK n \in 0 .. HPCapacity : n = hpSize[a]
  BY <1>1, <1>3, TypesAre
<1>4. hpAt'[t] = HP!PlaceAt(a, n, 0)
  BY <1>1, TypesAre DEF HP!ReadSize
<1>5. \/ 0 < n /\ hpAt'[t].other = a /\ hpAt'[t].sz = n /\ hpAt'[t].ix = 0
      \/ n = 0 /\ hpAt'[t].other = a + 1 /\ hpAt'[t].sz = HP!Unread /\ hpAt'[t].ix = 0
  <2>1. a \in Nat /\ n \in Nat /\ 0 \in Nat
    OBVIOUS
  <2> QED
    BY ONLY SMTT(30), <1>4, <2>1, PlaceIs
<1>6. n < HPCapacity /\ \A j \in 0 .. n - 1 : hpData[a][j] \in HPObjects
  BY <1>1, <1>3 DEF List
<1>7. a < NumProcesses
  BY <1>3 DEF Threads
<1>8. Loop(t)'
  BY <1>1, <1>2, <1>5, <1>6, <1>7 DEF Loop
<1>9. Collected(t)'
  <2> PICK c \in Nat : c = HPCapacity - 1
    OBVIOUS
  <2>1. IsFiniteSet(hpComparing[t]) /\ Cardinality(hpComparing[t]) <= a * c + 0
    BY <1>1, <1>3 DEF Collected
  <2>2. Cardinality(hpComparing[t]) \in Nat
    BY <2>1, FS_CardinalityType
  <2>3. (a + 1) * c = a * c + c /\ a * c \in Nat
    <3>1. a \in Nat
      OBVIOUS
    <3> QED
      BY ONLY <3>1, c \in Nat, OneListMore
  <2>4. Cardinality(hpComparing[t]) <= hpAt'[t].other * c + hpAt'[t].ix
    <3>1. CASE hpAt'[t].other = a /\ hpAt'[t].ix = 0
      BY <2>1, <3>1
    <3>2. CASE hpAt'[t].other = a + 1 /\ hpAt'[t].ix = 0
      BY <2>1, <2>2, <2>3, <3>2
    <3> QED
      BY <1>5, <3>1, <3>2
  <2> QED
    BY <1>2, <2>1, <2>4 DEF Collected
<1>10. ScannedBy(t)'
  <2> SUFFICES ASSUME NEW w \in Threads, NEW j \in DOMAIN hpRetired[t], hpRetired[t][j] \in Unmoved(w)
               PROVE  hpRetired[t][j] \in hpComparing[t] \/ Ahead(t, w, hpRetired[t][j])'
    <3>1. \A w \in Threads : Unmoved(w)' = Unmoved(w)
      BY <1>2, HeldSame
    <3> QED
      BY <1>2, <3>1 DEF ScannedBy, Met, Ahead
  <2> PICK o : o = hpRetired[t][j]
    OBVIOUS
  <2>1. o \in hpComparing[t] \/ Ahead(t, w, o)
    BY <1>1 DEF ScannedBy, Met
  <2>2. w \in Nat /\ HP!Unread = -1
    BY DEF Threads, HP!Unread
  <2>3. CASE a < w
    BY <1>5, <2>2, <2>3 DEF Ahead
  <2>4. CASE a = w
    <3>1. \E i \in 0 .. n - 1 : hpData[w][i] = o /\ i < Stable(w)
      BY <1>1, <2>4, HeldFound DEF Unmoved
    <3>2. 0 < n
      BY <3>1
    <3>3. Stable(w)' = Stable(w)
      BY <1>2 DEF Stable
    <3> QED
      BY <1>2, <1>5, <2>4, <3>1, <3>2, <3>3 DEF Ahead
  <2> QED
    BY <2>1, <2>3, <2>4 DEF Ahead
<1> QED
  BY <1>8, <1>9, <1>10 DEF OwnScan

LEMMA ReadSlotKeeps ==
  ASSUME HPInv, NEW t \in Threads, hpPc[t] = "collect", HP!CollectStep(t), HP!ReadSlot(t)
  PROVE  OwnScan(t)'
<1> USE HPAssumption, ProcessesAssumption
<1>1. HP!TypeOK /\ Loop(t) /\ Collected(t) /\ ScannedBy(t) /\ \A w \in Threads : List(w)
  BY DEF HPInv, Scanned
<1>2. UNCHANGED <<hpData, hpSize, hpPc, hpObj, hpRetired, hpIx, hpLive, hpMoved>>
  BY DEF HP!CollectStep, HP!announceVars
<1> PICK a \in 0 .. NumProcesses : a = hpAt[t].other
  BY <1>1, TypesAre
<1>3. hpAt[t].sz # HP!Unread /\ HP!Unread = -1
  BY DEF HP!ReadSlot, HP!Unread
<1> PICK n \in 1 .. HPCapacity : n = hpAt[t].sz
  BY <1>1, <1>3, TypesAre
<1> PICK i \in Nat : i = hpAt[t].ix
  BY <1>1, TypesAre
<1>4. a < NumProcesses /\ i < n /\ n < HPCapacity /\ \A j \in 0 .. n - 1 : hpData[a][j] \in HPObjects
  BY <1>1, <1>3 DEF Loop
<1> PICK p : p = hpData[a][i]
  OBVIOUS
<1>5. hpAt'[t] = HP!PlaceAt(a, n, i + 1) /\ hpComparing'[t] = hpComparing[t] \cup {p}
  BY <1>1, TypesAre DEF HP!ReadSlot
<1>6. \/ i + 1 < n /\ hpAt'[t].other = a /\ hpAt'[t].sz = n /\ hpAt'[t].ix = i + 1
      \/ i + 1 = n /\ hpAt'[t].other = a + 1 /\ hpAt'[t].sz = HP!Unread /\ hpAt'[t].ix = 0
  <2>1. a \in Nat /\ n \in Nat /\ i + 1 \in Nat
    OBVIOUS
  <2>2. (i + 1 < n \/ i + 1 = n) /\ (i + 1 >= n => i + 1 = n)
    BY <1>4
  <2>3. PICK q : q = HP!PlaceAt(a, n, i + 1)
    OBVIOUS
  <2>4. \/ i + 1 < n /\ q.other = a /\ q.sz = n /\ q.ix = i + 1
        \/ i + 1 >= n /\ q.other = a + 1 /\ q.sz = HP!Unread /\ q.ix = 0
    BY ONLY SMTT(30), <2>1, <2>3, PlaceIs
  <2>5. hpAt'[t] = q
    BY <1>5, <2>3
  <2> QED
    BY ONLY <2>2, <2>4, <2>5
<1>8. Loop(t)'
  BY <1>1, <1>2, <1>3, <1>4, <1>6 DEF Loop
<1>9. Collected(t)'
  <2> PICK c \in Nat : c = HPCapacity - 1
    OBVIOUS
  <2>1. IsFiniteSet(hpComparing[t]) /\ Cardinality(hpComparing[t]) <= a * c + i
    BY <1>1 DEF Collected
  <2>2. Cardinality(hpComparing[t]) \in Nat
    BY <2>1, FS_CardinalityType
  <2>3. (a + 1) * c = a * c + c /\ a * c \in Nat
    <3>1. a \in Nat
      OBVIOUS
    <3> QED
      BY ONLY <3>1, c \in Nat, OneListMore
  <2>4. IsFiniteSet(hpComparing'[t]) /\ Cardinality(hpComparing'[t]) <= Cardinality(hpComparing[t]) + 1
        /\ Cardinality(hpComparing'[t]) \in Nat
    <3>1. /\ IsFiniteSet(hpComparing'[t])
          /\ Cardinality(hpComparing'[t]) =
               IF p \in hpComparing[t] THEN Cardinality(hpComparing[t]) ELSE Cardinality(hpComparing[t]) + 1
      BY ONLY <1>5, <2>1, FS_AddElement
    <3> QED
      BY <2>2, <3>1
  <2>5. Cardinality(hpComparing'[t]) <= hpAt'[t].other * c + hpAt'[t].ix
    <3>1. CASE hpAt'[t].other = a /\ hpAt'[t].ix = i + 1
      BY <2>1, <2>2, <2>3, <2>4, <3>1
    <3>2. CASE i + 1 = n /\ hpAt'[t].other = a + 1 /\ hpAt'[t].ix = 0
      BY <1>4, <2>1, <2>2, <2>3, <2>4, <3>2
    <3> QED
      BY <1>6, <3>1, <3>2
  <2> QED
    BY <1>2, <2>4, <2>5 DEF Collected
<1>10. ScannedBy(t)'
  <2> SUFFICES ASSUME NEW w \in Threads, NEW j \in DOMAIN hpRetired[t], hpRetired[t][j] \in Unmoved(w)
               PROVE  hpRetired[t][j] \in hpComparing'[t] \/ Ahead(t, w, hpRetired[t][j])'
    <3>1. \A w \in Threads : Unmoved(w)' = Unmoved(w)
      BY <1>2, HeldSame
    <3> QED
      BY <1>2, <3>1 DEF ScannedBy, Met, Ahead
  <2> PICK o : o = hpRetired[t][j]
    OBVIOUS
  <2>1. o \in hpComparing[t] \/ Ahead(t, w, o)
    BY <1>1 DEF ScannedBy, Met
  <2>2. w \in Nat
    BY DEF Threads
  <2>3. CASE a < w
    BY <1>6, <2>2, <2>3 DEF Ahead
  <2>4. CASE a = w /\ \E k \in i .. n - 1 : hpData[w][k] = o /\ k < Stable(w)
    <3>1. PICK k \in i .. n - 1 : hpData[w][k] = o /\ k < Stable(w)
      BY <2>4
    <3>2. CASE k = i
      BY <1>5, <2>4, <3>1, <3>2
    <3>3. CASE k # i
      <4>1. k \in i + 1 .. n - 1 /\ i + 1 < n
        BY <3>3
      <4>2. Stable(w)' = Stable(w)
        BY <1>2 DEF Stable
      <4> QED
        BY <1>2, <1>6, <2>4, <3>1, <4>1, <4>2 DEF Ahead
    <3> QED
      BY <3>2, <3>3
  <2>5. CASE o \in hpComparing[t]
    BY <1>5, <2>5
  <2> QED
    BY <1>3, <2>1, <2>3, <2>4, <2>5 DEF Ahead
<1> QED
  BY <1>8, <1>9, <1>10 DEF OwnScan

\* A step that changes neither retired[tid] nor which objects are live.
LEMMA SameObjectsKeep ==
  ASSUME HPInv, NEW t \in Threads, ScanStep(t), UNCHANGED <<hpRetired, hpLive>>
  PROVE  (\A u \in Threads : Once(u)') /\ HeldKeptUnlessMoved'
<1>1. \A u \in Threads : Once(u)'
  BY DEF HPInv, Once
<1>2. HP!Pool' = HP!Pool
  BY DEF HP!Pool, HP!Retired, HP!ToSet
<1> QED
  BY <1>1, <1>2, KeptIfPoolKept

LEMMA CollectStepKeeps ==
  ASSUME HPInv, NEW t \in Threads, HP!CollectStep(t)
  PROVE  OwnScan(t)' /\ (\A u \in Threads : Once(u)') /\ HeldKeptUnlessMoved'
<1>1. OwnScan(t)'
  <2>1. hpPc[t] = "collect" /\ (HP!ReadSize(t) \/ HP!ReadSlot(t))
    BY DEF HP!CollectStep, HP!Collect
  <2> QED
    BY <2>1, ReadSizeKeeps, ReadSlotKeeps
<1>2. ScanStep(t) /\ UNCHANGED <<hpRetired, hpLive>>
  BY DEF ScanStep, HP!CollectStep
<1> QED
  BY <1>1, <1>2, SameObjectsKeep

LEMMA StartSweepKeeps ==
  ASSUME HPInv, NEW t \in Threads, HP!StartSweep(t)
  PROVE  OwnScan(t)' /\ (\A u \in Threads : Once(u)') /\ HeldKeptUnlessMoved'
<1> USE HPAssumption, ProcessesAssumption
<1>1. HP!TypeOK /\ Loop(t) /\ Collected(t) /\ ScannedBy(t)
  BY DEF HPInv, Scanned
<1>2. /\ hpPc[t] = "collect" /\ hpPc'[t] = "sweep" /\ hpAt[t].other = NumProcesses
      /\ hpAt'[t] = HP!FirstPlace
      /\ UNCHANGED <<hpData, hpSize, hpObj, hpMoved, hpComparing, hpRetired, hpIx, hpLive>>
  BY <1>1, TypesAre DEF HP!StartSweep, HP!Goto, HP!Hashed, HP!Rewind, HP!announceVars
<1>3. ScanStep(t)
  BY DEF ScanStep
<1>4. HP!FirstPlace.other = 0 /\ HP!FirstPlace.sz = HP!Unread /\ HP!FirstPlace.ix = 0
  BY DEF HP!FirstPlace
<1>5. Loop(t)'
  BY <1>1, <1>2, <1>4 DEF Loop
<1>6. Collected(t)'
  <2>1. hpAt[t].ix = 0 /\ hpIx[t] = 1
    BY <1>1, <1>2 DEF Loop
  <2>2. NumProcesses * (HPCapacity - 1) \in Nat
    <3>1. HPCapacity - 1 \in Nat
      OBVIOUS
    <3> QED
      BY ONLY <3>1, NumProcesses \in Nat, OneListMore
  <2>3. IsFiniteSet(hpComparing[t]) /\ Cardinality(hpComparing[t]) <= NumProcesses * (HPCapacity - 1) + 0
    BY <1>1, <1>2, <2>1 DEF Collected
  <2>4. Cardinality(hpComparing[t]) \in Nat
    BY <2>3, FS_CardinalityType
  <2>5. Cardinality(hpComparing[t]) <= NumProcesses * (HPCapacity - 1)
    BY ONLY <2>2, <2>3, <2>4
  <2>6. hpIx'[t] = 1 /\ \A j \in 1 .. 1 - 1 : FALSE
    BY <1>2, <2>1
  <2> QED
    BY <1>2, <2>3, <2>5, <2>6 DEF Collected
<1>7. ScannedBy(t)'
  <2>1. ASSUME NEW w \in Threads, NEW o PROVE ~Ahead(t, w, o)
    BY <1>2 DEF Ahead, Threads
  <2>2. ASSUME NEW w \in Threads PROVE Unmoved(w)' = Unmoved(w)
    BY <1>2, HeldSame
  <2> QED
    BY <1>1, <1>2, <2>1, <2>2 DEF ScannedBy, Met
<1> QED
  BY <1>2, <1>3, <1>5, <1>6, <1>7, SameObjectsKeep DEF OwnScan

LEMMA RetireReturnKeeps ==
  ASSUME HPInv, NEW t \in Threads, HP!RetireReturn(t)
  PROVE  OwnScan(t)' /\ (\A u \in Threads : Once(u)') /\ HeldKeptUnlessMoved'
<1>1. HP!TypeOK /\ Loop(t)
  BY DEF HPInv
<1>2. /\ hpPc[t] = "sweep" /\ hpPc'[t] = "idle" /\ hpIx'[t] = 1 /\ hpComparing'[t] = {}
      /\ UNCHANGED <<hpAt, hpData, hpRetired, hpLive>>
  BY <1>1, TypesAre DEF HP!RetireReturn, HP!Goto, HP!ClearComparing, HP!announceVars
<1>3. ScanStep(t)
  BY DEF ScanStep
<1>4. Loop(t)'
  BY <1>1, <1>2 DEF Loop
<1>5. Collected(t)'
  <2>1. IsFiniteSet({})
    BY FS_EmptySet
  <2> QED
    BY <1>2, <2>1 DEF Collected
<1>6. ScannedBy(t)'
  BY <1>2 DEF ScannedBy
<1> QED
  BY <1>2, <1>3, <1>4, <1>5, <1>6, SameObjectsKeep DEF OwnScan

LEMMA AllocateKeeps ==
  ASSUME HPInv, NEW t \in Threads, NEW o \in HPObjects, HP!Allocate(t, o)
  PROVE  OwnScan(t)' /\ (\A u \in Threads : Once(u)') /\ HeldKeptUnlessMoved'
<1>1. /\ hpPc[t] = "idle" /\ o \in HP!Pool /\ hpLive' = hpLive \cup {o}
      /\ UNCHANGED <<hpData, hpSize, hpComparing, hpAt, hpPc, hpObj, hpRetired, hpIx, hpMoved>>
  BY DEF HP!Allocate, HP!announceVars, HP!hashVars
<1>2. Loop(t)'
  BY <1>1 DEF HPInv, Loop
<1>3. Collected(t)'
  BY <1>1, CollectedSame DEF HPInv
<1>4. ScannedBy(t)'
  BY <1>1 DEF ScannedBy
<1>5. ASSUME NEW u \in Threads PROVE Once(u)'
  <2>1. \A j \in DOMAIN hpRetired[u] : hpRetired[u][j] # o
    BY <1>1, RetiredIs DEF HP!Pool
  <2> QED
    BY <1>1, <2>1 DEF HPInv, Once
<1>6. HeldKeptUnlessMoved'
  <2>1. HP!Pool' \subseteq HP!Pool
    BY <1>1 DEF HP!Pool, HP!Retired, HP!ToSet
  <2>2. ScanStep(t)
    BY DEF ScanStep
  <2> QED
    BY <2>1, <2>2, KeptIfPoolKept
<1> QED
  BY <1>2, <1>3, <1>4, <1>5, <1>6 DEF OwnScan

LEMMA SweepKeeps ==
  ASSUME HPInv, NEW t \in Threads, HP!Sweep(t)
  PROVE  OwnScan(t)' /\ (\A u \in Threads : Once(u)') /\ HeldKeptUnlessMoved'
<1> USE HPAssumption
<1>1. HP!TypeOK /\ Loop(t) /\ Collected(t) /\ ScannedBy(t) /\ Once(t)
  BY DEF HPInv, Scanned
<1>2. ScanStep(t)
  BY DEF ScanStep
<1>3. /\ hpPc[t] = "sweep" /\ hpPc'[t] = "sweep"
      /\ UNCHANGED <<hpData, hpSize, hpComparing, hpAt, hpPc, hpObj, hpLive, hpMoved>>
  BY DEF HP!Sweep, HP!announceVars, HP!hashVars
<1> PICK list \in Seq(HPObjects) : list = hpRetired[t]
  BY <1>1, TypesAre
<1> PICK i \in Nat \ {0} : i = hpIx[t]
  BY <1>1, TypesAre
<1>4. i <= Len(list) /\ i \in 1 .. Len(list) /\ DOMAIN list = 1 .. Len(list) /\ Len(list) \in Nat
  BY DEF HP!Sweep
<1>5. Loop(t)'
  BY <1>1, <1>3 DEF Loop
<1>6. \A j \in 1 .. i - 1 : list[j] \in hpComparing[t]
  BY <1>1, <1>3 DEF Collected
<1>7. ASSUME NEW w \in Threads PROVE Unmoved(w)' = Unmoved(w)
  BY <1>3, HeldSame
<1>8. \A w \in Threads, j \in 1 .. Len(list) : list[j] \in Unmoved(w) => list[j] \in hpComparing[t]
  BY <1>1, <1>3, <1>4 DEF ScannedBy, Met
<1>9. CASE list[i] \in hpComparing[t]
  <2>1. hpIx'[t] = i + 1 /\ hpRetired' = hpRetired
    BY <1>1, <1>9, TypesAre DEF HP!Sweep
  <2>2. Collected(t)'
    <3>1. \A j \in 1 .. i + 1 - 1 : j \in DOMAIN list /\ list[j] \in hpComparing[t]
      BY <1>4, <1>6, <1>9
    <3>2. hpRetired'[t] = list
      BY <2>1
    <3> QED
      BY <1>1, <1>3, <2>1, <3>1, <3>2 DEF Collected
  <2>3. ScannedBy(t)'
    BY <1>3, <1>4, <1>7, <1>8, <2>1 DEF ScannedBy, Met
  <2> QED
    BY <1>2, <1>3, <1>5, <2>1, <2>2, <2>3, SameObjectsKeep DEF OwnScan
<1>10. CASE list[i] \notin hpComparing[t]
  <2> PICK rest : rest = HP!Erased(list, i)
    OBVIOUS
  <2>1. /\ rest \in Seq(HPObjects) /\ Len(rest) = Len(list) - 1
        /\ \A j \in 1 .. Len(list) - 1 : rest[j] = IF j = i THEN list[Len(list)] ELSE list[j]
    <3>1. i \in 1 .. Len(list)
      BY <1>4
    <3>2. rest = HP!Erased(list, i)
      OBVIOUS
    <3> QED
      BY ONLY <3>1, <3>2, list \in Seq(HPObjects), ErasedIs
  <2>2. DOMAIN rest = 1 .. Len(list) - 1
    BY <2>1
  <2>3. /\ hpIx' = hpIx /\ hpRetired'[t] = rest /\ \A u \in Threads \ {t} : hpRetired'[u] = hpRetired[u]
    <3>1. hpIx' = hpIx /\ hpRetired' = [hpRetired EXCEPT ![t] = HP!Erased(@, hpIx[t])]
      BY <1>10 DEF HP!Sweep
    <3> QED
      BY <1>1, <3>1, TypesAre
  <2>4. Len(list) \in 1 .. Len(list)
    BY <1>4
  <2>5. \A j \in 1 .. Len(list) - 1 : \E k \in 1 .. Len(list) : rest[j] = list[k]
    BY <1>4, <2>1
  <2>6. Collected(t)'
    <3>1. \A j \in 1 .. i - 1 : j \in 1 .. Len(list) - 1 /\ rest[j] = list[j]
      BY <1>4, <2>1
    <3> QED
      BY <1>1, <1>3, <1>6, <2>2, <2>3, <3>1 DEF Collected
  <2>7. ScannedBy(t)'
    <3>1. \A w \in Threads, j \in 1 .. Len(list) - 1 : rest[j] \in Unmoved(w) => rest[j] \in hpComparing[t]
      BY <1>8, <2>5
    <3> QED
      BY <1>3, <1>7, <2>2, <2>3, <3>1 DEF ScannedBy, Met
  <2>8. ASSUME NEW u \in Threads PROVE Once(u)'
    <3>1. CASE u # t
      BY <1>3, <2>3, <3>1 DEF HPInv, Once
    <3>2. CASE u = t
      <4>1. \A j, k \in 1 .. Len(list) : list[j] = list[k] => j = k
        BY <1>1, <1>4 DEF Once
      <4>2. \A j, k \in 1 .. Len(list) - 1 : rest[j] = rest[k] => j = k
        BY ONLY SMTT(30), <1>4, <2>1, <2>4, <4>1
      <4>3. \A j \in 1 .. Len(list) - 1 : rest[j] \notin hpLive
        BY <1>1, <1>4, <2>5 DEF Once
      <4> QED
        BY <1>3, <2>2, <2>3, <3>2, <4>2, <4>3 DEF Once
    <3> QED
      BY <3>1, <3>2
  <2>9. HeldKeptUnlessMoved'
    <3>1. \A w \in Threads : list[i] \notin Unmoved(w)
      BY <1>4, <1>8, <1>10
    <3>2. ASSUME NEW o \in HP!Retired, o # list[i] PROVE o \in HP!Retired'
      <4>1. PICK u \in Threads : \E j \in DOMAIN hpRetired[u] : hpRetired[u][j] = o
        BY RetiredIs
      <4>2. CASE u = t
        <5>1. PICK j \in 1 .. Len(list) : list[j] = o
          BY <1>4, <4>1, <4>2
        <5>2. CASE j < Len(list)
          BY SMTT(30), <1>4, <2>1, <2>2, <2>3, <3>2, <5>1, <5>2, RetiredNextIs
        <5>3. CASE j = Len(list)
          <6>1. i \in 1 .. Len(list) - 1 /\ rest[i] = o
            BY <1>4, <2>1, <3>2, <5>1, <5>3
          <6> QED
            BY <2>2, <2>3, <6>1, RetiredNextIs
        <5> QED
          BY <1>4, <5>2, <5>3
      <4>3. CASE u # t
        BY <2>3, <4>1, <4>3, RetiredNextIs
      <4> QED
        BY <4>2, <4>3
    <3>3. \A o \in HP!Pool' : o \in HP!Pool \/ o = list[i]
      BY <1>3, <3>2 DEF HP!Pool
    <3> QED
      BY <1>2, <3>1, <3>3, KeptIfPoolKept
  <2> QED
    BY <1>5, <2>6, <2>7, <2>8, <2>9 DEF OwnScan
<1> QED
  BY <1>9, <1>10

LEMMA ScanStepInvariants ==
  ASSUME HPInv, NEW t \in Threads, ScanStep(t)
  PROVE  /\ \A u \in Threads : List(u)' /\ Loop(u)' /\ Once(u)' /\ Collected(u)'
         /\ Scanned' /\ HeldKeptUnlessMoved'
<1>1. OwnScan(t)' /\ (\A u \in Threads : Once(u)') /\ HeldKeptUnlessMoved'
  BY CollectStepKeeps, StartSweepKeeps, SweepKeeps, RetireReturnKeeps, RetireKeeps, AllocateKeeps
     DEF ScanStep
<1>2. ASSUME NEW u \in Threads PROVE List(u)'
  BY ScanFrameKeeps DEF HPInv
<1>3. ASSUME NEW u \in Threads PROVE Loop(u)' /\ Collected(u)' /\ ScannedBy(u)'
  <2>1. CASE u = t
    BY <1>1, <2>1 DEF OwnScan
  <2>2. CASE u # t
    BY <2>2, ScanFrameOthers
  <2> QED
    BY <2>1, <2>2
<1> QED
  BY <1>1, <1>2, <1>3 DEF Scanned

-----------------------------------------------------------------------------
\* Types

LEMMA AnnounceStepTypes ==
  ASSUME HP!TypeOK, NEW t \in Threads, List(t), AnnounceStep(t)
  PROVE  HP!TypeOK'
<1> USE TypesAre, HPAssumption
<1>1. /\ UNCHANGED <<hpComparing, hpAt, hpRetired, hpIx, hpLive>>
  BY AnnounceFrame
<1>2. hpData' \in [Threads -> [0 .. HPCapacity - 1 -> HPObjects \cup {NULL}]]
  <2>1. ASSUME NEW i, NEW o \in HPObjects, hpData' = [hpData EXCEPT ![t][i] = o]
        PROVE  hpData' \in [Threads -> [0 .. HPCapacity - 1 -> HPObjects \cup {NULL}]]
    BY <2>1
  <2>2. CASE HP!EraseMove(t)
    <3>1. hpData[t][hpSize[t] - 1] \in HPObjects
      BY <2>2 DEF HP!EraseMove, HP!Goto, List
    <3> QED
      BY <2>1, <2>2, <3>1 DEF HP!EraseMove, HP!EraseStore
  <2>3. ASSUME NEW o \in HPObjects, HP!Protect(t, o)
        PROVE  hpData' \in [Threads -> [0 .. HPCapacity - 1 -> HPObjects \cup {NULL}]]
    BY <2>1, <2>3 DEF HP!Protect, HP!AddStore
  <2>4. CASE UNCHANGED hpData
    BY <2>4
  <2> QED
    BY <2>2, <2>3, <2>4 DEF AnnounceStep, HP!Count, HP!Validate, HP!Uncount, HP!Unprotect,
       HP!EnterQuiescentState, HP!announceVars
<1>3. hpSize' \in [Threads -> 0 .. HPCapacity]
  <2>1. ASSUME NEW n \in 0 .. HPCapacity, hpSize' = [hpSize EXCEPT ![t] = n]
        PROVE  hpSize' \in [Threads -> 0 .. HPCapacity]
    BY <2>1
  <2>2. hpSize[t] \in 0 .. HPCapacity
    OBVIOUS
  <2>3. CASE HP!Count(t)
    <3>1. hpSize[t] + 1 \in 0 .. HPCapacity
      BY <2>2, <2>3 DEF HP!Count, HP!Goto, List
    <3> QED
      BY <2>1, <2>3, <3>1 DEF HP!Count, HP!AddCount
  <2>4. CASE HP!Uncount(t)
    <3>1. hpSize[t] - 1 \in 0 .. HPCapacity
      BY <2>2, <2>4 DEF HP!Uncount, HP!Goto, List
    <3> QED
      BY <2>1, <2>4, <3>1 DEF HP!Uncount, HP!EraseCount
  <2>5. CASE HP!EnterQuiescentState(t)
    BY <2>1, <2>5 DEF HP!EnterQuiescentState, HP!Clear
  <2>6. CASE UNCHANGED hpSize
    BY <2>6
  <2> QED
    BY <2>3, <2>4, <2>5, <2>6 DEF AnnounceStep, HP!Protect, HP!Validate, HP!EraseMove, HP!Unprotect,
       HP!announceVars
<1>4. hpPc' \in [Threads -> HP!PCs]
  BY DEF AnnounceStep, HP!Protect, HP!Count, HP!Validate, HP!Unprotect, HP!EraseMove, HP!Uncount,
         HP!EnterQuiescentState, HP!Goto, HP!PCs
<1>5. hpObj' \in [Threads -> HPObjects \cup {NULL}]
  BY DEF AnnounceStep, HP!Protect, HP!Count, HP!Validate, HP!Unprotect, HP!EraseMove, HP!Uncount,
         HP!EnterQuiescentState
<1>6. hpMoved' \in [Threads -> SUBSET HPObjects]
  <2>1. CASE HP!EraseMove(t)
    <3>1. hpData[t][hpSize[t] - 1] \in HPObjects
      BY <2>1 DEF HP!EraseMove, HP!Goto, List
    <3>2. HP!Relocated(t) \subseteq HPObjects
      BY <3>1 DEF HP!Relocated
    <3> QED
      BY <2>1, <3>2 DEF HP!EraseMove
  <2> QED
    BY <2>1 DEF AnnounceStep, HP!Protect, HP!Count, HP!Validate, HP!Unprotect, HP!Uncount,
       HP!EnterQuiescentState
<1> QED
  BY <1>1, <1>2, <1>3, <1>4, <1>5, <1>6, ThreadsAre
     DEF HP!TypeOK, HP!AnnouncementsTypeOK, HP!Slots, HP!Places, HP!Unread

LEMMA ScanStepTypes ==
  ASSUME HPInv, NEW t \in Threads, ScanStep(t)
  PROVE  HP!TypeOK'
<1> USE HPAssumption, ProcessesAssumption
<1>1. HP!TypeOK /\ Loop(t) /\ \A w \in Threads : List(w)
  BY DEF HPInv
<1> USE <1>1, TypesAre
<1>2. UNCHANGED <<hpData, hpSize, hpObj, hpMoved>>
  BY ScanFrame
<1>3. hpPc' \in [Threads -> HP!PCs] /\ hpLive' \subseteq HPObjects
  BY DEF ScanStep, HP!CollectStep, HP!StartSweep, HP!Sweep, HP!RetireReturn, HP!Retire, HP!Allocate,
         HP!Goto, HP!PCs
<1>4. hpRetired' \in [Threads -> Seq(HPObjects)] /\ \A u \in Threads : Len(hpRetired'[u]) <= HPThreshold
  <2>1. ASSUME NEW list \in Seq(HPObjects), Len(list) <= HPThreshold, hpRetired' = [hpRetired EXCEPT ![t] = list]
        PROVE  hpRetired' \in [Threads -> Seq(HPObjects)] /\ \A u \in Threads : Len(hpRetired'[u]) <= HPThreshold
    BY <2>1
  <2>2. ASSUME NEW o \in HPObjects, HP!Retire(t, o)
        PROVE  hpRetired' \in [Threads -> Seq(HPObjects)] /\ \A u \in Threads : Len(hpRetired'[u]) <= HPThreshold
    <3>1. hpRetired[t] \in Seq(HPObjects) /\ Len(hpRetired[t]) < HPThreshold
      BY <2>2 DEF HP!Retire
    <3>2. Append(hpRetired[t], o) \in Seq(HPObjects) /\ Len(Append(hpRetired[t], o)) <= HPThreshold
      BY <3>1
    <3> QED
      BY <2>1, <2>2, <3>2 DEF HP!Retire
  <2>3. CASE HP!Sweep(t)
    <3>1. hpRetired[t] \in Seq(HPObjects) /\ hpIx[t] \in 1 .. Len(hpRetired[t]) /\ Len(hpRetired[t]) <= HPThreshold
      BY <2>3 DEF HP!Sweep
    <3>2. Len(HP!Erased(hpRetired[t], hpIx[t])) = Len(hpRetired[t]) - 1
          /\ HP!Erased(hpRetired[t], hpIx[t]) \in Seq(HPObjects)
      BY ONLY <3>1, ErasedIs
    <3>3. Len(HP!Erased(hpRetired[t], hpIx[t])) <= HPThreshold
      BY <3>1, <3>2
    <3>4. CASE UNCHANGED hpRetired
      BY <3>4
    <3> QED
      BY <2>1, <2>3, <3>2, <3>3, <3>4 DEF HP!Sweep
  <2>4. CASE UNCHANGED hpRetired
    BY <2>4
  <2> QED
    BY <2>2, <2>3, <2>4 DEF ScanStep, HP!CollectStep, HP!StartSweep, HP!RetireReturn, HP!Allocate
<1>5. hpIx' \in [Threads -> 1 .. HPThreshold + 1]
  <2>1. CASE HP!Sweep(t)
    <3>1. hpIx[t] <= Len(hpRetired[t]) /\ Len(hpRetired[t]) <= HPThreshold /\ Len(hpRetired[t]) \in Nat
          /\ hpIx[t] \in 1 .. HPThreshold + 1
      BY <2>1 DEF HP!Sweep
    <3>2. hpIx[t] + 1 \in 1 .. HPThreshold + 1
      BY <3>1
    <3> QED
      BY <2>1, <3>2 DEF HP!Sweep
  <2>2. CASE hpIx' = [hpIx EXCEPT ![t] = 1]
    <3>1. 1 \in 1 .. HPThreshold + 1
      OBVIOUS
    <3> QED
      BY <2>2, <3>1
  <2>3. CASE UNCHANGED hpIx
    BY <2>3
  <2> QED
    BY <2>1, <2>2, <2>3 DEF ScanStep, HP!CollectStep, HP!StartSweep, HP!RetireReturn, HP!Retire, HP!Allocate
<1>6. hpComparing' \in [Threads -> SUBSET HPObjects]
  <2>1. ASSUME HP!CollectStep(t), HP!ReadSlot(t)
        PROVE  hpComparing' \in [Threads -> SUBSET HPObjects]
    <3>1. hpAt[t].sz # HP!Unread /\ hpAt[t].ix \in 0 .. HPCapacity - 1 /\ hpAt[t].sz \in {-1} \cup 1 .. HPCapacity
      BY <2>1 DEF HP!ReadSlot
    <3>2. hpAt[t].ix \in 0 .. hpAt[t].sz - 1
      BY <3>1 DEF Loop
    <3>3. hpData[hpAt[t].other][hpAt[t].ix] \in HPObjects
      BY <3>1, <3>2 DEF Loop
    <3> QED
      BY <2>1, <3>3 DEF HP!ReadSlot
  <2>2. CASE HP!RetireReturn(t)
    BY <2>2 DEF HP!RetireReturn, HP!ClearComparing
  <2>3. CASE UNCHANGED hpComparing
    BY <2>3
  <2> QED
    BY <2>1, <2>2, <2>3 DEF ScanStep, HP!CollectStep, HP!Collect, HP!ReadSize, HP!StartSweep, HP!Sweep,
       HP!Retire, HP!Allocate, HP!hashVars
<1> DEFINE Places == [other : 0 .. NumProcesses, sz : {-1} \cup 1 .. HPCapacity, ix : 0 .. HPCapacity - 1]
<1>7. ASSUME NEW a \in 0 .. NumProcesses, NEW n \in 0 .. HPCapacity, NEW i \in Nat, a < NumProcesses
      PROVE  HP!PlaceAt(a, n, i) \in Places
  <2>1. CASE i < n
    <3>1. HP!PlaceAt(a, n, i) = [other |-> a, sz |-> n, ix |-> i]
      BY <2>1 DEF HP!PlaceAt
    <3>2. n \in 1 .. HPCapacity /\ i \in 0 .. HPCapacity - 1
      BY <2>1
    <3> QED
      BY <3>1, <3>2
  <2>2. CASE ~(i < n)
    <3>1. HP!PlaceAt(a, n, i) = [other |-> a + 1, sz |-> -1, ix |-> 0]
      BY <2>2 DEF HP!PlaceAt, HP!FirstPlace, HP!Unread
    <3>2. a + 1 \in 0 .. NumProcesses
      BY <1>7
    <3> QED
      BY <3>1, <3>2
  <2> QED
    BY <2>1, <2>2
<1>8. hpAt' \in [Threads -> Places]
  <2>1. ASSUME NEW p \in Places, hpAt' = [hpAt EXCEPT ![t] = p] PROVE hpAt' \in [Threads -> Places]
    BY <2>1
  <2>2. hpAt[t].other \in 0 .. NumProcesses /\ hpAt[t].ix \in 0 .. HPCapacity - 1
        /\ hpAt[t].sz \in {-1} \cup 1 .. HPCapacity
    OBVIOUS
  <2>3. ASSUME HP!CollectStep(t), HP!ReadSize(t) PROVE hpAt' \in [Threads -> Places]
    <3>1. hpAt[t].other < NumProcesses
      BY <2>2, <2>3 DEF HP!ReadSize, HP!Hashed
    <3>2. hpSize[hpAt[t].other] \in 0 .. HPCapacity
      <4>1. hpAt[t].other \in Threads
        BY ONLY <2>2, <3>1, NumProcesses \in Nat \ {0} DEF Threads
      <4>2. hpSize \in [Threads -> 0 .. HPCapacity]
        OBVIOUS
      <4> QED
        BY ONLY <4>1, <4>2
    <3>3. HP!PlaceAt(hpAt[t].other, hpSize[hpAt[t].other], 0) \in Places
      BY <1>7, <2>2, <3>1, <3>2
    <3> QED
      BY <2>1, <2>3, <3>3 DEF HP!ReadSize
  <2>4. ASSUME HP!CollectStep(t), HP!ReadSlot(t) PROVE hpAt' \in [Threads -> Places]
    <3>1. hpAt[t].sz \in 1 .. HPCapacity /\ hpAt[t].other < NumProcesses
      BY <2>2, <2>4 DEF HP!ReadSlot, HP!Unread, Loop
    <3>2. hpAt[t].sz \in 0 .. HPCapacity /\ hpAt[t].ix + 1 \in Nat
      BY <2>2, <3>1
    <3>3. HP!PlaceAt(hpAt[t].other, hpAt[t].sz, hpAt[t].ix + 1) \in Places
      BY <1>7, <2>2, <3>1, <3>2
    <3> QED
      BY <2>1, <2>4, <3>3 DEF HP!ReadSlot
  <2>5. CASE HP!StartSweep(t)
    <3>1. HP!FirstPlace \in Places
      BY DEF HP!FirstPlace, HP!Unread
    <3> QED
      BY <2>1, <2>5, <3>1 DEF HP!StartSweep, HP!Rewind
  <2>6. CASE UNCHANGED hpAt
    BY <2>6
  <2> QED
    BY <2>3, <2>4, <2>5, <2>6 DEF ScanStep, HP!CollectStep, HP!Collect, HP!Sweep, HP!RetireReturn,
       HP!Retire, HP!Allocate, HP!hashVars
<1> QED
  BY <1>2, <1>3, <1>4, <1>5, <1>6, <1>8, ThreadsAre
     DEF HP!TypeOK, HP!AnnouncementsTypeOK, HP!Slots, HP!Places, HP!Unread

-----------------------------------------------------------------------------
\* The invariant

LEMMA HPInvInit == HP!Init => HPInv
<1> USE HPAssumption, ProcessesAssumption
<1> SUFFICES ASSUME HP!Init PROVE HPInv
  OBVIOUS
<1>1. /\ hpPc = [t \in Threads |-> "idle"] /\ hpObj = [t \in Threads |-> NULL]
      /\ hpRetired = [t \in Threads |-> <<>>] /\ hpIx = [t \in Threads |-> 1] /\ hpLive = {}
      /\ hpMoved = [t \in Threads |-> {}]
      /\ hpData = [t \in Threads |-> [i \in 0 .. HPCapacity - 1 |-> NULL]]
      /\ hpSize = [t \in Threads |-> 0] /\ hpComparing = [t \in Threads |-> {}]
      /\ hpAt = [t \in Threads |-> HP!FirstPlace]
  BY ThreadsAre DEF HP!Init, HP!AnnouncementsInit, HP!Slots
<1>2. HP!TypeOK
  <2>1. HP!FirstPlace \in HP!Places
    BY DEF HP!FirstPlace, HP!Places, HP!Unread, HP!Slots
  <2> QED
    BY <1>1, <2>1, ThreadsAre DEF HP!TypeOK, HP!AnnouncementsTypeOK, HP!Slots, HP!PCs
<1>3. ASSUME NEW t \in Threads PROVE List(t) /\ Loop(t) /\ Once(t) /\ Collected(t)
  <2>1. List(t)
    BY <1>1 DEF List, Stable
  <2>2. Loop(t)
    BY <1>1 DEF Loop, HP!FirstPlace
  <2>3. Once(t)
    BY <1>1 DEF Once
  <2>4. Collected(t)
    BY <1>1, FS_EmptySet DEF Collected
  <2> QED
    BY <2>1, <2>2, <2>3, <2>4
<1>4. Scanned
  BY <1>1 DEF Scanned, ScannedBy
<1>5. HeldKeptUnlessMoved
  BY <1>1 DEF HeldKeptUnlessMoved, HP!HeldKeptUnlessMoved, HP!Held, HP!Announced, HP!Threads, Threads, HP!Slots
<1> QED
  BY <1>2, <1>3, <1>4, <1>5 DEF HPInv

LEMMA StepIs ==
  ASSUME HP!Next
  PROVE  \E t \in Threads : AnnounceStep(t) \/ ScanStep(t)
BY ThreadsAre DEF HP!Next, HP!Step, AnnounceStep, ScanStep

LEMMA HPInvNext == HPInv /\ [HP!Next]_(HP!vars) => HPInv'
<1> SUFFICES ASSUME HPInv, [HP!Next]_(HP!vars) PROVE HPInv'
  OBVIOUS
<1>1. CASE HP!Next
  <2>1. PICK t \in Threads : AnnounceStep(t) \/ ScanStep(t)
    BY <1>1, StepIs
  <2>2. CASE AnnounceStep(t)
    BY <2>2, AnnounceStepTypes, AnnounceStepScanned, AnnounceStepInvariants DEF HPInv
  <2>3. CASE ScanStep(t)
    BY <2>3, ScanStepTypes, ScanStepInvariants DEF HPInv
  <2> QED
    BY <2>1, <2>2, <2>3
<1>2. CASE UNCHANGED HP!vars
  <2>1. UNCHANGED <<hpData, hpSize, hpComparing, hpAt, hpPc, hpObj, hpRetired, hpIx, hpLive, hpMoved>>
    BY <1>2 DEF HP!vars, HP!announceVars, HP!hashVars
  <2>2. HP!TypeOK'
    BY <2>1 DEF HPInv, HP!TypeOK, HP!AnnouncementsTypeOK
  <2>3. ASSUME NEW t \in Threads
        PROVE  List(t)' /\ Loop(t)' /\ Once(t)' /\ Collected(t)' /\ Stable(t)' = Stable(t)
               /\ Unmoved(t)' = Unmoved(t)
    BY <2>1, ListSame, HeldSame, CollectedSame DEF HPInv, Loop, Once
  <2>4. Scanned'
    <3>1. Scanned
      BY DEF HPInv
    <3> QED
      BY <2>1, <2>3, <3>1 DEF Scanned, ScannedBy, Met, Ahead
  <2>5. HeldKeptUnlessMoved'
    <3>1. HP!Pool' = HP!Pool
      BY <2>1 DEF HP!Pool, HP!Retired, HP!ToSet
    <3>2. \A w \in Threads : Unmoved(w) \cap HP!Pool = {}
      BY KeptIs DEF HPInv
    <3>3. \A w \in Threads : Unmoved(w)' \cap HP!Pool' = {}
      BY <2>3, <3>1, <3>2
    <3> QED
      BY <3>3, ThreadsAre DEF HeldKeptUnlessMoved, HP!HeldKeptUnlessMoved, Unmoved
  <2> QED
    BY <2>2, <2>3, <2>4, <2>5 DEF HPInv
<1> QED
  BY <1>1, <1>2
-----------------------------------------------------------------------------
\* Room

\* Outside a scan there is room; a scan keeps no more than it collected.
Room(t) == hpPc[t] \notin {"collect", "sweep"} => Len(hpRetired[t]) < HPThreshold

LEMMA RoomIs == (\A t \in Threads : Room(t)) => RoomToRetire
BY ThreadsAre DEF Room, RoomToRetire, HP!RoomToRetire

\* A list whose entries differ, all of them in a set, is no longer than the set.
LEMMA NoLongerThanSet ==
  ASSUME NEW S, IsFiniteSet(S), NEW list, NEW n \in Nat,
         \A j \in 1 .. n : list[j] \in S,
         \A j, k \in 1 .. n : list[j] = list[k] => j = k
  PROVE  n <= Cardinality(S)
<1> PICK f : f = [j \in 1 .. n |-> list[j]]
  OBVIOUS
<1>1. f \in Injection(1 .. n, S)
  BY DEF Injection, IsInjective
<1>2. Cardinality(1 .. n) <= Cardinality(S)
  BY ONLY <1>1, IsFiniteSet(S), FS_Injection
<1>3. Cardinality(1 .. n) = n
  BY FS_Interval
<1> QED
  BY <1>2, <1>3

LEMMA RoomKept ==
  ASSUME HPThreshold > NumProcesses * (HPCapacity - 1),
         HPInv, \A t \in Threads : Room(t), [HP!Next]_(HP!vars)
  PROVE  \A t \in Threads : Room(t)'
<1> USE HPAssumption, ProcessesAssumption
<1> SUFFICES ASSUME NEW t \in Threads PROVE Room(t)'
  OBVIOUS
<1> PICK list \in Seq(HPObjects) : list = hpRetired[t]
  BY TypesAre DEF HPInv
<1>1. hpRetired \in [Threads -> Seq(HPObjects)] /\ hpPc \in [Threads -> HP!PCs] /\ Room(t)
  BY TypesAre DEF HPInv
<1>2. CASE UNCHANGED HP!vars
  BY <1>1, <1>2 DEF Room, HP!vars
<1>3. ASSUME NEW u \in Threads, AnnounceStep(u) PROVE Room(t)'
  <2>1. UNCHANGED hpRetired /\ (hpPc'[t] = hpPc[t] \/ hpPc[t] \notin {"collect", "sweep"})
    BY <1>3, AnnounceFrame DEF HPInv
  <2> QED
    BY <1>1, <2>1 DEF Room
<1>4. ASSUME NEW u \in Threads \ {t}, ScanStep(u) PROVE Room(t)'
  <2>1. hpRetired'[t] = hpRetired[t] /\ hpPc'[t] = hpPc[t]
    BY <1>4, ScanFrame DEF HPInv
  <2> QED
    BY <1>1, <2>1 DEF Room
<1>5. ASSUME ScanStep(t) PROVE Room(t)'
  <2>1. ASSUME NEW o \in HPObjects, HP!Retire(t, o) PROVE Room(t)'
    <3>1. /\ hpPc'[t] = IF Len(list) + 1 = HPThreshold THEN "collect" ELSE "idle"
          /\ Len(list) < HPThreshold /\ hpRetired'[t] = Append(list, o)
      BY <1>1, <2>1 DEF HP!Retire, HP!Goto
    <3>2. Len(Append(list, o)) = Len(list) + 1 /\ Len(list) \in Nat
      OBVIOUS
    <3> QED
      BY <3>1, <3>2 DEF Room
  <2>2. ASSUME NEW o \in HPObjects, HP!Allocate(t, o) PROVE Room(t)'
    BY <1>1, <2>2 DEF HP!Allocate, Room
  <2>3. CASE HP!CollectStep(t) \/ HP!StartSweep(t) \/ HP!Sweep(t)
    <3>1. hpPc'[t] \in {"collect", "sweep"}
      BY <1>1, <2>3 DEF HP!CollectStep, HP!StartSweep, HP!Sweep, HP!Goto
    <3> QED
      BY <3>1 DEF Room
  <2>4. CASE HP!RetireReturn(t)
    <3>1. hpPc[t] = "sweep" /\ hpRetired' = hpRetired /\ hpIx[t] > Len(list)
      BY <2>4 DEF HP!RetireReturn, HP!Goto
    <3>2. /\ IsFiniteSet(hpComparing[t]) /\ Cardinality(hpComparing[t]) <= NumProcesses * (HPCapacity - 1)
          /\ \A j \in 1 .. hpIx[t] - 1 : j \in DOMAIN list /\ list[j] \in hpComparing[t]
      BY <3>1 DEF HPInv, Collected
    <3>3. Len(list) \in Nat /\ DOMAIN list = 1 .. Len(list) /\ hpIx[t] \in Nat
      BY TypesAre DEF HPInv
    <3>4. \A j \in 1 .. Len(list) : list[j] \in hpComparing[t]
      <4>1. \A j \in 1 .. Len(list) : j \in 1 .. hpIx[t] - 1
        BY ONLY <3>1, <3>3
      <4> QED
        BY ONLY <3>2, <4>1
    <3>5. \A j, k \in 1 .. Len(list) : list[j] = list[k] => j = k
      BY <3>3 DEF HPInv, Once
    <3>6. Len(list) <= Cardinality(hpComparing[t])
      BY ONLY <3>2, <3>3, <3>4, <3>5, NoLongerThanSet
    <3>7. Cardinality(hpComparing[t]) \in Nat /\ NumProcesses * (HPCapacity - 1) \in Nat
      <4>1. HPCapacity - 1 \in Nat /\ NumProcesses \in Nat
        OBVIOUS
      <4>2. NumProcesses * (HPCapacity - 1) \in Nat
        BY ONLY <4>1, OneListMore
      <4> QED
        BY <3>2, <4>2, FS_CardinalityType
    <3>8. Len(list) < HPThreshold
      BY ONLY <3>2, <3>3, <3>6, <3>7, HPThreshold > NumProcesses * (HPCapacity - 1), HPThreshold \in Nat
    <3> QED
      BY <3>1, <3>8 DEF Room
  <2> QED
    BY <1>5, <2>1, <2>2, <2>3, <2>4 DEF ScanStep
<1> QED
  BY <1>2, <1>3, <1>4, <1>5, StepIs

-----------------------------------------------------------------------------
\* Theorems

LEMMA HPInvAlways == HP!Spec => []HPInv
<1>1. HP!Init => HPInv
  BY HPInvInit
<1>2. HPInv /\ [HP!Next]_(HP!vars) => HPInv'
  BY HPInvNext
<1> QED
  BY <1>1, <1>2, PTL DEF HP!Spec

\* What retire() sends to the pool nobody holds, but for an object whose
\* announcement erase() moved during a scan (reclaimer_hazardptr.h:238,
\* arraylist.h:66), for any number of threads, of objects, of hazard pointers
\* and any threshold.
THEOREM HeldIsKept == HP!Spec => []HeldKeptUnlessMoved
<1>1. HPInv => HeldKeptUnlessMoved
  BY DEF HPInv
<1> QED
  BY <1>1, HPInvAlways, PTL

\* A retired[tid] larger than all lists of announcements together never stays
\* full: scanThreshold is 5 * NumProcesses * MAX_HAZARDPTRS_PER_THREAD
\* (reclaimer_hazardptr.h:258).
THEOREM RetireHasRoom ==
  ASSUME HPThreshold > NumProcesses * (HPCapacity - 1)
  PROVE  HP!Spec => []RoomToRetire
<1> DEFINE Rooms == \A t \in Threads : Room(t)
<1>1. HP!Init => Rooms
  <2>1. HP!Init => hpRetired = [t \in Threads |-> <<>>]
    BY ThreadsAre DEF HP!Init
  <2> QED
    BY <2>1, HPAssumption DEF Room
<1>2. HPInv /\ Rooms /\ [HP!Next]_(HP!vars) => Rooms'
  BY RoomKept
<1>3. Rooms => RoomToRetire
  BY RoomIs
<1> HIDE DEF Rooms
<1> QED
  BY <1>1, <1>2, <1>3, HPInvAlways, PTL DEF HP!Spec

\* The variables of the reclaimer keep their types: no index leaves an array
\* list, and retired[tid] does not overflow.
THEOREM HPTypes == HP!Spec => [](HP!TypeOK)
<1>1. HPInv => HP!TypeOK
  BY DEF HPInv
<1> QED
  BY <1>1, HPInvAlways, PTL

\* The two reclaimers with announcements use their variables as declared.
THEOREM SchemesTypes == PlusSpec /\ HP!Spec => []SchemesTypeOK
<1>1. PlusTypeOK /\ HP!TypeOK => SchemesTypeOK
  BY DEF SchemesTypeOK
<1> QED
  BY <1>1, PlusTypeCorrect, HPTypes, PTL
=============================================================================
