---------------------------- MODULE DebraProofs ----------------------------
(***************************************************************************)
(* Why DEBRA and DEBRA+ free nothing too early, for any number of threads  *)
(* and of objects.  The lemmas of the first part are about Move, the steps *)
(* of DEBRA and of DEBRA+, so that they hold for both; theorems about      *)
(* DEBRA follow, then what DEBRA+ adds, for any length of the announcement *)
(* lists, block size and thresholds.                                       *)
(*                                                                         *)
(* The argument.  A thread inside an operation holds the epoch back: if    *)
(* its announcement is below n and no scan for epoch n has passed it, the  *)
(* epoch does not get past n (HoldsBack), for a scan for n waits for the   *)
(* thread to announce n or to become quiescent.  When an object is retired *)
(* each running operation holds the epoch back at the next one at the      *)
(* latest.  A bag rotates once per epoch its owner reads; after one        *)
(* rotation the operation holds back the epoch after the one read, after   *)
(* two rotations the one read itself (Protected), and then there is no     *)
(* third rotation before the operation ends.                               *)
(***************************************************************************)
EXTENDS DebraPlus, Integers, TLAPS

\* DEBRA+ (DebraPlus) does four things to these variables that DEBRA does not.
\* The lemmas are about the steps of both, so that they are proved once.

\* rotateEpochBags keeps some of the objects.
RotateKeeping(t, kept) ==
  /\ Goto(t, "rotate", "scan")
  /\ checked' = [checked EXCEPT ![t] = 0]
  /\ index' = [index EXCEPT ![t] = NextIndex(t)]
  /\ epochbags' = [epochbags EXCEPT ![t][NextIndex(t)] = kept]
  /\ UNCHANGED <<shared, opsSinceRead, readEpoch, live, waits>>

\* The scan stops at a thread that it suspects.
Suspect(t) ==
  /\ pc[t] = "scan"
  /\ opsSinceRead' = [opsSinceRead EXCEPT ![t] = 0]
  /\ UNCHANGED <<shared, checked, epochbags, index, pc, readEpoch, live, waits>>

\* The scan passes a thread that is quiescent, or whose operation it ends.
PassOver(t) ==
  LET other == checked[t]
      next == IF other + 1 >= NumProcesses THEN "advance" ELSE "announce"
  IN  /\ pc[t] = "scan"
      /\ checked' = [checked EXCEPT ![t] = @ + 1]
      /\ \/ /\ quiescent[other]
            /\ pc' = [pc EXCEPT ![t] = next]
            /\ UNCHANGED waits
         \/ /\ ~quiescent[other]
            /\ pc' = [pc EXCEPT ![t] = next, ![other] = "outside"]
            /\ waits' = [o \in Objects |-> waits[o] \ {other}]
      /\ UNCHANGED <<shared, epochbags, index, opsSinceRead, readEpoch, live>>

\* A thread whose operation was ended makes itself quiescent.
Quiesce(t) ==
  /\ pc[t] = "outside"
  /\ quiescent' = [quiescent EXCEPT ![t] = TRUE]
  /\ UNCHANGED <<epoch, announcedEpoch, private, pc, readEpoch, live, waits>>

PlusMove(t) == Suspect(t) \/ PassOver(t) \/ Quiesce(t)

Rotation(t) == \E kept \in SUBSET epochbags[t][NextIndex(t)] : RotateKeeping(t, kept)

LeaveMove(t) ==
  \/ ReadEpoch(t) /\ quiescent[t]
  \/ Rotation(t) \/ ScanNotNow(t) \/ Scan(t) \/ Advance(t) \/ Announce(t)

Move ==
  \E t \in Threads :
    \/ LeaveMove(t)
    \/ EnterQuiescentState(t)
    \/ PlusMove(t)
    \/ \E o \in Objects : Retire(t, o) \/ Allocate(t, o)

\* The epoch a thread's bags and its scan are about.
View(t) ==
  IF pc[t] \in {"scan", "advance", "announce"} THEN readEpoch[t] ELSE announcedEpoch[t]

HoldsBack(t, n) ==
  /\ epoch <= n
  /\ announcedEpoch[t] < n
  /\ \A v \in Threads : View(v) = n => checked[v] <= t

Epochs ==
  \A t \in Threads :
    /\ announcedEpoch[t] <= epoch
    /\ readEpoch[t] <= epoch
    /\ pc[t] = "rotate" => announcedEpoch[t] < readEpoch[t]
    /\ pc[t] = "inside" => ~quiescent[t]
    /\ pc[t] \notin {"inside", "outside"} => quiescent[t]

Scans ==
  \A t \in Threads :
    /\ pc[t] = "scan" => checked[t] < NumProcesses
    /\ pc[t] = "advance" => checked[t] = NumProcesses
    /\ pc[t] \in {"outside", "inside", "announce"} /\ checked[t] = NumProcesses =>
         View(t) < epoch

OneBag ==
  /\ \A t, u \in Threads, b, c \in Bags, o \in Objects :
       o \in epochbags[t][b] /\ o \in epochbags[u][c] => t = u /\ b = c
  /\ \A t \in Threads, b \in Bags, o \in live : o \notin epochbags[t][b]

ProtectedIn(u, b, t) ==
  /\ pc[t] = "inside"
  /\ b # index[u] => HoldsBack(t, View(u) + 1)
  /\ b = NextIndex(u) => HoldsBack(t, View(u))
  /\ b = index[u] /\ pc[u] = "rotate" => HoldsBack(t, readEpoch[u] + 1)

Protected ==
  \A u \in Threads, b \in Bags, o \in Objects, t \in Threads :
    o \in epochbags[u][b] /\ t \in waits[o] => ProtectedIn(u, b, t)

IInv == TypeOK /\ Epochs /\ Scans /\ OneBag /\ Protected

-----------------------------------------------------------------------------
LEMMA IInvInit == Init => IInv
BY ProcessesAssumption, MinOpsAssumption
   DEF Init, IInv, TypeOK, Epochs, Scans, OneBag, Protected, Threads, Bags, NumberOfEpochBags, PCs

\* The three bags take turns.
LEMMA BagTurns ==
  ASSUME NEW i \in Bags, NEW n, n = (i + 1) % NumberOfEpochBags
  PROVE  n \in Bags /\ n # i /\ (n + 1) % NumberOfEpochBags # i
<1>1. i \in {0, 1, 2} /\ Bags = {0, 1, 2}
  BY DEF Bags, NumberOfEpochBags
<1>2. 1 % 3 = 1 /\ 2 % 3 = 2 /\ 3 % 3 = 0
  OBVIOUS
<1> QED
  BY <1>1, <1>2 DEF NumberOfEpochBags

\* What a thread that is passed over sees of it: its operation is over.
LEMMA PassOverIs ==
  ASSUME TypeOK, Epochs, Scans, NEW t \in Threads, PassOver(t)
  PROVE  /\ pc[t] = "scan" /\ checked[t] \in Threads /\ checked[t] < NumProcesses
         /\ UNCHANGED <<shared, epochbags, index, opsSinceRead, readEpoch, live>>
         /\ checked' \in [Threads -> 0 .. NumProcesses]
         /\ checked'[t] = checked[t] + 1 /\ \A u \in Threads \ {t} : checked'[u] = checked[u]
         /\ pc' \in [Threads -> PCs]
         /\ pc'[t] = IF checked[t] + 1 >= NumProcesses THEN "advance" ELSE "announce"
         /\ \A u \in Threads \ {t} :
              pc'[u] = pc[u] \/ (pc[u] \in {"inside", "outside"} /\ pc'[u] = "outside")
         /\ pc'[checked[t]] # "inside"
         /\ waits' \in [Objects -> SUBSET Threads]
         /\ \A o \in Objects : waits'[o] \subseteq waits[o]
<1> USE DEF TypeOK
<1> PICK other : other = checked[t]
  OBVIOUS
<1> PICK next \in {"advance", "announce"} : next = IF other + 1 >= NumProcesses THEN "advance" ELSE "announce"
  OBVIOUS
<1>1. pc[t] = "scan" /\ other \in Threads /\ other < NumProcesses
  BY ProcessesAssumption DEF PassOver, Scans, Threads
<1>2. quiescent[t] /\ "advance" \in PCs /\ "announce" \in PCs /\ "outside" \in PCs
  BY <1>1 DEF Epochs, PCs
<1>3. /\ checked' = [checked EXCEPT ![t] = other + 1]
      /\ \/ /\ quiescent[other]
            /\ pc' = [pc EXCEPT ![t] = next]
            /\ UNCHANGED waits
         \/ /\ ~quiescent[other]
            /\ pc' = [pc EXCEPT ![t] = next, ![other] = "outside"]
            /\ waits' = [o \in Objects |-> waits[o] \ {other}]
      /\ UNCHANGED <<shared, epochbags, index, opsSinceRead, readEpoch, live>>
  BY DEF PassOver
<1>4. checked' \in [Threads -> 0 .. NumProcesses]
      /\ checked'[t] = other + 1 /\ \A u \in Threads \ {t} : checked'[u] = checked[u]
  <2>1. other + 1 \in 0 .. NumProcesses
    <3>1. other \in Nat
      BY <1>1 DEF Threads
    <3> QED
      BY ONLY <1>1, <3>1, ProcessesAssumption
  <2> QED
    BY <1>3, <2>1
<1>5. CASE quiescent[other]
  <2>1. pc' = [pc EXCEPT ![t] = next] /\ waits' = waits
    BY <1>3, <1>5
  <2>2. pc[other] # "inside"
    BY <1>1, <1>5 DEF Epochs
  <2> QED
    BY <1>1, <1>2, <1>3, <1>4, <2>1, <2>2
<1>6. CASE ~quiescent[other]
  <2>1. /\ pc' = [pc EXCEPT ![t] = next, ![other] = "outside"]
        /\ waits' = [o \in Objects |-> waits[o] \ {other}]
    BY <1>3, <1>6
  <2>2. other # t /\ pc[other] \in {"inside", "outside"}
    BY <1>1, <1>2, <1>6 DEF Epochs
  <2> QED
    BY <1>1, <1>2, <1>3, <1>4, <2>1, <2>2
<1> QED
  BY <1>5, <1>6

LEMMA TypeNext == TypeOK /\ Epochs /\ Scans /\ Move => TypeOK'
<1> SUFFICES ASSUME TypeOK, Epochs, Scans, NEW t \in Threads,
                    \/ LeaveMove(t)
                    \/ EnterQuiescentState(t)
                    \/ PlusMove(t)
                    \/ \E o \in Objects : Retire(t, o) \/ Allocate(t, o)
             PROVE  TypeOK'
  BY DEF Move
<1> USE DEF TypeOK, PCs, Goto, shared, private
<1>1. CASE ReadEpoch(t)
  BY <1>1 DEF ReadEpoch
<1>2. CASE Rotation(t)
  <2>1. NextIndex(t) \in Bags
    BY BagTurns DEF NextIndex
  <2>2. epochbags' \in [Threads -> [Bags -> SUBSET Objects]]
    BY <1>2, <2>1 DEF Rotation, RotateKeeping
  <2>3. checked' \in [Threads -> 0 .. NumProcesses]
    BY <1>2, ProcessesAssumption DEF Rotation, RotateKeeping
  <2> QED
    BY <1>2, <2>1, <2>2, <2>3 DEF Rotation, RotateKeeping
<1>3. CASE ScanNotNow(t)
  <2>1. opsSinceRead[t] + 1 \in 0 .. MinOpsBeforeRead - 1
    BY <1>3, MinOpsAssumption DEF ScanNotNow
  <2> QED
    BY <1>3, <2>1 DEF ScanNotNow
<1>4. CASE Scan(t)
  <2>1. checked' \in [Threads -> 0 .. NumProcesses]
    BY SMTT(30), <1>4, ProcessesAssumption DEF Scan, Scans
  <2>2. opsSinceRead' \in [Threads -> 0 .. MinOpsBeforeRead - 1]
    BY <1>4, MinOpsAssumption DEF Scan
  <2>3. pc' \in [Threads -> PCs]
    BY <1>4 DEF Scan
  <2> QED
    BY <1>4, <2>1, <2>2, <2>3 DEF Scan
<1>5. CASE Advance(t)
  BY <1>5 DEF Advance
<1>6. CASE Announce(t)
  BY <1>6 DEF Announce
<1>7. CASE EnterQuiescentState(t)
  BY <1>7 DEF EnterQuiescentState
<1>8. CASE \E o \in Objects : Retire(t, o)
  <2> PICK o \in Objects : Retire(t, o)
    BY <1>8
  <2>1. epochbags' \in [Threads -> [Bags -> SUBSET Objects]]
    BY DEF Retire
  <2> QED
    BY <2>1 DEF Retire, Active
<1>9. CASE \E o \in Objects : Allocate(t, o)
  BY <1>9 DEF Allocate
<1>10. CASE PlusMove(t)
  <2>1. CASE Suspect(t)
    BY <2>1, MinOpsAssumption DEF Suspect
  <2>2. CASE PassOver(t)
    BY <2>2, PassOverIs
  <2>3. CASE Quiesce(t)
    BY <2>3 DEF Quiesce
  <2> QED
    BY <1>10, <2>1, <2>2, <2>3 DEF PlusMove
<1> QED
  BY <1>1, <1>2, <1>3, <1>4, <1>5, <1>6, <1>7, <1>8, <1>9, <1>10 DEF LeaveMove

-----------------------------------------------------------------------------
LEMMA EpochOrder ==
  ASSUME TypeOK, Epochs, NEW t \in Threads
  PROVE  /\ announcedEpoch[t] \in Nat /\ readEpoch[t] \in Nat /\ epoch \in Nat
         /\ announcedEpoch[t] # epoch => announcedEpoch[t] < epoch
<1>1. announcedEpoch[t] \in Nat /\ readEpoch[t] \in Nat /\ epoch \in Nat
  BY DEF TypeOK
<1>2. announcedEpoch[t] <= epoch
  BY DEF Epochs
<1> QED
  BY <1>1, <1>2

LEMMA EpochsNext == TypeOK /\ Epochs /\ Scans /\ Move => Epochs'
<1> SUFFICES ASSUME TypeOK, Epochs, Scans, NEW t \in Threads,
                    \/ LeaveMove(t)
                    \/ EnterQuiescentState(t)
                    \/ PlusMove(t)
                    \/ \E o \in Objects : Retire(t, o) \/ Allocate(t, o)
             PROVE  Epochs'
  BY DEF Move
<1> USE DEF TypeOK, Epochs, Goto, shared, private
<1>1. CASE ReadEpoch(t) /\ quiescent[t]
  <2>1. /\ pc[t] = "outside" /\ readEpoch'[t] = epoch
        /\ pc'[t] = IF epoch # announcedEpoch[t] THEN "rotate" ELSE "scan"
        /\ quiescent[t]
    BY <1>1 DEF ReadEpoch
  <2>2. \A u \in Threads \ {t} : pc'[u] = pc[u] /\ readEpoch'[u] = readEpoch[u]
    BY <1>1 DEF ReadEpoch
  <2>3. UNCHANGED <<shared, private>>
    BY <1>1 DEF ReadEpoch
  <2>4. epoch # announcedEpoch[t] => announcedEpoch[t] < epoch
    BY EpochOrder
  <2>5. CASE epoch # announcedEpoch[t]
    BY <2>1, <2>2, <2>3, <2>4, <2>5
  <2>6. CASE epoch = announcedEpoch[t]
    BY <2>1, <2>2, <2>3, <2>6
  <2> QED
    BY <2>5, <2>6
<1>2. CASE Rotation(t)
  BY <1>2 DEF Rotation, RotateKeeping
<1>3. CASE ScanNotNow(t)
  BY <1>3 DEF ScanNotNow
<1>4. CASE Scan(t)
  BY <1>4 DEF Scan
<1>5. CASE Advance(t)
  BY <1>5 DEF Advance
<1>6. CASE Announce(t)
  BY <1>6 DEF Announce
<1>7. CASE EnterQuiescentState(t)
  BY <1>7 DEF EnterQuiescentState
<1>8. CASE \E o \in Objects : Retire(t, o) \/ Allocate(t, o)
  BY <1>8 DEF Retire, Allocate
<1>10. CASE PlusMove(t)
  <2>1. CASE Suspect(t)
    BY <2>1, MinOpsAssumption DEF Suspect
  <2>2. CASE PassOver(t)
    BY <2>2, PassOverIs
  <2>3. CASE Quiesce(t)
    BY <2>3 DEF Quiesce
  <2> QED
    BY <1>10, <2>1, <2>2, <2>3 DEF PlusMove
<1> QED
  BY <1>1, <1>2, <1>3, <1>4, <1>5, <1>6, <1>7, <1>8, <1>10 DEF LeaveMove

\* A complete scan belongs to an epoch that is over.
LEMMA ScanIdle ==
  ASSUME TypeOK, Scans, NEW t \in Threads, pc[t] = "outside", epoch = announcedEpoch[t]
  PROVE  checked[t] < NumProcesses
<1>1. View(t) = epoch /\ epoch \in Nat
  BY DEF View, TypeOK
<1>2. checked[t] = NumProcesses => View(t) < epoch
  BY DEF Scans
<1>3. checked[t] # NumProcesses
  BY <1>1, <1>2
<1>4. checked[t] \in 0 .. NumProcesses
  BY DEF TypeOK
<1> QED
  BY <1>3, <1>4, ProcessesAssumption

LEMMA ScansNext == TypeOK /\ Epochs /\ Scans /\ Move => Scans'
<1> SUFFICES ASSUME TypeOK, Epochs, Scans, NEW t \in Threads,
                    \/ LeaveMove(t)
                    \/ EnterQuiescentState(t)
                    \/ PlusMove(t)
                    \/ \E o \in Objects : Retire(t, o) \/ Allocate(t, o)
             PROVE  Scans'
  BY DEF Move
<1> USE ProcessesAssumption DEF TypeOK, Epochs, Scans, View, Goto, shared, private
<1>1. CASE ReadEpoch(t)
  <2>1. /\ pc[t] = "outside" /\ readEpoch'[t] = epoch
        /\ pc'[t] = IF epoch # announcedEpoch[t] THEN "rotate" ELSE "scan"
    BY <1>1 DEF ReadEpoch
  <2>2. \A u \in Threads \ {t} : pc'[u] = pc[u] /\ readEpoch'[u] = readEpoch[u]
    BY <1>1 DEF ReadEpoch
  <2>3. UNCHANGED <<shared, private>>
    BY <1>1 DEF ReadEpoch
  <2>4. epoch # announcedEpoch[t] => announcedEpoch[t] < epoch
    BY EpochOrder
  <2>5. CASE epoch # announcedEpoch[t]
    BY <2>1, <2>2, <2>3, <2>4, <2>5
  <2>6. CASE epoch = announcedEpoch[t]
    <3>1. checked[t] < NumProcesses
      BY <2>1, <2>6, ScanIdle
    <3> QED
      BY <2>1, <2>2, <2>3, <2>6, <3>1
  <2> QED
    BY <2>5, <2>6
<1>2. CASE Rotation(t)
  BY <1>2 DEF Rotation, RotateKeeping
<1>3. CASE ScanNotNow(t)
  BY <1>3 DEF ScanNotNow
<1>4. CASE Scan(t)
  <2>1. /\ pc[t] = "scan"
        /\ \/ pc'[t] = "announce" /\ checked'[t] < NumProcesses
           \/ pc'[t] = "advance" /\ checked'[t] = NumProcesses
    <3>1. pc[t] = "scan" /\ checked[t] < NumProcesses /\ checked[t] \in Nat
      BY <1>4 DEF Scan
    <3>2. CASE Seen(t, checked[t])
      <4>1. /\ checked'[t] = checked[t] + 1
            /\ pc'[t] = IF checked[t] + 1 >= NumProcesses THEN "advance" ELSE "announce"
        BY <1>4, <3>2 DEF Scan
      <4> QED
        BY <3>1, <4>1
    <3>3. CASE ~Seen(t, checked[t])
      BY <1>4, <3>1, <3>3 DEF Scan
    <3> QED
      BY <3>2, <3>3
  <2>2. \A u \in Threads \ {t} : pc'[u] = pc[u] /\ checked'[u] = checked[u]
    BY <1>4 DEF Scan
  <2>3. UNCHANGED <<shared, readEpoch>>
    BY <1>4 DEF Scan
  <2> QED
    BY <2>1, <2>2, <2>3
<1>5. CASE Advance(t)
  BY <1>5 DEF Advance
<1>6. CASE Announce(t)
  BY <1>6 DEF Announce
<1>7. CASE EnterQuiescentState(t)
  BY <1>7 DEF EnterQuiescentState
<1>8. CASE \E o \in Objects : Retire(t, o) \/ Allocate(t, o)
  BY <1>8 DEF Retire, Allocate
<1>10. CASE PlusMove(t)
  <2>1. CASE Suspect(t)
    BY <2>1, MinOpsAssumption DEF Suspect
  <2>2. CASE PassOver(t)
    <3>1. /\ checked[t] < NumProcesses /\ checked[t] \in Nat /\ checked'[t] = checked[t] + 1
          /\ pc'[t] = IF checked[t] + 1 >= NumProcesses THEN "advance" ELSE "announce"
      BY <2>2, PassOverIs
    <3>2. \/ pc'[t] = "announce" /\ checked'[t] < NumProcesses
          \/ pc'[t] = "advance" /\ checked'[t] = NumProcesses
      BY <3>1
    <3>3. \A u \in Threads \ {t} :
            /\ checked'[u] = checked[u]
            /\ pc'[u] = pc[u] \/ (pc[u] \in {"inside", "outside"} /\ pc'[u] = "outside")
      BY <2>2, PassOverIs
    <3>4. UNCHANGED <<epoch, announcedEpoch, readEpoch>>
      BY <2>2, PassOverIs
    <3>5. ASSUME NEW u \in Threads \ {t} PROVE View(u)' = View(u)
      BY <3>3, <3>4
    <3> QED
      BY SMTT(30), <3>2, <3>3, <3>4, <3>5
  <2>3. CASE Quiesce(t)
    BY <2>3 DEF Quiesce
  <2> QED
    BY <1>10, <2>1, <2>2, <2>3 DEF PlusMove
<1> QED
  BY <1>1, <1>2, <1>3, <1>4, <1>5, <1>6, <1>7, <1>8, <1>10 DEF LeaveMove

LEMMA OneBagNext == TypeOK /\ OneBag /\ Move => OneBag'
<1> SUFFICES ASSUME TypeOK, OneBag, NEW t \in Threads,
                    \/ LeaveMove(t)
                    \/ EnterQuiescentState(t)
                    \/ PlusMove(t)
                    \/ \E o \in Objects : Retire(t, o) \/ Allocate(t, o)
             PROVE  OneBag'
  BY DEF Move
<1> USE DEF TypeOK, OneBag
<1>1. CASE Rotation(t)
  <2>1. NextIndex(t) \in Bags
    BY BagTurns DEF NextIndex
  <2>2. live' = live /\ \A u \in Threads, b \in Bags : epochbags'[u][b] \subseteq epochbags[u][b]
    BY <1>1, <2>1 DEF Rotation, RotateKeeping
  <2> QED
    BY <2>2
<1>2. ASSUME NEW o \in Objects, Retire(t, o) PROVE OneBag'
  BY <1>2 DEF Retire
<1>3. ASSUME NEW o \in Objects, Allocate(t, o) PROVE OneBag'
  BY <1>3 DEF Allocate, Retired, private
<1>4. CASE UNCHANGED <<epochbags, live>>
  BY <1>4
<1> QED
  BY <1>1, <1>2, <1>3, <1>4
     DEF LeaveMove, PlusMove, ReadEpoch, ScanNotNow, Scan, Advance, Announce, EnterQuiescentState,
         Suspect, PassOver, Quiesce, private

-----------------------------------------------------------------------------
\* A thread that holds an epoch back holds back every later one.
LEMMA HoldsBackLater ==
  ASSUME TypeOK, Epochs, NEW t \in Threads, NEW n \in Nat, NEW m \in Nat, n <= m, HoldsBack(t, n)
  PROVE  HoldsBack(t, m)
<1>1. CASE n = m
  BY <1>1
<1>2. CASE n < m
  <2>1. \A v \in Threads : View(v) <= epoch /\ View(v) \in Nat /\ epoch \in Nat
    BY DEF View, Epochs, TypeOK
  <2> QED
    BY <1>2, <2>1 DEF HoldsBack, TypeOK
<1> QED
  BY <1>1, <1>2

\* An operation that is running holds back the epoch after the present one.
LEMMA HoldsBackNow ==
  ASSUME TypeOK, Epochs, NEW t \in Threads
  PROVE  HoldsBack(t, epoch + 1)
<1>1. \A v \in Threads : View(v) <= epoch /\ View(v) \in Nat /\ epoch \in Nat
  BY DEF View, Epochs, TypeOK
<1> QED
  BY <1>1 DEF HoldsBack, Epochs, TypeOK

\* And it goes on doing so until it ends.
LEMMA HoldsBackStep ==
  ASSUME IInv, Move, NEW t \in Threads, pc[t] = "inside", pc'[t] = "inside",
         NEW n \in Nat, HoldsBack(t, n)
  PROVE  HoldsBack(t, n)'
<1> PICK v \in Threads : \/ LeaveMove(v)
                         \/ EnterQuiescentState(v)
                         \/ PlusMove(v)
                         \/ \E o \in Objects : Retire(v, o) \/ Allocate(v, o)
  BY DEF Move
<1> USE DEF IInv, TypeOK, Epochs, HoldsBack, View, Goto, shared, private, Threads
<1>1. CASE ReadEpoch(v)
  BY <1>1 DEF ReadEpoch
<1>2. CASE Rotation(v)
  BY <1>2 DEF Rotation, RotateKeeping
<1>3. CASE ScanNotNow(v)
  BY <1>3 DEF ScanNotNow
<1>4. CASE Scan(v)
  <2>1. UNCHANGED <<epoch, announcedEpoch, readEpoch>> /\ pc[v] = "scan"
    BY <1>4 DEF Scan
  <2>2. pc'[v] \in {"advance", "announce"} /\ \A u \in Threads \ {v} : pc'[u] = pc[u]
    BY <1>4 DEF Scan
  <2>3. \A u \in Threads : View(u)' = View(u)
    BY <2>1, <2>2
  <2>4. \A u \in Threads \ {v} : checked'[u] = checked[u]
    BY <1>4 DEF Scan
  <2>5. checked'[v] = checked[v] \/ (checked'[v] = checked[v] + 1 /\ Seen(v, checked[v]))
    <3>1. CASE Seen(v, checked[v])
      BY <1>4, <3>1 DEF Scan
    <3>2. CASE ~Seen(v, checked[v])
      BY <1>4, <3>2 DEF Scan
    <3> QED
      BY <3>1, <3>2
  <2>6. View(v) = n => ~Seen(v, t)
    BY <2>1 DEF Seen
  <2>7. View(v) = n => checked'[v] <= t
    BY <2>5, <2>6
  <2> QED
    BY <2>1, <2>3, <2>4, <2>7
<1>5. CASE Advance(v)
  <2>1. View(v) # n
    BY <1>5, ProcessesAssumption DEF Advance, Scans
  <2> QED
    BY <1>5, <2>1 DEF Advance
<1>6. CASE Announce(v)
  BY <1>6 DEF Announce
<1>7. CASE EnterQuiescentState(v)
  BY <1>7 DEF EnterQuiescentState
<1>8. CASE \E o \in Objects : Retire(v, o) \/ Allocate(v, o)
  BY <1>8 DEF Retire, Allocate
<1>10. CASE PlusMove(v)
  <2>1. CASE Suspect(v)
    BY <2>1 DEF Suspect
  <2>2. CASE PassOver(v)
    <3>1. /\ UNCHANGED <<epoch, announcedEpoch, readEpoch>> /\ pc[v] = "scan"
          /\ pc'[v] \in {"advance", "announce"} /\ checked'[v] = checked[v] + 1
          /\ checked[v] \in Nat /\ t # checked[v]
      BY <2>2, PassOverIs
    <3>2. \A u \in Threads \ {v} :
            /\ checked'[u] = checked[u]
            /\ pc'[u] = pc[u] \/ (pc[u] \in {"inside", "outside"} /\ pc'[u] = "outside")
      BY <2>2, PassOverIs
    <3>3. ASSUME NEW u \in Threads PROVE View(u)' = View(u)
      BY <3>1, <3>2
    <3>4. View(v) = n => checked'[v] <= t
      BY <3>1
    <3> QED
      BY <3>1, <3>2, <3>3, <3>4
  <2>3. CASE Quiesce(v)
    BY <2>3 DEF Quiesce
  <2> QED
    BY <1>10, <2>1, <2>2, <2>3 DEF PlusMove
<1> QED
  BY <1>1, <1>2, <1>3, <1>4, <1>5, <1>6, <1>7, <1>8, <1>10 DEF LeaveMove

-----------------------------------------------------------------------------
\* A step other than a rotation leaves the view of a thread and its bags' turns.
LEMMA ViewSame ==
  ASSUME TypeOK, Epochs, Scans, Move, NEW u \in Threads, ~Rotation(u)
  PROVE  View(u)' = View(u) /\ index'[u] = index[u]
<1> PICK t \in Threads : \/ LeaveMove(t)
                         \/ EnterQuiescentState(t)
                         \/ PlusMove(t)
                         \/ \E o \in Objects : Retire(t, o) \/ Allocate(t, o)
  BY DEF Move
<1> USE DEF TypeOK, View, Goto, shared, private
<1>1. CASE ReadEpoch(t)
  BY <1>1 DEF ReadEpoch
<1>2. CASE Rotation(t)
  <2>1. t # u
    BY <1>2
  <2> QED
    BY <1>2, <2>1 DEF Rotation, RotateKeeping
<1>3. CASE ScanNotNow(t)
  BY <1>3 DEF ScanNotNow
<1>4. CASE Scan(t)
  BY <1>4 DEF Scan
<1>5. CASE Advance(t)
  BY <1>5 DEF Advance
<1>6. CASE Announce(t)
  BY <1>6 DEF Announce
<1>7. CASE EnterQuiescentState(t)
  BY <1>7 DEF EnterQuiescentState
<1>8. CASE \E o \in Objects : Retire(t, o) \/ Allocate(t, o)
  BY <1>8 DEF Retire, Allocate
<1>10. CASE PlusMove(t)
  <2>1. CASE Suspect(t)
    BY <2>1, MinOpsAssumption DEF Suspect
  <2>2. CASE PassOver(t)
    <3>1. /\ UNCHANGED <<announcedEpoch, readEpoch, index>> /\ pc[t] = "scan"
          /\ pc'[t] \in {"advance", "announce"}
      BY <2>2, PassOverIs
    <3>2. u # t =>
            pc'[u] = pc[u] \/ (pc[u] \in {"inside", "outside"} /\ pc'[u] = "outside")
      BY <2>2, PassOverIs
    <3> QED
      BY <3>1, <3>2
  <2>3. CASE Quiesce(t)
    BY <2>3 DEF Quiesce
  <2> QED
    BY <1>10, <2>1, <2>2, <2>3 DEF PlusMove
<1> QED
  BY <1>1, <1>2, <1>3, <1>4, <1>5, <1>6, <1>7, <1>8, <1>10 DEF LeaveMove

\* Nothing in the bag that is about to be freed is waited for.
LEMMA SafeToFree ==
  ASSUME IInv, NEW u \in Threads, pc[u] = "rotate",
         NEW o \in Objects, o \in epochbags[u][NextIndex(u)]
  PROVE  waits[o] = {}
<1> SUFFICES ASSUME NEW t \in Threads, t \in waits[o] PROVE FALSE
  BY DEF IInv, TypeOK
<1>1. NextIndex(u) \in Bags
  BY BagTurns DEF NextIndex, IInv, TypeOK
<1>2. HoldsBack(t, announcedEpoch[u])
  BY <1>1 DEF IInv, Protected, ProtectedIn, View
<1>3. announcedEpoch[u] < readEpoch[u] /\ readEpoch[u] <= epoch
  BY DEF IInv, Epochs
<1> QED
  BY <1>2, <1>3 DEF HoldsBack, IInv, TypeOK

\* The objects of a bag move up by one turn when its owner rotates.
LEMMA ProtectedRotate ==
  ASSUME IInv, Move, NEW u \in Threads, Rotation(u),
         NEW b \in Bags, b # NextIndex(u), NEW t \in Threads,
         ProtectedIn(u, b, t)
  PROVE  ProtectedIn(u, b, t)'
<1>1. /\ pc[u] = "rotate" /\ pc'[u] = "scan" /\ index'[u] = NextIndex(u)
      /\ View(u)' = readEpoch[u] /\ readEpoch[u] \in Nat /\ announcedEpoch[u] \in Nat
      /\ announcedEpoch[u] + 1 <= readEpoch[u]
  BY DEF Rotation, RotateKeeping, Goto, IInv, TypeOK, View, Epochs
<1>2. pc[t] = "inside" /\ pc'[t] = "inside"
  BY DEF ProtectedIn, Rotation, RotateKeeping, Goto, IInv, TypeOK
<1>3. index[u] \in Bags /\ NextIndex(u) = (index[u] + 1) % NumberOfEpochBags
  BY DEF IInv, TypeOK, NextIndex
<1>4. NextIndex(u)' = (NextIndex(u) + 1) % NumberOfEpochBags
  BY <1>1 DEF NextIndex
<1>5. HoldsBack(t, readEpoch[u] + 1)
  <2>1. CASE b = index[u]
    BY <1>1, <2>1 DEF ProtectedIn
  <2>2. CASE b # index[u]
    <3>1. HoldsBack(t, announcedEpoch[u] + 1)
      BY <1>1, <2>2 DEF ProtectedIn, View
    <3> QED
      BY <1>1, <3>1, HoldsBackLater DEF IInv
  <2> QED
    BY <2>1, <2>2
<1>6. b = NextIndex(u)' => HoldsBack(t, readEpoch[u])
  <2>1. NextIndex(u)' # index[u]
    BY <1>3, <1>4, BagTurns
  <2>2. b # index[u] => HoldsBack(t, announcedEpoch[u] + 1)
    BY <1>1 DEF ProtectedIn, View
  <2> QED
    BY <1>1, <2>1, <2>2, HoldsBackLater DEF IInv
<1>7. PICK r \in Nat : r = readEpoch[u]
  BY <1>1
<1>8. HoldsBack(t, r + 1)'
  BY <1>2, <1>5, <1>7, HoldsBackStep
<1>9. b = NextIndex(u)' => HoldsBack(t, r)'
  BY <1>2, <1>6, <1>7, HoldsBackStep
<1> QED
  BY <1>1, <1>2, <1>7, <1>8, <1>9 DEF ProtectedIn

\* A thread is about to rotate only after it has read the present epoch.
LEMMA RotateOrStay ==
  ASSUME IInv, Move, NEW u \in Threads, pc'[u] = "rotate"
  PROVE  readEpoch'[u] = IF pc[u] = "rotate" THEN readEpoch[u] ELSE epoch
<1> PICK t \in Threads : \/ LeaveMove(t)
                         \/ EnterQuiescentState(t)
                         \/ PlusMove(t)
                         \/ \E o \in Objects : Retire(t, o) \/ Allocate(t, o)
  BY DEF Move
<1> USE DEF IInv, TypeOK, Goto
<1>1. CASE ReadEpoch(t)
  BY <1>1 DEF ReadEpoch
<1>2. CASE ~ReadEpoch(t)
  <2>1. CASE PlusMove(t)
    <3>1. CASE PassOver(t)
      BY <3>1, PassOverIs
    <3> QED
      BY <2>1, <3>1 DEF PlusMove, Suspect, Quiesce
  <2> QED
    BY <1>2, <2>1 DEF LeaveMove, Rotation, RotateKeeping, ScanNotNow, Scan, Advance, Announce,
       EnterQuiescentState, Retire, Allocate
<1> QED
  BY <1>1, <1>2

\* A step of another kind leaves the objects of a bag protected as they were.
LEMMA ProtectedStay ==
  ASSUME IInv, Move, NEW u \in Threads, ~Rotation(u), NEW b \in Bags, NEW t \in Threads,
         ProtectedIn(u, b, t), pc'[t] = "inside"
  PROVE  ProtectedIn(u, b, t)'
<1>1. View(u)' = View(u) /\ index'[u] = index[u] /\ NextIndex(u)' = NextIndex(u)
  BY ViewSame DEF IInv, NextIndex
<1>2. PICK n \in Nat : n = View(u)
  BY DEF IInv, TypeOK, View
<1>3. b # index[u] => HoldsBack(t, n + 1)'
  BY <1>2, HoldsBackStep DEF ProtectedIn
<1>4. b = NextIndex(u) => HoldsBack(t, n)'
  BY <1>2, HoldsBackStep DEF ProtectedIn
<1>5. pc[t] = "inside"
  BY DEF ProtectedIn
<1>6. b = index[u] /\ pc'[u] = "rotate" => HoldsBack(t, readEpoch[u] + 1)'
  <2> SUFFICES ASSUME b = index[u], pc'[u] = "rotate" PROVE HoldsBack(t, readEpoch[u] + 1)'
    OBVIOUS
  <2>1. CASE pc[u] = "rotate"
    <3>1. PICK r \in Nat : r = readEpoch[u]
      BY DEF IInv, TypeOK
    <3>2. readEpoch'[u] = r
      BY <2>1, <3>1, RotateOrStay
    <3>3. HoldsBack(t, r + 1)'
      BY <1>5, <2>1, <3>1, HoldsBackStep DEF ProtectedIn
    <3> QED
      BY <3>2, <3>3
  <2>2. CASE pc[u] # "rotate"
    <3>1. PICK r \in Nat : r = epoch
      BY DEF IInv, TypeOK
    <3>2. readEpoch'[u] = r
      BY <2>2, <3>1, RotateOrStay
    <3>3. HoldsBack(t, r + 1)'
      BY <1>5, <3>1, HoldsBackNow, HoldsBackStep DEF IInv
    <3> QED
      BY <3>2, <3>3
  <2> QED
    BY <2>1, <2>2
<1> QED
  BY <1>1, <1>2, <1>3, <1>4, <1>6 DEF ProtectedIn

\* Waiting operations are running ones, and an object is waited for anew only
\* when it is retired, into its owner's current bag.
LEMMA ProtectedNext == IInv /\ Move => Protected'
<1> SUFFICES ASSUME IInv, Move,
                    NEW u \in Threads, NEW b \in Bags, NEW o \in Objects, NEW t \in Threads,
                    o \in epochbags'[u][b], t \in waits'[o]
             PROVE  ProtectedIn(u, b, t)'
  BY DEF Protected
<1> PICK w \in Threads : \/ LeaveMove(w)
                         \/ EnterQuiescentState(w)
                         \/ PlusMove(w)
                         \/ \E x \in Objects : Retire(w, x) \/ Allocate(w, x)
  BY DEF Move
<1> USE DEF TypeOK, Goto, shared, private
<1>1. CASE Rotation(u)
  <2>1. waits' = waits /\ o \in epochbags[u][b]
    <3>1. NextIndex(u) \in Bags
      BY BagTurns DEF NextIndex, IInv
    <3> QED
      BY <1>1, <3>1 DEF Rotation, RotateKeeping, IInv
  <2>3. b # NextIndex(u)
    <3>1. pc[u] = "rotate"
      BY <1>1 DEF Rotation, RotateKeeping
    <3> QED
      BY <2>1, <3>1, SafeToFree
  <2>2. ProtectedIn(u, b, t)
    BY <2>1 DEF IInv, Protected
  <2> QED
    BY <1>1, <2>2, <2>3, ProtectedRotate
<1>2. CASE Retire(w, o) /\ ~Rotation(u)
  <2>1. u = w /\ b = index[u] /\ pc'[u] # "rotate" /\ index'[u] = index[u]
    BY <1>2 DEF Retire, CanCall, IInv, OneBag
  <2>2. t \in Active /\ pc'[t] = "inside"
    BY <1>2 DEF Retire, Active, IInv
  <2>3. NextIndex(u)' # b
    BY <2>1, BagTurns DEF NextIndex, IInv
  <2> QED
    BY <2>1, <2>2, <2>3 DEF ProtectedIn
<1>3. CASE ~Retire(w, o) /\ ~Rotation(u)
  <2>1. o \in epochbags[u][b] /\ t \in waits[o] /\ (pc[t] = "inside" => pc'[t] = "inside")
    <3>1. CASE LeaveMove(w)
      <4>1. CASE Rotation(w)
        <5>1. w # u
          BY <1>3, <4>1
        <5> QED
          BY <4>1, <5>1 DEF Rotation, RotateKeeping, IInv
      <4> QED
        BY <1>3, <3>1, <4>1 DEF LeaveMove, ReadEpoch, ScanNotNow, Scan, Advance, Announce, IInv
    <3>2. CASE EnterQuiescentState(w)
      BY <1>3, <3>2 DEF EnterQuiescentState, IInv
    <3>3. CASE \E x \in Objects : Retire(w, x) \/ Allocate(w, x)
      <4>1. ASSUME NEW x \in Objects, Retire(w, x)
            PROVE  o \in epochbags[u][b] /\ t \in waits[o] /\ pc' = pc
        <5>1. x # o
          BY <1>3, <4>1
        <5>2. waits'[o] = waits[o] /\ pc' = pc
          BY <4>1, <5>1 DEF Retire, IInv
        <5>3. o \in epochbags[u][b]
          BY <4>1, <5>1 DEF Retire, IInv
        <5> QED
          BY <5>2, <5>3
      <4> QED
        BY <3>3, <4>1 DEF Allocate
    <3>4. CASE PlusMove(w)
      <4>1. CASE PassOver(w)
        <5>1. epochbags' = epochbags /\ waits'[o] \subseteq waits[o]
          BY <4>1, PassOverIs DEF IInv
        <5>2. pc[t] = "inside" /\ t \in waits'[o] => pc'[t] = "inside"
          <6>1. CASE quiescent[checked[w]]
            BY <4>1, <6>1 DEF PassOver, IInv, Epochs
          <6>2. CASE ~quiescent[checked[w]]
            <7>1. t # checked[w]
              BY <4>1, <6>2 DEF PassOver
            <7> QED
              BY <4>1, <6>2, <7>1 DEF PassOver, IInv
          <6> QED
            BY <6>1, <6>2
        <5> QED
          BY <5>1, <5>2
      <4> QED
        BY <3>4, <4>1 DEF PlusMove, Suspect, Quiesce
    <3> QED
      BY <3>1, <3>2, <3>3, <3>4
  <2>2. ProtectedIn(u, b, t)
    BY <2>1 DEF IInv, Protected
  <2> QED
    BY <1>3, <2>1, <2>2, ProtectedStay DEF ProtectedIn
<1> QED
  BY <1>1, <1>2, <1>3

LEMMA IInvNext == IInv /\ [Move]_vars => IInv'
<1>1. IInv /\ Move => IInv'
  BY TypeNext, EpochsNext, ScansNext, OneBagNext, ProtectedNext DEF IInv
<1>2. IInv /\ UNCHANGED vars => IInv'
  BY DEF IInv, TypeOK, Epochs, Scans, OneBag, Protected, ProtectedIn, HoldsBack, View, NextIndex,
         vars, shared, private
<1> QED
  BY <1>1, <1>2

\* In DEBRA itself, a thread is quiescent outside of operations only.
Quiescence == \A t \in Threads : quiescent[t] <=> pc[t] # "inside"

LEMMA QuiescenceNext == TypeOK /\ Quiescence /\ Next => Quiescence'
<1> SUFFICES ASSUME TypeOK, Quiescence, NEW t \in Threads,
                    \/ LeaveStep(t)
                    \/ EnterQuiescentState(t)
                    \/ \E o \in Objects : Retire(t, o) \/ Allocate(t, o)
             PROVE  Quiescence'
  BY DEF Next
<1> USE DEF TypeOK, Quiescence, Goto, shared
<1>1. CASE ReadEpoch(t) \/ Rotate(t) \/ ScanNotNow(t) \/ Advance(t) \/ Announce(t)
  BY <1>1 DEF ReadEpoch, Rotate, ScanNotNow, Advance, Announce
<1>2. CASE Scan(t)
  BY <1>2 DEF Scan
<1>3. CASE EnterQuiescentState(t) \/ \E o \in Objects : Retire(t, o) \/ Allocate(t, o)
  BY <1>3 DEF EnterQuiescentState, Retire, Allocate
<1> QED
  BY <1>1, <1>2, <1>3 DEF LeaveStep

LEMMA NextIsMove == TypeOK /\ Quiescence /\ Next => Move
<1> SUFFICES ASSUME TypeOK, Quiescence, NEW t \in Threads,
                    \/ LeaveStep(t)
                    \/ EnterQuiescentState(t)
                    \/ \E o \in Objects : Retire(t, o) \/ Allocate(t, o)
             PROVE  Move
  BY DEF Next
<1>1. Rotate(t) => Rotation(t)
  <2>1. Rotate(t) => RotateKeeping(t, {})
    BY DEF Rotate, RotateKeeping
  <2>2. {} \in SUBSET epochbags[t][NextIndex(t)]
    OBVIOUS
  <2> QED
    BY <2>1, <2>2 DEF Rotation
<1>2. ReadEpoch(t) => quiescent[t]
  BY DEF ReadEpoch, Goto, Quiescence
<1> QED
  BY <1>1, <1>2 DEF LeaveStep, LeaveMove, Move

DebraInv == IInv /\ Quiescence

LEMMA DebraInvInit == Init => DebraInv
BY IInvInit DEF DebraInv, Init, Quiescence

LEMMA DebraInvNext == DebraInv /\ [Next]_vars => DebraInv' /\ [Move]_vars
<1>1. DebraInv /\ Next => DebraInv' /\ Move
  BY NextIsMove, QuiescenceNext, IInvNext DEF DebraInv, IInv
<1>2. DebraInv /\ UNCHANGED vars => DebraInv'
  BY IInvNext DEF DebraInv, Quiescence, vars, shared
<1> QED
  BY <1>1, <1>2

\* Every variable keeps its type.
THEOREM TypeCorrect == Spec => []TypeOK
<1>1. IInv => TypeOK
  BY DEF IInv
<1> QED
  BY <1>1, DebraInvInit, DebraInvNext, PTL DEF Spec, DebraInv

\* leaveQuiescentState never reads an announcement beyond the last thread's
\* (reclaimer_debra.h:145-147), for any number of threads.
THEOREM CheckedIsInBounds == Spec => []CheckedInBounds
<1>1. IInv => CheckedInBounds
  BY ProcessesAssumption DEF IInv, TypeOK, Scans, CheckedInBounds, Threads
<1> QED
  BY <1>1, DebraInvInit, DebraInvNext, PTL DEF Spec, DebraInv

-----------------------------------------------------------------------------
LEMMA GraceStep == IInv /\ IInv' /\ Move => [Grace!GraceNext]_(Grace!graceVars)
<1> SUFFICES ASSUME IInv, IInv', NEW t \in Threads,
                    \/ LeaveMove(t)
                    \/ EnterQuiescentState(t)
                    \/ PlusMove(t)
                    \/ \E o \in Objects : Retire(t, o) \/ Allocate(t, o)
             PROVE  [Grace!GraceNext]_(Grace!graceVars)
  BY DEF Move
<1> USE DEF IInv, TypeOK, Goto
<1>1. CASE Rotation(t)
  <2>0. PICK kept \in SUBSET epochbags[t][NextIndex(t)] : RotateKeeping(t, kept)
    BY <1>1 DEF Rotation
  <2> DEFINE S == epochbags[t][NextIndex(t)] \ kept
  <2>1. NextIndex(t) \in Bags
    BY BagTurns DEF NextIndex
  <2>2. S \subseteq Retired /\ \A o \in S : waits[o] = {}
    BY <2>0, <2>1, SafeToFree DEF RotateKeeping, Retired
  <2>3. Retired' = Retired \ S
    <3>1. ASSUME NEW u \in Threads, NEW b \in Bags, NEW o \in Objects
          PROVE  o \in epochbags'[u][b] <=>
                   o \in epochbags[u][b] /\ ~(u = t /\ b = NextIndex(t) /\ o \in S)
      BY <2>0, <2>1 DEF RotateKeeping
    <3>2. Retired \subseteq Objects /\ Retired' \subseteq Objects
      BY DEF Retired
    <3>3. \A o \in Objects : o \in Retired' <=> \E u \in Threads, b \in Bags : o \in epochbags'[u][b]
      BY DEF Retired
    <3>4. \A o \in Objects : o \in Retired <=> \E u \in Threads, b \in Bags : o \in epochbags[u][b]
      BY DEF Retired
    <3> QED
      BY <2>1, <3>1, <3>2, <3>3, <3>4 DEF OneBag
  <2>4. Active' = Active /\ live' = live /\ waits' = waits
    BY <2>0 DEF RotateKeeping, Active
  <2>5. Grace!Free(S)
    BY <2>2, <2>3, <2>4 DEF Grace!Free
  <2> QED
    BY <2>2, <2>5 DEF Grace!GraceNext
<1>2. CASE Announce(t)
  <2>1. Active' = Active \cup {t}
    BY <1>2 DEF Announce, Active
  <2>2. Retired' = Retired /\ live' = live /\ waits' = waits
    BY <1>2 DEF Announce, Retired, private
  <2> QED
    BY <2>1, <2>2 DEF Grace!GraceNext, Grace!Begin
<1>3. CASE EnterQuiescentState(t)
  <2>1. Active' = Active \ {t}
    BY <1>3 DEF EnterQuiescentState, Active
  <2>2. Retired' = Retired /\ live' = live /\ waits' = [o \in Objects |-> waits[o] \ {t}]
    BY <1>3 DEF EnterQuiescentState, Retired, private
  <2> QED
    BY <2>1, <2>2 DEF Grace!GraceNext, Grace!End
<1>4. ASSUME NEW o \in Objects, Retire(t, o) PROVE Grace!Retire(o)
  <2>1. Active' = Active
    BY <1>4 DEF Retire, Active
  <2>2. Retired' = Retired \cup {o}
    <3>1. \A u \in Threads, b \in Bags :
            epochbags'[u][b] = epochbags[u][b] \cup (IF u = t /\ b = index[t] THEN {o} ELSE {})
      BY <1>4 DEF Retire
    <3>2. index[t] \in Bags
      OBVIOUS
    <3>3. \A x : x \in Retired' <=> \E u \in Threads, b \in Bags : x \in epochbags'[u][b]
      BY DEF Retired
    <3>4. \A x : x \in Retired <=> \E u \in Threads, b \in Bags : x \in epochbags[u][b]
      BY DEF Retired
    <3> QED
      BY <3>1, <3>2, <3>3, <3>4
  <2> QED
    BY <1>4, <2>1, <2>2 DEF Retire, Grace!Retire
<1>5. ASSUME NEW o \in Objects, Allocate(t, o) PROVE Grace!Allocate(o)
  BY <1>5 DEF Allocate, Grace!Allocate, Active, Retired, private
<1>6. CASE ReadEpoch(t) \/ ScanNotNow(t) \/ Scan(t) \/ Advance(t)
  <2>1. Active' = Active
    BY <1>6 DEF ReadEpoch, ScanNotNow, Scan, Advance, Active
  <2>2. UNCHANGED <<Retired, live, waits>>
    BY <1>6 DEF ReadEpoch, ScanNotNow, Scan, Advance, Retired, private
  <2> QED
    BY <2>1, <2>2 DEF Grace!graceVars
<1>7. CASE PlusMove(t)
  <2>1. CASE Suspect(t) \/ Quiesce(t)
    <3>1. UNCHANGED <<epochbags, pc, live, waits>>
      BY <2>1 DEF Suspect, Quiesce, private
    <3> QED
      BY <3>1 DEF Grace!graceVars, Active, Retired
  <2>2. CASE PassOver(t)
    <3>1. /\ pc[t] = "scan" /\ pc'[t] \in {"advance", "announce"} /\ checked[t] \in Threads
          /\ UNCHANGED <<epochbags, live>>
      BY <2>2, PassOverIs
    <3>2. Retired' = Retired
      BY <3>1 DEF Retired
    <3>3. CASE quiescent[checked[t]]
      <4>1. waits' = waits /\ \A u \in Threads \ {t} : pc'[u] = pc[u]
        BY <2>2, <3>3 DEF PassOver
      <4>2. Active' = Active
        BY <3>1, <4>1 DEF Active
      <4> QED
        BY <3>1, <3>2, <4>1, <4>2 DEF Grace!graceVars
    <3>4. CASE ~quiescent[checked[t]]
      <4>1. waits' = [o \in Objects |-> waits[o] \ {checked[t]}]
            /\ \A u \in Threads \ {t} : pc'[u] = IF u = checked[t] THEN "outside" ELSE pc[u]
        BY <2>2, <3>4 DEF PassOver
      <4>2. Active' = Active \ {checked[t]}
        BY <3>1, <4>1 DEF Active
      <4>3. Grace!End(checked[t])
        BY <3>1, <3>2, <4>1, <4>2 DEF Grace!End
      <4> QED
        BY <3>1, <4>3 DEF Grace!GraceNext
    <3> QED
      BY <3>3, <3>4
  <2> QED
    BY <1>7, <2>1, <2>2 DEF PlusMove
<1> QED
  BY <1>1, <1>2, <1>3, <1>4, <1>5, <1>6, <1>7 DEF LeaveMove, Grace!GraceNext

LEMMA GraceInitIs == Init => Grace!GraceInit
BY DEF Init, Grace!GraceInit, Active, Retired

LEMMA GraceStepOrStutter ==
  IInv /\ IInv' /\ [Move]_vars => [Grace!GraceNext]_(Grace!graceVars)
<1>1. UNCHANGED vars => UNCHANGED Grace!graceVars
  BY DEF vars, shared, private, Grace!graceVars, Active, Retired
<1> QED
  BY <1>1, GraceStep

\* DEBRA implements the reclaimer's promise: no object is freed while an
\* operation that was running when it was retired still runs, for any number of
\* threads and objects and however stale an announcement is
\* (reclaimer_debra.h:106-181).
THEOREM ImplementsGracePeriod == Spec => GraceSpec
<1>1. Init => Grace!GraceInit
  BY GraceInitIs
<1>2. DebraInv /\ [Next]_vars => [Grace!GraceNext]_(Grace!graceVars)
  BY DebraInvNext, GraceStepOrStutter DEF DebraInv
<1> QED
  BY <1>1, <1>2, DebraInvInit, DebraInvNext, PTL DEF Spec, GraceSpec, Grace!GraceSpec
-----------------------------------------------------------------------------
(***************************************************************************)
(* DEBRA+.                                                                 *)
(*                                                                         *)
(* Seen through the variables of DEBRA every step of DEBRA+ is a Move or   *)
(* leaves them alone (PlusNextIsMove), so that IInv and the refinement of  *)
(* GracePeriod are those of DEBRA.  What is new is the state               *)
(* of a thread that has been signalled (SignalState) and the               *)
(* announcements.                                                          *)
(*                                                                         *)
(* The argument for AnnouncedIsKept follows an object o of the bag that u  *)
(* is about to free and that t announces: either u has it in comparing[u]  *)
(* already or it is in a slot that the loop of u has still to read         *)
(* (Found).  qProtect writes behind the last entry and takes only that one *)
(* back, so that a slot keeps its entry.  No announcement of o is new: t   *)
(* announces what its operation can reach, and what u is about to free no  *)
(* operation can reach (SafeToFree).  The last step needs that the whole   *)
(* of comparing[u] is of use: when the loop is over nothing is left to     *)
(* read.                                                                   *)
(***************************************************************************)

\* A thread is quiescent outside of operations, but for one whose operation was
\* ended by a signal that has not reached it yet.
SignalState(t) ==
  /\ quiescent[t] <=> pc[t] # "inside" /\ stage[t] # "signalled"
  /\ blocked[t] => stage[t] = "recover"
  /\ stage[t] = "hash" => pc[t] = "rotate"
  /\ stage[t] = "neutralize" => pc[t] = "scan"
  /\ stage[t] \in {"count", "validate"} => pc[t] = "inside"
  /\ stage[t] \in {"signalled", "recover"} => pc[t] = "outside"

\* announce[t], in the hands of its owner: the last entry may be unvalidated.
Announcing(t) ==
  /\ \A j \in 0 .. size[t] - 1 : data[t][j] \in Objects
  /\ \A j, k \in 0 .. size[t] - 1 : data[t][j] = data[t][k] => j = k
  /\ (obj[t] = NULL) <=> stage[t] \notin {"count", "validate"}
  /\ stage[t] = "count" =>
       /\ size[t] < MAX_PROTECT /\ data[t][size[t]] = obj[t]
       /\ \A j \in 0 .. size[t] - 1 : data[t][j] # obj[t]
  /\ stage[t] = "validate" => size[t] > 0 /\ data[t][size[t] - 1] = obj[t]
  /\ stage[t] \in {"count", "validate"} => obj[t] \in Reachable(t)

\* The loop with which t collects the announcements.
Collecting(t) ==
  /\ stage[t] # "hash" => at[t] = A!FirstPlace
  /\ at[t].sz # A!Unread =>
       /\ at[t].other < NumProcesses /\ at[t].ix < at[t].sz /\ at[t].sz <= MAX_PROTECT
       /\ \A j \in 0 .. at[t].sz - 1 : data[at[t].other][j] \in Objects
  /\ at[t].sz = A!Unread => at[t].ix = 0

\* The loop of u has still to read the announcement of o by t.
StillToRead(u, t, o) ==
  \/ at[u].other < t
  \/ /\ at[u].other = t
     /\ \/ at[u].sz = A!Unread
        \/ \E j \in at[u].ix .. at[u].sz - 1 : data[t][j] = o /\ j < size[t]

\* What u may be about to free, t announces where u finds it.
Found(u, t) ==
  stage[u] = "hash" =>
    \A o \in Freeable(u) : o \in A!Announced(t) => o \in comparing[u] \/ StillToRead(u, t, o)

PlusInv ==
  /\ IInv
  /\ PlusTypeOK
  /\ \A t \in Threads : SignalState(t) /\ Announcing(t) /\ Collecting(t)
  /\ \A u, t \in Threads : Found(u, t)
  /\ AnnouncedKept
-----------------------------------------------------------------------------
\* Steps of DEBRA+, through the variables of DEBRA

LEMMA ProtocolTypes ==
  ASSUME PlusTypeOK
  PROVE  /\ data \in [Threads -> [0 .. MAX_PROTECT - 1 -> Objects \cup {NULL}]]
         /\ size \in [Threads -> 0 .. MAX_PROTECT]
         /\ comparing \in [Threads -> SUBSET Objects]
         /\ at \in [Threads -> [other : 0 .. NumProcesses, sz : {-1} \cup 1 .. MAX_PROTECT,
                                ix : 0 .. MAX_PROTECT - 1]]
         /\ stage \in [Threads -> Stages]
         /\ obj \in [Threads -> Objects \cup {NULL}]
         /\ blocked \in [Threads -> BOOLEAN]
BY DEF PlusTypeOK, A!AnnouncementsTypeOK, A!Threads, Threads, A!Slots, A!Places, A!Unread

\* Steps that neither announce nor collect.
ProtocolStep(t) ==
  \/ stage[t] = "none" /\ (ReadEpoch(t) \/ ScanNotNow(t) \/ Advance(t) \/ Announce(t)) /\ UNCHANGED plusVars
  \/ ScanOther(t) \/ DecideToNeutralize(t) \/ Neutralize(t)
  \/ PlusEnterQuiescentState(t) \/ Handler(t) \/ Recover(t)
  \/ \E o \in Objects : PlusRetire(t, o) \/ PlusAllocate(t, o)

\* Steps of qProtect and qUnprotectAll.
ProtectStep(t) ==
  \/ QCount(t) \/ QValidate(t) \/ QUnprotectAll(t) \/ \E o \in Objects : QProtect(t, o)

LEMMA PlusStepIs ==
  ASSUME PlusNext
  PROVE  \E t \in Threads :
           \/ ProtocolStep(t) \/ ProtectStep(t)
           \/ RotateSmall(t) \/ StartHash(t) \/ Hash(t) \/ RotateLarge(t)
BY DEF PlusNext, PlusLeaveStep, ProtocolStep, ProtectStep

LEMMA NeutralizeIs ==
  ASSUME PlusInv, NEW t \in Threads, Neutralize(t)
  PROVE  /\ PassOver(t) /\ checked[t] \in Threads
         /\ \/ quiescent[checked[t]] /\ stage' = [stage EXCEPT ![t] = "none"] /\ obj' = obj
            \/ /\ ~quiescent[checked[t]] /\ checked[t] # t /\ ~blocked[checked[t]]
               /\ stage' = [stage EXCEPT ![t] = "none", ![checked[t]] = "signalled"]
               /\ obj' = [obj EXCEPT ![checked[t]] = NULL]
<1> USE DEF PlusInv, IInv
<1>1. pc[t] = "scan" /\ quiescent[t]
  BY DEF Neutralize, SignalState
<1>2. checked[t] \in Threads
  BY <1>1, ProcessesAssumption DEF Scans, TypeOK, Threads
<1>3. Interrupted(checked[t]) <=> ~quiescent[checked[t]]
  BY <1>2 DEF Interrupted, SignalState
<1>4. CASE quiescent[checked[t]]
  BY <1>1, <1>2, <1>3, <1>4 DEF Neutralize, PassOver
<1>5. CASE ~quiescent[checked[t]]
  <2>1. checked[t] # t /\ ~blocked[checked[t]]
    BY <1>1, <1>3, <1>5 DEF Interrupted
  <2> QED
    BY <1>1, <1>2, <1>3, <1>5, <2>1 DEF Neutralize, PassOver
<1> QED
  BY <1>4, <1>5

LEMMA ProtocolStepIsMove ==
  ASSUME PlusInv, NEW t \in Threads, ProtocolStep(t)
  PROVE  Move \/ UNCHANGED vars
<1>1. CASE stage[t] = "none" /\ (ReadEpoch(t) \/ ScanNotNow(t) \/ Advance(t) \/ Announce(t))
  <2>1. ReadEpoch(t) => quiescent[t]
    BY <1>1 DEF PlusInv, SignalState, ReadEpoch, Goto
  <2> QED
    BY <1>1, <2>1 DEF Move, LeaveMove
<1>2. CASE ScanOther(t)
  BY <1>2 DEF ScanOther, Move, LeaveMove
<1>3. CASE DecideToNeutralize(t)
  BY <1>3 DEF DecideToNeutralize, Suspect, Move, PlusMove
<1>4. CASE Neutralize(t)
  BY <1>4, NeutralizeIs DEF Move, PlusMove
<1>5. CASE Handler(t)
  <2>1. pc[t] = "outside"
    BY <1>5 DEF Handler, Stage, PlusInv, SignalState
  <2> QED
    BY <1>5, <2>1 DEF Handler, Quiesce, Move, PlusMove
<1>6. CASE PlusEnterQuiescentState(t) \/ Recover(t) \/ \E o \in Objects : PlusRetire(t, o) \/ PlusAllocate(t, o)
  BY <1>6 DEF PlusEnterQuiescentState, Recover, PlusRetire, PlusAllocate, Move
<1> QED
  BY <1>1, <1>2, <1>3, <1>4, <1>5, <1>6 DEF ProtocolStep

LEMMA RotateIs ==
  ASSUME NEW t \in Threads, RotateSmall(t) \/ RotateLarge(t)
  PROVE  \E kept \in SUBSET Freeable(t) :
           /\ RotateTo(t, kept) /\ RotateKeeping(t, kept) /\ Rotation(t)
           /\ \A o \in Freeable(t) \ kept : RotateLarge(t) /\ o \notin comparing[t]
<1>1. \A kept \in SUBSET Freeable(t) : RotateTo(t, kept) => RotateKeeping(t, kept) /\ Rotation(t)
  BY DEF RotateTo, RotateKeeping, Rotation, Freeable
<1>2. CASE RotateSmall(t)
  <2>1. RotateTo(t, Freeable(t))
    BY <1>2 DEF RotateSmall
  <2> QED
    BY <1>1, <2>1
<1>3. CASE RotateLarge(t)
  <2>1. PICK freed \in Freed(t) : RotateTo(t, Freeable(t) \ freed)
    BY <1>3 DEF RotateLarge
  <2>2. freed \subseteq Freeable(t) \ (Freeable(t) \cap comparing[t])
    BY DEF Freed
  <2> QED
    BY <1>1, <1>3, <2>1, <2>2
<1> QED
  BY <1>2, <1>3

LEMMA PlusNextIsMove ==
  ASSUME PlusInv, PlusNext
  PROVE  Move \/ UNCHANGED vars
<1> PICK t \in Threads : \/ ProtocolStep(t) \/ ProtectStep(t)
                         \/ RotateSmall(t) \/ StartHash(t) \/ Hash(t) \/ RotateLarge(t)
  BY PlusStepIs
<1>1. ProtectStep(t) \/ StartHash(t) \/ Hash(t) => UNCHANGED vars
  BY DEF ProtectStep, QProtect, QCount, QValidate, QUnprotectAll, StartHash, Hash
<1>2. RotateSmall(t) \/ RotateLarge(t) => Move
  BY RotateIs DEF Move, LeaveMove
<1> QED
  BY <1>1, <1>2, ProtocolStepIsMove

-----------------------------------------------------------------------------
\* Objects, through a Move

LEMMA RetiredHas ==
  ASSUME NEW o
  PROVE  o \in Retired <=> \E u \in Threads, b \in Bags : o \in epochbags[u][b]
BY DEF Retired

LEMMA RetiredHasNext ==
  ASSUME NEW o
  PROVE  o \in Retired' <=> \E u \in Threads, b \in Bags : o \in epochbags'[u][b]
BY DEF Retired

\* While its owner is about to rotate a bag, nobody changes it.
LEMMA FreeableStays ==
  ASSUME IInv, Move, NEW u \in Threads, pc[u] = "rotate", ~Rotation(u)
  PROVE  Freeable(u)' = Freeable(u) /\ pc'[u] = "rotate"
<1> PICK w \in Threads : \/ LeaveMove(w)
                         \/ EnterQuiescentState(w)
                         \/ PlusMove(w)
                         \/ \E x \in Objects : Retire(w, x) \/ Allocate(w, x)
  BY DEF Move
<1> USE DEF IInv, TypeOK, Goto
<1> SUFFICES epochbags'[u] = epochbags[u] /\ index'[u] = index[u] /\ pc'[u] = "rotate"
  BY DEF Freeable, NextIndex
<1>1. CASE Rotation(w)
  <2>1. w # u
    BY <1>1
  <2> QED
    BY <1>1, <2>1 DEF Rotation, RotateKeeping
<1>2. CASE LeaveMove(w) /\ ~Rotation(w)
  BY <1>2 DEF LeaveMove, ReadEpoch, ScanNotNow, Scan, Advance, Announce, private
<1>3. CASE EnterQuiescentState(w)
  BY <1>3 DEF EnterQuiescentState, private
<1>4. CASE PlusMove(w)
  <2>1. CASE PassOver(w)
    BY <2>1, PassOverIs
  <2> QED
    BY <1>4, <2>1 DEF PlusMove, Suspect, Quiesce, private
<1>5. CASE \E x \in Objects : Retire(w, x) \/ Allocate(w, x)
  BY <1>5 DEF Retire, Allocate, CanCall, private
<1> QED
  BY <1>1, <1>2, <1>3, <1>4, <1>5

LEMMA ReachableIs ==
  ASSUME NEW t, NEW o
  PROVE  o \in Reachable(t) <=>
           o \in live \/ (t \in waits[o] /\ \E u \in Threads, b \in Bags : o \in epochbags[u][b])
BY DEF Reachable, Retired

\* An object that is allocated or retired stays so until it is freed.
LEMMA StaysAllocated ==
  ASSUME IInv, Move, NEW o \in live \cup Retired
  PROVE  \/ o \in live' \cup Retired'
         \/ \E u \in Threads : Rotation(u) /\ o \in Freeable(u) /\ o \notin epochbags'[u][NextIndex(u)]
<1> PICK w \in Threads : \/ LeaveMove(w)
                         \/ EnterQuiescentState(w)
                         \/ PlusMove(w)
                         \/ \E x \in Objects : Retire(w, x) \/ Allocate(w, x)
  BY DEF Move
<1> USE DEF IInv, TypeOK
<1>1. CASE Rotation(w)
  <2>1. live' = live /\ NextIndex(w) \in Bags
    BY <1>1, BagTurns DEF Rotation, RotateKeeping, NextIndex
  <2>2. \A u \in Threads, b \in Bags :
          u # w \/ b # NextIndex(w) => epochbags'[u][b] = epochbags[u][b]
    BY <1>1, <2>1 DEF Rotation, RotateKeeping
  <2>3. CASE o \in live
    BY <2>1, <2>3
  <2>4. CASE o \in Retired
    <3>1. PICK u \in Threads, b \in Bags : o \in epochbags[u][b]
      BY <2>4, RetiredHas
    <3>2. CASE u = w /\ b = NextIndex(w)
      <4>1. CASE o \in epochbags'[u][b]
        BY <4>1, RetiredHasNext
      <4>2. CASE o \notin epochbags'[u][b]
        BY <1>1, <3>1, <3>2, <4>2 DEF Freeable
      <4> QED
        BY <4>1, <4>2
    <3>3. CASE ~(u = w /\ b = NextIndex(w))
      BY <2>2, <3>1, <3>3, RetiredHasNext
    <3> QED
      BY <3>2, <3>3
  <2> QED
    BY <2>3, <2>4
<1>2. CASE \E x \in Objects : Retire(w, x)
  <2> PICK x \in Objects : Retire(w, x)
    BY <1>2
  <2>1. \A u \in Threads, b \in Bags : epochbags[u][b] \subseteq epochbags'[u][b]
    BY DEF Retire
  <2>2. x \in epochbags'[w][index[w]] /\ live' = live \ {x}
    BY DEF Retire
  <2>3. o \in Retired => o \in Retired'
    BY <2>1, RetiredHas, RetiredHasNext
  <2>4. x \in Retired'
    <3>1. index[w] \in Bags
      OBVIOUS
    <3> QED
      BY <2>2, <3>1, RetiredHasNext
  <2> QED
    BY <2>2, <2>3, <2>4
<1>3. CASE UNCHANGED epochbags /\ live \subseteq live'
  BY <1>3 DEF Retired
<1>4. CASE ~Rotation(w) /\ ~\E x \in Objects : Retire(w, x)
  <2>1. PassOver(w) => UNCHANGED epochbags /\ live \subseteq live'
    BY PassOverIs
  <2> QED
    BY <1>3, <1>4, <2>1 DEF LeaveMove, PlusMove, ReadEpoch, ScanNotNow, Scan, Advance, Announce,
       EnterQuiescentState, Suspect, Quiesce, Allocate, private
<1> QED
  BY <1>1, <1>2, <1>4

\* An operation that goes on can go on reaching what it could reach.
LEMMA StaysReachable ==
  ASSUME IInv, Move, NEW t \in Threads, pc[t] = "inside", pc'[t] = "inside",
         NEW o \in Objects, o \in Reachable(t)
  PROVE  o \in live' \/ (o \in Retired' /\ t \in waits'[o])
<1>1. CASE o \in live
  <2>1. o \in live' \/ \E w \in Threads : Retire(w, o)
    BY <1>1 DEF Move, LeaveMove, PlusMove, ReadEpoch, Rotation, RotateKeeping, ScanNotNow, Scan, Advance,
       Announce, EnterQuiescentState, Suspect, PassOver, Quiesce, Retire, Allocate
  <2>2. ASSUME NEW w \in Threads, Retire(w, o) PROVE o \in Retired' /\ t \in waits'[o]
    <3>1. index[w] \in Bags /\ o \in epochbags'[w][index[w]]
      BY <2>2 DEF IInv, TypeOK, Retire
    <3>2. t \in waits'[o]
      BY <2>2 DEF IInv, TypeOK, Retire, Active
    <3> QED
      BY <3>1, <3>2, RetiredHasNext
  <2> QED
    BY <2>1, <2>2
<1>2. CASE o \notin live
  <2>1. o \in Retired /\ t \in waits[o]
    BY <1>2 DEF Reachable
  <2>2. \A u \in Threads : Rotation(u) => o \notin Freeable(u)
    <3> SUFFICES ASSUME NEW u \in Threads, Rotation(u), o \in Freeable(u) PROVE FALSE
      OBVIOUS
    <3>1. pc[u] = "rotate" /\ o \in epochbags[u][NextIndex(u)]
      BY DEF Rotation, RotateKeeping, Goto, Freeable
    <3>2. waits[o] = {}
      BY <3>1, SafeToFree
    <3> QED
      BY <2>1, <3>2
  <2>3. o \in live' \cup Retired'
    BY <2>1, <2>2, StaysAllocated
  <2>4. t \in waits'[o]
    <3> PICK w \in Threads : \/ LeaveMove(w)
                             \/ EnterQuiescentState(w)
                             \/ PlusMove(w)
                             \/ \E x \in Objects : Retire(w, x) \/ Allocate(w, x)
      BY DEF Move
    <3> USE DEF IInv, TypeOK
    <3>1. CASE EnterQuiescentState(w)
      <4>1. w # t
        BY <3>1 DEF EnterQuiescentState, Goto
      <4> QED
        BY <2>1, <3>1, <4>1 DEF EnterQuiescentState
    <3>2. CASE PassOver(w)
      <4>1. t # checked[w]
        BY <3>2, PassOverIs
      <4> QED
        BY <2>1, <3>2, <4>1 DEF PassOver
    <3>3. CASE \E x \in Objects : Retire(w, x)
      <4> PICK x \in Objects : Retire(w, x)
        BY <3>3
      <4>1. x # o
        BY <1>2 DEF Retire
      <4> QED
        BY <2>1, <4>1 DEF Retire
    <3>4. CASE UNCHANGED waits
      BY <2>1, <3>4
    <3> QED
      BY <3>1, <3>2, <3>3, <3>4 DEF LeaveMove, PlusMove, ReadEpoch, Rotation, RotateKeeping, ScanNotNow, Scan,
         Advance, Announce, Suspect, Quiesce, Allocate
  <2> QED
    BY <2>3, <2>4
<1> QED
  BY <1>1, <1>2
-----------------------------------------------------------------------------
\* Types and the state of signals

LEMMA ProtocolFrame ==
  ASSUME PlusInv, NEW t \in Threads, ProtocolStep(t)
  PROVE  /\ UNCHANGED <<data, size, comparing, at>>
         /\ stage' \in [Threads -> Stages] /\ obj' \in [Threads -> Objects \cup {NULL}]
         /\ blocked' \in [Threads -> BOOLEAN]
         /\ \A v \in Threads :
              /\ SignalState(v)'
              /\ stage'[v] = "hash" <=> stage[v] = "hash"
              /\ pc[v] = "rotate" => pc'[v] = "rotate"
              /\ stage'[v] \in {"count", "validate"} => stage'[v] = stage[v] /\ obj'[v] = obj[v]
              /\ stage'[v] \notin {"count", "validate"} => obj'[v] = NULL
<1> USE ProtocolTypes DEF PlusInv, Stages, SignalState, IInv, TypeOK, Announcing
<1>1. CASE stage[t] = "none" /\ (ReadEpoch(t) \/ ScanNotNow(t) \/ Advance(t) \/ Announce(t)) /\ UNCHANGED plusVars
  BY SMTT(30), <1>1 DEF plusVars, announceVars, ReadEpoch, ScanNotNow, Advance, Announce, Goto, shared
<1>2. CASE ScanOther(t)
  BY SMTT(30), <1>2 DEF ScanOther, Scan, plusVars, announceVars, Goto, shared
<1>3. CASE DecideToNeutralize(t)
  BY <1>3 DEF DecideToNeutralize, announceVars, Stage, shared
<1>4. CASE Neutralize(t)
  <2>1. PassOver(t)
    BY <1>4, NeutralizeIs
  <2>2. /\ UNCHANGED quiescent /\ pc[t] = "scan" /\ pc'[t] \in {"advance", "announce"}
        /\ \A u \in Threads \ {t} : pc'[u] = pc[u] \/ (pc[u] \in {"inside", "outside"} /\ pc'[u] = "outside")
    BY <2>1, PassOverIs DEF shared
  <2>3. UNCHANGED <<data, size, comparing, at, blocked>> /\ stage[t] = "neutralize"
    BY <1>4 DEF Neutralize, announceVars
  <2>4. CASE quiescent[checked[t]]
    <3>1. /\ stage' = [stage EXCEPT ![t] = "none"] /\ obj' = obj
          /\ \A u \in Threads \ {t} : pc'[u] = pc[u]
      <4>1. stage' = [stage EXCEPT ![t] = "none"] /\ obj' = obj
        BY ONLY <1>4, <2>4, PlusInv, t \in Threads, NeutralizeIs
      <4>2. \A u \in Threads \ {t} : pc'[u] = pc[u]
        BY <2>1, <2>4 DEF PassOver
      <4> QED
        BY <4>1, <4>2
    <3> QED
      BY <2>2, <2>3, <3>1
  <2>5. CASE ~quiescent[checked[t]]
    <3>1. /\ checked[t] \in Threads \ {t} /\ ~blocked[checked[t]]
          /\ stage' = [stage EXCEPT ![t] = "none", ![checked[t]] = "signalled"]
          /\ obj' = [obj EXCEPT ![checked[t]] = NULL]
          /\ pc'[checked[t]] = "outside"
          /\ \A u \in Threads \ {t} : u # checked[t] => pc'[u] = pc[u]
      <4>1. /\ checked[t] \in Threads \ {t} /\ ~blocked[checked[t]]
            /\ stage' = [stage EXCEPT ![t] = "none", ![checked[t]] = "signalled"]
            /\ obj' = [obj EXCEPT ![checked[t]] = NULL]
        BY ONLY <1>4, <2>5, PlusInv, t \in Threads, NeutralizeIs
      <4>2. pc'[checked[t]] = "outside"
            /\ \A u \in Threads \ {t} : u # checked[t] => pc'[u] = pc[u]
        BY <2>1, <2>5, <4>1 DEF PassOver
      <4> QED
        BY <4>1, <4>2
    <3> PICK c \in Threads \ {t} : c = checked[t]
      BY <3>1
    <3>2. stage'[t] = "none" /\ obj'[t] = obj[t] /\ stage'[c] = "signalled" /\ obj'[c] = NULL
          /\ \A v \in Threads \ {t, c} : stage'[v] = stage[v] /\ obj'[v] = obj[v]
      BY <3>1
    <3>3. ASSUME NEW v \in Threads
          PROVE  /\ SignalState(v)'
                 /\ stage'[v] = "hash" <=> stage[v] = "hash"
                 /\ stage'[v] \in {"count", "validate"} => stage'[v] = stage[v] /\ obj'[v] = obj[v]
                 /\ stage'[v] \notin {"count", "validate"} => obj'[v] = NULL
      <4>1. SignalState(v) /\ stage[v] \in Stages
            /\ ((obj[v] = NULL) <=> stage[v] \notin {"count", "validate"})
        BY ONLY ProtocolTypes, PlusInv, v \in Threads DEF PlusInv, Announcing
      <4>2. quiescent'[v] = quiescent[v] /\ blocked'[v] = blocked[v]
        BY <2>2, <2>3
      <4>3. CASE v = t
        <5>1. pc'[v] \in {"advance", "announce"} /\ stage'[v] = "none" /\ obj'[v] = obj[v]
              /\ pc[v] = "scan" /\ stage[v] = "neutralize"
          BY <2>2, <2>3, <3>2, <4>3
        <5> QED
          BY ONLY <4>1, <4>2, <5>1 DEF SignalState
      <4>4. CASE v = c
        <5>1. pc'[v] = "outside" /\ stage'[v] = "signalled" /\ obj'[v] = NULL /\ ~quiescent[v] /\ ~blocked[v]
          BY <2>5, <3>1, <3>2, <4>4
        <5> QED
          BY ONLY <4>1, <4>2, <5>1 DEF SignalState
      <4>5. CASE v # t /\ v # c
        <5>1. pc'[v] = pc[v] /\ stage'[v] = stage[v] /\ obj'[v] = obj[v]
          BY <3>1, <3>2, <4>5
        <5> QED
          BY ONLY <4>1, <4>2, <5>1 DEF SignalState
      <4> QED
        BY ONLY <4>3, <4>4, <4>5
    <3>5. \A v \in Threads : pc[v] = "rotate" => pc'[v] = "rotate"
      BY <2>2
    <3>6. stage' \in [Threads -> Stages] /\ obj' \in [Threads -> Objects \cup {NULL}]
      BY <3>1
    <3> QED
      BY ONLY <2>3, <3>1, <3>3, <3>5, <3>6, ProtocolTypes, PlusInv DEF PlusInv
  <2> QED
    BY <2>4, <2>5
<1>5. CASE PlusEnterQuiescentState(t)
  BY <1>5 DEF PlusEnterQuiescentState, EnterQuiescentState, plusVars, announceVars, Goto
<1>6. CASE Handler(t)
  BY <1>6 DEF Handler, Stage, announceVars
<1>7. CASE Recover(t)
  BY <1>7 DEF Recover, Stage, UnblockCrashRecoverySignal, announceVars, vars, shared
<1>8. CASE \E o \in Objects : PlusRetire(t, o) \/ PlusAllocate(t, o)
  BY <1>8 DEF PlusRetire, PlusAllocate, Retire, Allocate, plusVars, announceVars, shared
<1> QED
  BY <1>1, <1>2, <1>3, <1>4, <1>5, <1>6, <1>7, <1>8 DEF ProtocolStep

LEMMA ProtectFrame ==
  ASSUME PlusInv, NEW t \in Threads, ProtectStep(t)
  PROVE  /\ UNCHANGED <<vars, comparing, at, blocked>>
         /\ stage' \in [Threads -> Stages] /\ obj' \in [Threads -> Objects \cup {NULL}]
         /\ stage[t] # "hash" /\ stage'[t] # "hash"
         /\ \A v \in Threads : SignalState(v)'
         /\ \A v \in Threads \ {t} :
              stage'[v] = stage[v] /\ obj'[v] = obj[v] /\ data'[v] = data[v] /\ size'[v] = size[v]
<1> USE ProtocolTypes DEF PlusInv, Stages, SignalState, Stage, vars, shared
<1>1. ASSUME NEW o \in Objects, QProtect(t, o)
      PROVE  /\ UNCHANGED <<vars, comparing, at, blocked>>
             /\ stage' \in [Threads -> Stages] /\ obj' \in [Threads -> Objects \cup {NULL}]
             /\ stage[t] # "hash" /\ stage'[t] # "hash"
             /\ \A v \in Threads : SignalState(v)'
             /\ \A v \in Threads \ {t} :
                  stage'[v] = stage[v] /\ obj'[v] = obj[v] /\ data'[v] = data[v] /\ size'[v] = size[v]
  BY <1>1 DEF QProtect, A!AddStore
<1>2. CASE QCount(t)
  BY <1>2 DEF QCount, A!AddCount
<1>3. CASE QValidate(t)
  BY <1>3 DEF QValidate, A!EraseCount
<1>4. CASE QUnprotectAll(t)
  BY <1>4 DEF QUnprotectAll, A!Clear
<1> QED
  BY <1>1, <1>2, <1>3, <1>4 DEF ProtectStep

LEMMA RotateFrame ==
  ASSUME PlusInv, NEW t \in Threads, RotateSmall(t) \/ RotateLarge(t)
  PROVE  /\ UNCHANGED <<data, size, obj, blocked>>
         /\ stage' \in [Threads -> Stages] /\ stage'[t] = "none"
         /\ pc[t] = "rotate" /\ stage[t] \in {"none", "hash"}
         /\ \A v \in Threads : SignalState(v)'
         /\ \A v \in Threads \ {t} :
              stage'[v] = stage[v] /\ comparing'[v] = comparing[v] /\ at'[v] = at[v] /\ pc'[v] = pc[v]
         /\ comparing' \in [Threads -> SUBSET Objects]
         /\ at'[t] = IF RotateLarge(t) THEN A!FirstPlace ELSE at[t]
         /\ at' = at \/ at' = [at EXCEPT ![t] = A!FirstPlace]
<1> USE ProtocolTypes DEF PlusInv, Stages, SignalState, IInv, TypeOK
<1> PICK kept \in SUBSET Freeable(t) : RotateTo(t, kept)
  BY RotateIs
<1>1. /\ UNCHANGED <<data, size, obj, blocked, quiescent>> /\ pc[t] = "rotate"
      /\ pc' = [pc EXCEPT ![t] = "scan"]
  BY DEF RotateTo, Goto, announceVars, shared
<1>2. CASE RotateLarge(t)
  <2>1. /\ stage[t] = "hash" /\ stage' = [stage EXCEPT ![t] = "none"]
        /\ at' = [at EXCEPT ![t] = A!FirstPlace] /\ comparing' = [comparing EXCEPT ![t] = {}]
    BY <1>2 DEF RotateLarge, Stage, A!Rewind
  <2> QED
    BY <1>1, <1>2, <2>1
<1>3. CASE ~RotateLarge(t)
  <2>1. stage[t] = "none" /\ UNCHANGED <<comparing, at, stage>>
    BY <1>3 DEF RotateSmall
  <2> QED
    BY <1>1, <1>3, <2>1
<1> QED
  BY <1>2, <1>3

LEMMA HashFrame ==
  ASSUME PlusInv, NEW t \in Threads, StartHash(t) \/ Hash(t)
  PROVE  /\ UNCHANGED <<vars, data, size, obj, blocked>>
         /\ stage' \in [Threads -> Stages] /\ pc[t] = "rotate" /\ stage[t] \in {"none", "hash"}
         /\ stage'[t] = "hash"
         /\ \A v \in Threads : SignalState(v)'
         /\ \A v \in Threads \ {t} :
              stage'[v] = stage[v] /\ comparing'[v] = comparing[v] /\ at'[v] = at[v]
<1> USE ProtocolTypes DEF PlusInv, Stages, SignalState, announceVars, vars, shared
<1>1. CASE StartHash(t)
  BY <1>1 DEF StartHash, Stage, A!ClearComparing
<1>2. CASE Hash(t)
  <2>1. \A v \in Threads \ {t} : comparing'[v] = comparing[v] /\ at'[v] = at[v]
    BY <1>2 DEF Hash, A!Collect, A!ReadSize, A!ReadSlot
  <2> QED
    BY <1>2, <2>1 DEF Hash
<1> QED
  BY <1>1, <1>2

-----------------------------------------------------------------------------
\* Announcements

LEMMA AnnouncedHas ==
  ASSUME NEW t \in Threads, size[t] \in 0 .. MAX_PROTECT, NEW o
  PROVE  o \in A!Announced(t) <=> \E j \in 0 .. size[t] - 1 : data[t][j] = o
<1>1. {j \in A!Slots : j < size[t]} = 0 .. size[t] - 1
  BY ProtectAssumption DEF A!Slots
<1> QED
  BY <1>1 DEF A!Announced

LEMMA AnnouncedHasNext ==
  ASSUME NEW t \in Threads, size'[t] \in 0 .. MAX_PROTECT, NEW o
  PROVE  o \in A!Announced(t)' <=> \E j \in 0 .. size'[t] - 1 : data'[t][j] = o
<1>1. {j \in A!Slots : j < size'[t]} = 0 .. size'[t] - 1
  BY ProtectAssumption DEF A!Slots
<1> QED
  BY <1>1 DEF A!Announced

\* A thread whose announcements nobody touches, and whose qProtect goes on or
\* is given up.
LEMMA AnnouncingSame ==
  ASSUME NEW v \in Threads, Announcing(v), data'[v] = data[v], size'[v] = size[v],
         stage'[v] \in {"count", "validate"} =>
           stage'[v] = stage[v] /\ obj'[v] = obj[v] /\ obj[v] \in Reachable(v)',
         stage'[v] \notin {"count", "validate"} => obj'[v] = NULL
  PROVE  Announcing(v)'
<1>1. CASE stage'[v] \in {"count", "validate"}
  <2>1. obj'[v] \in Reachable(v)'
    <3>1. obj'[v] = obj[v] /\ obj[v] \in Reachable(v)'
      BY <1>1
    <3> QED
      BY ONLY <3>1
  <2> QED
    BY <1>1, <2>1 DEF Announcing
<1>2. CASE stage'[v] \notin {"count", "validate"}
  BY <1>2 DEF Announcing
<1> QED
  BY <1>1, <1>2

\* What a Move leaves reachable.
LEMMA ReachesStill ==
  ASSUME IInv, Move \/ UNCHANGED vars, NEW t \in Threads, pc[t] = "inside", pc'[t] = "inside",
         NEW o \in Objects, o \in Reachable(t)
  PROVE  o \in Reachable(t)'
<1>1. o \in live' \/ (o \in Retired' /\ t \in waits'[o])
  <2>1. CASE Move
    BY <2>1, StaysReachable
  <2>2. CASE UNCHANGED vars
    BY <2>2 DEF vars, private, Reachable, Retired
  <2> QED
    BY <2>1, <2>2
<1> QED
  BY <1>1 DEF Reachable

LEMMA ProtocolAnnouncing ==
  ASSUME PlusInv, NEW t \in Threads, ProtocolStep(t), NEW v \in Threads
  PROVE  Announcing(v)'
<1>1. /\ data' = data /\ size' = size /\ SignalState(v)'
      /\ stage'[v] \in {"count", "validate"} => stage'[v] = stage[v] /\ obj'[v] = obj[v]
      /\ stage'[v] \notin {"count", "validate"} => obj'[v] = NULL
  BY ProtocolFrame
<1>2. ASSUME stage'[v] \in {"count", "validate"} PROVE obj[v] \in Reachable(v)'
  <2>1. stage[v] \in {"count", "validate"} /\ pc'[v] = "inside"
    BY <1>1, <1>2 DEF SignalState
  <2>2. SignalState(v) /\ Announcing(v) /\ IInv /\ obj[v] \in Objects \cup {NULL}
    BY ProtocolTypes DEF PlusInv
  <2>3. pc[v] = "inside" /\ obj[v] \in Objects /\ obj[v] \in Reachable(v)
    BY <2>1, <2>2 DEF SignalState, Announcing
  <2>4. Move \/ UNCHANGED vars
    BY ProtocolStepIsMove
  <2> QED
    BY ONLY <2>1, <2>2, <2>3, <2>4, ReachesStill, v \in Threads
<1>3. Announcing(v)
  BY DEF PlusInv
<1> QED
  BY <1>1, <1>2, <1>3, AnnouncingSame

LEMMA RotateAnnouncing ==
  ASSUME PlusInv, NEW t \in Threads, RotateSmall(t) \/ RotateLarge(t), NEW v \in Threads
  PROVE  Announcing(v)'
<1>1. /\ data' = data /\ size' = size /\ obj' = obj /\ SignalState(v)'
      /\ stage'[v] = stage[v] \/ (stage'[v] = "none" /\ stage[v] \in {"none", "hash"})
  <2>1. /\ UNCHANGED <<data, size, obj>> /\ SignalState(v)'
        /\ v # t => stage'[v] = stage[v]
        /\ stage'[t] = "none" /\ stage[t] \in {"none", "hash"}
    BY RotateFrame
  <2> QED
    BY ONLY <2>1
<1>2. SignalState(v) /\ Announcing(v) /\ IInv /\ obj[v] \in Objects \cup {NULL}
  BY ProtocolTypes DEF PlusInv
<1>3. ASSUME stage'[v] \in {"count", "validate"} PROVE obj[v] \in Reachable(v)'
  <2>1. stage[v] \in {"count", "validate"} /\ pc'[v] = "inside"
    BY <1>1, <1>3 DEF SignalState
  <2>2. pc[v] = "inside" /\ obj[v] \in Objects /\ obj[v] \in Reachable(v)
    BY <1>2, <2>1 DEF SignalState, Announcing
  <2>3. Move
    BY RotateIs DEF Move, LeaveMove
  <2> QED
    BY ONLY <1>2, <2>1, <2>2, <2>3, ReachesStill, v \in Threads
<1>4. stage'[v] \notin {"count", "validate"} => obj'[v] = NULL
  BY <1>1, <1>2 DEF Announcing
<1> QED
  BY <1>1, <1>2, <1>3, <1>4, AnnouncingSame

LEMMA HashAnnouncing ==
  ASSUME PlusInv, NEW t \in Threads, StartHash(t) \/ Hash(t), NEW v \in Threads
  PROVE  Announcing(v)'
<1>1. /\ UNCHANGED <<vars, data, size, obj>>
      /\ stage'[v] = stage[v] \/ (stage'[v] = "hash" /\ stage[v] \in {"none", "hash"})
  <2>1. /\ UNCHANGED <<vars, data, size, obj>>
        /\ v # t => stage'[v] = stage[v]
        /\ stage'[t] = "hash" /\ stage[t] \in {"none", "hash"}
    BY HashFrame
  <2> QED
    BY ONLY <2>1
<1>2. Announcing(v) /\ Reachable(v)' = Reachable(v)
  BY <1>1 DEF PlusInv, Reachable, Retired, vars, private
<1>3. stage'[v] \in {"count", "validate"} => obj[v] \in Reachable(v)'
  BY <1>1, <1>2 DEF Announcing
<1>4. stage'[v] \notin {"count", "validate"} => obj'[v] = NULL
  BY <1>1, <1>2 DEF Announcing
<1> QED
  BY <1>1, <1>2, <1>3, <1>4, AnnouncingSame

\* What ProtectStep does to announce[t], and what it leaves there.
LEMMA ProtectAnnouncing ==
  ASSUME PlusInv, NEW t \in Threads, ProtectStep(t)
  PROVE  /\ Announcing(t)'
         /\ data' \in [Threads -> [0 .. MAX_PROTECT - 1 -> Objects \cup {NULL}]]
         /\ size' \in [Threads -> 0 .. MAX_PROTECT]
         /\ \A j \in 0 .. MAX_PROTECT - 1 : data[t][j] \in Objects => data'[t][j] \in Objects
         /\ \A j \in 0 .. size[t] - 1 : data'[t][j] = data[t][j]
         /\ \A j \in 0 .. size'[t] - 1 :
              \/ j < size[t] \/ (data'[t][j] = obj[t] /\ obj[t] \in Reachable(t))
<1> USE ProtectAssumption
<1> PICK n \in 0 .. MAX_PROTECT : n = size[t]
  BY ProtocolTypes DEF PlusInv
<1> PICK E \in [0 .. MAX_PROTECT - 1 -> Objects \cup {NULL}] : E = data[t]
  BY ProtocolTypes DEF PlusInv
<1>1. /\ data \in [Threads -> [0 .. MAX_PROTECT - 1 -> Objects \cup {NULL}]]
      /\ size \in [Threads -> 0 .. MAX_PROTECT]
      /\ stage \in [Threads -> Stages]
      /\ obj \in [Threads -> Objects \cup {NULL}]
      /\ Announcing(t)
  BY ProtocolTypes DEF PlusInv
<1>2. Reachable(t)' = Reachable(t)
  BY ProtectFrame DEF Reachable, Retired, vars, private
<1>3. /\ \A j \in 0 .. n - 1 : E[j] \in Objects
      /\ \A j, k \in 0 .. n - 1 : E[j] = E[k] => j = k
  BY <1>1 DEF Announcing
<1>4. ASSUME NEW o \in Objects, QProtect(t, o)
      PROVE  /\ Announcing(t)'
             /\ data' \in [Threads -> [0 .. MAX_PROTECT - 1 -> Objects \cup {NULL}]]
             /\ size' = size
             /\ \A j \in 0 .. MAX_PROTECT - 1 : E[j] \in Objects => data'[t][j] \in Objects
             /\ \A j \in 0 .. n - 1 : data'[t][j] = E[j]
  <2>1. /\ n < MAX_PROTECT /\ data' = [data EXCEPT ![t][n] = o] /\ size' = size
        /\ stage'[t] = "count" /\ obj'[t] = o /\ o \in Reachable(t) \ A!Announced(t)
    BY <1>1, <1>4 DEF QProtect, A!AddStore, Stage
  <2>2. data'[t] = [E EXCEPT ![n] = o]
    BY <1>1, <2>1
  <2>3. n \in 0 .. MAX_PROTECT - 1
    BY <2>1
  <2>4. data'[t][n] = o /\ (\A j \in 0 .. MAX_PROTECT - 1 : j # n => data'[t][j] = E[j])
    BY ONLY <2>2, <2>3, E \in [0 .. MAX_PROTECT - 1 -> Objects \cup {NULL}]
  <2>5. \A j \in 0 .. n - 1 : data'[t][j] = E[j]
    <3>1. \A j \in 0 .. n - 1 : j \in 0 .. MAX_PROTECT - 1 /\ j # n
      BY <2>3
    <3> QED
      BY ONLY <2>4, <3>1
  <2>6. \A j \in 0 .. n - 1 : E[j] # o
    BY <2>1, AnnouncedHas
  <2>7. size'[t] = n /\ o # NULL /\ obj'[t] \in Reachable(t)'
    BY <1>2, <2>1
  <2>8. Announcing(t)'
    <3>1. \A j \in 0 .. n - 1 : data'[t][j] \in Objects
      BY ONLY <1>3, <2>5
    <3>2. \A j, k \in 0 .. n - 1 : data'[t][j] = data'[t][k] => j = k
      BY ONLY <1>3, <2>5
    <3>3. \A j \in 0 .. n - 1 : data'[t][j] # o
      BY ONLY <2>5, <2>6
    <3> QED
      BY ONLY <2>1, <2>4, <2>7, <3>1, <3>2, <3>3 DEF Announcing
  <2>9. data' \in [Threads -> [0 .. MAX_PROTECT - 1 -> Objects \cup {NULL}]]
    BY <1>1, <2>1
  <2> QED
    BY ONLY <2>1, <2>4, <2>5, <2>8, <2>9, o \in Objects
<1>5. ASSUME QCount(t)
      PROVE  /\ Announcing(t)' /\ data' = data /\ size' \in [Threads -> 0 .. MAX_PROTECT]
             /\ size'[t] = n + 1 /\ E[n] = obj[t] /\ obj[t] \in Reachable(t)
  <2>1. /\ stage[t] = "count" /\ stage'[t] = "validate" /\ size' = [size EXCEPT ![t] = n + 1]
        /\ data' = data /\ obj' = obj
    BY <1>1, <1>5 DEF QCount, A!AddCount, Stage
  <2>2. /\ n < MAX_PROTECT /\ E[n] = obj[t] /\ obj[t] \in Reachable(t) /\ obj[t] \in Objects
        /\ \A j \in 0 .. n - 1 : E[j] # obj[t]
    BY <1>1, <2>1 DEF Announcing
  <2>3. n + 1 \in 0 .. MAX_PROTECT /\ size'[t] = n + 1
    BY <1>1, <2>1, <2>2
  <2>4. \A j \in 0 .. n + 1 - 1 : j = n \/ j \in 0 .. n - 1
    OBVIOUS
  <2>5. \A j \in 0 .. n + 1 - 1 : E[j] \in Objects
    BY ONLY <1>3, <2>2, <2>4
  <2>6. \A j, k \in 0 .. n + 1 - 1 : E[j] = E[k] => j = k
    BY ONLY <1>3, <2>2, <2>4
  <2>7. Announcing(t)'
    <3>1. data'[t] = E /\ size'[t] = n + 1 /\ obj'[t] = obj[t] /\ stage'[t] = "validate"
      BY <2>1, <2>3
    <3>2. n + 1 > 0 /\ n + 1 - 1 = n /\ obj[t] # NULL
      BY <2>2
    <3>3. obj'[t] \in Reachable(t)'
      BY ONLY <1>2, <2>2, <3>1
    <3> QED
      BY ONLY <2>2, <2>5, <2>6, <3>1, <3>2, <3>3 DEF Announcing
  <2>8. size' \in [Threads -> 0 .. MAX_PROTECT]
    BY ONLY <1>1, <2>1, <2>3
  <2> QED
    BY ONLY <2>1, <2>2, <2>3, <2>7, <2>8
<1>6. ASSUME QValidate(t) \/ QUnprotectAll(t)
      PROVE  /\ Announcing(t)' /\ data' = data /\ size' \in [Threads -> 0 .. MAX_PROTECT]
             /\ size'[t] <= n
  <2>1. PICK m \in 0 .. n : size' = [size EXCEPT ![t] = m]
    <3>1. CASE QValidate(t)
      <4>1. n > 0
        BY <1>1, <3>1 DEF Announcing, QValidate, Stage
      <4>2. n - 1 \in 0 .. n /\ n \in 0 .. n
        BY <4>1
      <4>3. CASE obj[t] \in live
        BY <1>1, <3>1, <4>2, <4>3 DEF QValidate
      <4>4. CASE obj[t] \notin live
        BY <1>1, <3>1, <4>2, <4>4 DEF QValidate, A!EraseCount
      <4> QED
        BY <4>3, <4>4
    <3>2. CASE QUnprotectAll(t)
      <4>1. size' = [size EXCEPT ![t] = 0] /\ 0 \in 0 .. n
        BY <3>2 DEF QUnprotectAll, A!Clear
      <4> QED
        BY <4>1
    <3> QED
      BY <1>6, <3>1, <3>2
  <2>2. data' = data /\ stage'[t] \in {"none", "recover"} /\ obj'[t] = NULL
    <3>1. CASE QValidate(t)
      BY <1>1, <3>1 DEF QValidate, Stage
    <3>2. CASE QUnprotectAll(t)
      BY <1>1, <3>2 DEF QUnprotectAll, Announcing
    <3> QED
      BY <1>6, <3>1, <3>2
  <2>3. size'[t] = m
    BY <1>1, <2>1
  <2>4. \A j \in 0 .. m - 1 : j \in 0 .. n - 1
    OBVIOUS
  <2>5. Announcing(t)'
    <3>1. data'[t] = E
      BY <2>2
    <3> QED
      BY ONLY <1>3, <2>2, <2>3, <2>4, <3>1 DEF Announcing
  <2>6. size' \in [Threads -> 0 .. MAX_PROTECT]
    <3>1. m \in 0 .. MAX_PROTECT
      OBVIOUS
    <3> QED
      BY ONLY <1>1, <2>1, <3>1
  <2> QED
    BY <2>2, <2>3, <2>5, <2>6
<1>7. CASE \E o \in Objects : QProtect(t, o)
  BY <1>1, <1>4, <1>7
<1>8. CASE QCount(t)
  <2>1. size'[t] = n + 1 /\ data' = data /\ data[t][n] = obj[t] /\ obj[t] \in Reachable(t)
    BY <1>5, <1>8
  <2>2. \A j \in 0 .. n + 1 - 1 : j < n \/ j = n
    OBVIOUS
  <2>3. \A j \in 0 .. size'[t] - 1 : j < size[t] \/ (data'[t][j] = obj[t] /\ obj[t] \in Reachable(t))
    BY ONLY <2>1, <2>2, n = size[t]
  <2> QED
    BY ONLY <1>1, <1>5, <1>8, <2>1, <2>3
<1>9. CASE QValidate(t) \/ QUnprotectAll(t)
  <2>1. size'[t] \in 0 .. MAX_PROTECT /\ size'[t] <= n /\ data' = data
    BY <1>6, <1>9
  <2>2. \A j \in 0 .. size'[t] - 1 : j < size[t]
    BY ONLY <2>1, n = size[t], n \in 0 .. MAX_PROTECT, MAX_PROTECT \in Nat
  <2> QED
    BY ONLY <1>1, <1>6, <1>9, <2>1, <2>2
<1> QED
  BY <1>7, <1>8, <1>9 DEF ProtectStep

-----------------------------------------------------------------------------
\* The collecting loop

\* A loop that does not move, over lists in which entries stay entries.
LEMMA CollectingSame ==
  ASSUME PlusInv, NEW v \in Threads, at'[v] = at[v], stage'[v] # "hash" => at[v] = A!FirstPlace,
         \A t \in Threads, j \in 0 .. MAX_PROTECT - 1 : data[t][j] \in Objects => data'[t][j] \in Objects
  PROVE  Collecting(v)'
<1> PICK p \in [other : 0 .. NumProcesses, sz : {-1} \cup 1 .. MAX_PROTECT, ix : 0 .. MAX_PROTECT - 1] :
      p = at[v]
  BY ProtocolTypes DEF PlusInv
<1>1. Collecting(v)
  BY DEF PlusInv
<1>2. ASSUME p.sz # A!Unread, NEW j \in 0 .. p.sz - 1 PROVE data'[p.other][j] \in Objects
  <2>1. p.other < NumProcesses /\ p.sz <= MAX_PROTECT /\ data[p.other][j] \in Objects
    BY <1>1, <1>2 DEF Collecting
  <2>2. p.other \in Threads /\ j \in 0 .. MAX_PROTECT - 1
    BY <2>1, ProcessesAssumption, ProtectAssumption DEF Threads
  <2> QED
    BY <2>1, <2>2
<1> QED
  BY <1>1, <1>2 DEF Collecting

LEMMA PlusPlaceIs ==
  ASSUME NEW a \in 0 .. NumProcesses, NEW n \in 0 .. MAX_PROTECT, NEW i \in Nat, a < NumProcesses
  PROVE  \E q \in [other : 0 .. NumProcesses, sz : {-1} \cup 1 .. MAX_PROTECT, ix : 0 .. MAX_PROTECT - 1] :
           /\ q = A!PlaceAt(a, n, i)
           /\ i < n => q.other = a /\ q.sz = n /\ q.ix = i
           /\ ~(i < n) => q.other = a + 1 /\ q.sz = A!Unread /\ q.ix = 0
<1> USE ProcessesAssumption, ProtectAssumption
<1>1. CASE i < n
  <2>1. A!PlaceAt(a, n, i) = [other |-> a, sz |-> n, ix |-> i]
    BY <1>1 DEF A!PlaceAt
  <2>2. n \in 1 .. MAX_PROTECT /\ i \in 0 .. MAX_PROTECT - 1
    BY <1>1
  <2> QED
    BY <1>1, <2>1, <2>2
<1>2. CASE ~(i < n)
  <2>1. A!PlaceAt(a, n, i) = [other |-> a + 1, sz |-> A!Unread, ix |-> 0]
    BY <1>2 DEF A!PlaceAt, A!FirstPlace
  <2>2. a + 1 \in 0 .. NumProcesses /\ 0 \in 0 .. MAX_PROTECT - 1 /\ A!Unread = -1
    BY DEF A!Unread
  <2> QED
    BY <1>2, <2>1, <2>2
<1> QED
  BY <1>1, <1>2

\* One read of the loop.
LEMMA HashIs ==
  ASSUME PlusInv, NEW t \in Threads, Hash(t)
  PROVE  \E a \in Threads, n \in 0 .. MAX_PROTECT, i \in Nat :
           /\ at[t].other = a
           /\ at' = [at EXCEPT ![t] = A!PlaceAt(a, n, i)]
           /\ \/ at[t].sz = A!Unread /\ n = size[a] /\ i = 0 /\ comparing' = comparing
              \/ /\ at[t].sz = n /\ n # A!Unread /\ i = at[t].ix + 1 /\ at[t].ix \in 0 .. n - 1
                 /\ comparing' = [comparing EXCEPT ![t] = @ \cup {data[a][at[t].ix]}]
           /\ at[t].sz # A!Unread => \A j \in 0 .. at[t].sz - 1 : data[a][j] \in Objects
<1> USE ProcessesAssumption, ProtectAssumption
<1> PICK p \in [other : 0 .. NumProcesses, sz : {-1} \cup 1 .. MAX_PROTECT, ix : 0 .. MAX_PROTECT - 1] :
      p = at[t]
  BY ProtocolTypes DEF PlusInv
<1>1. Collecting(t)
  BY DEF PlusInv
<1>2. p.other \in Threads /\ ~A!Hashed(t)
  BY DEF Hash, A!Collect, A!ReadSize, A!ReadSlot, A!Hashed, Threads
<1>3. p.sz # A!Unread => p.ix < p.sz /\ \A j \in 0 .. p.sz - 1 : data[p.other][j] \in Objects
  BY <1>1 DEF Collecting
<1>4. at \in [Threads -> [other : 0 .. NumProcesses, sz : {-1} \cup 1 .. MAX_PROTECT, ix : 0 .. MAX_PROTECT - 1]]
      /\ size[p.other] \in 0 .. MAX_PROTECT
  BY <1>2, ProtocolTypes DEF PlusInv
<1>5. CASE A!ReadSize(t)
  <2>1. /\ p.sz = A!Unread /\ at' = [at EXCEPT ![t] = A!PlaceAt(p.other, size[p.other], 0)]
        /\ comparing' = comparing
    BY <1>4, <1>5 DEF A!ReadSize
  <2>2. 0 \in Nat
    OBVIOUS
  <2> QED
    BY <1>2, <1>3, <1>4, <2>1, <2>2
<1>6. CASE A!ReadSlot(t)
  <2>1. /\ p.sz # A!Unread /\ at' = [at EXCEPT ![t] = A!PlaceAt(p.other, p.sz, p.ix + 1)]
        /\ comparing' = [comparing EXCEPT ![t] = @ \cup {data[p.other][p.ix]}]
    BY <1>4, <1>6 DEF A!ReadSlot
  <2>2. p.sz \in 0 .. MAX_PROTECT /\ p.ix + 1 \in Nat /\ p.ix \in 0 .. p.sz - 1
    BY <1>3, <2>1 DEF A!Unread
  <2> QED
    BY <1>2, <1>3, <2>1, <2>2
<1> QED
  BY <1>5, <1>6 DEF Hash, A!Collect

LEMMA HashKeeps ==
  ASSUME PlusInv, NEW t \in Threads, Hash(t)
  PROVE  /\ at' \in [Threads -> [other : 0 .. NumProcesses, sz : {-1} \cup 1 .. MAX_PROTECT,
                                 ix : 0 .. MAX_PROTECT - 1]]
         /\ comparing' \in [Threads -> SUBSET Objects]
         /\ Collecting(t)'
<1> USE ProcessesAssumption, ProtectAssumption
<1> PICK a \in Threads, n \in 0 .. MAX_PROTECT, i \in Nat :
           /\ at[t].other = a
           /\ at' = [at EXCEPT ![t] = A!PlaceAt(a, n, i)]
           /\ \/ at[t].sz = A!Unread /\ n = size[a] /\ i = 0 /\ comparing' = comparing
              \/ /\ at[t].sz = n /\ n # A!Unread /\ i = at[t].ix + 1 /\ at[t].ix \in 0 .. n - 1
                 /\ comparing' = [comparing EXCEPT ![t] = @ \cup {data[a][at[t].ix]}]
           /\ at[t].sz # A!Unread => \A j \in 0 .. at[t].sz - 1 : data[a][j] \in Objects
  BY HashIs
<1>1. a \in 0 .. NumProcesses /\ a < NumProcesses
  BY DEF Threads
<1> PICK q \in [other : 0 .. NumProcesses, sz : {-1} \cup 1 .. MAX_PROTECT, ix : 0 .. MAX_PROTECT - 1] :
      /\ q = A!PlaceAt(a, n, i)
      /\ i < n => q.other = a /\ q.sz = n /\ q.ix = i
      /\ ~(i < n) => q.other = a + 1 /\ q.sz = A!Unread /\ q.ix = 0
  BY ONLY <1>1, PlusPlaceIs, n \in 0 .. MAX_PROTECT, i \in Nat
<1>2. /\ at \in [Threads -> [other : 0 .. NumProcesses, sz : {-1} \cup 1 .. MAX_PROTECT,
                             ix : 0 .. MAX_PROTECT - 1]]
      /\ comparing \in [Threads -> SUBSET Objects]
  BY ProtocolTypes DEF PlusInv
<1>3. at'[t] = q /\ at' \in [Threads -> [other : 0 .. NumProcesses, sz : {-1} \cup 1 .. MAX_PROTECT,
                                         ix : 0 .. MAX_PROTECT - 1]]
  BY <1>2
<1>4. comparing' \in [Threads -> SUBSET Objects]
  <2>1. at[t].sz = n /\ n # A!Unread /\ at[t].ix \in 0 .. n - 1 => data[a][at[t].ix] \in Objects
    OBVIOUS
  <2> QED
    BY <1>2, <2>1
<1>5. data' = data /\ stage'[t] = "hash"
  BY HashFrame
<1>6. ASSUME i < n PROVE \A j \in 0 .. n - 1 : data[a][j] \in Objects
  <2>1. CASE n = size[a]
    BY <2>1 DEF PlusInv, Announcing
  <2>2. CASE at[t].sz = n /\ n # A!Unread
    BY <2>2
  <2> QED
    BY <2>1, <2>2
<1>7. CASE i < n
  <2>1. n # A!Unread
    BY DEF A!Unread
  <2> QED
    BY <1>1, <1>3, <1>4, <1>5, <1>6, <1>7, <2>1 DEF Collecting
<1>8. CASE ~(i < n)
  BY <1>3, <1>4, <1>5, <1>8 DEF Collecting
<1> QED
  BY <1>7, <1>8

LEMMA HashFinds ==
  ASSUME PlusInv, NEW u \in Threads, Hash(u), NEW t \in Threads
  PROVE  Found(u, t)'
<1> USE ProcessesAssumption, ProtectAssumption
<1> PICK a \in Threads, n \in 0 .. MAX_PROTECT, i \in Nat :
           /\ at[u].other = a
           /\ at' = [at EXCEPT ![u] = A!PlaceAt(a, n, i)]
           /\ \/ at[u].sz = A!Unread /\ n = size[a] /\ i = 0 /\ comparing' = comparing
              \/ /\ at[u].sz = n /\ n # A!Unread /\ i = at[u].ix + 1 /\ at[u].ix \in 0 .. n - 1
                 /\ comparing' = [comparing EXCEPT ![u] = @ \cup {data[a][at[u].ix]}]
  BY HashIs
<1>1. a \in 0 .. NumProcesses /\ a < NumProcesses
  BY DEF Threads
<1> PICK q \in [other : 0 .. NumProcesses, sz : {-1} \cup 1 .. MAX_PROTECT, ix : 0 .. MAX_PROTECT - 1] :
      /\ q = A!PlaceAt(a, n, i)
      /\ i < n => q.other = a /\ q.sz = n /\ q.ix = i
      /\ ~(i < n) => q.other = a + 1 /\ q.sz = A!Unread /\ q.ix = 0
  BY ONLY <1>1, PlusPlaceIs, n \in 0 .. MAX_PROTECT, i \in Nat
<1>2. at'[u] = q
  BY ProtocolTypes DEF PlusInv
<1>3. comparing[u] \subseteq comparing'[u]
  BY SMTT(30), ProtocolTypes DEF PlusInv
<1>4. UNCHANGED <<vars, data, size>> /\ stage[u] = "hash"
  BY HashFrame DEF Hash
<1>5. Freeable(u)' = Freeable(u) /\ A!Announced(t)' = A!Announced(t)
  BY <1>4 DEF Freeable, NextIndex, A!Announced, vars, private
<1>6. ASSUME NEW o \in Freeable(u), o \in A!Announced(t) PROVE o \in comparing'[u] \/ StillToRead(u, t, o)'
  <2>1. o \in comparing[u] \/ StillToRead(u, t, o)
    BY <1>4, <1>6 DEF PlusInv, Found
  <2>2. CASE a < t
    <3>1. q.other < t \/ (q.other = t /\ q.sz = A!Unread)
      BY <2>2 DEF Threads
    <3> QED
      BY <1>2, <3>1 DEF StillToRead
  <2>3. CASE a = t /\ at[u].sz = A!Unread /\ n = size[t] /\ i = 0
    <3>1. PICK j \in 0 .. n - 1 : data[t][j] = o
      BY <1>6, <2>3, AnnouncedHas
    <3>2. q.other = t /\ q.sz = n /\ q.ix = 0
      BY <2>3, <3>1
    <3> QED
      BY <1>2, <1>4, <2>3, <3>1, <3>2 DEF StillToRead
  <2>4. CASE /\ a = t /\ at[u].sz = n /\ n # A!Unread /\ i = at[u].ix + 1 /\ at[u].ix \in 0 .. n - 1
             /\ comparing' = [comparing EXCEPT ![u] = @ \cup {data[a][at[u].ix]}]
             /\ o \notin comparing[u]
    <3>1. PICK j \in at[u].ix .. n - 1 : data[t][j] = o /\ j < size[t]
      BY <2>1, <2>4 DEF StillToRead, Threads
    <3>2. CASE j = at[u].ix
      <4>1. o \in comparing'[u]
        BY <2>4, <3>1, <3>2, ProtocolTypes DEF PlusInv
      <4> QED
        BY <4>1
    <3>3. CASE j # at[u].ix
      <4>1. j \in i .. n - 1 /\ i < n
        BY <2>4, <3>3
      <4>2. q.other = t /\ q.sz = n /\ q.ix = i
        BY <2>4, <4>1
      <4> QED
        BY <1>2, <1>4, <3>1, <4>1, <4>2 DEF StillToRead
    <3> QED
      BY <3>2, <3>3
  <2>5. CASE o \in comparing[u]
    BY <1>3, <2>5
  <2>6. o \in comparing[u] \/ a < t \/ a = t
    BY <2>1 DEF StillToRead
  <2> QED
    BY <2>2, <2>3, <2>4, <2>5, <2>6
<1> QED
  BY <1>5, <1>6 DEF Found

-----------------------------------------------------------------------------
\* What a collecting thread finds

\* The loop of u, its bag and the announcements of t stay as they are.
LEMMA FoundSame ==
  ASSUME NEW u \in Threads, NEW t \in Threads, Found(u, t),
         stage'[u] = "hash" => /\ stage[u] = "hash" /\ Freeable(u)' = Freeable(u)
                              /\ at'[u] = at[u] /\ comparing'[u] = comparing[u],
         data'[t] = data[t], size'[t] = size[t]
  PROVE  Found(u, t)'
<1> SUFFICES ASSUME stage'[u] = "hash" PROVE Found(u, t)'
  BY DEF Found
<1>1. A!Announced(t)' = A!Announced(t)
  BY DEF A!Announced
<1>2. Freeable(u)' = Freeable(u) /\ stage[u] = "hash"
  OBVIOUS
<1>3. \A o : StillToRead(u, t, o)' <=> StillToRead(u, t, o)
  BY DEF StillToRead
<1> QED
  BY <1>1, <1>2, <1>3 DEF Found

LEMMA ProtocolFound ==
  ASSUME PlusInv, NEW w \in Threads, ProtocolStep(w), NEW u \in Threads, NEW t \in Threads
  PROVE  Found(u, t)'
<1>1. /\ UNCHANGED <<data, size, comparing, at>> /\ (stage'[u] = "hash" <=> stage[u] = "hash")
      /\ pc[u] = "rotate" => pc'[u] = "rotate"
  BY ProtocolFrame
<1>2. Found(u, t) /\ SignalState(u) /\ IInv /\ TypeOK
  BY DEF PlusInv, IInv
<1>3. ASSUME stage[u] = "hash" PROVE Freeable(u)' = Freeable(u)
  <2>1. pc[u] = "rotate" /\ pc'[u] = "rotate"
    BY <1>1, <1>2, <1>3 DEF SignalState
  <2>2. ~Rotation(u)
    BY <1>2, <2>1 DEF Rotation, RotateKeeping, Goto, TypeOK
  <2>3. Move \/ UNCHANGED vars
    BY ProtocolStepIsMove
  <2>4. CASE Move
    BY ONLY <1>2, <2>1, <2>2, <2>4, u \in Threads, FreeableStays
  <2>5. CASE UNCHANGED vars
    BY <2>5 DEF Freeable, NextIndex, vars, private
  <2> QED
    BY <2>3, <2>4, <2>5
<1> QED
  BY <1>1, <1>2, <1>3, FoundSame

LEMMA RotateFound ==
  ASSUME PlusInv, NEW w \in Threads, RotateSmall(w) \/ RotateLarge(w), NEW u \in Threads, NEW t \in Threads
  PROVE  Found(u, t)'
<1>1. /\ UNCHANGED <<data, size>> /\ stage'[w] = "none"
      /\ u # w => stage'[u] = stage[u] /\ comparing'[u] = comparing[u] /\ at'[u] = at[u]
  BY RotateFrame
<1>2. Found(u, t)
  BY DEF PlusInv
<1>3. ASSUME u # w PROVE Freeable(u)' = Freeable(u)
  <2>1. PICK kept \in SUBSET Freeable(w) : RotateTo(w, kept)
    BY RotateIs
  <2>2. index'[u] = index[u] /\ epochbags'[u] = epochbags[u]
    BY <1>3, <2>1 DEF RotateTo, PlusInv, IInv, TypeOK
  <2> QED
    BY <2>2 DEF Freeable, NextIndex
<1> QED
  BY <1>1, <1>2, <1>3, FoundSame

LEMMA HashFound ==
  ASSUME PlusInv, NEW w \in Threads, StartHash(w) \/ Hash(w), NEW u \in Threads, NEW t \in Threads
  PROVE  Found(u, t)'
<1>1. /\ UNCHANGED <<vars, data, size>>
      /\ u # w => stage'[u] = stage[u] /\ comparing'[u] = comparing[u] /\ at'[u] = at[u]
  BY HashFrame
<1>2. Found(u, t) /\ Freeable(u)' = Freeable(u)
  BY <1>1 DEF PlusInv, Freeable, NextIndex, vars, private
<1>3. CASE u # w
  BY <1>1, <1>2, <1>3, FoundSame
<1>4. CASE u = w /\ Hash(w)
  BY <1>4, HashFinds
<1>5. CASE u = w /\ StartHash(w)
  <2>1. at'[u] = A!FirstPlace
    BY <1>5 DEF StartHash, Stage, PlusInv, Collecting
  <2>2. \A o : StillToRead(u, t, o)'
    <3>1. 0 < t \/ 0 = t
      BY ProcessesAssumption DEF Threads
    <3> QED
      BY <2>1, <3>1 DEF StillToRead, A!FirstPlace
  <2> QED
    BY <2>2 DEF Found
<1> QED
  BY <1>3, <1>4, <1>5

LEMMA ProtectFound ==
  ASSUME PlusInv, NEW w \in Threads, ProtectStep(w), NEW u \in Threads, NEW t \in Threads
  PROVE  Found(u, t)'
<1>1. /\ UNCHANGED <<vars, comparing, at>> /\ (stage'[u] = "hash" <=> stage[u] = "hash")
      /\ t # w => data'[t] = data[t] /\ size'[t] = size[t]
  <2>1. /\ UNCHANGED <<vars, comparing, at>> /\ stage[w] # "hash" /\ stage'[w] # "hash"
        /\ u # w => stage'[u] = stage[u]
        /\ t # w => data'[t] = data[t] /\ size'[t] = size[t]
    BY ProtectFrame
  <2> QED
    BY ONLY <2>1
<1>2. Found(u, t) /\ Freeable(u)' = Freeable(u)
  BY <1>1 DEF PlusInv, Freeable, NextIndex, vars, private
<1>3. CASE t # w
  BY <1>1, <1>2, <1>3, FoundSame
<1>4. CASE t = w
  <2>1. /\ Announcing(t) /\ Announcing(t)' /\ size[t] \in 0 .. MAX_PROTECT /\ size'[t] \in 0 .. MAX_PROTECT
        /\ \A j \in 0 .. size[t] - 1 : data'[t][j] = data[t][j]
        /\ \A j \in 0 .. size'[t] - 1 :
             \/ j < size[t] \/ (data'[t][j] = obj[t] /\ obj[t] \in Reachable(t))
    <3>1. Announcing(t) /\ size[t] \in 0 .. MAX_PROTECT
      BY ProtocolTypes DEF PlusInv
    <3>2. /\ Announcing(t)' /\ size' \in [Threads -> 0 .. MAX_PROTECT]
          /\ \A j \in 0 .. size[t] - 1 : data'[t][j] = data[t][j]
          /\ \A j \in 0 .. size'[t] - 1 :
               \/ j < size[t] \/ (data'[t][j] = obj[t] /\ obj[t] \in Reachable(t))
      BY <1>4, ProtectAnnouncing
    <3> QED
      BY ONLY <3>1, <3>2, t \in Threads
  <2>2. ASSUME stage[u] = "hash", NEW o \in Freeable(u), o \in A!Announced(t)'
        PROVE  o \in comparing[u] \/ StillToRead(u, t, o)'
    <3>1. PICK j \in 0 .. size'[t] - 1 : data'[t][j] = o
      BY <2>1, <2>2, AnnouncedHasNext
    <3>2. o \notin Reachable(t)
      <4>1. pc[u] = "rotate"
        BY <2>2 DEF PlusInv, SignalState
      <4>2. NextIndex(u) \in Bags /\ o \in Objects
        BY <2>2, BagTurns DEF NextIndex, PlusInv, IInv, TypeOK, Freeable
      <4>3. waits[o] = {}
        BY <2>2, <4>1, <4>2, SafeToFree DEF PlusInv, Freeable
      <4>4. o \notin live
        BY <2>2, <4>2 DEF PlusInv, IInv, OneBag, Freeable
      <4> QED
        BY <4>3, <4>4 DEF Reachable
    <3>3. j < size[t] /\ j \in 0 .. size[t] - 1 /\ data[t][j] = o
      BY <2>1, <3>1, <3>2
    <3>4. o \in A!Announced(t)
      BY <2>1, <3>3, AnnouncedHas
    <3>5. o \in comparing[u] \/ StillToRead(u, t, o)
      BY <1>2, <2>2, <3>4 DEF Found
    <3>6. CASE at[u].other < t \/ (at[u].other = t /\ at[u].sz = A!Unread)
      BY <1>1, <3>6 DEF StillToRead
    <3>7. ASSUME at[u].other = t, NEW k \in at[u].ix .. at[u].sz - 1, data[t][k] = o, k < size[t]
          PROVE  StillToRead(u, t, o)'
      <4>1. k \in 0 .. size[t] - 1
        BY SMTT(30), <2>1, <3>7, ProtocolTypes, ProtectAssumption DEF PlusInv
      <4>2. k = j
        BY <2>1, <3>3, <3>7, <4>1 DEF Announcing
      <4>3. data'[t][k] = o /\ k < size'[t]
        BY <2>1, <3>1, <4>2
      <4>4. at'[u] = at[u]
        BY <1>1
      <4> QED
        BY ONLY <3>7, <4>3, <4>4 DEF StillToRead
    <3> QED
      BY <3>5, <3>6, <3>7 DEF StillToRead
  <2> QED
    BY <1>1, <1>2, <2>2 DEF Found
<1> QED
  BY <1>3, <1>4

-----------------------------------------------------------------------------
\* What is announced is kept

LEMMA ProtocolKeepsAnnounced ==
  ASSUME PlusInv, NEW w \in Threads, ProtocolStep(w)
  PROVE  AnnouncedKept'
<1> SUFFICES ASSUME NEW t \in Threads, NEW o \in A!Announced(t)' PROVE o \in live' \cup Retired'
  BY DEF AnnouncedKept
<1>1. data' = data /\ size' = size /\ \A u \in Threads : pc[u] = "rotate" => pc'[u] = "rotate"
  BY ProtocolFrame
<1>2. o \in live \cup Retired
  BY <1>1 DEF PlusInv, AnnouncedKept, A!Announced
<1>3. \A u \in Threads : ~Rotation(u)
  BY <1>1 DEF Rotation, RotateKeeping, Goto, PlusInv, IInv, TypeOK
<1>4. IInv
  BY DEF PlusInv
<1>5. CASE Move
  BY ONLY <1>2, <1>3, <1>4, <1>5, StaysAllocated
<1>6. CASE UNCHANGED vars
  BY <1>2, <1>6 DEF vars, private, Retired
<1> QED
  BY <1>5, <1>6, ProtocolStepIsMove

LEMMA RotateKeepsAnnounced ==
  ASSUME PlusInv, NEW w \in Threads, RotateSmall(w) \/ RotateLarge(w)
  PROVE  AnnouncedKept'
<1> SUFFICES ASSUME NEW t \in Threads, NEW o \in A!Announced(t)' PROVE o \in live' \cup Retired'
  BY DEF AnnouncedKept
<1>1. data' = data /\ size' = size /\ \A u \in Threads \ {w} : pc'[u] = pc[u]
  BY RotateFrame
<1>2. o \in A!Announced(t) /\ o \in live \cup Retired
  BY <1>1 DEF PlusInv, AnnouncedKept, A!Announced
<1>3. IInv /\ Move
  BY RotateIs DEF PlusInv, Move, LeaveMove
<1>4. ASSUME NEW u \in Threads, Rotation(u), o \in Freeable(u), o \notin epochbags'[u][NextIndex(u)]
      PROVE  FALSE
  <2>1. u = w
    BY <1>1, <1>4 DEF Rotation, RotateKeeping, Goto, PlusInv, IInv, TypeOK
  <2>2. PICK kept \in SUBSET Freeable(w) :
          /\ RotateTo(w, kept)
          /\ \A x \in Freeable(w) \ kept : RotateLarge(w) /\ x \notin comparing[w]
    BY RotateIs
  <2>3. epochbags'[w][NextIndex(w)] = kept
    <3>1. NextIndex(w) \in Bags
      BY BagTurns DEF NextIndex, PlusInv, IInv, TypeOK
    <3> QED
      BY <2>2, <3>1 DEF RotateTo, PlusInv, IInv, TypeOK
  <2>4. RotateLarge(w) /\ o \notin comparing[w]
    BY <1>4, <2>1, <2>2, <2>3
  <2>5. stage[w] = "hash" /\ at[w].other = NumProcesses
    BY <2>4 DEF RotateLarge, Stage, A!Hashed
  <2>6. StillToRead(w, t, o)
    BY <1>2, <1>4, <2>1, <2>4, <2>5 DEF PlusInv, Found
  <2> QED
    BY <2>5, <2>6, ProcessesAssumption DEF StillToRead, Threads
<1> QED
  BY ONLY <1>2, <1>3, <1>4, StaysAllocated

LEMMA ProtectKeepsAnnounced ==
  ASSUME PlusInv, NEW w \in Threads, ProtectStep(w)
  PROVE  AnnouncedKept'
<1> SUFFICES ASSUME NEW t \in Threads, NEW o \in A!Announced(t)' PROVE o \in live' \cup Retired'
  BY DEF AnnouncedKept
<1>1. live' = live /\ Retired' = Retired
  BY ProtectFrame DEF vars, private, Retired
<1>2. A!Announced(t) \subseteq live \cup Retired
  BY DEF PlusInv, AnnouncedKept
<1>3. CASE t # w
  <2>1. data'[t] = data[t] /\ size'[t] = size[t]
    BY <1>3, ProtectFrame
  <2> QED
    BY <1>1, <1>2, <2>1 DEF A!Announced
<1>4. CASE t = w
  <2>1. /\ size' \in [Threads -> 0 .. MAX_PROTECT]
        /\ \A j \in 0 .. size[t] - 1 : data'[t][j] = data[t][j]
        /\ \A j \in 0 .. size'[t] - 1 :
             \/ j < size[t] \/ (data'[t][j] = obj[t] /\ obj[t] \in Reachable(t))
    BY <1>4, ProtectAnnouncing
  <2>2. size[t] \in 0 .. MAX_PROTECT /\ size'[t] \in 0 .. MAX_PROTECT
    BY <2>1, ProtocolTypes DEF PlusInv
  <2>3. PICK j \in 0 .. size'[t] - 1 : data'[t][j] = o
    BY <2>2, AnnouncedHasNext
  <2>4. CASE j < size[t]
    <3>1. j \in 0 .. size[t] - 1 /\ data[t][j] = o
      BY <2>1, <2>2, <2>3, <2>4
    <3> QED
      BY <1>1, <1>2, <2>2, <3>1, AnnouncedHas
  <2>5. CASE o \in Reachable(t)
    BY <1>1, <2>5 DEF Reachable
  <2> QED
    BY <2>1, <2>3, <2>4, <2>5
<1> QED
  BY <1>3, <1>4

LEMMA HashKeepsAnnounced ==
  ASSUME PlusInv, NEW w \in Threads, StartHash(w) \/ Hash(w)
  PROVE  AnnouncedKept'
<1>1. UNCHANGED <<vars, data, size>>
  BY HashFrame
<1> QED
  BY <1>1 DEF PlusInv, AnnouncedKept, A!Announced, vars, private, Retired

-----------------------------------------------------------------------------
\* The invariant

LEMMA PlusTypesNext ==
  ASSUME data' \in [Threads -> [0 .. MAX_PROTECT - 1 -> Objects \cup {NULL}]],
         size' \in [Threads -> 0 .. MAX_PROTECT],
         comparing' \in [Threads -> SUBSET Objects],
         at' \in [Threads -> [other : 0 .. NumProcesses, sz : {-1} \cup 1 .. MAX_PROTECT,
                             ix : 0 .. MAX_PROTECT - 1]],
         stage' \in [Threads -> Stages],
         obj' \in [Threads -> Objects \cup {NULL}],
         blocked' \in [Threads -> BOOLEAN]
  PROVE  PlusTypeOK'
BY DEF PlusTypeOK, A!AnnouncementsTypeOK, A!Threads, Threads, A!Slots, A!Places, A!Unread

LEMMA PlusInvInit == PlusInit => PlusInv
<1> USE ProcessesAssumption, ProtectAssumption
<1> SUFFICES ASSUME PlusInit PROVE PlusInv
  OBVIOUS
<1>1. /\ Init /\ stage = [t \in Threads |-> "none"] /\ blocked = [t \in Threads |-> FALSE]
      /\ obj = [t \in Threads |-> NULL]
      /\ data = [t \in Threads |-> [i \in 0 .. MAX_PROTECT - 1 |-> NULL]]
      /\ size = [t \in Threads |-> 0] /\ comparing = [t \in Threads |-> {}]
      /\ at = [t \in Threads |-> A!FirstPlace]
  BY DEF PlusInit, RecoveryInit, A!AnnouncementsInit, A!Threads, Threads, A!Slots
<1>2. PlusTypeOK
  <2>1. A!FirstPlace \in A!Places
    BY DEF A!FirstPlace, A!Places, A!Unread, A!Slots
  <2> QED
    BY <1>1, <2>1 DEF PlusTypeOK, A!AnnouncementsTypeOK, A!Threads, Threads, A!Slots, Stages
<1>3. ASSUME NEW t \in Threads PROVE SignalState(t) /\ Announcing(t) /\ Collecting(t)
  <2>1. SignalState(t)
    BY <1>1 DEF SignalState, Init
  <2>2. Announcing(t)
    BY <1>1 DEF Announcing
  <2>3. Collecting(t)
    BY <1>1 DEF Collecting, A!FirstPlace
  <2> QED
    BY <2>1, <2>2, <2>3
<1>4. \A u, t \in Threads : Found(u, t)
  BY <1>1 DEF Found
<1>5. AnnouncedKept
  BY <1>1 DEF AnnouncedKept, A!Announced, A!Slots
<1> QED
  BY <1>1, <1>2, <1>3, <1>4, <1>5, IInvInit DEF PlusInv

LEMMA IInvPlusNext ==
  ASSUME PlusInv, PlusNext
  PROVE  IInv'
<1>1. IInv /\ [Move]_vars
  BY PlusNextIsMove DEF PlusInv
<1> QED
  BY ONLY <1>1, IInvNext

LEMMA ProtocolInvariant ==
  ASSUME PlusInv, NEW w \in Threads, ProtocolStep(w), IInv'
  PROVE  PlusInv'
<1>1. PlusTypeOK'
  BY ProtocolFrame, ProtocolTypes, PlusTypesNext DEF PlusInv
<1>2. UNCHANGED <<data, at>> /\ \A v \in Threads : SignalState(v)' /\ (stage'[v] = "hash" <=> stage[v] = "hash")
  BY ProtocolFrame
<1>3. ASSUME NEW v \in Threads PROVE Collecting(v)'
  <2>1. stage'[v] # "hash" => at[v] = A!FirstPlace
    BY <1>2 DEF PlusInv, Collecting
  <2> QED
    BY <1>2, <2>1, CollectingSame
<1> QED
  BY <1>1, <1>2, <1>3, ProtocolAnnouncing, ProtocolFound, ProtocolKeepsAnnounced DEF PlusInv

LEMMA RotateInvariant ==
  ASSUME PlusInv, NEW w \in Threads, RotateSmall(w) \/ RotateLarge(w), IInv'
  PROVE  PlusInv'
<1>1. /\ at \in [Threads -> [other : 0 .. NumProcesses, sz : {-1} \cup 1 .. MAX_PROTECT,
                             ix : 0 .. MAX_PROTECT - 1]]
      /\ A!FirstPlace \in [other : 0 .. NumProcesses, sz : {-1} \cup 1 .. MAX_PROTECT,
                            ix : 0 .. MAX_PROTECT - 1]
  BY ProtocolTypes, ProcessesAssumption, ProtectAssumption DEF PlusInv, A!FirstPlace, A!Unread
<1>2. PlusTypeOK'
  <2>1. at' \in [Threads -> [other : 0 .. NumProcesses, sz : {-1} \cup 1 .. MAX_PROTECT,
                            ix : 0 .. MAX_PROTECT - 1]]
    BY <1>1, RotateFrame
  <2> QED
    BY <2>1, RotateFrame, ProtocolTypes, PlusTypesNext DEF PlusInv
<1>3. UNCHANGED data /\ \A v \in Threads : SignalState(v)'
  BY RotateFrame
<1>4. ASSUME NEW v \in Threads PROVE Collecting(v)'
  <2>1. CASE at'[v] = at[v]
    <3>1. stage'[v] # "hash" => at[v] = A!FirstPlace
      <4>1. CASE v # w
        BY <4>1, RotateFrame DEF PlusInv, Collecting
      <4>2. CASE v = w /\ RotateLarge(w)
        BY <2>1, <4>2, RotateFrame
      <4>3. CASE v = w /\ RotateSmall(w)
        BY <4>3 DEF RotateSmall, PlusInv, Collecting
      <4> QED
        BY <4>1, <4>2, <4>3
    <3> QED
      BY <1>3, <2>1, <3>1, CollectingSame
  <2>2. CASE at'[v] # at[v]
    <3>1. at'[v] = A!FirstPlace
      BY <1>1, <2>2, RotateFrame
    <3> QED
      BY <3>1 DEF Collecting, A!FirstPlace
  <2> QED
    BY <2>1, <2>2
<1> QED
  BY <1>2, <1>3, <1>4, RotateAnnouncing, RotateFound, RotateKeepsAnnounced DEF PlusInv

LEMMA HashInvariant ==
  ASSUME PlusInv, NEW w \in Threads, StartHash(w) \/ Hash(w), IInv'
  PROVE  PlusInv'
<1>1. /\ UNCHANGED <<data, size, obj, blocked>> /\ stage' \in [Threads -> Stages]
      /\ \A v \in Threads : SignalState(v)'
      /\ \A v \in Threads \ {w} : stage'[v] = stage[v] /\ at'[v] = at[v]
      /\ stage'[w] = "hash"
  BY HashFrame
<1>2. /\ at' \in [Threads -> [other : 0 .. NumProcesses, sz : {-1} \cup 1 .. MAX_PROTECT,
                              ix : 0 .. MAX_PROTECT - 1]]
      /\ comparing' \in [Threads -> SUBSET Objects]
      /\ StartHash(w) => at' = at
  <2>1. CASE Hash(w)
    <3>1. ~StartHash(w)
      BY <2>1 DEF Hash, StartHash, Stage
    <3> QED
      BY <2>1, <3>1, HashKeeps
  <2>2. CASE StartHash(w)
    BY <2>2, ProtocolTypes DEF StartHash, A!ClearComparing, PlusInv
  <2> QED
    BY <2>1, <2>2
<1>3. PlusTypeOK'
  BY <1>1, <1>2, ProtocolTypes, PlusTypesNext DEF PlusInv
<1>4. ASSUME NEW v \in Threads PROVE Collecting(v)'
  <2>1. CASE v = w /\ Hash(w)
    BY <2>1, HashKeeps
  <2>2. CASE v # w \/ StartHash(w)
    <3>1. at'[v] = at[v]
      BY <1>1, <1>2, <2>2
    <3>2. stage'[v] # "hash" => at[v] = A!FirstPlace
      BY <1>1 DEF PlusInv, Collecting
    <3> QED
      BY <1>1, <3>1, <3>2, CollectingSame
  <2> QED
    BY <2>1, <2>2
<1> QED
  BY <1>1, <1>3, <1>4, HashAnnouncing, HashFound, HashKeepsAnnounced DEF PlusInv

LEMMA ProtectInvariant ==
  ASSUME PlusInv, NEW w \in Threads, ProtectStep(w), IInv'
  PROVE  PlusInv'
<1>1. /\ UNCHANGED <<vars, comparing, at, blocked>>
      /\ stage' \in [Threads -> Stages] /\ obj' \in [Threads -> Objects \cup {NULL}]
      /\ stage[w] # "hash"
      /\ \A v \in Threads : SignalState(v)'
      /\ \A v \in Threads \ {w} :
           stage'[v] = stage[v] /\ obj'[v] = obj[v] /\ data'[v] = data[v] /\ size'[v] = size[v]
  BY ProtectFrame
<1>2. /\ Announcing(w)'
      /\ data' \in [Threads -> [0 .. MAX_PROTECT - 1 -> Objects \cup {NULL}]]
      /\ size' \in [Threads -> 0 .. MAX_PROTECT]
      /\ \A j \in 0 .. MAX_PROTECT - 1 : data[w][j] \in Objects => data'[w][j] \in Objects
  BY ProtectAnnouncing
<1>3. PlusTypeOK'
  BY <1>1, <1>2, ProtocolTypes, PlusTypesNext DEF PlusInv
<1>4. ASSUME NEW v \in Threads PROVE Announcing(v)'
  <2>1. CASE v # w
    <3>1. Announcing(v) /\ Reachable(v)' = Reachable(v)
      BY <1>1 DEF PlusInv, Reachable, Retired, vars, private
    <3>2. stage'[v] = stage[v] /\ obj'[v] = obj[v] /\ data'[v] = data[v] /\ size'[v] = size[v]
      BY <1>1, <2>1
    <3>3. stage'[v] \in {"count", "validate"} => obj[v] \in Reachable(v)'
      BY ONLY <3>1, <3>2 DEF Announcing
    <3>4. stage'[v] \notin {"count", "validate"} => obj'[v] = NULL
      BY ONLY <3>1, <3>2 DEF Announcing
    <3> QED
      BY ONLY v \in Threads, <3>1, <3>2, <3>3, <3>4, AnnouncingSame
  <2>2. CASE v = w
    BY <1>2, <2>2
  <2> QED
    BY <2>1, <2>2
<1>5. \A t \in Threads, j \in 0 .. MAX_PROTECT - 1 : data[t][j] \in Objects => data'[t][j] \in Objects
  BY ONLY <1>1, <1>2
<1>6. ASSUME NEW v \in Threads PROVE Collecting(v)'
  <2>1. stage'[v] # "hash" => at[v] = A!FirstPlace
    <3>1. CASE v = w
      BY <1>1, <3>1 DEF PlusInv, Collecting
    <3>2. CASE v # w
      BY <1>1, <3>2 DEF PlusInv, Collecting
    <3> QED
      BY <3>1, <3>2
  <2> QED
    BY <1>1, <1>5, <2>1, CollectingSame
<1> QED
  BY <1>1, <1>3, <1>4, <1>6, ProtectFound, ProtectKeepsAnnounced DEF PlusInv

LEMMA PlusInvNext == PlusInv /\ [PlusNext]_plusAllVars => PlusInv'
<1> SUFFICES ASSUME PlusInv, [PlusNext]_plusAllVars PROVE PlusInv'
  OBVIOUS
<1>1. CASE PlusNext
  <2>1. IInv'
    BY <1>1, IInvPlusNext
  <2> QED
    BY <1>1, <2>1, PlusStepIs, ProtocolInvariant, RotateInvariant, HashInvariant, ProtectInvariant
<1>2. CASE UNCHANGED plusAllVars
  <2>1. UNCHANGED vars /\ UNCHANGED <<data, size, comparing, at, stage, obj, blocked>>
    BY <1>2 DEF plusAllVars, plusVars, announceVars
  <2>2. IInv'
    <3>1. IInv /\ [Move]_vars
      BY <2>1 DEF PlusInv
    <3> QED
      BY ONLY <3>1, IInvNext
  <2>3. PlusTypeOK'
    BY <2>1 DEF PlusInv, PlusTypeOK, A!AnnouncementsTypeOK
  <2>4. ASSUME NEW t \in Threads PROVE SignalState(t)' /\ Announcing(t)' /\ Collecting(t)'
    <3>1. SignalState(t) /\ Announcing(t) /\ Collecting(t)
      BY DEF PlusInv
    <3>2. SignalState(t)'
      BY <2>1, <3>1 DEF SignalState, vars, shared
    <3>3. Reachable(t)' = Reachable(t)
      BY <2>1 DEF Reachable, Retired, vars, private
    <3>4. Announcing(t)'
      BY <2>1, <3>1, <3>3 DEF Announcing
    <3>5. Collecting(t)'
      BY <2>1, <3>1 DEF Collecting
    <3> QED
      BY <3>2, <3>4, <3>5
  <2>5. ASSUME NEW u \in Threads, NEW t \in Threads PROVE Found(u, t)'
    <3>1. Found(u, t) /\ Freeable(u)' = Freeable(u)
      BY <2>1 DEF PlusInv, Freeable, NextIndex, vars, private
    <3> QED
      BY <2>1, <3>1, FoundSame
  <2>6. AnnouncedKept'
    BY <2>1 DEF PlusInv, AnnouncedKept, A!Announced, vars, private, Retired
  <2> QED
    BY <2>2, <2>3, <2>4, <2>5, <2>6 DEF PlusInv
<1> QED
  BY <1>1, <1>2

-----------------------------------------------------------------------------
\* Theorems

LEMMA PlusInvAlways == PlusSpec => []PlusInv
<1>1. PlusInit => PlusInv
  BY PlusInvInit
<1>2. PlusInv /\ [PlusNext]_plusAllVars => PlusInv'
  BY PlusInvNext
<1> QED
  BY <1>1, <1>2, PTL DEF PlusSpec

\* What a thread has announced with qProtect is not given to the pool before it
\* takes the announcement back, also when it is neutralized in the middle and
\* while others collect the announcements (reclaimer_debraplus.h:229-258), for
\* any number of threads and of objects, any block size and any threshold.
THEOREM AnnouncedIsKept == PlusSpec => []AnnouncedKept
<1>1. PlusInv => AnnouncedKept
  BY DEF PlusInv
<1> QED
  BY <1>1, PlusInvAlways, PTL

\* DEBRA+ uses its variables as declared: no thread announces more than its list
\* holds, and the collecting loop stays inside the lists.
THEOREM PlusTypeCorrect == PlusSpec => []PlusTypeOK
<1>1. PlusInv => PlusTypeOK
  BY DEF PlusInv
<1> QED
  BY <1>1, PlusInvAlways, PTL

\* The scan of DEBRA+ never looks at a thread that does not exist, although a
\* thread that is signalled counts as seen (reclaimer_debraplus.h:299-306).
THEOREM PlusCheckedIsInBounds == PlusSpec => []CheckedInBounds
<1>1. PlusInv => CheckedInBounds
  BY ProcessesAssumption DEF PlusInv, IInv, TypeOK, Scans, CheckedInBounds, Threads
<1> QED
  BY <1>1, PlusInvAlways, PTL

\* DEBRA+ frees no object that an operation running when it was retired could
\* still reach, although it does not wait for a thread that is stuck inside one:
\* the operations it ends with a signal no longer count
\* (reclaimer_debraplus.h:104-106).
THEOREM PlusImplementsGracePeriod == PlusSpec => GraceSpec
<1>1. PlusInit => Grace!GraceInit
  BY GraceInitIs DEF PlusInit
<1>2. PlusInv /\ [PlusNext]_plusAllVars => [Grace!GraceNext]_(Grace!graceVars)
  <2> SUFFICES ASSUME PlusInv, [PlusNext]_plusAllVars PROVE [Grace!GraceNext]_(Grace!graceVars)
    OBVIOUS
  <2>1. IInv /\ [Move]_vars
    BY PlusNextIsMove DEF PlusInv, plusAllVars
  <2>2. IInv'
    BY ONLY <2>1, IInvNext
  <2> QED
    BY ONLY <2>1, <2>2, GraceStepOrStutter
<1> QED
  BY <1>1, <1>2, PlusInvAlways, PTL DEF PlusSpec, GraceSpec, Grace!GraceSpec
=============================================================================
