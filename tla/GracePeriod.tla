---------------------------- MODULE GracePeriod ----------------------------
(***************************************************************************)
(* What an epoch based reclaimer promises its callers, whatever epochs and *)
(* bags it uses (reclaimer_interface.h, and the comments of                *)
(* reclaimer_debra.h:106-117): a retired object is freed only when every   *)
(* operation that was running when it was retired is over.                 *)
(***************************************************************************)
EXTENDS FiniteSets

CONSTANTS Threads, Objects

VARIABLES active,   \* the threads between leaveQuiescentState and enterQuiescentState
          live,     \* the objects allocated and not retired
          retired,  \* the objects retired and not freed
          waits     \* of each retired object, the operations it has to outlive

graceVars == <<active, live, retired, waits>>

GraceTypeOK ==
  /\ active \subseteq Threads
  /\ live \subseteq Objects
  /\ retired \subseteq Objects \ live
  /\ waits \in [Objects -> SUBSET active]

GraceInit ==
  /\ active = {}
  /\ live = {}
  /\ retired = {}
  /\ waits = [o \in Objects |-> {}]

Begin(t) ==
  /\ active' = active \cup {t}
  /\ UNCHANGED <<live, retired, waits>>

End(t) ==
  /\ active' = active \ {t}
  /\ waits' = [o \in Objects |-> waits[o] \ {t}]
  /\ UNCHANGED <<live, retired>>

Allocate(o) ==
  /\ o \notin live \cup retired
  /\ live' = live \cup {o}
  /\ UNCHANGED <<active, retired, waits>>

Retire(o) ==
  /\ o \in live
  /\ live' = live \ {o}
  /\ retired' = retired \cup {o}
  /\ waits' = [waits EXCEPT ![o] = active]
  /\ UNCHANGED active

Free(S) ==
  /\ \A o \in S : waits[o] = {}
  /\ retired' = retired \ S
  /\ UNCHANGED <<active, live, waits>>

GraceNext ==
  \/ \E t \in Threads : Begin(t) \/ End(t)
  \/ \E o \in Objects : Allocate(o) \/ Retire(o)
  \/ \E S \in SUBSET retired : Free(S)

GraceSpec == GraceInit /\ [][GraceNext]_graceVars
=============================================================================
