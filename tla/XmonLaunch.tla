----------------------------- MODULE XmonLaunch -----------------------------
(***************************************************************************)
(* What startap promises to xmon, without the rendezvous that provides it. *)
(*                                                                         *)
(* The bootstrap processor (cpu 0) decides once how many processors take   *)
(* part.  The application processors get the cpu ids 1 .. count-1, one     *)
(* each: a processor first commits itself to an id, then enters xmon with  *)
(* it.  Cpu 0 enters xmon when every other id is committed.                *)
(***************************************************************************)
EXTENDS Integers

CONSTANT MaxCpu        \* MON_MAX_CPU_SUPPORTED

VARIABLES count,       \* processors taking part; 0 until the decision
          committed,   \* cpu ids an application processor has taken
          entered      \* cpu ids xmon has been entered with

vars == <<count, committed, entered>>

Init == /\ count = 0
        /\ committed = {}
        /\ entered = {}

Decide == /\ count = 0
          /\ count' \in 1 .. MaxCpu
          /\ UNCHANGED <<committed, entered>>

Commit(c) == /\ c \in 1 .. count - 1
             /\ c \notin committed
             /\ committed' = committed \union {c}
             /\ UNCHANGED <<count, entered>>

Enter(c) == /\ c \in committed \ entered
            /\ entered' = entered \union {c}
            /\ UNCHANGED <<count, committed>>

EnterBsp == /\ count # 0
            /\ committed = 1 .. count - 1
            /\ 0 \notin entered
            /\ entered' = entered \union {0}
            /\ UNCHANGED <<count, committed>>

Next == \/ Decide
        \/ EnterBsp
        \/ \E c \in 1 .. MaxCpu - 1 : Commit(c) \/ Enter(c)

Spec == Init /\ [][Next]_vars
=============================================================================
