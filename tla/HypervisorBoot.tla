--------------------------- MODULE HypervisorBoot ---------------------------
(***************************************************************************)
(* What the boot promises to xmon and to the operating system, whatever    *)
(* programs it takes: once, before anybody knows the memory map, memory is *)
(* set aside for xmon, and it stays so.  xmon is entered with its images   *)
(* whole in memory and, if the firmware gave a map, with a table that      *)
(* offers the system none of that memory.  From there the boot can no      *)
(* longer fail: it comes back to the firmware, which is told to go on to   *)
(* the next boot loader.                                                   *)
(***************************************************************************)
EXTENDS Integers

CONSTANT Pages         \* of the machine's memory

VARIABLES stage,       \* "boot", "launched", "back", "returned" or "stopped"
          aside,       \* the pages set aside for xmon
          mapped,      \* whether the firmware has given its memory map
          offered,     \* the pages that the table offers to the system
          xmon,        \* "absent", "whole" or "broken"
          answer       \* what the firmware is told

vars == <<stage, aside, mapped, offered, xmon, answer>>

Init == /\ stage = "boot"
        /\ aside = {} /\ offered = {}
        /\ mapped = FALSE
        /\ xmon = "absent"
        /\ answer = "none"

SetAside == /\ stage = "boot" /\ aside = {} /\ ~mapped
            /\ aside' \in SUBSET Pages /\ aside' # {}
            /\ UNCHANGED <<stage, mapped, offered, xmon, answer>>

TakeMap == /\ stage = "boot" /\ aside # {} /\ ~mapped
           /\ mapped' = TRUE
           /\ UNCHANGED <<stage, aside, offered, xmon, answer>>

Launch == /\ stage = "boot" /\ aside # {}
          /\ stage' = "launched"
          /\ xmon' = "whole"
          /\ offered' \in SUBSET Pages
          /\ mapped => offered' \intersect aside = {}
          /\ UNCHANGED <<aside, mapped, answer>>

Resume == /\ stage = "launched" /\ stage' = "back"
          /\ UNCHANGED <<aside, mapped, offered, xmon, answer>>

(* Before the launch the boot may fail in two ways; an error returned lets *)
(* the firmware go on as well.  Nothing is set aside yet if it succeeds    *)
(* without having done anything.                                           *)
Return == /\ \/ stage = "boot" /\ answer' \in {"ERROR", "NOT_FOUND"}
             \/ stage = "boot" /\ aside = {} /\ answer' = "SUCCESS"
             \/ stage = "back" /\ answer' = "NOT_FOUND"
          /\ stage' = "returned"
          /\ UNCHANGED <<aside, mapped, offered, xmon>>
Stop == /\ stage = "boot" /\ stage' = "stopped"
        /\ UNCHANGED <<aside, mapped, offered, xmon, answer>>

Next == SetAside \/ TakeMap \/ Launch \/ Resume \/ Return \/ Stop
Spec == Init /\ [][Next]_vars
=============================================================================
