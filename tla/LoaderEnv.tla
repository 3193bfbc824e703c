----------------------------- MODULE LoaderEnv ------------------------------
(***************************************************************************)
(* The users of the loader's heap, and what is in their memory: the 64-bit *)
(* boot's startup environment or the tables of the 32-bit boot, and with   *)
(* either any other requests, whose callers write what they were given.    *)
(***************************************************************************)
EXTENDS LongMode, StartupEnv

CONSTANT Machines   \* what boots: <<boot, gdt_32, efi_map, selectors, null_ldtr>>
VARIABLE boot       \* "64" or "32"
vars == <<heapVars, longVars, envVars, boot>>

Init == /\ HeapInit /\ LongInit /\ EnvInit
        /\ boot \in {"64", "32"}
        /\ <<boot, gdt_32, efi_map, proc.selectors, proc.null_ldtr>> \in Machines

Boot64 == boot = "64" /\ EnvNext /\ UNCHANGED <<longVars, boot>>
Boot32 == boot = "32" /\ LongNext /\ UNCHANGED <<envVars, boot>>
Others == /\ HeapNext
          /\ words' = [a \in SlotAddresses |->
               IF \E b \in blocks' \ blocks : a \in b.at .. b.at + b.size - 1
               THEN Unknown ELSE words[a]]
          /\ UNCHANGED <<tableVars, envVars, boot>>
Next == Boot64 \/ Boot32 \/ Others

Spec == Init /\ [][Next]_vars

=============================================================================
