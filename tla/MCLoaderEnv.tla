---------------------------- MODULE MCLoaderEnv -----------------------------
(***************************************************************************)
(* LoaderEnv for TLC: pages of four slots; a PDPT with two entries; GDTs   *)
(* that end in a descriptor or in zeros, and one too long for a page with  *)
(* two more; maps of up to two descriptors on firmware whose descriptors   *)
(* have the expected size, and with eight bytes less.                      *)
(***************************************************************************)
EXTENDS LoaderEnv

MCRequests == {6}
MCPageRequests == {1}
MCGdts == {<<"null", "code">>, <<"code", "null">>, <<"null", "code", "data">>}

OneMap == <<[type |-> "Conventional", phys_addr |-> 1, num_pages |-> 3]>>
MCMaps == {<<>>,
           OneMap,
           <<[type |-> "ACPINVS", phys_addr |-> 4, num_pages |-> 1],
             [type |-> "ReservedMemory", phys_addr |-> 9, num_pages |-> 2]>>}
MCDescriptors ==
  <<[base |-> 5, limit |-> 7, granularity |-> FALSE, attributes |-> "code"],
    [base |-> 0, limit |-> 3, granularity |-> TRUE, attributes |-> "data"]>>
Flat == [s \in Segments |-> IF s = "cs" THEN 1 ELSE 2]
Some == [Flat EXCEPT !["ds"] = 0, !["fs"] = 1]
MCProcessors == {[selectors |-> Flat, null_ldtr |-> TRUE],
                 [selectors |-> Some, null_ldtr |-> TRUE],
                 [selectors |-> Flat, null_ldtr |-> FALSE]}
MCMachines ==
  {<<"32", gdt, [entries |-> OneMap, desc_size |-> 12], Flat, TRUE>> :
     gdt \in MCGdts}
    \union {<<"64", <<"null", "code">>, [entries |-> map, desc_size |-> size],
              Flat, TRUE>> : map \in MCMaps, size \in {12, 10}}
    \union {<<"64", <<"null", "code">>, [entries |-> OneMap, desc_size |-> 12],
              p.selectors, p.null_ldtr>> : p \in MCProcessors}
=============================================================================
