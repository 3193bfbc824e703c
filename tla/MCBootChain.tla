---------------------------- MODULE MCBootChain -----------------------------
(***************************************************************************)
(* BootChain for TLC.  The loader memory is four pages, one of them for    *)
(* the package, and the runtime memory two; the machine has twelve, of     *)
(* which the first five are "below 1 GB".                                  *)
(***************************************************************************)
EXTENDS BootChain

(* Firmware pages: few, many and scattered, and all of the low memory.     *)
Map(used) == [p \in Pages |-> IF p \in DOMAIN used THEN used[p]
                              ELSE "conventional"]
MCMaps ==
  {Map([p \in {11} |-> "runtime_services"]),
   Map([p \in {2, 9} |-> IF p = 2 THEN "acpi" ELSE "nvs"]),
   Map([p \in 0 .. Low - 1 |-> "boot_services"]),
   Map([p \in 0 .. Low - 2 |-> "boot_services"])}

Good   == [ok |-> TRUE, em64t |-> TRUE, pages |-> 1, loads |-> TRUE]
Bad    == {[Good EXCEPT !.ok = FALSE], [Good EXCEPT !.em64t = FALSE],
           [Good EXCEPT !.pages = 0], [Good EXCEPT !.pages = 2],
           [Good EXCEPT !.loads = FALSE]}
Sound  == [size |-> 2, header |-> TRUE, filled |-> TRUE, listed |-> Bins,
           bins |-> [b \in Bins |-> Good]]
(* Among the files: one whose buffer fills its page, one that fills        *)
(* u_ldr_bin, and one that is larger than the whole load-time memory.      *)
MCPackages ==
  {Sound,
   [Sound EXCEPT !.header = FALSE], [Sound EXCEPT !.filled = FALSE],
   [Sound EXCEPT !.listed = {}], [Sound EXCEPT !.listed = {"xmon", "startap"}]}
    \union {[Sound EXCEPT !.size = size] : size \in {3, 4, 16}}
    \union {[Sound EXCEPT !.bins[b] = image] : b \in Bins, image \in Bad}

HeapRequests == {2}
MCMapSizes == {3, 9}
None == {}

(* Little or no free memory below 1 GB: the regions go above it, or above  *)
(* 4 GB on a machine that has memory there.                                *)
HighMaps == {Map([p \in {0} |-> "boot_services"]),
             Map([p \in 0 .. Low - 2 |-> "boot_services"])}
JustSound == {Sound}
=============================================================================
