---------------------------- MODULE MCApStartup -----------------------------
(***************************************************************************)
(* ApStartup for TLC: four application processors with a hole in the      *)
(* APIC ids, the launch that xmon_loader makes and the others that         *)
(* startap_main documents.                                                 *)
(***************************************************************************)
EXTENDS ApStartup

MCAps == {1, 2, 4, 5}
MCMaxCpu == 6

PreOs == [init32 |-> "page", postOs |-> FALSE, listed |-> {}]
MCLaunches == {PreOs,
               [PreOs EXCEPT !.init32 = "null"],
               [PreOs EXCEPT !.init32 = "nopage"],
               [PreOs EXCEPT !.postOs = TRUE, !.listed = {1, 4}]}

(* For processors that come too late: the program's launch alone.          *)
PreOsOnly == {PreOs}
LateAps == {0, 1, 2, 3}
LateMaxCpu == 4
TwoAps == {1, 2}
TwoApsMaxCpu == 3
=============================================================================
