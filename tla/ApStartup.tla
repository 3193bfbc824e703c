----------------------------- MODULE ApStartup ------------------------------
(***************************************************************************)
(* The startap image: the bootstrap processor (BSP) wakes the application  *)
(* processors (APs) with INIT-SIPI-SIPI, counts the ones that answered     *)
(* before a timeout, lets them go and waits for them, and every processor  *)
(* enters xmon with a cpu id of its own.  (startap.c, ap_procs_init.c and  *)
(* wakeup_init64.S.)                                                       *)
(*                                                                         *)
(* The processors share memory and take steps in any order.  The timeout   *)
(* is a fixed stall, so whether every started AP has answered when it      *)
(* expires depends on the machine: Timely says that it has.                *)
(***************************************************************************)
EXTENDS Integers, FiniteSets

CONSTANTS Aps,       \* local APIC ids of the application processors
          MaxCpu,    \* MON_MAX_CPU_SUPPORTED, the size of ap_presence_array
          Launches,  \* the calls of startap_main: see LaunchOf
          Timely     \* no started AP is still on its way when the wait ends

(* ap_presence_array has one byte per local APIC id below MaxCpu.          *)
ASSUME MaxCpuAssumption == MaxCpu \in Nat \ {0}
ASSUME ApsAssumption    == Aps \subseteq 0 .. MaxCpu - 1
ASSUME TimelyAssumption == Timely \in BOOLEAN

(* p_init32: absent, without a low-memory page, or with one.  postOs is    *)
(* the MON_STARTUP_POST_OS_LAUNCH_MODE flag, and listed the APs named in   *)
(* cpu_local_apic_ids[1..], which only that mode reads.                    *)
LaunchOf == [init32 : {"null", "nopage", "page"},
             postOs : BOOLEAN,
             listed : SUBSET Aps]
ASSUME LaunchesAssumption == Launches \subseteq LaunchOf

VARIABLES
  launch,                \* the arguments of startap_main
  number_of_processors,  \* p_startup->number_of_processors_at_boot_time
  application_procesors, \* startap_main's local of that name; -1 for 0xFFFFFFFF
  bspPc,                 \* what the BSP does next
  index, ap_num,         \* bsp_enumerate_aps's locals
  mp_bootstrap_state,    \* 0 INIT, 1 APS_ENUMERATED
  g_aps_counter, g_ready_counter,
  g_user_func,           \* whether the callback is set
  ap_presence_array,
  apPc,                  \* what each AP does next
  apId                   \* the ordered id an AP has in its registers

bspVars == <<number_of_processors, application_procesors, index, ap_num,
             g_aps_counter>>
apVars  == <<apPc, apId>>
vars == <<launch, bspVars, bspPc, mp_bootstrap_state, g_ready_counter,
          g_user_func, ap_presence_array, apVars>>

-----------------------------------------------------------------------------
(* An AP is parked by the firmware, then waits for a SIPI, runs the        *)
(* start-up code in the low-memory page, marks its presence, spins on the  *)
(* bootstrap state, reads its ordered id, accepts, and enters xmon.  "lost" *)
(* is a processor that shut down or jumped through a null pointer.         *)
InLowPage == {"low"}
OnItsWay  == InLowPage \union {"mark"}
Answered  == {"spin", "takeid", "accept", "ready", "xmon"}
HasId     == {"accept", "ready", "xmon"}
Accepted  == {"ready", "xmon"}
ApPcs     == {"firmware", "waitsipi", "lost"} \union OnItsWay \union Answered

BspPcs == {"call", "init", "sipi1", "sipi2", "wait", "enumerate", "params",
           "publish", "release", "spin", "enter", "xmon"}
(* The BSP is past ap_procs_startup.                                       *)
Started == {"params", "publish", "release", "spin", "enter", "xmon"}

(* MON_STARTUP_POST_OS_LAUNCH_MODE narrows the IPIs to the listed APs.     *)
Targets == IF launch.postOs THEN launch.listed ELSE Aps

Init == /\ launch \in Launches
        /\ number_of_processors =
             IF launch.postOs THEN Cardinality(launch.listed) + 1 ELSE 1
        /\ application_procesors = 0
        /\ bspPc = "call"
        /\ index = 1 /\ ap_num = 0
        /\ mp_bootstrap_state = 0
        /\ g_aps_counter = 0 /\ g_ready_counter = 0
        /\ g_user_func = FALSE
        /\ ap_presence_array = [k \in 0 .. MaxCpu - 1 |-> 0]
        /\ apPc = [a \in Aps |-> "firmware"]
        /\ apId = [a \in Aps |-> 0]

-----------------------------------------------------------------------------
(* The BSP.                                                                *)

(* startap_main without init32 data, and the early return of               *)
(* ap_procs_startup when the page is missing: no AP is started.            *)
NoStartup == /\ bspPc = "call"
             /\ launch.init32 # "page"
             /\ application_procesors' =
                  IF launch.init32 = "null" THEN 0 ELSE -1
             /\ bspPc' = "params"
             /\ UNCHANGED <<launch, number_of_processors, index, ap_num,
                            g_aps_counter, mp_bootstrap_state, g_ready_counter,
                            g_user_func, ap_presence_array, apVars>>

(* ap_presence_array keeps what it holds.                                  *)
InitializeEnvironment == /\ mp_bootstrap_state' = 0
                         /\ g_ready_counter' = 0
                         /\ g_user_func' = FALSE

(* setup_low_memory_ap_code patches the code that the APs will run.  It    *)
(* puts the address of its own local variable there: see RunLowPage.       *)
PrepareStartup == /\ bspPc = "call"
                  /\ launch.init32 = "page"
                  /\ InitializeEnvironment
                  /\ bspPc' = "init"
                  /\ UNCHANGED <<launch, bspVars, ap_presence_array, apVars>>

(* An INIT IPI stops a processor whatever it does and leaves it waiting    *)
(* for a SIPI.                                                             *)
SendInit == /\ bspPc = "init"
            /\ apPc' = [a \in Aps |-> IF a \in Targets THEN "waitsipi" ELSE apPc[a]]
            /\ bspPc' = "sipi1"
            /\ UNCHANGED <<launch, bspVars, mp_bootstrap_state, g_ready_counter,
                           g_user_func, ap_presence_array, apId>>

(* A SIPI starts the processors that wait for one, and any of them may     *)
(* miss it; the others ignore it.                                          *)
SendSipi(from, to) ==
  /\ bspPc = from
  /\ \E missed \in SUBSET Targets :
       apPc' = [a \in Aps |-> IF a \in Targets \ missed /\ apPc[a] = "waitsipi"
                              THEN "low" ELSE apPc[a]]
  /\ bspPc' = to
  /\ UNCHANGED <<launch, bspVars, mp_bootstrap_state, g_ready_counter,
                 g_user_func, ap_presence_array, apId>>

SendSipi1 == SendSipi("sipi1", "sipi2")
SendSipi2 == SendSipi("sipi2", "wait")

(* The 750 ms stall after the second SIPI.                                 *)
NoWait == TRUE
WaitElapsed == Timely => \A a \in Aps : apPc[a] \notin OnItsWay

(* bsp_enumerate_aps's loop does not look at the byte of APIC id 0.        *)
FirstIndexZero == 0
FirstIndex == 1

FinishWait == /\ bspPc = "wait"
              /\ WaitElapsed
              /\ index' = FirstIndex /\ ap_num' = 0
              /\ bspPc' = "enumerate"
              /\ UNCHANGED <<launch, number_of_processors, application_procesors,
                             g_aps_counter, mp_bootstrap_state, g_ready_counter,
                             g_user_func, ap_presence_array, apVars>>

(* One round of bsp_enumerate_aps's loop.  The APs run between two rounds; *)
(* within one, only processor index could write its byte and it writes it  *)
(* once, before it is counted.                                             *)
CountProcessorLater ==
  /\ ap_presence_array[index] # 0
  /\ ap_num' = ap_num + 1
  /\ ap_presence_array' = [ap_presence_array EXCEPT ![index] = ap_num]
CountProcessor == /\ ap_presence_array[index] # 0
                  /\ ap_num' = ap_num + 1
                  /\ ap_presence_array' =
                       [ap_presence_array EXCEPT ![index] = ap_num + 1]

EnumerateAps == /\ bspPc = "enumerate"
                /\ index < MaxCpu
                /\ \/ CountProcessor
                   \/ /\ ap_presence_array[index] = 0
                      /\ UNCHANGED <<ap_num, ap_presence_array>>
                /\ index' = index + 1
                /\ UNCHANGED <<launch, number_of_processors,
                               application_procesors, g_aps_counter, bspPc,
                               mp_bootstrap_state, g_ready_counter, g_user_func,
                               apVars>>

ReturnCount == /\ bspPc = "enumerate"
               /\ index = MaxCpu
               /\ g_aps_counter' = ap_num
               /\ application_procesors' = ap_num
               /\ bspPc' = "params"
               /\ UNCHANGED <<launch, number_of_processors, index, ap_num,
                              mp_bootstrap_state, g_ready_counter, g_user_func,
                              ap_presence_array, apVars>>

(* The rest of startap_main before the processors are let go: a pre-OS     *)
(* launch reports the count, and the APs are run when the unsigned number  *)
(* is positive.                                                            *)
SetParams == /\ bspPc = "params"
             /\ number_of_processors' = IF launch.postOs THEN number_of_processors
                                        ELSE application_procesors + 1
             /\ bspPc' = IF application_procesors # 0 THEN "publish" ELSE "enter"
             /\ UNCHANGED <<launch, application_procesors, index, ap_num,
                            g_aps_counter, mp_bootstrap_state, g_ready_counter,
                            g_user_func, ap_presence_array, apVars>>

(* ap_procs_run: store the callback, exchange the state, wait.             *)
SkipPublish == /\ bspPc = "publish"
               /\ bspPc' = "release"
               /\ UNCHANGED <<launch, bspVars, mp_bootstrap_state,
                              g_ready_counter, g_user_func, ap_presence_array,
                              apVars>>
PublishCallback == /\ bspPc = "publish"
                   /\ g_user_func' = TRUE
                   /\ bspPc' = "release"
                   /\ UNCHANGED <<launch, bspVars, mp_bootstrap_state,
                                  g_ready_counter, ap_presence_array, apVars>>

ReleaseAps == /\ bspPc = "release"
              /\ mp_bootstrap_state' = 1
              /\ bspPc' = "spin"
              /\ UNCHANGED <<launch, bspVars, g_ready_counter, g_user_func,
                             ap_presence_array, apVars>>

AllReadyAtMost == g_ready_counter <= g_aps_counter
AllReady == g_ready_counter = g_aps_counter

FinishSpin == /\ bspPc = "spin"
              /\ AllReady
              /\ bspPc' = "enter"
              /\ UNCHANGED <<launch, bspVars, mp_bootstrap_state,
                             g_ready_counter, g_user_func, ap_presence_array,
                             apVars>>

(* start_application(0): the BSP enters xmon and does not come back.       *)
BspEnterXmon == /\ bspPc = "enter"
                /\ bspPc' = "xmon"
                /\ UNCHANGED <<launch, bspVars, mp_bootstrap_state,
                               g_ready_counter, g_user_func, ap_presence_array,
                               apVars>>

Bsp == \/ NoStartup \/ PrepareStartup \/ SendInit \/ SendSipi1 \/ SendSipi2
       \/ FinishWait \/ EnumerateAps \/ ReturnCount \/ SetParams
       \/ PublishCallback \/ ReleaseAps \/ FinishSpin \/ BspEnterXmon

-----------------------------------------------------------------------------
(* Application processor a.                                                *)

Move(a, from, to) == /\ apPc[a] = from
                     /\ apPc' = [apPc EXCEPT ![a] = to]

(* The code in the low-memory page: protected mode, scratch stack, long    *)
(* mode, far return to ap_continue_wakeup_code.  The 64-bit GDTR it loads  *)
(* is read through the address of a local variable of                      *)
(* setup_low_memory_ap_code, which has returned: the processor gets the    *)
(* value or shuts down on what lies there now.                             *)
RunLowPage(a) == /\ \/ Move(a, "low", "mark")
                    \/ Move(a, "low", "lost")
                 /\ UNCHANGED <<launch, bspVars, bspPc, mp_bootstrap_state,
                                g_ready_counter, g_user_func,
                                ap_presence_array, apId>>

MarkPresence(a) == /\ Move(a, "mark", "spin")
                   /\ ap_presence_array' = [ap_presence_array EXCEPT ![a] = 1]
                   /\ UNCHANGED <<launch, bspVars, bspPc, mp_bootstrap_state,
                                  g_ready_counter, g_user_func, apId>>

SeeRelease(a) == /\ mp_bootstrap_state = 1
                 /\ Move(a, "spin", "takeid")
                 /\ UNCHANGED <<launch, bspVars, bspPc, mp_bootstrap_state,
                                g_ready_counter, g_user_func,
                                ap_presence_array, apId>>

(* The presence byte is now the ordered id, which also picks the stack.    *)
TakeId(a) == /\ Move(a, "takeid", "accept")
             /\ apId' = [apId EXCEPT ![a] = ap_presence_array[a]]
             /\ UNCHANGED <<launch, bspVars, bspPc, mp_bootstrap_state,
                            g_ready_counter, g_user_func, ap_presence_array>>

(* lock; incl g_ready_counter                                              *)
AcceptUncounted(a) == /\ Move(a, "accept", "ready")
                      /\ UNCHANGED <<launch, bspVars, bspPc, mp_bootstrap_state,
                                     g_ready_counter, g_user_func,
                                     ap_presence_array, apId>>
AcceptRun(a) == /\ Move(a, "accept", "ready")
                /\ g_ready_counter' = g_ready_counter + 1
                /\ UNCHANGED <<launch, bspVars, bspPc, mp_bootstrap_state,
                               g_user_func, ap_presence_array, apId>>

(* The call through g_user_func, which is start_application.               *)
CallUserFunc(a) == /\ Move(a, "ready", IF g_user_func THEN "xmon" ELSE "lost")
                   /\ UNCHANGED <<launch, bspVars, bspPc, mp_bootstrap_state,
                                  g_ready_counter, g_user_func,
                                  ap_presence_array, apId>>

Ap(a) == \/ RunLowPage(a) \/ MarkPresence(a) \/ SeeRelease(a)
         \/ TakeId(a) \/ AcceptRun(a) \/ CallUserFunc(a)

Next == Bsp \/ \E a \in Aps : Ap(a)

(* Safety of the rendezvous, and the same with every processor executing.  *)
Spec     == Init /\ [][Next]_vars
FairSpec == Spec /\ WF_vars(Bsp) /\ \A a \in Aps : WF_vars(Ap(a))

-----------------------------------------------------------------------------
(* Properties.                                                             *)

TypeOK == /\ launch \in Launches
          /\ number_of_processors \in Nat
          /\ application_procesors \in -1 .. MaxCpu - 1
          /\ bspPc \in BspPcs
          /\ index \in 1 .. MaxCpu
          /\ ap_num \in 0 .. index - 1
          /\ mp_bootstrap_state \in {0, 1}
          /\ g_aps_counter \in 0 .. MaxCpu - 1
          /\ g_ready_counter \in Nat
          /\ g_user_func \in BOOLEAN
          /\ ap_presence_array \in [0 .. MaxCpu - 1 -> 0 .. MaxCpu]
          /\ apPc \in [Aps -> ApPcs]
          /\ apId \in [Aps -> 0 .. MaxCpu]

(* "now ecx contains AP ordered ID [1..Max]" (wakeup_init64.S:56): two     *)
(* processors that took an id took different ones, so they also run on     *)
(* different stacks, and no id is above the number that was counted.       *)
OrderedIdsUnique ==
  \A a \in Aps : apPc[a] \in HasId =>
    /\ apId[a] \in 1 .. g_aps_counter
    /\ \A b \in Aps \ {a} : apPc[b] \in HasId => apId[b] # apId[a]

(* "wait until all APs will accept this" (ap_procs_init.c:693): the BSP    *)
(* goes on to xmon only when every AP that answered has accepted, unless   *)
(* it failed to start any.                                                 *)
AllAcceptedBeforeXmon ==
  bspPc \in {"enter", "xmon"} =>
    \A a \in Aps : apPc[a] \in Answered => apPc[a] \in Accepted

(* No AP calls through g_user_func before ap_procs_run has set it, however *)
(* soon after the release it gets there.                                   *)
CallbackSet ==
  \A a \in Aps : apPc[a] = "ready" => g_user_func

(* Every processor that was counted enters xmon, with the ids 0 .. n-1 and *)
(* no other, and a pre-OS launch has told xmon that there are n of them.   *)
Entered == {apId[a] : a \in {b \in Aps : apPc[b] = "xmon"}}
             \union (IF bspPc = "xmon" THEN {0} ELSE {})
AllReachXmon ==
  <>[] /\ Entered = 0 .. g_aps_counter
       /\ launch.postOs \/ launch.init32 = "nopage"
            \/ number_of_processors = Cardinality(Entered)

(* A processor that marks its presence too late to be counted keeps the    *)
(* byte 1.  However many do, the loop of bsp_enumerate_aps (:714-718) has  *)
(* given out every id up to the count, and only the id 1 can be shared.    *)
LateSharesOnlyFirst ==
  bspPc \in Started =>
    /\ \A n \in 1 .. g_aps_counter : \E a \in Aps : ap_presence_array[a] = n
    /\ \A a, b \in Aps : /\ a # b
                         /\ ap_presence_array[a] = ap_presence_array[b]
                         => ap_presence_array[a] \in {0, 1}

(* The rendezvous does what XmonLaunch promises.                           *)
Launch == INSTANCE XmonLaunch WITH
  count     <- IF bspPc \in Started THEN g_aps_counter + 1 ELSE 0,
  committed <- {apId[a] : a \in {b \in Aps : apPc[b] \in Accepted}},
  entered   <- Entered
LaunchSpec == Launch!Spec

(* "Loop on ready_counter until it will be equal to number of APs"         *)
(* (ap_procs_init.c:45): the BSP leaves that loop.                         *)
BspEntersXmon == <>(bspPc = "xmon")
-----------------------------------------------------------------------------
(* Inductive invariants, for the proofs.                                   *)

(* Whatever the timing: no byte is set before its processor marks it, the  *)
(* bytes below index carry the ids handed out so far, and only a mark that *)
(* came too late still reads 1 beside the id 1.                            *)
NotMarked == {"firmware", "waitsipi"} \union OnItsWay

LateInv ==
  /\ g_aps_counter = IF bspPc \in Started THEN ap_num ELSE 0
  /\ bspPc \in {"call", "init", "sipi1"} =>
       \A a \in Aps : apPc[a] \in {"firmware", "waitsipi"}
  /\ bspPc \in {"call", "init", "sipi1", "sipi2", "wait"} => ap_num = 0
  /\ \A a \in Aps : apPc[a] \in NotMarked => ap_presence_array[a] = 0
  /\ \A k \in 0 .. MaxCpu - 1 : ap_presence_array[k] # 0 => k \in Aps
  /\ \A a \in Aps : ap_presence_array[a] <= ap_num \/ ap_presence_array[a] = 1
  /\ \A n \in 1 .. ap_num :
       \E a \in Aps : a < index /\ ap_presence_array[a] = n
  /\ \A a, b \in Aps : /\ a # b
                       /\ ap_presence_array[a] = ap_presence_array[b]
                       => ap_presence_array[a] \in {0, 1}
(* Whatever the timing: processors leave the spin only on the release, and *)
(* the callback is stored before it.                                       *)
ReleaseInv ==
  /\ \A a \in Aps : apPc[a] \in HasId \union {"takeid"} => mp_bootstrap_state = 1
  /\ mp_bootstrap_state = 1 => bspPc \in {"spin", "enter", "xmon"}
  /\ mp_bootstrap_state = 1 \/ bspPc = "release" => g_user_func

(* When every started processor has answered in time and APIC id 0 is the  *)
(* BSP's, the array is at rest while it is counted: the bytes below index  *)
(* are distinct ids up to ap_num, and a processor's register holds its own. *)
CountPhase == Started \union {"enumerate"}
TimelyInv ==
  /\ bspPc \in CountPhase => \A a \in Aps : apPc[a] \notin OnItsWay
  /\ bspPc \in Started => \A a \in Aps : a < index \/ ap_presence_array[a] = 0
  /\ bspPc \in CountPhase =>
       \A a \in Aps : a < index =>
         /\ ap_presence_array[a] <= ap_num
         /\ \A b \in Aps : /\ b < index
                           /\ b # a
                           /\ ap_presence_array[b] = ap_presence_array[a]
                           => ap_presence_array[a] = 0
  /\ \A a \in Aps : apPc[a] \in Answered => ap_presence_array[a] # 0
  /\ \A a \in Aps : apPc[a] \in HasId => apId[a] = ap_presence_array[a]

(* The two counters count processors: g_ready_counter the ones that        *)
(* accepted and ap_num the ones that were found.                           *)
AcceptedAps == {a \in Aps : apPc[a] \in Accepted}
CountedAps  == {a \in Aps : a < index /\ ap_presence_array[a] # 0}
CountInv ==
  /\ g_ready_counter = Cardinality(AcceptedAps)
  /\ bspPc \in CountPhase => ap_num = Cardinality(CountedAps)
  /\ bspPc \in Started => application_procesors \in {ap_num, -1}
  /\ bspPc \in {"enter", "xmon"} => g_ready_counter = ap_num
=============================================================================
