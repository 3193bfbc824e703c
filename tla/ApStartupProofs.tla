--------------------------- MODULE ApStartupProofs --------------------------
(***************************************************************************)
(* Theorems about ApStartup for every set of processors and every launch.  *)
(***************************************************************************)
EXTENDS ApStartup, FiniteSetTheorems, TLAPS

(* A set of APIC ids is finite: ap_presence_array bounds them.             *)
LEMMA ApsFinite ==
  /\ IsFiniteSet(Aps)
  /\ \A S \in SUBSET Aps : IsFiniteSet(S) /\ Cardinality(S) \in Nat
<1>1. IsFiniteSet(0 .. MaxCpu - 1)
  BY MaxCpuAssumption, FS_Interval
<1>2. IsFiniteSet(Aps)
  BY <1>1, ApsAssumption, FS_Subset
<1>3. QED
  BY <1>2, FS_Subset, FS_CardinalityType

(* The variables keep their types in every launch, however late the APs    *)
(* are.                                                                    *)
THEOREM TypeCorrect == Spec => []TypeOK
<1> USE MaxCpuAssumption, ApsAssumption, LaunchesAssumption
<1>1. Init => TypeOK
  <2> SUFFICES ASSUME Init PROVE TypeOK
    OBVIOUS
  <2>1. launch.listed \in SUBSET Aps
    BY DEF Init, LaunchOf
  <2>2. number_of_processors \in Nat
    BY <2>1, ApsFinite DEF Init
  <2>3. /\ ap_presence_array \in [0 .. MaxCpu - 1 -> 0 .. MaxCpu]
        /\ apPc \in [Aps -> ApPcs]
        /\ apId \in [Aps -> 0 .. MaxCpu]
    BY DEF Init, ApPcs
  <2>4. /\ index \in 1 .. MaxCpu
        /\ ap_num \in 0 .. index - 1
        /\ application_procesors \in -1 .. MaxCpu - 1
        /\ g_aps_counter \in 0 .. MaxCpu - 1
        /\ g_ready_counter \in Nat
    BY DEF Init
  <2>5. /\ launch \in Launches
        /\ bspPc \in BspPcs
        /\ mp_bootstrap_state \in {0, 1}
        /\ g_user_func \in BOOLEAN
    BY DEF Init, BspPcs
  <2>6. QED
    BY <2>2, <2>3, <2>4, <2>5 DEF TypeOK
<1>2. TypeOK /\ [Next]_vars => TypeOK'
  <2> SUFFICES ASSUME TypeOK, [Next]_vars PROVE TypeOK'
    OBVIOUS
  <2> USE DEF TypeOK, BspPcs, bspVars, apVars
  <2>1. CASE NoStartup
    BY <2>1 DEF NoStartup
  <2>2. CASE PrepareStartup
    BY <2>2 DEF PrepareStartup, InitializeEnvironment
  <2>3. CASE SendInit
    BY <2>3 DEF SendInit, ApPcs
  <2>4. CASE SendSipi1 \/ SendSipi2
    BY <2>4 DEF SendSipi1, SendSipi2, SendSipi, ApPcs, OnItsWay, InLowPage
  <2>5. CASE FinishWait
    BY <2>5 DEF FinishWait, FirstIndex
  <2>6. CASE EnumerateAps
    BY <2>6 DEF EnumerateAps, CountProcessor
  <2>7. CASE ReturnCount
    BY <2>7 DEF ReturnCount
  <2>8. CASE SetParams
    BY <2>8 DEF SetParams
  <2>9. CASE PublishCallback
    BY <2>9 DEF PublishCallback
  <2>10. CASE ReleaseAps
    BY <2>10 DEF ReleaseAps
  <2>11. CASE FinishSpin
    BY <2>11 DEF FinishSpin
  <2>12. CASE BspEnterXmon
    BY <2>12 DEF BspEnterXmon
  <2>13. ASSUME NEW a \in Aps, Ap(a) PROVE TypeOK'
    <3> USE DEF Move, ApPcs, OnItsWay, InLowPage, Answered
    <3>1. CASE RunLowPage(a)
      BY <3>1 DEF RunLowPage
    <3>2. CASE MarkPresence(a)
      BY <3>2 DEF MarkPresence
    <3>3. CASE SeeRelease(a)
      BY <3>3 DEF SeeRelease
    <3>4. CASE TakeId(a)
      BY <3>4 DEF TakeId
    <3>5. CASE AcceptRun(a)
      BY <3>5 DEF AcceptRun
    <3>6. CASE CallUserFunc(a)
      BY <3>6 DEF CallUserFunc
    <3>7. QED
      BY <2>13, <3>1, <3>2, <3>3, <3>4, <3>5, <3>6 DEF Ap
  <2>14. CASE UNCHANGED vars
    BY <2>14 DEF vars
  <2>15. QED
    BY <2>1, <2>2, <2>3, <2>4, <2>5, <2>6, <2>7, <2>8, <2>9, <2>10, <2>11,
       <2>12, <2>13, <2>14 DEF Next, Bsp
<1>3. QED
  BY <1>1, <1>2, PTL DEF Spec
-----------------------------------------------------------------------------
(* The enumeration, for processors that answer at any time.                *)
LEMMA LateInvInit == Init => LateInv
  BY MaxCpuAssumption, ApsAssumption
     DEF Init, LateInv, Started, NotMarked, OnItsWay, InLowPage

LEMMA LateInvNext == TypeOK /\ LateInv /\ [Next]_vars => LateInv'
<1> SUFFICES ASSUME TypeOK, LateInv, [Next]_vars PROVE LateInv'
  OBVIOUS
<1> USE MaxCpuAssumption, ApsAssumption DEF TypeOK, LateInv, bspVars, apVars,
        Started, NotMarked, OnItsWay, InLowPage
<1>1. CASE NoStartup
  BY <1>1 DEF NoStartup
<1>2. CASE PrepareStartup
  BY <1>2 DEF PrepareStartup, InitializeEnvironment
<1>3. CASE SendInit
  BY <1>3 DEF SendInit
<1>4. CASE SendSipi1 \/ SendSipi2
  <2>1. \A a \in Aps : \/ apPc'[a] = apPc[a]
                       \/ apPc[a] = "waitsipi" /\ apPc'[a] = "low"
    BY <1>4 DEF SendSipi1, SendSipi2, SendSipi
  <2>2. \A a \in Aps : apPc'[a] \in NotMarked => ap_presence_array[a] = 0
    BY <2>1
  <2>3. CASE SendSipi1
    BY <2>2, <2>3 DEF SendSipi1, SendSipi
  <2>4. CASE SendSipi2
    BY <2>2, <2>4 DEF SendSipi2, SendSipi
  <2>5. QED
    BY <1>4, <2>3, <2>4
<1>5. CASE FinishWait
  BY <1>5 DEF FinishWait, FirstIndex
<1>6. CASE EnumerateAps
  <2>1. CASE ap_presence_array[index] = 0
    BY <1>6, <2>1 DEF EnumerateAps, CountProcessor
  <2>2. CASE ap_presence_array[index] # 0
    <3>1. /\ index \in Aps
          /\ ap_num' = ap_num + 1
          /\ ap_presence_array' =
               [ap_presence_array EXCEPT ![index] = ap_num + 1]
          /\ index' = index + 1
      BY <1>6, <2>2 DEF EnumerateAps, CountProcessor
    <3>2. /\ ap_presence_array'[index] = ap_num + 1
          /\ \A k \in (0 .. MaxCpu - 1) \ {index} :
               ap_presence_array'[k] = ap_presence_array[k]
      BY <3>1
    <3>3. \A n \in 1 .. ap_num' :
            \E a \in Aps : a < index' /\ ap_presence_array'[a] = n
      <4> SUFFICES ASSUME NEW n \in 1 .. ap_num + 1
                   PROVE  \E a \in Aps :
                            a < index + 1 /\ ap_presence_array'[a] = n
        BY <3>1
      <4>1. CASE n = ap_num + 1
        BY <3>1, <3>2, <4>1
      <4>2. CASE n \in 1 .. ap_num
        <5>1. PICK a \in Aps : a < index /\ ap_presence_array[a] = n
          BY <4>2
        <5>2. a < index + 1 /\ ap_presence_array'[a] = n
          BY <3>2, <5>1
        <5>3. QED
          BY <5>2
      <4>3. QED
        BY <4>1, <4>2
    <3>4. \A a, b \in Aps : /\ a # b
                            /\ ap_presence_array'[a] = ap_presence_array'[b]
                            => ap_presence_array'[a] \in {0, 1}
      <4> SUFFICES ASSUME NEW a \in Aps, NEW b \in Aps, a # b,
                          ap_presence_array'[a] = ap_presence_array'[b]
                   PROVE  ap_presence_array'[a] \in {0, 1}
        OBVIOUS
      <4>1. CASE a = index
        <5>1. ap_presence_array[b] <= ap_num \/ ap_presence_array[b] = 1
          OBVIOUS
        <5>2. ap_presence_array[b] = ap_num + 1
          BY <3>2, <4>1
        <5>3. QED
          BY <3>2, <4>1, <5>1, <5>2
      <4>2. CASE b = index
        <5>1. ap_presence_array[a] <= ap_num \/ ap_presence_array[a] = 1
          OBVIOUS
        <5>2. ap_presence_array[a] = ap_num + 1
          BY <3>2, <4>2
        <5>3. QED
          BY <3>2, <4>2, <5>1, <5>2
      <4>3. CASE a # index /\ b # index
        BY <3>2, <4>3
      <4>4. QED
        BY <4>1, <4>2, <4>3
    <3>5. \A a \in Aps : ap_presence_array'[a] <= ap_num'
                           \/ ap_presence_array'[a] = 1
      <4> SUFFICES ASSUME NEW a \in Aps
                   PROVE  ap_presence_array'[a] <= ap_num' \/ ap_presence_array'[a] = 1
        OBVIOUS
      <4>1. CASE a = index
        BY <3>1, <3>2, <4>1
      <4>2. CASE a # index
        <5>1. ap_presence_array'[a] = ap_presence_array[a] /\ ap_num' = ap_num + 1
          BY <3>1, <3>2, <4>2
        <5>2. QED
          BY <5>1
      <4>3. QED
        BY <4>1, <4>2
    <3>6. \A k \in 0 .. MaxCpu - 1 : ap_presence_array'[k] # 0 => k \in Aps
      BY <3>1, <3>2
    <3>7. \A a \in Aps : apPc'[a] \in NotMarked => ap_presence_array'[a] = 0
      BY <1>6, <2>2, <3>1, <3>2 DEF EnumerateAps
    <3>8. QED
      BY <1>6, <3>3, <3>4, <3>5, <3>6, <3>7 DEF EnumerateAps
  <2>3. QED
    BY <2>1, <2>2
<1>7. CASE ReturnCount
  BY <1>7 DEF ReturnCount
<1>8. CASE SetParams
  BY <1>8 DEF SetParams
<1>9. CASE PublishCallback
  BY <1>9 DEF PublishCallback
<1>10. CASE ReleaseAps
  BY <1>10 DEF ReleaseAps
<1>11. CASE FinishSpin
  BY <1>11 DEF FinishSpin
<1>12. CASE BspEnterXmon
  BY <1>12 DEF BspEnterXmon
<1>13. ASSUME NEW a \in Aps, Ap(a) PROVE LateInv'
  <2> USE DEF Move
  <2>1. CASE RunLowPage(a)
    BY <2>1 DEF RunLowPage
  <2>2. CASE MarkPresence(a)
    <3>1. /\ ap_presence_array[a] = 0
          /\ ap_presence_array'[a] = 1
          /\ \A k \in (0 .. MaxCpu - 1) \ {a} :
               ap_presence_array'[k] = ap_presence_array[k]
      BY <2>2 DEF MarkPresence
    <3>2. \A n \in 1 .. ap_num :
            \E b \in Aps : b < index /\ ap_presence_array'[b] = n
      <4> SUFFICES ASSUME NEW n \in 1 .. ap_num
                   PROVE  \E b \in Aps : b < index /\ ap_presence_array'[b] = n
        OBVIOUS
      <4>1. PICK b \in Aps : b < index /\ ap_presence_array[b] = n
        OBVIOUS
      <4>2. b < index /\ ap_presence_array'[b] = n
        BY <3>1, <4>1, SMTT(30)
      <4>3. QED
        BY <4>2
    <3>3. \A b, c \in Aps : /\ b # c
                            /\ ap_presence_array'[b] = ap_presence_array'[c]
                            => ap_presence_array'[b] \in {0, 1}
      <4> SUFFICES ASSUME NEW b \in Aps, NEW c \in Aps, b # c,
                          ap_presence_array'[b] = ap_presence_array'[c]
                   PROVE  ap_presence_array'[b] \in {0, 1}
        OBVIOUS
      <4>1. CASE b = a \/ c = a
        BY <3>1, <4>1
      <4>2. CASE b # a /\ c # a
        <5>1. /\ ap_presence_array'[b] = ap_presence_array[b]
              /\ ap_presence_array'[c] = ap_presence_array[c]
          BY <3>1, <4>2
        <5>2. QED
          BY <5>1
      <4>3. QED
        BY <4>1, <4>2
    <3>4. \A b \in Aps : apPc'[b] \in NotMarked => ap_presence_array'[b] = 0
      <4> SUFFICES ASSUME NEW b \in Aps, apPc'[b] \in NotMarked
                   PROVE  ap_presence_array'[b] = 0
        OBVIOUS
      <4>1. b # a /\ apPc'[b] = apPc[b]
        BY <2>2 DEF MarkPresence
      <4>2. QED
        BY <3>1, <4>1
    <3>5. QED
      BY <2>2, <3>1, <3>2, <3>3, <3>4, SMTT(30) DEF MarkPresence
  <2>3. CASE SeeRelease(a)
    BY <2>3 DEF SeeRelease
  <2>4. CASE TakeId(a)
    BY <2>4 DEF TakeId
  <2>5. CASE AcceptRun(a)
    BY <2>5 DEF AcceptRun
  <2>6. CASE CallUserFunc(a)
    BY <2>6 DEF CallUserFunc
  <2>7. QED
    BY <1>13, <2>1, <2>2, <2>3, <2>4, <2>5, <2>6 DEF Ap
<1>14. CASE UNCHANGED vars
  BY <1>14 DEF vars
<1>15. QED
  BY <1>1, <1>2, <1>3, <1>4, <1>5, <1>6, <1>7, <1>8, <1>9, <1>10, <1>11,
     <1>12, <1>13, <1>14 DEF Next, Bsp

(* bsp_enumerate_aps hands out every id up to the count, and only the id 1 *)
(* can be shared with a processor that answered too late.                  *)
THEOREM LateIds == Spec => []LateSharesOnlyFirst
<1>1. LateInv => LateSharesOnlyFirst
  BY DEF LateInv, LateSharesOnlyFirst
<1>2. QED
  BY <1>1, LateInvInit, LateInvNext, TypeCorrect, PTL DEF Spec

(* Nothing leaves the spin before the release, which follows the callback.  *)
LEMMA ReleaseInvInit == Init => ReleaseInv
  BY DEF Init, ReleaseInv, HasId

LEMMA ReleaseInvNext ==
  TypeOK /\ ReleaseInv /\ [Next]_vars => ReleaseInv'
<1> SUFFICES ASSUME TypeOK, ReleaseInv, [Next]_vars PROVE ReleaseInv'
  OBVIOUS
<1> USE MaxCpuAssumption, ApsAssumption
        DEF TypeOK, ReleaseInv, bspVars, apVars, HasId
<1>1. CASE NoStartup
  BY <1>1 DEF NoStartup
<1>2. CASE PrepareStartup
  BY <1>2 DEF PrepareStartup, InitializeEnvironment
<1>3. CASE SendInit
  BY <1>3 DEF SendInit
<1>4. CASE SendSipi1 \/ SendSipi2
  <2>1. \A a \in Aps : \/ apPc'[a] = apPc[a]
                       \/ apPc'[a] = "low"
    BY <1>4 DEF SendSipi1, SendSipi2, SendSipi
  <2>2. QED
    BY <1>4, <2>1 DEF SendSipi1, SendSipi2, SendSipi
<1>5. CASE FinishWait
  BY <1>5 DEF FinishWait, FirstIndex
<1>6. CASE EnumerateAps
  BY <1>6 DEF EnumerateAps, CountProcessor
<1>7. CASE ReturnCount
  BY <1>7 DEF ReturnCount
<1>8. CASE SetParams
  BY <1>8 DEF SetParams
<1>9. CASE PublishCallback
  BY <1>9 DEF PublishCallback
<1>10. CASE ReleaseAps
  BY <1>10 DEF ReleaseAps
<1>11. CASE FinishSpin
  BY <1>11 DEF FinishSpin
<1>12. CASE BspEnterXmon
  BY <1>12 DEF BspEnterXmon
<1>13. ASSUME NEW a \in Aps, Ap(a) PROVE ReleaseInv'
  <2> USE DEF Move
  <2>1. CASE RunLowPage(a)
    BY <2>1 DEF RunLowPage
  <2>2. CASE MarkPresence(a)
    BY <2>2 DEF MarkPresence
  <2>3. CASE SeeRelease(a)
    BY <2>3 DEF SeeRelease
  <2>4. CASE TakeId(a)
    BY <2>4 DEF TakeId
  <2>5. CASE AcceptRun(a)
    BY <2>5 DEF AcceptRun
  <2>6. CASE CallUserFunc(a)
    BY <2>6 DEF CallUserFunc
  <2>7. QED
    BY <1>13, <2>1, <2>2, <2>3, <2>4, <2>5, <2>6 DEF Ap
<1>14. CASE UNCHANGED vars
  BY <1>14 DEF vars
<1>15. QED
  BY <1>1, <1>2, <1>3, <1>4, <1>5, <1>6, <1>7, <1>8, <1>9, <1>10, <1>11,
     <1>12, <1>13, <1>14 DEF Next, Bsp

(* However late an AP is, the callback is set when it calls through it.    *)
THEOREM CallbackIsSet == Spec => []CallbackSet
<1>1. ReleaseInv => CallbackSet
  BY DEF ReleaseInv, CallbackSet, HasId
<1>2. QED
  BY <1>1, ReleaseInvInit, ReleaseInvNext, TypeCorrect, PTL DEF Spec

-----------------------------------------------------------------------------
(* Processors that answer in time, and a BSP with APIC id 0.               *)
LEMMA TimelyInvInit == Init => TimelyInv
  BY ApsAssumption
     DEF Init, TimelyInv, CountPhase, Started, Answered, HasId

LEMMA TimelyInvNext ==
  ASSUME Timely, 0 \notin Aps
  PROVE  TypeOK /\ LateInv /\ ReleaseInv /\ TimelyInv /\ [Next]_vars => TimelyInv'
<1> SUFFICES ASSUME TypeOK, LateInv, ReleaseInv, TimelyInv, [Next]_vars PROVE TimelyInv'
  OBVIOUS
<1> USE MaxCpuAssumption, ApsAssumption
        DEF TypeOK, LateInv, ReleaseInv, TimelyInv, CountPhase, bspVars,
            apVars, Started, NotMarked, OnItsWay, InLowPage, HasId, Answered
<1>1. CASE NoStartup
  BY <1>1 DEF NoStartup
<1>2. CASE PrepareStartup
  BY <1>2 DEF PrepareStartup, InitializeEnvironment
<1>3. CASE SendInit
  BY <1>3 DEF SendInit
<1>4. CASE SendSipi1 \/ SendSipi2
  <2>1. \A a \in Aps : \/ apPc'[a] = apPc[a]
                       \/ apPc'[a] = "low"
    BY <1>4 DEF SendSipi1, SendSipi2, SendSipi
  <2>2. QED
    BY <1>4, <2>1 DEF SendSipi1, SendSipi2, SendSipi
<1>5. CASE FinishWait
  BY <1>5 DEF FinishWait, FirstIndex, WaitElapsed
<1>6. CASE EnumerateAps
  <2>1. CASE ap_presence_array[index] = 0
    BY <1>6, <2>1, SMTT(30) DEF EnumerateAps, CountProcessor
  <2>2. CASE ap_presence_array[index] # 0
    <3>1. /\ index \in Aps
          /\ ap_num' = ap_num + 1
          /\ ap_presence_array' =
               [ap_presence_array EXCEPT ![index] = ap_num + 1]
          /\ index' = index + 1
          /\ bspPc = "enumerate"
          /\ UNCHANGED <<bspPc, apPc, apId>>
      BY <1>6, <2>2 DEF EnumerateAps, CountProcessor
    <3>2. /\ ap_presence_array'[index] = ap_num + 1
          /\ \A k \in (0 .. MaxCpu - 1) \ {index} :
               ap_presence_array'[k] = ap_presence_array[k]
      BY <3>1
    <3>3. \A a \in Aps : a < index + 1 =>
            ap_presence_array'[a] <= ap_num + 1
      BY <3>1, <3>2
    <3>4. ASSUME NEW a \in Aps, NEW b \in Aps, a < index + 1, b < index + 1,
                 b # a, ap_presence_array'[b] = ap_presence_array'[a]
          PROVE  ap_presence_array'[a] = 0
      <4>1. CASE a = index
        <5>1. b < index
          BY <3>4, <4>1
        <5>2. ap_presence_array'[b] <= ap_num
          BY <3>1, <3>2, <5>1
        <5>3. QED
          BY <3>2, <3>4, <4>1, <5>2
      <4>2. CASE b = index
        <5>1. a < index
          BY <3>4, <4>2
        <5>2. ap_presence_array'[a] <= ap_num
          BY <3>1, <3>2, <5>1
        <5>3. QED
          BY <3>2, <3>4, <4>2, <5>2
      <4>3. CASE a # index /\ b # index
        BY <3>1, <3>2, <3>4, <4>3
      <4>4. QED
        BY <4>1, <4>2, <4>3
    <3>5. \A a \in Aps : apPc[a] \in Answered => ap_presence_array'[a] # 0
      BY <3>1, <3>2
    <3>6. \A a \in Aps : apPc[a] \notin HasId
      BY <3>1
    <3>7. QED
      BY <3>1, <3>3, <3>4, <3>5, <3>6
  <2>3. QED
    BY <2>1, <2>2
<1>7. CASE ReturnCount
  BY <1>7 DEF ReturnCount
<1>8. CASE SetParams
  BY <1>8 DEF SetParams
<1>9. CASE PublishCallback
  BY <1>9 DEF PublishCallback
<1>10. CASE ReleaseAps
  BY <1>10 DEF ReleaseAps
<1>11. CASE FinishSpin
  BY <1>11 DEF FinishSpin
<1>12. CASE BspEnterXmon
  BY <1>12 DEF BspEnterXmon
<1>13. ASSUME NEW a \in Aps, Ap(a) PROVE TimelyInv'
  <2> USE DEF Move
  <2>1. CASE RunLowPage(a)
    BY <2>1 DEF RunLowPage
  <2>2. CASE MarkPresence(a)
    <3>1. bspPc \notin CountPhase
      BY <2>2 DEF MarkPresence
    <3>2. QED
      BY <2>2, <3>1, SMTT(30) DEF MarkPresence
  <2>3. CASE SeeRelease(a)
    BY <2>3 DEF SeeRelease
  <2>4. CASE TakeId(a)
    BY <2>4 DEF TakeId
  <2>5. CASE AcceptRun(a)
    BY <2>5 DEF AcceptRun
  <2>6. CASE CallUserFunc(a)
    BY <2>6 DEF CallUserFunc
  <2>7. QED
    BY <1>13, <2>1, <2>2, <2>3, <2>4, <2>5, <2>6 DEF Ap
<1>14. CASE UNCHANGED vars
  BY <1>14 DEF vars
<1>15. QED
  BY <1>1, <1>2, <1>3, <1>4, <1>5, <1>6, <1>7, <1>8, <1>9, <1>10, <1>11,
     <1>12, <1>13, <1>14 DEF Next, Bsp

(* The ordered ids are distinct, and so are the stacks.                    *)
THEOREM IdsUnique ==
  ASSUME Timely, 0 \notin Aps
  PROVE  Spec => []OrderedIdsUnique
<1>1. TypeOK /\ LateInv /\ ReleaseInv /\ TimelyInv => OrderedIdsUnique
  <2> SUFFICES ASSUME TypeOK, LateInv, ReleaseInv, TimelyInv,
                      NEW a \in Aps, apPc[a] \in HasId
               PROVE  /\ apId[a] \in 1 .. g_aps_counter
                      /\ \A b \in Aps \ {a} : apPc[b] \in HasId => apId[b] # apId[a]
    BY DEF OrderedIdsUnique
  <2>1. bspPc \in Started
    BY DEF ReleaseInv, Started
  <2>2. \A b \in Aps : apPc[b] \in HasId =>
          /\ apId[b] = ap_presence_array[b]
          /\ ap_presence_array[b] # 0
          /\ b < index
    BY <2>1 DEF TimelyInv, HasId, Answered
  <2>3. ap_presence_array[a] \in 1 .. ap_num
    BY <2>1, <2>2, ApsAssumption DEF TimelyInv, CountPhase, TypeOK
  <2>4. QED
    BY <2>1, <2>2, <2>3 DEF TimelyInv, CountPhase, LateInv
<1>2. QED
  BY <1>1, LateInvInit, LateInvNext, ReleaseInvInit, ReleaseInvNext,
     TimelyInvInit, TimelyInvNext, TypeCorrect, PTL DEF Spec

(* The two sets whose members are counted are finite.                      *)
LEMMA CountedFinite ==
  /\ IsFiniteSet(AcceptedAps) /\ IsFiniteSet(CountedAps)
  /\ IsFiniteSet(AcceptedAps') /\ IsFiniteSet(CountedAps')
  BY ApsFinite DEF AcceptedAps, CountedAps

LEMMA CountInvInit == Init => CountInv
<1> SUFFICES ASSUME Init PROVE CountInv
  OBVIOUS
<1>1. AcceptedAps = {}
  BY DEF Init, AcceptedAps, Accepted
<1>2. QED
  BY <1>1, FS_EmptySet DEF Init, CountInv, CountPhase, Started

(* When the BSP has left the spin, every processor that answered has       *)
(* accepted: the accepted ones are among the counted ones and as many.     *)
LEMMA AcceptedIsPresent ==
  ASSUME TypeOK, LateInv, ReleaseInv, TimelyInv, CountInv,
         bspPc \in {"enter", "xmon"}
  PROVE  AcceptedAps = {a \in Aps : ap_presence_array[a] # 0}
<1> DEFINE Present == {a \in Aps : ap_presence_array[a] # 0}
<1>1. Present = CountedAps
  BY DEF TimelyInv, CountedAps, Started
<1>2. AcceptedAps \subseteq Present
  BY DEF AcceptedAps, TimelyInv, Accepted, Answered
<1>3. Cardinality(AcceptedAps) = Cardinality(Present)
  BY <1>1 DEF CountInv, CountPhase, Started
<1>4. QED
  BY <1>1, <1>2, <1>3, CountedFinite, FS_Subset

LEMMA AllHaveAccepted ==
  ASSUME TypeOK, LateInv, ReleaseInv, TimelyInv, CountInv,
         bspPc \in {"enter", "xmon"}
  PROVE  \A a \in Aps : apPc[a] \in Answered => apPc[a] \in Accepted
  BY AcceptedIsPresent DEF AcceptedAps, TimelyInv

LEMMA CountInvNext ==
  ASSUME Timely, 0 \notin Aps
  PROVE  TypeOK /\ LateInv /\ ReleaseInv /\ TimelyInv /\ CountInv /\ [Next]_vars => CountInv'
<1> SUFFICES ASSUME TypeOK, LateInv, ReleaseInv, TimelyInv, CountInv, [Next]_vars PROVE CountInv'
  OBVIOUS
<1> USE MaxCpuAssumption, ApsAssumption
        DEF TypeOK, LateInv, ReleaseInv, TimelyInv, CountPhase, bspVars,
            apVars, Started, NotMarked, OnItsWay, InLowPage, HasId, Answered
<1>1. CASE NoStartup
  <2>1. AcceptedAps' = AcceptedAps
    BY <1>1 DEF NoStartup, AcceptedAps
  <2>2. CountedAps' = {}
    BY <1>1 DEF NoStartup, CountedAps
  <2>3. QED
    BY <1>1, <2>1, <2>2, FS_EmptySet DEF NoStartup, CountInv
<1>2. CASE PrepareStartup
  <2>1. AcceptedAps' = {}
    BY <1>2 DEF PrepareStartup, AcceptedAps, Accepted
  <2>2. QED
    BY <1>2, <2>1, FS_EmptySet DEF PrepareStartup, InitializeEnvironment, CountInv
<1>3. CASE SendInit
  <2>1. AcceptedAps' = {} /\ AcceptedAps = {}
    <3>1. /\ bspPc = "init"
          /\ apPc' = [a \in Aps |-> IF a \in Targets THEN "waitsipi" ELSE apPc[a]]
      BY <1>3 DEF SendInit
    <3>2. \A a \in Aps : apPc[a] \in {"firmware", "waitsipi"}
      BY <3>1
    <3>3. ASSUME NEW a \in Aps PROVE apPc'[a] \notin Accepted
      <4>1. apPc'[a] = "waitsipi" \/ apPc'[a] = apPc[a]
        BY <3>1
      <4>2. QED
        BY <3>2, <4>1 DEF Accepted
    <3>4. AcceptedAps = {}
      BY <3>2 DEF AcceptedAps, Accepted
    <3>5. AcceptedAps' = {}
      BY <3>3 DEF AcceptedAps
    <3>6. QED
      BY <3>4, <3>5
  <2>2. /\ bspPc' = "sipi1" /\ UNCHANGED g_ready_counter
    BY <1>3 DEF SendInit
  <2>3. QED
    BY <2>1, <2>2 DEF CountInv
<1>4. CASE SendSipi1 \/ SendSipi2
  <2>1. \A a \in Aps : \/ apPc'[a] = apPc[a]
                       \/ apPc[a] = "waitsipi" /\ apPc'[a] = "low"
    BY <1>4 DEF SendSipi1, SendSipi2, SendSipi
  <2>2. AcceptedAps' = AcceptedAps
    BY <2>1 DEF AcceptedAps, Accepted
  <2>3. CASE SendSipi1
    BY <2>2, <2>3 DEF SendSipi1, SendSipi, CountInv
  <2>4. CASE SendSipi2
    BY <2>2, <2>4 DEF SendSipi2, SendSipi, CountInv
  <2>5. QED
    BY <1>4, <2>3, <2>4
<1>5. CASE FinishWait
  <2>1. AcceptedAps' = AcceptedAps
    BY <1>5 DEF FinishWait, AcceptedAps
  <2>2. CountedAps' = {}
    <3>1. index' = 1 /\ \A a \in Aps : a >= 1
      BY <1>5 DEF FinishWait, FirstIndex
    <3>2. \A a \in Aps : ~(a < index')
      BY <3>1
    <3>3. QED
      BY <3>2 DEF CountedAps
  <2>3. QED
    BY <1>5, <2>1, <2>2, FS_EmptySet DEF FinishWait, CountInv
<1>6. CASE EnumerateAps
  <2>1. AcceptedAps' = AcceptedAps
    BY <1>6 DEF EnumerateAps, AcceptedAps
  <2>2. CASE ap_presence_array[index] = 0
    <3>0. \A a \in Aps : /\ ap_presence_array'[a] = ap_presence_array[a]
                         /\ a < index' /\ a # index <=> a < index
      <4>1. /\ ap_presence_array' = ap_presence_array
            /\ index' = index + 1
        BY <1>6, <2>2 DEF EnumerateAps, CountProcessor
      <4>2. QED
        BY <4>1
    <3>1. CountedAps' = CountedAps
      <4>1. \A a \in Aps : a < index' /\ ap_presence_array'[a] # 0
                            <=> a < index /\ ap_presence_array[a] # 0
        BY <2>2, <3>0
      <4>2. QED
        BY <4>1 DEF CountedAps
    <3>2. /\ bspPc = "enumerate"
          /\ UNCHANGED <<bspPc, ap_num, g_ready_counter, application_procesors>>
      BY <1>6, <2>2 DEF EnumerateAps, CountProcessor
    <3>3. QED
      BY <2>1, <3>1, <3>2 DEF CountInv
  <2>3. CASE ap_presence_array[index] # 0
    <3>1. /\ index \in Aps
          /\ ap_num' = ap_num + 1
          /\ ap_presence_array' =
               [ap_presence_array EXCEPT ![index] = ap_num + 1]
          /\ index' = index + 1
          /\ bspPc = "enumerate"
          /\ UNCHANGED <<bspPc, apPc, apId, g_ready_counter>>
      BY <1>6, <2>3 DEF EnumerateAps, CountProcessor
    <3>2. /\ ap_presence_array'[index] = ap_num + 1
          /\ \A k \in (0 .. MaxCpu - 1) \ {index} :
               ap_presence_array'[k] = ap_presence_array[k]
      BY <3>1
    <3>3. CountedAps' = CountedAps \union {index}
      <4>1. \A a \in Aps : /\ a < index + 1 <=> a < index \/ a = index
                           /\ a # index => ap_presence_array'[a] = ap_presence_array[a]
        BY <3>2
      <4>2. ap_presence_array'[index] # 0
        BY <3>2
      <4>3. \A a \in Aps : a < index' /\ ap_presence_array'[a] # 0
                           <=> a \in CountedAps \/ a = index
        BY <3>1, <4>1, <4>2 DEF CountedAps
      <4>4. CountedAps' \subseteq Aps /\ CountedAps \union {index} \subseteq Aps
        BY <3>1 DEF CountedAps
      <4>5. \A a \in Aps : a \in CountedAps' <=> a \in CountedAps \union {index}
        BY <4>3, Zenon DEF CountedAps
      <4>6. QED
        BY <4>4, <4>5
    <3>4. index \notin CountedAps
      BY DEF CountedAps
    <3>5. Cardinality(CountedAps') = Cardinality(CountedAps) + 1
      BY <3>3, <3>4, CountedFinite, FS_AddElement
    <3>6. QED
      BY <2>1, <3>1, <3>5 DEF CountInv
  <2>4. QED
    BY <2>2, <2>3
<1>7. CASE ReturnCount
  <2>1. AcceptedAps' = AcceptedAps /\ CountedAps' = CountedAps
    BY <1>7 DEF ReturnCount, AcceptedAps, CountedAps, Accepted
  <2>2. QED
    BY <1>7, <2>1 DEF ReturnCount, CountInv
<1>8. CASE SetParams
  <2>1. AcceptedAps' = AcceptedAps /\ CountedAps' = CountedAps
    BY <1>8 DEF SetParams, AcceptedAps, CountedAps
  <2>2. AcceptedAps = {}
    BY <1>8 DEF SetParams, AcceptedAps, Accepted
  <2>3. g_ready_counter = 0
    BY <2>2, FS_EmptySet DEF CountInv
  <2>4. QED
    BY <1>8, <2>1, <2>3 DEF SetParams, CountInv
<1>9. CASE PublishCallback
  <2>1. AcceptedAps' = AcceptedAps /\ CountedAps' = CountedAps
    BY <1>9 DEF PublishCallback, AcceptedAps, CountedAps, Accepted
  <2>2. QED
    BY <1>9, <2>1 DEF PublishCallback, CountInv
<1>10. CASE ReleaseAps
  <2>1. AcceptedAps' = AcceptedAps /\ CountedAps' = CountedAps
    BY <1>10 DEF ReleaseAps, AcceptedAps, CountedAps, Accepted
  <2>2. QED
    BY <1>10, <2>1 DEF ReleaseAps, CountInv
<1>11. CASE FinishSpin
  <2>1. AcceptedAps' = AcceptedAps /\ CountedAps' = CountedAps
    BY <1>11 DEF FinishSpin, AllReady, AcceptedAps, CountedAps, Accepted
  <2>2. QED
    BY <1>11, <2>1 DEF FinishSpin, AllReady, CountInv
<1>12. CASE BspEnterXmon
  <2>1. AcceptedAps' = AcceptedAps /\ CountedAps' = CountedAps
    BY <1>12 DEF BspEnterXmon, AcceptedAps, CountedAps, Accepted
  <2>2. QED
    BY <1>12, <2>1 DEF BspEnterXmon, CountInv
<1>13. ASSUME NEW a \in Aps, Ap(a) PROVE CountInv'
  <2> USE DEF Move
  <2>1. CASE RunLowPage(a)
    <3>1. AcceptedAps' = AcceptedAps /\ CountedAps' = CountedAps
      <4>1. /\ \A b \in Aps : apPc'[b] \in Accepted <=> apPc[b] \in Accepted
            /\ UNCHANGED <<index, ap_presence_array>>
        BY <2>1 DEF RunLowPage, Accepted
      <4>2. AcceptedAps' = AcceptedAps
        BY <4>1 DEF AcceptedAps
      <4>3. CountedAps' = CountedAps
        BY <4>1 DEF CountedAps
      <4>4. QED
        BY <4>2, <4>3
    <3>2. QED
      BY <2>1, <3>1 DEF RunLowPage, Answered, CountInv
  <2>2. CASE MarkPresence(a)
    <3>1. AcceptedAps' = AcceptedAps
      BY <2>2 DEF MarkPresence, AcceptedAps, Accepted
    <3>2. bspPc \notin CountPhase
      BY <2>2 DEF MarkPresence
    <3>3. QED
      BY <2>2, <3>1, <3>2 DEF MarkPresence, CountInv
  <2>3. CASE SeeRelease(a)
    <3>1. AcceptedAps' = AcceptedAps /\ CountedAps' = CountedAps
      BY <2>3 DEF SeeRelease, Answered, AcceptedAps, CountedAps, Accepted
    <3>2. QED
      BY <2>3, <3>1 DEF SeeRelease, Answered, CountInv
  <2>4. CASE TakeId(a)
    <3>1. AcceptedAps' = AcceptedAps /\ CountedAps' = CountedAps
      BY <2>4 DEF TakeId, Answered, AcceptedAps, CountedAps, Accepted
    <3>2. QED
      BY <2>4, <3>1 DEF TakeId, Answered, CountInv
  <2>5. CASE AcceptRun(a)
    <3>1. CountedAps' = CountedAps
      BY <2>5 DEF AcceptRun, CountedAps
    <3>2. AcceptedAps' = AcceptedAps \union {a} /\ a \notin AcceptedAps
      BY <2>5 DEF AcceptRun, AcceptedAps, Accepted
    <3>3. Cardinality(AcceptedAps') = Cardinality(AcceptedAps) + 1
      BY <3>2, CountedFinite, FS_AddElement
    <3>4. bspPc \notin {"enter", "xmon"}
      BY <2>5, AllHaveAccepted DEF AcceptRun, Accepted
    <3>5. QED
      BY <2>5, <3>1, <3>3, <3>4 DEF AcceptRun, CountInv
  <2>6. CASE CallUserFunc(a)
    <3>1. g_user_func
      BY <2>6 DEF CallUserFunc
    <3>2. AcceptedAps' = AcceptedAps /\ CountedAps' = CountedAps
      BY <2>6, <3>1 DEF CallUserFunc, AcceptedAps, CountedAps, Accepted
    <3>3. QED
      BY <2>6, <3>2 DEF CallUserFunc, CountInv
  <2>7. QED
    BY <1>13, <2>1, <2>2, <2>3, <2>4, <2>5, <2>6 DEF Ap
<1>14. CASE UNCHANGED vars
  <2>1. AcceptedAps' = AcceptedAps /\ CountedAps' = CountedAps
    BY <1>14 DEF vars, AcceptedAps, CountedAps
  <2>2. QED
    BY <1>14, <2>1 DEF vars, CountInv
<1>15. QED
  BY <1>1, <1>2, <1>3, <1>4, <1>5, <1>6, <1>7, <1>8, <1>9, <1>10, <1>11,
     <1>12, <1>13, <1>14 DEF Next, Bsp

(* The BSP leaves the spin of ap_procs_run for xmon when every AP that      *)
(* answered has accepted.                                                  *)
THEOREM WaitsForAll ==
  ASSUME Timely, 0 \notin Aps
  PROVE  Spec => []AllAcceptedBeforeXmon
<1>1. TypeOK /\ LateInv /\ ReleaseInv /\ TimelyInv /\ CountInv
        => AllAcceptedBeforeXmon
  BY AllHaveAccepted DEF AllAcceptedBeforeXmon
<1>2. QED
  BY <1>1, LateInvInit, LateInvNext, ReleaseInvInit, ReleaseInvNext,
     TimelyInvInit, TimelyInvNext, CountInvInit, CountInvNext, TypeCorrect,
     PTL DEF Spec


-----------------------------------------------------------------------------
(* The rendezvous implements XmonLaunch.                                   *)

XmonAps == {b \in Aps : apPc[b] = "xmon"}

LEMMA LaunchInit == Init => Launch!Init
<1> SUFFICES ASSUME Init PROVE Launch!Init
  OBVIOUS
<1>1. {b \in Aps : apPc[b] \in Accepted} = {} /\ {b \in Aps : apPc[b] = "xmon"} = {}
  BY DEF Init, Accepted
<1>2. QED
  BY <1>1 DEF Init, Launch!Init, Entered, Started

LEMMA LaunchNext ==
  ASSUME TypeOK, LateInv, ReleaseInv, TimelyInv, CountInv, OrderedIdsUnique,
         [Next]_vars
  PROVE  [Launch!Next]_(Launch!vars)
<1> USE MaxCpuAssumption, ApsAssumption
<1> DEFINE count == IF bspPc \in Started THEN g_aps_counter + 1 ELSE 0
           committed == {apId[a] : a \in AcceptedAps}
           fromAps == {apId[a] : a \in XmonAps}
           fromBsp == IF bspPc = "xmon" THEN {0} ELSE {}
<1>a. Entered = fromAps \union fromBsp
  BY DEF Entered, XmonAps
<1>b. ASSUME UNCHANGED <<count, committed, fromAps, fromBsp>>
      PROVE  UNCHANGED Launch!vars
  BY <1>b DEF Launch!vars, Entered, XmonAps, AcceptedAps
<1>c. ASSUME bspPc \notin {"spin", "enter", "xmon"}
      PROVE  AcceptedAps = {} /\ XmonAps = {}
  BY <1>c DEF ReleaseInv, HasId, AcceptedAps, XmonAps, Accepted
<1>1. CASE \/ PrepareStartup \/ FinishWait \/ EnumerateAps \/ SetParams
           \/ PublishCallback \/ ReleaseAps \/ FinishSpin
  <2>1. /\ UNCHANGED <<apPc, apId, g_aps_counter>>
        /\ bspPc # "xmon" /\ bspPc' # "xmon"
        /\ bspPc' \in Started <=> bspPc \in Started
    <3>1. CASE PrepareStartup \/ FinishWait \/ EnumerateAps
      BY <3>1 DEF PrepareStartup, FinishWait, EnumerateAps, Started, apVars, bspVars
    <3>2. CASE SetParams \/ PublishCallback \/ ReleaseAps \/ FinishSpin
      BY <3>2 DEF SetParams, PublishCallback, ReleaseAps, FinishSpin, Started,
         apVars, bspVars
    <3>3. QED
      BY <1>1, <3>1, <3>2
  <2>2. UNCHANGED <<AcceptedAps, XmonAps>>
    BY <2>1 DEF AcceptedAps, XmonAps
  <2>3. UNCHANGED <<count, committed, fromAps, fromBsp>>
    BY <2>1, <2>2
  <2>4. QED
    BY <1>b, <2>3
<1>2. CASE SendInit \/ SendSipi1 \/ SendSipi2
  <2>1. /\ UNCHANGED <<apId, g_aps_counter>>
        /\ bspPc \notin Started /\ bspPc' \notin Started
        /\ \A a \in Aps : \/ apPc'[a] = apPc[a]
                          \/ apPc'[a] \in {"waitsipi", "low"}
    BY <1>2 DEF SendInit, SendSipi1, SendSipi2, SendSipi, Started, bspVars
  <2>2. AcceptedAps = {} /\ XmonAps = {}
    BY <1>c, <2>1 DEF Started
  <2>3. AcceptedAps' = {} /\ XmonAps' = {}
    BY <2>1, <2>2 DEF AcceptedAps, XmonAps, Accepted
  <2>4. bspPc # "xmon" /\ bspPc' # "xmon"
    BY <2>1 DEF Started
  <2>5. UNCHANGED <<count, committed, fromAps, fromBsp>>
    BY <2>1, <2>2, <2>3, <2>4
  <2>6. QED
    BY <1>b, <2>5
<1>3. CASE NoStartup \/ ReturnCount
  <2>1. /\ UNCHANGED <<apPc, apId>>
        /\ bspPc \notin Started /\ bspPc' \in Started
        /\ bspPc # "xmon" /\ bspPc' # "xmon"
        /\ g_aps_counter' + 1 \in 1 .. MaxCpu
    BY <1>3, SMTT(30) DEF NoStartup, ReturnCount, Started, apVars, TypeOK
  <2>2. UNCHANGED <<AcceptedAps, XmonAps>>
    BY <2>1 DEF AcceptedAps, XmonAps
  <2>3. count = 0 /\ count' \in 1 .. MaxCpu
    <3>1. count = 0 /\ count' = g_aps_counter' + 1
      BY <2>1 DEF Started
    <3>2. QED
      BY <2>1, <3>1
  <2>4. UNCHANGED <<committed, fromAps, fromBsp>>
    BY <2>1, <2>2
  <2>5. Launch!Decide
    BY <1>a, <2>3, <2>4 DEF Launch!Decide, AcceptedAps, Entered, XmonAps
  <2>6. QED
    BY <2>5 DEF Launch!Next
<1>4. CASE BspEnterXmon
  <2>1. /\ UNCHANGED <<apPc, apId, g_aps_counter>>
        /\ bspPc = "enter" /\ bspPc' = "xmon"
    BY <1>4 DEF BspEnterXmon, apVars, bspVars
  <2>2. UNCHANGED <<AcceptedAps, XmonAps>>
    BY <2>1 DEF AcceptedAps, XmonAps
  <2>3. UNCHANGED <<count, committed, fromAps>>
    BY <2>1, <2>2 DEF Started
  <2>4. \A a \in AcceptedAps : apId[a] \in 1 .. g_aps_counter
    BY DEF AcceptedAps, Accepted, HasId, OrderedIdsUnique
  <2>5. ASSUME NEW n \in 1 .. g_aps_counter
        PROVE  n \in committed
    <3>1. PICK a \in Aps : a < index /\ ap_presence_array[a] = n
      BY <2>1 DEF LateInv, Started
    <3>2. a \in AcceptedAps
      BY <2>1, <3>1, AcceptedIsPresent
    <3>3. apId[a] = n
      BY <3>1, <3>2 DEF AcceptedAps, Accepted, HasId, TimelyInv
    <3>4. QED
      BY <3>2, <3>3
  <2>6. committed = 1 .. g_aps_counter
    BY <2>4, <2>5
  <2>7. count = g_aps_counter + 1 /\ g_aps_counter \in Nat
    BY <2>1 DEF Started, TypeOK
  <2>8. 0 \notin Entered
    <3>1. \A a \in XmonAps : apId[a] # 0
      BY DEF XmonAps, HasId, OrderedIdsUnique
    <3>2. 0 \notin fromAps
      BY <3>1
    <3>3. QED
      BY <1>a, <2>1, <3>2
  <2>9. Entered' = Entered \union {0}
    BY <1>a, <2>1, <2>3 DEF Entered, XmonAps
  <2>10. Launch!EnterBsp
    BY <2>3, <2>6, <2>7, <2>8, <2>9 DEF Launch!EnterBsp, AcceptedAps
  <2>11. QED
    BY <2>10 DEF Launch!Next
<1>5. ASSUME NEW a \in Aps, Ap(a) PROVE [Launch!Next]_(Launch!vars)
  <2>1. /\ bspPc' = bspPc /\ g_aps_counter' = g_aps_counter
    BY <1>5 DEF Ap, RunLowPage, MarkPresence, SeeRelease, TakeId, AcceptRun,
       CallUserFunc, bspVars
  <2>2. CASE RunLowPage(a) \/ MarkPresence(a) \/ SeeRelease(a) \/ TakeId(a)
    <3>1. /\ apPc[a] \in {"low", "mark", "spin", "takeid"}
          /\ apPc'[a] \in {"mark", "lost", "spin", "takeid", "accept"}
          /\ \A b \in Aps \ {a} : apPc'[b] = apPc[b] /\ apId'[b] = apId[b]
      BY <2>2 DEF RunLowPage, MarkPresence, SeeRelease, TakeId, Move, TypeOK
    <3>2. /\ UNCHANGED <<AcceptedAps, XmonAps>>
          /\ a \notin AcceptedAps /\ a \notin XmonAps
      BY <3>1 DEF AcceptedAps, XmonAps, Accepted
    <3>3. /\ \A b \in AcceptedAps : apId'[b] = apId[b]
          /\ \A b \in XmonAps : apId'[b] = apId[b]
      BY <3>1, <3>2 DEF AcceptedAps, XmonAps
    <3>4. UNCHANGED <<committed, fromAps>>
      BY <3>2, <3>3
    <3>5. UNCHANGED <<count, committed, fromAps, fromBsp>>
      BY <2>1, <3>4
    <3>6. QED
      BY <1>b, <3>5
  <2>3. CASE AcceptRun(a)
    <3>1. /\ apPc[a] = "accept" /\ apPc' = [apPc EXCEPT ![a] = "ready"]
          /\ apId' = apId
      BY <2>3 DEF AcceptRun, Move
    <3>2. /\ AcceptedAps' = AcceptedAps \union {a}
          /\ XmonAps' = XmonAps
      BY <3>1 DEF AcceptedAps, XmonAps, Accepted, TypeOK
    <3>3. /\ committed' = committed \union {apId[a]}
          /\ UNCHANGED <<count, fromAps, fromBsp>>
      BY <2>1, <3>1, <3>2
    <3>4. /\ apId[a] \in 1 .. g_aps_counter
          /\ apId[a] \notin committed
      BY <3>1 DEF OrderedIdsUnique, HasId, AcceptedAps, Accepted
    <3>5. bspPc \in Started
      BY <3>1 DEF ReleaseInv, HasId, Started
    <3>6. count - 1 = g_aps_counter /\ g_aps_counter \in 0 .. MaxCpu - 1
      BY <3>5 DEF TypeOK
    <3>7. Entered' = Entered
      BY <1>a, <3>3 DEF Entered, XmonAps
    <3>8. PICK c \in 1 .. MaxCpu - 1 : c = apId[a]
      BY <3>4 DEF TypeOK
    <3>9. Launch!Commit(c)
      BY <3>3, <3>4, <3>6, <3>7, <3>8 DEF Launch!Commit, AcceptedAps
    <3>10. QED
      BY <3>9 DEF Launch!Next
  <2>4. CASE CallUserFunc(a)
    <3>1. g_user_func /\ apPc[a] = "ready"
      BY <2>4 DEF CallUserFunc, Move, ReleaseInv, HasId
    <3>2. /\ apPc' = [apPc EXCEPT ![a] = "xmon"]
          /\ apId' = apId
      BY <2>4, <3>1 DEF CallUserFunc, Move
    <3>3. /\ AcceptedAps' = AcceptedAps /\ a \in AcceptedAps
          /\ XmonAps' = XmonAps \union {a} /\ a \notin XmonAps
      BY <3>1, <3>2 DEF AcceptedAps, XmonAps, Accepted, TypeOK
    <3>4. /\ fromAps' = fromAps \union {apId[a]}
          /\ UNCHANGED <<count, committed, fromBsp>>
      BY <2>1, <3>2, <3>3
    <3>5. apId[a] \in committed
      BY <3>3
    <3>6. /\ apId[a] \in 1 .. g_aps_counter
          /\ apId[a] \notin fromAps
      BY <3>1 DEF OrderedIdsUnique, HasId, XmonAps
    <3>7. apId[a] \in committed \ Entered
      BY <1>a, <3>5, <3>6
    <3>8. Entered' = Entered \union {apId[a]}
      BY <1>a, <3>4 DEF Entered, XmonAps
    <3>9. PICK c \in 1 .. MaxCpu - 1 : c = apId[a]
      BY <3>6 DEF TypeOK
    <3>10. Launch!Enter(c)
      BY <3>4, <3>7, <3>8, <3>9 DEF Launch!Enter, AcceptedAps
    <3>11. QED
      BY <3>10 DEF Launch!Next
  <2>5. QED
    BY <1>5, <2>2, <2>3, <2>4 DEF Ap
<1>6. CASE UNCHANGED vars
  <2>1. UNCHANGED <<AcceptedAps, XmonAps, apId, bspPc, g_aps_counter>>
    BY <1>6 DEF vars, apVars, bspVars, AcceptedAps, XmonAps
  <2>2. UNCHANGED <<count, committed, fromAps, fromBsp>>
    BY <2>1
  <2>3. QED
    BY <1>b, <2>2
<1>7. QED
  BY <1>1, <1>2, <1>3, <1>4, <1>5, <1>6 DEF Next, Bsp

(* Every processor enters xmon once, under a cpu id of its own below the   *)
(* count, and the BSP only when all the ids are taken.                     *)
THEOREM LaunchImplemented ==
  ASSUME Timely, 0 \notin Aps
  PROVE  Spec => LaunchSpec
<1>1. Spec => [](TypeOK /\ LateInv /\ ReleaseInv /\ TimelyInv /\ CountInv)
  BY LateInvInit, LateInvNext, ReleaseInvInit, ReleaseInvNext, TimelyInvInit,
     TimelyInvNext, CountInvInit, CountInvNext, TypeCorrect, PTL DEF Spec
<1>2. TypeOK /\ LateInv /\ ReleaseInv /\ TimelyInv /\ CountInv
        /\ OrderedIdsUnique /\ [Next]_vars => [Launch!Next]_(Launch!vars)
  BY LaunchNext
<1>3. QED
  BY <1>1, <1>2, LaunchInit, IdsUnique, PTL DEF Spec, LaunchSpec, Launch!Spec
=============================================================================
