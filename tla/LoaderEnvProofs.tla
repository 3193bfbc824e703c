-------------------------- MODULE LoaderEnvProofs ---------------------------
(***************************************************************************)
(* The users of the loader's heap, for every heap, page size, GDT, memory  *)
(* map and number of gigabytes to map: their blocks are apart, the guest   *)
(* resumes preload, and the tables of the 64-bit switch stay what they     *)
(* were made to be, whatever is allocated between or after.                *)
(***************************************************************************)
EXTENDS LoaderEnv, LoaderHeapProofs

LEMMA EnvTyped ==
  /\ CpuStateSize \in Nat /\ Multiple(CpuStateSize, Alignment)
  /\ GuestSize \in Nat /\ Multiple(GuestSize, Alignment)
  /\ MapEntry \in Nat /\ MapEntry > 6
  /\ TableEntry \in Nat \ {0} /\ TableEntry + 2 <= MapEntry
  /\ DescSizes \subseteq Nat \ {0}
  /\ \A map \in Maps : Len(map) \in Nat
  /\ Granule \in Nat \ {0}
  BY EnvAssumption

-----------------------------------------------------------------------------
(* The heap under all its users.                                           *)
MapTyped == efi_map \in [entries : Maps, desc_size : DescSizes]
HeapMoves == \E at, size : Takes(at, size)

LEMMA TableBytesTyped ==
  ASSUME MapTyped
  PROVE  /\ MapSize \in Nat /\ TableBytes \in Nat /\ MapSize <= TableBytes
         /\ Multiple(TableBytes, Alignment)
<1>1. Len(efi_map.entries) \in Nat /\ efi_map.desc_size \in Nat
  BY EnvTyped DEF MapTyped
<1>2. MapSize \in Nat  BY <1>1 DEF MapSize
<1> QED
  BY <1>2, ConstantsTyped, AlignForwardUp, MultipleTransitive DEF TableBytes

LEMMA AllocMoves ==
  ASSUME HeapInv, NEW size \in Nat, Multiple(size, Alignment),
         AllocateMemory(size) \/ UNCHANGED heapVars
  PROVE  HeapMoves \/ UNCHANGED heapVars
  BY AllocateMemoryTakes DEF HeapMoves

LEMMA PageMoves ==
  ASSUME HeapInv, MonPageAlloc(1)
  PROVE  Takes(PageAddress, PageSize)
<1>1. 1 * PageSize = PageSize  BY ConstantsTyped
<1> QED  BY <1>1, MonPageAllocTakes DEF PageAddress

LEMMA EnvMoves ==
  ASSUME HeapInv, MapTyped, EnvNext
  PROVE  HeapMoves \/ UNCHANGED heapVars
<1>1. CASE StartX64 \/ StartGuest \/ GuestReturn
  BY <1>1 DEF StartX64, StartGuest, GuestReturn
<1>2. CASE SetupPrimaryGuestEnv
  <2>1. AllocateMemory(CpuStateSize) \/ UNCHANGED heapVars
    BY <1>2 DEF SetupPrimaryGuestEnv, Loops
  <2> QED  BY <2>1, AllocMoves, EnvTyped
<1>3. CASE SetupGuest
  <2>1. AllocateMemory(GuestSize) \/ UNCHANGED heapVars
    BY <1>3 DEF SetupGuest, Loops
  <2> QED  BY <2>1, AllocMoves, EnvTyped
<1>4. CASE SetupStartupEnv
  <2>1. AllocateMemory(TableBytes) \/ UNCHANGED heapVars
    BY <1>4 DEF SetupStartupEnv, Loops
  <2> QED  BY <2>1, AllocMoves, TableBytesTyped
<1> QED  BY <1>1, <1>2, <1>3, <1>4 DEF EnvNext

LEMMA StepMoves ==
  ASSUME HeapInv, MapTyped, [Next]_vars
  PROVE  HeapMoves \/ UNCHANGED heapVars
<1>1. CASE Boot64  BY <1>1, EnvMoves DEF Boot64
<1>2. CASE Boot32
  <2>1. MonPageAlloc(1) \/ UNCHANGED heapVars
    BY <1>2 DEF Boot32, LongNext, SetupGdt, AllocPml4, AllocPdpt, AllocPd,
      StartLongMode
  <2> QED  BY <2>1, PageMoves DEF HeapMoves
<1>3. CASE Others
  <2>1. CASE \E size \in Requests : AllocateMemory(size)
    BY <2>1, RequestsAssumption, AllocateMemoryTakes DEF HeapMoves
  <2>2. CASE \E pages \in PageRequests : MonPageAlloc(pages)
    BY <2>2, PageRequestsAssumption, MonPageAllocTakes DEF HeapMoves
  <2> QED  BY <1>3, <2>1, <2>2 DEF Others, HeapNext
<1>4. CASE UNCHANGED vars  BY <1>4 DEF vars
<1> QED  BY <1>1, <1>2, <1>3, <1>4 DEF Next

LEMMA MapStays ==
  ASSUME [Next]_vars
  PROVE  UNCHANGED <<efi_map, gdt_32>>
  BY DEF Next, Boot64, Boot32, Others, EnvNext, LongNext, envVars, longVars,
    tableVars, vars, StartX64, SetupPrimaryGuestEnv, SetupGuest, SetupStartupEnv,
    StartGuest, GuestReturn, Loops, SetupGdt, AllocPml4, AllocPdpt, AllocPd,
    StartLongMode

LEMMA HeapAlways == Spec => [](HeapInv /\ MapTyped)
<1>1. Init => HeapInv /\ MapTyped
  BY HeapInvInit DEF Init, EnvInit, MapTyped
<1>2. ASSUME HeapInv, MapTyped, [Next]_vars
      PROVE  HeapInv' /\ MapTyped'
  <2>1. MapTyped'  BY <1>2, MapStays DEF MapTyped
  <2>2. CASE HeapMoves  BY <1>2, <2>1, <2>2, TakesKeepsInv DEF HeapMoves
  <2>3. CASE UNCHANGED heapVars
    BY <1>2, <2>1, <2>3, HeapStep
  <2> QED  BY <1>2, <2>2, <2>3, StepMoves
<1> QED  BY <1>1, <1>2, PTL DEF Spec

(* The pointer and every block stay inside the heap under the loader's own *)
(* requests, those of e820.c among them, whose size the firmware's memory  *)
(* map decides (e820.c:107).                                               *)
THEOREM EnvHeapTypeCorrect == Spec => []HeapTypeOK
<1>1. HeapInv => HeapTypeOK  BY DEF HeapInv
<1> QED  BY <1>1, HeapAlways, PTL

(* None of the loader's structures and tables overlap (memory.c:42-53).    *)
THEOREM EnvImplementsArena == Spec => ArenaSpec
<1>1. Init => Arena!Init  BY DEF Init, HeapInit, Arena!Init
<1>2. ASSUME HeapInv, MapTyped, [Next]_vars
      PROVE  [Arena!Next]_blocks
  BY <1>2, StepMoves, TakesHandsOut DEF HeapMoves, heapVars
<1> QED  BY <1>1, <1>2, HeapAlways, PTL DEF Spec, ArenaSpec, Arena!Spec

-----------------------------------------------------------------------------
(* Slots of a page.                                                        *)
At(table, k) == table + k * Alignment
PageBelow(t, top) == /\ t \in Nat /\ Multiple(t, PageSize)
                     /\ HeapBase <= t /\ t + PageSize <= top
IsPage(t) == PageBelow(t, heap_current)

LEMMA SlotsTyped ==
  /\ Slots \in Nat \ {0} /\ PageSize = Slots * Alignment
  /\ PdptUsed \in 1 .. Slots
<1>1. PageSize % Alignment = 0  BY ConstantsTyped, MultipleRemainder
<1>2. Slots \in Nat /\ PageSize = Slots * Alignment
  BY <1>1, ConstantsTyped, Quotient DEF Slots
<1>3. Slots # 0
  <2>1. 0 * Alignment = 0  BY ConstantsTyped
  <2> QED  BY <1>2, <2>1, ConstantsTyped
<1> QED  BY <1>2, <1>3, LongModeAssumption

LEMMA ProductGrows ==
  ASSUME NEW k \in Nat, NEW m \in Nat, k <= m, NEW of \in Nat
  PROVE  k * of <= m * of
<1>1. PICK d \in Nat : m = k + d  BY m - k \in Nat
<1>2. m * of = k * of + d * of  BY <1>1
<1>3. d * of \in Nat /\ k * of \in Nat  OBVIOUS
<1> QED  BY <1>2, <1>3

LEMMA SlotInPage ==
  ASSUME NEW t \in Nat, NEW k \in 0 .. Slots - 1
  PROVE  At(t, k) \in t .. t + PageSize - Alignment
<1>1. k \in Nat /\ Slots - 1 \in Nat /\ k <= Slots - 1  BY SlotsTyped
<1>2. k * Alignment <= (Slots - 1) * Alignment
  BY <1>1, ProductGrows, ConstantsTyped
<1>3. (Slots - 1) * Alignment = Slots * Alignment - Alignment
  BY SlotsTyped, ConstantsTyped
<1>4. k * Alignment \in Nat  BY <1>1, ConstantsTyped
<1> QED  BY <1>2, <1>3, <1>4, SlotsTyped, ConstantsTyped DEF At

LEMMA SlotIsAddress ==
  ASSUME NEW t \in Nat, Multiple(t, PageSize), HeapBase <= t,
         t + PageSize <= HeapBase + HeapBytes, NEW k \in 0 .. Slots - 1
  PROVE  At(t, k) \in SlotAddresses
<1>1. At(t, k) \in t .. t + PageSize - Alignment  BY SlotInPage
<1>2. At(t, k) \in HeapBase .. HeapBase + HeapBytes - 1
  BY <1>1, ConstantsTyped
<1>3. Multiple(t, Alignment) /\ Multiple(HeapBase, Alignment)
  BY ConstantsTyped, MultipleTransitive
<1>4. PICK i \in Nat : t = i * Alignment  BY <1>3 DEF Multiple
<1>5. PICK j \in Nat : HeapBase = j * Alignment
  BY <1>3, ConstantsTyped DEF Multiple
<1>6. At(t, k) - HeapBase = (i + k - j) * Alignment
  BY <1>4, <1>5, SlotsTyped, ConstantsTyped DEF At
<1>7. (i + k - j) * Alignment % Alignment = 0
  BY <1>4, <1>5, SlotsTyped, ConstantsTyped
<1> QED  BY <1>2, <1>6, <1>7 DEF SlotAddresses

LEMMA SlotNumber ==
  ASSUME NEW t \in Nat, NEW k \in 0 .. Slots - 1
  PROVE  (At(t, k) - t) \div Alignment = k
<1>1. k \in Nat  BY SlotsTyped
<1>2. At(t, k) - t = k * Alignment  BY <1>1, ConstantsTyped DEF At
<1>3. (k * Alignment) \div Alignment = k  BY <1>1, ConstantsTyped
<1> QED  BY <1>2, <1>3

LEMMA SlotsDiffer ==
  ASSUME NEW t \in Nat, NEW k \in Nat, NEW m \in Nat, k # m
  PROVE  At(t, k) # At(t, m)
<1>1. ASSUME NEW a \in Nat, NEW b \in Nat, a < b
      PROVE  a * Alignment < b * Alignment
  <2>1. (a + 1) * Alignment <= b * Alignment  BY <1>1, ProductGrows, ConstantsTyped
  <2>2. (a + 1) * Alignment = a * Alignment + Alignment  BY ConstantsTyped
  <2> QED  BY <2>1, <2>2, ConstantsTyped
<1> QED  BY <1>1, ConstantsTyped DEF At

-----------------------------------------------------------------------------
(* A new page: everything below the heap's pointer stays as it is.         *)
WordsTyped == DOMAIN words = SlotAddresses
Below(a) == a \in SlotAddresses /\ a < heap_current
NewPage(t) ==
  /\ t \in Nat /\ Multiple(t, PageSize) /\ HeapBase <= t /\ heap_current <= t
  /\ heap_current' = t + PageSize /\ t + PageSize <= HeapBase + HeapBytes

LEMMA PageTaken ==
  ASSUME HeapInv, MonPageAlloc(1)
  PROVE  NewPage(PageAddress)
<1>1. Takes(PageAddress, PageSize)  BY PageMoves
<1>2. Multiple(PageAddress, PageSize)
  BY ConstantsTyped, AlignForwardUp DEF PageAddress, HeapInv, HeapTypeOK
<1>3. HeapBase <= heap_current /\ heap_current \in Nat
  BY ConstantsTyped DEF HeapInv, HeapTypeOK
<1> QED  BY <1>1, <1>2, <1>3, ConstantsTyped DEF Takes, NewPage

(* The slots of a filled page, and those below it.                         *)
LEMMA FilledPage ==
  ASSUME HeapInv, NEW table, NewPage(PageAddress)
  PROVE  /\ DOMAIN Filled(table) = SlotAddresses
         /\ \A a : Below(a) => Filled(table)[a] = words[a]
         /\ \A k \in 0 .. Slots - 1 : k \in DOMAIN table =>
              Filled(table)[At(PageAddress, k)] = table[k]
<1>1. PageAddress \in Nat /\ Multiple(PageAddress, PageSize)
      /\ HeapBase <= PageAddress /\ heap_current <= PageAddress
      /\ PageAddress + PageSize <= HeapBase + HeapBytes
  BY DEF NewPage
<1>2. \A a : Below(a) => Filled(table)[a] = words[a]
  <2> TAKE a
  <2> HAVE Below(a)
  <2>1. ~(a >= PageAddress)
    BY <1>1, ConstantsTyped DEF Below, SlotAddresses, HeapInv, HeapTypeOK
  <2> QED  BY <2>1 DEF Below, Filled
<1>3. ASSUME NEW k \in 0 .. Slots - 1, k \in DOMAIN table
      PROVE  Filled(table)[At(PageAddress, k)] = table[k]
  <2>1. At(PageAddress, k) \in SlotAddresses  BY <1>1, SlotIsAddress
  <2>2. (At(PageAddress, k) - PageAddress) \div Alignment = k  BY <1>1, SlotNumber
  <2>3. At(PageAddress, k) >= PageAddress
    BY <1>1, SlotInPage, ConstantsTyped
  <2> QED  BY <1>3, <2>1, <2>2, <2>3 DEF Filled
<1> QED  BY <1>2, <1>3 DEF Filled

-----------------------------------------------------------------------------
(* The tables so far: each in a page of its own below the heap's pointer.  *)
PageDirectory(w, top, table, i) ==
  \E a \in Nat :
    /\ PageBelow(a, top) /\ table + PageSize <= a
    /\ w[At(table, i)] = Table(a)
    /\ \A k \in 0 .. Slots - 1 : w[At(a, k)] = LargePage(i * Slots + k)
Apart(s, t) == s + PageSize <= t \/ t + PageSize <= s

TablesInv ==
  /\ WordsTyped
  /\ pds \in 0 .. PdptUsed
  /\ pds # 0 => pdp_table # 0
  /\ pml4 # 0 => IsPage(pml4)
  /\ pdp_table # 0 =>
       /\ pml4 # 0 /\ IsPage(pdp_table) /\ pml4 + PageSize <= pdp_table
       /\ words[pml4] = Table(pdp_table)
  /\ \A i \in 0 .. pds - 1 : PageDirectory(words, heap_current, pdp_table, i)

GdtInv ==
  gdtr_64 # NoGdtr =>
    /\ IsPage(gdtr_64.base) /\ gdtr_64.entries = Len(gdt_32) + 2
    /\ cs_64 = LastIndex
    /\ pml4 # 0 => Apart(gdtr_64.base, pml4)
    /\ pdp_table # 0 => Apart(gdtr_64.base, pdp_table)
    /\ Len(gdt_32) + 2 <= Slots =>
         \A k \in 0 .. LastIndex + 1 : words[At(gdtr_64.base, k)] = Gdt64[k]

CpuInv ==
  cpu64.code64 => /\ pds = PdptUsed /\ cpu64.cr3 = pml4
                  /\ gdtr_64 # NoGdtr /\ cpu64.gdtr = gdtr_64

LongInv == /\ TablesInv /\ GdtInv /\ CpuInv
           /\ gdt_32 \in Gdts

LEMMA GdtTyped ==
  ASSUME gdt_32 \in Gdts
  PROVE  /\ Len(gdt_32) \in Nat \ {0}
         /\ LastIndex \in {Len(gdt_32) - 1, Len(gdt_32)}
  BY LongModeAssumption DEF LastIndex

(* A step that writes no more than one word below the pointer.             *)
Keeps(exempt) ==
  /\ DOMAIN words' = SlotAddresses
  /\ \A a : Below(a) /\ a \notin exempt => words'[a] = words[a]
  /\ heap_current' \in Nat /\ heap_current <= heap_current'

LEMMA PageKept ==
  ASSUME HeapInv, NEW exempt, Keeps(exempt), NEW t, IsPage(t)
  PROVE  /\ PageBelow(t, heap_current')
         /\ \A k \in 0 .. Slots - 1 :
              /\ Below(At(t, k))
              /\ At(t, k) \notin exempt => words'[At(t, k)] = words[At(t, k)]
<1>1. /\ t \in Nat /\ Multiple(t, PageSize) /\ HeapBase <= t
      /\ t + PageSize <= heap_current /\ heap_current <= heap_current'
      /\ heap_current \in Nat /\ heap_current' \in Nat
      /\ heap_current <= HeapBase + HeapBytes
  BY ConstantsTyped DEF IsPage, PageBelow, Keeps, HeapInv, HeapTypeOK
<1>2. PageBelow(t, heap_current')  BY <1>1, ConstantsTyped DEF PageBelow
<1>3. ASSUME NEW k \in 0 .. Slots - 1
      PROVE  Below(At(t, k))
  <2>1. t + PageSize <= HeapBase + HeapBytes  BY <1>1, ConstantsTyped
  <2>2. At(t, k) \in SlotAddresses  BY <1>1, <2>1, SlotIsAddress
  <2>3. At(t, k) \in t .. t + PageSize - Alignment  BY <1>1, SlotInPage
  <2>4. At(t, k) < heap_current  BY <1>1, <2>3, ConstantsTyped
  <2> QED  BY <2>2, <2>4 DEF Below
<1> QED  BY <1>2, <1>3 DEF Keeps

LEMMA DirectoryKept ==
  ASSUME HeapInv, NEW exempt, Keeps(exempt), NEW table, IsPage(table),
         NEW i \in 0 .. Slots - 1, PageDirectory(words, heap_current, table, i),
         At(table, i) \notin exempt,
         \A a \in exempt : a < table + PageSize
  PROVE  PageDirectory(words', heap_current', table, i)
<1>1. PICK a \in Nat :
        /\ PageBelow(a, heap_current) /\ table + PageSize <= a
        /\ words[At(table, i)] = Table(a)
        /\ \A k \in 0 .. Slots - 1 : words[At(a, k)] = LargePage(i * Slots + k)
  BY DEF PageDirectory
<1>2. words'[At(table, i)] = Table(a)  BY <1>1, PageKept
<1>3. IsPage(a)  BY <1>1 DEF IsPage
<1>4. ASSUME NEW k \in 0 .. Slots - 1
      PROVE  words'[At(a, k)] = LargePage(i * Slots + k)
  <2>1. At(a, k) \in a .. a + PageSize - Alignment  BY SlotInPage
  <2>2. table + PageSize <= At(a, k)
    BY <1>1, <2>1, ConstantsTyped DEF IsPage, PageBelow
  <2>3. table + PageSize \in Nat  BY ConstantsTyped DEF IsPage, PageBelow
  <2>4. At(a, k) \notin exempt  BY <2>1, <2>2, <2>3, ConstantsTyped
  <2> QED  BY <1>1, <1>3, <2>4, PageKept
<1>5. PageBelow(a, heap_current')  BY <1>3, PageKept
<1> QED  BY <1>1, <1>2, <1>4, <1>5 DEF PageDirectory

LEMMA GdtKept ==
  ASSUME HeapInv, LongInv, NEW exempt, Keeps(exempt),
         UNCHANGED <<gdtr_64, cs_64, gdt_32>>, gdtr_64 # NoGdtr,
         \A a \in exempt : a \notin gdtr_64.base .. gdtr_64.base + PageSize - Alignment,
         pml4' # 0 => Apart(gdtr_64.base, pml4'),
         pdp_table' # 0 => Apart(gdtr_64.base, pdp_table')
  PROVE  GdtInv'
<1>1. IsPage(gdtr_64.base)  BY DEF LongInv, GdtInv
<1>2. PageBelow(gdtr_64.base, heap_current')  BY <1>1, PageKept
<1>3. LastIndex' = LastIndex /\ Gdt64' = Gdt64  BY DEF LastIndex, Gdt64
<1>4. ASSUME Len(gdt_32) + 2 <= Slots, NEW k \in 0 .. LastIndex + 1
      PROVE  words'[At(gdtr_64.base, k)] = Gdt64[k]
  <2>1. k \in 0 .. Slots - 1  BY <1>4, GdtTyped, SlotsTyped DEF LongInv
  <2>2. At(gdtr_64.base, k) \in gdtr_64.base .. gdtr_64.base + PageSize - Alignment
    BY <1>1, <2>1, SlotInPage DEF IsPage, PageBelow
  <2>3. words[At(gdtr_64.base, k)] = Gdt64[k]  BY <1>4 DEF LongInv, GdtInv
  <2> QED  BY <1>1, <2>1, <2>2, <2>3, PageKept
<1> QED
  BY <1>2, <1>3, <1>4 DEF LongInv, GdtInv, IsPage, Apart, At

LEMMA LongQuiet ==
  ASSUME HeapInv, LongInv, Keeps({}),
         UNCHANGED <<gdt_32, gdtr_64, cs_64, pml4, pdp_table, pds>>
  PROVE  TablesInv' /\ GdtInv'
<1>1. GdtInv'
  <2>1. CASE gdtr_64 = NoGdtr  BY <2>1 DEF GdtInv
  <2>2. CASE gdtr_64 # NoGdtr  BY <2>2, GdtKept DEF LongInv, GdtInv
  <2> QED  BY <2>1, <2>2
<1>2. 0 \in 0 .. Slots - 1 /\ At(pml4, 0) = pml4 + 0 * Alignment
  BY SlotsTyped DEF At
<1>3. pml4 # 0 => IsPage(pml4)' /\ words'[pml4] = words[pml4]
  <2> HAVE pml4 # 0
  <2>1. IsPage(pml4)  BY DEF LongInv, TablesInv
  <2>2. At(pml4, 0) = pml4  BY <1>2, <2>1, ConstantsTyped DEF IsPage, PageBelow
  <2> QED  BY <1>2, <2>1, <2>2, PageKept DEF IsPage
<1>4. pdp_table # 0 => IsPage(pdp_table)'
  BY PageKept DEF LongInv, TablesInv, IsPage
<1>5. \A i \in 0 .. pds - 1 : PageDirectory(words', heap_current', pdp_table, i)
  <2> SUFFICES ASSUME NEW i \in 0 .. pds - 1
               PROVE  PageDirectory(words', heap_current', pdp_table, i)
    OBVIOUS
  <2>1. i \in 0 .. Slots - 1 /\ pds # 0
    BY SlotsTyped DEF LongInv, TablesInv
  <2>2. IsPage(pdp_table) /\ PageDirectory(words, heap_current, pdp_table, i)
    BY <2>1 DEF LongInv, TablesInv
  <2> QED  BY <2>1, <2>2, DirectoryKept
<1> QED
  BY <1>1, <1>3, <1>4, <1>5
  DEF LongInv, TablesInv, WordsTyped, Keeps

-----------------------------------------------------------------------------
(* The steps that make a table.                                            *)
LEMMA FirstSlot ==
  ASSUME NEW t \in Nat
  PROVE  At(t, 0) = t /\ 0 \in 0 .. Slots - 1
  BY SlotsTyped, ConstantsTyped DEF At

LEMMA PageStep ==
  ASSUME HeapInv, MonPageAlloc(1)
  PROVE  /\ NewPage(PageAddress) /\ HeapBase <= heap_current
         /\ heap_current \in Nat /\ heap_current' \in Nat
         /\ heap_current <= heap_current'
         /\ PageBelow(PageAddress, heap_current')
<1>1. NewPage(PageAddress)  BY PageTaken
<1>2. heap_current \in Nat /\ HeapBase <= heap_current
  BY ConstantsTyped DEF HeapInv, HeapTypeOK
<1> QED  BY <1>1, <1>2, ConstantsTyped DEF NewPage, PageBelow

LEMMA SetupGdtStep ==
  ASSUME HeapInv, LongInv, SetupGdt
  PROVE  LongInv'
<1>1. PICK t \in Nat : t = PageAddress
  BY PageStep DEF SetupGdt, PageBelow
<1>2. NewPage(t) /\ PageBelow(t, heap_current')  BY <1>1, PageStep DEF SetupGdt
<1>3. /\ DOMAIN words' = SlotAddresses
      /\ \A a : Below(a) => words'[a] = words[a]
      /\ \A k \in 0 .. Slots - 1 : k \in DOMAIN Gdt64 => words'[At(t, k)] = Gdt64[k]
  BY <1>1, <1>2, FilledPage DEF SetupGdt
<1>4. Keeps({})  BY <1>3, PageStep DEF Keeps, SetupGdt
<1>5. /\ gdtr_64 = NoGdtr /\ gdtr_64' = [base |-> t, entries |-> Len(gdt_32) + 2]
      /\ cs_64' = LastIndex /\ ~cpu64.code64
      /\ UNCHANGED <<gdt_32, pml4, pdp_table, pds, cpu64>>
  BY <1>1 DEF SetupGdt
<1>6. LastIndex' = LastIndex /\ Gdt64' = Gdt64  BY <1>5 DEF LastIndex, Gdt64
<1>7. pml4 # 0 => Apart(t, pml4)
  BY <1>2, ConstantsTyped
  DEF LongInv, TablesInv, IsPage, PageBelow, NewPage, Apart, HeapInv, HeapTypeOK
<1>8. pdp_table # 0 => Apart(t, pdp_table)
  BY <1>2, ConstantsTyped
  DEF LongInv, TablesInv, IsPage, PageBelow, NewPage, Apart, HeapInv, HeapTypeOK
<1>9. Len(gdt_32) + 2 <= Slots =>
        \A k \in 0 .. LastIndex + 1 : words'[At(t, k)] = Gdt64[k]
  <2> SUFFICES ASSUME Len(gdt_32) + 2 <= Slots, NEW k \in 0 .. LastIndex + 1
               PROVE  words'[At(t, k)] = Gdt64[k]
    OBVIOUS
  <2>1. k \in 0 .. Slots - 1  BY GdtTyped, SlotsTyped DEF LongInv
  <2>2. k \in DOMAIN Gdt64  BY DEF Gdt64
  <2> QED  BY <1>3, <2>1, <2>2
<1>10. GdtInv'
  BY <1>2, <1>5, <1>6, <1>7, <1>8, <1>9 DEF GdtInv, IsPage, Apart, At
<1>11. TablesInv'
  <2>1. /\ pml4 # 0 => IsPage(pml4)' /\ words'[pml4] = words[pml4]
        /\ pdp_table # 0 => IsPage(pdp_table)'
    BY <1>4, <1>5, PageKept, FirstSlot DEF LongInv, TablesInv, IsPage, PageBelow
  <2>2. ASSUME NEW i \in 0 .. pds - 1
        PROVE  PageDirectory(words', heap_current', pdp_table, i)
    <3>1. i \in 0 .. Slots - 1 /\ pds # 0
      BY SlotsTyped DEF LongInv, TablesInv
    <3>2. IsPage(pdp_table) /\ PageDirectory(words, heap_current, pdp_table, i)
      BY <3>1 DEF LongInv, TablesInv
    <3> QED  BY <1>4, <3>1, <3>2, DirectoryKept
  <2> QED  BY <1>3, <1>5, <2>1, <2>2 DEF LongInv, TablesInv, WordsTyped
<1>12. CpuInv'  BY <1>5 DEF CpuInv
<1> QED  BY <1>5, <1>10, <1>11, <1>12 DEF LongInv

LEMMA AllocPml4Step ==
  ASSUME HeapInv, LongInv, AllocPml4
  PROVE  LongInv'
<1>1. PICK t \in Nat : t = PageAddress
  BY PageStep DEF AllocPml4, PageBelow
<1>2. NewPage(t) /\ PageBelow(t, heap_current')  BY <1>1, PageStep DEF AllocPml4
<1>3. /\ DOMAIN words' = SlotAddresses
      /\ \A a : Below(a) => words'[a] = words[a]
  BY <1>1, <1>2, FilledPage DEF AllocPml4, Cleared
<1>4. Keeps({})  BY <1>3, PageStep DEF Keeps, AllocPml4
<1>5. /\ pml4 = 0 /\ pml4' = t /\ ~cpu64.code64
      /\ UNCHANGED <<gdt_32, gdtr_64, cs_64, pdp_table, pds, cpu64>>
  BY <1>1 DEF AllocPml4
<1>6. pdp_table = 0 /\ pds = 0  BY <1>5 DEF LongInv, TablesInv
<1>7. GdtInv'
  <2>1. CASE gdtr_64 = NoGdtr  BY <1>5, <2>1 DEF GdtInv
  <2>2. CASE gdtr_64 # NoGdtr
    <3>1. Apart(gdtr_64.base, t)
      BY <1>2, <2>2, ConstantsTyped
      DEF LongInv, GdtInv, IsPage, PageBelow, NewPage, Apart, HeapInv, HeapTypeOK
    <3> QED  BY <1>4, <1>5, <1>6, <2>2, <3>1, GdtKept
  <2> QED  BY <2>1, <2>2
<1>8. TablesInv'
  BY <1>2, <1>3, <1>5, <1>6 DEF LongInv, TablesInv, WordsTyped, IsPage
<1>9. CpuInv'  BY <1>5 DEF CpuInv
<1> QED  BY <1>5, <1>7, <1>8, <1>9 DEF LongInv

LEMMA AllocPdptStep ==
  ASSUME HeapInv, LongInv, AllocPdpt
  PROVE  LongInv'
<1>1. PICK t \in Nat : t = PageAddress
  BY PageStep DEF AllocPdpt, PageBelow
<1>2. NewPage(t) /\ PageBelow(t, heap_current')  BY <1>1, PageStep DEF AllocPdpt
<1>3. /\ pml4 # 0 /\ pdp_table = 0 /\ pdp_table' = t
      /\ words' = [Cleared EXCEPT ![pml4] = Table(t)]
      /\ UNCHANGED <<gdt_32, gdtr_64, cs_64, pml4, pds, cpu64>>
  BY <1>1 DEF AllocPdpt
<1>4. IsPage(pml4) /\ pds = 0  BY <1>3 DEF LongInv, TablesInv
<1>5. /\ DOMAIN Cleared = SlotAddresses
      /\ \A a : Below(a) => Cleared[a] = words[a]
  BY <1>1, <1>2, FilledPage DEF Cleared
<1>6. Keeps({pml4})
  BY <1>3, <1>5, PageStep DEF Keeps, AllocPdpt
<1>7. PageBelow(pml4, heap_current') /\ Below(pml4)
  <2>1. At(pml4, 0) = pml4  BY <1>4, FirstSlot DEF IsPage, PageBelow
  <2> QED  BY <1>4, <1>6, <2>1, PageKept, FirstSlot
<1>8. words'[pml4] = Table(t)
  BY <1>3, <1>5, <1>7 DEF Below
<1>9. pml4 + PageSize <= t
  BY <1>2, <1>4, ConstantsTyped DEF IsPage, PageBelow, NewPage, HeapInv, HeapTypeOK
<1>10. TablesInv'
  <2>1. DOMAIN words' = SlotAddresses  BY <1>6 DEF Keeps
  <2>2. t # 0  BY <1>3, <1>4, <1>9, ConstantsTyped DEF IsPage, PageBelow
  <2> QED
    BY <1>2, <1>3, <1>4, <1>7, <1>8, <1>9, <2>1, <2>2
    DEF LongInv, TablesInv, WordsTyped, IsPage
<1>11. GdtInv'
  <2>1. CASE gdtr_64 = NoGdtr  BY <1>3, <2>1 DEF GdtInv
  <2>2. CASE gdtr_64 # NoGdtr
    <3>1. IsPage(gdtr_64.base) /\ Apart(gdtr_64.base, pml4)
      BY <1>3, <2>2 DEF LongInv, GdtInv
    <3>2. Apart(gdtr_64.base, t)
      BY <1>2, <3>1, ConstantsTyped
      DEF IsPage, PageBelow, NewPage, Apart, HeapInv, HeapTypeOK
    <3>3. pml4 \notin gdtr_64.base .. gdtr_64.base + PageSize - Alignment
      BY <1>4, <3>1, ConstantsTyped DEF IsPage, PageBelow, Apart
    <3> QED  BY <1>3, <1>6, <2>2, <3>1, <3>2, <3>3, GdtKept
  <2> QED  BY <2>1, <2>2
<1>12. CpuInv'  BY <1>3, <1>4, SlotsTyped DEF LongInv, CpuInv
<1> QED  BY <1>3, <1>10, <1>11, <1>12 DEF LongInv

LEMMA AllocPdStep ==
  ASSUME HeapInv, LongInv, AllocPd
  PROVE  LongInv'
<1> DEFINE large == [k \in 0 .. Slots - 1 |-> Consecutive(k)]
           entry == At(pdp_table, pds)
<1>1. PICK t \in Nat : t = PageAddress
  BY PageStep DEF AllocPd, PageBelow
<1>2. NewPage(t) /\ PageBelow(t, heap_current')  BY <1>1, PageStep DEF AllocPd
<1>3. /\ pdp_table # 0 /\ pds < PdptUsed /\ pds' = pds + 1
      /\ words' = [Filled(large) EXCEPT ![entry] = Table(t)]
      /\ UNCHANGED <<gdt_32, gdtr_64, cs_64, pml4, pdp_table, cpu64>>
  BY <1>1 DEF AllocPd, At
<1>4. /\ IsPage(pml4) /\ IsPage(pdp_table) /\ pml4 + PageSize <= pdp_table
      /\ words[pml4] = Table(pdp_table) /\ pml4 # 0
      /\ pds \in 0 .. Slots - 1 /\ pds \in Nat
  BY <1>3, SlotsTyped DEF LongInv, TablesInv
<1>5. /\ DOMAIN Filled(large) = SlotAddresses
      /\ \A a : Below(a) => Filled(large)[a] = words[a]
      /\ \A k \in 0 .. Slots - 1 : k \in DOMAIN large =>
           Filled(large)[At(t, k)] = large[k]
  BY <1>1, <1>2, FilledPage
<1>6. MonPageAlloc(1)  BY DEF AllocPd
<1>7. entry \in pdp_table .. pdp_table + PageSize - Alignment
  BY <1>4, SlotInPage DEF IsPage, PageBelow
<1> HIDE DEF entry, large
<1>8. Keeps({entry})
  <2>1. /\ DOMAIN words' = SlotAddresses
        /\ \A a : a \in SlotAddresses /\ a # entry => words'[a] = Filled(large)[a]
    BY <1>3, <1>5
  <2> QED  BY <1>5, <1>6, <2>1, PageStep DEF Keeps, Below
<1>9. Below(entry) /\ PageBelow(pdp_table, heap_current')
      /\ PageBelow(pml4, heap_current')
  BY <1>4, <1>8, PageKept DEF entry
<1>10. words'[entry] = Table(t)  BY <1>3, <1>5, <1>9 DEF Below
<1>11. pdp_table + PageSize <= t
  BY <1>2, <1>4, ConstantsTyped DEF IsPage, PageBelow, NewPage, HeapInv, HeapTypeOK
<1>12. ASSUME NEW k \in 0 .. Slots - 1
       PROVE  words'[At(t, k)] = LargePage(pds * Slots + k)
  <2>1. Filled(large)[At(t, k)] = LargePage(pds * Slots + k)
    BY <1>5 DEF Consecutive, large
  <2>2. At(t, k) \in t .. t + PageSize - Alignment  BY SlotInPage
  <2>3. At(t, k) # entry
    BY <1>4, <1>7, <1>11, <2>2, ConstantsTyped DEF IsPage, PageBelow
  <2>4. At(t, k) \in SlotAddresses
    BY <1>2, SlotIsAddress DEF NewPage
  <2> QED  BY <1>3, <1>5, <2>1, <2>3, <2>4
<1>13. PageDirectory(words', heap_current', pdp_table, pds)
  BY <1>2, <1>10, <1>11, <1>12 DEF PageDirectory, entry
<1>14. ASSUME NEW i \in 0 .. pds - 1
       PROVE  PageDirectory(words', heap_current', pdp_table, i)
  <2>1. i \in 0 .. Slots - 1 /\ i # pds /\ i \in Nat  BY <1>4, SlotsTyped
  <2>2. PageDirectory(words, heap_current, pdp_table, i)
    BY DEF LongInv, TablesInv
  <2>3. At(pdp_table, i) # entry
    BY <1>4, <2>1, SlotsDiffer DEF IsPage, PageBelow, entry
  <2>4. entry < pdp_table + PageSize
    BY <1>4, <1>7, ConstantsTyped DEF IsPage, PageBelow
  <2> QED  BY <1>4, <1>8, <2>1, <2>2, <2>3, <2>4, DirectoryKept
<1>15. words'[pml4] = words[pml4]
  <2>1. At(pml4, 0) = pml4 /\ 0 \in 0 .. Slots - 1
    BY <1>4, FirstSlot DEF IsPage, PageBelow
  <2>2. pml4 # entry
    BY <1>4, <1>7, ConstantsTyped DEF IsPage, PageBelow
  <2> QED  BY <1>4, <1>8, <2>1, <2>2, PageKept
<1>16. TablesInv'
  <2>1. DOMAIN words' = SlotAddresses  BY <1>8 DEF Keeps
  <2>2. pds' \in 0 .. PdptUsed  BY <1>3, <1>4, SlotsTyped
  <2>3. \A i \in 0 .. pds' - 1 :
          PageDirectory(words', heap_current', pdp_table, i)
    <3> SUFFICES ASSUME NEW i \in 0 .. pds' - 1
                 PROVE  PageDirectory(words', heap_current', pdp_table, i)
      OBVIOUS
    <3>1. i = pds \/ i \in 0 .. pds - 1  BY <1>3, <1>4
    <3> QED  BY <1>13, <1>14, <3>1
  <2> QED
    BY <1>3, <1>4, <1>9, <1>15, <2>1, <2>2, <2>3
    DEF TablesInv, WordsTyped, IsPage
<1>17. GdtInv'
  <2>1. CASE gdtr_64 = NoGdtr  BY <1>3, <2>1 DEF GdtInv
  <2>2. CASE gdtr_64 # NoGdtr
    <3>1. IsPage(gdtr_64.base) /\ Apart(gdtr_64.base, pml4)
          /\ Apart(gdtr_64.base, pdp_table)
      BY <1>3, <1>4, <2>2 DEF LongInv, GdtInv
    <3>2. entry \notin gdtr_64.base .. gdtr_64.base + PageSize - Alignment
      BY <1>4, <1>7, <3>1, ConstantsTyped DEF IsPage, PageBelow, Apart
    <3> QED  BY <1>3, <1>8, <2>2, <3>1, <3>2, GdtKept
  <2> QED  BY <2>1, <2>2
<1>18. CpuInv'
  <2>1. ~cpu64.code64  BY <1>3, <1>4, SlotsTyped DEF LongInv, CpuInv
  <2> QED  BY <1>3, <2>1 DEF CpuInv
<1> QED  BY <1>3, <1>16, <1>17, <1>18 DEF LongInv

-----------------------------------------------------------------------------
LEMMA OthersKeep ==
  ASSUME HeapInv, MapTyped, LongInv, [Next]_vars,
         \/ Boot64
         \/ Others
         \/ Boot32 /\ StartLongMode
         \/ UNCHANGED vars
  PROVE  Keeps({})
<1>1. /\ heap_current \in Nat /\ heap_current' \in Nat
      /\ heap_current <= heap_current'
      /\ \A b \in blocks' \ blocks : b.at >= heap_current
  <2>1. HeapMoves \/ UNCHANGED heapVars  BY StepMoves
  <2>2. heap_current \in Nat  BY ConstantsTyped DEF HeapInv, HeapTypeOK
  <2> QED  BY <2>1, <2>2 DEF HeapMoves, Takes, heapVars
<1>2. DOMAIN words = SlotAddresses  BY DEF LongInv, TablesInv, WordsTyped
<1>3. CASE UNCHANGED words  BY <1>1, <1>2, <1>3 DEF Keeps
<1>4. CASE Others
  <2>1. ASSUME NEW a, Below(a)
        PROVE  words'[a] = words[a]
    <3>1. \A b \in blocks' \ blocks : a \notin b.at .. b.at + b.size - 1
      <4> SUFFICES ASSUME NEW b \in blocks' \ blocks
                   PROVE  a \notin b.at .. b.at + b.size - 1
        OBVIOUS
      <4>1. b.at >= heap_current  BY <1>1
      <4>2. a < heap_current /\ a \in Int
        BY <2>1, ConstantsTyped DEF Below, SlotAddresses
      <4>3. b.at \in Nat
        <5>1. HeapInv'
          BY StepMoves, TakesKeepsInv, HeapStep DEF HeapMoves
        <5> QED  BY <5>1, ConstantsTyped DEF HeapInv, HeapTypeOK
      <4> QED  BY <1>1, <4>1, <4>2, <4>3
    <3> QED  BY <1>4, <2>1, <3>1 DEF Others, Below
  <2> QED  BY <1>1, <1>4, <2>1 DEF Keeps, Others
<1> QED
  BY <1>3, <1>4 DEF Boot64, Boot32, StartLongMode, vars, longVars

LEMMA LongStep ==
  ASSUME HeapInv, MapTyped, LongInv, [Next]_vars
  PROVE  LongInv'
<1>1. CASE \/ Boot64
           \/ Others
           \/ Boot32 /\ StartLongMode
           \/ UNCHANGED vars
  <2>1. UNCHANGED <<gdt_32, gdtr_64, cs_64, pml4, pdp_table, pds>>
    BY <1>1 DEF Boot64, Others, StartLongMode, vars, longVars, tableVars
  <2>2. TablesInv' /\ GdtInv'  BY <1>1, <2>1, OthersKeep, LongQuiet
  <2>3. CpuInv'
    <3>1. CASE UNCHANGED cpu64  BY <2>1, <3>1 DEF LongInv, CpuInv
    <3>2. CASE StartLongMode
      BY <2>1, <3>2 DEF StartLongMode, CpuInv
    <3> QED
      BY <1>1, <3>1, <3>2 DEF Boot64, Others, vars, longVars, tableVars
  <2> QED  BY <2>1, <2>2, <2>3 DEF LongInv
<1>2. CASE SetupGdt \/ AllocPml4 \/ AllocPdpt \/ AllocPd
  BY <1>2, SetupGdtStep, AllocPml4Step, AllocPdptStep, AllocPdStep
<1>3. CASE Boot32
  BY <1>1, <1>2, <1>3 DEF Boot32, LongNext
<1>4. CASE Boot64  BY <1>1, <1>4
<1>5. CASE Others  BY <1>1, <1>5
<1>6. CASE UNCHANGED vars  BY <1>1, <1>6
<1> QED  BY <1>3, <1>4, <1>5, <1>6 DEF Next

LEMMA LongAlways == Spec => []LongInv
<1>1. Init => LongInv
  BY SlotsTyped DEF Init, LongInit, LongInv, TablesInv, GdtInv, CpuInv, WordsTyped
<1>2. HeapInv /\ MapTyped /\ LongInv /\ [Next]_vars => LongInv'  BY LongStep
<1> QED  BY <1>1, <1>2, HeapAlways, PTL DEF Spec

(* "It should scope full 32-bit space" (x32_pt64.c:46): from CR3 each large *)
(* page is found at its own address, whatever else the heap is used for.   *)
THEOREM SpaceIsMapped == Spec => []IdentityMapped
<1>1. ASSUME LongInv PROVE IdentityMapped
  <2> SUFFICES ASSUME cpu64.code64, NEW n \in 0 .. PdptUsed * Slots - 1
               PROVE  LET pdpt == EntryAt(cpu64.cr3, 0)
                          pd   == EntryAt(pdpt[2], n \div Slots)
                      IN  /\ pdpt[1] = "table" /\ pd[1] = "table"
                          /\ EntryAt(pd[2], n % Slots) = LargePage(n)
    BY DEF IdentityMapped
  <2> DEFINE i == n \div Slots
             k == n % Slots
  <2>1. pds = PdptUsed /\ cpu64.cr3 = pml4  BY <1>1 DEF LongInv, CpuInv
  <2>2. /\ IsPage(pml4) /\ words[pml4] = Table(pdp_table)
    BY <1>1, <2>1, SlotsTyped DEF LongInv, TablesInv
  <2>3. n \in Nat /\ n < PdptUsed * Slots
    BY SlotsTyped
  <2>4. i \in Nat /\ n = i * Slots + k /\ k \in 0 .. Slots - 1
    BY <2>3, SlotsTyped, Quotient, RemainderRange
  <2> HIDE DEF i, k
  <2>5. i \in 0 .. pds - 1
    <3>1. CASE i >= PdptUsed
      <4>1. PdptUsed * Slots <= i * Slots
        BY <2>4, <3>1, SlotsTyped, ProductGrows
      <4>2. PdptUsed * Slots \in Nat /\ i * Slots \in Nat  BY <2>4, SlotsTyped
      <4> QED  BY <2>3, <2>4, <4>1, <4>2, SlotsTyped
    <3>2. CASE ~(i >= PdptUsed)  BY <2>1, <2>4, <3>2, SlotsTyped
    <3> QED  BY <3>1, <3>2
  <2>6. PICK a \in Nat :
          /\ words[At(pdp_table, i)] = Table(a)
          /\ \A j \in 0 .. Slots - 1 : words[At(a, j)] = LargePage(i * Slots + j)
    BY <1>1, <2>5 DEF LongInv, TablesInv, PageDirectory
  <2>7. EntryAt(cpu64.cr3, 0) = Table(pdp_table)
    BY <2>1, <2>2, FirstSlot DEF EntryAt, At, IsPage, PageBelow
  <2>8. EntryAt(pdp_table, i) = Table(a)  BY <2>6 DEF EntryAt, At
  <2>9. EntryAt(a, k) = LargePage(n)  BY <2>4, <2>6 DEF EntryAt, At
  <2>10. \A x : Table(x)[1] = "table" /\ Table(x)[2] = x  BY DEF Table
  <2> QED  BY <2>7, <2>8, <2>9, <2>10 DEF i, k
<1> QED  BY <1>1, LongAlways, PTL

(* The 64-bit code's GDT has the old descriptors where they were and its   *)
(* own two within its limit, when a page is enough (x32_gdt64.c:55).       *)
THEOREM SegmentsStay == Spec => []SegmentsThere
<1>1. ASSUME LongInv PROVE SegmentsThere
  <2> SUFFICES ASSUME cpu64.code64, Len(gdt_32) + 2 <= Slots
               PROVE  LET gdt(k) == EntryAt(cpu64.gdtr.base, k)
                      IN  /\ cs_64 + 1 < cpu64.gdtr.entries
                          /\ gdt(cs_64) = Descriptor("code64")
                          /\ gdt(cs_64 + 1) = Descriptor("data64")
                          /\ \A k \in 1 .. Len(gdt_32) : gdt_32[k] # "null" =>
                               gdt(k - 1) = Descriptor(gdt_32[k])
    BY DEF SegmentsThere
  <2>1. gdtr_64 # NoGdtr /\ cpu64.gdtr = gdtr_64  BY <1>1 DEF LongInv, CpuInv
  <2>2. /\ gdtr_64.entries = Len(gdt_32) + 2 /\ cs_64 = LastIndex
        /\ \A k \in 0 .. LastIndex + 1 : EntryAt(gdtr_64.base, k) = Gdt64[k]
    BY <1>1, <2>1 DEF LongInv, GdtInv, EntryAt, At
  <2>3. /\ Len(gdt_32) \in Nat \ {0}
        /\ LastIndex \in {Len(gdt_32) - 1, Len(gdt_32)}
    BY <1>1, GdtTyped DEF LongInv
  <2>4. ASSUME NEW k \in 1 .. Len(gdt_32), gdt_32[k] # "null"
        PROVE  k - 1 \in 0 .. LastIndex + 1 /\ Gdt64[k - 1] = Descriptor(gdt_32[k])
    <3>1. k - 1 < LastIndex  BY <2>3, <2>4 DEF LastIndex
    <3>2. k - 1 \in 0 .. LastIndex + 1 /\ (k - 1) + 1 = k  BY <2>3, <3>1
    <3> QED  BY <2>3, <3>1, <3>2 DEF Gdt64
  <2>5. /\ LastIndex \in 0 .. LastIndex + 1 /\ LastIndex + 1 \in 0 .. LastIndex + 1
        /\ LastIndex + 1 < Len(gdt_32) + 2
    BY <2>3
  <2>6. Gdt64[LastIndex] = Descriptor("code64")
        /\ Gdt64[LastIndex + 1] = Descriptor("data64")
    BY <2>3, <2>5 DEF Gdt64
  <2> QED  BY <2>1, <2>2, <2>4, <2>5, <2>6
<1> QED  BY <1>1, LongAlways, PTL

-----------------------------------------------------------------------------
(* The guest's state, from preload's call to its return.                   *)
IsRecord(p) ==
  DOMAIN p = {"rip", "rsp", "regs", "interrupts", "segments", "selectors",
              "null_ldtr"}
Places == {"preload_data", "after_call_loader", "after_starter_main"}
Framed(regs) == regs["rbp"] = OfPreload("rbp")
IsCaller(state) ==
  /\ DOMAIN state = {"rip", "rsp", "regs", "interrupts"}
  /\ state.rip = "after_starter_main" /\ state.rsp = CallerRsp - 1
  /\ DOMAIN state.regs = Registers /\ Framed(state.regs)
SegmentsOf(segments) ==
  proc.null_ldtr => \A s \in Segments : segments[s] = Loaded(proc.selectors[s])
Called == {"primary_guest", "guest", "startup_env", "startap", "guest_starts"}
Saved  == {"guest", "startup_env", "startap"}

GuestInv ==
  /\ IsRecord(proc)
  /\ \E p \in Processors : proc.selectors = p.selectors
  /\ boot_pc \in {"start_x64", "deadloop", "returned"} \union Called
  /\ boot_pc = "start_x64" =>
       proc.rsp = CallerRsp - 1 /\ Framed(proc.regs)
  /\ stack \in [0 .. CallerRsp -> Places]
  /\ stack[CallerRsp - 1] = "after_call_loader"
  /\ boot_pc \in Called => IsCaller(initial_state)
  /\ boot_pc \in Saved => /\ IsCaller(cpu_state.gp)
                          /\ SegmentsOf(cpu_state.segments)
  /\ boot_pc = "guest_starts" =>
       /\ proc.rip = "after_starter_main" /\ proc.rsp = CallerRsp - 1
       /\ Framed(proc.regs) /\ SegmentsOf(proc.segments)
  /\ GuestReturns

(* What save_segment_data writes is what the processor had loaded.         *)
LEMMA SegmentAsLoaded ==
  ASSUME NEW p \in Processors, NEW s \in Segments
  PROVE  SegmentData(p.selectors[s]) = Loaded(p.selectors[s])
<1>1. CASE p.selectors[s] = 0  BY <1>1 DEF SegmentData, Loaded
<1>2. CASE p.selectors[s] # 0
  <2> DEFINE d == Descriptors[p.selectors[s]]
  <2>1. d.limit \in Nat /\ Granule \in Nat \ {0}  BY <1>2, EnvAssumption
  <2> HIDE DEF d
  <2>2. (d.limit + 1) * Granule = d.limit * Granule + Granule
        /\ d.limit * Granule \in Nat
    BY <2>1
  <2>3. (d.limit + 1) * (IF d.granularity THEN Granule ELSE 1) = LimitOf(d) + 1
    <3>1. CASE d.granularity
      <4>1. LimitOf(d) = d.limit * Granule + (Granule - 1)  BY <3>1 DEF LimitOf
      <4> QED  BY <2>1, <2>2, <3>1, <4>1
    <3>2. CASE ~d.granularity
      <4>1. LimitOf(d) = d.limit  BY <3>2 DEF LimitOf
      <4> QED  BY <2>1, <3>2, <4>1
    <3> QED  BY <3>1, <3>2
  <2> QED  BY <1>2, <2>3 DEF SegmentData, Loaded, d
<1> QED  BY <1>1, <1>2

LEMMA CallerTyped == CallerRsp \in Nat /\ CallerRsp > 2
  BY DEF CallerRsp

LEMMA GuestStep ==
  ASSUME GuestInv, EnvNext
  PROVE  GuestInv'
<1> USE CallerTyped
<1>1. CASE StartX64
  <2>1. boot_pc = "start_x64" /\ boot_pc' = "primary_guest"
    BY <1>1 DEF StartX64
  <2>2. /\ proc.rsp = CallerRsp - 1 /\ Framed(proc.regs) /\ IsRecord(proc)
        /\ stack \in [0 .. CallerRsp -> Places]
        /\ stack[CallerRsp - 1] = "after_call_loader"
    BY <2>1 DEF GuestInv
  <2>3. proc' = [proc EXCEPT !.rip = "starter_main", !.rsp = @ - 1,
                             !.interrupts = FALSE]
    BY <1>1 DEF StartX64
  <2>4. /\ IsRecord(proc)' /\ proc'.rsp = CallerRsp - 2
        /\ proc'.selectors = proc.selectors
    BY <2>2, <2>3 DEF IsRecord
  <2>5. stack' = [stack EXCEPT ![CallerRsp - 2] = "after_starter_main"]
    <3>1. proc.rsp - 1 = CallerRsp - 2  BY <2>2
    <3> QED  BY <1>1, <3>1 DEF StartX64
  <2>6. /\ stack' \in [0 .. CallerRsp -> Places]
        /\ stack'[CallerRsp - 2] = "after_starter_main"
        /\ stack'[CallerRsp - 1] = "after_call_loader"
    BY <2>2, <2>5 DEF Places
  <2>7. initial_state' = [rip |-> stack'[proc'.rsp], rsp |-> proc.rsp,
                          interrupts |-> FALSE, regs |-> InitialRegs]
    BY <1>1 DEF StartX64, RspAtEntry
  <2>8. IsCaller(initial_state)'
    <3>1. DOMAIN InitialRegs = Registers /\ Framed(InitialRegs)
      BY <2>2 DEF InitialRegs, Framed, Registers
    <3> QED  BY <2>2, <2>4, <2>6, <2>7, <3>1 DEF IsCaller
  <2> QED
    BY <2>1, <2>4, <2>6, <2>8 DEF GuestInv, Called, Saved, GuestReturns
<1>2. CASE SetupPrimaryGuestEnv
  <2>1. SegmentsOf(SavedSegments)
    <3>1. PICK p \in Processors : proc.selectors = p.selectors  BY DEF GuestInv
    <3> QED  BY <3>1, SegmentAsLoaded DEF SegmentsOf, SavedSegments
  <2>2. /\ boot_pc = "primary_guest" /\ UNCHANGED <<proc, stack, initial_state>>
        /\ \/ boot_pc' = "deadloop"
           \/ /\ boot_pc' = "guest"
              /\ cpu_state' = [gp |-> GuestRegs, segments |-> SavedSegments]
    BY <1>2 DEF SetupPrimaryGuestEnv, Loops
  <2>3. IsCaller(initial_state) /\ IsCaller(GuestRegs)
    <3>1. IsCaller(initial_state)  BY <2>2 DEF GuestInv, Called
    <3> QED  BY <3>1 DEF IsCaller, GuestRegs, Framed, Registers
  <2>4. boot_pc' = "guest" =>
          IsCaller(cpu_state'.gp) /\ SegmentsOf(cpu_state'.segments)
    BY <2>1, <2>2, <2>3
  <2> QED
    BY <2>2, <2>4 DEF GuestInv, Called, Saved, GuestReturns, SegmentsOf, IsRecord
<1>3. CASE SetupGuest \/ SetupStartupEnv
  <2>1. /\ boot_pc \in Saved /\ boot_pc' \in Saved \union {"deadloop"}
        /\ UNCHANGED <<proc, stack, initial_state, cpu_state>>
    BY <1>3 DEF SetupGuest, SetupStartupEnv, Loops, Saved
  <2> QED
    BY <2>1 DEF GuestInv, Called, Saved, GuestReturns, SegmentsOf, IsRecord
<1>4. CASE StartGuest
  <2>1. /\ boot_pc = "startap" /\ boot_pc' = "guest_starts"
        /\ UNCHANGED <<stack, initial_state, cpu_state>>
        /\ proc' = [proc EXCEPT !.rip = cpu_state.gp.rip, !.rsp = cpu_state.gp.rsp,
                                !.regs = cpu_state.gp.regs,
                                !.interrupts = cpu_state.gp.interrupts,
                                !.segments = cpu_state.segments]
    BY <1>4 DEF StartGuest
  <2>2. IsCaller(cpu_state.gp) /\ SegmentsOf(cpu_state.segments)
    BY <2>1 DEF GuestInv, Saved
  <2>3. IsRecord(proc)  BY DEF GuestInv
  <2>4. /\ IsRecord(proc)' /\ proc'.selectors = proc.selectors
        /\ proc'.null_ldtr = proc.null_ldtr /\ proc'.rip = "after_starter_main"
        /\ proc'.rsp = CallerRsp - 1 /\ Framed(proc'.regs)
        /\ proc'.segments = cpu_state.segments
    BY <2>1, <2>2, <2>3 DEF IsRecord, IsCaller
  <2> QED
    BY <2>1, <2>2, <2>4 DEF GuestInv, Called, Saved, GuestReturns, SegmentsOf
<1>5. CASE GuestReturn
  <2>1. /\ boot_pc = "guest_starts" /\ boot_pc' = "returned"
        /\ UNCHANGED <<stack, initial_state, cpu_state>>
        /\ proc' = [proc EXCEPT !.interrupts = TRUE, !.rip = stack[proc.rsp],
                                !.rsp = @ + 1]
    BY <1>5 DEF GuestReturn
  <2>2. /\ proc.rsp = CallerRsp - 1 /\ Framed(proc.regs) /\ SegmentsOf(proc.segments)
        /\ stack[CallerRsp - 1] = "after_call_loader" /\ IsRecord(proc)
    BY <2>1 DEF GuestInv
  <2>3. /\ IsRecord(proc)' /\ proc'.selectors = proc.selectors
        /\ proc'.null_ldtr = proc.null_ldtr /\ proc'.rip = "after_call_loader"
        /\ proc'.rsp = CallerRsp /\ proc'.regs = proc.regs
        /\ proc'.segments = proc.segments /\ proc'.interrupts
    BY <2>1, <2>2 DEF IsRecord
  <2>4. \A r \in CalleeSaved \ NotKept : proc'.regs[r] = OfPreload(r)
    BY <2>2, <2>3 DEF CalleeSaved, NotKept, High, Framed
  <2>5. GuestReturns'  BY <2>2, <2>3, <2>4 DEF GuestReturns, SegmentsOf
  <2> QED  BY <2>1, <2>3, <2>5 DEF GuestInv, Called, Saved
<1> QED  BY <1>1, <1>2, <1>3, <1>4, <1>5 DEF EnvNext

(* xmon starts the guest where preload was, on its stack and with its      *)
(* frame and, when LDTR is null, every segment (primary_guest.c:155-290).  *)
THEOREM PreloadResumes == Spec => []GuestReturns
<1>1. Init => GuestInv
  <2> SUFFICES ASSUME Init PROVE GuestInv  OBVIOUS
  <2>1. PICK p \in Processors :
          proc = [rip |-> "start_x64", rsp |-> CallerRsp - 1,
                  regs |-> [r \in Registers |-> OfPreload(r)],
                  interrupts |-> TRUE, segments |-> Selected(p),
                  selectors |-> p.selectors, null_ldtr |-> p.null_ldtr]
    BY DEF Init, EnvInit
  <2>2. boot_pc = "start_x64"
        /\ stack = [place \in 0 .. CallerRsp |->
                      IF place = CallerRsp - 1 THEN "after_call_loader"
                      ELSE "preload_data"]
    BY DEF Init, EnvInit
  <2>3. /\ stack \in [0 .. CallerRsp -> Places]
        /\ stack[CallerRsp - 1] = "after_call_loader"
    BY <2>2, CallerTyped DEF Places
  <2> QED
    BY <2>1, <2>2, <2>3
    DEF GuestInv, IsRecord, Called, Saved, GuestReturns, Framed, Registers
<1>2. ASSUME GuestInv, [Next]_vars
      PROVE  GuestInv'
  <2>1. CASE Boot64  BY <1>2, <2>1, GuestStep DEF Boot64
  <2>2. CASE UNCHANGED envVars
    BY <1>2, <2>2 DEF envVars, GuestInv, GuestReturns, SegmentsOf, IsRecord
  <2> QED  BY <1>2, <2>1, <2>2 DEF Next, Boot32, Others, vars
<1>3. GuestInv => GuestReturns  BY DEF GuestInv
<1> QED  BY <1>1, <1>2, <1>3, PTL DEF Spec

-----------------------------------------------------------------------------
(* The table made of the firmware's map.                                   *)
TableInv ==
  /\ mon_env = [guest |-> mon_env.guest, cpu_states |-> mon_env.cpu_states,
                e820 |-> mon_env.e820, port |-> mon_env.port]
  /\ mon_env.e820 # 0 => e820_table = TableOfMap

LEMMA WordOfDescriptor ==
  ASSUME MapTyped, efi_map.desc_size = MapEntry,
         NEW i \in 1 .. Len(efi_map.entries), NEW f \in {0, 2, 6}
  PROVE  MapWord(Stride * (i - 1) + f) =
           LET d == efi_map.entries[i]
           IN  CASE f = 0 -> <<"type", d.type>>
                 [] f = 2 -> <<"phys_addr", d.phys_addr>>
                 [] f = 6 -> <<"num_pages", d.num_pages>>
<1>1. /\ i - 1 \in Nat /\ MapEntry \in Nat /\ f < MapEntry /\ f \in Nat
      /\ MapEntry > 0
  BY EnvTyped DEF MapTyped
<1> DEFINE w == Stride * (i - 1) + f
           k == i - 1
<1>2. w = k * MapEntry + f  BY <1>1 DEF Stride
<1> HIDE DEF k
<1>3. k \in Nat  BY <1>1 DEF k
<1>4. (k * MapEntry + f) \div MapEntry = k /\ (k * MapEntry + f) % MapEntry = f
  BY <1>1, <1>3
<1>5. w \div MapEntry = i - 1 /\ w % MapEntry = f  BY <1>2, <1>4 DEF k
<1>6. (i - 1) + 1 = i  BY <1>1
<1> HIDE DEF w
<1>7. MapWord(w) = LET d == efi_map.entries[i]
                   IN  CASE f = 0 -> <<"type", d.type>>
                         [] f = 2 -> <<"phys_addr", d.phys_addr>>
                         [] f = 6 -> <<"num_pages", d.num_pages>>
                         [] OTHER -> <<"word", f>>
  BY <1>5, <1>6 DEF MapWord
<1> QED  BY <1>7 DEF w

LEMMA WholeDescriptors ==
  ASSUME NEW n \in Nat, NEW of \in Nat \ {0}
  PROVE  n \div of \in Nat /\ (n \div of) * of <= n
<1> DEFINE q == n \div of
           r == n % of
<1>1. q \in Nat /\ n = q * of + r  BY Quotient
<1>2. r \in Nat  BY RemainderRange
<1>3. q * of \in Nat  BY <1>1, MultipleProduct DEF Multiple
<1> HIDE DEF q, r
<1>4. q * of <= n  BY <1>1, <1>2, <1>3
<1> QED  BY <1>1, <1>4 DEF q

LEMMA TableIsFaithful ==
  ASSUME MapTyped, e820_table = TableOfMap
  PROVE  /\ 2 + TableEntry * Len(e820_table) <= TableBytes \/ e820_table = <<>>
         /\ efi_map.desc_size = MapEntry =>
              /\ Len(e820_table) = Len(efi_map.entries)
              /\ \A i \in 1 .. Len(e820_table) :
                   LET d == efi_map.entries[i]
                   IN  e820_table[i] = [base_address |-> <<"phys_addr", d.phys_addr>>,
                                        length |-> <<"num_pages", d.num_pages>>,
                                        type |-> EfiTypeToE820Type(d.type)]
<1>1. MapSize \in Nat /\ TableBytes \in Nat /\ MapSize <= TableBytes
  BY TableBytesTyped
<1>2. Count \in Nat /\ Count * MapEntry <= MapSize
  <2>1. MapEntry \in Nat \ {0}  BY EnvTyped
  <2>2. Count = MapSize \div MapEntry  BY DEF Count, Stride
  <2> QED  BY <1>1, <2>1, <2>2, WholeDescriptors
<1>3. DOMAIN e820_table = 1 .. Count /\ Len(e820_table) = Count
  BY <1>2 DEF TableOfMap
<1>4. 2 + TableEntry * Count <= TableBytes \/ Count = 0
  <2>1. CASE Count # 0
    <3>1. Count * (TableEntry + 2) <= Count * MapEntry
      BY <1>2, EnvTyped, ProductGrows
    <3>2. Count * (TableEntry + 2) = TableEntry * Count + 2 * Count
      BY <1>2, EnvTyped
    <3>3. Count * MapEntry \in Nat /\ TableEntry * Count \in Nat
      BY <1>2, EnvTyped
    <3>4. 2 <= 2 * Count  BY <1>2, <2>1
    <3> QED  BY <1>1, <1>2, <3>1, <3>2, <3>3, <3>4
  <2> QED  BY <2>1
<1>5. Count = 0 => e820_table = <<>>
  BY <1>3 DEF TableOfMap
<1>6. ASSUME efi_map.desc_size = MapEntry
      PROVE  Count = Len(efi_map.entries)
  <2>1. Len(efi_map.entries) \in Nat /\ MapEntry \in Nat /\ MapEntry > 0
    BY EnvTyped DEF MapTyped
  <2>2. MapSize = Len(efi_map.entries) * MapEntry  BY <1>6 DEF MapSize
  <2>3. ASSUME NEW k \in Nat
        PROVE  (k * MapEntry) \div MapEntry = k
    BY <2>1
  <2> QED  BY <2>1, <2>2, <2>3 DEF Count, Stride
<1>7. ASSUME efi_map.desc_size = MapEntry, NEW i \in 1 .. Count
      PROVE  LET d == efi_map.entries[i]
             IN  e820_table[i] = [base_address |-> <<"phys_addr", d.phys_addr>>,
                                  length |-> <<"num_pages", d.num_pages>>,
                                  type |-> EfiTypeToE820Type(d.type)]
  <2> DEFINE d == efi_map.entries[i]
  <2>1. i \in 1 .. Len(efi_map.entries)  BY <1>6, <1>7
  <2>2. /\ MapWord(Stride * (i - 1) + 2) = <<"phys_addr", d.phys_addr>>
        /\ MapWord(Stride * (i - 1) + 6) = <<"num_pages", d.num_pages>>
        /\ MapWord(Stride * (i - 1) + 0) = <<"type", d.type>>
    BY <1>7, <2>1, WordOfDescriptor
  <2>3. Stride * (i - 1) + 0 = Stride * (i - 1)
    BY <1>2, EnvTyped DEF Stride
  <2>4. TypeIn(<<"type", d.type>>) = EfiTypeToE820Type(d.type)  BY DEF TypeIn
  <2> QED  BY <2>2, <2>3, <2>4 DEF TableOfMap
<1> QED  BY <1>3, <1>4, <1>5, <1>6, <1>7

(* On firmware with descriptors of the size that e820.c assumes the guest's *)
(* table is the firmware's map, and on any it fits its block (e820.c:103). *)
THEOREM TableIsMap == Spec => []TableFaithful
<1>1. Init => TableInv  BY DEF Init, EnvInit, TableInv
<1>2. ASSUME TableInv, [Next]_vars
      PROVE  TableInv'
  <2>1. TableOfMap' = TableOfMap
    BY <1>2, MapStays DEF TableOfMap, MapWord, Count, MapSize
  <2>2. CASE UNCHANGED <<mon_env, e820_table>>
    BY <1>2, <2>1, <2>2 DEF TableInv
  <2>3. CASE SetupPrimaryGuestEnv \/ SetupGuest
    <3>1. UNCHANGED e820_table
      BY <2>3 DEF SetupPrimaryGuestEnv, SetupGuest, Loops
    <3>2. \/ UNCHANGED mon_env
          \/ mon_env' = [mon_env EXCEPT !.cpu_states = NewBlock]
          \/ mon_env' = [mon_env EXCEPT !.guest = NewBlock]
      BY <2>3 DEF SetupPrimaryGuestEnv, SetupGuest, Loops
    <3> QED  BY <1>2, <2>1, <3>1, <3>2 DEF TableInv
  <2>4. CASE SetupStartupEnv
    <3>1. \/ UNCHANGED <<mon_env, e820_table>>
          \/ /\ e820_table' = TableOfMap
             /\ \E port : mon_env' = [mon_env EXCEPT !.e820 = NewBlock, !.port = port]
      BY <2>4 DEF SetupStartupEnv, Loops
    <3> QED  BY <1>2, <2>1, <3>1 DEF TableInv
  <2> QED
    BY <1>2, <2>2, <2>3, <2>4
    DEF Next, Boot64, Boot32, Others, EnvNext, StartX64, StartGuest, GuestReturn,
      envVars, vars
<1>3. TableInv /\ MapTyped => TableFaithful
  BY TableIsFaithful DEF TableInv, TableFaithful
<1> QED  BY <1>1, <1>2, <1>3, HeapAlways, PTL DEF Spec
=============================================================================
