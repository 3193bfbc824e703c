------------------------------ MODULE LongMode ------------------------------
(***************************************************************************)
(* What is left in xmon_loader and startap of the boot from 32-bit mode:   *)
(* a GDT with 64-bit segments (x32_gdt64.c), page tables for 4 GB          *)
(* (x32_pt64.c) and the switch (x32_init64.c).  All of it is compiled; the *)
(* 64-bit boot does not call it.  The tables are pages of the loader's     *)
(* heap, in slots of eight bytes, which is also the heap's alignment.      *)
(***************************************************************************)
EXTENDS LoaderHeap, Sequences

CONSTANTS
  PdptUsed, \* entries of the PDPT, each 1 GB (4)
  Gdts      \* the GDTs that the boot loader may leave: sequences of
            \* descriptors, "null" for one of zeros

Slots == PageSize \div Alignment   \* 512

ASSUME LongModeAssumption ==
  /\ PdptUsed \in 1 .. Slots
  /\ \A gdt \in Gdts : Len(gdt) \in Nat \ {0}

VARIABLES
  gdt_32,   \* the GDT to start from
  words,    \* what is in the heap's slots
  gdtr_64, cs_64,
  pml4, pdp_table, pds,  \* the tables' addresses, 0 before; pds counts the rest
  cpu64     \* GDTR and CR3, PAE, long mode, and whether 64-bit code runs
tableVars == <<gdt_32, gdtr_64, cs_64, pml4, pdp_table, pds, cpu64>>
longVars == <<tableVars, words>>

SlotAddresses == {a \in HeapBase .. HeapBase + HeapBytes - 1 :
                    (a - HeapBase) % Alignment = 0}
Unknown == <<"unknown">>
Zero == <<"zero">>
Descriptor(d) == IF d = "null" THEN Zero ELSE <<"descriptor", d>>
Table(a) == <<"table", a>>
LargePage(n) == <<"page", n>>
NoGdtr == [base |-> 0, entries |-> 0]

LongInit == /\ gdt_32 \in Gdts
            /\ words = [a \in SlotAddresses |-> Unknown]
            /\ gdtr_64 = NoGdtr /\ cs_64 = 0
            /\ pml4 = 0 /\ pdp_table = 0 /\ pds = 0
            /\ cpu64 = [gdtr |-> NoGdtr, cr3 |-> 0, pae |-> FALSE,
                        efer |-> FALSE, code64 |-> FALSE]

(* A page from mon_page_alloc, cleared, with a table in its slots: of      *)
(* those there may be more than a page has.  Without a page the loader     *)
(* loops.                                                                  *)
PageAddress == AlignForward(heap_current, PageSize)
Filled(table) ==
  [a \in SlotAddresses |->
     LET k == (a - PageAddress) \div Alignment
     IN  IF a >= PageAddress /\ k \in DOMAIN table THEN table[k]
         ELSE IF a >= PageAddress /\ k < Slots THEN Zero
         ELSE words[a]]
Cleared == Filled([k \in {} |-> Zero])

-----------------------------------------------------------------------------
(* x32_gdt64_setup: the old entries, then a code and a data segment, the   *)
(* first in place of the last entry when that is 0.                        *)
AlwaysLast == Len(gdt_32) - 1
LastIndex == IF gdt_32[Len(gdt_32)] = "null" THEN Len(gdt_32) - 1
             ELSE Len(gdt_32)
Gdt64 == [k \in 0 .. LastIndex + 1 |->
            IF k = LastIndex THEN Descriptor("code64")
            ELSE IF k = LastIndex + 1 THEN Descriptor("data64")
            ELSE Descriptor(gdt_32[k + 1])]
SetupGdt ==
  /\ ~cpu64.code64 /\ gdtr_64 = NoGdtr
  /\ MonPageAlloc(1)
  /\ words' = Filled(Gdt64)
  /\ gdtr_64' = [base |-> PageAddress, entries |-> Len(gdt_32) + 2]
  /\ cs_64' = LastIndex
  /\ UNCHANGED <<gdt_32, pml4, pdp_table, pds, cpu64>>

(* x32_pt64_setup_paging: a PML4 of one entry, a PDPT, and for each of its *)
(* entries a table of large pages.                                         *)
AllocPml4 ==
  /\ ~cpu64.code64 /\ pml4 = 0
  /\ MonPageAlloc(1)
  /\ pml4' = PageAddress
  /\ words' = Cleared
  /\ UNCHANGED <<gdt_32, gdtr_64, cs_64, pdp_table, pds, cpu64>>
AllocPdpt ==
  /\ pml4 # 0 /\ pdp_table = 0
  /\ MonPageAlloc(1)
  /\ pdp_table' = PageAddress
  /\ words' = [Cleared EXCEPT ![pml4] = Table(PageAddress)]
  /\ UNCHANGED <<gdt_32, gdtr_64, cs_64, pml4, pds, cpu64>>
EachFromZero(k) == LargePage(k)
Consecutive(k) == LargePage(pds * Slots + k)
AllocPd ==
  /\ pdp_table # 0 /\ pds < PdptUsed
  /\ MonPageAlloc(1)
  /\ pds' = pds + 1
  /\ words' = [Filled([k \in 0 .. Slots - 1 |-> Consecutive(k)])
                 EXCEPT ![pdp_table + pds * Alignment] = Table(PageAddress)]
  /\ UNCHANGED <<gdt_32, gdtr_64, cs_64, pml4, pdp_table, cpu64>>

(* x32_init64_start: GDTR, CR3, PAE, EFER, and the jump to 64-bit code.    *)
StartLongMode ==
  /\ ~cpu64.code64 /\ gdtr_64 # NoGdtr /\ pds = PdptUsed
  /\ cpu64' = [gdtr |-> gdtr_64, cr3 |-> pml4, pae |-> TRUE, efer |-> TRUE,
               code64 |-> TRUE]
  /\ UNCHANGED <<heapVars, words, gdt_32, gdtr_64, cs_64, pml4, pdp_table, pds>>

LongNext == \/ SetupGdt \/ AllocPml4 \/ AllocPdpt \/ AllocPd \/ StartLongMode

-----------------------------------------------------------------------------
(* Properties.                                                             *)

(* "establish paging tables for x64 -bit mode, 2MB pages ... It should     *)
(* scope full 32-bit space" (x32_pt64.c:44-46): 64-bit code runs with a    *)
(* CR3 from which every large page of the space is found at its own        *)
(* address, whatever else has been taken from the heap and written since.  *)
EntryAt(table, k) == words[table + k * Alignment]
IdentityMapped ==
  cpu64.code64 =>
    \A n \in 0 .. PdptUsed * Slots - 1 :
      LET pdpt == EntryAt(cpu64.cr3, 0)
          pd   == EntryAt(pdpt[2], n \div Slots)
      IN  /\ pdpt[1] = "table" /\ pd[1] = "table"
          /\ EntryAt(pd[2], n % Slots) = LargePage(n)

(* "1 page should be sufficient ???" (x32_gdt64.c:55): when it is, the     *)
(* 64-bit code runs on a GDT with every descriptor of the old one where it *)
(* was, and with its own two inside the limit, cs at the first.            *)
SegmentsThere ==
  cpu64.code64 /\ Len(gdt_32) + 2 <= Slots =>
    LET gdt(k) == EntryAt(cpu64.gdtr.base, k)
    IN  /\ cs_64 + 1 < cpu64.gdtr.entries
        /\ gdt(cs_64) = Descriptor("code64")
        /\ gdt(cs_64 + 1) = Descriptor("data64")
        /\ \A k \in 1 .. Len(gdt_32) :
             gdt_32[k] # "null" => gdt(k - 1) = Descriptor(gdt_32[k])
=============================================================================
