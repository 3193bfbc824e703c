------------------------------ MODULE ElfLoad -------------------------------
(***************************************************************************)
(* Loading an ELF image that lies in memory (src/common/ld): the answer of *)
(* get_image_info, the checks that its callers make of it, and load_image, *)
(* which copies the segments, moves the program headers and relocates.     *)
(* The loops are one step for each entry they visit.                       *)
(*                                                                         *)
(* Offsets, addresses and sizes are in cells: a cell is an ELF header, a   *)
(* program header, a relocation entry or the target of one.  A cell of     *)
(* memory is known by where its content comes from.                        *)
(***************************************************************************)
EXTENDS Integers, Sequences

CONSTANTS
  Top,      \* cells of memory
  Base,     \* where the caller has the image loaded
  Space,    \* the space it has there
  Page,     \* cells that an image's lowest address is a multiple of
  SizeMod,  \* the modulus of size_t and of elf64_addr_t
  WordMod,  \* the modulus of elf32_addr_t
  InfoMod,  \* the modulus of image_info_t's load_size
  MaxPhdrs, \* the largest int16_t, which counts the program headers
  Images    \* the files: see ImageOf

(* The width of an address, and of every other field, of an image.         *)
AddrModOf(image) == IF image.machine = "em64t" THEN SizeMod ELSE WordMod
Fields(mod) == 0 .. mod - 1
PhdrOf(mod) == [type : {"load", "dynamic", "other"}, off : Fields(mod),
                filesz : Fields(mod), addr : Fields(mod), memsz : Fields(mod)]
(* The dynamic section: the value of DT_RELA and of DT_RELASZ, and whether *)
(* it has those entries and DT_RELAENT.                                    *)
DynOf(mod) == [has : BOOLEAN, rela : Fields(mod), sz : Fields(mod)]
RelaOf(mod) == [type : {"relative", "symbol", "none", "unsupported"},
                target : Fields(mod), addend : Fields(mod)]
(* An image: whether its header is a valid one of an executable, and for   *)
(* which machine, the length of the file, the program headers and where    *)
(* they are, and the relocation entries: relas[k] is the file's cell k.    *)
ImageOf(image) ==
  LET mod == AddrModOf(image)
  IN  /\ image.valid \in BOOLEAN /\ image.machine \in {"x86", "em64t"}
      /\ {image.length, image.phoff, image.entry} \subseteq Fields(mod)
      /\ Len(image.phdrs) \in Nat
      /\ \A k \in 1 .. Len(image.phdrs) : image.phdrs[k] \in PhdrOf(mod)
      /\ image.dyn \in DynOf(mod)
      /\ DOMAIN image.relas \subseteq Nat
      /\ \A k \in DOMAIN image.relas : image.relas[k] \in RelaOf(mod)

ASSUME ElfAssumption ==
  /\ {Base, Space} \subseteq Nat /\ Base + Space <= Top
  /\ Top \in Nat \ {0} /\ Page \in Nat \ {0}
  /\ SizeMod \in Nat /\ SizeMod > Top
  /\ {WordMod, InfoMod} \subseteq 1 .. SizeMod /\ MaxPhdrs \in Nat
  /\ \A image \in Images : ImageOf(image)

Cells == 0 .. Top - 1
Old       == <<"old", 0>>
Zero      == <<"zero", 0>>
File(k)   == <<"file", k>>    \* the file's cell k
Moved(k)  == <<"moved", k>>   \* the same, a program header, moved
Addend(a) == <<"addend", a>>  \* the address that was a in the file
Symbol(a) == <<"symbol", a>>  \* the same, and the value of a symbol

VARIABLES
  img,
  pc, i,      \* the step, and the entry the loop is at
  load_info,  \* elf_load_info_t
  phdr_dyn,   \* the index of the dynamic segment, or 0 for NULL
  fetched,    \* how much mem_image_read last copied
  mem
vars == <<img, pc, i, load_info, phdr_dyn, fetched, mem>>

Infinity == SizeMod - 1   \* ~0
Init == /\ img \in Images
        /\ pc = "get_info" /\ i = 1
        /\ load_info = [low |-> Infinity, max |-> 0, start |-> 0, offset |-> 0,
                        entry |-> 0]
        /\ phdr_dyn = 0
        /\ fetched = 0
        /\ mem = [c \in Cells |-> Old]

(* What the loops count to, (int16_t)e_phnum, and the size that the caller *)
(* is told.                                                                *)
phnum     == IF Len(img.phdrs) <= MaxPhdrs THEN Len(img.phdrs) ELSE 0
load_size == (load_info.max - load_info.low) % InfoMod
AddrMod   == AddrModOf(img)
Loadable(phdr) == phdr.type = "load" /\ phdr.memsz # 0

(* mem_image_read and mem_image_map_to_mem: no more than the size, by a    *)
(* sum and a subtraction in size_t.  A sum that wraps is within any size:  *)
(* what is read then lies before the file.                                 *)
ClampedEarly(off, n, size) ==
  IF (off + n) % SizeMod >= size THEN (size - off - 1) % SizeMod ELSE n
Clamped(off, n, size) ==
  IF (off + n) % SizeMod > size THEN (size - off) % SizeMod ELSE n
Wraps(off, n) == off + n >= SizeMod

Stop(from, to) == /\ pc = from /\ pc' = to
                  /\ UNCHANGED <<img, i, load_info, phdr_dyn, fetched, mem>>
Goto(from, to) == pc = from /\ pc' = to /\ i' = 1 /\ UNCHANGED img

(* The header, and the table of program headers, within size.              *)
HeadersMap(size) == /\ Clamped(0, 1, size) = 1
                    /\ Clamped(img.phoff, Len(img.phdrs), size) = Len(img.phdrs)
HeadersWrap == Wraps(img.phoff, Len(img.phdrs))

(* get_image_info                                                          *)
HeaderValid == img.valid
GetLoadInfo ==
  \/ /\ ~(HeadersMap(img.length) /\ HeaderValid)
     /\ Stop("get_info", "refused")
  \/ /\ HeadersMap(img.length) /\ HeaderValid /\ HeadersWrap
     /\ Stop("get_info", "lost")
  \/ /\ HeadersMap(img.length) /\ HeaderValid /\ ~HeadersWrap
     /\ Goto("get_info", "scan")
     /\ UNCHANGED <<load_info, phdr_dyn, fetched, mem>>

(* What the segments span, by sums as wide as an address: one that wraps   *)
(* is not the largest.  elf32_get_load_info has the same loop.             *)
MemEnd(phdr)  == phdr.addr + phdr.memsz
FileEnd(phdr) == phdr.addr + phdr.filesz
Extend(phdr, end) ==
  [load_info EXCEPT !.low = IF phdr.addr < @ THEN phdr.addr ELSE @,
                    !.max = IF end > @ THEN end ELSE @]
ExtendByFile(phdr) == Extend(phdr, FileEnd(phdr) % AddrMod)
ExtendByMem(phdr)  == Extend(phdr, MemEnd(phdr) % AddrMod)
ScanSegment ==
  /\ pc = "scan" /\ i <= phnum
  /\ i' = i + 1
  /\ load_info' = IF Loadable(img.phdrs[i]) THEN ExtendByMem(img.phdrs[i])
                  ELSE load_info
  /\ UNCHANGED <<img, pc, phdr_dyn, fetched, mem>>

(* The lowest address on a page boundary, then what the callers ask of the *)
(* answer.  ~0 is not on one: an image has a segment to load.              *)
AnySize == TRUE
SizeFits == load_size <= Space
InfoAccepted == /\ load_info.low # Infinity /\ load_info.low % Page = 0
                /\ img.machine = "em64t"
                /\ load_size # 0 /\ SizeFits
CheckInfo ==
  /\ i > phnum
  /\ \/ ~InfoAccepted /\ Stop("scan", "refused")
     \/ /\ InfoAccepted
        /\ Goto("scan", "load")
        /\ UNCHANGED <<load_info, phdr_dyn, fetched, mem>>

(* load_image: the same information again, with the size in memory for the *)
(* size of the file, and the move to Base.                                 *)
StartLoad ==
  \/ ~HeadersMap(load_size) /\ Stop("load", "failed")
  \/ /\ HeadersMap(load_size)
     /\ Goto("load", "segments")
     /\ load_info' = [load_info EXCEPT !.start = Base,
                                       !.offset = Base - load_info.low,
                        !.entry = (img.entry + Base - load_info.low) % SizeMod]
     /\ UNCHANGED <<phdr_dyn, fetched, mem>>

(* A segment: what the file has of it, then zeros.  Of the addresses from  *)
(* a on, which wrap, those of cells change.                                *)
WholeFile(phdr) == phdr.filesz
NoMoreThanMem(phdr) == IF phdr.filesz > phdr.memsz THEN phdr.memsz
                       ELSE phdr.filesz
Ahead(a, c) == IF a <= c THEN c - a ELSE c + SizeMod - a
Dest(phdr) == (phdr.addr + load_info.offset) % SizeMod
BssDest(phdr, n) ==
  LET end == (phdr.addr + n) % AddrMod IN (end + load_info.offset) % SizeMod
Copied(phdr, n) ==
  LET a == Dest(phdr)
  IN  [c \in Cells |-> IF Ahead(a, c) < n
                       THEN File((phdr.off + Ahead(a, c)) % SizeMod)
                       ELSE mem[c]]
BssKept(phdr, n, memory) == memory
BssCleared(phdr, n, memory) ==
  LET a == BssDest(phdr, n)
  IN  [c \in Cells |-> IF Ahead(a, c) < phdr.memsz - n THEN Zero ELSE memory[c]]

(* A read cut short copies what there is and fails.  One that starts after *)
(* the end copies nearly all of the address space: nothing is known of     *)
(* what comes after.                                                       *)
CopySegment(phdr) ==
  LET n   == NoMoreThanMem(phdr)
      got == Clamped(phdr.off, n, load_size)
  IN  /\ fetched' = got
      /\ \/ /\ got = n
            /\ mem' = BssCleared(phdr, n, Copied(phdr, n))
            /\ i' = i + 1 /\ UNCHANGED pc
         \/ /\ got < n
            /\ mem' = Copied(phdr, got)
            /\ pc' = "failed" /\ UNCHANGED i
         \/ /\ got > n
            /\ mem' = Copied(phdr, got)
            /\ pc' = "lost" /\ UNCHANGED i
LoadSegment ==
  /\ pc = "segments" /\ i <= phnum
  /\ LET phdr == img.phdrs[i]
     IN  /\ phdr_dyn' = IF phdr.type = "dynamic" THEN i ELSE phdr_dyn
         /\ \/ Loadable(phdr) /\ CopySegment(phdr)
            \/ /\ ~Loadable(phdr)
               /\ i' = i + 1 /\ UNCHANGED <<pc, fetched, mem>>
  /\ UNCHANGED <<img, load_info>>

(* The headers are now read where the lowest segment is.  Zeros are a      *)
(* header without entries; what anything else is read as is not known.     *)
FindHeaders ==
  /\ pc = "segments" /\ i > phnum
  /\ pc' = CASE mem[load_info.start] = File(0) -> "move"
             [] mem[load_info.start] = Zero    -> "relocate"
             [] OTHER                          -> "lost"
  /\ i' = 1
  /\ UNCHANGED <<img, load_info, phdr_dyn, fetched, mem>>

Holds(a, what) == a \in Cells /\ mem[a] = what
MoveHeader ==
  /\ pc = "move" /\ i <= phnum
  /\ LET k == img.phoff + i - 1
         a == load_info.start + k
     IN  \/ /\ Holds(a, File(k)) \/ Holds(a, Zero)
            /\ mem' = IF Holds(a, File(k)) /\ img.phdrs[i].memsz # 0
                      THEN [mem EXCEPT ![a] = Moved(k)] ELSE mem
            /\ i' = i + 1 /\ UNCHANGED pc
         \/ /\ ~(Holds(a, File(k)) \/ Holds(a, Zero))
            /\ pc' = "lost" /\ UNCHANGED <<i, mem>>
  /\ UNCHANGED <<img, load_info, phdr_dyn, fetched>>
HeadersMoved ==
  /\ i > phnum
  /\ Goto("move", "relocate")
  /\ UNCHANGED <<load_info, phdr_dyn, fetched, mem>>

(* elf64_do_relocation: the dynamic section is read in the file, and the   *)
(* number of entries is a quotient, by zero when there are none.           *)
StartRelocation ==
  \/ phdr_dyn = 0 /\ Stop("relocate", "loaded")
  \/ /\ phdr_dyn # 0
     /\ LET dyn == img.phdrs[phdr_dyn]
        IN  IF Clamped(dyn.off, dyn.filesz, load_size) # dyn.filesz
            THEN Stop("relocate", "failed")
            ELSE IF ~img.dyn.has \/ Wraps(dyn.off, dyn.filesz)
            THEN Stop("relocate", "lost")
            ELSE /\ Goto("relocate", "relas")
                 /\ UNCHANGED <<load_info, phdr_dyn, fetched, mem>>

(* The entries are read in memory, DT_RELA cells above start_addr.         *)
RelaAt(a) == CASE Holds(a, Zero) -> {[type |-> "none", target |-> 0, addend |-> 0]}
               [] \E k \in DOMAIN img.relas : Holds(a, File(k))
                    -> {img.relas[mem[a][2]]}
               [] OTHER -> {}
RelaPlace(at)  == (load_info.start + at + i - 1) % SizeMod
TargetOf(rela) == (rela.target + load_info.offset) % AddrMod
ValueOf(rela)  == IF rela.type = "symbol" THEN Symbol(rela.addend)
                  ELSE Addend(rela.addend)
ApplyRela ==
  /\ pc = "relas" /\ i <= img.dyn.sz
  /\ LET found == RelaAt(RelaPlace(img.dyn.rela))
     IN  \/ /\ found = {}
            /\ pc' = "lost" /\ UNCHANGED <<i, mem>>
         \/ \E rela \in found :
              \/ /\ rela.type = "none"
                 /\ i' = i + 1 /\ UNCHANGED <<pc, mem>>
              \/ /\ rela.type = "unsupported"
                 /\ pc' = "failed" /\ UNCHANGED <<i, mem>>
              \/ /\ rela.type \in {"relative", "symbol"}
                 /\ TargetOf(rela) \in Cells
                 /\ mem' = [mem EXCEPT ![TargetOf(rela)] = ValueOf(rela)]
                 /\ i' = i + 1 /\ UNCHANGED pc
              \/ /\ rela.type \in {"relative", "symbol"}
                 /\ TargetOf(rela) \notin Cells
                 /\ pc' = "lost" /\ UNCHANGED <<i, mem>>
  /\ UNCHANGED <<img, load_info, phdr_dyn, fetched>>
RelocationDone == i > img.dyn.sz /\ Stop("relas", "loaded")

Next == \/ GetLoadInfo \/ ScanSegment \/ CheckInfo \/ StartLoad \/ LoadSegment
        \/ FindHeaders \/ MoveHeader \/ HeadersMoved \/ StartRelocation
        \/ ApplyRela \/ RelocationDone
Spec     == Init /\ [][Next]_vars
FairSpec == Spec /\ WF_vars(Next)

-----------------------------------------------------------------------------
(* What the loader takes for granted: the images that "ld -pie" makes with *)
(* relocations, and executables without (startap/Makefile:43,              *)
(* pre_os/xmon_loader/Makefile:73).                                        *)

Loads(image) == {phdr \in {image.phdrs[k] : k \in 1 .. Len(image.phdrs)} :
                   Loadable(phdr)}
FileCells(phdr) == phdr.addr .. FileEnd(phdr) - 1
MemCells(phdr)  == phdr.addr .. MemEnd(phdr) - 1
(* No count, no sum of the scan, no size and no address is cut to a type's *)
(* width.                                                                  *)
NothingCut(image) ==
  /\ Len(image.phdrs) <= MaxPhdrs
  /\ Base + Space <= AddrModOf(image)
  /\ \A s, t \in Loads(image) :
       MemEnd(s) < AddrModOf(image) /\ MemEnd(s) - t.addr < InfoMod
(* The lowest segment begins with the headers, on a page.                  *)
HeadSegment(image, head) ==
  /\ head \in Loads(image)
  /\ head.off = 0 /\ head.addr % Page = 0
  /\ 1 <= image.phoff /\ image.phoff + Len(image.phdrs) <= head.filesz
(* The segments are in the file, which is no sparser than memory, and      *)
(* apart from each other.                                                  *)
SegmentsApart(image, head) ==
  /\ \A s \in Loads(image) :
       /\ s.filesz <= s.memsz
       /\ s.off + s.filesz <= image.length
       /\ head.addr <= s.addr /\ s.off <= s.addr - head.addr
  /\ \A k, l \in 1 .. Len(image.phdrs) :
       k # l /\ Loadable(image.phdrs[k]) /\ Loadable(image.phdrs[l])
         => MemCells(image.phdrs[k]) \intersect MemCells(image.phdrs[l]) = {}
(* The relocation entries, which are no program headers, their addresses,  *)
(* and the addresses they change, which no two share.                      *)
RelaCells(image)  == image.dyn.rela .. image.dyn.rela + image.dyn.sz - 1
HeadCells(image, head) ==
  {head.addr + image.phoff + k - 1 : k \in 1 .. Len(image.phdrs)}
FileCellAt(image, a, k) ==
  \E s \in Loads(image) : a \in FileCells(s) /\ k = s.off + (a - s.addr)
Relocates(image, rela) ==
  \E a \in RelaCells(image), k \in DOMAIN image.relas :
    FileCellAt(image, a, k) /\ rela = image.relas[k] /\ rela.type # "none"
RelocationsIn(image, head) ==
  /\ image.dyn.has
  /\ head.addr = 0
  /\ \A a \in RelaCells(image) :
       /\ a \notin HeadCells(image, head)
       /\ \E k \in DOMAIN image.relas : FileCellAt(image, a, k)
  /\ \A k, l \in DOMAIN image.relas :
       LET r == image.relas[k]
           t == image.relas[l]
       IN  Relocates(image, r) =>
             /\ r.type # "unsupported"
             /\ \E s \in Loads(image) : r.target \in MemCells(s)
             /\ r.target \notin RelaCells(image) \union HeadCells(image, head)
             /\ Relocates(image, t) /\ r.target = t.target => r = t
Linked(image) ==
  /\ image.valid /\ image.machine = "em64t" /\ image.length >= 1
  /\ NothingCut(image)
  /\ \E head \in Loads(image) :
       /\ HeadSegment(image, head)
       /\ SegmentsApart(image, head)
       /\ \A k \in 1 .. Len(image.phdrs) :
            image.phdrs[k].type = "dynamic" =>
              /\ RelocationsIn(image, head)
              /\ \E s \in Loads(image) :
                   /\ s.off <= image.phdrs[k].off
                   /\ image.phdrs[k].off + image.phdrs[k].filesz <= s.off + s.filesz
Dynamic(image) == \E k \in 1 .. Len(image.phdrs) : image.phdrs[k].type = "dynamic"
FitsSpace(image) ==
  \A s, t \in Loads(image) : MemEnd(s) - t.addr <= Space

-----------------------------------------------------------------------------
(* Properties.                                                             *)

Pcs == {"get_info", "scan", "refused", "load", "segments", "move", "relocate",
        "relas", "rels", "loaded", "failed", "lost"}
Loading == {"segments", "move", "relocate", "relas", "rels", "loaded"}
Values == {"old", "zero", "file", "moved", "addend", "symbol", "based",
           "based_symbol", "spoilt"} \X Nat
TypeOK ==
  /\ img \in Images /\ pc \in Pcs
  /\ i \in Nat \ {0}
  /\ load_info \in [low : 0 .. Infinity, max : Nat, start : Nat, offset : Int,
                    entry : Int]
  /\ phdr_dyn \in 0 .. phnum
  /\ fetched \in 0 .. SizeMod - 1
  /\ mem \in [Cells -> Values]
  /\ pc \in Loading =>
       load_info.start .. load_info.start + load_size - 1 \subseteq Cells

(* "preallocated memory buffer, sufficient to contain loaded executable    *)
(* binary" (elf_ld.c:66-67): what the checks of the size do not see must   *)
(* be right in the image.  No sum of its fields wraps, its segments begin  *)
(* in the file no further than the image is large in memory, and its       *)
(* relocations are of its own addresses.  Such an image, however odd       *)
(* otherwise, changes nothing outside the space for it, up to a header or  *)
(* a table that is not where the loader reads it: not by a segment or its  *)
(* zeros, a program header that is moved, or a relocation.                 *)
OffsetsInside(image) ==
  \A s \in Loads(image) : \E t, u \in Loads(image) : s.off <= MemEnd(t) - u.addr
TargetsInside(image) ==
  \A k \in DOMAIN image.relas :
    \E n \in 1 .. Len(image.phdrs) :
      Loadable(image.phdrs[n]) /\ image.relas[k].target \in MemCells(image.phdrs[n])
WithinItself(image) ==
  NothingCut(image) /\ OffsetsInside(image) /\ TargetsInside(image)
Confined ==
  WithinItself(img) =>
    \A c \in Cells \ (Base .. Base + Space - 1) : mem[c] = Old

(* load_image returns TRUE: each address of the image has, at its distance *)
(* from Base, what the file says: relocated, moved, copied or zero, each   *)
(* done once and none undone by a later step.                              *)
Laid(image, head, s, a, n) ==
  IF a \notin FileCells(s) THEN Zero
  ELSE IF \E k \in 1 .. Len(image.phdrs) :
            k <= n /\ a = head.addr + image.phoff + k - 1 /\ image.phdrs[k].memsz # 0
  THEN Moved(a - head.addr)
  ELSE File(s.off + (a - s.addr))
Expected(image, head, s, a) ==
  IF Dynamic(image) /\ \E r \in {image.relas[k] : k \in DOMAIN image.relas} :
                         Relocates(image, r) /\ r.target = a
  THEN {ValueOf(r) : r \in {t \in {image.relas[k] : k \in DOMAIN image.relas} :
                              Relocates(image, t) /\ t.target = a}}
  ELSE {Laid(image, head, s, a, Len(image.phdrs))}
LoadedRight ==
  pc = "loaded" /\ Linked(img) =>
    \E head \in Loads(img) :
      /\ HeadSegment(img, head)
      /\ load_info.entry = (Base + img.entry - head.addr) % SizeMod
      /\ \A s \in Loads(img) : \A a \in MemCells(s) :
           mem[Base + a - head.addr] \in Expected(img, head, s, a)

(* A linked image that fits is loaded, although its file is read with the  *)
(* image's size in memory for a bound (elf_ld.c:209).                      *)
SoundImagesLoad ==
  (pc = "get_info" /\ Linked(img) /\ FitsSpace(img)) ~> pc = "loaded"

(* "read no more than size" (image_access_mem.c:35).                       *)
ReadsNoMore == fetched > 0 => fetched <= load_size
-----------------------------------------------------------------------------
(* The inductive invariant of Confined, for the proofs: what the scan has  *)
(* seen lies between low and max, which are where a segment begins and     *)
(* where one ends, and from the check on that is what the space is large   *)
(* enough for.                                                             *)
Scanned == pc \in Loading \union {"scan", "load"} =>
  \A k \in 1 .. phnum :
    Loadable(img.phdrs[k]) /\ (pc = "scan" => k < i) =>
      /\ load_info.low <= img.phdrs[k].addr
      /\ MemEnd(img.phdrs[k]) <= load_info.max
Checked == /\ pc \in Loading \union {"load"} =>
                load_info.low # Infinity /\ load_size \in 1 .. Space
           /\ pc \in Loading => /\ load_info.start = Base
                                /\ load_info.offset = Base - load_info.low
Ordered == load_info.low = Infinity \/ load_info.low <= load_info.max
Spanned ==
  /\ load_info.low = Infinity \/ \E s \in Loads(img) : load_info.low = s.addr
  /\ load_info.max = 0 \/ \E s \in Loads(img) : load_info.max = MemEnd(s)
ElfInv == /\ TypeOK
          /\ NothingCut(img) => Ordered /\ Spanned /\ Scanned
          /\ Checked /\ Confined
-----------------------------------------------------------------------------
(* The inductive invariant of LoadedRight, for the proofs: what is done of *)
(* an image whose headers and segments lie as the linker makes them.  The  *)
(* segments are copied, their headers moved, and the relocations made, up  *)
(* to the entry that the loop is at.                                       *)
At(memory, head, a) == memory[Base + a - head.addr]
LaidUpTo(image, memory, head, segments, n) ==
  \A k \in 1 .. Len(image.phdrs) : k <= segments /\ Loadable(image.phdrs[k]) =>
    \A a \in MemCells(image.phdrs[k]) :
      At(memory, head, a) = Laid(image, head, image.phdrs[k], a, n)
Made(image, n) ==
  {r \in {image.relas[k] : k \in DOMAIN image.relas} :
     r.type # "none" /\ \E a \in RelaCells(image), k \in DOMAIN image.relas :
       a < image.dyn.rela + n /\ FileCellAt(image, a, k) /\ r = image.relas[k]}
RelocatedUpTo(image, memory, head, n) ==
  \A k \in 1 .. Len(image.phdrs) : Loadable(image.phdrs[k]) =>
    \A a \in MemCells(image.phdrs[k]) :
      /\ \A r \in Made(image, n) : r.target = a =>
           At(memory, head, a) = ValueOf(r)
      /\ (\A r \in Made(image, n) : r.target # a) =>
           At(memory, head, a) = Laid(image, head, image.phdrs[k], a, Len(image.phdrs))
DynInv ==
  /\ phdr_dyn # 0 => img.phdrs[phdr_dyn].type = "dynamic"
  /\ pc \in Loading /\ phdr_dyn = 0 =>
       \A k \in 1 .. phnum :
         (pc = "segments" => k < i) => img.phdrs[k].type # "dynamic"
Progress(head) ==
  /\ head.addr <= load_info.low
  /\ pc \in Loading =>
       load_info.entry = (Base + img.entry - load_info.low) % SizeMod
  /\ pc = "segments" => LaidUpTo(img, mem, head, i - 1, 0)
  /\ pc = "move" => LaidUpTo(img, mem, head, phnum, i - 1)
  /\ pc = "relocate" \/ (pc = "loaded" /\ phdr_dyn = 0) =>
       LaidUpTo(img, mem, head, phnum, phnum)
  /\ pc = "relas" => phdr_dyn # 0
Relocated(head) ==
  RelocationsIn(img, head) =>
    /\ pc = "relas" => RelocatedUpTo(img, mem, head, i - 1)
    /\ pc = "loaded" /\ phdr_dyn # 0 =>
         RelocatedUpTo(img, mem, head, img.dyn.sz)
ProgressInv ==
  DynInv /\ \A head \in Loads(img) :
    NothingCut(img) /\ HeadSegment(img, head) /\ SegmentsApart(img, head) =>
      Progress(head) /\ Relocated(head)
-----------------------------------------------------------------------------
(* For the proofs: what of SoundImagesLoad is not fairness.  A linked      *)
(* image that fits is never refused and no step of its load fails, and     *)
(* every step, of any image, leaves fewer to make.                         *)
SoundNeverFail ==
  Linked(img) /\ FitsSpace(img) => pc \notin {"refused", "failed", "lost"}

(* No entry is visited after the last, of so many relocation entries.      *)
Ended == {"refused", "loaded", "failed", "lost"}
InLoop(entries) ==
  /\ pc \in {"scan", "segments", "move"} => i <= phnum + 1
  /\ pc \in {"relas", "rels"} => i <= entries + 1
StepsAt(at, entry, pass, entries) ==
  CASE at = "get_info"          -> 3 * pass + entries + 4
    [] at = "scan"              -> 3 * pass + entries + 4 - entry
    [] at = "load"              -> 2 * pass + entries + 3
    [] at = "segments"          -> 2 * pass + entries + 3 - entry
    [] at = "move"              -> pass + entries + 3 - entry
    [] at = "relocate"          -> entries + 2
    [] at \in {"relas", "rels"} -> entries + 2 - entry
    [] at \in Ended             -> 0
StepsLeft(entries) == StepsAt(pc, i, phnum + 1, entries)
NearsItsEnd ==
  [][StepsLeft(img.dyn.sz)' \in Nat /\ StepsLeft(img.dyn.sz)' < StepsLeft(img.dyn.sz)]_vars
=============================================================================
