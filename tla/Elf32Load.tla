----------------------------- MODULE Elf32Load -----------------------------
(***************************************************************************)
(* load_image for an image of either class (src/common/ld/elf_ld).  For a  *)
(* 32-bit one, elf32_ld.c does what elf64_ld.c does up to the relocation,  *)
(* which may have entries without an addend: then the address to change is *)
(* in the place that is changed.  The callers in this repository refuse a  *)
(* 32-bit image; load_image does not, so the caller here may or may not.   *)
(***************************************************************************)
EXTENDS ElfLoad

(* An x86 image has more in its dynamic section: the table of entries      *)
(* without addends, where and how large it is and whether DT_RELENT is the *)
(* size of such an entry; and whether DT_SYMTAB is absent, or DT_SYMENT is *)
(* odd, or both are right.  Its entries are in relas too.                  *)
RelOf == [has : BOOLEAN, at : Fields(WordMod), sz : Fields(WordMod)]
X86ImageOf(image) ==
  image.machine = "x86" =>
    image.rel \in RelOf /\ image.symtab \in {"none", "odd", "right"}

ASSUME X86Assumption == \A image \in Images : X86ImageOf(image)

Based(k)       == <<"based", k>>         \* the address in the file's cell k
BasedSymbol(k) == <<"based_symbol", k>>  \* the same, and the value of a symbol
Spoilt         == <<"spoilt", 0>>        \* what is not an address, changed

X86 == img.machine = "x86"

(* As for a 64-bit image.                                                  *)
GetLoadInfo32 == X86 /\ GetLoadInfo
ScanSegment32 == X86 /\ ScanSegment
Refuse32      == X86 /\ i > phnum /\ Stop("scan", "refused")
Accept32 ==
  /\ X86 /\ i > phnum
  /\ load_info.low # Infinity /\ load_info.low % Page = 0
  /\ load_size # 0 /\ SizeFits
  /\ Goto("scan", "load")
  /\ UNCHANGED <<load_info, phdr_dyn, fetched, mem>>
StartLoad32    == X86 /\ StartLoad
LoadSegment32  == X86 /\ LoadSegment
FindHeaders32  == X86 /\ FindHeaders
MoveHeader32   == X86 /\ MoveHeader
HeadersMoved32 == X86 /\ HeadersMoved

(* elf32_do_relocation: the entries with addends, if everything about them *)
(* is there, or else the ones without; a dynamic section with neither is   *)
(* an error.                                                               *)
RelaGiven(image) == image.dyn.has /\ image.dyn.sz # 0 /\ image.symtab = "right"
RelGivenWithEntry(image) ==
  image.rel.has /\ image.rel.sz # 0 /\ image.symtab = "right"
RelGiven(image)  == image.rel.has /\ image.rel.sz # 0 /\ image.symtab # "none"
NoRelocation32 == X86 /\ phdr_dyn = 0 /\ Stop("relocate", "loaded")
StartRelocation32 ==
  /\ X86 /\ phdr_dyn # 0
  /\ LET dyn == img.phdrs[phdr_dyn]
         inFile == Clamped(dyn.off, dyn.filesz, load_size) = dyn.filesz
         wraps  == Wraps(dyn.off, dyn.filesz)
     IN  \/ /\ ~inFile \/ (~wraps /\ ~(RelaGiven(img) \/ RelGiven(img)))
            /\ Stop("relocate", "failed")
         \/ /\ inFile /\ wraps /\ Stop("relocate", "lost")
         \/ /\ inFile /\ ~wraps /\ RelaGiven(img)
            /\ Goto("relocate", "relas")
            /\ UNCHANGED <<load_info, phdr_dyn, fetched, mem>>
         \/ /\ inFile /\ ~wraps /\ ~RelaGiven(img) /\ RelGiven(img)
            /\ Goto("relocate", "rels")
            /\ UNCHANGED <<load_info, phdr_dyn, fetched, mem>>
ApplyRela32      == X86 /\ ApplyRela
RelocationDone32 == X86 /\ RelocationDone

(* What is in the place, and the distance that the image was moved; for a  *)
(* symbol also its value.                                                  *)
RebasedWithAddend(rel, value) == ValueOf(rel)
Rebased(rel, value) ==
  CASE value = Zero -> ValueOf([rel EXCEPT !.addend = 0])
    [] value[1] = "file" /\ rel.type = "relative" -> Based(value[2])
    [] value[1] = "file" /\ rel.type = "symbol"   -> BasedSymbol(value[2])
    [] OTHER -> Spoilt
ApplyRel ==
  /\ X86 /\ pc = "rels" /\ i <= img.rel.sz
  /\ LET found == RelaAt(RelaPlace(img.rel.at))
     IN  \/ found = {} /\ pc' = "lost" /\ UNCHANGED <<i, mem>>
         \/ \E rel \in found :
              \/ /\ rel.type \notin {"relative", "symbol"}
                 /\ pc' = "failed" /\ UNCHANGED <<i, mem>>
              \/ /\ rel.type \in {"relative", "symbol"}
                 /\ TargetOf(rel) \in Cells
                 /\ mem' = [mem EXCEPT ![TargetOf(rel)] = Rebased(rel, @)]
                 /\ i' = i + 1 /\ UNCHANGED pc
              \/ /\ rel.type \in {"relative", "symbol"}
                 /\ TargetOf(rel) \notin Cells
                 /\ pc' = "lost" /\ UNCHANGED <<i, mem>>
  /\ UNCHANGED <<img, load_info, phdr_dyn, fetched>>
RelsDone == X86 /\ i > img.rel.sz /\ Stop("rels", "loaded")

Next32 == \/ GetLoadInfo32 \/ ScanSegment32 \/ Refuse32 \/ Accept32
          \/ StartLoad32 \/ LoadSegment32 \/ FindHeaders32 \/ MoveHeader32
          \/ HeadersMoved32 \/ NoRelocation32 \/ StartRelocation32
          \/ ApplyRela32 \/ RelocationDone32 \/ ApplyRel \/ RelsDone
Next64 == img.machine = "em64t" /\ Next
NextEither == Next64 \/ Next32
EitherSpec     == Init /\ [][NextEither]_vars
EitherFairSpec == EitherSpec /\ WF_vars(NextEither)

-----------------------------------------------------------------------------
(* A 32-bit image as "ld -pie -m elf_i386" makes it: with one table, of    *)
(* entries with addends or without, or with none.                          *)
(* Entries without addends are in one segment, and each changes a place of *)
(* its own: to make one twice would spoil it.                              *)
EachOnce(image) ==
  /\ \E s \in Loads(image) :
       image.rel.at .. image.rel.at + image.rel.sz - 1 \subseteq FileCells(s)
  /\ \A k, l \in DOMAIN image.relas :
       /\ image.relas[k].type # "none"
       /\ image.relas[k].target = image.relas[l].target => k = l
OneTable(image) ==
  \/ RelaGiven(image) /\ ~image.rel.has
  \/ /\ ~image.dyn.has
     /\ image.rel.has /\ image.rel.sz # 0 /\ image.symtab # "none"
     /\ EachOnce(image)
As64(image) ==
  [valid |-> image.valid, machine |-> "em64t", length |-> image.length,
   phoff |-> image.phoff, phdrs |-> image.phdrs, entry |-> image.entry,
   dyn |-> IF image.dyn.has THEN image.dyn
           ELSE [has |-> TRUE, rela |-> image.rel.at, sz |-> image.rel.sz],
   relas |-> image.relas]
Linked32(image) ==
  /\ image.machine = "x86" /\ NothingCut(image) /\ Linked(As64(image))
  /\ Dynamic(image) => OneTable(image)

(* load_image returns TRUE for a 32-bit image: each address of it has what *)
(* the file says, and one that is to be relocated the address that its     *)
(* entry or the file's cell there has, moved once.                         *)
InPlace(rel, laid) ==
  IF laid = Zero THEN ValueOf([rel EXCEPT !.addend = 0])
  ELSE IF rel.type = "relative" THEN Based(laid[2]) ELSE BasedSymbol(laid[2])
Expected32(image, head, s, a) ==
  LET laid == Laid(image, head, s, a, Len(image.phdrs))
      here == {r \in {image.relas[k] : k \in DOMAIN image.relas} :
                 Relocates(As64(image), r) /\ r.target = a}
  IN  IF ~Dynamic(image) \/ here = {} THEN {laid}
      ELSE {IF image.dyn.has THEN ValueOf(r) ELSE InPlace(r, laid) : r \in here}
LoadedRight32 ==
  pc = "loaded" /\ Linked32(img) =>
    \E head \in Loads(img) :
      /\ HeadSegment(img, head)
      /\ \A s \in Loads(img) : \A a \in MemCells(s) :
           mem[Base + a - head.addr] \in Expected32(img, head, s, a)

(* A linked 32-bit image that the caller accepts is loaded, whichever of   *)
(* the two tables it has.                                                  *)
Sound32ImagesLoad == (pc = "load" /\ Linked32(img)) ~> pc = "loaded"
-----------------------------------------------------------------------------
(* The inductive invariant of LoadedRight32, for the proofs: that of the   *)
(* 64-bit loader, but in the relocation without addends.                   *)
RebasedUpTo(image, memory, head, n) ==
  \A k \in 1 .. Len(image.phdrs) : Loadable(image.phdrs[k]) =>
    \A a \in MemCells(image.phdrs[k]) :
      LET laid == Laid(image, head, image.phdrs[k], a, Len(image.phdrs))
      IN  /\ \A r \in Made(image, n) : r.target = a =>
               At(memory, head, a) = InPlace(r, laid)
          /\ (\A r \in Made(image, n) : r.target # a) =>
               At(memory, head, a) = laid
InPlaces == pc = "rels" \/ (pc = "loaded" /\ phdr_dyn # 0 /\ ~RelaGiven(img))
Rebases(head) ==
  OneTable(img) /\ RelocationsIn(As64(img), head) =>
    /\ pc = "rels" => RebasedUpTo(As64(img), mem, head, i - 1)
    /\ pc = "loaded" => RebasedUpTo(As64(img), mem, head, img.rel.sz)
ProgressInv32 ==
  X86 => /\ DynInv
         /\ pc = "relas" => RelaGiven(img)
         /\ pc = "rels" => phdr_dyn # 0 /\ ~RelaGiven(img)
         /\ \A head \in Loads(img) :
              NothingCut(img) /\ HeadSegment(img, head) /\ SegmentsApart(img, head) =>
                /\ Progress(head)
                /\ IF InPlaces THEN Rebases(head) ELSE Relocated(head)
(* Of an image of either class.                                            *)
EitherProgress == (~X86 => ProgressInv) /\ ProgressInv32
-----------------------------------------------------------------------------
(* For the proofs: what of Sound32ImagesLoad is not fairness.  The caller  *)
(* may refuse a 32-bit image, but of a linked one no step of the load      *)
(* fails; and every step, of any image, leaves fewer to make.              *)
Sound32NeverFail == Linked32(img) => pc \notin {"failed", "lost"}
Entries == img.dyn.sz + (IF X86 THEN img.rel.sz ELSE 0)
EitherNearsItsEnd ==
  [][StepsLeft(Entries)' \in Nat /\ StepsLeft(Entries)' < StepsLeft(Entries)]_vars
=============================================================================
