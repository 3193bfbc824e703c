-------------------------- MODULE Elf32LoadProofs --------------------------
(***************************************************************************)
(* What ElfLoadProofs shows of the loader of 64-bit images holds of both:  *)
(* the inductive invariants are the same, and only the relocation, and the *)
(* caller that does not ask for the machine, are new.                      *)
(***************************************************************************)
EXTENDS Elf32Load, ElfLoadProofs

LEMMA Refuse32Inv == ASSUME ElfInv, Refuse32 PROVE ElfInv'
<1>1. Stop("scan", "refused")  BY DEF Refuse32
<1> QED  BY <1>1, StopInv DEF Pcs, Loading

(* Of the machine, the check that the space is large enough says nothing.  *)
LEMMA Accept32Inv == ASSUME ElfInv, Accept32 PROVE ElfInv'
<1> USE DEF Goto
<1>1. TypeOK'
  BY DEF Accept32, ElfInv, TypeOK, phnum, load_size, Pcs, Loading
<1>2. phnum' = phnum /\ phnum \in Nat /\ i > phnum /\ i \in Nat /\ pc = "scan"
      /\ pc' = "load" /\ img' = img /\ load_info' = load_info
  BY Counted DEF ElfInv, TypeOK, phnum, Accept32
<1>3. NothingCut(img) => Ordered' /\ Spanned' /\ Scanned'
  BY <1>2 DEF ElfInv, Ordered, Spanned, Scanned, Loadable, MemEnd
<1>4. Checked'
  <2>1. load_size # 0 /\ load_size <= Space
    BY DEF Accept32, SizeFits
  <2>2. load_size \in Nat
    <3>1. load_info.low \in 0 .. Infinity /\ load_info.max \in Nat
      BY DEF ElfInv, TypeOK
    <3>2. load_info.max - load_info.low \in Int  BY <3>1, Widths DEF Infinity
    <3>3. InfoMod \in Nat \ {0}  BY Widths
    <3> DEFINE x == load_info.max - load_info.low
    <3>4. x \in Int  BY <3>2
    <3> HIDE DEF x
    <3>5. x % InfoMod \in 0 .. InfoMod - 1  BY <3>3, <3>4, ModIn
    <3>6. x % InfoMod \in Nat  BY <3>3, <3>5
    <3> QED  BY <3>6 DEF load_size, x
  <2>3. load_size' = load_size  BY <1>2 DEF load_size
  <2>4. load_size \in 1 .. Space
    <3> HIDE DEF load_size
    <3> QED  BY <2>1, <2>2, ElfAssumption
  <2>5. load_info.low # Infinity  BY DEF Accept32
  <2> HIDE DEF load_size
  <2> QED  BY <1>2, <2>3, <2>4, <2>5 DEF Checked, Loading
<1>5. Confined'  BY DEF Accept32, ElfInv, Confined
<1> QED  BY <1>1, <1>2, <1>3, <1>4, <1>5 DEF ElfInv

LEMMA StartRelocation32Inv ==
  ASSUME ElfInv, StartRelocation32 \/ NoRelocation32 PROVE ElfInv'
<1>1. CASE \E to \in {"loaded", "failed", "lost"} : Stop("relocate", to)
  BY <1>1, StopInv DEF Pcs, Loading
<1>2. ASSUME NEW to \in {"relas", "rels"}, Goto("relocate", to),
             UNCHANGED <<load_info, phdr_dyn, fetched, mem>>
      PROVE  ElfInv'
  <2>1. /\ pc \in Loading /\ pc' \in Loading \union {"failed", "lost"}
        /\ i' \in Nat \ {0}
        /\ UNCHANGED <<img, load_info, phdr_dyn, fetched, mem>>
    BY <1>2 DEF Goto, Loading
  <2>2. /\ phdr_dyn \in 0 .. phnum /\ fetched \in 0 .. SizeMod - 1
        /\ mem \in [Cells -> Values]
    BY DEF ElfInv, TypeOK
  <2> QED  BY <2>1, <2>2, LoadingInv
<1> QED  BY <1>1, <1>2 DEF StartRelocation32, NoRelocation32

(* Changing what is in a place makes no value that memory cannot have.     *)
LEMMA RebasedTyped ==
  ASSUME NEW rel, rel.addend \in Nat, NEW value \in Values
  PROVE  Rebased(rel, value) \in Values
<1>1. ValueOf([rel EXCEPT !.addend = 0]) \in Values
  <2>1. [rel EXCEPT !.addend = 0].addend \in Nat  OBVIOUS
  <2> QED  BY <2>1 DEF ValueOf, Symbol, Addend, Values
<1>2. value[2] \in Nat  BY DEF Values
<1>3. /\ Based(value[2]) \in Values /\ BasedSymbol(value[2]) \in Values
      /\ Spoilt \in Values
  BY <1>2 DEF Based, BasedSymbol, Spoilt, Values
<1> QED  BY <1>1, <1>3 DEF Rebased

LEMMA ApplyRelInv == ASSUME ElfInv, ApplyRel PROVE ElfInv'
<1> DEFINE a == RelaPlace(img.rel.at)
<1>1. /\ pc \in Loading /\ pc' \in Loading \union {"failed", "lost"}
      /\ UNCHANGED <<img, load_info, phdr_dyn, fetched>>
  BY DEF ApplyRel, Loading
<1>2. /\ phdr_dyn \in 0 .. phnum /\ fetched \in 0 .. SizeMod - 1
      /\ mem \in [Cells -> Values] /\ i \in Nat \ {0} /\ img \in Images
  BY DEF ElfInv, TypeOK
<1>3. i' \in Nat \ {0}  BY <1>2 DEF ApplyRel
<1>4. CASE UNCHANGED mem
  BY <1>1, <1>2, <1>3, <1>4, LoadingInv
<1>5. ASSUME NEW rel \in RelaAt(a), rel.type \in {"relative", "symbol"},
             TargetOf(rel) \in Cells,
             mem' = [mem EXCEPT ![TargetOf(rel)] = Rebased(rel, @)]
      PROVE  ElfInv'
  <2>1. PICK k \in DOMAIN img.relas : rel = img.relas[k]
    <3>1. mem[a][2] \in DOMAIN img.relas /\ rel = img.relas[mem[a][2]]
      BY <1>5 DEF RelaAt, Holds, File
    <3> QED  BY <3>1
  <2>2. rel \in RelaOf(AddrMod) /\ rel.addend \in Nat
    <3>1. ImageOf(img)  BY <1>2, ElfAssumption
    <3>2. rel \in RelaOf(AddrMod)  BY <2>1, <3>1 DEF ImageOf, AddrMod
    <3>3. rel.addend \in Nat  BY <1>2, <2>1, ImageTyped
    <3> QED  BY <3>2, <3>3
  <2>3. Rebased(rel, mem[TargetOf(rel)]) \in Values
    BY <1>2, <1>5, <2>2, RebasedTyped
  <2>4. mem' \in [Cells -> Values]  BY <1>2, <1>5, <2>3
  <2>5. ASSUME WithinItself(img)
        PROVE  \A c \in Cells \ (Base .. Base + Space - 1) : mem'[c] = mem[c]
    <3>1. TargetOf(rel) \in Base .. Base + Space - 1
      BY <1>1, <2>1, <2>5, TargetInSpace
    <3> QED  BY <1>2, <1>5, <3>1
  <2> QED  BY <1>1, <1>2, <1>3, <2>4, <2>5, LoadingInv
<1> QED  BY <1>4, <1>5 DEF ApplyRel

LEMMA RelsDoneInv == ASSUME ElfInv, RelsDone PROVE ElfInv'
<1>1. Stop("rels", "loaded")  BY DEF RelsDone
<1> QED  BY <1>1, StopInv DEF Pcs, Loading

-----------------------------------------------------------------------------
THEOREM EitherInductive == EitherSpec => []ElfInv
<1>1. Init => ElfInv  BY InitInv
<1>2. ASSUME ElfInv, Next32 PROVE ElfInv'
  <2>1. CASE \/ GetLoadInfo32 \/ ScanSegment32 \/ StartLoad32 \/ LoadSegment32
             \/ FindHeaders32 \/ MoveHeader32 \/ HeadersMoved32
             \/ ApplyRela32 \/ RelocationDone32
    <3>1. Next
      BY <2>1 DEF GetLoadInfo32, ScanSegment32, StartLoad32, LoadSegment32,
                  FindHeaders32, MoveHeader32, HeadersMoved32, ApplyRela32,
                  RelocationDone32, Next
    <3> QED  BY <1>2, <3>1, NextInv
  <2>2. CASE Refuse32  BY <1>2, <2>2, Refuse32Inv
  <2>3. CASE Accept32  BY <1>2, <2>3, Accept32Inv
  <2>4. CASE StartRelocation32 \/ NoRelocation32
    BY <1>2, <2>4, StartRelocation32Inv
  <2>5. CASE ApplyRel  BY <1>2, <2>5, ApplyRelInv
  <2>6. CASE RelsDone  BY <1>2, <2>6, RelsDoneInv
  <2> QED  BY <1>2, <2>1, <2>2, <2>3, <2>4, <2>5, <2>6 DEF Next32
<1>3. ElfInv /\ [NextEither]_vars => ElfInv'
  BY <1>2, NextInv, StutterInv DEF NextEither, Next64
<1> QED  BY <1>1, <1>3, PTL DEF EitherSpec

(* Type correctness of load_image for images of both classes.              *)
THEOREM EitherTypeCorrect == EitherSpec => []TypeOK
<1>1. ElfInv => TypeOK  BY DEF ElfInv
<1> QED  BY <1>1, EitherInductive, PTL

(* The load of an image of either class that keeps within itself writes    *)
(* nothing outside the space for it, with addends in the entries or in the *)
(* places (elf32_ld.c:375-387, 410-424).                                   *)
THEOREM EitherConfined == EitherSpec => []Confined
<1>1. ElfInv => Confined  BY DEF ElfInv
<1> QED  BY <1>1, EitherInductive, PTL

-----------------------------------------------------------------------------
(* A 64-bit image with the same segments and entries: only its table is    *)
(* elsewhere.                                                              *)
LEMMA As64Image ==
  ASSUME NEW image, ImageOf(image), X86ImageOf(image), image.machine = "x86"
  PROVE  /\ ImageOf(As64(image))
         /\ As64(image).phdrs = image.phdrs /\ As64(image).relas = image.relas
         /\ As64(image).phoff = image.phoff
         /\ Loads(As64(image)) = Loads(image)
         /\ Dynamic(As64(image)) <=> Dynamic(image)
         /\ image.dyn.has => As64(image).dyn = image.dyn
         /\ ~image.dyn.has => /\ As64(image).dyn.rela = image.rel.at
                              /\ As64(image).dyn.sz = image.rel.sz
         /\ image.rel.at \in Nat /\ image.rel.sz \in Nat
<1>1. /\ As64(image).phdrs = image.phdrs /\ As64(image).relas = image.relas
      /\ As64(image).phoff = image.phoff /\ As64(image).valid = image.valid
      /\ As64(image).length = image.length /\ As64(image).entry = image.entry
      /\ As64(image).machine = "em64t"
      /\ As64(image).dyn = IF image.dyn.has THEN image.dyn
            ELSE [has |-> TRUE, rela |-> image.rel.at, sz |-> image.rel.sz]
  BY DEF As64
<1>2. Fields(WordMod) \subseteq Fields(SizeMod) /\ Fields(WordMod) \subseteq Nat
  BY Widths, ElfAssumption DEF Fields
<1>3. /\ image.rel.at \in Fields(WordMod) /\ image.rel.sz \in Fields(WordMod)
      /\ image.rel.at \in Nat /\ image.rel.sz \in Nat
  BY <1>2 DEF X86ImageOf, RelOf
<1> HIDE DEF As64
<1>4. AddrModOf(image) = WordMod /\ AddrModOf(As64(image)) = SizeMod
  BY <1>1 DEF AddrModOf
<1>5. As64(image).dyn \in DynOf(SizeMod)
  <2>1. image.dyn \in DynOf(WordMod)  BY <1>4 DEF ImageOf
  <2> QED  BY <1>1, <1>2, <1>3, <2>1 DEF DynOf
<1>6. ASSUME NEW k \in 1 .. Len(image.phdrs)
      PROVE  image.phdrs[k] \in PhdrOf(SizeMod)
  <2>1. image.phdrs[k] \in PhdrOf(WordMod)  BY <1>4 DEF ImageOf
  <2> QED  BY <1>2, <2>1 DEF PhdrOf
<1>7. ASSUME NEW k \in DOMAIN image.relas
      PROVE  image.relas[k] \in RelaOf(SizeMod)
  <2>1. image.relas[k] \in RelaOf(WordMod)  BY <1>4 DEF ImageOf
  <2> QED  BY <1>2, <2>1 DEF RelaOf
<1>8. ImageOf(As64(image))
  <2>1. /\ image.valid \in BOOLEAN /\ Len(image.phdrs) \in Nat
        /\ {image.length, image.phoff, image.entry} \subseteq Fields(WordMod)
        /\ DOMAIN image.relas \subseteq Nat
    BY <1>4 DEF ImageOf
  <2> QED  BY <1>1, <1>2, <1>4, <1>5, <1>6, <1>7, <2>1 DEF ImageOf
<1> QED  BY <1>1, <1>3, <1>8 DEF Loads, Dynamic

LEMMA As64Lies ==
  ASSUME NEW image, ImageOf(image), X86ImageOf(image), image.machine = "x86",
         NEW head
  PROVE  /\ HeadSegment(As64(image), head) <=> HeadSegment(image, head)
         /\ SegmentsApart(As64(image), head) => SegmentsApart(image, head)
         /\ SegmentsApart(image, head) => SegmentsApart(As64(image), head)
         /\ HeadCells(As64(image), head) = HeadCells(image, head)
         /\ \A a, k : FileCellAt(As64(image), a, k) <=> FileCellAt(image, a, k)
         /\ \A s, a, n : Laid(As64(image), head, s, a, n) = Laid(image, head, s, a, n)
<1>1. /\ As64(image).phdrs = image.phdrs /\ As64(image).relas = image.relas
      /\ As64(image).phoff = image.phoff
      /\ Loads(As64(image)) = Loads(image)
      /\ As64(image).length = image.length
  BY As64Image DEF As64
<1>2. HeadSegment(As64(image), head) <=> HeadSegment(image, head)
  BY <1>1 DEF HeadSegment
<1>3. SegmentsApart(As64(image), head) <=> SegmentsApart(image, head)
  BY <1>1 DEF SegmentsApart
<1>4. HeadCells(As64(image), head) = HeadCells(image, head)
  BY <1>1 DEF HeadCells
<1>5. \A a, k : FileCellAt(As64(image), a, k) <=> FileCellAt(image, a, k)
  BY <1>1 DEF FileCellAt
<1>6. \A s, a, n : Laid(As64(image), head, s, a, n) = Laid(image, head, s, a, n)
  BY <1>1 DEF Laid
<1> QED  BY <1>2, <1>3, <1>4, <1>5, <1>6

(* With addends, the table is that of the 64-bit image.                    *)
LEMMA SameTable ==
  ASSUME NEW image, ImageOf(image), X86ImageOf(image), image.machine = "x86",
         image.dyn.has, NEW head, RelocationsIn(As64(image), head)
  PROVE  /\ RelocationsIn(image, head)
         /\ Made(image, image.dyn.sz) = Made(As64(image), As64(image).dyn.sz)
<1> DEFINE J == As64(image)
<1>1. /\ J.phdrs = image.phdrs /\ J.relas = image.relas /\ J.dyn = image.dyn
      /\ Loads(J) = Loads(image)
  BY As64Image
<1>2. /\ \A b, j : FileCellAt(J, b, j) <=> FileCellAt(image, b, j)
      /\ HeadCells(J, head) = HeadCells(image, head)
  BY As64Lies
<1>3. RelocationsIn(J, head)  OBVIOUS
<1> HIDE DEF J
<1>4. RelaCells(J) = RelaCells(image)  BY <1>1 DEF RelaCells
<1>5. \A r : Relocates(J, r) <=> Relocates(image, r)
  BY <1>1, <1>2, <1>4 DEF Relocates
<1>6. RelocationsIn(image, head)
  BY <1>1, <1>2, <1>3, <1>4, <1>5 DEF RelocationsIn
<1>7. Made(image, image.dyn.sz) = Made(J, J.dyn.sz)
  BY <1>1, <1>2, <1>4 DEF Made
<1> QED  BY <1>6, <1>7 DEF J

(* With one table, the entries without addends are it when they are used.  *)
LEMMA RelTable ==
  ASSUME ElfInv, X86, OneTable(img), ~RelaGiven(img)
  PROVE  /\ EachOnce(img) /\ ~img.dyn.has
         /\ img.rel.at \in Nat /\ img.rel.sz \in Nat
         /\ As64(img).dyn.rela = img.rel.at /\ As64(img).dyn.sz = img.rel.sz
         /\ RelaCells(As64(img)) = img.rel.at .. img.rel.at + img.rel.sz - 1
<1>1. EachOnce(img) /\ ~img.dyn.has  BY DEF OneTable
<1>2. img.machine = "x86" /\ ImageOf(img) /\ X86ImageOf(img)
  BY ElfAssumption, X86Assumption DEF X86, ElfInv, TypeOK
<1>3. img.rel.at \in Nat /\ img.rel.sz \in Nat
  BY <1>2, As64Image
<1>4. As64(img).dyn.rela = img.rel.at /\ As64(img).dyn.sz = img.rel.sz
  BY <1>1, <1>2, As64Image
<1> QED  BY <1>1, <1>3, <1>4 DEF RelaCells

-----------------------------------------------------------------------------
LEMMA StartRelsProgress ==
  ASSUME ElfInv, NothingCut(img), X86, Goto("relocate", "rels"),
         UNCHANGED <<load_info, phdr_dyn, fetched, mem>>,
         NEW head \in Loads(img), Progress(head)
  PROVE  Progress(head)' /\ (~RelaGiven(img) => Rebases(head)')
<1>1. /\ pc = "relocate" /\ pc' = "rels" /\ i' - 1 = 0
      /\ UNCHANGED <<img, load_info, phdr_dyn, mem>>
      /\ phnum = Len(img.phdrs) /\ phnum' = phnum /\ phnum \in Nat
  BY Counted DEF Goto, phnum, ElfInv, TypeOK
<1>2. Progress(head)'  BY <1>1 DEF Progress, Loading
<1>3. LaidUpTo(img, mem, head, phnum, phnum)  BY <1>1 DEF Progress
<1>4. ASSUME ~RelaGiven(img), OneTable(img)
      PROVE  RebasedUpTo(As64(img), mem, head, 0)
  <2>1. Made(As64(img), 0) = {}
    <3>1. \A a \in RelaCells(As64(img)) : ~(a < As64(img).dyn.rela + 0)
      BY <1>4, RelTable
    <3> HIDE DEF As64
    <3> QED  BY <3>1 DEF Made
  <2>2. ImageOf(img) /\ X86ImageOf(img) /\ img.machine = "x86"
    BY ElfAssumption, X86Assumption DEF X86, ElfInv, TypeOK
  <2>3. /\ As64(img).phdrs = img.phdrs
        /\ \A s, a, n : Laid(As64(img), head, s, a, n) = Laid(img, head, s, a, n)
    BY <2>2, As64Image, As64Lies
  <2> HIDE DEF As64
  <2> QED  BY <1>1, <1>3, <2>1, <2>3 DEF RebasedUpTo, LaidUpTo
<1>5. OneTable(img)' <=> OneTable(img)  BY <1>1
<1> QED  BY <1>1, <1>2, <1>4, <1>5 DEF Rebases

(* An entry is made once: no other is for the place it changes.            *)
LEMMA MadeOnce ==
  ASSUME ElfInv, X86, OneTable(img), ~RelaGiven(img),
         NEW head, SegmentsApart(img, head),
         NEW n \in Nat, img.rel.at + n \in RelaCells(As64(img)),
         NEW k \in DOMAIN img.relas, FileCellAt(img, img.rel.at + n, k)
  PROVE  \A r \in Made(As64(img), n) : r.target # img.relas[k].target
<1> DEFINE J == As64(img)
           e == img.rel.at + n
<1>1. ImageOf(img) /\ X86ImageOf(img) /\ img.machine = "x86"
  BY ElfAssumption, X86Assumption DEF X86, ElfInv, TypeOK
<1>2. /\ EachOnce(img) /\ J.dyn.rela = img.rel.at
      /\ img.rel.at \in Nat
      /\ RelaCells(J) = img.rel.at .. img.rel.at + img.rel.sz - 1
  BY RelTable
<1>3. PICK s \in Loads(img) : RelaCells(J) \subseteq FileCells(s)
  BY <1>2 DEF EachOnce
<1>4. PICK l \in 1 .. Len(img.phdrs) : s = img.phdrs[l] /\ Loadable(s)
  BY LoadsIndexed
<1>5. /\ s.off \in Nat /\ s.addr \in Nat
      /\ FileCells(s) \subseteq MemCells(s) /\ MemCells(s) \subseteq Nat
  BY <1>1, SegmentTyped
<1>6. J.relas = img.relas /\ \A a, j : FileCellAt(J, a, j) <=> FileCellAt(img, a, j)
  BY <1>1, As64Image, As64Lies
<1>7. ASSUME NEW r \in Made(J, n), r.target = img.relas[k].target
      PROVE  FALSE
  <2>1. PICK b \in RelaCells(J), j \in DOMAIN img.relas :
          b < img.rel.at + n /\ FileCellAt(img, b, j) /\ r = img.relas[j]
    <3> HIDE DEF J
    <3> QED  BY <1>2, <1>6, <1>7 DEF Made
  <2>2. j = k  BY <1>2, <1>7, <2>1 DEF EachOnce
  <2>3. k = s.off + (b - s.addr)
    BY <1>1, <1>3, <1>4, <1>5, <2>1, <2>2, EntryInFile
  <2>4. e \in MemCells(s) /\ FileCellAt(img, e, k)  BY <1>3, <1>5
  <2>5. k = s.off + (e - s.addr)
    <3> HIDE DEF e
    <3> QED  BY <1>1, <1>4, <2>4, EntryInFile
  <2>6. b \in Nat /\ e \in Nat  BY <1>2, <1>3, <1>5, <2>1
  <2>7. b < e  BY <2>1
  <2> HIDE DEF e
  <2> QED  BY <1>5, <2>3, <2>5, <2>6, <2>7
<1> QED  BY <1>7

(* Made in its place, an entry gives what is expected: the place had what  *)
(* the file has for it, or zero.                                           *)
LEMMA RebasedInPlace ==
  ASSUME NEW rel, rel.type \in {"relative", "symbol"}, NEW laid,
         laid = Zero \/ \E n : laid = File(n)
  PROVE  Rebased(rel, laid) = InPlace(rel, laid)
<1>1. CASE laid = Zero
  <2>1. laid[1] # "file"  BY <1>1 DEF Zero
  <2> QED  BY <1>1, <2>1 DEF Rebased, InPlace
<1>2. CASE \E n : laid = File(n)
  <2>1. laid # Zero /\ laid[1] = "file"  BY <1>2 DEF File, Zero
  <2>2. CASE rel.type = "relative"
    BY <2>1, <2>2 DEF Rebased, InPlace
  <2>3. CASE rel.type = "symbol"
    BY <2>1, <2>3 DEF Rebased, InPlace
  <2> QED  BY <2>2, <2>3
<1> QED  BY <1>1, <1>2

LEMMA ApplyRelProgress ==
  ASSUME ElfInv, NothingCut(img), ApplyRel, NEW head \in Loads(img), ~RelaGiven(img),
         HeadSegment(img, head), SegmentsApart(img, head), Progress(head),
         Rebases(head)
  PROVE  Progress(head)' /\ (pc' = "rels" => Rebases(head)')
<1> DEFINE J == As64(img)
           e == img.rel.at + i - 1
<1>1. /\ pc = "rels" /\ pc \in Loading /\ i \in Nat \ {0} /\ i <= img.rel.sz
      /\ UNCHANGED <<img, load_info, phdr_dyn>> /\ X86
      /\ phnum = Len(img.phdrs) /\ phnum' = phnum
      /\ ImageOf(img) /\ X86ImageOf(img) /\ img.machine = "x86"
      /\ img \in Images /\ mem \in [Cells -> Values]
      /\ pc' \in {"rels", "failed", "lost"}
  BY Counted, ElfAssumption, X86Assumption
     DEF ApplyRel, X86, ElfInv, TypeOK, phnum, Loading
<1>2. Progress(head)'  BY <1>1 DEF Progress, Loading
<1>3. ASSUME pc' = "rels", i' = i + 1,
             OneTable(img) /\ RelocationsIn(J, head) => RebasedUpTo(J, mem', head, i)
      PROVE  Rebases(head)'
  <2>1. i' - 1 = i  BY <1>1, <1>3
  <2> QED  BY <1>1, <1>3, <2>1 DEF Rebases
<1>4. ASSUME NEW rel \in RelaAt(RelaPlace(img.rel.at)),
             rel.type \in {"relative", "symbol"}, TargetOf(rel) \in Cells,
             mem' = [mem EXCEPT ![TargetOf(rel)] = Rebased(rel, @)],
             OneTable(img), RelocationsIn(J, head)
      PROVE  RebasedUpTo(J, mem', head, i)
  <2>1. /\ img.rel.at \in Nat /\ J.dyn.rela = img.rel.at
        /\ RelaCells(J) = img.rel.at .. img.rel.at + img.rel.sz - 1
    BY <1>1, <1>4, RelTable
  <2>2. /\ ImageOf(J) /\ J.phdrs = img.phdrs /\ J.relas = img.relas
        /\ SegmentsApart(J, head)
        /\ HeadCells(J, head) = HeadCells(img, head)
        /\ \A b, j : FileCellAt(J, b, j) <=> FileCellAt(img, b, j)
        /\ \A s, b, n : Laid(J, head, s, b, n) = Laid(img, head, s, b, n)
    BY <1>1, As64Image, As64Lies
  <2>3. /\ head.addr = 0 /\ load_info.start = Base /\ load_info.offset = Base
        /\ Base \in Nat
    BY <1>1, <1>4, HeadIsLowest, ElfAssumption DEF RelocationsIn
  <2>4. RebasedUpTo(J, mem, head, i - 1)  BY <1>1, <1>4 DEF Rebases
  <2>5. e \in RelaCells(J) /\ e \in Nat
    <3>1. img.rel.sz \in Nat  BY <1>1, As64Image
    <3> HIDE DEF J
    <3> QED  BY <1>1, <2>1, <3>1
  <2>6. PICK k \in DOMAIN img.relas : FileCellAt(img, e, k)
    <3> HIDE DEF e, J
    <3> QED  BY <1>4, <2>2, <2>5 DEF RelocationsIn
  <2>7. \A r \in Made(J, i - 1) : r.target # e
    BY <1>4, <2>5, MadeRelocates, OneRelocation
  <2>8. ASSUME NEW l \in 1 .. phnum, Loadable(img.phdrs[l]),
               e \in MemCells(img.phdrs[l])
        PROVE  At(mem, head, e) = Laid(img, head, img.phdrs[l], e, phnum)
    <3> HIDE DEF J
    <3> QED  BY <1>1, <2>2, <2>4, <2>7, <2>8 DEF RebasedUpTo
  <2>9. rel = img.relas[k]
    <3>1. RelaPlace(img.rel.at) = Base + e
      BY <1>1, <2>1, <2>3, <2>6, EntryPlace
    <3>2. rel \in RelaAt(Base + e)  BY <1>4, <3>1
    <3> HIDE DEF e
    <3> QED  BY <2>3, <2>6, <2>8, <3>2, EntryRead
  <2>10. /\ Made(J, i) = Made(J, i - 1) \union {rel}
         /\ \A r \in Made(J, i - 1) : r.target # rel.target
    <3> DEFINE m == i - 1
    <3>1. m \in Nat /\ m + 1 = i /\ img.rel.at + m \in RelaCells(J)
          /\ FileCellAt(img, img.rel.at + m, k)
      <4>1. m \in Nat /\ m + 1 = i /\ img.rel.at + m = e  BY <1>1, <2>1
      <4> HIDE DEF m, e
      <4> QED  BY <2>5, <2>6, <4>1
    <3> HIDE DEF m
    <3>2. \A r \in Made(J, m) : r.target # rel.target
      BY <1>1, <1>4, <2>6, <2>9, <3>1, MadeOnce
    <3>3. Made(J, m + 1) = Made(J, m) \union {rel}
      <4> HIDE DEF J
      <4>1. k \in DOMAIN J.relas /\ J.relas[k] = rel
            /\ J.dyn.rela + m \in RelaCells(J) /\ FileCellAt(J, J.dyn.rela + m, k)
        BY <2>1, <2>2, <2>6, <2>9, <3>1
      <4>2. J.relas[k].type # "none"  BY <1>4, <4>1
      <4> QED  BY <2>2, <3>1, <4>1, <4>2, MadeNext
    <3> QED  BY <3>1, <3>2, <3>3 DEF m
  <2>11. Relocates(J, rel) /\ rel.target \notin HeadCells(img, head)
         /\ rel.target \in Nat /\ TargetOf(rel) = Base + rel.target
    <3>1. Relocates(J, rel)  BY <2>10, MadeRelocates
    <3>2. rel.target \notin HeadCells(J, head)
      BY <1>4, <2>2, <2>6, <2>9, <3>1 DEF RelocationsIn
    <3>3. rel.target \in Nat  BY <1>1, <2>6, <2>9, ImageTyped
    <3>4. Loads(J) = Loads(img)  BY <1>1, As64Image
    <3>5. \E s \in Loads(img) : rel.target \in MemCells(s)
      <4> HIDE DEF J
      <4> QED  BY <1>4, <2>2, <2>6, <2>9, <3>1, <3>4 DEF RelocationsIn
    <3>6. TargetOf(rel) = Base + rel.target
      BY <1>1, <2>3, <3>5, TargetPlace
    <3> QED  BY <2>2, <3>1, <3>2, <3>3, <3>6
  <2> SUFFICES ASSUME NEW l \in 1 .. phnum, Loadable(img.phdrs[l]),
                      NEW a \in MemCells(img.phdrs[l])
               PROVE  LET laid == Laid(img, head, img.phdrs[l], a, phnum)
                      IN  /\ \A r \in Made(J, i) : r.target = a =>
                               At(mem', head, a) = InPlace(r, laid)
                          /\ (\A r \in Made(J, i) : r.target # a) =>
                               At(mem', head, a) = laid
    <3> HIDE DEF J
    <3> QED  BY <1>1, <2>2 DEF RebasedUpTo
  <2> DEFINE laid == Laid(img, head, img.phdrs[l], a, phnum)
  <2>12. /\ \A r \in Made(J, i - 1) : r.target = a =>
               At(mem, head, a) = InPlace(r, laid)
         /\ (\A r \in Made(J, i - 1) : r.target # a) =>
               At(mem, head, a) = laid
    <3> HIDE DEF J
    <3> QED  BY <1>1, <2>2, <2>4 DEF RebasedUpTo
  <2>13. Base + a - head.addr \in Cells /\ a \in Nat
    BY <1>1, CellOfAddress
  <2>14. CASE rel.target = a
    <3>1. TargetOf(rel) = Base + a - head.addr
      BY <2>3, <2>11, <2>13, <2>14
    <3>2. At(mem, head, a) = laid  BY <2>10, <2>12, <2>14
    <3>3. At(mem', head, a) = Rebased(rel, laid)
      BY <1>1, <1>4, <2>13, <3>1, <3>2 DEF At
    <3>4. laid = Zero \/ \E n : laid = File(n)
      <4>1. ASSUME NEW j \in 1 .. Len(img.phdrs)
            PROVE  a # head.addr + img.phoff + j - 1
        BY <2>11, <2>14 DEF HeadCells
      <4> QED  BY <4>1 DEF Laid
    <3>5. At(mem', head, a) = InPlace(rel, laid)
      BY <1>4, <3>3, <3>4, RebasedInPlace
    <3>6. \A r \in Made(J, i) : r.target = a => r = rel
      BY <2>10, <2>14
    <3>7. rel \in Made(J, i)  BY <2>10
    <3> HIDE DEF laid
    <3> QED  BY <2>14, <3>5, <3>6, <3>7 DEF laid
  <2>15. CASE rel.target # a
    <3>1. TargetOf(rel) # Base + a - head.addr
      BY <2>3, <2>11, <2>13, <2>15
    <3>2. At(mem', head, a) = At(mem, head, a)
      BY <1>1, <1>4, <2>13, <3>1 DEF At
    <3> HIDE DEF laid
    <3> QED  BY <2>10, <2>12, <2>15, <3>2 DEF laid
  <2> QED  BY <2>14, <2>15
<1>5. CASE pc' = "rels"
  <2>1. PICK rel \in RelaAt(RelaPlace(img.rel.at)) :
          /\ rel.type \in {"relative", "symbol"} /\ TargetOf(rel) \in Cells
          /\ mem' = [mem EXCEPT ![TargetOf(rel)] = Rebased(rel, @)]
          /\ i' = i + 1
    BY <1>5 DEF ApplyRel
  <2> HIDE DEF J, e
  <2>2. OneTable(img) /\ RelocationsIn(J, head) => RebasedUpTo(J, mem', head, i)
    BY <1>4, <2>1
  <2> QED  BY <1>2, <1>3, <1>5, <2>1, <2>2
<1> QED  BY <1>1, <1>2, <1>5

LEMMA RelsDoneProgress ==
  ASSUME ElfInv, RelsDone, NEW head \in Loads(img), ~RelaGiven(img),
         phdr_dyn # 0, Progress(head), Rebases(head)
  PROVE  Progress(head)' /\ Rebases(head)'
<1>1. /\ pc = "rels" /\ pc' = "loaded" /\ i > img.rel.sz /\ i \in Nat
      /\ UNCHANGED <<img, load_info, phdr_dyn, mem>> /\ X86
  BY DEF RelsDone, Stop, ElfInv, TypeOK
<1>2. Progress(head)'  BY <1>1 DEF Progress, Loading
<1>3. ASSUME OneTable(img), RelocationsIn(As64(img), head)
      PROVE  RebasedUpTo(As64(img), mem, head, img.rel.sz)
  <2>1. RebasedUpTo(As64(img), mem, head, i - 1)
    BY <1>1, <1>3 DEF Rebases
  <2>2. /\ img.rel.at \in Nat /\ img.rel.sz \in Nat
        /\ As64(img).dyn.rela = img.rel.at
        /\ RelaCells(As64(img)) = img.rel.at .. img.rel.at + img.rel.sz - 1
    BY <1>1, <1>3, RelTable
  <2>3. ASSUME NEW a \in RelaCells(As64(img))
        PROVE  (a < img.rel.at + (i - 1)) <=> (a < img.rel.at + img.rel.sz)
    BY <1>1, <2>2
  <2> HIDE DEF As64
  <2>4. Made(As64(img), i - 1) = Made(As64(img), img.rel.sz)
    BY <2>2, <2>3 DEF Made
  <2> QED  BY <2>1, <2>4 DEF RebasedUpTo
<1> QED  BY <1>1, <1>2, <1>3 DEF Rebases

-----------------------------------------------------------------------------
(* No step gives the program another image.                                *)
LEMMA ImageStays == ASSUME NextEither PROVE img' = img
BY DEF NextEither, Next64, Next32, Next, GetLoadInfo, ScanSegment, CheckInfo,
       StartLoad, LoadSegment, FindHeaders, MoveHeader, HeadersMoved,
       StartRelocation, ApplyRela, RelocationDone, Stop, Goto, GetLoadInfo32,
       ScanSegment32, Refuse32, Accept32, StartLoad32, LoadSegment32,
       FindHeaders32, MoveHeader32, HeadersMoved32, NoRelocation32,
       StartRelocation32, ApplyRela32, RelocationDone32, ApplyRel, RelsDone

(* A step that both loaders have is made as by the 64-bit one.             *)
LEMMA SharedStep ==
  ASSUME ElfInv, ProgressInv32, X86, Next, img' = img,
         pc' = "relas" => RelaGiven(img)
  PROVE  ProgressInv32'
<1>1. /\ pc \notin {"rels", "loaded"} /\ pc' # "rels"
      /\ pc' = "loaded" => pc = "relas" \/ phdr_dyn' = 0
  BY DEF Next, GetLoadInfo, ScanSegment, CheckInfo, StartLoad, LoadSegment,
         CopySegment, FindHeaders, MoveHeader, HeadersMoved, StartRelocation,
         ApplyRela, RelocationDone, Stop, Goto
<1>2. ~InPlaces /\ ~InPlaces'
  <2>1. pc = "relas" => RelaGiven(img)  BY DEF ProgressInv32
  <2>2. RelaGiven(img)' <=> RelaGiven(img)  OBVIOUS
  <2> QED  BY <1>1, <2>1, <2>2 DEF InPlaces
<1>3. DynInv'  BY DynNext DEF ProgressInv32
<1>4. ASSUME NothingCut(img), NEW head \in Loads(img), HeadSegment(img, head),
             SegmentsApart(img, head)
      PROVE  Progress(head)' /\ Relocated(head)'
  BY <1>2, <1>4, ProgressNext DEF ProgressInv32
<1> HIDE DEF RelaGiven
<1> QED  BY <1>1, <1>2, <1>3, <1>4 DEF ProgressInv32, X86

(* A step of the relocation, or one that ends the load, asks nothing more  *)
(* of what is known of the dynamic segment.                                *)
LEMMA DynStays ==
  ASSUME DynInv, UNCHANGED <<img, phdr_dyn>>,
         pc' \notin Loading \/ (pc \in Loading /\ pc # "segments")
  PROVE  DynInv'
BY DEF DynInv, phnum, Loading

LEMMA Step32 ==
  ASSUME ElfInv, ProgressInv32, Next32
  PROVE  ProgressInv32'
<1>1. img' = img  BY ImageStays DEF NextEither
<1>2. X86 /\ DynInv /\ img \in Images
  BY DEF Next32, GetLoadInfo32, ScanSegment32, Refuse32, Accept32, StartLoad32,
         LoadSegment32, FindHeaders32, MoveHeader32, HeadersMoved32,
         NoRelocation32, StartRelocation32, ApplyRela32, RelocationDone32,
         ApplyRel, RelsDone, ProgressInv32, ElfInv, TypeOK
<1>3. /\ pc = "relas" => RelaGiven(img)
      /\ pc = "rels" => phdr_dyn # 0 /\ ~RelaGiven(img)
      /\ \A head \in Loads(img) :
           NothingCut(img) /\ HeadSegment(img, head) /\ SegmentsApart(img, head) =>
             /\ Progress(head)
             /\ IF InPlaces THEN Rebases(head) ELSE Relocated(head)
  BY <1>2 DEF ProgressInv32
<1> HIDE DEF RelaGiven
<1>4. CASE \/ GetLoadInfo32 \/ ScanSegment32 \/ StartLoad32 \/ LoadSegment32
           \/ FindHeaders32 \/ MoveHeader32 \/ HeadersMoved32
           \/ ApplyRela32 \/ RelocationDone32
  <2>1. Next
    BY <1>4 DEF GetLoadInfo32, ScanSegment32, StartLoad32, LoadSegment32,
                FindHeaders32, MoveHeader32, HeadersMoved32, ApplyRela32,
                RelocationDone32, Next
  <2>2. pc' = "relas" => pc = "relas"
    BY <1>4 DEF GetLoadInfo32, ScanSegment32, StartLoad32, LoadSegment32,
                FindHeaders32, MoveHeader32, HeadersMoved32, ApplyRela32,
                RelocationDone32, GetLoadInfo, ScanSegment, StartLoad,
                LoadSegment, CopySegment, FindHeaders, MoveHeader, HeadersMoved,
                ApplyRela, RelocationDone, Stop, Goto
  <2> QED  BY <1>1, <1>2, <1>3, <2>1, <2>2, SharedStep
<1>5. ASSUME UNCHANGED <<load_info, phdr_dyn>>,
             pc' \in {"refused", "load", "failed", "lost"}
      PROVE  ProgressInv32'
  <2>1. pc' \notin Loading /\ ~InPlaces'  BY <1>5 DEF Loading, InPlaces
  <2>2. DynInv'  BY <1>1, <1>2, <1>5, <2>1, DynStays
  <2>3. ASSUME NEW head, Progress(head)  PROVE Progress(head)' /\ Relocated(head)'
    BY <1>1, <1>5, <2>1, <2>3, QuietProgress, NotRelocated
  <2> QED  BY <1>1, <1>2, <1>3, <1>5, <2>1, <2>2, <2>3 DEF ProgressInv32, X86
<1>6. CASE Refuse32 \/ Accept32
  BY <1>5, <1>6 DEF Refuse32, Accept32, Stop, Goto
<1>7. CASE NoRelocation32
  <2>1. Next  BY <1>7 DEF NoRelocation32, StartRelocation, Next
  <2>2. pc' # "relas"  BY <1>7 DEF NoRelocation32, Stop
  <2> QED  BY <1>1, <1>2, <2>1, <2>2, SharedStep
<1>8. CASE StartRelocation32
  <2>1. CASE Stop("relocate", "failed") \/ Stop("relocate", "lost")
    BY <1>5, <2>1 DEF Stop
  <2>2. CASE /\ Clamped(img.phdrs[phdr_dyn].off, img.phdrs[phdr_dyn].filesz,
                        load_size) = img.phdrs[phdr_dyn].filesz
             /\ ~Wraps(img.phdrs[phdr_dyn].off, img.phdrs[phdr_dyn].filesz)
             /\ RelaGiven(img) /\ Goto("relocate", "relas")
             /\ UNCHANGED <<load_info, phdr_dyn, fetched, mem>>
    <3>1. Next
      BY <1>8, <2>2 DEF StartRelocation32, StartRelocation, RelaGiven, Next
    <3> QED  BY <1>1, <1>2, <2>2, <3>1, SharedStep
  <2>3. CASE /\ ~RelaGiven(img) /\ Goto("relocate", "rels")
             /\ UNCHANGED <<load_info, phdr_dyn, fetched, mem>>
    <3>1. /\ pc = "relocate" /\ pc' = "rels" /\ InPlaces' /\ phdr_dyn' # 0
      BY <1>8, <2>3 DEF StartRelocation32, Goto, InPlaces
    <3>2. DynInv'  BY <1>1, <1>2, <2>3, <3>1, DynStays DEF Loading
    <3>3. ASSUME NothingCut(img), NEW head \in Loads(img), Progress(head)
          PROVE  Progress(head)' /\ Rebases(head)'
      BY <1>2, <2>3, <3>3, StartRelsProgress
    <3> QED  BY <1>1, <1>3, <2>3, <3>1, <3>2, <3>3 DEF ProgressInv32
  <2> QED  BY <1>8, <2>1, <2>2, <2>3 DEF StartRelocation32
<1>9. CASE ApplyRel
  <2>1. /\ pc = "rels" /\ phdr_dyn' = phdr_dyn /\ load_info' = load_info
        /\ pc' \in {"rels", "failed", "lost"}
    BY <1>9 DEF ApplyRel
  <2>2. CASE pc' \in {"failed", "lost"}  BY <1>5, <2>1, <2>2
  <2>3. CASE pc' = "rels"
    <3>1. InPlaces /\ InPlaces'  BY <2>1, <2>3 DEF InPlaces
    <3>2. DynInv'  BY <1>1, <1>2, <2>1, DynStays DEF Loading
    <3>3. ASSUME NothingCut(img), NEW head \in Loads(img),
                 HeadSegment(img, head), SegmentsApart(img, head)
          PROVE  Progress(head)' /\ Rebases(head)'
      BY <1>3, <1>9, <2>1, <2>3, <3>1, <3>3, ApplyRelProgress
    <3> QED  BY <1>1, <1>3, <2>1, <2>3, <3>1, <3>2, <3>3 DEF ProgressInv32
  <2> QED  BY <2>1, <2>2, <2>3
<1>10. CASE RelsDone
  <2>1. /\ pc = "rels" /\ phdr_dyn' = phdr_dyn /\ pc' = "loaded"
    BY <1>10 DEF RelsDone, Stop
  <2>2. InPlaces /\ InPlaces'  BY <1>1, <1>3, <2>1 DEF InPlaces
  <2>3. DynInv'  BY <1>1, <1>2, <2>1, DynStays DEF Loading
  <2>4. ASSUME NothingCut(img), NEW head \in Loads(img),
               HeadSegment(img, head), SegmentsApart(img, head)
        PROVE  Progress(head)' /\ Rebases(head)'
    BY <1>3, <1>10, <2>1, <2>2, <2>4, RelsDoneProgress
  <2> QED  BY <1>1, <2>1, <2>2, <2>3, <2>4 DEF ProgressInv32
<1> QED  BY <1>4, <1>6, <1>7, <1>8, <1>9, <1>10 DEF Next32

LEMMA EitherProgressStep ==
  ASSUME ElfInv, EitherProgress, [NextEither]_vars
  PROVE  EitherProgress'
<1>1. CASE Next64
  <2>1. ~X86 /\ ~X86'
    <3>1. img' = img  BY <1>1, ImageStays DEF NextEither
    <3> QED  BY <1>1, <3>1 DEF Next64, X86
  <2>2. ProgressInv'  BY <1>1, <2>1, ProgressStep DEF EitherProgress, Next64
  <2> QED  BY <2>1, <2>2 DEF EitherProgress, ProgressInv32
<1>2. CASE Next32
  <2>1. X86 /\ img' = img
    <3>1. img' = img  BY <1>2, ImageStays DEF NextEither
    <3> QED
      BY <1>2, <3>1 DEF Next32, GetLoadInfo32, ScanSegment32, Refuse32, Accept32,
         StartLoad32, LoadSegment32, FindHeaders32, MoveHeader32, HeadersMoved32,
         NoRelocation32, StartRelocation32, ApplyRela32, RelocationDone32,
         ApplyRel, RelsDone
  <2> QED  BY <1>2, <2>1, Step32 DEF EitherProgress, X86
<1>3. CASE UNCHANGED vars
  BY <1>3 DEF vars, EitherProgress, X86, ProgressInv, ProgressInv32, DynInv,
              Progress, Relocated, Rebases, InPlaces, phnum
<1> QED  BY <1>1, <1>2, <1>3 DEF NextEither

LEMMA ProgressEnds32 == ElfInv /\ ProgressInv32 => LoadedRight32
<1> SUFFICES ASSUME ElfInv, ProgressInv32, pc = "loaded", Linked32(img)
             PROVE  \E head \in Loads(img) :
                      /\ HeadSegment(img, head)
                      /\ \A s \in Loads(img) : \A a \in MemCells(s) :
                           mem[Base + a - head.addr] \in Expected32(img, head, s, a)
  BY DEF LoadedRight32
<1> DEFINE J == As64(img)
<1>1. /\ X86 /\ img.machine = "x86" /\ ImageOf(img) /\ X86ImageOf(img)
      /\ Linked(J) /\ (Dynamic(img) => OneTable(img)) /\ NothingCut(img)
      /\ phnum = Len(img.phdrs) /\ phnum \in Nat
  BY ElfAssumption, X86Assumption, Counted
     DEF Linked32, X86, ElfInv, TypeOK
<1>2. /\ Loads(J) = Loads(img) /\ (Dynamic(J) <=> Dynamic(img))
      /\ J.phdrs = img.phdrs /\ J.relas = img.relas
      /\ ImageOf(J)
  BY <1>1, As64Image
<1>3. PICK head \in Loads(img) :
        /\ HeadSegment(img, head) /\ SegmentsApart(img, head)
        /\ Dynamic(img) => RelocationsIn(J, head)
  <2>1. PICK h \in Loads(J) :
          /\ HeadSegment(J, h) /\ SegmentsApart(J, h)
          /\ Dynamic(J) => RelocationsIn(J, h)
    <3> HIDE DEF J
    <3> QED  BY <1>1 DEF Linked, Dynamic
  <2>2. HeadSegment(img, h) /\ SegmentsApart(img, h)
    BY <1>1, <2>1, As64Lies
  <2> HIDE DEF J
  <2> QED  BY <1>2, <2>1, <2>2
<1>4. /\ Progress(head) /\ pc \in Loading
      /\ IF InPlaces THEN Rebases(head) ELSE Relocated(head)
  BY <1>1, <1>3 DEF ProgressInv32, Loading
<1>5. phdr_dyn # 0 <=> Dynamic(img)
  BY <1>1, <1>4 DEF ProgressInv32, DynInv, Dynamic, ElfInv, TypeOK
<1>6. ASSUME NEW s \in Loads(img), NEW a \in MemCells(s)
      PROVE  At(mem, head, a) \in Expected32(img, head, s, a)
  <2> DEFINE laid == Laid(img, head, s, a, Len(img.phdrs))
             here == {r \in {img.relas[j] : j \in DOMAIN img.relas} :
                        Relocates(J, r) /\ r.target = a}
  <2>1. PICK k \in 1 .. Len(img.phdrs) : s = img.phdrs[k] /\ Loadable(s)
    BY LoadsIndexed
  <2>2. Expected32(img, head, s, a) =
          IF ~Dynamic(img) \/ here = {} THEN {laid}
          ELSE {IF img.dyn.has THEN ValueOf(r) ELSE InPlace(r, laid) : r \in here}
    BY DEF Expected32
  <2>3. ASSUME NEW r \in {img.relas[j] : j \in DOMAIN img.relas}
        PROVE  r \in Made(J, J.dyn.sz) <=> Relocates(J, r)
    <3> HIDE DEF J
    <3>1. J.dyn.rela \in Nat /\ J.dyn.sz \in Nat
      BY <1>2, Widths DEF ImageOf, DynOf, Fields
    <3>2. \A b \in RelaCells(J) : b < J.dyn.rela + J.dyn.sz
      BY <3>1 DEF RelaCells
    <3> QED  BY <1>2, <2>3, <3>2 DEF Made, Relocates
  <2>4. \A r \in Made(J, J.dyn.sz) : r.target = a => r \in here
    <3> HIDE DEF J
    <3>1. Made(J, J.dyn.sz) \subseteq {img.relas[j] : j \in DOMAIN img.relas}
      BY <1>2 DEF Made
    <3> QED  BY <2>3, <3>1
  <2>5. \A r \in here : r \in Made(J, J.dyn.sz) /\ r.target = a
    BY <2>3
  <2>6. CASE ~Dynamic(img)
    <3>1. ~InPlaces  BY <1>4, <1>5, <2>6 DEF InPlaces
    <3>2. LaidUpTo(img, mem, head, phnum, phnum)
      BY <1>5, <2>6 , <1>4 DEF Progress
    <3>3. At(mem, head, a) = laid
      BY <1>1, <1>6, <2>1, <3>2 DEF LaidUpTo
    <3> QED  BY <2>2, <2>6, <3>3
  <2>7. CASE Dynamic(img) /\ img.dyn.has
    <3>1. ~InPlaces /\ J.dyn = img.dyn
      BY <1>1, <2>7, As64Image DEF InPlaces, OneTable
    <3>2. RelocationsIn(img, head) /\ Made(img, img.dyn.sz) = Made(J, J.dyn.sz)
      BY <1>1, <1>3, <2>7, SameTable
    <3>3. RelocatedUpTo(img, mem, head, img.dyn.sz)
      BY <1>4, <1>5, <2>7, <3>1, <3>2 DEF Relocated
    <3>4. /\ \A r \in Made(J, J.dyn.sz) : r.target = a =>
                At(mem, head, a) = ValueOf(r)
          /\ (\A r \in Made(J, J.dyn.sz) : r.target # a) =>
                At(mem, head, a) = laid
      BY <1>6, <2>1, <3>2, <3>3 DEF RelocatedUpTo
    <3> HIDE DEF J, laid, here
    <3> QED  BY <2>2, <2>4, <2>5, <2>7, <3>4
  <2>8. CASE Dynamic(img) /\ ~img.dyn.has
    <3>1. InPlaces /\ J.dyn.sz = img.rel.sz
      BY <1>1, <1>5, <2>8, As64Image DEF InPlaces, RelaGiven
    <3>2. RebasedUpTo(J, mem, head, J.dyn.sz)
      BY <1>1, <1>3, <1>4, <2>8, <3>1 DEF Rebases
    <3>3. \A n : Laid(J, head, s, a, n) = Laid(img, head, s, a, n)
      BY <1>1, As64Lies
    <3>4. /\ \A r \in Made(J, J.dyn.sz) : r.target = a =>
                At(mem, head, a) = InPlace(r, laid)
          /\ (\A r \in Made(J, J.dyn.sz) : r.target # a) =>
                At(mem, head, a) = laid
      <4> HIDE DEF J
      <4> QED  BY <1>2, <1>6, <2>1, <3>2, <3>3 DEF RebasedUpTo
    <3> HIDE DEF J, laid, here
    <3> QED  BY <2>2, <2>4, <2>5, <2>8, <3>4
  <2> QED  BY <2>6, <2>7, <2>8
<1> QED  BY <1>3, <1>6 DEF At

THEOREM EitherProgressInductive == EitherSpec => []EitherProgress
<1>1. Init => EitherProgress
  <2> SUFFICES ASSUME Init PROVE EitherProgress  OBVIOUS
  <2>1. ProgressInv  BY ProgressInit
  <2>2. pc = "get_info"  BY DEF Init
  <2> QED  BY <2>1, <2>2 DEF EitherProgress, ProgressInv, ProgressInv32, InPlaces
<1>2. ElfInv /\ EitherProgress /\ [NextEither]_vars => EitherProgress'
  BY EitherProgressStep
<1> QED  BY <1>1, <1>2, EitherInductive, PTL DEF EitherSpec

(* What ImageLoadedRight says of the 64-bit loader, with the other beside. *)
THEOREM EitherLoadedRight == EitherSpec => []LoadedRight
<1>1. ElfInv /\ EitherProgress => LoadedRight
  <2>1. X86 => LoadedRight  BY DEF X86, LoadedRight, Linked
  <2> QED  BY <2>1, ProgressEnds DEF EitherProgress
<1> QED  BY <1>1, EitherInductive, EitherProgressInductive, PTL

(* elf32_do_relocation returns TRUE only when each place of a linked       *)
(* 32-bit image has what the file says, with the addend of its entry or    *)
(* with what the place had, moved once.                                    *)
THEOREM EitherLoadedRight32 == EitherSpec => []LoadedRight32
<1>1. ElfInv /\ EitherProgress => LoadedRight32
  BY ProgressEnds32 DEF EitherProgress
<1> QED  BY <1>1, EitherInductive, EitherProgressInductive, PTL
-----------------------------------------------------------------------------
(* An entry without an addend of a linked image is made: it is there, of a *)
(* type that the loader knows, and its place is in the image.              *)
LEMMA RelApplied ==
  ASSUME ElfInv, NothingCut(img), ApplyRel, NEW head \in Loads(img),
         HeadSegment(img, head), SegmentsApart(img, head), Progress(head),
         Rebases(head),
         ~RelaGiven(img), OneTable(img), RelocationsIn(As64(img), head)
  PROVE  pc' = "rels"
<1> DEFINE J == As64(img)
           e == img.rel.at + i - 1
<1>1. /\ pc = "rels" /\ pc \in Loading /\ i \in Nat \ {0} /\ i <= img.rel.sz
      /\ X86 /\ phnum = Len(img.phdrs)
      /\ ImageOf(img) /\ X86ImageOf(img) /\ img.machine = "x86"
  BY Counted, ElfAssumption, X86Assumption
     DEF ApplyRel, X86, ElfInv, TypeOK, Loading
<1>2. /\ EachOnce(img) /\ img.rel.at \in Nat /\ img.rel.sz \in Nat
      /\ RelaCells(J) = img.rel.at .. img.rel.at + img.rel.sz - 1
  BY <1>1, RelTable
<1>3. /\ J.phdrs = img.phdrs /\ J.relas = img.relas /\ Loads(J) = Loads(img)
      /\ HeadCells(J, head) = HeadCells(img, head)
      /\ \A b, j : FileCellAt(J, b, j) <=> FileCellAt(img, b, j)
      /\ \A s, b, n : Laid(J, head, s, b, n) = Laid(img, head, s, b, n)
  BY <1>1, As64Image, As64Lies
<1>4. /\ head.addr = 0 /\ load_info.start = Base /\ Base \in Nat
  BY <1>1, HeadIsLowest, ElfAssumption DEF RelocationsIn
<1>5. RebasedUpTo(J, mem, head, i - 1)  BY <1>1 DEF Rebases
<1>6. e \in RelaCells(J) /\ e \in Nat
  <2> HIDE DEF J
  <2> QED  BY <1>1, <1>2
<1>7. \A r \in Made(J, i - 1) : r.target # e
  BY <1>6, MadeRelocates, OneRelocation
<1>8. RelocationsIn(J, head)  OBVIOUS
<1> HIDE DEF J
<1>9. PICK k \in DOMAIN img.relas :
        FileCellAt(img, e, k) /\ e \notin HeadCells(img, head)
  <2> HIDE DEF e
  <2> QED  BY <1>3, <1>6, <1>8 DEF RelocationsIn
<1>10. RelaPlace(img.rel.at) = Base + e
  BY <1>1, <1>2, <1>4, <1>9, EntryPlace
<1> HIDE DEF e
<1>11. ASSUME NEW l \in 1 .. phnum, Loadable(img.phdrs[l]),
              e \in MemCells(img.phdrs[l])
       PROVE  At(mem, head, e) = Laid(img, head, img.phdrs[l], e, phnum)
  BY <1>1, <1>3, <1>5, <1>7, <1>11 DEF RebasedUpTo
<1>12. RelaAt(Base + e) = {img.relas[k]}
  BY <1>1, <1>4, <1>9, <1>11, EntryThere
<1> DEFINE r == img.relas[k]
<1>13. r \in RelaOf(AddrMod) /\ r.type # "none"
  BY <1>1, <1>2, <1>9 DEF ImageOf, EachOnce, AddrMod
<1>14. Relocates(J, r)  BY <1>3, <1>6, <1>9, <1>13 DEF Relocates
<1>15. r.type # "unsupported" /\ \E s \in Loads(img) : r.target \in MemCells(s)
  BY <1>3, <1>8, <1>9, <1>14 DEF RelocationsIn
<1>16. TargetOf(r) \in Cells
  BY <1>1, <1>4, <1>15, TargetPlace
<1>17. r.type \in {"relative", "symbol"}  BY <1>13, <1>15 DEF RelaOf
<1>18. RelaAt(RelaPlace(img.rel.at)) = {r}
  BY <1>12, <1>10
<1> HIDE DEF r
<1> QED  BY <1>1, <1>16, <1>17, <1>18 DEF ApplyRel

(* No step of the load of a linked 32-bit image fails.                     *)
LEMMA Sound32Step ==
  ASSUME ElfInv, ProgressInv32, Next32, Linked32(img)
  PROVE  pc' \notin {"failed", "lost"}
<1> DEFINE J == As64(img)
<1>1. /\ X86 /\ img.machine = "x86" /\ ImageOf(img) /\ X86ImageOf(img)
      /\ Linked(J) /\ (Dynamic(img) => OneTable(img)) /\ NothingCut(img)
  BY ElfAssumption, X86Assumption DEF Linked32, X86, ElfInv, TypeOK
<1>2. /\ J.valid = img.valid /\ J.phdrs = img.phdrs
      /\ Loads(J) = Loads(img) /\ (Dynamic(J) <=> Dynamic(img))
  <2>1. J.valid = img.valid  BY DEF As64
  <2> QED  BY <1>1, <2>1, As64Image
<1>3. PICK head \in Loads(img) :
        /\ HeadSegment(img, head) /\ SegmentsApart(img, head)
        /\ Dynamic(img) => RelocationsIn(J, head)
  <2>1. PICK h \in Loads(J) :
          /\ HeadSegment(J, h) /\ SegmentsApart(J, h)
          /\ Dynamic(J) => RelocationsIn(J, h)
    <3> HIDE DEF J
    <3> QED  BY <1>1 DEF Linked, Dynamic
  <2>2. HeadSegment(img, h) /\ SegmentsApart(img, h)
    BY <1>1, <2>1, As64Lies
  <2> HIDE DEF J
  <2> QED  BY <1>2, <2>1, <2>2
<1>4. img.valid /\ DynInSegment(img)
  <2> HIDE DEF J
  <2> QED  BY <1>1, <1>2 DEF Linked, DynInSegment
<1>5. /\ Progress(head) /\ DynInv
      /\ IF InPlaces THEN Rebases(head) ELSE Relocated(head)
      /\ pc = "relas" => RelaGiven(img)
      /\ pc = "rels" => phdr_dyn # 0 /\ ~RelaGiven(img)
  BY <1>1, <1>3 DEF ProgressInv32
<1>6. phdr_dyn # 0 => Dynamic(img)
  BY <1>5, Counted DEF DynInv, Dynamic, ElfInv, TypeOK
<1>7. pc = "relas" => RelocationsIn(img, head) /\ Relocated(head)
  <2> SUFFICES ASSUME pc = "relas"
               PROVE  RelocationsIn(img, head) /\ Relocated(head)
    OBVIOUS
  <2>1. phdr_dyn # 0 /\ img.dyn.has  BY <1>5 DEF Progress, RelaGiven
  <2>2. Relocated(head)  BY <1>5 DEF InPlaces
  <2> QED  BY <1>1, <1>3, <1>6, <2>1, <2>2, SameTable
<1> HIDE DEF J
<1>8. CASE GetLoadInfo32
  BY <1>1, <1>3, <1>4, <1>8, InfoFound DEF GetLoadInfo32
<1>9. CASE ScanSegment32 \/ Refuse32 \/ Accept32 \/ NoRelocation32 \/ RelsDone
  BY <1>9 DEF ScanSegment32, ScanSegment, Refuse32, Accept32, NoRelocation32,
              RelsDone, Stop, Goto
<1>10. CASE \/ StartLoad32 \/ LoadSegment32 \/ FindHeaders32 \/ MoveHeader32
            \/ HeadersMoved32 \/ ApplyRela32 \/ RelocationDone32
  <2>1. \/ StartLoad \/ LoadSegment \/ FindHeaders \/ MoveHeader
        \/ HeadersMoved \/ ApplyRela \/ RelocationDone
    BY <1>10 DEF StartLoad32, LoadSegment32, FindHeaders32, MoveHeader32,
                 HeadersMoved32, ApplyRela32, RelocationDone32
  <2> QED  BY <1>1, <1>3, <1>5, <1>7, <2>1, SharedGoesOn
<1>11. CASE StartRelocation32
  <2>1. pc = "relocate" /\ phdr_dyn # 0
    BY <1>11 DEF StartRelocation32, Stop, Goto
  <2>2. /\ Clamped(img.phdrs[phdr_dyn].off, img.phdrs[phdr_dyn].filesz, load_size)
             = img.phdrs[phdr_dyn].filesz
        /\ ~Wraps(img.phdrs[phdr_dyn].off, img.phdrs[phdr_dyn].filesz)
    BY <1>1, <1>3, <1>4, <1>5, <2>1, DynRead
  <2>3. RelaGiven(img) \/ RelGiven(img)
    BY <1>1, <1>6, <2>1 DEF OneTable, RelGiven
  <2> HIDE DEF RelaGiven, RelGiven
  <2> QED  BY <1>11, <2>2, <2>3 DEF StartRelocation32, Goto
<1>12. CASE ApplyRel
  <2>1. pc = "rels"  BY <1>12 DEF ApplyRel
  <2>2. Rebases(head)  BY <1>5, <2>1 DEF InPlaces
  <2> QED  BY <1>1, <1>3, <1>5, <1>6, <1>12, <2>1, <2>2, RelApplied DEF J
<1> QED  BY <1>8, <1>9, <1>10, <1>11, <1>12 DEF Next32

LEMMA EitherSoundStep ==
  ASSUME ElfInv, EitherProgress, SoundNeverFail, Sound32NeverFail,
         [NextEither]_vars
  PROVE  SoundNeverFail' /\ Sound32NeverFail'
<1>1. CASE UNCHANGED vars
  BY <1>1 DEF vars, SoundNeverFail, Sound32NeverFail
<1>2. CASE Next64
  <2>1. img' = img  BY <1>2, ImageStays DEF NextEither
  <2>2. ~X86 /\ ~Linked32(img)  BY <1>2 DEF Next64, X86, Linked32
  <2>3. SoundNeverFail'  BY <1>2, <2>2, SoundStep DEF EitherProgress, Next64
  <2> QED  BY <2>1, <2>2, <2>3 DEF Sound32NeverFail
<1>3. CASE Next32
  <2>1. img' = img  BY <1>3, ImageStays DEF NextEither
  <2>2. X86
    BY <1>3 DEF Next32, GetLoadInfo32, ScanSegment32, Refuse32, Accept32,
       StartLoad32, LoadSegment32, FindHeaders32, MoveHeader32, HeadersMoved32,
       NoRelocation32, StartRelocation32, ApplyRela32, RelocationDone32,
       ApplyRel, RelsDone
  <2>3. ~Linked(img)  BY <2>2 DEF X86, Linked
  <2>4. Linked32(img) => pc' \notin {"failed", "lost"}
    BY <1>3, Sound32Step DEF EitherProgress
  <2> QED  BY <2>1, <2>3, <2>4 DEF SoundNeverFail, Sound32NeverFail
<1> QED  BY <1>1, <1>2, <1>3 DEF NextEither

THEOREM EitherSoundInductive ==
  EitherSpec => [](SoundNeverFail /\ Sound32NeverFail)
<1>1. Init => SoundNeverFail /\ Sound32NeverFail
  BY SoundStarts DEF Init, Sound32NeverFail
<1>2. ElfInv /\ EitherProgress /\ SoundNeverFail /\ Sound32NeverFail
        /\ [NextEither]_vars
      => SoundNeverFail' /\ Sound32NeverFail'
  BY EitherSoundStep
<1> QED  BY <1>1, <1>2, EitherInductive, EitherProgressInductive, PTL
         DEF EitherSpec

(* SoundImageNeverFails, of the 64-bit loader with the other beside.       *)
THEOREM EitherNeverFails == EitherSpec => []SoundNeverFail
<1> QED  BY EitherSoundInductive, PTL

(* A linked 32-bit image that the caller accepts is loaded by steps of     *)
(* which none fails, whether its one table has addends or not              *)
(* (with neither, elf32_do_relocation fails: elf32_ld.c:437).              *)
THEOREM EitherNeverFails32 == EitherSpec => []Sound32NeverFail
<1> QED  BY EitherSoundInductive, PTL

-----------------------------------------------------------------------------
LEMMA EitherGoesOn ==
  ASSUME ElfInv, NextEither
  PROVE  Entries \in Nat /\ GoesOn(Entries) /\ img' = img
<1>1. /\ img' = img /\ img \in Images /\ img.dyn.sz \in Nat
      /\ i \in Nat \ {0} /\ phnum \in Nat
  BY ImageStays, ImageTyped, Counted DEF ElfInv, TypeOK
<1>2. X86 => img.rel.sz \in Nat
  BY <1>1, X86Assumption, Widths DEF X86, X86ImageOf, RelOf, Fields
<1>3. /\ Entries \in Nat /\ img.dyn.sz <= Entries
      /\ X86 => img.rel.sz <= Entries
  BY <1>1, <1>2 DEF Entries
<1> HIDE DEF Entries
<1>4. CASE Next  BY <1>3, <1>4, NextGoesOn
<1>5. CASE \/ GetLoadInfo32 \/ ScanSegment32 \/ StartLoad32 \/ LoadSegment32
           \/ FindHeaders32 \/ MoveHeader32 \/ HeadersMoved32
           \/ ApplyRela32 \/ RelocationDone32
  <2>1. Next
    BY <1>5 DEF GetLoadInfo32, ScanSegment32, StartLoad32, LoadSegment32,
                FindHeaders32, MoveHeader32, HeadersMoved32, ApplyRela32,
                RelocationDone32, Next
  <2> QED  BY <1>4, <2>1
<1>6. CASE Refuse32 \/ Accept32
  BY <1>1, <1>3, <1>6 DEF Refuse32, Accept32, Stop, Goto, GoesOn, Later, Ended
<1>7. CASE NoRelocation32 \/ RelsDone
  BY <1>1, <1>3, <1>7 DEF NoRelocation32, RelsDone, Stop, GoesOn, Ended
<1>8. CASE StartRelocation32
  BY <1>1, <1>3, <1>8 DEF StartRelocation32, Stop, Goto, GoesOn, Later, Ended
<1>9. CASE ApplyRel
  <2>1. \/ pc' = pc /\ i' = i + 1
        \/ pc' \in {"failed", "lost"}
    BY <1>9 DEF ApplyRel
  <2>2. X86 /\ pc = "rels" /\ i <= img.rel.sz  BY <1>9 DEF ApplyRel
  <2>3. i <= Entries  BY <1>1, <1>2, <1>3, <2>2
  <2> QED  BY <1>1, <1>3, <2>1, <2>2, <2>3 DEF GoesOn, Ended
<1> QED  BY <1>4, <1>5, <1>6, <1>7, <1>8, <1>9 DEF NextEither, Next64, Next32

(* load_image returns, whatever the image and its class: every step leaves *)
(* fewer, of a number that is known from the counts in the headers and the *)
(* sizes of the two tables.                                                *)
THEOREM EitherLoaderNearsItsEnd == EitherSpec => EitherNearsItsEnd
<1>1. Init => InLoop(Entries)
  BY DEF Init, InLoop
<1>2. ElfInv /\ InLoop(Entries) /\ [NextEither]_vars
        => /\ InLoop(Entries)'
           /\ [/\ StepsLeft(Entries)' \in Nat
               /\ StepsLeft(Entries)' < StepsLeft(Entries)]_vars
  <2> SUFFICES ASSUME ElfInv, InLoop(Entries), [NextEither]_vars
               PROVE  /\ InLoop(Entries)'
                      /\ [/\ StepsLeft(Entries)' \in Nat
                          /\ StepsLeft(Entries)' < StepsLeft(Entries)]_vars
    OBVIOUS
  <2>1. CASE UNCHANGED vars  BY <2>1 DEF vars, InLoop, phnum, Entries, X86
  <2>2. CASE NextEither
    <3> DEFINE n == Entries
    <3>1. n \in Nat /\ GoesOn(n) /\ img' = img  BY <2>2, EitherGoesOn
    <3>2. phnum' = phnum /\ n' = n  BY <3>1 DEF phnum, Entries, X86
    <3>3. InLoop(n)  OBVIOUS
    <3>4. /\ (pc' \in {"scan", "segments", "move"} => i' <= phnum' + 1)
          /\ (pc' \in {"relas", "rels"} => i' <= n + 1)
          /\ StepsAt(pc', i', phnum' + 1, n) \in Nat
          /\ StepsAt(pc', i', phnum' + 1, n) < StepsAt(pc, i, phnum + 1, n)
      <4> HIDE DEF n
      <4> USE DEF InLoop, StepsLeft
      <4> QED  BY <3>1, <3>2, <3>3, GoingOnShortens
    <3> QED  BY <3>2, <3>4 DEF InLoop, StepsLeft
  <2> QED  BY <2>1, <2>2
<1> QED  BY <1>1, <1>2, EitherInductive, PTL DEF EitherSpec, EitherNearsItsEnd
=============================================================================
