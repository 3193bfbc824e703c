---------------------------- MODULE ElfLoadProofs ----------------------------
(***************************************************************************)
(* For every set of images, every space and every place for it: ElfLoad is *)
(* type correct, writes nothing outside the space for an image whose sums  *)
(* are not cut and which keeps within itself, and loads a linked image as  *)
(* its file says.  The argument of the first two is ElfInv: the bounds     *)
(* that the scan found are where a segment begins and where one ends       *)
(* (Spanned), so when no such difference is cut the size that was checked  *)
(* is theirs, and what a segment writes lies between them.  That of the    *)
(* third is ProgressInv, which says how far the copy, the headers and the  *)
(* relocations are.  Nor does the load of a linked image fail, and every   *)
(* load comes to an end.                                                   *)
(***************************************************************************)
EXTENDS ElfLoad, TLAPS

(* A number within its width is not cut.                                   *)
LEMMA ModOf ==
  ASSUME NEW n \in Nat, NEW m \in Nat, n < m
  PROVE  n % m = n
OBVIOUS

LEMMA ModIn ==
  ASSUME NEW n \in Int, NEW m \in Nat \ {0}
  PROVE  n % m \in 0 .. m - 1
OBVIOUS

LEMMA ModLess ==
  ASSUME NEW n \in Nat, NEW m \in Nat \ {0}
  PROVE  n % m <= n
<1>1. CASE n < m  BY <1>1, ModOf
<1>2. CASE ~(n < m)
  <2>1. n % m \in 0 .. m - 1  BY ModIn
  <2> QED  BY <1>2, <2>1
<1> QED  BY <1>1, <1>2

LEMMA Widths ==
  /\ SizeMod \in Nat \ {0} /\ WordMod \in Nat \ {0} /\ InfoMod \in Nat \ {0}
  /\ Top < SizeMod /\ Base + Space <= Top
  /\ \A image : /\ AddrModOf(image) \in Nat \ {0}
                /\ AddrModOf(image) <= SizeMod
BY ElfAssumption DEF AddrModOf

(* The fields of an image's program headers.                               *)
LEMMA PhdrTyped ==
  ASSUME NEW image \in Images, NEW k \in 1 .. Len(image.phdrs)
  PROVE  /\ Len(image.phdrs) \in Nat
         /\ image.phdrs[k].addr \in 0 .. SizeMod - 1
         /\ image.phdrs[k].memsz \in 0 .. SizeMod - 1
         /\ image.phdrs[k].off \in 0 .. SizeMod - 1
         /\ image.phdrs[k].filesz \in 0 .. SizeMod - 1
<1>1. ImageOf(image)  BY ElfAssumption
<1>2. Fields(AddrModOf(image)) \subseteq 0 .. SizeMod - 1
  BY Widths DEF Fields
<1>3. Len(image.phdrs) \in Nat /\ image.phdrs[k] \in PhdrOf(AddrModOf(image))
  BY <1>1 DEF ImageOf
<1> QED  BY <1>2, <1>3 DEF PhdrOf

LEMMA ImageTyped ==
  ASSUME NEW image \in Images
  PROVE  /\ Len(image.phdrs) \in Nat
         /\ image.phoff \in Nat /\ image.entry \in Nat /\ image.length \in Nat
         /\ image.length < SizeMod
         /\ image.dyn.sz \in Nat /\ image.dyn.rela \in Nat
         /\ DOMAIN image.relas \subseteq Nat
         /\ \A k \in DOMAIN image.relas :
              image.relas[k].target \in Nat /\ image.relas[k].addend \in Nat
<1>1. ImageOf(image)  BY ElfAssumption
<1>2. Fields(AddrModOf(image)) \subseteq 0 .. SizeMod - 1
  BY Widths DEF Fields
<1>3. 0 .. SizeMod - 1 \subseteq Nat  OBVIOUS
<1> QED  BY <1>1, <1>2, <1>3, Widths DEF ImageOf, DynOf, RelaOf

(* The loops visit headers of the image, and all when no count is cut.     *)
LEMMA Counted ==
  ASSUME img \in Images
  PROVE  /\ phnum \in Nat /\ 1 .. phnum \subseteq 1 .. Len(img.phdrs)
         /\ NothingCut(img) => phnum = Len(img.phdrs)
BY ImageTyped DEF phnum, NothingCut

(* The sums of the scan are the ends of the segments when nothing is cut.  *)
LEMMA NotCut ==
  ASSUME NEW image \in Images, NothingCut(image),
         NEW s \in Loads(image), NEW t \in Loads(image)
  PROVE  /\ s.addr \in Nat /\ s.memsz \in Nat /\ s.memsz # 0
         /\ MemEnd(s) \in Nat /\ s.addr < MemEnd(s) /\ MemEnd(s) < SizeMod
         /\ MemEnd(s) < AddrModOf(image)
         /\ MemEnd(s) % AddrModOf(image) = MemEnd(s)
         /\ MemEnd(s) - t.addr < InfoMod
<1>1. PICK k \in 1 .. Len(image.phdrs) : s = image.phdrs[k] /\ Loadable(s)
  BY DEF Loads
<1>2. s.addr \in Nat /\ s.memsz \in Nat /\ s.memsz # 0
  BY <1>1, PhdrTyped DEF Loadable
<1>3. MemEnd(s) \in Nat /\ s.addr < MemEnd(s)  BY <1>2 DEF MemEnd
<1>4. MemEnd(s) < AddrModOf(image) /\ MemEnd(s) - t.addr < InfoMod
  BY DEF NothingCut
<1> QED  BY <1>2, <1>3, <1>4, Widths, ModOf

(* A read within size is whole, and one cut short is shorter: only one     *)
(* that starts after the end copies more than was asked.                   *)
LEMMA ClampedRange ==
  ASSUME NEW off \in Nat, NEW n \in 0 .. SizeMod - 1, NEW size \in Nat
  PROVE  /\ Clamped(off, n, size) \in 0 .. SizeMod - 1
         /\ off <= size /\ size < SizeMod => Clamped(off, n, size) <= n
<1>1. SizeMod \in Nat \ {0} /\ off + n \in Nat /\ size - off \in Int
  BY Widths
<1>2. CASE (off + n) % SizeMod > size
  <2>1. (size - off) % SizeMod \in 0 .. SizeMod - 1  BY <1>1, ModIn
  <2>2. ASSUME off <= size, size < SizeMod
        PROVE  (size - off) % SizeMod <= n
    <3>1. (size - off) % SizeMod = size - off
      BY <2>2, Widths, ModOf
    <3>2. (off + n) % SizeMod <= off + n  BY <1>1, ModLess
    <3>3. (off + n) % SizeMod \in 0 .. SizeMod - 1  BY <1>1, ModIn
    <3> QED  BY <1>2, <1>1, <3>1, <3>2, <3>3
  <2> QED  BY <1>2, <2>1, <2>2 DEF Clamped
<1>3. CASE ~((off + n) % SizeMod > size)
  BY <1>3 DEF Clamped
<1> QED  BY <1>2, <1>3

(* The addresses of a range that does not wrap.                            *)
LEMMA AheadIs ==
  ASSUME NEW a \in Nat, NEW n \in Nat, a + n <= Top, NEW c \in Cells
  PROVE  /\ Ahead(a, c) < n <=> c \in a .. a + n - 1
         /\ c \in a .. a + n - 1 => Ahead(a, c) = c - a
BY Widths, ElfAssumption DEF Ahead, Cells

-----------------------------------------------------------------------------
(* The size that the caller is told is the one that the scan found.        *)
LEMMA SizeKept ==
  ASSUME TypeOK, Ordered, Spanned, NothingCut(img), load_info.low # Infinity
  PROVE  /\ load_size = load_info.max - load_info.low
         /\ load_info.max \in Nat /\ load_info.low \in Nat
         /\ load_info.low <= load_info.max
<1>1. /\ img \in Images /\ load_info.max \in Nat /\ load_info.low \in Nat
      /\ load_info.low <= load_info.max
  BY Widths DEF TypeOK, Ordered, Infinity
<1>2. load_info.max - load_info.low < InfoMod
  <2>1. CASE load_info.max = 0  BY <1>1, <2>1, Widths
  <2>2. CASE load_info.max # 0
    <3>1. PICK s \in Loads(img) : load_info.low = s.addr  BY DEF Spanned
    <3>2. PICK t \in Loads(img) : load_info.max = MemEnd(t)
      BY <2>2 DEF Spanned
    <3> QED  BY <1>1, <3>1, <3>2, NotCut
  <2> QED  BY <2>1, <2>2
<1> QED  BY <1>1, <1>2, Widths, ModOf DEF load_size

(* The place of a segment is in the space for the image.                   *)
LEMMA SegmentInSpace ==
  ASSUME ElfInv, NothingCut(img), pc \in Loading,
         NEW k \in 1 .. phnum, Loadable(img.phdrs[k])
  PROVE  LET p == img.phdrs[k]
         IN  /\ Dest(p) \in Nat /\ Dest(p) = p.addr + load_info.offset
             /\ Base <= Dest(p) /\ Dest(p) + p.memsz <= Base + Space
             /\ \A n \in 0 .. p.memsz : BssDest(p, n) = Dest(p) + n
<1> DEFINE p == img.phdrs[k]
<1>1. /\ img \in Images /\ p \in Loads(img)
  BY Counted DEF ElfInv, TypeOK, Loads
<1>2. /\ p.addr \in Nat /\ p.memsz \in Nat /\ MemEnd(p) = p.addr + p.memsz
      /\ MemEnd(p) < AddrMod
  BY <1>1, NotCut DEF MemEnd, AddrMod
<1>3. load_info.low <= p.addr /\ MemEnd(p) <= load_info.max
  BY DEF ElfInv, Scanned, Loading
<1>4. /\ load_info.low \in Nat /\ load_info.max \in Nat
      /\ load_info.max - load_info.low \in 1 .. Space
      /\ load_info.offset = Base - load_info.low
  BY SizeKept DEF ElfInv, Checked
<1>5. Base \in Nat /\ Space \in Nat /\ Base + Space < SizeMod /\ SizeMod \in Nat
  BY ElfAssumption
<1> HIDE DEF p
<1>6. /\ p.addr + load_info.offset \in Nat /\ Base <= p.addr + load_info.offset
      /\ p.addr + load_info.offset + p.memsz <= Base + Space
  BY <1>2, <1>3, <1>4, <1>5
<1>7. Dest(p) = p.addr + load_info.offset
  BY <1>2, <1>5, <1>6, ModOf DEF Dest
<1>8. ASSUME NEW n \in 0 .. p.memsz  PROVE BssDest(p, n) = Dest(p) + n
  <2>1. (p.addr + n) % AddrMod = p.addr + n
    <3>1. p.addr + n \in Nat /\ p.addr + n < AddrMod /\ AddrMod \in Nat
      BY <1>2, Widths DEF AddrMod
    <3> QED  BY <3>1, ModOf
  <2>2. p.addr + n + load_info.offset = p.addr + load_info.offset + n
        /\ p.addr + load_info.offset + n \in Nat
        /\ p.addr + load_info.offset + n < SizeMod
    BY <1>2, <1>4, <1>5, <1>6
  <2> QED  BY <1>5, <1>7, <2>1, <2>2, ModOf DEF BssDest
<1> QED  BY <1>6, <1>7, <1>8 DEF p

LEMMA InitInv == Init => ElfInv
<1> SUFFICES ASSUME Init PROVE ElfInv  OBVIOUS
<1>1. TypeOK
  <2>1. phnum \in Nat  BY Counted DEF Init
  <2>2. mem \in [Cells -> Values]  BY DEF Init, Old, Values
  <2>3. load_info \in [low : 0 .. Infinity, max : Nat, start : Nat,
                       offset : Int, entry : Int]
    BY ElfAssumption DEF Init, Infinity
  <2> QED  BY <2>1, <2>2, <2>3, ElfAssumption DEF Init, TypeOK, Pcs, Loading
<1>2. Ordered /\ Spanned /\ Scanned /\ Checked
  BY DEF Init, Ordered, Spanned, Scanned, Checked, Loading
<1>3. Confined  BY DEF Init, Confined
<1> QED  BY <1>1, <1>2, <1>3 DEF ElfInv

(* A step that only goes on, to a step that needs nothing new.             *)
LEMMA StopInv ==
  ASSUME ElfInv, NEW from, NEW to \in Pcs, Stop(from, to),
         to \notin {"scan", "load"}, to \notin Loading \/ from \in Loading
  PROVE  ElfInv'
<1> USE DEF Stop
<1>1. TypeOK'
  BY DEF ElfInv, TypeOK, phnum, load_size
<1>2. NothingCut(img) => Ordered' /\ Spanned' /\ Scanned'
  BY DEF ElfInv, Ordered, Spanned, Scanned, phnum, Loadable, MemEnd, Loading
<1>3. Checked'
  BY DEF ElfInv, Checked, load_size, Loading
<1>4. Confined'
  BY DEF ElfInv, Confined
<1> QED  BY <1>1, <1>2, <1>3, <1>4 DEF ElfInv

-----------------------------------------------------------------------------
(* The answer of get_image_info.                                           *)

LEMMA GetLoadInfoInv == ASSUME ElfInv, GetLoadInfo PROVE ElfInv'
<1>1. CASE Stop("get_info", "refused") \/ Stop("get_info", "lost")
  BY <1>1, StopInv DEF Pcs, Loading
<1>2. CASE /\ Goto("get_info", "scan")
           /\ UNCHANGED <<load_info, phdr_dyn, fetched, mem>>
  <2> USE DEF Goto
  <2>1. TypeOK'  BY <1>2 DEF ElfInv, TypeOK, phnum, load_size, Pcs, Loading
  <2>2. Scanned'
    <3>1. phnum' = phnum /\ phnum \in Nat
      BY <1>2, Counted DEF ElfInv, TypeOK, phnum
    <3> QED  BY <1>2, <3>1 DEF Scanned, Loading
  <2>3. NothingCut(img) => Ordered' /\ Spanned'
    BY <1>2 DEF ElfInv, Ordered, Spanned
  <2>4. Checked' /\ Confined'
    BY <1>2 DEF ElfInv, Checked, Confined, Loading
  <2> QED  BY <1>2, <2>1, <2>2, <2>3, <2>4 DEF ElfInv
<1> QED  BY <1>1, <1>2 DEF GetLoadInfo

(* What the scan has seen lies between low and max, which begin and end    *)
(* with a segment.                                                         *)
LEMMA ScanSegmentInv == ASSUME ElfInv, ScanSegment PROVE ElfInv'
<1> DEFINE p == img.phdrs[i]
           end == MemEnd(p) % AddrMod
           Infos == [low : 0 .. Infinity, max : Nat, start : Nat, offset : Int,
                     entry : Int]
<1>1. /\ i \in 1 .. phnum /\ phnum \in Nat /\ phnum' = phnum
      /\ img' = img /\ img \in Images /\ pc = "scan" /\ pc' = "scan"
      /\ i' = i + 1
  BY Counted DEF ElfInv, TypeOK, ScanSegment, phnum
<1>2. p.addr \in 0 .. Infinity /\ p.memsz \in Nat /\ end \in Nat
  <2>1. p.addr \in 0 .. Infinity /\ p.memsz \in Nat
    BY <1>1, Counted, PhdrTyped, Widths DEF Infinity
  <2>2. AddrMod \in Nat \ {0}  BY Widths DEF AddrMod
  <2>3. MemEnd(p) \in Nat  BY <2>1, Widths DEF MemEnd, Infinity
  <2> HIDE DEF p
  <2> QED  BY <2>1, <2>2, <2>3, ModIn
<1>3. load_info \in Infos  BY DEF ElfInv, TypeOK
<1>4. CASE ~Loadable(p)
  <2>1. load_info' = load_info  BY <1>4 DEF ScanSegment
  <2>2. TypeOK'  BY <1>1, <2>1 DEF ElfInv, TypeOK, ScanSegment, phnum, Loading
  <2>3. NothingCut(img) => Ordered' /\ Spanned'
    BY <1>1, <2>1 DEF ElfInv, Ordered, Spanned
  <2>4. ASSUME NothingCut(img)  PROVE Scanned'
    <3>1. ASSUME NEW k \in 1 .. phnum, Loadable(img.phdrs[k]), k < i + 1
          PROVE  k < i
      BY <1>1, <1>4, <3>1
    <3> QED  BY <1>1, <2>1, <2>4, <3>1 DEF ElfInv, Scanned
  <2>5. Checked' /\ Confined'
    BY <1>1 DEF ElfInv, Checked, Confined, ScanSegment, Loading
  <2> QED  BY <1>1, <2>2, <2>3, <2>4, <2>5 DEF ElfInv
<1>5. CASE Loadable(p)
  <2>1. load_info' = [load_info EXCEPT
                        !.low = IF p.addr < load_info.low THEN p.addr
                                ELSE load_info.low,
                        !.max = IF end > load_info.max THEN end
                                ELSE load_info.max]
    BY <1>5 DEF ScanSegment, ExtendByMem, Extend
  <2> HIDE DEF p, end
  <2>2. load_info.low \in 0 .. Infinity /\ load_info.max \in Nat
        /\ Infinity \in Int
    BY <1>3, Widths DEF Infinity
  <2>3. /\ load_info'.low = IF p.addr < load_info.low THEN p.addr
                            ELSE load_info.low
        /\ load_info'.max = IF end > load_info.max THEN end ELSE load_info.max
    BY <1>3, <2>1
  <2>4. /\ load_info'.low \in 0 .. Infinity /\ load_info'.max \in Nat
        /\ load_info'.low <= load_info.low /\ load_info'.low <= p.addr
        /\ load_info.max <= load_info'.max /\ end <= load_info'.max
        /\ load_info'.low \in {load_info.low, p.addr}
        /\ load_info'.max \in {load_info.max, end}
    BY <1>2, <2>2, <2>3
  <2>5. load_info' \in Infos
    <3>1. load_info' = [load_info EXCEPT !.low = load_info'.low,
                                         !.max = load_info'.max]
      BY <2>1, <2>3
    <3> QED  BY <1>3, <2>4, <3>1
  <2>6. TypeOK'
    BY <1>1, <2>5 DEF ElfInv, TypeOK, ScanSegment, phnum, Loading
  <2>7. ASSUME NothingCut(img)  PROVE Ordered' /\ Spanned' /\ Scanned'
    <3>1. p \in Loads(img) /\ MemEnd(p) \in Nat /\ end = MemEnd(p)
          /\ p.addr <= MemEnd(p)
      <4>1. p \in Loads(img)  BY <1>1, <1>5, <2>7, Counted DEF Loads, p
      <4> QED  BY <1>1, <2>7, <4>1, NotCut DEF end, AddrMod
    <3>2. Ordered'
      BY <1>2, <2>2, <2>4, <3>1 DEF Ordered
    <3>3. Spanned'
      BY <1>1, <2>4, <2>7, <3>1 DEF ElfInv, Spanned
    <3>4. ASSUME NEW k \in 1 .. phnum, Loadable(img.phdrs[k]), k < i + 1
          PROVE  /\ load_info'.low <= img.phdrs[k].addr
                 /\ MemEnd(img.phdrs[k]) <= load_info'.max
      <4>1. CASE k = i  BY <2>4, <3>1, <4>1 DEF p
      <4>2. CASE k # i
        <5>1. k < i  BY <1>1, <3>4, <4>2
        <5>2. /\ load_info.low <= img.phdrs[k].addr
              /\ MemEnd(img.phdrs[k]) <= load_info.max
          BY <1>1, <2>7, <3>4, <5>1 DEF ElfInv, Scanned
        <5>3. img.phdrs[k].addr \in Nat /\ MemEnd(img.phdrs[k]) \in Nat
          <6>1. img.phdrs[k] \in Loads(img)
            BY <1>1, <2>7, <3>4, Counted DEF Loads
          <6> QED  BY <1>1, <2>7, <6>1, NotCut
        <5> QED  BY <2>2, <2>4, <5>2, <5>3
      <4> QED  BY <4>1, <4>2
    <3> QED  BY <1>1, <3>2, <3>3, <3>4 DEF Scanned
  <2>8. Checked' /\ Confined'
    BY <1>1 DEF ElfInv, Checked, Confined, ScanSegment, Loading
  <2> QED  BY <1>1, <2>6, <2>7, <2>8 DEF ElfInv
<1> QED  BY <1>4, <1>5

(* What is accepted fits the space.                                        *)
LEMMA CheckInfoInv == ASSUME ElfInv, CheckInfo PROVE ElfInv'
<1>1. CASE Stop("scan", "refused")
  BY <1>1, StopInv DEF Pcs, Loading
<1>2. CASE /\ InfoAccepted
           /\ Goto("scan", "load")
           /\ UNCHANGED <<load_info, phdr_dyn, fetched, mem>>
  <2> USE DEF Goto
  <2>1. TypeOK'  BY <1>2 DEF ElfInv, TypeOK, phnum, load_size, Pcs, Loading
  <2>2. phnum' = phnum /\ phnum \in Nat /\ i > phnum /\ i \in Nat /\ pc = "scan"
        /\ pc' = "load" /\ img' = img /\ load_info' = load_info
    BY <1>2, Counted DEF ElfInv, TypeOK, phnum, CheckInfo
  <2>3. NothingCut(img) => Ordered' /\ Spanned' /\ Scanned'
    BY <2>2 DEF ElfInv, Ordered, Spanned, Scanned, Loadable, MemEnd
  <2>4. Checked'
    <3>1. load_size \in 1 .. Space
      <4>1. load_size # 0 /\ load_size <= Space
        BY <1>2 DEF InfoAccepted, SizeFits
      <4>2. load_info.low \in Int /\ load_info.max \in Int /\ Space \in Nat
        BY ElfAssumption DEF ElfInv, TypeOK, Infinity
      <4>3. load_size \in 0 .. InfoMod - 1
        <5>1. load_info.max - load_info.low \in Int  BY <4>2
        <5>2. InfoMod \in Nat \ {0}  BY Widths
        <5> QED  BY <5>1, <5>2, ModIn DEF load_size
      <4> QED  BY <4>1, <4>2, <4>3, Widths
    <3>2. load_info.low # Infinity  BY <1>2 DEF InfoAccepted
    <3> QED  BY <2>2, <3>1, <3>2 DEF Checked, load_size, Loading
  <2>5. Confined'  BY <1>2 DEF ElfInv, Confined
  <2> QED  BY <2>1, <2>2, <2>3, <2>4, <2>5 DEF ElfInv
<1> QED  BY <1>1, <1>2 DEF CheckInfo

-----------------------------------------------------------------------------
(* load_image.                                                             *)

LEMMA StartLoadInv == ASSUME ElfInv, StartLoad PROVE ElfInv'
<1>1. CASE Stop("load", "failed")
  BY <1>1, StopInv DEF Pcs, Loading
<1>2. CASE /\ Goto("load", "segments")
           /\ load_info' = [load_info EXCEPT
                              !.start = Base, !.offset = Base - load_info.low,
                              !.entry = (img.entry + Base - load_info.low) % SizeMod]
           /\ UNCHANGED <<phdr_dyn, fetched, mem>>
  <2> USE DEF Goto
  <2>1. load_info \in [low : 0 .. Infinity, max : Nat, start : Nat,
                       offset : Int, entry : Int]
    BY DEF ElfInv, TypeOK
  <2>2. img \in Images /\ img.entry \in Nat /\ phnum \in Nat
    BY ImageTyped, Counted DEF ElfInv, TypeOK
  <2>3. /\ load_info'.low = load_info.low /\ load_info'.max = load_info.max
        /\ load_info'.start = Base /\ load_info'.offset = Base - load_info.low
        /\ load_info' \in [low : 0 .. Infinity, max : Nat, start : Nat,
                           offset : Int, entry : Int]
    <3>1. load_info.low \in Nat  BY <2>1, ElfAssumption DEF Infinity
    <3>2. /\ Base - load_info.low \in Int
          /\ (img.entry + Base - load_info.low) % SizeMod \in Int
      <4>1. Base - load_info.low \in Int /\ img.entry + Base - load_info.low \in Int
        BY <3>1, <2>2, ElfAssumption
      <4> QED  BY <4>1, Widths, ModIn
    <3>3. Base \in Nat  BY ElfAssumption
    <3> QED  BY <1>2, <2>1, <3>2, <3>3
  <2>4. load_size' = load_size /\ load_size \in 1 .. Space
    BY <1>2, <2>3 DEF ElfInv, Checked, load_size
  <2>5. TypeOK'
    <3>1. Base .. Base + load_size - 1 \subseteq Cells
      BY <2>4, ElfAssumption DEF Cells
    <3> QED  BY <1>2, <2>3, <2>4, <3>1 DEF ElfInv, TypeOK, phnum, Pcs
  <2>6. NothingCut(img) => Ordered' /\ Spanned' /\ Scanned'
    BY <1>2, <2>3 DEF ElfInv, Ordered, Spanned, Scanned, phnum, Loadable, MemEnd
  <2>7. Checked'
    BY <1>2, <2>3, <2>4 DEF ElfInv, Checked, Infinity
  <2>8. Confined'  BY <1>2 DEF ElfInv, Confined
  <2> QED  BY <1>2, <2>5, <2>6, <2>7, <2>8 DEF ElfInv
<1> QED  BY <1>1, <1>2 DEF StartLoad

(* The rest of the load: load_info stays and only the memory changes.      *)
LEMMA LoadingInv ==
  ASSUME ElfInv, pc \in Loading, pc' \in Loading \union {"failed", "lost"},
         UNCHANGED <<img, load_info>>, i' \in Nat \ {0},
         phdr_dyn' \in 0 .. phnum, fetched' \in 0 .. SizeMod - 1,
         mem' \in [Cells -> Values],
         WithinItself(img) =>
           \A c \in Cells \ (Base .. Base + Space - 1) : mem'[c] = mem[c]
  PROVE  ElfInv'
<1>1. TypeOK'
  BY DEF ElfInv, TypeOK, phnum, load_size, Pcs, Loading
<1>2. NothingCut(img) => Ordered' /\ Spanned' /\ Scanned'
  BY DEF ElfInv, Ordered, Spanned, Scanned, phnum, Loadable, MemEnd, Loading
<1>3. Checked'
  BY DEF ElfInv, Checked, load_size, Loading
<1>4. Confined'
  BY DEF ElfInv, Confined
<1> QED  BY <1>1, <1>2, <1>3, <1>4 DEF ElfInv

(* Under its hypothesis no segment begins in the file beyond the image's   *)
(* size in memory.                                                         *)
LEMMA OffsetWithin ==
  ASSUME ElfInv, WithinItself(img), pc = "segments",
         NEW s \in Loads(img)
  PROVE  s.off <= load_size
<1>1. /\ pc \in Loading /\ img \in Images /\ NothingCut(img)
      /\ load_info.low # Infinity
  BY DEF ElfInv, TypeOK, Checked, Loading, WithinItself
<1>2. /\ load_size = load_info.max - load_info.low
      /\ load_info.max \in Nat /\ load_info.low \in Nat
  BY <1>1, SizeKept DEF ElfInv
<1>3. PICK t \in Loads(img), u \in Loads(img) : s.off <= MemEnd(t) - u.addr
  BY DEF WithinItself, OffsetsInside
<1>4. ASSUME NEW r \in Loads(img)
      PROVE  load_info.low <= r.addr /\ MemEnd(r) <= load_info.max
  <2>1. PICK k \in 1 .. phnum : r = img.phdrs[k] /\ Loadable(r)
    BY <1>1, Counted DEF Loads
  <2> QED  BY <1>1, <2>1 DEF ElfInv, Scanned
<1>5. PICK k \in 1 .. Len(img.phdrs) : s = img.phdrs[k]
  BY DEF Loads
<1>6. s.off \in Nat  BY <1>1, <1>5, PhdrTyped
<1>7. /\ MemEnd(t) \in Nat /\ u.addr \in Nat
      /\ MemEnd(t) <= load_info.max /\ load_info.low <= u.addr
  BY <1>1, <1>4, NotCut
<1> QED  BY <1>2, <1>3, <1>6, <1>7

LEMMA LoadSegmentInv == ASSUME ElfInv, LoadSegment PROVE ElfInv'
<1> DEFINE p == img.phdrs[i]
           n == NoMoreThanMem(p)
           got == Clamped(p.off, n, load_size)
           Outside == Cells \ (Base .. Base + Space - 1)
<1>1. /\ i \in 1 .. phnum /\ phnum \in Nat
      /\ img \in Images /\ pc = "segments" /\ pc \in Loading
      /\ UNCHANGED <<img, load_info>>
  BY Counted DEF ElfInv, TypeOK, LoadSegment, Loading
<1>2. /\ p.addr \in Nat /\ p.memsz \in Nat /\ p.off \in Nat
      /\ p.filesz \in Nat /\ p.memsz \in 0 .. SizeMod - 1
  BY <1>1, Counted, PhdrTyped
<1>3. phdr_dyn' \in 0 .. phnum  BY <1>1 DEF LoadSegment, ElfInv, TypeOK
<1>4. /\ fetched \in 0 .. SizeMod - 1 /\ mem \in [Cells -> Values]
  BY DEF ElfInv, TypeOK
<1>5. load_size \in 1 .. Space /\ load_size < SizeMod
  <2>1. load_size \in 1 .. Space  BY <1>1 DEF ElfInv, Checked
  <2> QED  BY <2>1, ElfAssumption
<1>6. n \in 0 .. p.memsz /\ n \in 0 .. SizeMod - 1
  <2>1. n \in 0 .. p.memsz  BY <1>2 DEF NoMoreThanMem
  <2> HIDE DEF n, p
  <2> QED  BY <1>2, <2>1, Widths
<1>7. got \in 0 .. SizeMod - 1 /\ (p.off <= load_size => got <= n)
  <2>1. load_size \in Nat  BY <1>5, ElfAssumption
  <2>2. p.off \in Nat /\ n \in 0 .. SizeMod - 1  BY <1>2, <1>6
  <2> HIDE DEF n, p
  <2> QED  BY <2>1, <2>2, <1>5, ClampedRange DEF got
<1>8. CASE ~Loadable(p)
  BY <1>1, <1>3, <1>4, <1>8, LoadingInv DEF LoadSegment
<1>9. CASE Loadable(p)
  <2>1. CopySegment(p) /\ UNCHANGED <<img, load_info>>
    BY <1>9 DEF LoadSegment
  <2>2. ASSUME WithinItself(img)
        PROVE  /\ Dest(p) \in Nat /\ Base <= Dest(p)
               /\ Dest(p) + p.memsz <= Base + Space
               /\ BssDest(p, n) = Dest(p) + n
               /\ got <= n
    <3>1. NothingCut(img)  BY <2>2 DEF WithinItself
    <3>2. p \in Loads(img)  BY <1>1, <1>9, Counted DEF Loads
    <3>3. p.off <= load_size  BY <1>1, <2>2, <3>2, OffsetWithin
    <3> HIDE DEF n, got
    <3> QED  BY <1>1, <1>6, <1>7, <1>9, <3>1, <3>3, SegmentInSpace
  <2>3. Dest(p) \in Nat /\ BssDest(p, n) \in Nat
    <3>1. load_info.offset \in Int  BY DEF ElfInv, TypeOK
    <3>2. AddrMod \in Nat \ {0} /\ SizeMod \in Nat \ {0}
      BY Widths DEF AddrMod
    <3> HIDE DEF p, n
    <3>3. p.addr + load_info.offset \in Int /\ p.addr + n \in Nat
      BY <1>2, <1>6, <3>1
    <3>4. (p.addr + n) % AddrMod \in 0 .. AddrMod - 1
      <4> DEFINE x == p.addr + n
      <4>1. x \in Int  BY <3>3
      <4> HIDE DEF x
      <4>2. x % AddrMod \in 0 .. AddrMod - 1  BY <3>2, <4>1, ModIn
      <4> QED  BY <4>2 DEF x
    <3>5. ((p.addr + n) % AddrMod) + load_info.offset \in Int
      BY <3>1, <3>2, <3>4
    <3>6. (p.addr + load_info.offset) % SizeMod \in Nat
      <4> DEFINE x == p.addr + load_info.offset
      <4>1. x \in Int  BY <3>3
      <4> HIDE DEF x
      <4>2. x % SizeMod \in 0 .. SizeMod - 1  BY <3>2, <4>1, ModIn
      <4>3. x % SizeMod \in Nat  BY <3>2, <4>2
      <4> QED  BY <4>3 DEF x
    <3>7. (((p.addr + n) % AddrMod) + load_info.offset) % SizeMod \in Nat
      <4> DEFINE x == ((p.addr + n) % AddrMod) + load_info.offset
      <4>1. x \in Int  BY <3>5
      <4> HIDE DEF x
      <4>2. x % SizeMod \in 0 .. SizeMod - 1  BY <3>2, <4>1, ModIn
      <4>3. x % SizeMod \in Nat  BY <3>2, <4>2
      <4> QED  BY <4>3 DEF x
    <3> QED  BY <3>6, <3>7 DEF Dest, BssDest
  <2>4. ASSUME NEW a \in Nat, NEW c \in Cells, a < SizeMod
        PROVE  Ahead(a, c) \in Nat
    BY <2>4, Widths, ElfAssumption DEF Ahead, Cells
  <2>5. ASSUME NEW m \in Nat
        PROVE  /\ Copied(p, m) \in [Cells -> Values]
               /\ WithinItself(img) /\ m <= n =>
                    \A c \in Outside : Copied(p, m)[c] = mem[c]
    <3>1. Dest(p) < SizeMod
      <4>1. load_info.offset \in Int  BY DEF ElfInv, TypeOK
      <4> HIDE DEF p
      <4>2. p.addr + load_info.offset \in Int  BY <1>2, <4>1
      <4> QED  BY <4>2, Widths, ModIn DEF Dest
    <3>2. ASSUME NEW c \in Cells
          PROVE  File((p.off + Ahead(Dest(p), c)) % SizeMod) \in Values
      <4>1. Ahead(Dest(p), c) \in Nat  BY <2>3, <2>4, <3>1
      <4> HIDE DEF p
      <4>2. p.off + Ahead(Dest(p), c) \in Nat  BY <1>2, <4>1
      <4>3. SizeMod \in Nat \ {0}  BY Widths
      <4>4. (p.off + Ahead(Dest(p), c)) % SizeMod \in 0 .. SizeMod - 1
        <5> DEFINE x == p.off + Ahead(Dest(p), c)
        <5>1. x \in Int  BY <4>2
        <5> HIDE DEF x
        <5>2. x % SizeMod \in 0 .. SizeMod - 1  BY <4>3, <5>1, ModIn
        <5> QED  BY <5>2 DEF x
      <4>5. (p.off + Ahead(Dest(p), c)) % SizeMod \in Nat  BY <4>3, <4>4
      <4> QED  BY <4>5 DEF File, Values
    <3>3. Copied(p, m) \in [Cells -> Values]
      <4> HIDE DEF p
      <4> QED  BY <1>4, <3>2 DEF Copied
    <3>4. ASSUME WithinItself(img), m <= n, NEW c \in Outside
          PROVE  Copied(p, m)[c] = mem[c]
      <4>1. ~(Ahead(Dest(p), c) < m)
        <5> HIDE DEF p, n
        <5>1. Dest(p) + m <= Top /\ c \notin Dest(p) .. Dest(p) + m - 1
          BY <1>2, <1>6, <2>2, <2>3, <3>4, ElfAssumption DEF Cells
        <5> QED  BY <2>3, <5>1, AheadIs
      <4> HIDE DEF p
      <4> QED  BY <4>1 DEF Copied
    <3> QED  BY <3>3, <3>4
  <2>6. ASSUME NEW memory \in [Cells -> Values]
        PROVE  /\ BssCleared(p, n, memory) \in [Cells -> Values]
               /\ WithinItself(img) =>
                    \A c \in Outside : BssCleared(p, n, memory)[c] = memory[c]
    <3>1. Zero \in Values  BY DEF Zero, Values
    <3>2. BssCleared(p, n, memory) \in [Cells -> Values]
      <4> HIDE DEF p, n
      <4> QED  BY <2>6, <3>1 DEF BssCleared
    <3>3. ASSUME WithinItself(img), NEW c \in Outside
          PROVE  BssCleared(p, n, memory)[c] = memory[c]
      <4>1. ~(Ahead(BssDest(p, n), c) < p.memsz - n)
        <5> HIDE DEF p, n
        <5>1. /\ Dest(p) \in Nat /\ Base <= Dest(p)
              /\ Dest(p) + p.memsz <= Base + Space
              /\ BssDest(p, n) = Dest(p) + n
              /\ c \in Int /\ c \notin Base .. Base + Space - 1
          BY <2>2, <3>3 DEF Cells
        <5>2. /\ BssDest(p, n) + (p.memsz - n) <= Top
              /\ c \notin BssDest(p, n) .. BssDest(p, n) + (p.memsz - n) - 1
              /\ p.memsz - n \in Nat
          BY <1>2, <1>6, <5>1, ElfAssumption
        <5> QED  BY <2>3, <5>2, AheadIs
      <4> HIDE DEF p, n
      <4> QED  BY <4>1 DEF BssCleared
    <3> QED  BY <3>2, <3>3
  <2>7. fetched' \in 0 .. SizeMod - 1  BY <2>1, <1>7 DEF CopySegment
  <2>8. CASE got = n /\ mem' = BssCleared(p, n, Copied(p, n)) /\ i' = i + 1 /\ pc' = pc
    <3> HIDE DEF p, n, got
    <3>1. n \in Nat /\ n <= n  BY <1>6
    <3>2. Copied(p, n) \in [Cells -> Values]  BY <2>5, <3>1
    <3>3. mem' \in [Cells -> Values]  BY <2>6, <2>8, <3>2
    <3>4. WithinItself(img) => \A c \in Outside : mem'[c] = mem[c]
      BY <2>5, <2>6, <2>8, <3>1, <3>2
    <3>5. i' \in Nat \ {0} /\ pc' \in Loading  BY <1>1, <2>8
    <3> QED  BY <1>1, <1>3, <2>7, <3>3, <3>4, <3>5, LoadingInv
  <2>9. CASE mem' = Copied(p, got) /\ pc' \in {"failed", "lost"} /\ i' = i
    <3> HIDE DEF p, n, got
    <3>1. got \in Nat  BY <1>7
    <3>2. mem' \in [Cells -> Values]  BY <2>5, <2>9, <3>1
    <3>3. WithinItself(img) => \A c \in Outside : mem'[c] = mem[c]
      BY <2>2, <2>5, <2>9, <3>1
    <3> QED  BY <1>1, <1>3, <2>7, <2>9, <3>2, <3>3, LoadingInv
  <2> QED  BY <2>1, <2>8, <2>9 DEF CopySegment
<1> QED  BY <1>8, <1>9

LEMMA FindHeadersInv == ASSUME ElfInv, FindHeaders PROVE ElfInv'
<1>1. pc \in Loading /\ pc' \in Loading \union {"failed", "lost"}
  BY DEF FindHeaders, Loading
<1>2. i' \in Nat \ {0} /\ UNCHANGED <<img, load_info, phdr_dyn, fetched, mem>>
  BY DEF FindHeaders
<1>3. /\ phdr_dyn \in 0 .. phnum /\ fetched \in 0 .. SizeMod - 1
      /\ mem \in [Cells -> Values]
  BY DEF ElfInv, TypeOK
<1> QED  BY <1>1, <1>2, <1>3, LoadingInv

(* A cell that came from the file is in the space, when all is.            *)
LEMMA FileCellInSpace ==
  ASSUME Confined, WithinItself(img), NEW a, NEW k, Holds(a, File(k))
  PROVE  a \in Base .. Base + Space - 1
  BY DEF Confined, Holds, File, Old

LEMMA MoveHeaderInv == ASSUME ElfInv, MoveHeader PROVE ElfInv'
<1> DEFINE k == img.phoff + i - 1
           a == load_info.start + k
<1>1. /\ pc \in Loading /\ pc' \in Loading \union {"failed", "lost"}
      /\ UNCHANGED <<img, load_info, phdr_dyn, fetched>>
  BY DEF MoveHeader, Loading
<1>2. /\ phdr_dyn \in 0 .. phnum /\ fetched \in 0 .. SizeMod - 1
      /\ mem \in [Cells -> Values] /\ i \in Nat \ {0}
  BY DEF ElfInv, TypeOK
<1>3. i' \in Nat \ {0}  BY <1>2 DEF MoveHeader
<1>4. k \in Nat
  BY <1>2, ImageTyped DEF ElfInv, TypeOK
<1>5. CASE UNCHANGED mem
  BY <1>1, <1>2, <1>3, <1>5, LoadingInv
<1>6. CASE Holds(a, File(k)) /\ mem' = [mem EXCEPT ![a] = Moved(k)]
  <2> HIDE DEF k, a
  <2>1. Moved(k) \in Values  BY <1>4 DEF Moved, Values
  <2>2. mem' \in [Cells -> Values]  BY <1>2, <1>6, <2>1
  <2>3. ASSUME WithinItself(img)
        PROVE  \A c \in Cells \ (Base .. Base + Space - 1) : mem'[c] = mem[c]
    BY <1>2, <1>6, <2>3, FileCellInSpace DEF ElfInv
  <2> QED  BY <1>1, <1>2, <1>3, <2>2, <2>3, LoadingInv
<1> QED  BY <1>5, <1>6 DEF MoveHeader

LEMMA HeadersMovedInv == ASSUME ElfInv, HeadersMoved PROVE ElfInv'
<1>1. /\ pc \in Loading /\ pc' \in Loading \union {"failed", "lost"}
      /\ i' \in Nat \ {0}
      /\ UNCHANGED <<img, load_info, phdr_dyn, fetched, mem>>
  BY DEF HeadersMoved, Goto, Loading
<1>2. /\ phdr_dyn \in 0 .. phnum /\ fetched \in 0 .. SizeMod - 1
      /\ mem \in [Cells -> Values]
  BY DEF ElfInv, TypeOK
<1> QED  BY <1>1, <1>2, LoadingInv

LEMMA StartRelocationInv == ASSUME ElfInv, StartRelocation PROVE ElfInv'
<1>1. CASE \E to \in {"loaded", "failed", "lost"} : Stop("relocate", to)
  BY <1>1, StopInv DEF Pcs, Loading
<1>2. CASE Goto("relocate", "relas") /\ UNCHANGED <<load_info, phdr_dyn, fetched, mem>>
  <2>1. /\ pc \in Loading /\ pc' \in Loading \union {"failed", "lost"}
        /\ i' \in Nat \ {0}
        /\ UNCHANGED <<img, load_info, phdr_dyn, fetched, mem>>
    BY <1>2 DEF Goto, Loading
  <2>2. /\ phdr_dyn \in 0 .. phnum /\ fetched \in 0 .. SizeMod - 1
        /\ mem \in [Cells -> Values]
    BY DEF ElfInv, TypeOK
  <2> QED  BY <2>1, <2>2, LoadingInv
<1> QED  BY <1>1, <1>2 DEF StartRelocation

(* The target of a relocation of the image's own addresses.                *)
LEMMA TargetInSpace ==
  ASSUME ElfInv, pc \in Loading, WithinItself(img),
         NEW k \in DOMAIN img.relas
  PROVE  TargetOf(img.relas[k]) \in Base .. Base + Space - 1
<1> DEFINE t == img.relas[k].target
<1>1. /\ NothingCut(img) /\ img \in Images /\ TargetsInside(img)
      /\ phnum = Len(img.phdrs)
  BY Counted DEF ElfInv, TypeOK, WithinItself
<1>2. PICK n \in 1 .. phnum :
        /\ Loadable(img.phdrs[n])
        /\ t \in MemCells(img.phdrs[n])
  BY <1>1, Zenon DEF TargetsInside
<1> DEFINE p == img.phdrs[n]
<1>3. /\ Base <= Dest(p) /\ Dest(p) + p.memsz <= Base + Space
      /\ Dest(p) = p.addr + load_info.offset
  BY <1>2, <1>1, SegmentInSpace
<1>4. /\ p.addr \in Nat /\ p.memsz \in Nat /\ p \in Loads(img)
      /\ MemEnd(p) < AddrMod
  <2>1. p \in Loads(img)  BY <1>2, <1>1 DEF Loads
  <2> QED  BY <1>1, <2>1, NotCut DEF AddrMod
<1>5. load_info.offset \in Int  BY DEF ElfInv, TypeOK
<1>6. t \in p.addr .. p.addr + p.memsz - 1
  <2>1. t \in MemCells(p)  BY <1>2
  <2> HIDE DEF t, p
  <2> QED  BY <2>1, <1>4 DEF MemCells, MemEnd
<1>7. AddrMod \in Nat /\ Base + Space <= AddrMod
  BY <1>1, Widths DEF NothingCut, AddrMod
<1> HIDE DEF t, p
<1>8. t + load_info.offset \in Base .. Base + Space - 1
  BY <1>3, <1>4, <1>5, <1>6, ElfAssumption
<1>9. (t + load_info.offset) % AddrMod = t + load_info.offset
  BY <1>7, <1>8, ElfAssumption, ModOf
<1> QED  BY <1>8, <1>9 DEF TargetOf, t

LEMMA ApplyRelaInv == ASSUME ElfInv, ApplyRela PROVE ElfInv'
<1> DEFINE a == RelaPlace(img.dyn.rela)
<1>1. /\ pc \in Loading /\ pc' \in Loading \union {"failed", "lost"}
      /\ UNCHANGED <<img, load_info, phdr_dyn, fetched>>
  BY DEF ApplyRela, Loading
<1>2. /\ phdr_dyn \in 0 .. phnum /\ fetched \in 0 .. SizeMod - 1
      /\ mem \in [Cells -> Values] /\ i \in Nat \ {0} /\ img \in Images
  BY DEF ElfInv, TypeOK
<1>3. i' \in Nat \ {0}  BY <1>2 DEF ApplyRela
<1>4. CASE UNCHANGED mem
  BY <1>1, <1>2, <1>3, <1>4, LoadingInv
<1>5. ASSUME NEW rela \in RelaAt(a), rela.type \in {"relative", "symbol"},
             mem' = [mem EXCEPT ![TargetOf(rela)] = ValueOf(rela)]
      PROVE  ElfInv'
  <2>1. PICK k \in DOMAIN img.relas : rela = img.relas[k]
    <3>1. mem[a][2] \in DOMAIN img.relas /\ rela = img.relas[mem[a][2]]
      BY <1>5 DEF RelaAt, Holds, File
    <3> QED  BY <3>1
  <2>2. rela.addend \in Nat  BY <1>2, <2>1, ImageTyped
  <2>3. ValueOf(rela) \in Values  BY <2>2 DEF ValueOf, Symbol, Addend, Values
  <2>4. mem' \in [Cells -> Values]  BY <1>2, <1>5, <2>3
  <2>5. ASSUME WithinItself(img)
        PROVE  \A c \in Cells \ (Base .. Base + Space - 1) : mem'[c] = mem[c]
    <3>1. TargetOf(rela) \in Base .. Base + Space - 1
      BY <1>1, <2>1, <2>5, TargetInSpace
    <3> QED  BY <1>2, <1>5, <3>1
  <2> QED  BY <1>1, <1>2, <1>3, <2>4, <2>5, LoadingInv
<1> QED  BY <1>4, <1>5 DEF ApplyRela

LEMMA RelocationDoneInv == ASSUME ElfInv, RelocationDone PROVE ElfInv'
<1>1. Stop("relas", "loaded")  BY DEF RelocationDone
<1> QED  BY <1>1, StopInv DEF Pcs, Loading

-----------------------------------------------------------------------------
LEMMA NextInv == ASSUME ElfInv, Next PROVE ElfInv'
<1>1. CASE GetLoadInfo      BY <1>1, GetLoadInfoInv
<1>2. CASE ScanSegment      BY <1>2, ScanSegmentInv
<1>3. CASE CheckInfo        BY <1>3, CheckInfoInv
<1>4. CASE StartLoad        BY <1>4, StartLoadInv
<1>5. CASE LoadSegment      BY <1>5, LoadSegmentInv
<1>6. CASE FindHeaders      BY <1>6, FindHeadersInv
<1>7. CASE MoveHeader       BY <1>7, MoveHeaderInv
<1>8. CASE HeadersMoved     BY <1>8, HeadersMovedInv
<1>9. CASE StartRelocation  BY <1>9, StartRelocationInv
<1>10. CASE ApplyRela       BY <1>10, ApplyRelaInv
<1>11. CASE RelocationDone  BY <1>11, RelocationDoneInv
<1> QED  BY <1>1, <1>2, <1>3, <1>4, <1>5, <1>6, <1>7, <1>8, <1>9, <1>10, <1>11
         DEF Next

LEMMA StutterInv == ASSUME ElfInv, UNCHANGED vars PROVE ElfInv'
<1>1. TypeOK' /\ Checked'
  BY DEF vars, ElfInv, TypeOK, Checked, phnum, load_size
<1>2. NothingCut(img) => Ordered' /\ Spanned' /\ Scanned'
  BY DEF vars, ElfInv, Ordered, Spanned, Scanned, phnum, Loadable, MemEnd
<1>3. Confined' /\ img' = img
  BY DEF vars, ElfInv, Confined
<1> QED  BY <1>1, <1>2, <1>3 DEF ElfInv

THEOREM ElfInductive == Spec => []ElfInv
<1>1. Init => ElfInv  BY InitInv
<1>2. ElfInv /\ [Next]_vars => ElfInv'  BY NextInv, StutterInv
<1> QED  BY <1>1, <1>2, PTL DEF Spec

(* Type correctness of the loader: what it is about to write is memory.    *)
THEOREM ElfTypeCorrect == Spec => []TypeOK
<1>1. ElfInv => TypeOK  BY DEF ElfInv
<1> QED  BY <1>1, ElfInductive, PTL

(* The load of an image that keeps within itself writes nothing outside    *)
(* the space that its caller has checked (elf_ld.c:66-67,                  *)
(* run_xmon_loader.c:51, xmon_loader.c:246, 271).                          *)
THEOREM ImageConfined == Spec => []Confined
<1>1. ElfInv => Confined  BY DEF ElfInv
<1> QED  BY <1>1, ElfInductive, PTL

-----------------------------------------------------------------------------
(* Only a segment to load is somewhere in the image.                       *)
LEMMA LoadsIndexed ==
  ASSUME NEW image, NEW s \in Loads(image)
  PROVE  \E k \in 1 .. Len(image.phdrs) : s = image.phdrs[k] /\ Loadable(s)
BY DEF Loads

(* An address is in one segment at most.                                   *)
LEMMA OneSegment ==
  ASSUME NEW image, NEW head, SegmentsApart(image, head),
         NEW k \in 1 .. Len(image.phdrs), NEW l \in 1 .. Len(image.phdrs),
         Loadable(image.phdrs[k]), Loadable(image.phdrs[l]),
         NEW a \in MemCells(image.phdrs[k]), a \in MemCells(image.phdrs[l])
  PROVE  k = l
<1>1. k # l => MemCells(image.phdrs[k]) \intersect MemCells(image.phdrs[l]) = {}
  BY DEF SegmentsApart
<1> QED  BY <1>1

(* What a segment has in the file is within what it has in memory.         *)
LEMMA SegmentTyped ==
  ASSUME NEW image, ImageOf(image), NEW head, SegmentsApart(image, head),
         NEW s \in Loads(image)
  PROVE  /\ {s.addr, s.memsz, s.off, s.filesz} \subseteq Nat
         /\ s.filesz <= s.memsz /\ head.addr <= s.addr
         /\ FileCells(s) \subseteq MemCells(s) /\ MemCells(s) \subseteq Nat
<1>1. /\ s.addr \in Nat /\ s.memsz \in Nat /\ s.off \in Nat /\ s.filesz \in Nat
  <2>1. PICK k \in 1 .. Len(image.phdrs) : s = image.phdrs[k]  BY DEF Loads
  <2>2. s \in PhdrOf(AddrModOf(image))  BY <2>1 DEF ImageOf
  <2>3. Fields(AddrModOf(image)) \subseteq Nat  BY Widths DEF Fields
  <2> QED  BY <2>2, <2>3 DEF PhdrOf
<1>2. s.filesz <= s.memsz /\ head.addr <= s.addr  BY DEF SegmentsApart
<1> QED  BY <1>1, <1>2 DEF FileCells, MemCells, FileEnd, MemEnd

(* The lowest address is that of the segment with the headers, and an      *)
(* address of the image has a cell, at its distance from Base.             *)
LEMMA HeadIsLowest ==
  ASSUME ElfInv, NothingCut(img), pc \in Loading, NEW head \in Loads(img),
         HeadSegment(img, head), SegmentsApart(img, head), Progress(head)
  PROVE  /\ load_info.low = head.addr /\ load_info.start = Base
         /\ load_info.offset = Base - head.addr
         /\ load_info.entry = (Base + img.entry - head.addr) % SizeMod
         /\ head.addr \in Nat
<1>1. PICK k \in 1 .. phnum : head = img.phdrs[k] /\ Loadable(head)
  BY LoadsIndexed, Counted DEF ElfInv, TypeOK
<1>2. load_info.low <= head.addr
  BY <1>1 DEF ElfInv, Scanned, Loading
<1>3. head.addr \in Nat
  BY NotCut DEF ElfInv, TypeOK
<1>4. load_info.low \in Nat  BY DEF ElfInv, TypeOK
<1>5. head.addr <= load_info.low  BY DEF Progress
<1>6. load_info.low = head.addr  BY <1>2, <1>3, <1>4, <1>5
<1> QED  BY <1>3, <1>6 DEF ElfInv, Checked, Progress

LEMMA CellOfAddress ==
  ASSUME ElfInv, NothingCut(img), pc \in Loading, NEW head \in Loads(img),
         HeadSegment(img, head), SegmentsApart(img, head), Progress(head),
         NEW k \in 1 .. phnum, Loadable(img.phdrs[k]),
         NEW a \in MemCells(img.phdrs[k])
  PROVE  /\ a \in Nat /\ Base + a - head.addr \in Cells
         /\ Base + a - head.addr < Base + Space
         /\ Base + a - head.addr = Dest(img.phdrs[k]) + (a - img.phdrs[k].addr)
<1> DEFINE p == img.phdrs[k]
<1>1. /\ Dest(p) \in Nat /\ Base <= Dest(p)
      /\ Dest(p) + p.memsz <= Base + Space
  BY SegmentInSpace
<1>2. p.addr \in Nat /\ p.memsz \in Nat
  <2>1. p \in Loads(img)  BY Counted DEF ElfInv, TypeOK, Loads
  <2> QED  BY <2>1, NotCut DEF ElfInv, TypeOK
<1>3. Dest(p) = p.addr + (Base - head.addr) /\ head.addr \in Nat
  BY HeadIsLowest, SegmentInSpace
<1>4. a \in MemCells(p)  OBVIOUS
<1> HIDE DEF p
<1>5. a \in p.addr .. p.addr + p.memsz - 1  BY <1>2, <1>4 DEF MemCells, MemEnd
<1>6. a \in Nat /\ Base + a - head.addr = Dest(p) + (a - p.addr)
  BY <1>2, <1>3, <1>5, ElfAssumption
<1>7. Dest(p) + (a - p.addr) \in Cells /\ Dest(p) + (a - p.addr) < Base + Space
  BY <1>1, <1>2, <1>5, ElfAssumption DEF Cells
<1> QED  BY <1>6, <1>7 DEF p

-----------------------------------------------------------------------------
(* A step that writes nothing, to a step that asks for nothing new.        *)
LEMMA QuietProgress ==
  ASSUME NEW head, Progress(head), UNCHANGED <<img, load_info>>,
         pc' \notin Loading
  PROVE  Progress(head)'
BY DEF Progress, Loading

LEMMA ScanProgress ==
  ASSUME ElfInv, NothingCut(img), ScanSegment, NEW head \in Loads(img),
         SegmentsApart(img, head), Progress(head)
  PROVE  Progress(head)'
<1>1. /\ pc' \notin Loading /\ i \in 1 .. phnum
  BY ImageTyped DEF ScanSegment, Loading, ElfInv, TypeOK, phnum
<1>2. head.addr <= load_info'.low
  <2>1. CASE ~Loadable(img.phdrs[i])
    BY <2>1 DEF ScanSegment, Progress
  <2>2. CASE Loadable(img.phdrs[i])
    <3>1. head.addr <= img.phdrs[i].addr
      BY <1>1, <2>2 DEF SegmentsApart, Loads, phnum
    <3>2. load_info'.low = IF img.phdrs[i].addr < load_info.low
                           THEN img.phdrs[i].addr ELSE load_info.low
      BY <2>2 DEF ScanSegment, ExtendByMem, Extend, ElfInv, TypeOK
    <3> QED  BY <3>1, <3>2 DEF Progress
  <2> QED  BY <2>1, <2>2
<1> QED  BY <1>1, <1>2 DEF Progress, Loading

LEMMA StartLoadProgress ==
  ASSUME ElfInv, NothingCut(img), StartLoad, NEW head \in Loads(img), Progress(head)
  PROVE  Progress(head)'
<1>1. CASE Stop("load", "failed")
  BY <1>1, QuietProgress DEF Stop, Loading
<1>2. CASE /\ Goto("load", "segments")
           /\ load_info' = [load_info EXCEPT
                 !.start = Base, !.offset = Base - load_info.low,
                 !.entry = (img.entry + Base - load_info.low) % SizeMod]
           /\ UNCHANGED <<phdr_dyn, fetched, mem>>
  <2>1. load_info'.low = load_info.low
        /\ load_info'.entry = (img.entry + Base - load_info.low) % SizeMod
    BY <1>2 DEF ElfInv, TypeOK
  <2>2. img.entry \in Nat /\ load_info.low \in Nat /\ Base \in Nat
    BY ImageTyped, ElfAssumption DEF ElfInv, TypeOK
  <2>3. load_info'.entry = (Base + img.entry - load_info.low) % SizeMod
    <3>1. img.entry + Base - load_info.low = Base + img.entry - load_info.low
      BY <2>2
    <3> QED  BY <2>1, <3>1
  <2>4. LaidUpTo(img, mem', head, 0, 0)
    BY DEF LaidUpTo
  <2>5. i' - 1 = 0 /\ pc' = "segments" /\ img' = img  BY <1>2 DEF Goto
  <2> QED  BY <2>1, <2>3, <2>4, <2>5 DEF Progress
<1> QED  BY <1>1, <1>2 DEF StartLoad

(* A segment's copy is what the file has of it, then zeros, and no other   *)
(* segment's place is touched.                                             *)
LEMMA SegmentLaid ==
  ASSUME ElfInv, NothingCut(img), pc \in Loading, NEW head \in Loads(img),
         HeadSegment(img, head), SegmentsApart(img, head), Progress(head),
         NEW l \in 1 .. phnum, Loadable(img.phdrs[l]),
         LaidUpTo(img, mem, head, l - 1, 0),
         mem' = BssCleared(img.phdrs[l], img.phdrs[l].filesz,
                           Copied(img.phdrs[l], img.phdrs[l].filesz))
  PROVE  LaidUpTo(img, mem', head, l, 0)
<1> DEFINE p == img.phdrs[l]
           n == p.filesz
<1>1. phnum \in Nat /\ phnum = Len(img.phdrs)
  BY ImageTyped, Counted DEF ElfInv, TypeOK
<1>2. p \in Loads(img)  BY <1>1 DEF Loads
<1>3. /\ p.addr \in Nat /\ p.memsz \in Nat /\ p.off \in Nat /\ n \in Nat
      /\ n <= p.memsz
  BY <1>2, SegmentTyped, ElfAssumption DEF ElfInv, TypeOK
<1>4. /\ Dest(p) \in Nat /\ Dest(p) = p.addr + load_info.offset
      /\ Dest(p) + p.memsz <= Top /\ BssDest(p, n) = Dest(p) + n
  BY <1>3, SegmentInSpace, ElfAssumption
<1>5. p.off + n < SizeMod
  <2>1. p.off + n <= img.length  BY <1>2 DEF SegmentsApart
  <2>2. img.length \in Nat /\ img.length < SizeMod /\ SizeMod \in Nat
    BY ImageTyped, Widths DEF ElfInv, TypeOK
  <2> HIDE DEF p
  <2> QED  BY <1>3, <2>1, <2>2
<1>6. ASSUME NEW c \in Cells
      PROVE  mem'[c] = IF c \in Dest(p) + n .. Dest(p) + p.memsz - 1 THEN Zero
                       ELSE IF c \in Dest(p) .. Dest(p) + n - 1
                       THEN File(p.off + (c - Dest(p))) ELSE mem[c]
  <2> HIDE DEF p, n
  <2>1. /\ Ahead(Dest(p), c) < n <=> c \in Dest(p) .. Dest(p) + n - 1
        /\ c \in Dest(p) .. Dest(p) + n - 1 => Ahead(Dest(p), c) = c - Dest(p)
    <3>1. Dest(p) + n <= Top  BY <1>3, <1>4, ElfAssumption
    <3> QED  BY <1>3, <1>4, <3>1, AheadIs
  <2>2. Ahead(BssDest(p, n), c) < p.memsz - n <=>
          c \in Dest(p) + n .. Dest(p) + p.memsz - 1
    <3> DEFINE b == BssDest(p, n)
               m == p.memsz - n
    <3>1. /\ m \in Nat /\ b \in Nat /\ b = Dest(p) + n
          /\ b + m = Dest(p) + p.memsz /\ b + m <= Top
      BY <1>3, <1>4
    <3> HIDE DEF b, m
    <3>2. Ahead(b, c) < m <=> c \in b .. b + m - 1  BY <3>1, AheadIs
    <3>3. b .. b + m - 1 = Dest(p) + n .. Dest(p) + p.memsz - 1
      <4>1. b + m - 1 = Dest(p) + p.memsz - 1  BY <1>3, <1>4, <3>1
      <4> QED  BY <3>1, <4>1
    <3> QED  BY <3>2, <3>3 DEF b, m
  <2>3. ASSUME c \in Dest(p) .. Dest(p) + n - 1
        PROVE  (p.off + (c - Dest(p))) % SizeMod = p.off + (c - Dest(p))
    <3> DEFINE x == p.off + (c - Dest(p))
    <3>1. x \in Nat /\ x < SizeMod /\ SizeMod \in Nat
      BY <1>3, <1>4, <1>5, <2>3, Widths DEF Cells
    <3> HIDE DEF x
    <3>2. x % SizeMod = x  BY <3>1, ModOf
    <3> QED  BY <3>2 DEF x
  <2>4. mem' = BssCleared(p, n, Copied(p, n))  BY DEF p, n
  <2>5. Copied(p, n)[c] = IF c \in Dest(p) .. Dest(p) + n - 1
                          THEN File(p.off + (c - Dest(p))) ELSE mem[c]
    BY <2>1, <2>3 DEF Copied
  <2> QED  BY <2>2, <2>4, <2>5 DEF BssCleared
<1>7. ASSUME NEW k \in 1 .. phnum, k <= l, Loadable(img.phdrs[k]),
             NEW a \in MemCells(img.phdrs[k])
      PROVE  At(mem', head, a) = Laid(img, head, img.phdrs[k], a, 0)
  <2> DEFINE c == Base + a - head.addr
  <2>1. c \in Cells /\ a \in Nat
        /\ c = Dest(img.phdrs[k]) + (a - img.phdrs[k].addr)
    BY <1>7, CellOfAddress
  <2>2. CASE k = l
    <3>1. c = Dest(p) + (a - p.addr) /\ a \in MemCells(p)  BY <2>1, <2>2
    <3>2. CASE a \in FileCells(p)
      <4>1. a \in p.addr .. p.addr + n - 1
        <5> HIDE DEF p
        <5> QED  BY <1>3, <3>2 DEF FileCells, FileEnd
      <4>2. c - Dest(p) = a - p.addr /\ c \in Dest(p) .. Dest(p) + n - 1
            /\ c \notin Dest(p) + n .. Dest(p) + p.memsz - 1
        <5> HIDE DEF p, n, c
        <5> QED  BY <1>3, <1>4, <2>1, <3>1, <4>1
      <4>3. mem'[c] = File(p.off + (a - p.addr))
        <5> HIDE DEF p, n, c
        <5> QED  BY <1>6, <2>1, <4>2
      <4>4. Laid(img, head, p, a, 0) = File(p.off + (a - p.addr))
        BY <3>2 DEF Laid
      <4> QED  BY <2>2, <4>3, <4>4 DEF At
    <3>3. CASE a \notin FileCells(p)
      <4>1. a \in p.addr + n .. p.addr + p.memsz - 1
        <5> HIDE DEF p
        <5> QED  BY <1>3, <2>1, <3>1, <3>3 DEF FileCells, FileEnd, MemCells, MemEnd
      <4>2. c \in Dest(p) + n .. Dest(p) + p.memsz - 1
        <5> HIDE DEF p, n, c
        <5> QED  BY <1>3, <1>4, <2>1, <3>1, <4>1
      <4>3. mem'[c] = Zero
        <5> HIDE DEF p, n, c
        <5> QED  BY <1>6, <2>1, <4>2
      <4> QED  BY <2>2, <3>3, <4>3 DEF At, Laid
    <3> QED  BY <3>2, <3>3
  <2>3. CASE k # l
    <3>1. a \notin MemCells(p)  BY <1>1, <1>7, <2>3, OneSegment
    <3>2. c - Dest(p) = a - p.addr
      <4>1. Dest(img.phdrs[k]) = img.phdrs[k].addr + load_info.offset
            /\ Dest(p) = p.addr + load_info.offset
        BY <1>7, <1>4, SegmentInSpace
      <4>2. img.phdrs[k].addr \in Nat /\ load_info.offset \in Int
        BY <1>1, PhdrTyped DEF ElfInv, TypeOK
      <4> HIDE DEF p, c
      <4> QED  BY <1>3, <2>1, <4>1, <4>2
    <3>3. c \notin Dest(p) .. Dest(p) + p.memsz - 1
      <4> HIDE DEF p, n, c
      <4> QED  BY <1>3, <1>4, <2>1, <3>1, <3>2 DEF MemCells, MemEnd
    <3>4. mem'[c] = mem[c]
      <4>1. c \notin Dest(p) + n .. Dest(p) + p.memsz - 1
            /\ c \notin Dest(p) .. Dest(p) + n - 1
        <5> HIDE DEF p, n, c
        <5> QED  BY <1>3, <1>4, <2>1, <3>3 DEF Cells
      <4> HIDE DEF p, n, c
      <4> QED  BY <1>6, <2>1, <4>1
    <3>5. At(mem, head, a) = Laid(img, head, img.phdrs[k], a, 0)
      <4>1. k <= l - 1  BY <1>1, <1>7, <2>3
      <4> QED  BY <1>1, <1>7, <4>1 DEF LaidUpTo
    <3> QED  BY <3>4, <3>5 DEF At
  <2> QED  BY <2>2, <2>3
<1> QED  BY <1>1, <1>7 DEF LaidUpTo

LEMMA LoadSegmentProgress ==
  ASSUME ElfInv, NothingCut(img), LoadSegment, NEW head \in Loads(img),
         HeadSegment(img, head), SegmentsApart(img, head), Progress(head)
  PROVE  Progress(head)'
<1> DEFINE p == img.phdrs[i]
<1>1. /\ pc = "segments" /\ pc \in Loading /\ i \in 1 .. phnum
      /\ UNCHANGED <<img, load_info>> /\ phnum = Len(img.phdrs) /\ phnum \in Nat
  BY ImageTyped, Counted DEF LoadSegment, ElfInv, TypeOK, Loading
<1>2. LaidUpTo(img, mem, head, i - 1, 0)  BY <1>1 DEF Progress
<1>3. ASSUME LaidUpTo(img, mem', head, i, 0), i' = i + 1, pc' = "segments"
      PROVE  Progress(head)'
  <2>1. i' - 1 = i  BY <1>1, <1>3
  <2> QED  BY <1>1, <1>3, <2>1 DEF Progress, Loading
<1>4. CASE ~Loadable(p)
  <2>1. UNCHANGED mem /\ i' = i + 1 /\ pc' = "segments"
    BY <1>1, <1>4 DEF LoadSegment
  <2>2. LaidUpTo(img, mem, head, i, 0)
    <3>1. ASSUME NEW k \in 1 .. Len(img.phdrs), k <= i, Loadable(img.phdrs[k])
          PROVE  k <= i - 1
      BY <1>1, <1>4, <3>1
    <3> QED  BY <1>2, <3>1 DEF LaidUpTo
  <2> QED  BY <1>3, <2>1, <2>2
<1>5. CASE Loadable(p)
  <2>1. NoMoreThanMem(p) = p.filesz
    <3>1. p \in Loads(img)  BY <1>1, <1>5 DEF Loads
    <3>2. p.filesz <= p.memsz /\ p.filesz \in Nat /\ p.memsz \in Nat
      BY <3>1, SegmentTyped, ElfAssumption DEF ElfInv, TypeOK
    <3> HIDE DEF p
    <3> QED  BY <3>2 DEF NoMoreThanMem
  <2>2. CopySegment(p)  BY <1>5 DEF LoadSegment
  <2>3. CASE pc' \in {"failed", "lost"}
    BY <1>1, <2>3, QuietProgress DEF Loading
  <2>4. CASE /\ mem' = BssCleared(p, p.filesz, Copied(p, p.filesz))
             /\ i' = i + 1 /\ pc' = pc
    <3>1. LaidUpTo(img, mem', head, i, 0)
      BY <1>1, <1>2, <1>5, <2>4, SegmentLaid
    <3> QED  BY <1>1, <1>3, <2>4, <3>1
  <2> QED  BY <2>1, <2>2, <2>3, <2>4 DEF CopySegment
<1> QED  BY <1>4, <1>5

-----------------------------------------------------------------------------
(* The headers are in the segment that has them: the k-th cell of the file *)
(* is at its k-th address.                                                 *)
LEMMA HeadersInHead ==
  ASSUME NEW image \in Images, NEW head \in Loads(image),
         HeadSegment(image, head), SegmentsApart(image, head),
         NEW k \in 0 .. image.phoff + Len(image.phdrs) - 1
  PROVE  /\ head.addr + k \in FileCells(head) /\ head.addr + k \in MemCells(head)
         /\ head.off + ((head.addr + k) - head.addr) = k
<1>1. /\ head.addr \in Nat /\ head.filesz \in Nat /\ image.phoff \in Nat
      /\ Len(image.phdrs) \in Nat /\ FileCells(head) \subseteq MemCells(head)
  BY SegmentTyped, ImageTyped, ElfAssumption
<1>2. head.off = 0 /\ image.phoff + Len(image.phdrs) <= head.filesz
  BY DEF HeadSegment
<1>3. k \in 0 .. head.filesz - 1  BY <1>1, <1>2
<1>4. head.addr + k \in FileCells(head)
  BY <1>1, <1>3 DEF FileCells, FileEnd
<1> QED  BY <1>1, <1>2, <1>3, <1>4

(* When the segments are copied, the lowest one is there with the headers. *)
LEMMA HeadersFound ==
  ASSUME ElfInv, NothingCut(img), pc = "segments", i > phnum, NEW head \in Loads(img),
         HeadSegment(img, head), SegmentsApart(img, head), Progress(head)
  PROVE  mem[load_info.start] = File(0) /\ LaidUpTo(img, mem, head, phnum, 0)
<1>1. /\ pc \in Loading /\ i \in Nat
      /\ phnum = Len(img.phdrs) /\ phnum \in Nat /\ img.phoff \in Nat
      /\ img \in Images
  BY ImageTyped, Counted DEF ElfInv, TypeOK, Loading
<1>2. ASSUME NEW k \in 1 .. phnum, Loadable(img.phdrs[k]),
             NEW a \in MemCells(img.phdrs[k])
      PROVE  At(mem, head, a) = Laid(img, head, img.phdrs[k], a, 0)
  <2>1. LaidUpTo(img, mem, head, i - 1, 0)  BY DEF Progress
  <2>2. k <= i - 1  BY <1>1
  <2> QED  BY <1>1, <1>2, <2>1, <2>2 DEF LaidUpTo
<1>3. mem[load_info.start] = File(0)
  <2>1. PICK k \in 1 .. phnum : head = img.phdrs[k] /\ Loadable(head)
    BY LoadsIndexed, Counted DEF ElfInv, TypeOK
  <2>2. 0 \in 0 .. img.phoff + Len(img.phdrs) - 1 /\ 1 <= img.phoff
    BY <1>1 DEF HeadSegment
  <2>3. /\ head.addr + 0 \in FileCells(head) /\ head.addr + 0 \in MemCells(head)
        /\ head.off + ((head.addr + 0) - head.addr) = 0
    BY <1>1, <2>2, HeadersInHead
  <2>4. load_info.start = Base /\ head.addr \in Nat  BY <1>1, HeadIsLowest
  <2>5. head.addr + 0 = head.addr /\ Base + head.addr - head.addr = Base
    BY <2>4, ElfAssumption
  <2>6. At(mem, head, head.addr) = Laid(img, head, head, head.addr, 0)
    BY <1>2, <2>1, <2>3, <2>5
  <2>7. Laid(img, head, head, head.addr, 0) = File(0)
    BY <2>3, <2>5 DEF Laid
  <2> QED  BY <2>4, <2>5, <2>6, <2>7 DEF At
<1>4. LaidUpTo(img, mem, head, phnum, 0)
  BY <1>1, <1>2 DEF LaidUpTo
<1> QED  BY <1>3, <1>4

LEMMA FindHeadersProgress ==
  ASSUME ElfInv, NothingCut(img), FindHeaders, NEW head \in Loads(img),
         HeadSegment(img, head), SegmentsApart(img, head), Progress(head)
  PROVE  Progress(head)'
<1>1. /\ pc = "segments" /\ i > phnum
      /\ UNCHANGED <<img, load_info, mem>> /\ i' = 1 /\ phnum' = phnum
  BY DEF FindHeaders, phnum
<1>2. mem[load_info.start] = File(0) /\ LaidUpTo(img, mem, head, phnum, 0)
  BY <1>1, HeadersFound
<1>3. pc' = "move"
  <2>1. File(0) # Zero  BY DEF File, Zero
  <2> QED  BY <1>2, <2>1 DEF FindHeaders
<1>4. i' - 1 = 0  BY <1>1
<1> QED  BY <1>1, <1>2, <1>3, <1>4 DEF Progress, Loading

(* The header that is looked at is there as it is in the file.             *)
LEMMA HeaderRead ==
  ASSUME ElfInv, NothingCut(img), pc = "move", i <= phnum, NEW head \in Loads(img),
         HeadSegment(img, head), SegmentsApart(img, head), Progress(head)
  PROVE  LET k == img.phoff + i - 1
             c == load_info.start + k
             b == head.addr + k
         IN  /\ k \in Nat /\ b \in FileCells(head) /\ b \in MemCells(head)
             /\ head.off + (b - head.addr) = k
             /\ c = Base + b - head.addr /\ b - head.addr = k
             /\ c \in Cells /\ b \in Nat
             /\ mem[c] = File(k)
<1> DEFINE k == img.phoff + i - 1
           c == load_info.start + k
           b == head.addr + k
<1>1. /\ pc \in Loading /\ i \in 1 .. phnum
      /\ phnum = Len(img.phdrs) /\ phnum \in Nat /\ img.phoff \in Nat
      /\ img \in Images
  BY ImageTyped, Counted DEF ElfInv, TypeOK, Loading
<1>2. LaidUpTo(img, mem, head, phnum, i - 1)  BY <1>1 DEF Progress
<1>3. PICK h \in 1 .. phnum : head = img.phdrs[h] /\ Loadable(head)
  BY LoadsIndexed, Counted DEF ElfInv, TypeOK
<1>4. /\ k \in 0 .. img.phoff + Len(img.phdrs) - 1 /\ k \in Nat
      /\ b \in FileCells(head) /\ b \in MemCells(head)
      /\ head.off + (b - head.addr) = k
  <2>1. k \in 0 .. img.phoff + Len(img.phdrs) - 1 /\ k \in Nat
    BY <1>1 DEF HeadSegment
  <2> QED  BY <1>1, <2>1, HeadersInHead
<1>5. load_info.start = Base /\ head.addr \in Nat /\ Base \in Nat
  BY <1>1, HeadIsLowest, ElfAssumption
<1>6. c = Base + b - head.addr /\ b - head.addr = k /\ c \in Cells /\ b \in Nat
  <2>1. Base + b - head.addr \in Cells  BY <1>1, <1>3, <1>4, CellOfAddress
  <2>2. k \in Nat  BY <1>4
  <2> HIDE DEF k
  <2>3. b - head.addr = k /\ b \in Nat  BY <1>5, <2>2
  <2>4. c = Base + b - head.addr  BY <1>5, <2>2
  <2> HIDE DEF b, c
  <2> QED  BY <2>1, <2>3, <2>4
<1>7. mem[c] = File(k)
  <2>1. At(mem, head, b) = Laid(img, head, head, b, i - 1)
    <3> HIDE DEF b
    <3>1. h <= phnum /\ b \in MemCells(head)  BY <1>1, <1>4
    <3> QED  BY <1>1, <1>2, <1>3, <3>1 DEF LaidUpTo
  <2>2. ASSUME NEW j \in 1 .. Len(img.phdrs), j <= i - 1
        PROVE  b # head.addr + img.phoff + j - 1
    BY <1>1, <1>5, <2>2
  <2>3. Laid(img, head, head, b, i - 1) = File(k)
    <3> HIDE DEF b, k
    <3> QED  BY <1>4, <2>2 DEF Laid
  <2> QED  BY <1>6, <2>1, <2>3 DEF At
<1> QED  BY <1>4, <1>6, <1>7

(* A header that is moved is one more that is, and nothing else changes.   *)
LEMMA MoveHeaderProgress ==
  ASSUME ElfInv, NothingCut(img), MoveHeader, NEW head \in Loads(img),
         HeadSegment(img, head), SegmentsApart(img, head), Progress(head)
  PROVE  Progress(head)'
<1> DEFINE k == img.phoff + i - 1
           c == load_info.start + k
           b == head.addr + k
<1>1. /\ pc = "move" /\ pc \in Loading /\ i \in 1 .. phnum
      /\ UNCHANGED <<img, load_info>>
      /\ phnum = Len(img.phdrs) /\ phnum \in Nat /\ img.phoff \in Nat
      /\ img \in Images /\ mem \in [Cells -> Values]
  BY ImageTyped DEF MoveHeader, ElfInv, TypeOK, phnum, Loading
<1>2. LaidUpTo(img, mem, head, phnum, i - 1)  BY <1>1 DEF Progress
<1>3. PICK h \in 1 .. phnum : head = img.phdrs[h] /\ Loadable(head)
  BY LoadsIndexed, Counted DEF ElfInv, TypeOK
<1>4. /\ k \in Nat /\ b \in FileCells(head) /\ b \in MemCells(head)
      /\ head.off + (b - head.addr) = k
  <2> HIDE DEF k, b
  <2> QED  BY <1>1, HeaderRead DEF k, b
<1>5. load_info.start = Base /\ head.addr \in Nat /\ Base \in Nat
  BY <1>1, HeadIsLowest, ElfAssumption
<1>6. c = Base + b - head.addr /\ b - head.addr = k /\ c \in Cells /\ b \in Nat
  <2> HIDE DEF k, b, c
  <2> QED  BY <1>1, HeaderRead DEF k, b, c
<1>7. mem[c] = File(k)
  <2> HIDE DEF k, c
  <2> QED  BY <1>1, HeaderRead DEF k, c
<1>8. /\ pc' = pc /\ i' = i + 1
      /\ mem' = IF img.phdrs[i].memsz # 0 THEN [mem EXCEPT ![c] = Moved(k)]
                ELSE mem
  BY <1>6, <1>7 DEF MoveHeader, Holds
<1>9. LaidUpTo(img, mem', head, phnum, i)
  <2> SUFFICES ASSUME NEW l \in 1 .. phnum, Loadable(img.phdrs[l]),
                      NEW a \in MemCells(img.phdrs[l])
               PROVE  At(mem', head, a) = Laid(img, head, img.phdrs[l], a, i)
    BY <1>1 DEF LaidUpTo
  <2>1. At(mem, head, a) = Laid(img, head, img.phdrs[l], a, i - 1)
    BY <1>1, <1>2 DEF LaidUpTo
  <2>2. Base + a - head.addr \in Cells /\ a \in Nat
    BY <1>1, CellOfAddress
  <2>3. CASE a = b
    <3>1. l = h  BY <1>1, <1>3, <1>4, <2>3, OneSegment
    <3>2. CASE img.phdrs[i].memsz # 0
      <4>1. At(mem', head, a) = Moved(k)
        BY <1>1, <1>6, <1>8, <2>3, <3>2 DEF At
      <4>2. i <= i /\ i \in 1 .. Len(img.phdrs)
            /\ a = head.addr + img.phoff + i - 1
        BY <1>1, <1>5, <2>3
      <4>3. Laid(img, head, head, a, i) = Moved(a - head.addr)
        BY <1>4, <2>3, <3>2, <4>2 DEF Laid
      <4> QED  BY <1>3, <1>6, <2>3, <3>1, <4>1, <4>3
    <3>3. CASE img.phdrs[i].memsz = 0
      <4>1. At(mem', head, a) = File(k)
        BY <1>6, <1>7, <1>8, <2>3, <3>3 DEF At
      <4>2. ASSUME NEW j \in 1 .. Len(img.phdrs),
                   a = head.addr + img.phoff + j - 1
            PROVE  img.phdrs[j].memsz = 0
        <5>1. j = i  BY <1>1, <1>5, <2>3, <4>2
        <5> QED  BY <3>3, <5>1
      <4>3. Laid(img, head, head, a, i) = File(head.off + (a - head.addr))
        BY <1>4, <2>3, <4>2 DEF Laid
      <4> QED  BY <1>3, <1>4, <2>3, <3>1, <4>1, <4>3
    <3> QED  BY <3>2, <3>3
  <2>4. CASE a # b
    <3>1. Base + a - head.addr # c
      <4> HIDE DEF b, c, k
      <4> QED  BY <1>5, <1>6, <2>2, <2>4
    <3>2. At(mem', head, a) = At(mem, head, a)
      BY <1>1, <1>8, <2>2, <3>1 DEF At
    <3>3. ASSUME NEW j \in 1 .. Len(img.phdrs),
                 a = head.addr + img.phoff + j - 1
          PROVE  (j <= i) <=> (j <= i - 1)
      <4>1. j # i  BY <1>1, <1>5, <2>4, <3>3
      <4> QED  BY <1>1, <4>1
    <3>4. Laid(img, head, img.phdrs[l], a, i)
            = Laid(img, head, img.phdrs[l], a, i - 1)
      BY <3>3 DEF Laid
    <3> QED  BY <2>1, <3>2, <3>4
  <2> QED  BY <2>3, <2>4
<1>10. i' - 1 = i /\ phnum' = phnum  BY <1>1, <1>8 DEF phnum
<1> QED  BY <1>1, <1>8, <1>9, <1>10 DEF Progress, Loading

LEMMA HeadersMovedProgress ==
  ASSUME ElfInv, NothingCut(img), HeadersMoved, NEW head \in Loads(img), Progress(head)
  PROVE  Progress(head)'
<1>1. /\ pc = "move" /\ pc' = "relocate" /\ i > phnum /\ i \in Nat
      /\ UNCHANGED <<img, load_info, phdr_dyn, mem>>
      /\ phnum = Len(img.phdrs) /\ phnum \in Nat
  BY Counted DEF HeadersMoved, Goto, ElfInv, TypeOK
<1>2. LaidUpTo(img, mem, head, phnum, phnum)
  <2>1. LaidUpTo(img, mem, head, phnum, i - 1)  BY <1>1 DEF Progress
  <2>2. ASSUME NEW j \in 1 .. phnum PROVE (j <= i - 1) <=> (j <= phnum)
    BY <1>1
  <2>3. ASSUME NEW k \in 1 .. phnum, NEW a
        PROVE  Laid(img, head, img.phdrs[k], a, phnum)
                 = Laid(img, head, img.phdrs[k], a, i - 1)
    BY <1>1, <2>2 DEF Laid
  <2> QED  BY <1>1, <2>1, <2>3 DEF LaidUpTo
<1>3. phnum' = phnum  BY <1>1 DEF phnum
<1> QED  BY <1>1, <1>2, <1>3 DEF Progress, Loading

-----------------------------------------------------------------------------
(* The relocations.                                                        *)

LEMMA StartRelocationProgress ==
  ASSUME ElfInv, NothingCut(img), StartRelocation, NEW head \in Loads(img), Progress(head)
  PROVE  Progress(head)' /\ Relocated(head)'
<1>1. /\ pc = "relocate" /\ UNCHANGED <<img, load_info, phdr_dyn, mem>>
      /\ phnum = Len(img.phdrs) /\ phnum' = phnum
  <2>1. phnum = Len(img.phdrs)  BY Counted DEF ElfInv, TypeOK
  <2> QED  BY <2>1 DEF StartRelocation, Stop, Goto, phnum
<1>2. LaidUpTo(img, mem, head, phnum, phnum)  BY <1>1 DEF Progress
<1>3. CASE phdr_dyn = 0 /\ Stop("relocate", "loaded")
  BY <1>1, <1>2, <1>3 DEF Stop, Progress, Relocated, Loading
<1>4. CASE Stop("relocate", "failed") \/ Stop("relocate", "lost")
  BY <1>4, QuietProgress DEF Stop, Relocated, Loading
<1>5. CASE phdr_dyn # 0 /\ Goto("relocate", "relas")
  <2>1. i' - 1 = 0 /\ pc' = "relas"  BY <1>5 DEF Goto
  <2>2. Made(img, 0) = {}
    <3>1. img.dyn.rela \in Nat /\ img.dyn.sz \in Nat
      BY ImageTyped DEF ElfInv, TypeOK
    <3>2. \A a \in RelaCells(img) : ~(a < img.dyn.rela + 0)
      BY <3>1 DEF RelaCells
    <3>3. ASSUME NEW r \in Made(img, 0)  PROVE FALSE
      <4>1. \E a \in RelaCells(img) : a < img.dyn.rela + 0  BY <3>3 DEF Made
      <4> QED  BY <3>2, <4>1
    <3> QED  BY <3>3
  <2>3. RelocatedUpTo(img, mem, head, 0)
    <3>1. \A k \in 1 .. Len(img.phdrs) : k <= phnum
      BY <1>1, ImageTyped DEF ElfInv, TypeOK
    <3> QED  BY <1>1, <1>2, <2>2, <3>1, Zenon DEF RelocatedUpTo, LaidUpTo
  <2> QED  BY <1>1, <1>5, <2>1, <2>3 DEF Progress, Relocated, Loading
<1> QED  BY <1>3, <1>4, <1>5 DEF StartRelocation

(* A cell that has a relocation entry is one of the file, at one place.    *)
LEMMA EntryInFile ==
  ASSUME NEW image, ImageOf(image), NEW head, SegmentsApart(image, head),
         NEW a, NEW k, FileCellAt(image, a, k),
         NEW l \in 1 .. Len(image.phdrs), Loadable(image.phdrs[l]),
         a \in MemCells(image.phdrs[l])
  PROVE  /\ a \in FileCells(image.phdrs[l])
         /\ k = image.phdrs[l].off + (a - image.phdrs[l].addr)
<1>1. PICK s \in Loads(image) : a \in FileCells(s) /\ k = s.off + (a - s.addr)
  BY DEF FileCellAt
<1>2. PICK m \in 1 .. Len(image.phdrs) : s = image.phdrs[m] /\ Loadable(s)
  BY LoadsIndexed
<1>3. a \in MemCells(s)  BY <1>1, SegmentTyped
<1>4. m = l  BY <1>2, <1>3, OneSegment
<1> QED  BY <1>1, <1>2, <1>4

(* An address has one relocation at most, and an entry and a header none.  *)
LEMMA MadeRelocates ==
  ASSUME NEW image, NEW n, NEW r \in Made(image, n)
  PROVE  Relocates(image, r) /\ \E k \in DOMAIN image.relas : r = image.relas[k]
BY DEF Made, Relocates

LEMMA OneRelocation ==
  ASSUME NEW image, NEW head, RelocationsIn(image, head),
         NEW r, NEW t, Relocates(image, r), Relocates(image, t)
  PROVE  /\ r.type # "unsupported"
         /\ r.target \notin RelaCells(image)
         /\ r.target = t.target => r = t
<1>1. /\ \E k \in DOMAIN image.relas : r = image.relas[k]
      /\ \E k \in DOMAIN image.relas : t = image.relas[k]
  BY DEF Relocates
<1> QED  BY <1>1 DEF RelocationsIn

(* The entry that is read is the file's, unless it has been changed.       *)
LEMMA EntryRead ==
  ASSUME ElfInv, NothingCut(img), NEW head, SegmentsApart(img, head),
         head.addr = 0, NEW a, NEW k \in DOMAIN img.relas, FileCellAt(img, a, k),
         \A l \in 1 .. phnum : Loadable(img.phdrs[l]) /\ a \in MemCells(img.phdrs[l])
           => At(mem, head, a) = Laid(img, head, img.phdrs[l], a, phnum),
         NEW entry \in RelaAt(Base + a)
  PROVE  entry = img.relas[k]
<1> DEFINE c == Base + a
<1>1. img \in Images /\ phnum = Len(img.phdrs) /\ ImageOf(img)
  BY Counted, ElfAssumption DEF ElfInv, TypeOK
<1>2. PICK s \in Loads(img) : a \in FileCells(s)  BY DEF FileCellAt
<1>3. PICK l \in 1 .. phnum : s = img.phdrs[l] /\ Loadable(s)
  BY <1>1, LoadsIndexed
<1>4. a \in MemCells(s) /\ a \in Nat  BY <1>1, <1>2, SegmentTyped
<1>5. k = s.off + (a - s.addr)
  BY <1>1, <1>3, <1>4, EntryInFile
<1>6. Base + a - head.addr = c  BY <1>4, ElfAssumption
<1>7. At(mem, head, a) = Laid(img, head, s, a, phnum)
  BY <1>3, <1>4
<1>8. mem[c] \in {Moved(a - head.addr), File(k)}
  BY <1>2, <1>5, <1>6, <1>7 DEF At, Laid
<1>9. mem[c] # Zero
  BY <1>8 DEF Moved, File, Zero
<1>10. ~Holds(c, Zero)  BY <1>9 DEF Holds
<1>11. PICK j \in DOMAIN img.relas : Holds(c, File(j))
  BY <1>10 DEF RelaAt
<1>12. mem[c] = File(j) /\ mem[c][2] = j  BY <1>11 DEF Holds, File
<1>13. entry = img.relas[mem[c][2]]  BY <1>10, <1>11 DEF RelaAt
<1>14. j = k  BY <1>8, <1>12 DEF Moved, File
<1> QED  BY <1>12, <1>13, <1>14

(* An entry is one relocation more, if it is any.                          *)
LEMMA MadeNext ==
  ASSUME NEW image, ImageOf(image), NEW head, SegmentsApart(image, head),
         NEW n \in Nat, image.dyn.rela + n \in RelaCells(image),
         NEW k \in DOMAIN image.relas, FileCellAt(image, image.dyn.rela + n, k)
  PROVE  Made(image, n + 1) =
           Made(image, n) \union (IF image.relas[k].type = "none" THEN {}
                                  ELSE {image.relas[k]})
<1> DEFINE a == image.dyn.rela + n
<1>1. image.dyn.rela \in Nat /\ image.dyn.sz \in Nat
  <2>1. Fields(AddrModOf(image)) \subseteq Nat  BY Widths DEF Fields
  <2> QED  BY <2>1 DEF ImageOf, DynOf
<1>2. ASSUME NEW b \in RelaCells(image)
      PROVE  b < image.dyn.rela + (n + 1) <=> (b < image.dyn.rela + n \/ b = a)
  BY <1>1 DEF RelaCells
<1>3. ASSUME NEW j, FileCellAt(image, a, j)  PROVE j = k
  <2>1. PICK s \in Loads(image) : a \in FileCells(s)
    BY DEF FileCellAt
  <2>2. PICK l \in 1 .. Len(image.phdrs) : s = image.phdrs[l] /\ Loadable(s)
    BY LoadsIndexed
  <2>3. a \in MemCells(image.phdrs[l])  BY <2>1, <2>2, SegmentTyped
  <2> QED  BY <1>3, <2>2, <2>3, EntryInFile
<1>4. a \in RelaCells(image) /\ FileCellAt(image, a, k)  OBVIOUS
<1> HIDE DEF a
<1> QED  BY <1>2, <1>3, <1>4 DEF Made

(* Where an entry of a linked image is read, and what it changes.          *)
LEMMA EntryPlace ==
  ASSUME ElfInv, NothingCut(img), pc \in Loading, NEW head \in Loads(img),
         HeadSegment(img, head), SegmentsApart(img, head), Progress(head),
         head.addr = 0, NEW at \in Nat, NEW k, FileCellAt(img, at + i - 1, k)
  PROVE  RelaPlace(at) = Base + (at + i - 1) /\ Base + (at + i - 1) \in Cells
<1> DEFINE e == at + i - 1
<1>1. i \in Nat \ {0} /\ img \in Images /\ ImageOf(img) /\ e \in Nat
  BY ElfAssumption DEF ElfInv, TypeOK
<1>2. PICK s \in Loads(img) : e \in FileCells(s)  BY DEF FileCellAt
<1>3. PICK l \in 1 .. phnum : s = img.phdrs[l] /\ Loadable(s)
  BY LoadsIndexed, Counted DEF ElfInv, TypeOK
<1>4. e \in MemCells(s)  BY <1>1, <1>2, SegmentTyped
<1>5. Base + e - head.addr \in Cells  BY <1>3, <1>4, CellOfAddress
<1>6. load_info.start = Base /\ Base \in Nat  BY HeadIsLowest, ElfAssumption
<1>7. load_info.start + at + i - 1 = Base + e  BY <1>1, <1>6
<1> HIDE DEF e
<1>8. Base + e \in Cells  BY <1>1, <1>5, <1>6
<1>9. Base + e \in Nat /\ Base + e < SizeMod /\ SizeMod \in Nat
  BY <1>1, <1>6, <1>8, Widths, ElfAssumption DEF Cells
<1> QED  BY <1>7, <1>8, <1>9, ModOf DEF RelaPlace, e

LEMMA TargetPlace ==
  ASSUME ElfInv, NothingCut(img), pc \in Loading, NEW head \in Loads(img),
         HeadSegment(img, head), SegmentsApart(img, head), Progress(head),
         head.addr = 0, NEW r, NEW s \in Loads(img), r.target \in MemCells(s)
  PROVE  TargetOf(r) = Base + r.target /\ TargetOf(r) \in Cells
<1>1. PICK l \in 1 .. phnum : s = img.phdrs[l] /\ Loadable(s)
  BY LoadsIndexed, Counted DEF ElfInv, TypeOK
<1>2. /\ r.target \in Nat /\ Base + r.target - head.addr \in Cells
      /\ Base + r.target - head.addr < Base + Space
  BY <1>1, CellOfAddress
<1>3. load_info.offset = Base - head.addr  BY HeadIsLowest
<1>4. AddrMod \in Nat /\ Base + Space <= AddrMod
  BY Widths DEF NothingCut, AddrMod
<1>5. /\ r.target + load_info.offset = Base + r.target
      /\ Base + r.target \in Cells
      /\ Base + r.target \in Nat /\ Base + r.target < AddrMod
  BY <1>2, <1>3, <1>4, ElfAssumption
<1> QED  BY <1>4, <1>5, ModOf DEF TargetOf

(* A relocation changes its target and no other address, so neither those  *)
(* that are made nor the entries to come.                                  *)
LEMMA ApplyRelaProgress ==
  ASSUME ElfInv, NothingCut(img), ApplyRela, NEW head \in Loads(img),
         HeadSegment(img, head), SegmentsApart(img, head), Progress(head),
         Relocated(head)
  PROVE  Progress(head)' /\ Relocated(head)'
<1> DEFINE e == img.dyn.rela + i - 1
<1>1. /\ pc = "relas" /\ pc \in Loading /\ i \in Nat \ {0} /\ i <= img.dyn.sz
      /\ UNCHANGED <<img, load_info, phdr_dyn>>
      /\ phnum = Len(img.phdrs) /\ phnum' = phnum
      /\ img \in Images /\ img.dyn.rela \in Nat /\ mem \in [Cells -> Values]
      /\ phdr_dyn # 0
  BY ImageTyped DEF ApplyRela, ElfInv, TypeOK, phnum, Loading, Progress
<1>2. CASE pc' \in {"failed", "lost"}
  BY <1>1, <1>2, QuietProgress DEF Loading, Relocated
<1>3. ASSUME pc' = pc, i' = i + 1,
             RelocationsIn(img, head) => RelocatedUpTo(img, mem', head, i)
      PROVE  Progress(head)' /\ Relocated(head)'
  <2>1. i' - 1 = i  BY <1>1, <1>3
  <2> QED  BY <1>1, <1>3, <2>1 DEF Progress, Relocated, Loading
<1>4. RelocationsIn(img, head) => RelocatedUpTo(img, mem, head, i - 1)
  BY <1>1 DEF Relocated
<1>5. ASSUME NEW rela \in RelaAt(RelaPlace(img.dyn.rela)),
             RelocationsIn(img, head)
      PROVE  /\ Made(img, i) = Made(img, i - 1) \union
                  (IF rela.type = "none" THEN {} ELSE {rela})
             /\ rela.type # "none" => rela \in Made(img, i)
             /\ rela.target \in Nat
  <2>1. e \in RelaCells(img) /\ e \in Nat
    BY <1>1, ImageTyped DEF RelaCells
  <2>2. PICK k \in DOMAIN img.relas : FileCellAt(img, e, k)
    BY <1>5, <2>1 DEF RelocationsIn
  <2>3. \A r \in Made(img, i - 1) : r.target # e
    BY <1>5, <2>1, MadeRelocates, OneRelocation
  <2>4. ASSUME NEW l \in 1 .. phnum, Loadable(img.phdrs[l]),
               e \in MemCells(img.phdrs[l])
        PROVE  At(mem, head, e) = Laid(img, head, img.phdrs[l], e, phnum)
    BY <1>1, <1>5, <1>4, <2>3, <2>4 DEF RelocatedUpTo
  <2>5. head.addr = 0 /\ RelaPlace(img.dyn.rela) = Base + e
    <3>1. head.addr = 0  BY <1>5 DEF RelocationsIn
    <3> QED  BY <1>1, <2>2, <3>1, EntryPlace
  <2>6. rela \in RelaAt(Base + e)  BY <1>5, <2>5
  <2>7. FileCellAt(img, e, k) /\ rela = img.relas[k]
    <3> HIDE DEF e
    <3> QED  BY <1>1, <2>2, <2>4, <2>5, <2>6, EntryRead
  <2>8. /\ i - 1 \in Nat /\ (i - 1) + 1 = i /\ img.dyn.rela + (i - 1) = e
    BY <1>1
  <2>9. Made(img, i) = Made(img, i - 1) \union
                         (IF rela.type = "none" THEN {} ELSE {rela})
    <3> DEFINE m == i - 1
    <3>1. m \in Nat /\ m + 1 = i /\ img.dyn.rela + m \in RelaCells(img)
          /\ FileCellAt(img, img.dyn.rela + m, k)
      BY <2>7, <2>1, <2>8
    <3> HIDE DEF m
    <3>2. Made(img, m + 1) = Made(img, m) \union
                              (IF rela.type = "none" THEN {} ELSE {rela})
      BY <1>1, <2>7, <3>1, MadeNext, ElfAssumption
    <3> QED  BY <3>1, <3>2 DEF m
  <2> QED  BY <1>1, <2>7, <2>9, ImageTyped
<1>6. ASSUME NEW rela \in RelaAt(RelaPlace(img.dyn.rela)),
             rela.type = "none", UNCHANGED mem, RelocationsIn(img, head)
      PROVE  RelocatedUpTo(img, mem', head, i)
  <2>1. Made(img, i) = Made(img, i - 1)  BY <1>5, <1>6
  <2> QED  BY <1>4, <1>6, <2>1 DEF RelocatedUpTo
<1>7. ASSUME NEW rela \in RelaAt(RelaPlace(img.dyn.rela)),
             rela.type # "none", TargetOf(rela) \in Cells,
             mem' = [mem EXCEPT ![TargetOf(rela)] = ValueOf(rela)],
             RelocationsIn(img, head)
      PROVE  RelocatedUpTo(img, mem', head, i)
  <2>1. Made(img, i) = Made(img, i - 1) \union {rela} /\ rela.target \in Nat
        /\ Relocates(img, rela)
    BY <1>5, <1>7, MadeRelocates
  <2>2. head.addr = 0 /\ Base \in Nat /\ TargetOf(rela) = Base + rela.target
    <3>1. head.addr = 0 /\ \E t \in Loads(img) : rela.target \in MemCells(t)
      BY <1>7, <2>1, MadeRelocates DEF RelocationsIn
    <3> QED  BY <1>1, <3>1, TargetPlace, ElfAssumption
  <2> SUFFICES ASSUME NEW k \in 1 .. phnum, Loadable(img.phdrs[k]),
                      NEW a \in MemCells(img.phdrs[k])
               PROVE  /\ \A r \in Made(img, i) : r.target = a =>
                           At(mem', head, a) = ValueOf(r)
                      /\ (\A r \in Made(img, i) : r.target # a) =>
                           At(mem', head, a) = Laid(img, head, img.phdrs[k], a, phnum)
    BY <1>1 DEF RelocatedUpTo
  <2>3. /\ \A r \in Made(img, i - 1) : r.target = a =>
              At(mem, head, a) = ValueOf(r)
        /\ (\A r \in Made(img, i - 1) : r.target # a) =>
              At(mem, head, a) = Laid(img, head, img.phdrs[k], a, phnum)
    BY <1>1, <1>4, <1>7 DEF RelocatedUpTo
  <2>4. Base + a - head.addr \in Cells /\ a \in Nat
    BY <1>1, CellOfAddress
  <2>5. CASE rela.target = a
    <3>1. TargetOf(rela) = Base + a - head.addr  BY <2>2, <2>4, <2>5
    <3>2. At(mem', head, a) = ValueOf(rela)
      BY <1>1, <1>7, <2>4, <3>1 DEF At
    <3>3. \A r \in Made(img, i) : r.target = a => r = rela
      BY <1>7, <2>1, <2>5, MadeRelocates, OneRelocation
    <3>4. rela \in Made(img, i)  BY <2>1
    <3> QED  BY <2>5, <3>2, <3>3, <3>4
  <2>6. CASE rela.target # a
    <3>1. TargetOf(rela) # Base + a - head.addr
      BY <2>1, <2>2, <2>4, <2>6
    <3>2. At(mem', head, a) = At(mem, head, a)
      BY <1>1, <1>7, <2>4, <3>1 DEF At
    <3> QED  BY <2>1, <2>3, <2>6, <3>2
  <2> QED  BY <2>5, <2>6
<1>8. CASE pc' = pc
  BY <1>1, <1>3, <1>6, <1>7, <1>8 DEF ApplyRela
<1> QED  BY <1>1, <1>2, <1>8 DEF ApplyRela

LEMMA RelocationDoneProgress ==
  ASSUME ElfInv, RelocationDone, NEW head \in Loads(img), Progress(head),
         Relocated(head)
  PROVE  Progress(head)' /\ Relocated(head)'
<1>1. /\ pc = "relas" /\ pc' = "loaded" /\ i > img.dyn.sz /\ i \in Nat
      /\ UNCHANGED <<img, load_info, phdr_dyn, mem>> /\ phdr_dyn # 0
      /\ img.dyn.rela \in Nat /\ img.dyn.sz \in Nat
  BY ImageTyped DEF RelocationDone, Stop, ElfInv, TypeOK, Progress
<1>2. Made(img, i - 1) = Made(img, img.dyn.sz)
  <2>1. ASSUME NEW a \in RelaCells(img)
        PROVE  (a < img.dyn.rela + (i - 1)) <=> (a < img.dyn.rela + img.dyn.sz)
    BY <1>1 DEF RelaCells
  <2> QED  BY <2>1 DEF Made
<1>3. RelocationsIn(img, head) => RelocatedUpTo(img, mem, head, img.dyn.sz)
  BY <1>1, <1>2 DEF Relocated, RelocatedUpTo
<1> QED  BY <1>1, <1>3 DEF Progress, Relocated, Loading

-----------------------------------------------------------------------------
LEMMA DynNext == ASSUME ElfInv, DynInv, Next PROVE DynInv'
<1>1. img' = img /\ phnum' = phnum
  BY DEF Next, GetLoadInfo, ScanSegment, CheckInfo, StartLoad, LoadSegment,
         FindHeaders, MoveHeader, HeadersMoved, StartRelocation, ApplyRela,
         RelocationDone, Stop, Goto, phnum
<1>2. /\ i \in Nat \ {0} /\ phnum \in Nat
  BY ImageTyped, Counted DEF ElfInv, TypeOK
<1>3. CASE GetLoadInfo \/ ScanSegment \/ CheckInfo
  BY <1>1, <1>3 DEF GetLoadInfo, ScanSegment, CheckInfo, Stop, Goto, DynInv, Loading
<1>4. CASE StartLoad
  <2>1. phdr_dyn' = phdr_dyn /\ (pc' \notin Loading \/ (pc' = "segments" /\ i' = 1))
    BY <1>4 DEF StartLoad, Stop, Goto, Loading
  <2> QED  BY <1>1, <1>2, <2>1 DEF DynInv
<1>5. CASE LoadSegment
  <2>1. /\ phdr_dyn' = IF img.phdrs[i].type = "dynamic" THEN i ELSE phdr_dyn
        /\ pc = "segments" /\ pc \in Loading /\ i \in 1 .. phnum
        /\ pc' \notin Loading \/ (pc' = "segments" /\ i' = i + 1)
    BY <1>2, <1>5 DEF LoadSegment, CopySegment, Loading
  <2>2. phdr_dyn' # 0 => img.phdrs[phdr_dyn'].type = "dynamic"
    BY <2>1 DEF DynInv
  <2>3. ASSUME pc' \in Loading, phdr_dyn' = 0, NEW k \in 1 .. phnum, k < i + 1
        PROVE  img.phdrs[k].type # "dynamic"
    <3>1. img.phdrs[i].type # "dynamic" /\ phdr_dyn = 0  BY <1>2, <2>1, <2>3
    <3>2. k < i => img.phdrs[k].type # "dynamic"  BY <2>1, <3>1 DEF DynInv
    <3> QED  BY <1>2, <2>3, <3>1, <3>2
  <2> QED  BY <1>1, <2>1, <2>2, <2>3 DEF DynInv
<1>6. CASE FindHeaders
  <2>1. pc = "segments" /\ i > phnum /\ phdr_dyn' = phdr_dyn /\ pc \in Loading
    BY <1>6 DEF FindHeaders, Loading
  <2>2. \A k \in 1 .. phnum : k < i  BY <1>2, <2>1
  <2> QED  BY <1>1, <2>1, <2>2 DEF DynInv
<1>7. CASE \/ MoveHeader \/ HeadersMoved \/ StartRelocation \/ ApplyRela
           \/ RelocationDone
  <2>1. pc \in Loading /\ pc # "segments" /\ phdr_dyn' = phdr_dyn
    BY <1>7 DEF MoveHeader, HeadersMoved, StartRelocation, ApplyRela,
                RelocationDone, Stop, Goto, Loading
  <2> QED  BY <1>1, <2>1 DEF DynInv
<1> QED  BY <1>3, <1>4, <1>5, <1>6, <1>7 DEF Next

(* Before the relocation there is nothing to say of it.                    *)
LEMMA NotRelocated ==
  ASSUME NEW head, pc' \notin {"relas", "loaded"}  PROVE Relocated(head)'
BY DEF Relocated

LEMMA ProgressNext ==
  ASSUME ElfInv, NothingCut(img), Next, NEW head \in Loads(img), HeadSegment(img, head),
         SegmentsApart(img, head), Progress(head), Relocated(head)
  PROVE  Progress(head)' /\ Relocated(head)'
<1>1. CASE GetLoadInfo \/ CheckInfo
  BY <1>1, QuietProgress, NotRelocated
     DEF GetLoadInfo, CheckInfo, Stop, Goto, Loading
<1>2. CASE ScanSegment
  BY <1>2, ScanProgress, NotRelocated DEF ScanSegment
<1>3. CASE StartLoad
  BY <1>3, StartLoadProgress, NotRelocated DEF StartLoad, Stop, Goto
<1>4. CASE LoadSegment
  <2>1. pc' \in {"segments", "failed", "lost"}
    BY <1>4 DEF LoadSegment, CopySegment
  <2> QED  BY <1>4, <2>1, LoadSegmentProgress, NotRelocated
<1>5. CASE FindHeaders
  <2>1. pc' \in {"move", "relocate", "lost"}  BY <1>5 DEF FindHeaders
  <2> QED  BY <1>5, <2>1, FindHeadersProgress, NotRelocated
<1>6. CASE MoveHeader
  BY <1>6, MoveHeaderProgress, NotRelocated DEF MoveHeader
<1>7. CASE HeadersMoved
  BY <1>7, HeadersMovedProgress, NotRelocated DEF HeadersMoved, Goto
<1>8. CASE StartRelocation  BY <1>8, StartRelocationProgress
<1>9. CASE ApplyRela        BY <1>9, ApplyRelaProgress
<1>10. CASE RelocationDone  BY <1>10, RelocationDoneProgress
<1> QED  BY <1>1, <1>2, <1>3, <1>4, <1>5, <1>6, <1>7, <1>8, <1>9, <1>10 DEF Next

LEMMA ProgressInit == Init => ProgressInv
<1> SUFFICES ASSUME Init PROVE ProgressInv  OBVIOUS
<1>1. DynInv  BY DEF Init, DynInv, Loading
<1>2. ASSUME NEW head \in Loads(img)  PROVE Progress(head) /\ Relocated(head)
  <2>1. PICK k \in 1 .. Len(img.phdrs) : head = img.phdrs[k]
    BY LoadsIndexed
  <2>2. head.addr \in 0 .. SizeMod - 1  BY <2>1, PhdrTyped DEF Init
  <2>3. head.addr <= Infinity  BY <2>2, ElfAssumption DEF Infinity
  <2> QED  BY <2>3 DEF Init, Progress, Relocated, Loading
<1> QED  BY <1>1, <1>2 DEF ProgressInv

LEMMA ProgressStep == ASSUME ElfInv, ProgressInv, [Next]_vars PROVE ProgressInv'
<1>1. CASE Next
  <2>1. img' = img
    BY <1>1 DEF Next, GetLoadInfo, ScanSegment, CheckInfo, StartLoad, LoadSegment,
           FindHeaders, MoveHeader, HeadersMoved, StartRelocation, ApplyRela,
           RelocationDone, Stop, Goto
  <2> QED  BY <1>1, <2>1, DynNext, ProgressNext DEF ProgressInv
<1>2. CASE UNCHANGED vars
  BY <1>2 DEF vars, ProgressInv, DynInv, Progress, Relocated, phnum
<1> QED  BY <1>1, <1>2

(* What is known of a loaded image is what is expected of it.              *)
LEMMA ProgressEnds == ElfInv /\ ProgressInv => LoadedRight
<1> SUFFICES ASSUME ElfInv, ProgressInv, pc = "loaded", Linked(img)
             PROVE  \E head \in Loads(img) :
                      /\ HeadSegment(img, head)
                      /\ load_info.entry = (Base + img.entry - head.addr) % SizeMod
                      /\ \A s \in Loads(img) : \A a \in MemCells(s) :
                           mem[Base + a - head.addr] \in Expected(img, head, s, a)
  BY DEF LoadedRight
<1>1. PICK head \in Loads(img) :
        /\ HeadSegment(img, head) /\ SegmentsApart(img, head)
        /\ Dynamic(img) => RelocationsIn(img, head)
  BY DEF Linked, Dynamic
<1>2. NothingCut(img) /\ phnum = Len(img.phdrs)
  BY Counted DEF Linked, ElfInv, TypeOK
<1>3. Progress(head) /\ Relocated(head) /\ pc \in Loading
  BY <1>1, <1>2 DEF ProgressInv, Loading
<1>4. load_info.entry = (Base + img.entry - head.addr) % SizeMod
  BY <1>1, <1>3, <1>2, HeadIsLowest
<1>5. phdr_dyn # 0 <=> Dynamic(img)
  BY <1>3, <1>2 DEF ProgressInv, DynInv, Dynamic, ElfInv, TypeOK
<1>6. ASSUME NEW s \in Loads(img), NEW a \in MemCells(s)
      PROVE  At(mem, head, a) \in Expected(img, head, s, a)
  <2>1. PICK k \in 1 .. phnum : s = img.phdrs[k] /\ Loadable(s)
    BY <1>2, LoadsIndexed
  <2>2. CASE ~Dynamic(img)
    <3>1. LaidUpTo(img, mem, head, phnum, phnum)
      BY <1>3, <1>5, <2>2 DEF Progress
    <3>2. k <= phnum /\ phnum = Len(img.phdrs)
      BY <1>2, Counted DEF ElfInv, TypeOK
    <3>3. At(mem, head, a) = Laid(img, head, s, a, phnum)
      BY <1>6, <2>1, <3>1, <3>2 DEF LaidUpTo
    <3> QED  BY <2>2, <3>2, <3>3 DEF Expected
  <2>3. CASE Dynamic(img)
    <3>1. RelocatedUpTo(img, mem, head, img.dyn.sz)
      BY <1>1, <1>3, <1>5, <2>3 DEF Relocated
    <3>2. phnum = Len(img.phdrs)  BY <1>2
    <3>3. /\ \A r \in Made(img, img.dyn.sz) : r.target = a =>
                At(mem, head, a) = ValueOf(r)
          /\ (\A r \in Made(img, img.dyn.sz) : r.target # a) =>
                At(mem, head, a) = Laid(img, head, s, a, phnum)
      BY <1>6, <2>1, <3>1, <3>2 DEF RelocatedUpTo
    <3>4. ASSUME NEW r \in {img.relas[j] : j \in DOMAIN img.relas}
          PROVE  r \in Made(img, img.dyn.sz) <=> Relocates(img, r)
      <4>1. img.dyn.rela \in Nat /\ img.dyn.sz \in Nat
        BY ImageTyped DEF ElfInv, TypeOK
      <4>2. \A b \in RelaCells(img) : b < img.dyn.rela + img.dyn.sz
        BY <4>1 DEF RelaCells
      <4> QED  BY <3>4, <4>2 DEF Made, Relocates
    <3>5. CASE \E r \in {img.relas[j] : j \in DOMAIN img.relas} :
                 Relocates(img, r) /\ r.target = a
      BY <2>3, <3>3, <3>4, <3>5 DEF Expected
    <3>6. CASE ~ \E r \in {img.relas[j] : j \in DOMAIN img.relas} :
                   Relocates(img, r) /\ r.target = a
      <4>1. \A r \in Made(img, img.dyn.sz) : r.target # a
        BY <3>4, <3>6 DEF Made
      <4> QED  BY <3>2, <3>3, <3>6, <4>1 DEF Expected
    <3> QED  BY <3>5, <3>6
  <2> QED  BY <2>2, <2>3
<1> QED  BY <1>1, <1>4, <1>6 DEF At

THEOREM ProgressInductive == Spec => []ProgressInv
<1>1. Init => ProgressInv  BY ProgressInit
<1>2. ElfInv /\ ProgressInv /\ [Next]_vars => ProgressInv'  BY ProgressStep
<1> QED  BY <1>1, <1>2, ElfInductive, PTL DEF Spec

(* load_image returns TRUE only when each address of a linked image, at    *)
(* its distance from where the image was to be, has what the file says.    *)
THEOREM ImageLoadedRight == Spec => []LoadedRight
<1> QED  BY ProgressEnds, ElfInductive, ProgressInductive, PTL
-----------------------------------------------------------------------------
(* When all is seen, the image is from the head to the end of a segment,   *)
(* and what a segment has in the file lies within that size in the file.   *)
LEMMA WholeSpan ==
  ASSUME ElfInv, NothingCut(img),
         pc \in Loading \union {"load"} \/ (pc = "scan" /\ i > phnum),
         NEW head \in Loads(img), HeadSegment(img, head), SegmentsApart(img, head)
  PROVE  /\ load_info.low = head.addr /\ load_info.low # Infinity
         /\ load_size \in 0 .. SizeMod - 1
         /\ load_size = load_info.max - load_info.low
         /\ \E t \in Loads(img) : load_info.max = MemEnd(t)
         /\ \A s \in Loads(img) : /\ s.off + s.filesz <= load_size
                                  /\ s.memsz # 0 /\ s.memsz <= load_size
<1>1. /\ img \in Images /\ ImageOf(img) /\ phnum = Len(img.phdrs) /\ phnum \in Nat
      /\ load_info.low \in Nat /\ load_info.max \in Nat /\ i \in Nat
      /\ SizeMod \in Nat
  BY ElfAssumption, Counted DEF ElfInv, TypeOK, Infinity
<1>2. ASSUME NEW s \in Loads(img)
      PROVE  /\ {s.addr, s.memsz, s.off, s.filesz} \subseteq Nat
             /\ s.filesz <= s.memsz /\ head.addr <= s.addr /\ s.memsz # 0
             /\ load_info.low <= s.addr /\ s.addr + s.memsz <= load_info.max
             /\ s.off <= s.addr - head.addr /\ s.addr < Infinity
  <2>1. PICK k \in 1 .. phnum : s = img.phdrs[k] /\ Loadable(s)
    BY <1>1, LoadsIndexed
  <2>2. /\ {s.addr, s.memsz, s.off, s.filesz} \subseteq Nat
        /\ s.filesz <= s.memsz /\ head.addr <= s.addr
    BY <1>1, SegmentTyped
  <2>3. /\ load_info.low <= s.addr /\ MemEnd(s) <= load_info.max
    <3>1. pc = "scan" => k < i  BY <1>1 DEF Loading
    <3> QED  BY <2>1, <3>1 DEF ElfInv, Scanned, Loading
  <2>4. s.memsz # 0  BY <2>1 DEF Loadable
  <2>5. s.addr + s.memsz < SizeMod  BY <1>1, NotCut DEF MemEnd
  <2>6. s.off <= s.addr - head.addr  BY DEF SegmentsApart
  <2>7. s.addr < Infinity  BY <1>1, <2>2, <2>4, <2>5 DEF Infinity
  <2> QED  BY <2>2, <2>3, <2>4, <2>6, <2>7 DEF MemEnd
<1>3. load_info.low = head.addr /\ load_info.low # Infinity
  <2>1. load_info.low <= head.addr /\ head.addr \in Nat /\ head.addr < Infinity
    BY <1>2
  <2>2. load_info.low # Infinity /\ Infinity \in Int
    BY <1>1, <2>1 DEF Infinity
  <2>3. PICK s \in Loads(img) : load_info.low = s.addr
    BY <2>2 DEF ElfInv, Spanned
  <2>4. head.addr <= load_info.low  BY <1>2, <2>3
  <2> QED  BY <1>1, <2>1, <2>2, <2>4
<1>4. load_size = load_info.max - load_info.low
  BY <1>3, SizeKept DEF ElfInv
<1>5. load_size \in 0 .. SizeMod - 1
  <2>1. load_info.max - load_info.low \in Int  BY <1>1
  <2>2. InfoMod \in Nat \ {0} /\ InfoMod <= SizeMod  BY ElfAssumption
  <2>3. load_size \in 0 .. InfoMod - 1  BY <2>1, <2>2, ModIn DEF load_size
  <2> QED  BY <1>1, <2>2, <2>3
<1>6. ASSUME NEW s \in Loads(img)
      PROVE  /\ s.off + s.filesz <= load_size /\ s.memsz <= load_size
  <2>1. /\ {s.addr, s.memsz, s.off, s.filesz} \subseteq Nat
        /\ s.filesz <= s.memsz /\ load_info.low <= s.addr
        /\ s.addr + s.memsz <= load_info.max
        /\ s.off <= s.addr - load_info.low
    BY <1>2, <1>3
  <2>2. load_info.max \in Nat /\ load_info.low \in Nat  BY <1>1
  <2> HIDE DEF load_size
  <2>3. s.off + s.filesz <= load_info.max - load_info.low
    BY <2>1, <2>2
  <2>4. s.memsz <= load_info.max - load_info.low  BY <2>1, <2>2
  <2> QED  BY <1>4, <2>3, <2>4
<1>7. \E t \in Loads(img) : load_info.max = MemEnd(t)
  <2>1. load_info.max # 0
    <3>1. /\ head.addr \in Nat /\ head.memsz \in Nat /\ head.memsz # 0
          /\ head.addr + head.memsz <= load_info.max
      BY <1>2
    <3> QED  BY <1>1, <3>1
  <2> QED  BY <2>1 DEF ElfInv, Spanned
<1> QED  BY <1>2, <1>3, <1>6, <1>7, <1>4, <1>5

(* A read within the size is not cut.                                      *)
LEMMA WholeRead ==
  ASSUME NEW off \in Nat, NEW n \in Nat, NEW size \in 0 .. SizeMod - 1,
         off + n <= size
  PROVE  Clamped(off, n, size) = n /\ ~Wraps(off, n)
<1>1. off + n \in Nat /\ off + n < SizeMod /\ SizeMod \in Nat  BY Widths
<1>2. (off + n) % SizeMod = off + n  BY <1>1, ModOf
<1> QED  BY <1>1, <1>2 DEF Clamped, Wraps

(* The header and the table of program headers are in the file, and in the *)
(* image, when they are in the segment that they begin.                    *)
LEMMA HeadersWhole ==
  ASSUME ElfInv, NothingCut(img), NEW head \in Loads(img), HeadSegment(img, head),
         SegmentsApart(img, head), NEW size \in 0 .. SizeMod - 1,
         head.off + head.filesz <= size
  PROVE  HeadersMap(size) /\ ~HeadersWrap
<1>1. /\ img \in Images /\ ImageOf(img) /\ phnum = Len(img.phdrs) /\ phnum \in Nat
      /\ img.phoff \in Nat /\ size \in Nat
  BY ElfAssumption, Counted, ImageTyped DEF ElfInv, TypeOK
<1>2. head.off \in Nat /\ head.filesz \in Nat  BY <1>1, SegmentTyped
<1>3. /\ head.off = 0 /\ 1 <= img.phoff
      /\ img.phoff + phnum <= head.filesz
  BY <1>1 DEF HeadSegment
<1>4. 0 + 1 <= size /\ img.phoff + phnum <= size  BY <1>1, <1>2, <1>3
<1> QED  BY <1>1, <1>4, WholeRead DEF HeadersMap, HeadersWrap

-----------------------------------------------------------------------------
(* No step fails of the load of an image that lies as the linker makes it. *)
LEMMA InfoFound ==
  ASSUME ElfInv, NothingCut(img), GetLoadInfo, img.valid, NEW head \in Loads(img),
         HeadSegment(img, head), SegmentsApart(img, head)
  PROVE  pc' = "scan"
<1>1. head.off + head.filesz <= img.length /\ img.length \in 0 .. SizeMod - 1
  BY ImageTyped, Widths DEF SegmentsApart, ElfInv, TypeOK
<1>2. HeadersMap(img.length) /\ ~HeadersWrap  BY <1>1, HeadersWhole
<1> QED  BY <1>2 DEF GetLoadInfo, HeaderValid, Goto

(* The caller's checks but that of the machine.                            *)
LEMMA InfoFits ==
  ASSUME ElfInv, NothingCut(img), pc = "scan", i > phnum, FitsSpace(img),
         NEW head \in Loads(img), HeadSegment(img, head), SegmentsApart(img, head)
  PROVE  /\ load_info.low # Infinity /\ load_info.low % Page = 0
         /\ load_size # 0 /\ SizeFits
<1>1. load_info.low = head.addr /\ load_info.low # Infinity
  BY WholeSpan
<1>2. head.addr % Page = 0  BY DEF HeadSegment
<1>3. PICK t \in Loads(img) : load_info.max = MemEnd(t)  BY WholeSpan
<1>4. load_size <= Space
  <2>1. load_size = MemEnd(t) - head.addr  BY <1>1, <1>3, WholeSpan
  <2> QED  BY <2>1 DEF FitsSpace
<1>5. load_size # 0
  <2>1. head.memsz # 0 /\ head.memsz <= load_size  BY WholeSpan
  <2>2. head.memsz \in Nat
    BY SegmentTyped, ElfAssumption DEF ElfInv, TypeOK
  <2> QED  BY <2>1, <2>2
<1> QED  BY <1>1, <1>2, <1>4, <1>5 DEF SizeFits

LEMMA LoadStarts ==
  ASSUME ElfInv, NothingCut(img), StartLoad,
         NEW head \in Loads(img), HeadSegment(img, head), SegmentsApart(img, head)
  PROVE  pc' = "segments"
<1>1. pc = "load"  BY DEF StartLoad, Stop, Goto
<1>2. head.off + head.filesz <= load_size /\ load_size \in 0 .. SizeMod - 1
  BY <1>1, WholeSpan
<1>4. HeadersMap(load_size)  BY <1>2, HeadersWhole
<1> QED  BY <1>4 DEF StartLoad, Goto

LEMMA SegmentCopied ==
  ASSUME ElfInv, NothingCut(img), LoadSegment,
         NEW head \in Loads(img), HeadSegment(img, head), SegmentsApart(img, head)
  PROVE  pc' = "segments"
<1> DEFINE s == img.phdrs[i]
<1>1. /\ pc = "segments" /\ pc \in Loading /\ i \in 1 .. Len(img.phdrs)
  BY ImageTyped, Counted DEF LoadSegment, ElfInv, TypeOK, Loading
<1>2. CASE ~Loadable(s)  BY <1>1, <1>2 DEF LoadSegment
<1>3. CASE Loadable(s)
  <2>1. s \in Loads(img)  BY <1>1, <1>3 DEF Loads
  <2>2. s.off + s.filesz <= load_size /\ load_size \in 0 .. SizeMod - 1
    BY <1>1, <2>1, WholeSpan
  <2>3. s.off \in Nat /\ s.filesz \in Nat /\ s.memsz \in Nat /\ s.filesz <= s.memsz
    BY <2>1, SegmentTyped, ElfAssumption DEF ElfInv, TypeOK
  <2>5. NoMoreThanMem(s) = s.filesz  BY <2>3 DEF NoMoreThanMem
  <2>6. Clamped(s.off, NoMoreThanMem(s), load_size) = NoMoreThanMem(s)
    BY <2>2, <2>3, <2>5, WholeRead
  <2>7. CopySegment(s)  BY <1>3 DEF LoadSegment
  <2> HIDE DEF s
  <2> QED  BY <1>1, <2>3, <2>5, <2>6, <2>7 DEF CopySegment
<1> QED  BY <1>2, <1>3

LEMMA HeadersSeen ==
  ASSUME ElfInv, NothingCut(img), FindHeaders \/ MoveHeader, NEW head \in Loads(img),
         HeadSegment(img, head), SegmentsApart(img, head), Progress(head)
  PROVE  pc' = "move"
<1>1. CASE FindHeaders
  <2>1. mem[load_info.start] = File(0)
    BY <1>1, HeadersFound DEF FindHeaders
  <2>2. File(0) # Zero  BY DEF File, Zero
  <2> QED  BY <1>1, <2>1, <2>2 DEF FindHeaders
<1>2. CASE MoveHeader
  <2> DEFINE k == img.phoff + i - 1
  <2>1. pc = "move" /\ i <= phnum  BY <1>2 DEF MoveHeader
  <2>2. Holds(load_info.start + k, File(k))
    BY <2>1, HeaderRead DEF Holds
  <2> QED  BY <1>2, <2>1, <2>2 DEF MoveHeader
<1> QED  BY <1>1, <1>2

(* The dynamic section is within the image, where a segment has it.        *)
DynInSegment(image) ==
  \A k \in 1 .. Len(image.phdrs) : image.phdrs[k].type = "dynamic" =>
    \E s \in Loads(image) :
      /\ s.off <= image.phdrs[k].off
      /\ image.phdrs[k].off + image.phdrs[k].filesz <= s.off + s.filesz
LEMMA DynRead ==
  ASSUME ElfInv, NothingCut(img), DynInv, pc = "relocate", phdr_dyn # 0, DynInSegment(img),
         NEW head \in Loads(img), HeadSegment(img, head), SegmentsApart(img, head)
  PROVE  LET dyn == img.phdrs[phdr_dyn]
         IN  /\ Clamped(dyn.off, dyn.filesz, load_size) = dyn.filesz
             /\ ~Wraps(dyn.off, dyn.filesz)
<1> DEFINE dyn == img.phdrs[phdr_dyn]
<1>1. /\ pc \in Loading /\ phdr_dyn \in 1 .. Len(img.phdrs) /\ img \in Images
      /\ dyn.type = "dynamic"
  BY ImageTyped, Counted DEF ElfInv, TypeOK, Loading, DynInv
<1>2. PICK s \in Loads(img) : dyn.off + dyn.filesz <= s.off + s.filesz
  BY <1>1 DEF DynInSegment
<1>3. s.off + s.filesz <= load_size /\ load_size \in 0 .. SizeMod - 1
  BY <1>1, WholeSpan
<1>4. /\ dyn.off \in Nat /\ dyn.filesz \in Nat /\ s.off \in Nat /\ s.filesz \in Nat
  BY <1>1, PhdrTyped, SegmentTyped, ElfAssumption
<1> HIDE DEF dyn
<1>5. dyn.off + dyn.filesz <= load_size  BY <1>2, <1>3, <1>4
<1> QED  BY <1>3, <1>4, <1>5, WholeRead DEF dyn

(* An entry that no relocation has changed, and that is no header, is read *)
(* as it is in the file.                                                   *)
LEMMA EntryThere ==
  ASSUME ElfInv, NothingCut(img), pc \in Loading, NEW head \in Loads(img), HeadSegment(img, head),
         SegmentsApart(img, head), Progress(head),
         head.addr = 0, NEW a, a \notin HeadCells(img, head),
         NEW k \in DOMAIN img.relas, FileCellAt(img, a, k),
         \A l \in 1 .. phnum : Loadable(img.phdrs[l]) /\ a \in MemCells(img.phdrs[l])
           => At(mem, head, a) = Laid(img, head, img.phdrs[l], a, phnum)
  PROVE  RelaAt(Base + a) = {img.relas[k]}
<1> DEFINE c == Base + a
<1>1. img \in Images /\ phnum = Len(img.phdrs) /\ ImageOf(img)
  BY ElfAssumption, Counted DEF ElfInv, TypeOK
<1>2. PICK s \in Loads(img) : a \in FileCells(s)  BY DEF FileCellAt
<1>3. PICK l \in 1 .. phnum : s = img.phdrs[l] /\ Loadable(s)
  BY <1>1, LoadsIndexed
<1>4. a \in MemCells(s) /\ a \in Nat  BY <1>1, <1>2, SegmentTyped
<1>5. k = s.off + (a - s.addr)
  BY <1>1, <1>3, <1>4, EntryInFile
<1>6. Base + a - head.addr = c  BY <1>4, ElfAssumption
<1>7. c \in Cells
  BY <1>3, <1>4, <1>6, CellOfAddress
<1>8. At(mem, head, a) = Laid(img, head, s, a, phnum)
  BY <1>3, <1>4
<1>9. Laid(img, head, s, a, phnum) = File(k)
  BY <1>1, <1>2, <1>5 DEF Laid, HeadCells
<1>10. mem[c] = File(k)  BY <1>6, <1>8, <1>9 DEF At
<1> HIDE DEF c
<1>11. Holds(c, File(k)) /\ ~Holds(c, Zero) /\ mem[c][2] = k
  BY <1>7, <1>10 DEF Holds, File, Zero
<1>12. RelaAt(c) = {img.relas[mem[c][2]]}  BY <1>11 DEF RelaAt
<1> QED  BY <1>11, <1>12 DEF c

LEMMA RelaApplied ==
  ASSUME ElfInv, NothingCut(img), ApplyRela, NEW head \in Loads(img), HeadSegment(img, head),
         SegmentsApart(img, head), Progress(head), Relocated(head),
         RelocationsIn(img, head)
  PROVE  pc' = "relas"
<1> DEFINE e == img.dyn.rela + i - 1
<1>1. /\ pc = "relas" /\ pc \in Loading /\ i \in Nat \ {0} /\ i <= img.dyn.sz
      /\ phnum = Len(img.phdrs) /\ img \in Images
      /\ img.dyn.rela \in Nat /\ img.dyn.sz \in Nat
  BY ImageTyped, Counted DEF ApplyRela, ElfInv, TypeOK, Loading
<1>2. e \in RelaCells(img) /\ e \in Nat  BY <1>1 DEF RelaCells
<1>3. PICK k \in DOMAIN img.relas : FileCellAt(img, e, k) /\ e \notin HeadCells(img, head)
  BY <1>2 DEF RelocationsIn
<1>4. RelocatedUpTo(img, mem, head, i - 1)  BY <1>1 DEF Relocated
<1>5. \A r \in Made(img, i - 1) : r.target # e
  BY <1>2, MadeRelocates, OneRelocation
<1>6. ASSUME NEW l \in 1 .. phnum, Loadable(img.phdrs[l]),
             e \in MemCells(img.phdrs[l])
      PROVE  At(mem, head, e) = Laid(img, head, img.phdrs[l], e, phnum)
  BY <1>1, <1>4, <1>5, <1>6 DEF RelocatedUpTo
<1>7. head.addr = 0 /\ RelaPlace(img.dyn.rela) = Base + e
  <2>1. head.addr = 0  BY DEF RelocationsIn
  <2> QED  BY <1>1, <1>3, <2>1, EntryPlace
<1>8. RelaAt(Base + e) = {img.relas[k]}
  <2> HIDE DEF e
  <2> QED  BY <1>1, <1>3, <1>6, <1>7, EntryThere
<1> DEFINE r == img.relas[k]
<1>9. r.type # "none" => r.type # "unsupported" /\ TargetOf(r) \in Cells
  <2> SUFFICES ASSUME r.type # "none"
               PROVE  r.type # "unsupported" /\ TargetOf(r) \in Cells
    OBVIOUS
  <2>1. Relocates(img, r)  BY <1>2, <1>3 DEF Relocates
  <2>2. /\ r.type # "unsupported"
        /\ \E s \in Loads(img) : r.target \in MemCells(s)
    BY <2>1 DEF RelocationsIn
  <2> QED  BY <1>1, <1>7, <2>2, TargetPlace
<1>10. ImageOf(img) /\ r.type \in {"relative", "symbol", "none", "unsupported"}
  BY <1>1, <1>3, ElfAssumption DEF ImageOf, RelaOf
<1>11. RelaAt(RelaPlace(img.dyn.rela)) = {r}
  BY <1>7, <1>8
<1> HIDE DEF r
<1> QED  BY <1>1, <1>9, <1>10, <1>11 DEF ApplyRela

(* What goes on after the checks, in either loader.                        *)
LEMMA SharedGoesOn ==
  ASSUME ElfInv, NothingCut(img),
         \/ StartLoad \/ LoadSegment \/ FindHeaders \/ MoveHeader
         \/ HeadersMoved \/ ApplyRela \/ RelocationDone,
         NEW head \in Loads(img), HeadSegment(img, head), SegmentsApart(img, head),
         Progress(head), pc = "relas" => RelocationsIn(img, head) /\ Relocated(head)
  PROVE  pc' \notin {"refused", "failed", "lost"}
<1>1. CASE StartLoad  BY <1>1, LoadStarts
<1>2. CASE LoadSegment  BY <1>2, SegmentCopied
<1>3. CASE FindHeaders \/ MoveHeader  BY <1>3, HeadersSeen
<1>4. CASE HeadersMoved \/ RelocationDone
  BY <1>4 DEF HeadersMoved, RelocationDone, Goto, Stop
<1>5. CASE ApplyRela
  <2>1. pc = "relas"  BY <1>5 DEF ApplyRela
  <2> QED  BY <1>5, <2>1, RelaApplied
<1> QED  BY <1>1, <1>2, <1>3, <1>4, <1>5

LEMMA SoundStep ==
  ASSUME ElfInv, ProgressInv, SoundNeverFail, [Next]_vars
  PROVE  SoundNeverFail'
<1>1. CASE UNCHANGED vars  BY <1>1 DEF vars, SoundNeverFail
<1>2. CASE Next
  <2>1. img' = img
    BY <1>2 DEF Next, GetLoadInfo, ScanSegment, CheckInfo, StartLoad, LoadSegment,
           FindHeaders, MoveHeader, HeadersMoved, StartRelocation, ApplyRela,
           RelocationDone, Stop, Goto
  <2> SUFFICES ASSUME Linked(img), FitsSpace(img)
               PROVE  pc' \notin {"refused", "failed", "lost"}
    BY <2>1 DEF SoundNeverFail
  <2>2. PICK head \in Loads(img) :
          /\ HeadSegment(img, head) /\ SegmentsApart(img, head)
          /\ Dynamic(img) => RelocationsIn(img, head)
    BY DEF Linked, Dynamic
  <2>3. /\ DynInSegment(img) /\ img.valid /\ img.machine = "em64t"
        /\ NothingCut(img)
    BY DEF Linked, DynInSegment
  <2>4. Progress(head) /\ Relocated(head) /\ DynInv
    BY <2>2, <2>3 DEF ProgressInv
  <2>5. phdr_dyn # 0 => Dynamic(img)
    BY <2>4, Counted DEF DynInv, Dynamic, ElfInv, TypeOK
  <2>6. CASE GetLoadInfo  BY <2>2, <2>3, <2>6, InfoFound
  <2>7. CASE ScanSegment  BY <2>7 DEF ScanSegment
  <2>8. CASE CheckInfo
    <3>1. pc = "scan" /\ i > phnum  BY <2>8 DEF CheckInfo, Stop, Goto
    <3>2. InfoAccepted  BY <2>2, <2>3, <3>1, InfoFits DEF InfoAccepted
    <3> QED  BY <2>8, <3>2 DEF CheckInfo, Goto
  <2>9. CASE \/ StartLoad \/ LoadSegment \/ FindHeaders \/ MoveHeader
             \/ HeadersMoved \/ ApplyRela \/ RelocationDone
    <3>1. pc = "relas" => RelocationsIn(img, head)
      BY <2>2, <2>4, <2>5 DEF Progress
    <3> QED  BY <2>2, <2>3, <2>4, <2>9, <3>1, SharedGoesOn
  <2>10. CASE StartRelocation
    <3>1. pc = "relocate"  BY <2>10 DEF StartRelocation, Stop, Goto
    <3>2. CASE phdr_dyn = 0
      BY <2>10, <3>2 DEF StartRelocation, Stop
    <3>3. CASE phdr_dyn # 0
      <4>1. img.dyn.has  BY <2>2, <2>5, <3>3 DEF RelocationsIn
      <4>2. /\ Clamped(img.phdrs[phdr_dyn].off, img.phdrs[phdr_dyn].filesz, load_size)
                 = img.phdrs[phdr_dyn].filesz
            /\ ~Wraps(img.phdrs[phdr_dyn].off, img.phdrs[phdr_dyn].filesz)
        BY <2>2, <2>3, <2>4, <3>1, <3>3, DynRead
      <4> QED  BY <2>10, <3>3, <4>1, <4>2 DEF StartRelocation, Goto
    <3> QED  BY <3>2, <3>3
  <2> QED  BY <1>2, <2>6, <2>7, <2>8, <2>9, <2>10 DEF Next
<1> QED  BY <1>1, <1>2

LEMMA SoundStarts == Init => SoundNeverFail
BY DEF Init, SoundNeverFail

(* A linked image that fits the space is neither refused by the checks nor *)
(* does its load fail or come to a read of the unknown: the bound on the   *)
(* file, which is the size in memory (elf_ld.c:209), cuts no read.         *)
THEOREM SoundImageNeverFails == Spec => []SoundNeverFail
<1>1. Init => SoundNeverFail  BY SoundStarts
<1>2. ElfInv /\ ProgressInv /\ SoundNeverFail /\ [Next]_vars => SoundNeverFail'
  BY SoundStep
<1> QED  BY <1>1, <1>2, ElfInductive, ProgressInductive, PTL DEF Spec
-----------------------------------------------------------------------------
(* Every step, of the load of any image, leaves fewer steps.               *)
LEMMA StepsAre ==
  ASSUME NEW entry, NEW pass, NEW entries
  PROVE  /\ StepsAt("get_info", entry, pass, entries) = 3 * pass + entries + 4
         /\ StepsAt("scan", entry, pass, entries) = 3 * pass + entries + 4 - entry
         /\ StepsAt("load", entry, pass, entries) = 2 * pass + entries + 3
         /\ StepsAt("segments", entry, pass, entries)
              = 2 * pass + entries + 3 - entry
         /\ StepsAt("move", entry, pass, entries) = pass + entries + 3 - entry
         /\ StepsAt("relocate", entry, pass, entries) = entries + 2
         /\ \A at \in {"relas", "rels"} :
              StepsAt(at, entry, pass, entries) = entries + 2 - entry
         /\ \A at \in Ended : StepsAt(at, entry, pass, entries) = 0
BY DEF StepsAt, Ended

(* A step goes to the next entry of a loop, to a later loop, or to an end. *)
Later == {<<"get_info", "scan">>, <<"scan", "load">>, <<"load", "segments">>,
          <<"segments", "move">>, <<"segments", "relocate">>,
          <<"move", "relocate">>, <<"relocate", "relas">>, <<"relocate", "rels">>}
GoesOn(entries) ==
  \/ /\ pc' = pc /\ i' = i + 1
     /\ \/ pc \in {"scan", "segments", "move"} /\ i <= phnum
        \/ pc \in {"relas", "rels"} /\ i <= entries
  \/ <<pc, pc'>> \in Later /\ i' = 1
  \/ pc \notin Ended /\ pc' \in Ended

LEMMA GoingOnShortens ==
  ASSUME ElfInv, NEW n \in Nat, InLoop(n), GoesOn(n), phnum' = phnum
  PROVE  InLoop(n)' /\ StepsLeft(n)' \in Nat /\ StepsLeft(n)' < StepsLeft(n)
<1> DEFINE pass == phnum + 1
<1>1. i \in Nat \ {0} /\ pc \in Pcs /\ phnum \in Nat /\ pass \in Nat /\ pass >= 1
  BY ImageTyped, Counted DEF ElfInv, TypeOK
<1>2. /\ pc \in {"scan", "segments", "move"} => i <= pass
      /\ pc \in {"relas", "rels"} => i <= n + 1
  BY DEF InLoop
<1>3. /\ StepsLeft(n) = StepsAt(pc, i, pass, n)
      /\ StepsLeft(n)' = StepsAt(pc', i', pass, n)
  BY DEF StepsLeft
<1>4. InLoop(n)' <=> /\ pc' \in {"scan", "segments", "move"} => i' <= pass
                     /\ pc' \in {"relas", "rels"} => i' <= n + 1
  BY DEF InLoop
<1> HIDE DEF pass
<1>5. CASE /\ pc' = pc /\ i' = i + 1
           /\ pc \in {"scan", "segments", "move"} /\ i <= phnum
  <2>1. i + 1 <= pass  BY <1>1, <1>5 DEF pass
  <2>2. CASE pc = "scan"
    BY <1>1, <1>2, <1>3, <1>4, <1>5, <2>1, <2>2, StepsAre
  <2>3. CASE pc = "segments"
    BY <1>1, <1>2, <1>3, <1>4, <1>5, <2>1, <2>3, StepsAre
  <2>4. CASE pc = "move"
    BY <1>1, <1>2, <1>3, <1>4, <1>5, <2>1, <2>4, StepsAre
  <2> QED  BY <1>5, <2>2, <2>3, <2>4
<1>6. CASE /\ pc' = pc /\ i' = i + 1
           /\ pc \in {"relas", "rels"} /\ i <= n
  BY <1>1, <1>2, <1>3, <1>4, <1>6, StepsAre
<1>7. CASE <<pc, pc'>> \in Later /\ i' = 1
  <2>1. InLoop(n)'  BY <1>1, <1>4, <1>7
  <2>2. CASE pc = "get_info" /\ pc' = "scan"
    BY <1>1, <1>3, <1>7, <2>1, <2>2, StepsAre
  <2>3. CASE pc = "scan" /\ pc' = "load"
    BY <1>1, <1>2, <1>3, <2>1, <2>3, StepsAre
  <2>4. CASE pc = "load" /\ pc' = "segments"
    BY <1>1, <1>3, <1>7, <2>1, <2>4, StepsAre
  <2>5. CASE pc = "segments" /\ pc' \in {"move", "relocate"}
    BY <1>1, <1>2, <1>3, <1>7, <2>1, <2>5, StepsAre
  <2>6. CASE pc = "move" /\ pc' = "relocate"
    BY <1>1, <1>2, <1>3, <2>1, <2>6, StepsAre
  <2>7. CASE pc = "relocate" /\ pc' \in {"relas", "rels"}
    BY <1>1, <1>3, <1>7, <2>1, <2>7, StepsAre
  <2> QED  BY <1>7, <2>2, <2>3, <2>4, <2>5, <2>6, <2>7 DEF Later
<1>8. CASE pc \notin Ended /\ pc' \in Ended
  <2>1. InLoop(n)'  BY <1>4, <1>8 DEF Ended
  <2>2. StepsLeft(n)' = 0  BY <1>3, <1>8, StepsAre
  <2>3. pc \in {"get_info", "scan", "load", "segments", "move", "relocate",
                "relas", "rels"}
    BY <1>1, <1>8 DEF Pcs, Ended
  <2>4. StepsLeft(n) > 0
    <3>1. CASE pc = "get_info"  BY <1>1, <1>3, <3>1, StepsAre
    <3>2. CASE pc = "scan"      BY <1>1, <1>2, <1>3, <3>2, StepsAre
    <3>3. CASE pc = "load"      BY <1>1, <1>3, <3>3, StepsAre
    <3>4. CASE pc = "segments"  BY <1>1, <1>2, <1>3, <3>4, StepsAre
    <3>5. CASE pc = "move"      BY <1>1, <1>2, <1>3, <3>5, StepsAre
    <3>6. CASE pc = "relocate"  BY <1>1, <1>3, <3>6, StepsAre
    <3>7. CASE pc \in {"relas", "rels"}
      BY <1>1, <1>2, <1>3, <3>7, StepsAre
    <3> QED  BY <2>3, <3>1, <3>2, <3>3, <3>4, <3>5, <3>6, <3>7
  <2> QED  BY <2>1, <2>2, <2>4
<1> QED  BY <1>5, <1>6, <1>7, <1>8 DEF GoesOn

LEMMA NextGoesOn ==
  ASSUME ElfInv, Next, NEW n \in Nat, img.dyn.sz <= n
  PROVE  GoesOn(n) /\ img' = img
<1>1. i \in Nat \ {0} /\ phnum \in Nat /\ img.dyn.sz \in Nat
  BY ImageTyped, Counted DEF ElfInv, TypeOK
<1>2. CASE GetLoadInfo
  BY <1>2 DEF GetLoadInfo, Stop, Goto, GoesOn, Later, Ended
<1>3. CASE ScanSegment
  BY <1>3 DEF ScanSegment, GoesOn
<1>4. CASE CheckInfo
  BY <1>4 DEF CheckInfo, Stop, Goto, GoesOn, Later, Ended
<1>5. CASE StartLoad
  BY <1>5 DEF StartLoad, Stop, Goto, GoesOn, Later, Ended
<1>6. CASE LoadSegment
  <2>1. \/ pc' = pc /\ i' = i + 1
        \/ pc' \in {"failed", "lost"}
    BY <1>6 DEF LoadSegment, CopySegment
  <2>2. pc = "segments" /\ i <= phnum /\ img' = img  BY <1>6 DEF LoadSegment
  <2> QED  BY <2>1, <2>2 DEF GoesOn, Ended
<1>7. CASE FindHeaders
  <2>1. pc' \in {"move", "relocate", "lost"}  BY <1>7 DEF FindHeaders
  <2>2. pc = "segments" /\ i' = 1 /\ img' = img  BY <1>7 DEF FindHeaders
  <2> QED  BY <2>1, <2>2 DEF GoesOn, Later, Ended
<1>8. CASE MoveHeader
  <2>1. \/ pc' = pc /\ i' = i + 1
        \/ pc' = "lost"
    BY <1>8 DEF MoveHeader
  <2>2. pc = "move" /\ i <= phnum /\ img' = img  BY <1>8 DEF MoveHeader
  <2> QED  BY <2>1, <2>2 DEF GoesOn, Ended
<1>9. CASE HeadersMoved
  BY <1>9 DEF HeadersMoved, Goto, GoesOn, Later
<1>10. CASE StartRelocation
  BY <1>10 DEF StartRelocation, Stop, Goto, GoesOn, Later, Ended
<1>11. CASE ApplyRela
  <2>1. \/ pc' = pc /\ i' = i + 1
        \/ pc' \in {"failed", "lost"}
    BY <1>11 DEF ApplyRela
  <2>2. pc = "relas" /\ i <= img.dyn.sz /\ img' = img  BY <1>11 DEF ApplyRela
  <2>3. i <= n  BY <1>1, <2>2
  <2> QED  BY <2>1, <2>2, <2>3 DEF GoesOn, Ended
<1>12. CASE RelocationDone
  BY <1>12 DEF RelocationDone, Stop, GoesOn, Ended
<1> QED  BY <1>2, <1>3, <1>4, <1>5, <1>6, <1>7, <1>8, <1>9, <1>10, <1>11, <1>12 DEF Next

(* load_image returns, whatever the image: every step of its three passes  *)
(* leaves fewer, none of its loops goes back, and the number of steps is   *)
(* known from the counts in the headers.                                   *)
THEOREM LoaderNearsItsEnd == Spec => NearsItsEnd
<1>1. Init => InLoop(img.dyn.sz)
  BY DEF Init, InLoop
<1>2. ElfInv /\ InLoop(img.dyn.sz) /\ [Next]_vars
        => /\ InLoop(img.dyn.sz)'
           /\ [/\ StepsLeft(img.dyn.sz)' \in Nat
               /\ StepsLeft(img.dyn.sz)' < StepsLeft(img.dyn.sz)]_vars
  <2> SUFFICES ASSUME ElfInv, InLoop(img.dyn.sz), [Next]_vars
               PROVE  /\ InLoop(img.dyn.sz)'
                      /\ [/\ StepsLeft(img.dyn.sz)' \in Nat
                          /\ StepsLeft(img.dyn.sz)' < StepsLeft(img.dyn.sz)]_vars
    OBVIOUS
  <2>1. CASE UNCHANGED vars  BY <2>1 DEF vars, InLoop, phnum
  <2>2. CASE Next
    <3> DEFINE n == img.dyn.sz
    <3>1. n \in Nat /\ n <= n  BY ImageTyped DEF ElfInv, TypeOK
    <3>2. GoesOn(n) /\ img' = img  BY <2>2, <3>1, NextGoesOn
    <3>3. phnum' = phnum  BY <3>2 DEF phnum
    <3>4. /\ InLoop(n) /\ n' = n  BY <3>2
    <3>5. /\ (pc' \in {"scan", "segments", "move"} => i' <= phnum' + 1)
          /\ (pc' \in {"relas", "rels"} => i' <= n + 1)
          /\ StepsAt(pc', i', phnum' + 1, n) \in Nat
          /\ StepsAt(pc', i', phnum' + 1, n) < StepsAt(pc, i, phnum + 1, n)
      <4> HIDE DEF n
      <4> USE DEF InLoop, StepsLeft
      <4> QED  BY <3>1, <3>2, <3>3, <3>4, GoingOnShortens
    <3> QED  BY <3>4, <3>5 DEF InLoop, StepsLeft
  <2> QED  BY <2>1, <2>2
<1> QED  BY <1>1, <1>2, ElfInductive, PTL DEF Spec, NearsItsEnd
=============================================================================
