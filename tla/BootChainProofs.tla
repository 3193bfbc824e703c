--------------------------- MODULE BootChainProofs ---------------------------
(***************************************************************************)
(* Who owns which memory during the boot, for every memory map, package    *)
(* and layout, on a machine whose memory ends below 4 GB: a package of the *)
(* packer's sizes does not go over the firmware's memory, and the runtime  *)
(* memory is hidden and kept; and the whole boot implements HypervisorBoot. *)
(***************************************************************************)
EXTENDS BootChain, LoaderHeapProofs

USE DEF Ending, HasInfo, HasRt, HasLdr, ImagePages, Buffer, PackageFits,
        TerminatorFits

LEMMA PlatformTyped ==
  /\ Top \in Nat \ {0} /\ Word \in Nat \ {0} /\ UnitsPerPage \in Nat \ {0}
  /\ Low \in 1 .. Word
  BY PlatformAssumption

LEMMA LayoutTyped ==
  /\ LdrPages \in Nat /\ RtPages \in Nat
  /\ BinPages \in Nat /\ LoaderPages \in Nat /\ HeapPages \in Nat
  /\ StartapPages \in Nat /\ GuestPages \in Nat /\ XmonPages \in Nat
  /\ LdrPages = BinPages + LoaderPages + HeapPages + 1
  /\ RtPages = StartapPages + GuestPages + XmonPages
<1>1. /\ BinPages \in Nat /\ LoaderPages \in Nat \ {0} /\ HeapPages \in Nat \ {0}
      /\ StartapPages \in Nat /\ GuestPages \in Nat /\ XmonPages \in Nat
  BY LayoutAssumption
<1> QED  BY <1>1, RegionsAssumption DEF LdrPages, RtPages

(* No size makes no pages.                                                 *)
LEMMA NoPages == SizeToPages(0) = 0
<1>1. UnitsPerPage - 1 \in 0 .. UnitsPerPage - 1  BY PlatformTyped
<1>2. (UnitsPerPage - 1) \div UnitsPerPage = 0  BY <1>1, PlatformTyped
<1> QED  BY <1>2, PlatformTyped DEF SizeToPages

(* A size in whole pages.                                                  *)
LEMMA Pieces ==
  ASSUME NEW n \in Nat
  PROVE  \E q, r \in Nat : n = q * UnitsPerPage + r /\ r < UnitsPerPage
                           /\ n \div UnitsPerPage = q /\ n % UnitsPerPage = r
<1>1. /\ n \div UnitsPerPage \in Nat
      /\ n % UnitsPerPage \in 0 .. UnitsPerPage - 1
      /\ n = UnitsPerPage * (n \div UnitsPerPage) + (n % UnitsPerPage)
  BY PlatformTyped
<1> QED  BY <1>1, PlatformTyped

(* The buffer has a page at least; with its last page not full the end of  *)
(* the string is in it; and a package of no more than u_ldr_bin is copied  *)
(* to the load-time memory with room to spare.                             *)
LEMMA BufferSize ==
  ASSUME NEW size \in Nat
  PROVE  /\ SizeToPages(size + 1) \in Nat \ {0}
         /\ (size + 1) % UnitsPerPage # 0 =>
              (size + 1) \div UnitsPerPage \in 0 .. SizeToPages(size + 1) - 1
         /\ size <= BinSize => SizeToPages(size + 1) <= LdrPages
<1> DEFINE U == UnitsPerPage
<1>1. U \in Nat \ {0} /\ size + 1 \in Nat  BY PlatformTyped
<1>2. SizeToPages(size + 1) = (size + U) \div U  BY <1>1 DEF SizeToPages
<1>3. PICK q \in Nat, r \in Nat : size = q * U + r /\ r < U  BY Pieces
<1>4. (size + U) \div U = q + 1
  <2>1. size + U = (q + 1) * U + r  BY <1>1, <1>3
  <2> QED  BY <1>1, <1>3, <2>1
<1>5. (size + 1) % U # 0 => (size + 1) \div U = q
  <2>1. CASE r + 1 = U
    <3>1. size + 1 = (q + 1) * U + 0  BY <1>1, <1>3, <2>1
    <3>2. (size + 1) % U = 0  BY <1>1, <1>3, <3>1
    <3> QED  BY <3>2
  <2>2. CASE r + 1 < U
    <3>1. size + 1 = q * U + (r + 1)  BY <1>1, <1>3
    <3> QED  BY <1>1, <1>3, <2>2, <3>1
  <2> QED  BY <1>1, <1>3, <2>1, <2>2
<1>6. size <= BinSize => q <= BinPages
  <2>1. BinSize = BinPages * U /\ BinPages \in Nat
    BY RegionsAssumption, LayoutAssumption
  <2>2. SUFFICES ASSUME q >= BinPages + 1 PROVE size > BinSize
    BY <1>3, <2>1
  <2>3. q * U >= (BinPages + 1) * U  BY <1>1, <1>3, <2>1, <2>2
  <2>4. (BinPages + 1) * U = BinSize + U  BY <1>1, <2>1
  <2> QED  BY <1>1, <1>3, <2>1, <2>3, <2>4
<1> QED  BY <1>2, <1>3, <1>4, <1>5, <1>6, LayoutTyped, LayoutAssumption

LEMMA BufferPages ==
  ASSUME TypeOK
  PROVE  /\ pkg.size \in Nat
         /\ ImagePages \in Nat \ {0}
         /\ TerminatorFits => \A b \in Int : EndPage(b) \in Region(b, ImagePages)
         /\ PackageFits => ImagePages <= LdrPages
<1>1. pkg.size \in Nat  BY PlatformAssumption DEF TypeOK
<1> QED  BY <1>1, BufferSize, PlatformTyped DEF EndPage, Region

-----------------------------------------------------------------------------
(* Steps that only take free pages.                                        *)
Grows == /\ mem' \in [Pages -> Labels]
         /\ \A p \in Pages : mem[p] # "conventional" => mem'[p] = mem[p]
         /\ \A p \in Pages : mem'[p] \in FirmwareLabels => mem[p] = mem'[p]

LEMMA GivenGrows ==
  ASSUME TypeOK, NEW b, NEW n \in Nat, IsFree(b, n), NEW label \in PreloadLabels,
         mem' = Given(b, n, label)
  PROVE  /\ Grows
         /\ Region(b, n) \subseteq Pages
         /\ \A p \in Region(b, n) : mem[p] = "conventional" /\ mem'[p] = label
<1>1. mem \in [Pages -> Labels]  BY DEF TypeOK
<1>2. label \in Labels /\ label \notin FirmwareLabels /\ label # "conventional"
  BY DEF Labels, PreloadLabels, FirmwareLabels
<1>3. Region(b, n) \subseteq Pages /\ \A p \in Region(b, n) : mem[p] = "conventional"
  BY DEF IsFree
<1> QED  BY <1>1, <1>2, <1>3 DEF Grows, Given

LEMMA HeldGrows ==
  ASSUME Grows, NEW b, NEW n, NEW label, label # "conventional", Held(b, n, label)
  PROVE  /\ Region(b, n) \subseteq Pages
         /\ \A p \in Region(b, n) : mem'[p] = label
  BY DEF Grows, Held

(* The first page of a range is a page.                                    *)
LEMMA BaseIsPage ==
  ASSUME NEW b \in Int, NEW n \in Nat, IsFree(b, n)
  PROVE  n > 0 /\ b \in Pages
<1>1. n > 0 /\ b .. b + n - 1 \subseteq Pages  BY DEF IsFree, Region
<1> QED  BY <1>1

(* Whatever address is asked for, what is got is a free range, and it      *)
(* takes a size that is not zero.                                          *)
LEMMA RangesTakenFree ==
  ASSUME NEW base \in Nat, NEW size \in Nat, NEW b \in RangesTaken(base, size)
  PROVE  b \in Pages /\ IsFree(b, SizeToPages(size)) /\ size # 0
<1>1. SizeToPages(size) \in Nat
  <2>1. size + UnitsPerPage - 1 \in Nat  BY PlatformTyped
  <2> QED  BY <2>1, PlatformTyped DEF SizeToPages
<1>2. b \in Int /\ IsFree(b, SizeToPages(size))
  <2>1. base + size * Word \in Int  BY PlatformTyped
  <2>2. b \in AtAddress(Joined(base, size), SizeToPages(size))
          \/ b \in BelowLimit(Joined(Low - 1, size), SizeToPages(size))
    BY DEF RangesTaken
  <2> QED  BY <2>1, <2>2, PlatformTyped DEF AtAddress, BelowLimit, Joined, Pages
<1>3. b \in Pages /\ SizeToPages(size) # 0  BY <1>1, <1>2, BaseIsPage
<1> QED  BY <1>2, <1>3, NoPages

(* Below 4 GB an address is its low half.                                  *)
LEMMA PageIsItsLowHalf ==
  ASSUME Top <= Word, NEW b \in Pages
  PROVE  b % Word = b /\ b \div Word = 0
  BY PlatformTyped DEF Pages

-----------------------------------------------------------------------------
LEMMA InitChain == Init => ChainInv
<1> SUFFICES ASSUME Init PROVE ChainInv  OBVIOUS
<1> USE DEF Init, PlatformInit, PreloadInit, LoaderInit
<1>1. TypeOK
  <2>1. mem \in [Pages -> Labels]  BY PlatformAssumption DEF Labels
  <2>2. content \in [Pages -> Contents]  BY DEF Contents
  <2>3. hdr \in [ldr_base : 0 .. Word - 1, ldr_size : Nat,
                 rt_base : 0 .. Word - 1, rt_size : Nat]
    BY PlatformTyped
  <2>4. info.memmap_size \in Nat  BY DEF NoInfo
  <2>5. xd \in [files : SUBSET Bins, loaded : SUBSET Bins]  OBVIOUS
  <2>6. pkg \in Packages /\ pc \in PreloadPcs  BY DEF PreloadPcs
  <2>7. image_addr = Nowhere /\ platform_addr = Nowhere /\ err = "SUCCESS"
        /\ alloc_flag = FALSE
    OBVIOUS
  <2>8. heap_current \in 0 .. heap_tops /\ heap_tops \in {0, HeapBase + HeapBytes}
    OBVIOUS
  <2> HIDE DEF Init, PlatformInit, PreloadInit, LoaderInit
  <2> QED  BY <2>1, <2>2, <2>3, <2>4, <2>5, <2>6, <2>7, <2>8 DEF TypeOK
<1>2. BuffersInv  BY DEF BuffersInv
<1>3. HeaderInv  BY DEF HeaderInv, LoaderPcs
<1>4. ~Launched  BY DEF Launched
<1>5. InfoInv  BY <1>4 DEF InfoInv, LoaderPcs
<1>6. FirmwareMemoryIntact /\ RuntimeHidden
  BY <1>4 DEF FirmwareMemoryIntact, RuntimeHidden
<1> QED  BY <1>1, <1>2, <1>3, <1>5, <1>6 DEF ChainInv

(* Steps that touch nothing that ChainInv is about but pc, and pc only to  *)
(* where less is held.                                                     *)
Quiet == UNCHANGED <<mem, content, info, memmap, pkg, hdr, image_addr,
                     platform_addr, alloc_flag, e820>>
Onward == /\ pc' \in HasLdr => pc \in HasLdr
          /\ pc' \in HasRt => pc \in HasRt
          /\ pc' \in HasInfo => pc \in HasInfo
          /\ pc \in Ending => pc' \in Ending
          /\ pc' \notin {"alloc_ldr", "alloc_rt"}
          /\ Launched => pc' \in {"startap", "xmon", "resumed", "out"} \union Ending
          /\ alloc_flag => pc' \in HasRt \union {"resumed", "out"} \union Ending

LEMMA QuietStep ==
  ASSUME ChainInv, Quiet, Onward, TypeOK'
  PROVE  ChainInv'
<1> USE DEF ChainInv, Quiet, Onward
<1>1. BuffersInv'  BY DEF BuffersInv, Held
<1>2. HeaderInv'  BY DEF HeaderInv, Held
<1>3. InfoInv'  BY DEF InfoInv, MapGiven, Launched, RuntimeArea
<1>4. FirmwareMemoryIntact'  BY DEF FirmwareMemoryIntact
<1>5. RuntimeHidden'
  BY DEF RuntimeHidden, Launched, MapGiven, RuntimeArea, Region
<1> QED  BY <1>1, <1>2, <1>3, <1>4, <1>5

(* What the firmware has, it had, and it is not written.                   *)
LEMMA FirmwareKept ==
  ASSUME ChainInv, UNCHANGED pkg,
         PackageFits /\ TerminatorFits =>
           \A p \in Pages : mem'[p] \in FirmwareLabels =>
             mem[p] \in FirmwareLabels /\ content'[p] = content[p]
  PROVE  FirmwareMemoryIntact'
<1>1. SUFFICES ASSUME PackageFits /\ TerminatorFits
               PROVE  \A p \in Pages : mem'[p] \in FirmwareLabels =>
                        content'[p] = "firmware"
  BY DEF FirmwareMemoryIntact
<1>2. \A p \in Pages : mem[p] \in FirmwareLabels => content[p] = "firmware"
  BY <1>1 DEF ChainInv, FirmwareMemoryIntact
<1> HIDE DEF PackageFits, TerminatorFits
<1> QED  BY <1>1, <1>2

-----------------------------------------------------------------------------
(* Preload's quiet steps.                                                  *)
KeepsRt == \A p \in Pages : mem[p] = "rt" => mem'[p] = "rt"
Elsewhere == UNCHANGED <<loaderVars, heapVars>>
QuietPreload == \/ OpenProtocol \/ OpenRoot \/ CheckVmx \/ CallLoader
                \/ LoadingDone \/ FreeLdr \/ CloseAndReturn

(* free_ldr frees nothing: the size it reads is zero by then.              *)
LEMMA FreeLdrFreesNothing ==
  ASSUME ChainInv, FreeLdr
  PROVE  mem' = mem
<1>1. alloc_flag => hdr.ldr_size = 0  BY DEF ChainInv, HeaderInv
<1>2. alloc_flag => SizeToPages(hdr.ldr_size) = 0  BY <1>1, NoPages
<1>3. alloc_flag => Freed(mem, hdr.ldr_base, SizeToPages(hdr.ldr_size)) = mem
  BY <1>2 DEF Freed
<1> QED  BY <1>3 DEF FreeLdr

LEMMA QuietPreloadStep ==
  ASSUME ChainInv, QuietPreload, Elsewhere
  PROVE  ChainInv' /\ KeepsRt
<1> USE DEF Goto, Fail, rest, preloadVars, Elsewhere, loaderVars, heapVars
<1>1. Quiet
  BY FreeLdrFreesNothing
  DEF Quiet, QuietPreload, OpenProtocol, OpenRoot, CheckVmx, CallLoader,
      LoadingDone, FreeLdr, CloseAndReturn
<1>2. Onward
  BY DEF ChainInv, HeaderInv, InfoInv, Onward, LoaderPcs, QuietPreload,
         OpenProtocol, OpenRoot, CheckVmx, CallLoader, LoadingDone, FreeLdr,
         CloseAndReturn
<1>3. pc' \in PreloadPcs \union LoaderPcs /\ err' \in {"SUCCESS", "ERROR", "NOT_FOUND"}
  BY DEF ChainInv, TypeOK, LoaderPcs, PreloadPcs, QuietPreload, ReturnValue,
         OpenProtocol, OpenRoot, CheckVmx, CallLoader, LoadingDone, FreeLdr,
         CloseAndReturn
<1>4. UNCHANGED pkg
  BY DEF QuietPreload, OpenProtocol, OpenRoot, CheckVmx, CallLoader,
         LoadingDone, FreeLdr, CloseAndReturn
<1>5. TypeOK'  BY <1>1, <1>3, <1>4 DEF ChainInv, TypeOK, Quiet
<1> QED  BY <1>1, <1>2, <1>5, QuietStep DEF KeepsRt, Quiet

-----------------------------------------------------------------------------
(* Preload's steps that take memory or write it, before the loader runs.   *)
Before == {"load_image", "find_header", "alloc_ldr", "alloc_rt", "copy",
           "alloc_platform", "take_map"}

LEMMA NotYetLaunched ==
  ASSUME ChainInv, pc \in Before, UNCHANGED e820
  PROVE  ~Launched /\ ~Launched' /\ RuntimeHidden'
<1>1. ~Launched  BY DEF ChainInv, InfoInv, Before
<1>2. ~Launched'  BY <1>1 DEF Launched
<1> QED  BY <1>1, <1>2 DEF RuntimeHidden

LEMMA LoadImageStep ==
  ASSUME ChainInv, LoadImage, Elsewhere
  PROVE  ChainInv' /\ KeepsRt
<1> USE DEF Goto, Fail, rest, Elsewhere, loaderVars, heapVars
<1>1. pc = "load_image" /\ UNCHANGED <<e820, hdr, info, pkg, platform_addr, alloc_flag, xd,
                                      heap_current, heap_tops, memmap>>
  BY DEF LoadImage
<1>2. ~Launched /\ ~Launched' /\ RuntimeHidden'
  BY <1>1, NotYetLaunched DEF Before
<1>3. pc' \in {"lost", "out", "find_header"} /\ err' \in {err, "ERROR"}
  BY DEF LoadImage
<1>4. HeaderInv' /\ InfoInv'
  BY <1>1, <1>2, <1>3 DEF ChainInv, HeaderInv, InfoInv, LoaderPcs
<1>5. CASE UNCHANGED <<mem, content, image_addr>>
  <2>1. TypeOK'
    BY <1>1, <1>3, <1>5 DEF ChainInv, TypeOK, PreloadPcs
  <2>2. BuffersInv' /\ FirmwareMemoryIntact'
    BY <1>1, <1>3, <1>5 DEF ChainInv, BuffersInv, FirmwareMemoryIntact, Held
  <2> QED  BY <1>2, <1>4, <1>5, <2>1, <2>2 DEF ChainInv, KeepsRt
<1>6. ASSUME NEW base \in BelowLimit(Low - 1, ImagePages), NEW more,
             more = {} \/ more = {EndPage(base)},
             Write(Region(base, ImagePages) \union more, "image"),
             \/ mem' = Given(base, ImagePages, "image") /\ image_addr' = base
             \/ UNCHANGED <<mem, image_addr>>
      PROVE  ChainInv' /\ KeepsRt
  <2>1. base \in Pages /\ IsFree(base, ImagePages)  BY <1>6 DEF BelowLimit
  <2>2. ImagePages \in Nat /\ "image" \in PreloadLabels
    BY BufferPages DEF ChainInv, PreloadLabels
  <2>3. content' \in [Pages -> Contents]
    BY <1>6 DEF Write, ChainInv, TypeOK, Contents
  <2>4. TerminatorFits =>
          \A p \in Pages : mem[p] # "conventional" => content'[p] = content[p]
    <3>1. base \in Int  BY <2>1 DEF Pages
    <3>2. TerminatorFits => more \subseteq Region(base, ImagePages)
      BY <1>6, <3>1, BufferPages DEF ChainInv
    <3> QED  BY <1>6, <2>1, <3>2 DEF Write, IsFree
  <2>5. CASE UNCHANGED <<mem, image_addr>>
    <3>1. TypeOK'
      BY <1>1, <1>3, <2>3, <2>5 DEF ChainInv, TypeOK, PreloadPcs
    <3>2. BuffersInv'
      BY <1>1, <1>3, <2>5 DEF ChainInv, BuffersInv, Held
    <3>3. PackageFits /\ TerminatorFits =>
            \A p \in Pages : mem'[p] \in FirmwareLabels =>
              mem[p] \in FirmwareLabels /\ content'[p] = content[p]
      <4> HIDE DEF PackageFits, TerminatorFits
      <4> QED  BY <2>4, <2>5 DEF FirmwareLabels
    <3>4. FirmwareMemoryIntact'  BY <1>1, <3>3, FirmwareKept
    <3> QED  BY <1>2, <1>4, <2>5, <3>1, <3>2, <3>4 DEF ChainInv, KeepsRt
  <2>6. CASE mem' = Given(base, ImagePages, "image") /\ image_addr' = base
    <3>1. /\ Grows
          /\ Region(base, ImagePages) \subseteq Pages
          /\ \A p \in Region(base, ImagePages) : mem'[p] = "image"
      BY <2>1, <2>2, <2>6, GivenGrows DEF ChainInv
    <3>2. TypeOK'
      BY <1>1, <1>3, <2>1, <2>3, <2>6, <3>1 DEF ChainInv, TypeOK, PreloadPcs, Grows
    <3>3. platform_addr # Nowhere => Held(platform_addr, 1, "platform")
      BY <1>1 DEF ChainInv, BuffersInv
    <3>4. BuffersInv'
      BY <1>1, <2>6, <3>1, <3>3, HeldGrows DEF BuffersInv, Held
    <3>5. PackageFits /\ TerminatorFits =>
            \A p \in Pages : mem'[p] \in FirmwareLabels =>
              mem[p] \in FirmwareLabels /\ content'[p] = content[p]
      <4> HIDE DEF PackageFits, TerminatorFits
      <4> QED  BY <2>4, <3>1 DEF FirmwareLabels, Grows
    <3>6. FirmwareMemoryIntact'  BY <1>1, <3>5, FirmwareKept
    <3>7. KeepsRt  BY <3>1 DEF Grows, KeepsRt
    <3> QED  BY <1>2, <1>4, <3>2, <3>4, <3>6, <3>7 DEF ChainInv
  <2> QED  BY <1>6, <2>5, <2>6
<1>7. ASSUME NEW base \in BelowLimit(Low - 1, ImagePages),
             Write(Region(base, ImagePages), "image")
      PROVE  Write(Region(base, ImagePages) \union {}, "image")
  BY <1>7 DEF Write
<1> QED  BY <1>5, <1>6, <1>7 DEF LoadImage

LEMMA FindHeaderStep ==
  ASSUME ChainInv, FindHeader, Elsewhere
  PROVE  ChainInv' /\ KeepsRt
<1> USE DEF Goto, rest, Elsewhere, loaderVars, heapVars
<1>1. pc = "find_header" /\ pc' \in {"alloc_ldr", "out"}
      /\ UNCHANGED <<mem, content, info, image_addr, platform_addr, alloc_flag,
                     err, pkg, memmap, xd, e820, heap_current, heap_tops>>
  BY DEF FindHeader
<1>2. /\ hdr' \in [ldr_base : 0 .. Word - 1, ldr_size : Nat,
                    rt_base : 0 .. Word - 1, rt_size : Nat]
      /\ pc' = "alloc_ldr" => /\ hdr'.ldr_size \in {0, LdrSize}
                              /\ hdr'.rt_size \in {0, RtSize}
      /\ pc' = "out" => hdr' = hdr
  <2>1. LdrSize \in Nat /\ RtSize \in Nat /\ LdrBase \in 0 .. Word - 1
        /\ RtBase \in 0 .. Word - 1 /\ 0 \in 0 .. Word - 1
    BY HeaderAssumption, PlatformTyped
  <2> QED  BY <2>1 DEF FindHeader, ChainInv, TypeOK
<1>3. TypeOK'
  BY <1>1, <1>2 DEF ChainInv, TypeOK, PreloadPcs
<1>4. ~Launched /\ ~Launched' /\ RuntimeHidden'
  BY <1>1, NotYetLaunched DEF Before
<1>5. BuffersInv' /\ FirmwareMemoryIntact'
  BY <1>1 DEF ChainInv, BuffersInv, FirmwareMemoryIntact, Held
<1>6. ~alloc_flag  BY <1>1 DEF ChainInv, HeaderInv, LoaderPcs
<1>7. HeaderInv' /\ InfoInv'
  BY <1>1, <1>2, <1>4, <1>6 DEF HeaderInv, InfoInv, LoaderPcs
<1> QED  BY <1>1, <1>3, <1>4, <1>5, <1>7 DEF ChainInv, KeepsRt

(* Each region is taken at its full size, and the answer of the firmware   *)
(* leaves the address in one half and zero in the other.                   *)
LEMMA AllocLdrStep ==
  ASSUME Top <= Word, ChainInv, AllocLdr, Elsewhere
  PROVE  ChainInv' /\ KeepsRt
<1> USE DEF Goto, Fail, rest, Elsewhere, loaderVars, heapVars
<1>1. pc = "alloc_ldr" /\ pc' \in {"alloc_rt", "out"} /\ err' \in {err, "ERROR"}
      /\ UNCHANGED <<content, info, image_addr, platform_addr, alloc_flag,
                     pkg, memmap, xd, e820, heap_current, heap_tops>>
  BY DEF AllocLdr
<1>2. hdr \in [ldr_base : 0 .. Word - 1, ldr_size : Nat,
               rt_base : 0 .. Word - 1, rt_size : Nat]
  BY DEF ChainInv, TypeOK
<1>3. hdr.ldr_size \in {0, LdrSize} /\ hdr.rt_size \in {0, RtSize} /\ ~alloc_flag
  BY <1>1 DEF ChainInv, HeaderInv, LoaderPcs
<1>4. ~Launched /\ ~Launched' /\ RuntimeHidden'
  BY <1>1, NotYetLaunched DEF Before
<1>5. InfoInv'
  BY <1>1, <1>4 DEF InfoInv, LoaderPcs
<1>6. ASSUME NEW base \in RangesTaken(hdr.ldr_base, hdr.ldr_size),
             pc' = "alloc_rt",
             mem' = Given(base, SizeToPages(hdr.ldr_size), "ldr"),
             hdr' = [hdr EXCEPT !.ldr_base = base % Word,
                                !.ldr_size = base \div Word]
      PROVE  ChainInv' /\ KeepsRt
  <2>1. base \in Pages /\ IsFree(base, SizeToPages(hdr.ldr_size)) /\ hdr.ldr_size # 0
    BY <1>2, <1>6, RangesTakenFree
  <2>2. SizeToPages(hdr.ldr_size) = LdrPages
    BY <1>3, <2>1 DEF LdrPages
  <2>3. base % Word = base /\ base \div Word = 0  BY <2>1, PageIsItsLowHalf
  <2>4. base \in 0 .. Word - 1  BY <2>1, PlatformTyped DEF Pages
  <2>5. hdr' = [hdr EXCEPT !.ldr_base = base, !.ldr_size = 0]
    BY <1>6, <2>3
  <2>6. hdr'.ldr_base = base /\ hdr'.ldr_size = 0 /\ hdr'.rt_size = hdr.rt_size
        /\ hdr' \in [ldr_base : 0 .. Word - 1, ldr_size : Nat,
                     rt_base : 0 .. Word - 1, rt_size : Nat]
    BY <1>2, <2>4, <2>5
  <2>7. LdrPages \in Nat /\ "ldr" \in PreloadLabels
    BY LayoutTyped DEF PreloadLabels
  <2>8. /\ Grows
        /\ Region(base, LdrPages) \subseteq Pages
        /\ \A p \in Region(base, LdrPages) : mem'[p] = "ldr"
    BY <1>6, <2>1, <2>2, <2>7, GivenGrows DEF ChainInv
  <2>9. TypeOK'
    BY <1>1, <2>6, <2>8 DEF ChainInv, TypeOK, PreloadPcs, Grows
  <2>10. BuffersInv'
    BY <1>1, <2>8, HeldGrows DEF ChainInv, BuffersInv, Held
  <2>11. HeaderInv'
    BY <1>1, <1>3, <1>6, <2>6, <2>8 DEF HeaderInv, Held, LoaderPcs
  <2>12. FirmwareMemoryIntact' /\ KeepsRt
    BY <1>1, <2>8 DEF ChainInv, FirmwareMemoryIntact, KeepsRt, Grows
  <2> QED  BY <1>4, <1>5, <2>9, <2>10, <2>11, <2>12 DEF ChainInv
<1>7. ASSUME pc' = "out", UNCHANGED mem, hdr' = [hdr EXCEPT !.ldr_base = Low - 1]
      PROVE  ChainInv' /\ KeepsRt
  <2>1. Low - 1 \in 0 .. Word - 1  BY PlatformTyped
  <2>2. TypeOK'
    BY <1>1, <1>2, <1>7, <2>1 DEF ChainInv, TypeOK, PreloadPcs
  <2>3. BuffersInv' /\ FirmwareMemoryIntact'
    BY <1>1, <1>7 DEF ChainInv, BuffersInv, FirmwareMemoryIntact, Held
  <2>4. HeaderInv'
    BY <1>1, <1>3, <1>7 DEF HeaderInv, LoaderPcs
  <2> QED  BY <1>4, <1>5, <1>7, <2>2, <2>3, <2>4 DEF ChainInv, KeepsRt
<1> QED  BY <1>6, <1>7 DEF AllocLdr

LEMMA AllocRtStep ==
  ASSUME Top <= Word, ChainInv, AllocRt, Elsewhere
  PROVE  ChainInv' /\ KeepsRt
<1> USE DEF Goto, Fail, rest, Elsewhere, loaderVars, heapVars
<1>1. pc = "alloc_rt" /\ pc' \in {"copy", "out"} /\ err' \in {err, "ERROR"}
      /\ UNCHANGED <<content, info, image_addr, platform_addr,
                     pkg, memmap, xd, e820, heap_current, heap_tops>>
  BY DEF AllocRt
<1>2. hdr \in [ldr_base : 0 .. Word - 1, ldr_size : Nat,
               rt_base : 0 .. Word - 1, rt_size : Nat]
  BY DEF ChainInv, TypeOK
<1>3. hdr.ldr_size = 0 /\ hdr.rt_size \in {0, RtSize} /\ ~alloc_flag
      /\ Held(hdr.ldr_base, LdrPages, "ldr")
  BY <1>1 DEF ChainInv, HeaderInv, LoaderPcs
<1>4. ~Launched /\ ~Launched' /\ RuntimeHidden'
  BY <1>1, NotYetLaunched DEF Before
<1>5. InfoInv'
  BY <1>1, <1>4 DEF InfoInv, LoaderPcs
<1>6. ASSUME NEW base \in RangesTaken(hdr.rt_base, hdr.rt_size),
             pc' = "copy", alloc_flag' = TRUE,
             mem' = Given(base, SizeToPages(hdr.rt_size), "rt"),
             hdr' = [hdr EXCEPT !.rt_base = base % Word,
                                !.rt_size = base \div Word]
      PROVE  ChainInv' /\ KeepsRt
  <2>1. base \in Pages /\ IsFree(base, SizeToPages(hdr.rt_size)) /\ hdr.rt_size # 0
    BY <1>2, <1>6, RangesTakenFree
  <2>2. SizeToPages(hdr.rt_size) = RtPages
    BY <1>3, <2>1 DEF RtPages
  <2>3. base % Word = base /\ base \div Word = 0  BY <2>1, PageIsItsLowHalf
  <2>4. base \in 0 .. Word - 1  BY <2>1, PlatformTyped DEF Pages
  <2>5. hdr' = [hdr EXCEPT !.rt_base = base, !.rt_size = 0]
    BY <1>6, <2>3
  <2>6. hdr'.rt_base = base /\ hdr'.ldr_size = 0 /\ hdr'.ldr_base = hdr.ldr_base
        /\ hdr' \in [ldr_base : 0 .. Word - 1, ldr_size : Nat,
                     rt_base : 0 .. Word - 1, rt_size : Nat]
    BY <1>2, <1>3, <2>4, <2>5
  <2>7. RtPages \in Nat /\ "rt" \in PreloadLabels
    BY LayoutTyped DEF PreloadLabels
  <2>8. /\ Grows
        /\ Region(base, RtPages) \subseteq Pages
        /\ \A p \in Region(base, RtPages) : mem'[p] = "rt"
    BY <1>6, <2>1, <2>2, <2>7, GivenGrows DEF ChainInv
  <2>9. TypeOK'
    BY <1>1, <1>6, <2>6, <2>8 DEF ChainInv, TypeOK, PreloadPcs, Grows
  <2>10. BuffersInv'
    BY <1>1, <2>8, HeldGrows DEF ChainInv, BuffersInv, Held
  <2>11. HeaderInv'
    BY <1>1, <1>3, <1>6, <2>6, <2>8, HeldGrows DEF HeaderInv, Held, LoaderPcs
  <2>12. FirmwareMemoryIntact' /\ KeepsRt
    BY <1>1, <2>8 DEF ChainInv, FirmwareMemoryIntact, KeepsRt, Grows
  <2> QED  BY <1>4, <1>5, <2>9, <2>10, <2>11, <2>12 DEF ChainInv
<1>7. ASSUME pc' = "out", UNCHANGED <<mem, alloc_flag>>,
             hdr' = [hdr EXCEPT !.rt_base = Low - 1]
      PROVE  ChainInv' /\ KeepsRt
  <2>1. Low - 1 \in 0 .. Word - 1  BY PlatformTyped
  <2>2. TypeOK'
    BY <1>1, <1>2, <1>7, <2>1 DEF ChainInv, TypeOK, PreloadPcs
  <2>3. BuffersInv' /\ FirmwareMemoryIntact'
    BY <1>1, <1>7 DEF ChainInv, BuffersInv, FirmwareMemoryIntact, Held
  <2>4. HeaderInv'
    BY <1>1, <1>3, <1>7 DEF HeaderInv, LoaderPcs
  <2> QED  BY <1>4, <1>5, <1>7, <2>2, <2>3, <2>4 DEF ChainInv, KeepsRt
<1> QED  BY <1>6, <1>7 DEF AllocRt

(* The copy of a package that fits is no longer than the load-time memory. *)
LEMMA CopyPackageStep ==
  ASSUME ChainInv, CopyPackage, Elsewhere
  PROVE  ChainInv' /\ KeepsRt
<1> USE DEF Goto, rest, preloadVars, Elsewhere, loaderVars, heapVars
<1>1. pc = "copy" /\ pc' \in {"alloc_platform", "overrun"}
      /\ UNCHANGED <<mem, info, hdr, image_addr, platform_addr, alloc_flag, err,
                     pkg, memmap, xd, e820, heap_current, heap_tops>>
  BY DEF CopyPackage
<1>2. Held(hdr.ldr_base, LdrPages, "ldr")
  BY <1>1 DEF ChainInv, HeaderInv, LoaderPcs
<1>3. PackageFits =>
        Region(hdr.ldr_base, ImagePages) \subseteq Region(hdr.ldr_base, LdrPages)
  <2>1. hdr.ldr_base \in Int  BY PlatformTyped DEF ChainInv, TypeOK
  <2>2. /\ ImagePages \in Nat
        /\ PackageFits => ImagePages <= LdrPages
    BY BufferPages DEF ChainInv
  <2> HIDE DEF ImagePages, PackageFits
  <2> QED  BY <2>1, <2>2, LayoutTyped DEF Region
<1>4. /\ content' \in [Pages -> Contents]
      /\ PackageFits =>
           \A p \in Pages : mem[p] # "ldr" => content'[p] = content[p]
  BY <1>2, <1>3 DEF CopyPackage, Write, Held, ChainInv, TypeOK, Contents
<1>5. TypeOK'
  BY <1>1, <1>4 DEF ChainInv, TypeOK, PreloadPcs
<1>6. ~Launched /\ ~Launched' /\ RuntimeHidden'
  BY <1>1, NotYetLaunched DEF Before
<1>7. BuffersInv' /\ HeaderInv'
  BY <1>1 DEF ChainInv, BuffersInv, HeaderInv, Held, LoaderPcs
<1>8. InfoInv'
  BY <1>1, <1>6 DEF InfoInv, LoaderPcs
<1>9. FirmwareMemoryIntact'
  BY <1>1, <1>4 DEF ChainInv, FirmwareMemoryIntact, FirmwareLabels
<1> QED  BY <1>1, <1>5, <1>6, <1>7, <1>8, <1>9 DEF ChainInv, KeepsRt

LEMMA AllocPlatformStep ==
  ASSUME ChainInv, AllocPlatform, Elsewhere
  PROVE  ChainInv' /\ KeepsRt
<1> USE DEF Goto, Fail, rest, Elsewhere, loaderVars, heapVars
<1>1. pc = "alloc_platform" /\ pc' \in {"take_map", "out"} /\ err' \in {err, "ERROR"}
      /\ UNCHANGED <<content, info, hdr, image_addr, alloc_flag,
                     pkg, memmap, xd, e820, heap_current, heap_tops>>
  BY DEF AllocPlatform
<1>2. ~Launched /\ ~Launched' /\ RuntimeHidden'
  BY <1>1, NotYetLaunched DEF Before
<1>3. InfoInv'
  BY <1>1, <1>2 DEF InfoInv, LoaderPcs
<1>4. /\ Held(hdr.ldr_base, LdrPages, "ldr") /\ Held(hdr.rt_base, RtPages, "rt")
      /\ hdr.ldr_size = 0
      /\ image_addr # Nowhere => Held(image_addr, ImagePages, "image")
      /\ platform_addr # Nowhere => Held(platform_addr, 1, "platform")
  BY <1>1 DEF ChainInv, BuffersInv, HeaderInv, LoaderPcs
<1>5. ASSUME NEW base \in BelowLimit(Low - 1, 1),
             mem' = Given(base, 1, "platform"), platform_addr' = base
      PROVE  ChainInv' /\ KeepsRt
  <2>1. base \in Pages /\ IsFree(base, 1) /\ "platform" \in PreloadLabels
    BY <1>5 DEF BelowLimit, PreloadLabels
  <2>2. /\ Grows
        /\ Region(base, 1) \subseteq Pages
        /\ \A p \in Region(base, 1) : mem'[p] = "platform"
    BY <1>5, <2>1, GivenGrows DEF ChainInv
  <2>3. TypeOK'
    BY <1>1, <1>5, <2>1, <2>2 DEF ChainInv, TypeOK, PreloadPcs, Grows
  <2>4. BuffersInv'
    <3>1. /\ Region(base, 1) \subseteq Pages
          /\ \A p \in Region(base, 1) : mem'[p] = "platform"
      BY <2>2
    <3>2. image_addr # Nowhere =>
            /\ Region(image_addr, ImagePages) \subseteq Pages
            /\ \A p \in Region(image_addr, ImagePages) : mem'[p] = "image"
      BY <1>4, <2>2, HeldGrows
    <3> QED  BY <1>1, <1>5, <3>1, <3>2 DEF BuffersInv, Held
  <2>5. HeaderInv'
    BY <1>1, <1>4, <2>2, HeldGrows DEF HeaderInv, Held, LoaderPcs
  <2>6. FirmwareMemoryIntact' /\ KeepsRt
    BY <1>1, <2>2 DEF ChainInv, FirmwareMemoryIntact, KeepsRt, Grows
  <2> QED  BY <1>2, <1>3, <2>3, <2>4, <2>5, <2>6 DEF ChainInv
<1>6. ASSUME pc' = "out", UNCHANGED <<mem, platform_addr>>
      PROVE  ChainInv' /\ KeepsRt
  <2>1. TypeOK'
    BY <1>1, <1>6 DEF ChainInv, TypeOK, PreloadPcs
  <2>2. BuffersInv' /\ FirmwareMemoryIntact'
    BY <1>1, <1>4, <1>6 DEF ChainInv, BuffersInv, FirmwareMemoryIntact, Held
  <2>3. HeaderInv'
    BY <1>1, <1>4, <1>6 DEF HeaderInv, LoaderPcs
  <2> QED  BY <1>2, <1>3, <1>6, <2>1, <2>2, <2>3 DEF ChainInv, KeepsRt
<1> QED  BY <1>5, <1>6 DEF AllocPlatform

(* The map that the loader is given is the account at that time, and it is *)
(* where the loader is told.                                               *)
LEMMA TakeMapStep ==
  ASSUME Top <= Word, ChainInv, TakeMap, Elsewhere
  PROVE  ChainInv' /\ KeepsRt
<1> USE DEF Goto, preloadVars, Elsewhere, loaderVars, heapVars
<1>1. pc = "take_map" /\ pc' = "check_vmx"
      /\ UNCHANGED <<hdr, image_addr, platform_addr, alloc_flag, err,
                     pkg, xd, e820, heap_current, heap_tops>>
  BY DEF TakeMap
<1>2. ~Launched /\ ~Launched' /\ RuntimeHidden'
  BY <1>1, NotYetLaunched DEF Before
<1>3. /\ Held(hdr.ldr_base, LdrPages, "ldr") /\ Held(hdr.rt_base, RtPages, "rt")
      /\ hdr.ldr_size = 0
      /\ image_addr # Nowhere => Held(image_addr, ImagePages, "image")
      /\ platform_addr # Nowhere => Held(platform_addr, 1, "platform")
  BY <1>1 DEF ChainInv, BuffersInv, HeaderInv, LoaderPcs
<1>4. mem \in [Pages -> Labels] /\ content \in [Pages -> Contents]
      /\ platform_addr \in Pages \union {Nowhere}
  BY DEF ChainInv, TypeOK
<1>5. platform_addr \in Pages => mem[platform_addr] = "platform"
  <2>1. platform_addr \in Pages => platform_addr # Nowhere
    BY DEF Pages, Nowhere
  <2>2. platform_addr \in Pages => platform_addr \in Region(platform_addr, 1)
    BY DEF Pages, Region
  <2> QED  BY <1>3, <2>1, <2>2 DEF Held
<1>6. ASSUME NEW base \in BelowLimit(Top - 1, 1), NEW size \in MapSizes,
             mem' = Given(base, 1, "map"), memmap' = mem',
             content' = [content EXCEPT ![base] = "map", ![platform_addr] = "info"],
             info' = [load_addr |-> hdr.ldr_base, run_addr |-> hdr.rt_base,
                      memmap_addr |-> base % Word, memmap_size |-> size]
      PROVE  ChainInv' /\ KeepsRt
  <2>1. base \in Pages /\ IsFree(base, 1) /\ "map" \in PreloadLabels
    BY <1>6 DEF BelowLimit, PreloadLabels
  <2>2. base % Word = base  BY <2>1, PageIsItsLowHalf
  <2>3. /\ Grows
        /\ Region(base, 1) \subseteq Pages
        /\ \A p \in Region(base, 1) : mem'[p] = "map"
    BY <1>6, <2>1, GivenGrows DEF ChainInv
  <2>4. base \in Region(base, 1)  BY <2>1 DEF Pages, Region
  <2>5. mem[base] = "conventional" /\ mem'[base] = "map"
    BY <2>1, <2>3, <2>4 DEF IsFree
  <2>6. base # platform_addr  BY <1>5, <2>1, <2>5
  <2>7. content' \in [Pages -> Contents]  BY <1>4, <1>6 DEF Contents
  <2>8. content'[base] = "map"  BY <1>4, <1>6, <2>1, <2>6
  <2>9. \A p \in Pages : p # base /\ p # platform_addr => content'[p] = content[p]
    BY <1>4, <1>6
  <2>10. size \in Nat  BY <1>6, HeaderAssumption
  <2>11. info'.memmap_size = size /\ info'.memmap_addr = base
         /\ info'.load_addr = hdr.ldr_base /\ info'.run_addr = hdr.rt_base
    BY <1>6, <2>2
  <2>12. TypeOK'
    BY <1>1, <2>3, <2>7, <2>10, <2>11 DEF ChainInv, TypeOK, PreloadPcs, Grows
  <2>13. BuffersInv'
    <3>1. image_addr # Nowhere => Held(image_addr, ImagePages, "image")'
      <4>1. image_addr' = image_addr /\ ImagePages' = ImagePages
        BY <1>1 DEF ImagePages, Buffer
      <4>2. ASSUME Held(image_addr, ImagePages, "image")
            PROVE  Held(image_addr, ImagePages, "image")'
        <5>1. /\ Region(image_addr, ImagePages) \subseteq Pages
              /\ \A p \in Region(image_addr, ImagePages) : mem'[p] = "image"
          BY <2>3, <4>2, HeldGrows
        <5> QED  BY <4>1, <5>1 DEF Held
      <4> QED  BY <1>3, <4>1, <4>2
    <3>2. platform_addr # Nowhere => Held(platform_addr, 1, "platform")'
      <4>1. platform_addr' = platform_addr  BY <1>1
      <4>2. ASSUME Held(platform_addr, 1, "platform")
            PROVE  Held(platform_addr, 1, "platform")'
        <5>1. /\ Region(platform_addr, 1) \subseteq Pages
              /\ \A p \in Region(platform_addr, 1) : mem'[p] = "platform"
          BY <2>3, <4>2, HeldGrows
        <5> QED  BY <4>1, <5>1 DEF Held
      <4> QED  BY <1>3, <4>1, <4>2
    <3> QED  BY <1>1, <3>1, <3>2 DEF BuffersInv
  <2>14. HeaderInv'
    BY <1>1, <1>3, <2>3, HeldGrows DEF HeaderInv, Held, LoaderPcs
  <2>15. InfoInv'
    BY <1>1, <1>2, <1>6, <2>1, <2>5, <2>8, <2>11 DEF InfoInv, LoaderPcs
  <2>16. FirmwareMemoryIntact'
    <3>1. ASSUME NEW p \in Pages, mem'[p] \in FirmwareLabels
          PROVE  mem[p] \in FirmwareLabels /\ content'[p] = content[p]
      <4>1. mem[p] = mem'[p]  BY <2>3, <3>1 DEF Grows
      <4>2. p # base /\ p # platform_addr
        BY <1>5, <2>5, <3>1, <4>1 DEF FirmwareLabels
      <4> QED  BY <2>9, <3>1, <4>1, <4>2
    <3> QED  BY <1>1, <3>1, FirmwareKept
  <2>17. KeepsRt  BY <2>3 DEF KeepsRt, Grows
  <2> QED  BY <1>2, <2>12, <2>13, <2>14, <2>15, <2>16, <2>17 DEF ChainInv
<1>7. ASSUME NEW size \in MapSizes,
             content' = [content EXCEPT ![platform_addr] = "info"],
             info' = [load_addr |-> hdr.ldr_base, run_addr |-> hdr.rt_base,
                      memmap_addr |-> Nowhere, memmap_size |-> size],
             UNCHANGED <<mem, memmap>>
      PROVE  ChainInv' /\ KeepsRt
  <2>1. content' \in [Pages -> Contents]  BY <1>4, <1>7 DEF Contents
  <2>2. \A p \in Pages : p # platform_addr => content'[p] = content[p]
    BY <1>4, <1>7
  <2>3. size \in Nat  BY HeaderAssumption
  <2>4. info'.memmap_size = size /\ info'.memmap_addr = Nowhere
        /\ info'.load_addr = hdr.ldr_base /\ info'.run_addr = hdr.rt_base
    BY <1>7
  <2>5. TypeOK'
    BY <1>1, <1>7, <2>1, <2>3, <2>4 DEF ChainInv, TypeOK, PreloadPcs
  <2>6. BuffersInv' /\ HeaderInv'
    BY <1>1, <1>3, <1>7 DEF BuffersInv, HeaderInv, Held, LoaderPcs
  <2>7. InfoInv'
    BY <1>1, <1>2, <2>4 DEF InfoInv, MapGiven, LoaderPcs
  <2>8. FirmwareMemoryIntact'
    <3>1. \A p \in Pages : mem'[p] \in FirmwareLabels =>
            mem[p] \in FirmwareLabels /\ content'[p] = content[p]
      BY <1>5, <1>7, <2>2 DEF FirmwareLabels
    <3> QED  BY <1>1, <3>1, FirmwareKept
  <2> QED  BY <1>2, <1>7, <2>5, <2>6, <2>7, <2>8 DEF ChainInv, KeepsRt
<1> QED  BY <1>6, <1>7 DEF TakeMap, MapTaken

(* Freeing a range that bears one label touches no page of another.        *)
LEMMA FreedTouches ==
  ASSUME NEW account \in [Pages -> Labels], NEW b, NEW n, NEW label \in PreloadLabels,
         \A p \in Region(b, n) : account[p] = label
  PROVE  /\ Freed(account, b, n) \in [Pages -> Labels]
         /\ \A p \in Pages : account[p] # label => Freed(account, b, n)[p] = account[p]
         /\ \A p \in Pages : Freed(account, b, n)[p] \in {account[p], "conventional"}
  BY DEF Freed, Labels

LEMMA FreeBuffersStep ==
  ASSUME ChainInv, FreeBuffers, Elsewhere
  PROVE  ChainInv' /\ KeepsRt
<1> USE DEF Goto, rest, preloadVars, Elsewhere, loaderVars, heapVars
<1>1. pc = "out" /\ pc' = "free_ldr"
      /\ UNCHANGED <<content, info, memmap, hdr, image_addr, platform_addr,
                     alloc_flag, err, pkg, xd, e820, heap_current, heap_tops>>
  BY DEF FreeBuffers
<1> DEFINE withoutImage == IF image_addr # Nowhere
                           THEN Freed(mem, image_addr, ImagePages) ELSE mem
<1>2. mem \in [Pages -> Labels]  BY DEF ChainInv, TypeOK
<1>3. /\ image_addr # Nowhere => Held(image_addr, ImagePages, "image")
      /\ platform_addr # Nowhere => Held(platform_addr, 1, "platform")
  BY <1>1 DEF ChainInv, BuffersInv
<1>4. "image" \in PreloadLabels /\ "platform" \in PreloadLabels  BY DEF PreloadLabels
<1>5. /\ withoutImage \in [Pages -> Labels]
      /\ \A p \in Pages : mem[p] # "image" => withoutImage[p] = mem[p]
      /\ \A p \in Pages : withoutImage[p] \in {mem[p], "conventional"}
  BY <1>2, <1>3, <1>4, FreedTouches DEF Held
<1>6. platform_addr # Nowhere =>
        \A p \in Region(platform_addr, 1) : withoutImage[p] = "platform"
  BY <1>3, <1>5 DEF Held
<1>7. mem' = IF platform_addr # Nowhere
             THEN Freed(withoutImage, platform_addr, 1) ELSE withoutImage
  BY DEF FreeBuffers
<1> HIDE DEF withoutImage
<1>8. /\ mem' \in [Pages -> Labels]
      /\ \A p \in Pages : withoutImage[p] # "platform" => mem'[p] = withoutImage[p]
      /\ \A p \in Pages : mem'[p] \in {withoutImage[p], "conventional"}
  BY <1>4, <1>5, <1>6, <1>7, FreedTouches
<1>9. /\ \A p \in Pages : mem[p] \notin {"image", "platform"} => mem'[p] = mem[p]
      /\ \A p \in Pages : mem'[p] \in {mem[p], "conventional"}
  BY <1>5, <1>8
<1>10. TypeOK'
  BY <1>1, <1>8 DEF ChainInv, TypeOK, PreloadPcs
<1>11. BuffersInv' /\ HeaderInv'
  BY <1>1 DEF ChainInv, BuffersInv, HeaderInv, LoaderPcs
<1>12. InfoInv'
  BY <1>1 DEF ChainInv, InfoInv, Launched, RuntimeArea, LoaderPcs
<1>13. FirmwareMemoryIntact'
  BY <1>1, <1>9 DEF ChainInv, FirmwareMemoryIntact, FirmwareLabels
<1>14. RuntimeHidden'
  <2> SUFFICES ASSUME Launched, MapGiven
               PROVE  /\ \A p \in RuntimeArea : mem'[p] = "rt" /\ e820[p] = "reserved"
                      /\ \A p \in Pages : e820[p] = "memory" =>
                           mem'[p] \notin {"rt", "runtime_services", "acpi", "nvs"}
    BY <1>1 DEF RuntimeHidden, Launched, MapGiven, RuntimeArea
  <2>1. /\ \A p \in RuntimeArea : mem[p] = "rt" /\ e820[p] = "reserved"
        /\ \A p \in Pages : e820[p] = "memory" =>
             mem[p] \notin {"rt", "runtime_services", "acpi", "nvs"}
    BY DEF ChainInv, RuntimeHidden
  <2>2. ASSUME NEW p \in RuntimeArea PROVE mem'[p] = "rt"
    <3>1. p \in Pages  BY DEF ChainInv, InfoInv
    <3> QED  BY <1>9, <2>1, <3>1
  <2> QED  BY <1>9, <2>1, <2>2
<1>15. KeepsRt  BY <1>9 DEF KeepsRt
<1> QED  BY <1>10, <1>11, <1>12, <1>13, <1>14, <1>15 DEF ChainInv

-----------------------------------------------------------------------------
(* The loader's steps.                                                     *)
LEMMA LoaderKnows ==
  ASSUME ChainInv, pc \in LoaderPcs
  PROVE  /\ info.load_addr = hdr.ldr_base /\ info.run_addr = hdr.rt_base
         /\ hdr.ldr_base \in Nat /\ hdr.rt_base \in Nat
         /\ Held(hdr.ldr_base, LdrPages, "ldr")
         /\ Held(hdr.rt_base, RtPages, "rt")
<1>1. hdr.ldr_base \in 0 .. Word - 1 /\ hdr.rt_base \in 0 .. Word - 1
  BY DEF ChainInv, TypeOK
<1>2. hdr.ldr_base \in Nat /\ hdr.rt_base \in Nat  BY <1>1, PlatformTyped
<1> QED  BY <1>2 DEF ChainInv, HeaderInv, InfoInv

(* What the loader writes in the load-time or the runtime memory is        *)
(* neither the firmware's nor the memory map.                              *)
LoaderWrites(pages, what) ==
  /\ Write(pages, what) /\ what \in Contents
  /\ \/ pages \subseteq Region(hdr.ldr_base, LdrPages)
     \/ pages \subseteq Region(hdr.rt_base, RtPages)
  /\ xd' \in [files : SUBSET Bins, loaded : SUBSET Bins]
  /\ UNCHANGED <<fixed, preloadVars, ops, e820, heapVars>>

LEMMA LoaderWriteStep ==
  ASSUME ChainInv, pc \in LoaderPcs \ {"startap", "xmon"}, pc' \in LoaderPcs,
         NEW pages, NEW what, LoaderWrites(pages, what)
  PROVE  ChainInv' /\ KeepsRt
<1> USE DEF fixed, preloadVars, heapVars
<1>1. UNCHANGED <<mem, info, memmap, hdr, image_addr, platform_addr, alloc_flag,
                  err, pkg, e820, heap_current, heap_tops>>
  BY DEF LoaderWrites
<1>2. /\ content' \in [Pages -> Contents]
      /\ \A p \in Pages : mem[p] \notin {"ldr", "rt"} => content'[p] = content[p]
  BY LoaderKnows DEF LoaderWrites, Write, Held, ChainInv, TypeOK, Contents
<1>3. TypeOK'
  BY <1>1, <1>2 DEF LoaderWrites, ChainInv, TypeOK
<1>4. ~Launched /\ ~Launched'
  BY <1>1 DEF ChainInv, InfoInv, Launched, LoaderPcs
<1>5. BuffersInv' /\ HeaderInv'
  BY <1>1 DEF ChainInv, BuffersInv, HeaderInv, Held, LoaderPcs
<1>6. InfoInv'
  BY <1>1, <1>2, <1>4 DEF ChainInv, InfoInv, MapGiven
<1>7. FirmwareMemoryIntact'
  BY <1>1, <1>2 DEF ChainInv, FirmwareMemoryIntact, FirmwareLabels
<1>8. RuntimeHidden'  BY <1>4 DEF RuntimeHidden
<1> QED  BY <1>1, <1>3, <1>5, <1>6, <1>7, <1>8 DEF ChainInv, KeepsRt

(* A step of the loader that writes no memory.                             *)
LEMMA LoaderQuietStep ==
  ASSUME ChainInv, pc \in LoaderPcs, pc' \in LoaderPcs \union {"resumed"},
         pc \in {"startap", "xmon"} => pc' \in {"xmon", "resumed"},
         UNCHANGED <<fixed, content, preloadVars, xd, e820>>,
         heap_tops' \in {0, HeapBase + HeapBytes}, heap_current' \in 0 .. heap_tops'
  PROVE  ChainInv' /\ KeepsRt
<1> USE DEF fixed, preloadVars
<1>1. Quiet  BY DEF Quiet
<1>2. Onward
  BY DEF Onward, LoaderPcs, ChainInv, InfoInv, HeaderInv
<1>3. TypeOK'  BY DEF ChainInv, TypeOK, LoaderPcs, PreloadPcs
<1> QED  BY <1>1, <1>2, <1>3, QuietStep DEF KeepsRt, Quiet

LEMMA StarterMainStep ==
  ASSUME ChainInv, StarterMain, UNCHANGED preloadVars
  PROVE  ChainInv' /\ KeepsRt
<1> USE DEF Deadloop, heapVars
<1>1. pc = "starter" /\ pc' \in LoaderPcs /\ UNCHANGED <<fixed, ops, e820, heapVars>>
  BY DEF StarterMain, LoaderPcs
<1>2. pc \in LoaderPcs \ {"startap", "xmon"}  BY <1>1 DEF LoaderPcs
<1>3. heap_tops' \in {0, HeapBase + HeapBytes} /\ heap_current' \in 0 .. heap_tops'
  BY <1>1 DEF ChainInv, TypeOK
<1>4. CASE UNCHANGED <<content, xd>>
  BY <1>1, <1>2, <1>3, <1>4, LoaderQuietStep
<1>5. CASE Write(DescArea, "desc") /\ xd' = [xd EXCEPT !.files = pkg.listed]
  <2>1. DescArea \subseteq Region(hdr.ldr_base, LdrPages)
    BY <1>2, LoaderKnows, LayoutTyped DEF DescArea, Region
  <2>2. xd' \in [files : SUBSET Bins, loaded : SUBSET Bins]
    <3>1. pkg.listed \subseteq Bins
      BY PlatformAssumption DEF ChainInv, TypeOK
    <3> QED  BY <1>5, <3>1 DEF ChainInv, TypeOK
  <2>3. LoaderWrites(DescArea, "desc")
    BY <1>1, <1>5, <2>1, <2>2 DEF LoaderWrites, Contents
  <2> QED  BY <1>1, <1>2, <2>3, LoaderWriteStep
<1> QED  BY <1>4, <1>5 DEF StarterMain

(* An image that fits its space is written inside it.                      *)
LEMMA LoadStep ==
  ASSUME ChainInv, UNCHANGED preloadVars,
         NEW bin \in Bins, NEW base \in Nat, NEW space \in Nat,
         NEW from \in LoaderPcs \ {"startap", "xmon"}, NEW to \in LoaderPcs,
         \/ Region(base, space) \subseteq Region(hdr.ldr_base, LdrPages)
         \/ Region(base, space) \subseteq Region(hdr.rt_base, RtPages),
         Load(bin, base, space, from, to)
  PROVE  ChainInv' /\ KeepsRt
<1> USE DEF Deadloop, heapVars
<1> DEFINE image == pkg.bins[bin]
<1>1. pc = from /\ pc' \in LoaderPcs /\ UNCHANGED <<fixed, ops, e820, heapVars>>
  BY DEF Load, LoaderPcs
<1>2. heap_tops' \in {0, HeapBase + HeapBytes} /\ heap_current' \in 0 .. heap_tops'
  BY <1>1 DEF ChainInv, TypeOK
<1>3. CASE UNCHANGED <<content, xd>>
  BY <1>1, <1>2, <1>3, LoaderQuietStep
<1>4. CASE /\ InfoFits(image, space)
           /\ Write(Region(base, image.pages), bin)
           /\ xd' = IF image.loads THEN [xd EXCEPT !.loaded = @ \union {bin}] ELSE xd
  <2>1. image.pages \in Nat
    BY PlatformAssumption DEF ChainInv, TypeOK, ImageOf
  <2>2. Region(base, image.pages) \subseteq Region(base, space)
    BY <1>4, <2>1 DEF InfoFits, Region
  <2>3. xd' \in [files : SUBSET Bins, loaded : SUBSET Bins]
    BY <1>4 DEF ChainInv, TypeOK
  <2>4. LoaderWrites(Region(base, image.pages), bin)
    BY <1>1, <1>4, <2>2, <2>3 DEF LoaderWrites, Contents
  <2> QED  BY <1>1, <2>4, LoaderWriteStep
<1> QED  BY <1>3, <1>4 DEF Load

LEMMA LoadsStep ==
  ASSUME ChainInv, UNCHANGED preloadVars,
         RunXmonLoader \/ LoadXmon \/ LoadStartap
  PROVE  ChainInv' /\ KeepsRt
<1>1. pc \in LoaderPcs
  BY DEF RunXmonLoader, LoadXmon, LoadStartap, Load, Deadloop, LoaderPcs
<1>2. /\ LoaderBase \in Nat
      /\ Region(LoaderBase, LoaderPages) \subseteq Region(hdr.ldr_base, LdrPages)
  BY <1>1, LoaderKnows, LayoutTyped DEF LoaderBase, Region
<1>3. /\ XmonBase \in Nat
      /\ Region(XmonBase, XmonPages) \subseteq Region(hdr.rt_base, RtPages)
  BY <1>1, LoaderKnows, LayoutTyped DEF XmonBase, Region
<1>4. /\ StartapBase \in Nat
      /\ Region(StartapBase, StartapPages) \subseteq Region(hdr.rt_base, RtPages)
  BY <1>1, LoaderKnows, LayoutTyped DEF StartapBase, Region
<1>5. /\ {"run_xmon_loader", "load_xmon", "load_startap"}
           \subseteq LoaderPcs \ {"startap", "xmon"}
      /\ {"xmon_loader", "load_startap", "cpu_state"} \subseteq LoaderPcs
      /\ {"xmon_loader", "xmon", "startap"} \subseteq Bins
  BY DEF LoaderPcs, Bins
<1>6. LoaderPages \in Nat /\ XmonPages \in Nat /\ StartapPages \in Nat
  BY LayoutTyped
<1>7. CASE RunXmonLoader
  BY <1>2, <1>5, <1>6, <1>7, LoadStep DEF RunXmonLoader
<1>8. CASE LoadXmon
  BY <1>3, <1>5, <1>6, <1>8, LoadStep DEF LoadXmon
<1>9. CASE LoadStartap
  BY <1>4, <1>5, <1>6, <1>9, LoadStep DEF LoadStartap
<1> QED  BY <1>7, <1>8, <1>9

(* What allocate_memory gives out keeps the pointer inside the heap.       *)
LEMMA HeapStaysTyped ==
  ASSUME ChainInv, NEW size \in Nat, NEW from, NEW to, OnHeap(size, from, to)
  PROVE  heap_tops' \in {0, HeapBase + HeapBytes} /\ heap_current' \in 0 .. heap_tops'
<1>1. heap_tops \in {0, HeapBase + HeapBytes} /\ heap_current \in 0 .. heap_tops
  BY DEF ChainInv, TypeOK
<1>2. HeapBase \in Nat /\ HeapBytes \in Nat /\ Width \in Nat
      /\ HeapBase + HeapBytes < Width
  BY ConstantsTyped
<1>3. heap_tops \in 0 .. Width - 1 /\ heap_tops' = heap_tops
  BY <1>1, <1>2 DEF OnHeap, AllocateMemory, heapVars
<1>4. CASE AllocateMemory(size)
  <2>1. heap_current + size \in 0 .. heap_tops
    BY <1>1, <1>3, <1>4 DEF AllocateMemory, Fits
  <2>2. (heap_current + size) % Width = heap_current + size
    BY <1>2, <1>3, <2>1
  <2> QED  BY <1>1, <1>3, <1>4, <2>1, <2>2 DEF AllocateMemory
<1>5. CASE UNCHANGED heapVars
  BY <1>1, <1>5 DEF heapVars
<1> QED  BY <1>4, <1>5 DEF OnHeap

LEMMA HeapUsersStep ==
  ASSUME ChainInv, UNCHANGED preloadVars,
         InitLoader \/ SaveCpuState \/ SetupPrimaryGuest \/ CallStartap \/ StartGuest
  PROVE  ChainInv' /\ KeepsRt
<1> USE DEF loaderVars, heapVars, Deadloop
<1>1. CpuStateSize \in Nat /\ GuestSize \in Nat
  BY LayoutAssumption, RequestsAssumption
<1>2. heap_tops' \in {0, HeapBase + HeapBytes} /\ heap_current' \in 0 .. heap_tops'
  <2>1. CASE InitLoader
    <3>1. HeapBase % Width = HeapBase /\ (HeapBase + HeapBytes) % Width = HeapBase + HeapBytes
      BY ConstantsTyped
    <3> QED  BY <2>1, <3>1, ConstantsTyped DEF InitLoader, InitializeMemoryManager
  <2>2. CASE SaveCpuState
    BY <1>1, <2>2, HeapStaysTyped DEF SaveCpuState
  <2>3. CASE SetupPrimaryGuest
    BY <1>1, <2>3, HeapStaysTyped DEF SetupPrimaryGuest
  <2>4. CASE CallStartap \/ StartGuest
    BY <2>4 DEF CallStartap, StartGuest, ChainInv, TypeOK
  <2> QED  BY <2>1, <2>2, <2>3, <2>4
<1>3. /\ pc \in LoaderPcs /\ pc' \in LoaderPcs \union {"resumed"}
      /\ pc \in {"startap", "xmon"} => pc' \in {"xmon", "resumed"}
  BY DEF InitLoader, SaveCpuState, SetupPrimaryGuest, CallStartap, StartGuest,
         OnHeap, LoaderPcs
<1>4. UNCHANGED <<fixed, content, preloadVars, xd, e820>>
  BY DEF InitLoader, SaveCpuState, SetupPrimaryGuest, CallStartap, StartGuest
<1> QED  BY <1>2, <1>3, <1>4, LoaderQuietStep

(* The table is made from the account in which the runtime memory is       *)
(* reserved, because the map is read where it was put.                     *)
LEMMA SetupStartupEnvStep ==
  ASSUME ChainInv, UNCHANGED preloadVars, SetupStartupEnv
  PROVE  ChainInv' /\ KeepsRt
<1> USE DEF Deadloop, fixed, preloadVars
<1>1. pc = "startup_env" /\ pc' \in {"startap", "deadloop"}
      /\ UNCHANGED <<mem, vmx, pkg, info, memmap, content, xd, hdr, image_addr,
                     platform_addr, alloc_flag, err>>
  BY DEF SetupStartupEnv, OnHeap
<1>2. heap_tops' \in {0, HeapBase + HeapBytes} /\ heap_current' \in 0 .. heap_tops'
  <2>1. AlignForward(info.memmap_size, PageSize) \in Nat
    BY ConstantsTyped, AlignForwardUp DEF ChainInv, TypeOK
  <2> QED  BY <2>1, HeapStaysTyped DEF SetupStartupEnv
<1>3. pc \in LoaderPcs /\ pc' \in LoaderPcs  BY <1>1 DEF LoaderPcs
<1>4. CASE UNCHANGED e820
  BY <1>1, <1>2, <1>3, <1>4, LoaderQuietStep
<1>5. CASE pc' = "startap" /\ e820' \in TablesRead
  <2>1. TypeOK'
    BY <1>1, <1>2, <1>3 DEF ChainInv, TypeOK
  <2>2. BuffersInv' /\ HeaderInv' /\ FirmwareMemoryIntact'
    BY <1>1 DEF ChainInv, BuffersInv, HeaderInv, FirmwareMemoryIntact, Held, LoaderPcs
  <2>3. /\ RuntimeArea \subseteq Pages
        /\ \A p \in RuntimeArea : mem[p] = "rt"
    BY <1>3, LoaderKnows, LayoutTyped DEF RuntimeArea, Held
  <2>4. InfoInv'
    BY <1>1, <1>3, <1>5, <2>3
    DEF ChainInv, InfoInv, MapGiven, RuntimeArea, LoaderPcs
  <2>5. MapGiven => e820' = [p \in Pages |-> EfiTypeToE820Type(mem[p])]
    BY <1>3, <1>5 DEF ChainInv, InfoInv, TablesRead, MapIsThere
  <2>6. MapGiven => \A p \in Pages :
          /\ mem[p] = "rt" => e820'[p] = "reserved"
          /\ e820'[p] = "memory" =>
               mem[p] \notin {"rt", "runtime_services", "acpi", "nvs"}
    BY <2>5 DEF EfiTypeToE820Type, ChainInv, TypeOK, Labels, FirmwareLabels, PreloadLabels
  <2>7. RuntimeHidden'
    BY <1>1, <2>3, <2>6 DEF RuntimeHidden, MapGiven, RuntimeArea
  <2> QED  BY <1>1, <2>1, <2>2, <2>4, <2>7 DEF ChainInv, KeepsRt
<1> QED  BY <1>4, <1>5 DEF SetupStartupEnv

-----------------------------------------------------------------------------
LEMMA ChainStep ==
  ASSUME Top <= Word, ChainInv, [Next]_vars
  PROVE  ChainInv' /\ [KeepsRt]_mem
<1>1. CASE PreloadNext /\ Elsewhere
  BY <1>1, QuietPreloadStep, LoadImageStep, FindHeaderStep, AllocLdrStep,
     AllocRtStep, CopyPackageStep, AllocPlatformStep, TakeMapStep, FreeBuffersStep
  DEF PreloadNext, QuietPreload
<1>2. CASE LoaderNext /\ UNCHANGED preloadVars
  BY <1>2, StarterMainStep, LoadsStep, HeapUsersStep, SetupStartupEnvStep
  DEF LoaderNext
<1>3. CASE UNCHANGED vars
  <2> USE DEF vars, platformVars, preloadVars, loaderVars, heapVars
  <2>1. TypeOK'  BY <1>3 DEF ChainInv, TypeOK
  <2>2. BuffersInv' /\ HeaderInv'
    BY <1>3 DEF ChainInv, BuffersInv, HeaderInv, Held
  <2>3. InfoInv' /\ RuntimeHidden'
    BY <1>3 DEF ChainInv, InfoInv, RuntimeHidden, Launched, MapGiven, RuntimeArea
  <2>4. FirmwareMemoryIntact' /\ [KeepsRt]_mem
    BY <1>3 DEF ChainInv, FirmwareMemoryIntact
  <2> QED  BY <2>1, <2>2, <2>3, <2>4 DEF ChainInv
<1> QED  BY <1>1, <1>2, <1>3 DEF Next, Elsewhere

LEMMA ChainInvariant ==
  ASSUME Top <= Word
  PROVE  Spec => []ChainInv
<1>1. ChainInv /\ [Next]_vars => ChainInv'  BY ChainStep
<1> QED  BY <1>1, InitChain, PTL DEF Spec

(* Every step of preload and of the loader leaves the state typed; the     *)
(* loader's heap pointer stays in the heap.                                *)
THEOREM ChainTypeCorrect ==
  ASSUME Top <= Word
  PROVE  Spec => []TypeOK
<1>1. ChainInv => TypeOK  BY DEF ChainInv
<1> QED  BY <1>1, ChainInvariant, PTL

(* The table handed to xmon reserves the whole runtime memory              *)
(* (efi_boot_param.c:97 on the account taken at preload.c:287).            *)
THEOREM RuntimeIsHidden ==
  ASSUME Top <= Word
  PROVE  Spec => []RuntimeHidden
<1>1. ChainInv => RuntimeHidden  BY DEF ChainInv
<1> QED  BY <1>1, ChainInvariant, PTL

(* Neither the buffer's end (preload.c:190), nor the copy of the package   *)
(* (preload.c:334), nor a loaded image is on the firmware's memory, when   *)
(* the file has a size that the packer gives it.                           *)
THEOREM FirmwareIsIntact ==
  ASSUME Top <= Word
  PROVE  Spec => []FirmwareMemoryIntact
<1>1. ChainInv => FirmwareMemoryIntact  BY DEF ChainInv
<1> QED  BY <1>1, ChainInvariant, PTL

(* efi_main's cleanup never gives the runtime memory back                  *)
(* (preload.c:383-391).                                                    *)
THEOREM RuntimeIsKept ==
  ASSUME Top <= Word
  PROVE  Spec => RuntimeKept
<1>1. ChainInv /\ [Next]_vars => [KeepsRt]_mem  BY ChainStep
<1> QED  BY <1>1, ChainInvariant, PTL DEF Spec, RuntimeKept, KeepsRt

-----------------------------------------------------------------------------
(* Preload's buffers.                                                      *)
LEMMA PageTyped == Nowhere \notin Pages  BY DEF Nowhere, Pages

LEMMA OwnedQuiet ==
  ASSUME OwnedInv, UNCHANGED <<pkg, mem, image_addr, platform_addr>>,
         pc' \in NoBuffer => pc \in NoBuffer,
         pc' \in {"open_protocol", "open_root"} => ~root_dir',
         pc' \in NoInfoBuffer => pc \in NoInfoBuffer \union NoBuffer,
         pc' \in Ending => pc \in Ending \union NoBuffer,
         pc' = "returned" => (root_dir' => err' # "SUCCESS")
  PROVE  OwnedInv'
<1>1. pc \in NoBuffer \union Ending =>
        \A p \in Pages : mem[p] \notin {"image", "platform"}
  BY DEF OwnedInv
<1> QED  BY <1>1 DEF OwnedInv

(* What is taken for something else.                                       *)
LEMMA OwnedOther ==
  ASSUME ChainInv, OwnedInv, NEW base, NEW n, IsFree(base, n),
         NEW label \in {"ldr", "rt", "map"}, mem' = Given(base, n, label),
         UNCHANGED <<pkg, image_addr, platform_addr>>,
         pc' \notin NoBuffer, pc' \notin Ending,
         pc' \in NoInfoBuffer => pc \in NoInfoBuffer
  PROVE  OwnedInv'
<1>1. \A p \in Pages : mem'[p] \in {"image", "platform"} => mem'[p] = mem[p]
  BY DEF Given
<1> QED  BY <1>1 DEF OwnedInv, NoBuffer

LEMMA OwnedPreloadStep ==
  ASSUME ChainInv, OwnedInv, PreloadNext
  PROVE  OwnedInv'
<1> USE DEF Goto, Fail, rest, preloadVars
<1>1. CASE QuietPreload
  <2>1. UNCHANGED <<pkg, mem, image_addr, platform_addr>>
    BY <1>1, FreeLdrFreesNothing
    DEF QuietPreload, OpenProtocol, OpenRoot, CheckVmx, CallLoader,
        LoadingDone, FreeLdr, CloseAndReturn
  <2>2. /\ pc' \in NoBuffer => pc \in NoBuffer
        /\ pc' \in NoInfoBuffer => pc \in NoInfoBuffer \union NoBuffer
        /\ pc' \in Ending => pc \in Ending \union NoBuffer
        /\ pc' \in {"open_protocol", "open_root"} => ~root_dir'
        /\ pc' = "returned" => (root_dir' => err' # "SUCCESS")
    BY <1>1
    DEF OwnedInv, QuietPreload, OpenProtocol, OpenRoot, CheckVmx, CallLoader, ReturnValue,
        LoadingDone, FreeLdr, CloseAndReturn, NoBuffer, NoInfoBuffer
  <2> QED  BY <2>1, <2>2, OwnedQuiet
<1>2. CASE FindHeader \/ CopyPackage
  <2>1. /\ UNCHANGED <<pkg, mem, image_addr, platform_addr>>
        /\ pc' \notin NoBuffer /\ pc' \notin Ending
        /\ pc \in NoInfoBuffer
    BY <1>2 DEF FindHeader, CopyPackage, NoBuffer, NoInfoBuffer
  <2> QED  BY <2>1, OwnedQuiet DEF NoBuffer
<1>3. CASE LoadImage
  <2>1. pc = "load_image" /\ image_addr = Nowhere /\ platform_addr = Nowhere
        /\ UNCHANGED <<pkg, platform_addr>> /\ pc' \notin NoBuffer /\ pc' # "returned"
    BY <1>3 DEF LoadImage, OwnedInv, NoBuffer
  <2>2. CASE UNCHANGED <<mem, image_addr>>
    BY <2>1, <2>2, OwnedQuiet DEF NoBuffer
  <2>3. ASSUME NEW base \in BelowLimit(Low - 1, ImagePages),
               pc' = "find_header", mem' = Given(base, ImagePages, "image"),
               image_addr' = base
        PROVE  OwnedInv'
    <3>1. image_addr' # Nowhere  BY <2>3, PageTyped DEF BelowLimit
    <3>2. \A p \in Pages : mem[p] \notin {"image", "platform"}
      BY <2>1 DEF OwnedInv
    <3>3. \A p \in Pages : /\ mem'[p] = "image" => p \in Region(base, ImagePages)
                           /\ mem'[p] # "platform"
      BY <2>3, <3>2 DEF Given
    <3> QED  BY <2>1, <2>3, <3>1, <3>3 DEF OwnedInv, NoBuffer, NoInfoBuffer
  <2> QED  BY <1>3, <2>2, <2>3 DEF LoadImage
<1>4. CASE AllocLdr
  <2>1. pc = "alloc_ldr" /\ pc' \in {"alloc_rt", "out"}
        /\ UNCHANGED <<pkg, image_addr, platform_addr>>
    BY <1>4 DEF AllocLdr
  <2>2. CASE UNCHANGED mem
    BY <2>1, <2>2, OwnedQuiet DEF NoBuffer, NoInfoBuffer
  <2>3. ASSUME NEW base \in RangesTaken(hdr.ldr_base, hdr.ldr_size),
               mem' = Given(base, SizeToPages(hdr.ldr_size), "ldr")
        PROVE  OwnedInv'
    <3>1. hdr.ldr_base \in Nat /\ hdr.ldr_size \in Nat
      BY PlatformTyped DEF ChainInv, TypeOK
    <3>2. IsFree(base, SizeToPages(hdr.ldr_size))  BY <2>3, <3>1, RangesTakenFree
    <3> QED  BY <2>1, <2>3, <3>2, OwnedOther DEF NoBuffer, NoInfoBuffer
  <2> QED  BY <1>4, <2>2, <2>3 DEF AllocLdr
<1>5. CASE AllocRt
  <2>1. pc = "alloc_rt" /\ pc' \in {"copy", "out"}
        /\ UNCHANGED <<pkg, image_addr, platform_addr>>
    BY <1>5 DEF AllocRt
  <2>2. CASE UNCHANGED mem
    BY <2>1, <2>2, OwnedQuiet DEF NoBuffer, NoInfoBuffer
  <2>3. ASSUME NEW base \in RangesTaken(hdr.rt_base, hdr.rt_size),
               mem' = Given(base, SizeToPages(hdr.rt_size), "rt")
        PROVE  OwnedInv'
    <3>1. hdr.rt_base \in Nat /\ hdr.rt_size \in Nat
      BY PlatformTyped DEF ChainInv, TypeOK
    <3>2. IsFree(base, SizeToPages(hdr.rt_size))  BY <2>3, <3>1, RangesTakenFree
    <3> QED  BY <2>1, <2>3, <3>2, OwnedOther DEF NoBuffer, NoInfoBuffer
  <2> QED  BY <1>5, <2>2, <2>3 DEF AllocRt
<1>6. CASE AllocPlatform
  <2>1. pc = "alloc_platform" /\ pc' \in {"take_map", "out"}
        /\ UNCHANGED <<pkg, image_addr>>
        /\ platform_addr = Nowhere
    BY <1>6 DEF AllocPlatform, OwnedInv, NoInfoBuffer
  <2>2. CASE UNCHANGED <<mem, platform_addr>>
    BY <2>1, <2>2, OwnedQuiet DEF NoBuffer, NoInfoBuffer
  <2>3. ASSUME NEW base \in BelowLimit(Low - 1, 1),
               mem' = Given(base, 1, "platform"), platform_addr' = base
        PROVE  OwnedInv'
    <3>1. base \in Pages /\ platform_addr' # Nowhere
      BY <2>3, PageTyped DEF BelowLimit
    <3>2. \A p \in Region(base, 1) : p = base  BY <3>1 DEF Region, Pages
    <3>3. \A p \in Pages : /\ mem'[p] = "image" => mem[p] = "image"
                           /\ mem'[p] = "platform" => p = base
      BY <2>1, <2>3, <3>2 DEF Given, OwnedInv
    <3> QED  BY <2>1, <2>3, <3>1, <3>3 DEF OwnedInv, NoBuffer, NoInfoBuffer
  <2> QED  BY <1>6, <2>2, <2>3 DEF AllocPlatform
<1>7. CASE TakeMap
  <2>1. pc = "take_map" /\ pc' = "check_vmx"
        /\ UNCHANGED <<pkg, image_addr, platform_addr>>
    BY <1>7 DEF TakeMap
  <2>2. CASE UNCHANGED mem
    BY <2>1, <2>2, OwnedQuiet DEF NoBuffer, NoInfoBuffer
  <2>3. ASSUME NEW base \in BelowLimit(Top - 1, 1), mem' = Given(base, 1, "map")
        PROVE  OwnedInv'
    BY <2>1, <2>3, OwnedOther DEF BelowLimit, NoBuffer, NoInfoBuffer
  <2> QED  BY <1>7, <2>2, <2>3 DEF TakeMap, MapTaken
<1>8. CASE FreeBuffers
  <2> DEFINE withoutImage == IF image_addr # Nowhere
                             THEN Freed(mem, image_addr, ImagePages) ELSE mem
  <2>1. pc = "out" /\ pc' = "free_ldr"  BY <1>8 DEF FreeBuffers
  <2>2. /\ image_addr # Nowhere => Held(image_addr, ImagePages, "image")
        /\ platform_addr # Nowhere => Held(platform_addr, 1, "platform")
    BY <2>1 DEF ChainInv, BuffersInv
  <2>3. mem \in [Pages -> Labels] /\ ImagePages > 0
    BY BufferPages DEF ChainInv, TypeOK
  <2>4. \A p \in Pages : /\ withoutImage[p] # "image"
                         /\ mem[p] # "image" => withoutImage[p] = mem[p]
                         /\ withoutImage[p] = "platform" => p = platform_addr
    <3>1. CASE image_addr = Nowhere  BY <3>1 DEF OwnedInv
    <3>2. CASE image_addr # Nowhere
      <4>1. withoutImage = [p \in Pages |->
              IF p \in Region(image_addr, ImagePages) THEN "conventional" ELSE mem[p]]
        BY <2>2, <2>3, <3>2 DEF Freed, Held
      <4> QED  BY <2>2, <3>2, <4>1 DEF OwnedInv, Held
    <3> QED  BY <3>1, <3>2
  <2>5. \A p \in Pages : withoutImage[p] = "platform" => platform_addr # Nowhere
    BY <2>4, PageTyped
  <2>6. mem' = IF platform_addr # Nowhere
               THEN Freed(withoutImage, platform_addr, 1) ELSE withoutImage
    BY <1>8 DEF FreeBuffers
  <2> HIDE DEF withoutImage
  <2>7. \A p \in Pages : mem'[p] \notin {"image", "platform"}
    <3>1. CASE platform_addr = Nowhere  BY <2>4, <2>5, <2>6, <3>1
    <3>2. CASE platform_addr # Nowhere
      <4>1. \A p \in Region(platform_addr, 1) : p \in Pages /\ withoutImage[p] = "platform"
        BY <2>2, <2>4, <3>2 DEF Held
      <4>2. mem' = [p \in Pages |-> IF p \in Region(platform_addr, 1)
                                    THEN "conventional" ELSE withoutImage[p]]
        BY <2>2, <2>6, <3>2, <4>1 DEF Freed, Held
      <4>3. platform_addr \in Pages => platform_addr \in Region(platform_addr, 1)
        BY DEF Region, Pages
      <4> QED  BY <2>4, <4>2, <4>3
    <3> QED  BY <3>1, <3>2
  <2> QED  BY <2>1, <2>7 DEF OwnedInv, NoBuffer, NoInfoBuffer
<1> QED
  BY <1>1, <1>2, <1>3, <1>4, <1>5, <1>6, <1>7, <1>8 DEF PreloadNext, QuietPreload

LEMMA LoaderGoes ==
  ASSUME LoaderNext, UNCHANGED preloadVars
  PROVE  /\ pc \in LoaderPcs \ {"deadloop"} /\ pc' \in LoaderPcs \union {"resumed"}
         /\ UNCHANGED <<mem, vmx, pkg, info, memmap, hdr, image_addr, platform_addr>>
  BY DEF LoaderNext, StarterMain, RunXmonLoader, InitLoader, LoadXmon, LoadStartap,
         Load, SaveCpuState, SetupPrimaryGuest, SetupStartupEnv, CallStartap,
         StartGuest, OnHeap, Deadloop, LoaderPcs, fixed, preloadVars

LEMMA OwnedStep ==
  ASSUME ChainInv, OwnedInv, [Next]_vars
  PROVE  OwnedInv'
<1>1. CASE PreloadNext  BY <1>1, OwnedPreloadStep
<1>2. CASE LoaderNext /\ UNCHANGED preloadVars
  BY <1>2, LoaderGoes, OwnedQuiet DEF LoaderPcs, NoBuffer, NoInfoBuffer
<1>3. CASE UNCHANGED vars
  BY <1>3 DEF vars, platformVars, preloadVars, OwnedInv
<1> QED  BY <1>1, <1>2, <1>3 DEF Next

(* efi_main's buffers are gone when it returns, and with a root directory  *)
(* it never returns EFI_SUCCESS (preload.c:383-399).                       *)
THEOREM BuffersAreReturned ==
  ASSUME Top <= Word
  PROVE  Spec => []BuffersReturned
<1>1. Init => OwnedInv
  <2> SUFFICES ASSUME Init PROVE OwnedInv  OBVIOUS
  <2>1. \A p \in Pages : mem[p] \notin {"image", "platform"}
    BY PlatformAssumption DEF Init, PlatformInit, FirmwareLabels
  <2> QED
    BY <2>1 DEF Init, PlatformInit, PreloadInit, OwnedInv, NoBuffer, NoInfoBuffer
<1>2. ChainInv /\ OwnedInv /\ [Next]_vars => OwnedInv'  BY OwnedStep
<1>3. OwnedInv => BuffersReturned  BY DEF OwnedInv, BuffersReturned
<1> QED  BY <1>1, <1>2, <1>3, ChainInvariant, PTL DEF Spec

-----------------------------------------------------------------------------
(* The loaded images.                                                      *)
LEMMA PreloadGoes ==
  ASSUME PreloadNext
  PROVE  pc' \in PreloadPcs \union {"starter"} /\ pc \in PreloadPcs
         /\ UNCHANGED <<vmx, pkg>>
  BY DEF PreloadNext, OpenProtocol, OpenRoot, LoadImage, FindHeader, AllocLdr,
         AllocRt, CopyPackage, AllocPlatform, TakeMap, MapTaken, CheckVmx, CallLoader,
         LoadingDone, FreeBuffers, FreeLdr, CloseAndReturn, Goto, Fail, rest,
         PreloadPcs

(* Where the images go: three areas of the two regions.                    *)
LEMMA AreasApart ==
  ASSUME ChainInv, pc \in LoaderPcs
  PROVE  /\ DescArea \subseteq Pages
         /\ \A n \in 0 .. StartapPages :
              Region(StartapBase, n) \subseteq Pages \ DescArea
         /\ \A n \in 0 .. XmonPages :
              Region(XmonBase, n) \subseteq Pages \ DescArea
         /\ \A n \in 0 .. LoaderPages :
              Region(LoaderBase, n) \cap DescArea = {}
         /\ \A n \in 0 .. StartapPages : \A k \in 0 .. XmonPages :
              Region(StartapBase, n) \cap Region(XmonBase, k) = {}
<1>1. /\ info.load_addr = hdr.ldr_base /\ info.run_addr = hdr.rt_base
      /\ hdr.ldr_base \in Nat /\ hdr.rt_base \in Nat
      /\ Held(hdr.ldr_base, LdrPages, "ldr") /\ Held(hdr.rt_base, RtPages, "rt")
  BY LoaderKnows
<1>2. DescArea \subseteq Region(hdr.ldr_base, LdrPages)
  BY <1>1, LayoutTyped DEF DescArea, Region
<1>3. \A n \in 0 .. StartapPages :
        Region(StartapBase, n) \subseteq Region(hdr.rt_base, RtPages)
  BY <1>1, LayoutTyped DEF StartapBase, Region
<1>4. \A n \in 0 .. XmonPages :
        Region(XmonBase, n) \subseteq Region(hdr.rt_base, RtPages)
  BY <1>1, LayoutTyped DEF XmonBase, Region
<1>5. Region(hdr.ldr_base, LdrPages) \cap Region(hdr.rt_base, RtPages) = {}
  BY <1>1 DEF Held
<1>6. \A n \in 0 .. LoaderPages : Region(LoaderBase, n) \cap DescArea = {}
  BY <1>1, LayoutTyped DEF LoaderBase, DescArea, Region
<1>7. \A n \in 0 .. StartapPages : \A k \in 0 .. XmonPages :
        Region(StartapBase, n) \cap Region(XmonBase, k) = {}
  BY <1>1, LayoutTyped DEF StartapBase, XmonBase, Region
<1>8. DescArea \subseteq Pages  BY <1>1, <1>2 DEF Held
<1>9. Region(hdr.rt_base, RtPages) \subseteq Pages \ DescArea
  BY <1>1, <1>2, <1>5 DEF Held
<1> QED  BY <1>3, <1>4, <1>6, <1>7, <1>8, <1>9

(* A write into another area leaves an image as it is.                     *)
LEMMA HoldsApart ==
  ASSUME NEW pages, NEW area, NEW what, NEW other, HoldsAll(area, what),
         Write(pages, other), pages \cap area = {}
  PROVE  \A p \in area : p \in Pages /\ content'[p] = what
  BY DEF HoldsAll, Write

LEMMA LoadResult ==
  ASSUME ChainInv, NEW bin \in Bins, NEW base, NEW space \in Nat, NEW from, NEW to,
         to # "deadloop", Load(bin, base, space, from, to), pc' # "deadloop"
  PROVE  /\ pc = from /\ pc' = to
         /\ pkg.bins[bin].pages \in 0 .. space
         /\ Write(Region(base, pkg.bins[bin].pages), bin)
<1>1. pkg.bins[bin].pages \in Nat
  BY PlatformAssumption DEF ChainInv, TypeOK, ImageOf
<1> QED  BY <1>1 DEF Load, Deadloop, InfoFits

LEMMA LoadedLoaderStep ==
  ASSUME ChainInv, LoadedInv, LoaderNext, UNCHANGED preloadVars
  PROVE  LoadedInv'
<1> USE DEF HasDesc, HasXmon, HasStartap
<1>1. /\ pc \in LoaderPcs /\ UNCHANGED <<pkg, info>>
      /\ pc' \in LoaderPcs \union {"resumed"}
  BY LoaderGoes
<1>2. /\ DescArea' = DescArea /\ StartapBase' = StartapBase /\ XmonBase' = XmonBase
      /\ Region(XmonBase, pkg.bins["xmon"].pages)'
           = Region(XmonBase, pkg.bins["xmon"].pages)
      /\ Region(StartapBase, pkg.bins["startap"].pages)'
           = Region(StartapBase, pkg.bins["startap"].pages)
  BY <1>1 DEF DescArea, StartapBase, XmonBase, Region
<1>3. LoaderPages \in Nat /\ XmonPages \in Nat /\ StartapPages \in Nat
      /\ {"xmon_loader", "xmon", "startap"} \subseteq Bins
  BY LayoutTyped DEF Bins
<1>4. CASE pc' \in {"deadloop", "resumed"}
  BY <1>4 DEF LoadedInv
<1>5. CASE StarterMain /\ pc' # "deadloop"
  <2>1. pc' = "run_xmon_loader" /\ Write(DescArea, "desc")
    BY <1>5 DEF StarterMain, Deadloop
  <2>2. \A p \in DescArea : p \in Pages /\ content'[p] = "desc"
    BY <1>1, <2>1, AreasApart DEF Write
  <2> QED  BY <1>2, <2>1, <2>2 DEF LoadedInv, HoldsAll
<1>6. CASE RunXmonLoader /\ pc' # "deadloop"
  <2>1. /\ pc = "run_xmon_loader" /\ pc' = "xmon_loader"
        /\ pkg.bins["xmon_loader"].pages \in 0 .. LoaderPages
        /\ Write(Region(LoaderBase, pkg.bins["xmon_loader"].pages), "xmon_loader")
    BY <1>3, <1>6, LoadResult DEF RunXmonLoader
  <2>2. HoldsAll(DescArea, "desc")  BY <2>1 DEF LoadedInv
  <2>3. Region(LoaderBase, pkg.bins["xmon_loader"].pages) \cap DescArea = {}
    BY <1>1, <2>1, AreasApart
  <2>4. \A p \in DescArea : p \in Pages /\ content'[p] = "desc"
    BY <2>1, <2>2, <2>3, HoldsApart
  <2> QED  BY <1>2, <2>1, <2>4 DEF LoadedInv, HoldsAll
<1>7. CASE LoadXmon /\ pc' # "deadloop"
  <2> DEFINE area == Region(XmonBase, pkg.bins["xmon"].pages)
  <2>1. /\ pc = "load_xmon" /\ pc' = "load_startap"
        /\ pkg.bins["xmon"].pages \in 0 .. XmonPages /\ Write(area, "xmon")
    BY <1>3, <1>7, LoadResult DEF LoadXmon
  <2>2. HoldsAll(DescArea, "desc")  BY <2>1 DEF LoadedInv
  <2>3. area \subseteq Pages \ DescArea  BY <1>1, <2>1, AreasApart
  <2> HIDE DEF area
  <2>4. \A p \in DescArea : p \in Pages /\ content'[p] = "desc"
    BY <2>1, <2>2, <2>3, HoldsApart
  <2>5. \A p \in area : p \in Pages /\ content'[p] = "xmon"
    BY <2>1, <2>3 DEF Write
  <2> QED  BY <1>1, <1>2, <2>1, <2>4, <2>5 DEF LoadedInv, HoldsAll, area
<1>8. CASE LoadStartap /\ pc' # "deadloop"
  <2> DEFINE area == Region(StartapBase, pkg.bins["startap"].pages)
             xmon == Region(XmonBase, pkg.bins["xmon"].pages)
  <2>1. /\ pc = "load_startap" /\ pc' = "cpu_state"
        /\ pkg.bins["startap"].pages \in 0 .. StartapPages /\ Write(area, "startap")
    BY <1>3, <1>8, LoadResult DEF LoadStartap
  <2>2. HoldsAll(DescArea, "desc") /\ HoldsAll(xmon, "xmon")
        /\ pkg.bins["xmon"].pages \in 0 .. XmonPages
    BY <2>1 DEF LoadedInv
  <2>3. area \subseteq Pages \ DescArea /\ area \cap xmon = {}
    BY <1>1, <2>1, <2>2, AreasApart
  <2> HIDE DEF area, xmon
  <2>4. \A p \in DescArea : p \in Pages /\ content'[p] = "desc"
    BY <2>1, <2>2, <2>3, HoldsApart
  <2>5. \A p \in area : p \in Pages /\ content'[p] = "startap"
    BY <2>1, <2>3 DEF Write
  <2>6. \A p \in xmon : p \in Pages /\ content'[p] = "xmon"
    BY <2>1, <2>2, <2>3, HoldsApart
  <2> QED  BY <1>1, <1>2, <2>1, <2>2, <2>4, <2>5, <2>6 DEF LoadedInv, HoldsAll, area, xmon
<1>9. CASE \/ InitLoader \/ SaveCpuState \/ SetupPrimaryGuest \/ SetupStartupEnv
           \/ CallStartap \/ StartGuest
  <2>1. /\ UNCHANGED content
        /\ pc' \in HasDesc => pc \in HasDesc
        /\ pc' \in HasXmon => pc \in HasXmon
        /\ pc' \in HasStartap => pc \in HasStartap
    BY <1>9 DEF InitLoader, SaveCpuState, SetupPrimaryGuest, SetupStartupEnv,
         CallStartap, StartGuest, OnHeap, Deadloop
  <2> QED  BY <1>1, <1>2, <2>1 DEF LoadedInv, HoldsAll
<1> QED  BY <1>4, <1>5, <1>6, <1>7, <1>8, <1>9 DEF LoaderNext

LEMMA LoadedStep ==
  ASSUME ChainInv, LoadedInv, [Next]_vars
  PROVE  LoadedInv'
<1>1. CASE PreloadNext
  <2>1. pc' \notin HasDesc
    BY <1>1, PreloadGoes DEF PreloadPcs, HasDesc, HasXmon, HasStartap
  <2> QED  BY <2>1 DEF LoadedInv, HasDesc, HasXmon
<1>2. CASE LoaderNext /\ UNCHANGED preloadVars  BY <1>2, LoadedLoaderStep
<1>3. CASE UNCHANGED vars
  BY <1>3 DEF vars, platformVars, preloadVars, LoadedInv, HoldsAll, DescArea,
    StartapBase, XmonBase, Region
<1> QED  BY <1>1, <1>2, <1>3 DEF Next

(* startap and xmon are entered whole: no image was loaded over another    *)
(* (xmon_loader.c:254-312).                                                *)
THEOREM ImagesAreIntact ==
  ASSUME Top <= Word
  PROVE  Spec => []ImagesIntact
<1>1. Init => LoadedInv
  BY DEF Init, PlatformInit, LoadedInv, HasDesc, HasXmon, HasStartap
<1>2. ChainInv /\ LoadedInv /\ [Next]_vars => LoadedInv'  BY LoadedStep
<1>3. LoadedInv => ImagesIntact
  BY DEF LoadedInv, ImagesIntact, HasDesc, HasXmon, HasStartap
<1> QED  BY <1>1, <1>2, <1>3, ChainInvariant, PTL DEF Spec

-----------------------------------------------------------------------------
(* What the loader was given, and why it loops.                            *)
LEMMA LdrBaseIsPage ==
  ASSUME ChainInv, pc \in HasLdr
  PROVE  hdr.ldr_base \in Pages /\ mem[hdr.ldr_base] = "ldr"
         /\ hdr.ldr_base \in Region(hdr.ldr_base, ImagePages)
<1>1. hdr.ldr_base \in Nat  BY PlatformTyped DEF ChainInv, TypeOK
<1>2. Held(hdr.ldr_base, LdrPages, "ldr") /\ LdrPages \in Nat /\ LdrPages > 0
      /\ ImagePages \in Nat /\ ImagePages > 0
  BY LayoutTyped, BufferPages DEF ChainInv, HeaderInv
<1>3. hdr.ldr_base \in Region(hdr.ldr_base, LdrPages)
      /\ hdr.ldr_base \in Region(hdr.ldr_base, ImagePages)
  BY <1>1, <1>2 DEF Region
<1> QED  BY <1>2, <1>3 DEF Held

LEMMA PackageStays ==
  ASSUME ChainInv, SoundInv, PreloadNext, pc' \in HasPackage
  PROVE  content'[hdr'.ldr_base] = "package"
<1> USE DEF Goto, Fail, HasPackage, rest, preloadVars
<1>1. CASE CopyPackage
  <2>1. /\ pc = "copy" /\ hdr' = hdr
        /\ Write(Region(hdr.ldr_base, ImagePages), "package")
    BY <1>1 DEF CopyPackage
  <2> QED  BY <2>1, LdrBaseIsPage DEF Write
<1>2. CASE AllocPlatform \/ CheckVmx \/ CallLoader
  <2>1. pc \in HasPackage /\ UNCHANGED <<content, hdr>>
    BY <1>2 DEF AllocPlatform, CheckVmx, CallLoader
  <2> QED  BY <2>1 DEF SoundInv
<1>3. CASE TakeMap
  <2>1. pc = "take_map" /\ hdr' = hdr  BY <1>3 DEF TakeMap
  <2>2. hdr.ldr_base \in Pages /\ mem[hdr.ldr_base] = "ldr"
    BY <2>1, LdrBaseIsPage
  <2>3. content[hdr.ldr_base] = "package" /\ content \in [Pages -> Contents]
    BY <2>1 DEF SoundInv, ChainInv, TypeOK
  <2>4. platform_addr # hdr.ldr_base
    <3>1. platform_addr # Nowhere => mem[platform_addr] = "platform"
      <4>1. platform_addr # Nowhere =>
              platform_addr \in Pages /\ Held(platform_addr, 1, "platform")
        BY <2>1 DEF ChainInv, TypeOK, BuffersInv
      <4>2. platform_addr \in Pages => platform_addr \in Region(platform_addr, 1)
        BY DEF Pages, Region
      <4> QED  BY <4>1, <4>2 DEF Held
    <3> QED  BY <2>2, <3>1, PageTyped
  <2>5. ASSUME NEW base \in BelowLimit(Top - 1, 1)
        PROVE  base # hdr.ldr_base
    <3>1. base \in Pages /\ IsFree(base, 1)  BY <2>5 DEF BelowLimit
    <3>2. base \in Region(base, 1)  BY <3>1 DEF Pages, Region
    <3> QED  BY <2>2, <3>1, <3>2 DEF IsFree
  <2>6. content' = [content EXCEPT ![platform_addr] = "info"]
        \/ \E base \in BelowLimit(Top - 1, 1) :
             content' = [content EXCEPT ![base] = "map", ![platform_addr] = "info"]
    BY <1>3 DEF TakeMap, MapTaken
  <2> QED  BY <2>1, <2>2, <2>3, <2>4, <2>5, <2>6
<1>4. CASE \/ OpenProtocol \/ OpenRoot \/ LoadImage \/ FindHeader \/ AllocLdr
           \/ AllocRt \/ LoadingDone \/ FreeBuffers \/ FreeLdr \/ CloseAndReturn
  BY <1>4 DEF OpenProtocol, OpenRoot, LoadImage, FindHeader, AllocLdr, AllocRt,
    LoadingDone, FreeBuffers, FreeLdr, CloseAndReturn
<1> QED  BY <1>1, <1>2, <1>3, <1>4 DEF PreloadNext

LEMMA SoundPreloadStep ==
  ASSUME ChainInv, SoundInv, PreloadNext
  PROVE  SoundInv'
<1>1. vmx' = vmx /\ pc' \in PreloadPcs \union {"starter"}  BY PreloadGoes
<1>2. pc' = "starter" => pc = "call"
  BY DEF PreloadNext, OpenProtocol, OpenRoot, LoadImage, FindHeader, AllocLdr,
    AllocRt, CopyPackage, AllocPlatform, TakeMap, CheckVmx, CallLoader,
    LoadingDone, FreeBuffers, FreeLdr, CloseAndReturn, Goto, Fail
<1>3. pc' = "call" => vmx
  BY DEF PreloadNext, OpenProtocol, OpenRoot, LoadImage, FindHeader, AllocLdr,
    AllocRt, CopyPackage, AllocPlatform, TakeMap, CheckVmx, CallLoader,
    LoadingDone, FreeBuffers, FreeLdr, CloseAndReturn, Goto, Fail
<1>4. pc' \in {"call"} \union LoaderPcs => vmx'
  BY <1>1, <1>2, <1>3 DEF SoundInv, PreloadPcs, LoaderPcs
<1>5. pc' \in HasPackage => content'[hdr'.ldr_base] = "package"
  BY PackageStays
<1> QED  BY <1>1, <1>4, <1>5 DEF SoundInv, PreloadPcs, LoopsOnlyWhenBroken

(* Each failed check is one of a broken package, or a heap too small.      *)
LEMMA LoadFails ==
  ASSUME ChainInv, NEW bin \in Bins, NEW base, NEW space, NEW from, NEW to,
         to # "deadloop", Load(bin, base, space, from, to), pc' = "deadloop"
  PROVE  ~GoodImage(bin, space)
  BY DEF Load, GoodImage

LEMMA HeapResult ==
  ASSUME ChainInv, NEW n \in Nat, NEW size \in Nat, NEW from, NEW to,
         to # "deadloop", HeapUsed(n), OnHeap(size, from, to)
  PROVE  /\ pc = from
         /\ pc' # "deadloop" => pc' = to /\ HeapUsed(n + size)'
         /\ pc' = "deadloop" => n + size > HeapBytes
<1>1. /\ HeapBase \in Nat /\ HeapBytes \in Nat /\ Width \in Nat
      /\ HeapBase + HeapBytes < Width
  BY ConstantsTyped
<1>2. CASE pc = from /\ pc' = to /\ AllocateMemory(size)
  <2>1. HeapBase + n + size <= HeapBase + HeapBytes
    BY <1>1, <1>2 DEF AllocateMemory, Fits, HeapUsed
  <2>2. HeapBase + n + size \in 0 .. Width - 1  BY <1>1, <2>1
  <2>3. (HeapBase + n + size) % Width = HeapBase + n + size  BY <1>1, <2>2
  <2> QED  BY <1>1, <1>2, <2>3 DEF AllocateMemory, HeapUsed
<1>3. CASE ~Fits(size) /\ Deadloop(from)
  BY <1>1, <1>3 DEF Fits, HeapUsed, Deadloop
<1> QED  BY <1>2, <1>3 DEF OnHeap

LEMMA SoundLoaderStep ==
  ASSUME ChainInv, SoundInv, LoaderNext, UNCHANGED preloadVars
  PROVE  SoundInv'
<1>1. /\ pc \in LoaderPcs \ {"deadloop"} /\ pc' \in LoaderPcs \union {"resumed"}
      /\ UNCHANGED <<vmx, pkg, info, hdr>> /\ vmx
  BY LoaderGoes DEF SoundInv, LoaderPcs
<1>2. (GoodPackage <=> GoodPackage') /\ (HeapSuffices <=> HeapSuffices')
  BY <1>1 DEF GoodPackage, GoodImage, HeapSuffices
<1>3. pc' # "starter"
  BY DEF LoaderNext, StarterMain, RunXmonLoader, InitLoader, LoadXmon,
    LoadStartap, Load, SaveCpuState, SetupPrimaryGuest, SetupStartupEnv,
    CallStartap, StartGuest, OnHeap, Deadloop
<1>4. /\ pc' \in {"call"} \union LoaderPcs => vmx'
      /\ pc' \in HasPackage => content'[hdr'.ldr_base] = "package"
  BY <1>1, <1>3 DEF HasPackage, LoaderPcs
<1>5. /\ HeapBase \in Nat /\ HeapBytes \in Nat /\ CpuStateSize \in Nat
      /\ GuestSize \in Nat /\ {"xmon_loader", "xmon", "startap"} \subseteq Bins
  BY ConstantsTyped, LayoutAssumption, RequestsAssumption DEF Bins
<1> DEFINE Rest == /\ pc' \in {"load_xmon", "load_startap", "cpu_state"} =>
                        HeapUsed(0)'
                   /\ pc' = "primary_guest" => HeapUsed(CpuStateSize)'
                   /\ pc' = "startup_env" => HeapUsed(CpuStateSize + GuestSize)'
                   /\ pc' = "deadloop" => ~GoodPackage \/ ~HeapSuffices
<1> SUFFICES Rest  BY <1>2, <1>4 DEF SoundInv, LoopsOnlyWhenBroken
<1>6. CASE StarterMain
  <2>1. pc = "starter" /\ pc' \in {"run_xmon_loader", "deadloop"}
    BY <1>6 DEF StarterMain, Deadloop
  <2>2. StarterFinds
    <3>1. content[hdr.ldr_base] = "package" /\ hdr.ldr_base \in Pages
      BY <2>1, LdrBaseIsPage DEF SoundInv, HasPackage, LoaderPcs
    <3> QED  BY <2>1, <3>1, LoaderKnows DEF StarterFinds, LoaderPcs
  <2>3. pc' = "deadloop" => pkg.listed # Bins
    BY <1>1, <1>6, <2>2 DEF StarterMain
  <2>4. pkg.listed \subseteq Bins
    BY PlatformAssumption DEF ChainInv, TypeOK
  <2>5. pc' = "deadloop" => ~GoodPackage
    BY <2>3, <2>4 DEF GoodPackage, GoodImage, Bins
  <2> QED  BY <2>1, <2>5
<1>7. CASE RunXmonLoader
  <2>1. pc' \in {"xmon_loader", "deadloop"}
    BY <1>7 DEF RunXmonLoader, Load, Deadloop
  <2>2. pc' = "deadloop" => ~GoodPackage
    BY <1>5, <1>7, LoadFails DEF RunXmonLoader, GoodPackage
  <2> QED  BY <2>1, <2>2
<1>8. CASE InitLoader
  <2>1. HeapBase % Width = HeapBase /\ (HeapBase + HeapBytes) % Width = HeapBase + HeapBytes
    BY ConstantsTyped
  <2> QED
    BY <1>5, <1>8, <2>1 DEF InitLoader, InitializeMemoryManager, HeapUsed
<1>9. CASE LoadXmon
  <2>1. pc = "load_xmon" /\ pc' \in {"load_startap", "deadloop"} /\ UNCHANGED heapVars
    BY <1>9 DEF LoadXmon, Load, Deadloop
  <2>2. pc' = "deadloop" => ~GoodPackage
    BY <1>5, <1>9, LoadFails DEF LoadXmon, GoodPackage
  <2> QED  BY <2>1, <2>2 DEF SoundInv, HeapUsed, heapVars
<1>10. CASE LoadStartap
  <2>1. pc = "load_startap" /\ pc' \in {"cpu_state", "deadloop"} /\ UNCHANGED heapVars
    BY <1>10 DEF LoadStartap, Load, Deadloop
  <2>2. pc' = "deadloop" => ~GoodPackage
    BY <1>5, <1>10, LoadFails DEF LoadStartap, GoodPackage
  <2> QED  BY <2>1, <2>2 DEF SoundInv, HeapUsed, heapVars
<1>11. AlignForward(info.memmap_size, PageSize) \in Nat
  BY ConstantsTyped, AlignForwardUp DEF ChainInv, TypeOK
<1>12. CASE SaveCpuState
  <2>1. OnHeap(CpuStateSize, "cpu_state", "primary_guest")
    BY <1>12 DEF SaveCpuState
  <2>2. HeapUsed(0)  BY <2>1 DEF OnHeap, Deadloop, SoundInv
  <2>3. /\ pc' # "deadloop" => pc' = "primary_guest" /\ HeapUsed(0 + CpuStateSize)'
        /\ pc' = "deadloop" => 0 + CpuStateSize > HeapBytes
    BY <1>5, <2>1, <2>2, HeapResult
  <2> QED  BY <1>5, <1>11, <2>3 DEF HeapSuffices, HeapUsed
<1>13. CASE SetupPrimaryGuest
  <2>1. OnHeap(GuestSize, "primary_guest", "startup_env")
    BY <1>13 DEF SetupPrimaryGuest
  <2>2. HeapUsed(CpuStateSize)  BY <2>1 DEF OnHeap, Deadloop, SoundInv
  <2>3. /\ pc' # "deadloop" =>
             pc' = "startup_env" /\ HeapUsed(CpuStateSize + GuestSize)'
        /\ pc' = "deadloop" => CpuStateSize + GuestSize > HeapBytes
    BY <1>5, <2>1, <2>2, HeapResult
  <2> QED  BY <1>5, <1>11, <2>3 DEF HeapSuffices, HeapUsed
<1>14. CASE SetupStartupEnv
  <2> DEFINE table == AlignForward(info.memmap_size, PageSize)
  <2>1. OnHeap(table, "startup_env", "startap")
    BY <1>14 DEF SetupStartupEnv
  <2>2. HeapUsed(CpuStateSize + GuestSize)
    BY <2>1 DEF OnHeap, Deadloop, SoundInv
  <2>3. CpuStateSize + GuestSize \in Nat  BY <1>5
  <2> HIDE DEF table
  <2>4. /\ pc' # "deadloop" => pc' = "startap"
        /\ pc' = "deadloop" => CpuStateSize + GuestSize + table > HeapBytes
    BY <1>11, <2>1, <2>2, <2>3, HeapResult DEF table
  <2> QED  BY <1>5, <1>11, <2>4 DEF HeapSuffices, table
<1>15. CASE CallStartap \/ StartGuest
  BY <1>15 DEF CallStartap, StartGuest
<1> QED
  BY <1>6, <1>7, <1>8, <1>9, <1>10, <1>12, <1>13, <1>14, <1>15 DEF LoaderNext

LEMMA SoundStep ==
  ASSUME ChainInv, SoundInv, [Next]_vars
  PROVE  SoundInv'
<1>1. CASE PreloadNext  BY <1>1, SoundPreloadStep
<1>2. CASE LoaderNext /\ UNCHANGED preloadVars  BY <1>2, SoundLoaderStep
<1>3. CASE UNCHANGED vars
  BY <1>3 DEF vars, platformVars, preloadVars, heapVars, SoundInv, HeapUsed,
    LoopsOnlyWhenBroken, GoodPackage, GoodImage, HeapSuffices
<1> QED  BY <1>1, <1>2, <1>3 DEF Next

(* starter and xmon_loader reach their endless loop only with a broken     *)
(* package or a memory map beyond the heap (starter_main.c:211): what      *)
(* preload hands over is never the reason.                                 *)
THEOREM OnlyTheBrokenLoop ==
  ASSUME Top <= Word
  PROVE  Spec => []LoopsOnlyWhenBroken
<1>1. Init => SoundInv
  BY DEF Init, PlatformInit, SoundInv, HasPackage, LoaderPcs, LoopsOnlyWhenBroken
<1>2. ChainInv /\ SoundInv /\ [Next]_vars => SoundInv'  BY SoundStep
<1>3. SoundInv => LoopsOnlyWhenBroken  BY DEF SoundInv
<1> QED  BY <1>1, <1>2, <1>3, ChainInvariant, PTL DEF Spec

-----------------------------------------------------------------------------
(* The whole boot implements HypervisorBoot.  First, the steps that change *)
(* what is set aside: there is one.                                        *)
LEMMA NoNewRt ==
  ASSUME ChainInv, Next, ~AllocRt, NEW p \in Pages, mem'[p] = "rt"
  PROVE  mem[p] = "rt"
<1> USE DEF Goto, Fail, rest, preloadVars
<1>1. CASE QuietPreload
  BY <1>1, FreeLdrFreesNothing
  DEF QuietPreload, OpenProtocol, OpenRoot, CheckVmx, CallLoader,
      LoadingDone, FreeLdr, CloseAndReturn
<1>2. CASE FindHeader \/ CopyPackage  BY <1>2 DEF FindHeader, CopyPackage
<1>3. CASE LoadImage \/ AllocLdr \/ AllocPlatform
  BY <1>3 DEF LoadImage, AllocLdr, AllocPlatform, Given
<1>4. CASE TakeMap  BY <1>4 DEF TakeMap, MapTaken, Given
<1>5. CASE FreeBuffers
  <2> DEFINE withoutImage == IF image_addr # Nowhere
                             THEN Freed(mem, image_addr, ImagePages) ELSE mem
  <2>1. mem' = IF platform_addr # Nowhere
               THEN Freed(withoutImage, platform_addr, 1) ELSE withoutImage
    BY <1>5 DEF FreeBuffers
  <2>2. withoutImage[p] = "rt" => mem[p] = "rt"  BY DEF Freed
  <2> HIDE DEF withoutImage
  <2>3. withoutImage[p] = "rt"  BY <2>1 DEF Freed
  <2> QED  BY <2>2, <2>3
<1>6. CASE LoaderNext /\ UNCHANGED preloadVars  BY <1>6, LoaderGoes
<1> QED
  BY <1>1, <1>2, <1>3, <1>4, <1>5, <1>6 DEF Next, PreloadNext, QuietPreload

LEMMA AsideStays ==
  ASSUME Top <= Word, ChainInv, Next, ~AllocRt
  PROVE  Aside' = Aside
<1>1. \A p \in Pages : mem[p] = "rt" => mem'[p] = "rt"
  BY ChainStep DEF KeepsRt
<1>2. \A p \in Pages : mem'[p] = "rt" => mem[p] = "rt"  BY NoNewRt
<1> QED  BY <1>1, <1>2 DEF Aside

(* Where xmon's memory is set aside: at least a page of it.                *)
LEMMA AsideHeld ==
  ASSUME ChainInv, pc \in HasRt
  PROVE  Aside # {}
<1>1. hdr.rt_base \in Nat /\ Held(hdr.rt_base, RtPages, "rt")
  BY PlatformTyped DEF ChainInv, TypeOK, HeaderInv
<1>2. RtPages > 0
  BY LayoutTyped, LayoutAssumption
<1>3. hdr.rt_base \in Region(hdr.rt_base, RtPages)
  BY <1>1, <1>2, LayoutTyped DEF Region
<1> QED  BY <1>1, <1>3 DEF Held, Aside

-----------------------------------------------------------------------------
LEMMA FlowStarts == Init => FlowInv
<1> SUFFICES ASSUME Init PROVE FlowInv  OBVIOUS
<1>1. Aside = {}
  BY PlatformAssumption DEF Init, PlatformInit, Aside, FirmwareLabels
<1>2. ~MapGiven /\ ~Launched
  BY DEF Init, PlatformInit, LoaderInit, MapGiven, Launched, NoInfo
<1> QED
  BY <1>1, <1>2 DEF Init, PlatformInit, PreloadInit, FlowInv

LEMMA FlowPreloadStep ==
  ASSUME Top <= Word, ChainInv, FlowInv, PreloadNext, Elsewhere
  PROVE  FlowInv'
<1> USE DEF Goto, Fail, rest, preloadVars
<1>1. Next  BY DEF Next, Elsewhere
<1>2. Launched' <=> Launched  BY DEF Launched, Elsewhere, loaderVars
<1>3. Launched => pc \in {"resumed", "out"} \union Ending
  BY PreloadGoes DEF ChainInv, InfoInv, PreloadPcs
<1>4. pc' \in BeforeRt => Aside' = {}
  <2>1. pc' \in BeforeRt => pc \in BeforeRt /\ ~AllocRt
    BY DEF PreloadNext, OpenProtocol, OpenRoot, LoadImage, FindHeader, AllocLdr,
      AllocRt, CopyPackage, AllocPlatform, TakeMap, CheckVmx, CallLoader,
      LoadingDone, FreeBuffers, FreeLdr, CloseAndReturn, BeforeRt
  <2> QED  BY <1>1, <2>1, AsideStays DEF FlowInv
<1>5. pc' \in BeforeMap => ~MapGiven'
  <2>1. pc' \in BeforeMap => pc \in BeforeMap /\ UNCHANGED info
    BY DEF PreloadNext, OpenProtocol, OpenRoot, LoadImage, FindHeader, AllocLdr,
      AllocRt, CopyPackage, AllocPlatform, TakeMap, CheckVmx, CallLoader,
      LoadingDone, FreeBuffers, FreeLdr, CloseAndReturn, BeforeRt, BeforeMap
  <2> QED  BY <2>1 DEF FlowInv, MapGiven
<1>6. CASE pc \in {"out"} \union Ending
  <2>1. /\ pc' \in Ending /\ root_dir' = root_dir
        /\ pc = "close" \/ err' = err
        /\ pc = "close" => /\ pc' = IF root_dir THEN "returned" ELSE "lost"
                           /\ err' = IF root_dir THEN ReturnValue ELSE err
        /\ pc # "close" => pc' \in {"free_ldr", "close"}
        /\ pc # "returned"
    BY <1>6 DEF PreloadNext, OpenProtocol, OpenRoot, LoadImage, FindHeader, AllocLdr,
      AllocRt, CopyPackage, AllocPlatform, TakeMap, CheckVmx, CallLoader,
      LoadingDone, FreeBuffers, FreeLdr, CloseAndReturn
  <2>2. Launched' => /\ root_dir' /\ pc' # "lost"
                     /\ err' = IF pc' = "returned" THEN "NOT_FOUND" ELSE "SUCCESS"
    BY <1>2, <2>1 DEF FlowInv, ReturnValue
  <2> QED  BY <1>4, <1>5, <2>1, <2>2 DEF FlowInv
<1>7. CASE pc \notin {"out"} \union Ending
  <2>1. /\ pc = "open_protocol" => pc' \in {"open_root"} \union Ending
        /\ pc = "open_root" => /\ pc' \in {"load_image", "out"}
                               /\ pc' = "load_image" => root_dir'
        /\ pc \notin {"open_protocol", "open_root"} => UNCHANGED root_dir
        /\ pc' \notin {"out"} \union Ending => UNCHANGED err
        /\ pc = "resumed" => pc' = "out" /\ UNCHANGED err
        /\ pc' \notin {"open_protocol", "open_root"} \/ pc = "open_protocol"
    BY <1>7 DEF PreloadNext, OpenProtocol, OpenRoot, LoadImage, FindHeader,
      AllocLdr, AllocRt, CopyPackage, AllocPlatform, TakeMap, CheckVmx, CallLoader,
      LoadingDone, FreeBuffers, FreeLdr, CloseAndReturn
  <2> QED  BY <1>2, <1>3, <1>4, <1>5, <1>7, <2>1 DEF FlowInv
<1> QED  BY <1>6, <1>7

LEMMA FlowStep ==
  ASSUME Top <= Word, ChainInv, FlowInv, [Next]_vars
  PROVE  FlowInv'
<1>1. CASE PreloadNext /\ Elsewhere  BY <1>1, FlowPreloadStep
<1>2. CASE LoaderNext /\ UNCHANGED preloadVars
  <2>1. /\ pc \in LoaderPcs \ {"deadloop"} /\ pc' \in LoaderPcs \union {"resumed"}
        /\ UNCHANGED <<err, root_dir>>
    BY <1>2, LoaderGoes DEF preloadVars
  <2> QED  BY <2>1 DEF FlowInv, BeforeRt, BeforeMap, LoaderPcs
<1>3. CASE UNCHANGED vars
  BY <1>3 DEF vars, platformVars, preloadVars, loaderVars, FlowInv, Aside,
    MapGiven, Launched
<1> QED  BY <1>1, <1>2, <1>3 DEF Next, Elsewhere

-----------------------------------------------------------------------------
(* Step by step.  What a step of HypervisorBoot may see of one of the boot.*)
BootQuiet == UNCHANGED <<Stage, Aside, MapGiven, Offered, XmonIs, Answer>>

LEMMA TablesDiffer ==
  ASSUME ChainInv, NEW table \in TablesRead, MapGiven => pc \in LoaderPcs
  PROVE  table # NoTable
<1>1. 0 \in Pages  BY PlatformTyped DEF Pages
<1>2. table[0] # "none"
  <2>1. CASE MapIsThere
    <3>1. table[0] = EfiTypeToE820Type(memmap[0])  BY <1>1, <2>1 DEF TablesRead
    <3>2. memmap[0] \in Labels
      BY <1>1, <2>1, PageTyped DEF MapIsThere, MapGiven, ChainInv, InfoInv, TypeOK
    <3> QED
      BY <3>1, <3>2 DEF EfiTypeToE820Type, Labels, FirmwareLabels, PreloadLabels
  <2>2. CASE ~MapIsThere  BY <1>1, <2>2 DEF TablesRead
  <2> QED  BY <2>1, <2>2
<1> QED  BY <1>1, <1>2 DEF NoTable

(* Before the launch: nothing is offered yet, and only pc tells the stage. *)
LEMMA Unlaunched ==
  ASSUME ChainInv, pc \notin {"startap", "xmon", "resumed", "out"} \union Ending
  PROVE  /\ ~Launched /\ Offered = {} /\ XmonIs = "absent" /\ Answer = "none"
         /\ Stage = IF pc \in {"deadloop", "overrun"} THEN "stopped" ELSE "boot"
<1>1. ~Launched  BY DEF ChainInv, InfoInv
<1>2. Offered = {}  BY <1>1 DEF Launched, Offered, NoTable
<1> QED  BY <1>1, <1>2 DEF XmonIs, Answer, Stage

LEMMA BootPreloadStep ==
  ASSUME Top <= Word, ChainInv, FlowInv, PreloadNext, Elsewhere
  PROVE  Boot!Next \/ BootQuiet
<1> USE DEF Goto, Fail, rest, preloadVars
<1>1. Next  BY DEF Next, Elsewhere
<1>2. UNCHANGED e820 /\ Launched' = Launched /\ Offered' = Offered
  BY DEF Launched, Offered, Elsewhere, loaderVars
<1>3. CASE AllocRt
  <2>1. /\ pc = "alloc_rt" /\ UNCHANGED info /\ pc' \in {"copy", "out"}
        /\ pc' = "out" => UNCHANGED mem
    BY <1>3 DEF AllocRt
  <2>2. /\ ~Launched /\ Offered = {} /\ XmonIs = "absent" /\ Answer = "none"
        /\ Stage = "boot"
    BY <2>1, Unlaunched
  <2>3. XmonIs' = XmonIs /\ Stage' = Stage /\ Answer' = Answer
    BY <1>2, <2>1, <2>2 DEF XmonIs, Stage, Answer
  <2>4. ~MapGiven /\ MapGiven' = MapGiven /\ Aside = {}
    BY <2>1 DEF FlowInv, BeforeRt, BeforeMap, MapGiven
  <2>5. CASE Aside' = {}
    BY <1>2, <2>3, <2>4, <2>5 DEF BootQuiet
  <2>6. CASE Aside' # {}
    <3>1. Aside' \in SUBSET Pages  BY DEF Aside
    <3>2. Boot!SetAside
      BY <1>2, <2>2, <2>3, <2>4, <2>6, <3>1 DEF Boot!SetAside
    <3> QED  BY <3>2 DEF Boot!Next
  <2> QED  BY <2>5, <2>6
<1>4. CASE TakeMap
  <2>1. pc = "take_map" /\ pc' = "check_vmx" /\ UNCHANGED <<err, pkg>>
    BY <1>4 DEF TakeMap
  <2>2. /\ ~Launched /\ Offered = {} /\ XmonIs = "absent" /\ Answer = "none"
        /\ Stage = "boot"
    BY <2>1, Unlaunched
  <2>3. XmonIs' = XmonIs /\ Stage' = Stage /\ Answer' = Answer
    BY <1>2, <2>1, <2>2 DEF XmonIs, Stage, Answer
  <2>4. ~MapGiven /\ Aside # {} /\ Aside' = Aside
    <3>1. ~MapGiven  BY <2>1 DEF FlowInv, BeforeMap
    <3>2. Aside # {}  BY <2>1, AsideHeld
    <3>3. ~AllocRt  BY <2>1 DEF AllocRt
    <3> QED  BY <1>1, <3>1, <3>2, <3>3, AsideStays
  <2>5. CASE MapGiven'
    <3>1. Boot!TakeMap  BY <1>2, <2>2, <2>3, <2>4, <2>5 DEF Boot!TakeMap
    <3> QED  BY <3>1 DEF Boot!Next
  <2>6. CASE ~MapGiven'
    <3>1. MapGiven' = MapGiven  BY <2>4, <2>6 DEF MapGiven
    <3> QED  BY <1>2, <2>3, <2>4, <3>1 DEF BootQuiet
  <2> QED  BY <2>5, <2>6
<1>5. CASE ~AllocRt /\ ~TakeMap
  <2>1. /\ UNCHANGED <<info, pkg>> /\ pc \in PreloadPcs \ {"returned", "lost", "overrun"}
        /\ pc' \in PreloadPcs \union {"starter"}
        /\ Launched => UNCHANGED content
    <3>1. /\ UNCHANGED <<info, pkg>>
          /\ pc \in PreloadPcs \ {"returned", "lost", "overrun"}
          /\ pc' \in PreloadPcs \union {"starter"}
          /\ pc \notin {"load_image", "copy"} => UNCHANGED content
      BY <1>5 DEF PreloadNext, OpenProtocol, OpenRoot, LoadImage, FindHeader,
        AllocLdr, CopyPackage, AllocPlatform, CheckVmx, CallLoader,
        LoadingDone, FreeBuffers, FreeLdr, CloseAndReturn, PreloadPcs
    <3>2. Launched => pc \notin {"load_image", "copy"}  BY DEF ChainInv, InfoInv
    <3> QED  BY <3>1, <3>2
  <2>2. Aside' = Aside  BY <1>1, <1>5, AsideStays
  <2>3. MapGiven' = MapGiven  BY <2>1 DEF MapGiven
  <2>4. XmonIs' = XmonIs
    BY <1>2, <2>1 DEF XmonIs, HoldsAll, StartapBase, XmonBase, Region
  <2>5. CASE pc' \notin {"returned", "lost", "overrun"}
    <3>1. /\ Launched => pc \in {"resumed", "out"} \union Ending
          /\ pc' \notin {"startap", "xmon"}
      BY <2>1 DEF ChainInv, InfoInv, PreloadPcs
    <3>2. Stage' = Stage
      BY <1>2, <2>1, <2>5, <3>1 DEF Stage, PreloadPcs
    <3>3. Answer' = Answer  BY <2>1, <2>5 DEF Answer
    <3> QED  BY <1>2, <2>2, <2>3, <2>4, <3>2, <3>3 DEF BootQuiet
  <2>6. CASE pc' \in {"lost", "overrun"}
    <3>1. ~Launched
      BY <1>2, <2>6, FlowPreloadStep, ChainStep, <1>1 DEF FlowInv, ChainInv, InfoInv
    <3>2. Stage = "boot" /\ Stage' = "stopped" /\ Answer = "none" /\ Answer' = "none"
      BY <2>1, <2>6, <3>1 DEF Stage, Answer, PreloadPcs
    <3>3. Boot!Stop  BY <1>2, <2>2, <2>3, <2>4, <3>2 DEF Boot!Stop
    <3> QED  BY <3>3 DEF Boot!Next
  <2>7. CASE pc' = "returned"
    <3>1. \/ err' \in {"ERROR", "NOT_FOUND"}
          \/ pc = "open_protocol" /\ err' = "SUCCESS"
      BY <1>5, <2>7 DEF ChainInv, TypeOK, PreloadNext, OpenProtocol, OpenRoot,
        LoadImage, FindHeader, AllocLdr, CopyPackage, AllocPlatform, CheckVmx,
        CallLoader, LoadingDone, FreeBuffers, FreeLdr, CloseAndReturn, ReturnValue
    <3>2. pc = "open_protocol" => ~Launched /\ Aside = {}
      BY DEF FlowInv, BeforeRt, ChainInv, InfoInv
    <3>3. Launched => err' = "NOT_FOUND" /\ pc \in {"resumed", "out"} \union Ending
      BY <1>2, <2>1, <2>7, FlowPreloadStep DEF FlowInv, ChainInv, InfoInv, PreloadPcs
    <3>4. Stage' = "returned" /\ Answer' = err'  BY <2>7 DEF Stage, Answer
    <3>5. Stage = IF Launched THEN "back" ELSE "boot"
      BY <2>1, <3>3 DEF Stage, PreloadPcs
    <3>6. Boot!Return
      BY <1>2, <2>2, <2>3, <2>4, <3>1, <3>3, <3>4, <3>5, <3>2 DEF Boot!Return
    <3> QED  BY <3>6 DEF Boot!Next
  <2> QED  BY <2>5, <2>6, <2>7
<1> QED  BY <1>3, <1>4, <1>5

(* The loader's: xmon is launched when the table is handed over.           *)
LEMMA BootLoaderStep ==
  ASSUME Top <= Word, ChainInv, LoadedInv, LoaderNext, UNCHANGED preloadVars
  PROVE  Boot!Next \/ BootQuiet
<1>1. /\ pc \in LoaderPcs \ {"deadloop"} /\ pc' \in LoaderPcs \union {"resumed"}
      /\ UNCHANGED <<mem, info, pkg, err>>
  BY LoaderGoes DEF preloadVars
<1>2. Aside' = Aside /\ MapGiven' = MapGiven  BY <1>1 DEF Aside, MapGiven
<1>3. Answer = "none" /\ Answer' = "none"  BY <1>1 DEF Answer, LoaderPcs
<1>4. CASE pc \in {"startap", "xmon"}
  <2>1. /\ pc = "startap" => pc' = "xmon"
        /\ pc = "xmon" => pc' = "resumed"
        /\ UNCHANGED <<content, e820>>
    BY <1>4 DEF LoaderNext, StarterMain, RunXmonLoader, InitLoader, LoadXmon,
      LoadStartap, Load, SaveCpuState, SetupPrimaryGuest, SetupStartupEnv,
      CallStartap, StartGuest, OnHeap, Deadloop, loaderVars
  <2>2. Launched' = Launched /\ Offered' = Offered  BY <2>1 DEF Launched, Offered
  <2>3. XmonIs' = XmonIs
    BY <1>1, <2>1, <2>2 DEF XmonIs, HoldsAll, StartapBase, XmonBase, Region
  <2>4. CASE pc = "startap" \/ ~Launched
    <3>1. Stage' = Stage  BY <1>4, <2>1, <2>2, <2>4 DEF Stage
    <3> QED  BY <1>2, <1>3, <2>2, <2>3, <3>1 DEF BootQuiet
  <2>5. CASE pc = "xmon" /\ Launched
    <3>1. Stage = "launched" /\ Stage' = "back"  BY <2>1, <2>2, <2>5 DEF Stage
    <3>2. Boot!Resume  BY <1>2, <1>3, <2>2, <2>3, <3>1 DEF Boot!Resume
    <3> QED  BY <3>2 DEF Boot!Next
  <2> QED  BY <1>4, <2>4, <2>5
<1>5. CASE pc \notin {"startap", "xmon"}
  <2>1. /\ ~Launched /\ Offered = {} /\ XmonIs = "absent" /\ Stage = "boot"
    BY <1>1, <1>5, Unlaunched DEF LoaderPcs
  <2>2. CASE UNCHANGED e820
    <3>1. /\ ~Launched' /\ Offered' = Offered  BY <2>1, <2>2 DEF Launched, Offered
    <3>2. XmonIs' = XmonIs  BY <2>1, <3>1 DEF XmonIs
    <3>3. CASE pc' = "deadloop"
      <4>1. Stage' = "stopped"  BY <3>3 DEF Stage
      <4>2. Boot!Stop  BY <1>2, <1>3, <2>1, <3>1, <3>2, <4>1 DEF Boot!Stop
      <4> QED  BY <4>2 DEF Boot!Next
    <3>4. CASE pc' # "deadloop"
      <4>1. Stage' = Stage  BY <1>1, <2>1, <3>1, <3>4 DEF Stage, LoaderPcs
      <4> QED  BY <1>2, <1>3, <3>1, <3>2, <4>1 DEF BootQuiet
    <3> QED  BY <3>3, <3>4
  <2>3. CASE e820' # e820
    <3>1. /\ pc = "startup_env" /\ pc' = "startap"
          /\ e820' \in TablesRead /\ UNCHANGED content
      BY <2>3 DEF LoaderNext, StarterMain, RunXmonLoader, InitLoader, LoadXmon,
        LoadStartap, Load, SaveCpuState, SetupPrimaryGuest, SetupStartupEnv,
        CallStartap, StartGuest, OnHeap, Deadloop, loaderVars, fixed
    <3>2. ChainInv' /\ LoadedInv'
      <4>1. Next /\ LoaderNext  BY DEF Next
      <4> QED  BY <4>1, ChainStep, LoadedStep
    <3>3. Launched'
      <4>1. e820' # NoTable  BY <1>1, <3>1, TablesDiffer
      <4> QED  BY <4>1 DEF Launched, NoTable
    <3>4. Stage' = "launched"  BY <3>1, <3>3 DEF Stage
    <3>5. XmonIs' = "whole"
      BY <3>1, <3>2, <3>3 DEF XmonIs, LoadedInv, HasStartap, HasXmon
    <3>6. Offered' \in SUBSET Pages  BY DEF Offered
    <3>7. MapGiven => Offered' \intersect Aside = {}
      BY <1>2, <3>2, <3>3 DEF ChainInv, RuntimeHidden, Offered, Aside
    <3>8. Aside # {}  BY <1>1, AsideHeld
    <3>9. Boot!Launch
      BY <1>2, <1>3, <2>1, <3>4, <3>5, <3>6, <3>7, <3>8 DEF Boot!Launch
    <3> QED  BY <3>9 DEF Boot!Next
  <2> QED  BY <2>2, <2>3
<1> QED  BY <1>4, <1>5

(* The boot keeps the promise of HypervisorBoot: efi_main, starter and     *)
(* xmon_loader together set the runtime memory aside once, launch xmon     *)
(* with its images whole and a table that offers none of that memory, and  *)
(* from there come back to the firmware with EFI_NOT_FOUND.                *)
THEOREM BootImplemented ==
  ASSUME Top <= Word
  PROVE  Spec => BootSpec
<1> DEFINE BootInv == ChainInv /\ LoadedInv /\ FlowInv
<1>1. Init => BootInv
  BY InitChain, FlowStarts
  DEF Init, PlatformInit, LoadedInv, HasDesc, HasXmon, HasStartap
<1>2. BootInv /\ [Next]_vars => BootInv'  BY ChainStep, LoadedStep, FlowStep
<1>3. Init => Boot!Init
  <2> SUFFICES ASSUME Init PROVE Boot!Init  OBVIOUS
  <2>1. ChainInv /\ FlowInv /\ pc = "open_protocol"
    BY InitChain, FlowStarts DEF Init, PlatformInit
  <2>2. Aside = {}  BY <2>1 DEF FlowInv, BeforeRt
  <2>3. MapGiven = FALSE  BY DEF Init, PlatformInit, NoInfo, MapGiven
  <2>4. Offered = {} /\ XmonIs = "absent" /\ Answer = "none" /\ Stage = "boot"
    BY <2>1, Unlaunched
  <2> QED  BY <2>2, <2>3, <2>4 DEF Boot!Init
<1>4. BootInv /\ [Next]_vars => [Boot!Next]_Boot!vars
  <2> SUFFICES ASSUME BootInv, [Next]_vars PROVE Boot!Next \/ BootQuiet
    BY DEF BootQuiet, Boot!vars
  <2>1. CASE UNCHANGED vars
    <3>1. UNCHANGED <<pc, mem, content, info, pkg, e820, err>>
      BY <2>1 DEF vars, platformVars, preloadVars, loaderVars
    <3>2. Launched' = Launched  BY <3>1 DEF Launched
    <3>3. Aside' = Aside /\ Offered' = Offered /\ MapGiven' = MapGiven
      BY <3>1 DEF Aside, Offered, MapGiven
    <3>4. Stage' = Stage /\ Answer' = Answer  BY <3>1, <3>2 DEF Stage, Answer
    <3>5. XmonIs' = XmonIs
      BY <3>1, <3>2 DEF XmonIs, HoldsAll, StartapBase, XmonBase, Region
    <3> QED  BY <3>3, <3>4, <3>5 DEF BootQuiet
  <2> QED
    BY <2>1, BootPreloadStep, BootLoaderStep DEF Next, Elsewhere
<1> HIDE DEF BootInv
<1> QED  BY <1>1, <1>2, <1>3, <1>4, PTL DEF Spec, BootSpec, Boot!Spec
=============================================================================
