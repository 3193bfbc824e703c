----------------------------- MODULE BootChain ------------------------------
(***************************************************************************)
(* The boot from the EFI application through the package's stages into     *)
(* xmon and back to the firmware: Preload and XmonLoader on one processor. *)
(***************************************************************************)
EXTENDS Preload, XmonLoader

(* The packer takes the sizes of the two regions from the layout.          *)
ASSUME RegionsAssumption ==
  /\ SizeToPages(LdrSize) = BinPages + LoaderPages + HeapPages + 1
  /\ SizeToPages(RtSize) = StartapPages + GuestPages + XmonPages
  /\ BinSize = BinPages * UnitsPerPage

vars == <<platformVars, preloadVars, loaderVars, heapVars>>

Init == PlatformInit /\ PreloadInit /\ LoaderInit
Next == \/ PreloadNext /\ UNCHANGED <<loaderVars, heapVars>>
        \/ LoaderNext /\ UNCHANGED preloadVars

Spec     == Init /\ [][Next]_vars
FairSpec == Spec /\ WF_vars(Next)

-----------------------------------------------------------------------------
(* Properties.                                                             *)

(* The values that the boot passes on: the two halves of the header's      *)
(* addresses, the labels, the heap's pointer between 0 and its top.        *)
Contents == {"none", "firmware", "image", "package", "info", "map", "desc"}
              \union Bins
TypeOK ==
  /\ pc \in PreloadPcs \union LoaderPcs
  /\ mem \in [Pages -> Labels]
  /\ content \in [Pages -> Contents]
  /\ hdr \in [ldr_base : 0 .. Word - 1, ldr_size : Nat,
              rt_base : 0 .. Word - 1, rt_size : Nat]
  /\ pkg \in Packages
  /\ info.memmap_size \in Nat
  /\ err \in {"SUCCESS", "ERROR", "NOT_FOUND"}
  /\ image_addr \in Pages \union {Nowhere}
  /\ platform_addr \in Pages \union {Nowhere}
  /\ alloc_flag \in BOOLEAN
  /\ xd \in [files : SUBSET Bins, loaded : SUBSET Bins]
  /\ heap_current \in 0 .. heap_tops
  /\ heap_tops \in {0, HeapBase + HeapBytes}

(* startap, and so xmon, is entered with a table; the firmware gave a map. *)
Launched == e820 # NoTable
MapGiven == info.memmap_addr # Nowhere

(* "must hide this memory range" (xmon_desc.h:388), though nothing does:   *)
(* the table handed to xmon shows the runtime memory as reserved, because  *)
(* the map was taken after AllocatePages with EfiReservedMemoryType, and   *)
(* offers the OS no page that outlives the boot.                           *)
RuntimeHidden ==
  Launched /\ MapGiven =>
    /\ \A p \in RuntimeArea : mem[p] = "rt" /\ e820[p] = "reserved"
    /\ \A p \in Pages : e820[p] = "memory" =>
         mem[p] \notin {"rt", "runtime_services", "acpi", "nvs"}

(* Neither the file nor its copy in the load-time memory nor an image that *)
(* starter and xmon_loader load goes over memory that the firmware uses.   *)
(* That holds of a package whose size the packer's check and padding allow:*)
(* it fits u_ldr_bin, and its byte count and one more do not fill a page   *)
(* (preload.c:190 writes behind a full buffer).                            *)
TerminatorFits == Buffer % UnitsPerPage # 0
FirmwareMemoryIntact ==
  PackageFits /\ TerminatorFits =>
    \A p \in Pages : mem[p] \in FirmwareLabels => content[p] = "firmware"

HoldsAll(pages, what) == \A p \in pages : p \in Pages /\ content[p] = what

(* When startap is entered the images of both are where they were loaded,  *)
(* whole, and so is xmon_desc_t, which holds their environment: the checks *)
(* of load_size keep every image out of the next area.                     *)
ImagesIntact ==
  pc \in {"startap", "xmon"} =>
    /\ HoldsAll(Region(StartapBase, pkg.bins["startap"].pages), "startap")
    /\ HoldsAll(Region(XmonBase, pkg.bins["xmon"].pages), "xmon")
    /\ HoldsAll(DescArea, "desc")

(* starter_main loops for ever on any failure (starter_main.c:211), with   *)
(* the firmware gone.  It happens only with a broken package or a memory   *)
(* map too large for the heap: preload turns away a machine without VT     *)
(* before (preload.c:371).                                                 *)
GoodImage(bin, space) ==
  bin \in pkg.listed /\ InfoFits(pkg.bins[bin], space) /\ pkg.bins[bin].loads
GoodPackage == /\ PackageFits
               /\ GoodImage("xmon_loader", LoaderPages)
               /\ GoodImage("xmon", XmonPages)
               /\ GoodImage("startap", StartapPages)
HeapSuffices == CpuStateSize + GuestSize
                  + AlignForward(info.memmap_size, PageSize) <= HeapBytes
LoopsOnlyWhenBroken ==
  pc = "deadloop" => ~GoodPackage \/ ~HeapSuffices

(* efi_main gives back its buffers on every path that returns (preload.c:  *)
(* 383-386), and once it has opened a file system never returns            *)
(* EFI_SUCCESS, which would end the firmware's search for a boot loader.   *)
BuffersReturned ==
  pc = "returned" => /\ \A p \in Pages : mem[p] \notin {"image", "platform"}
                     /\ root_dir => err # "SUCCESS"

(* "must not to free the runtime memory, it's will be used by ikgt at      *)
(* runtime" (preload.c:390): no step gives back a page of it.              *)
RuntimeKept ==
  [][\A p \in Pages : mem[p] = "rt" => mem'[p] = "rt"]_mem

(* What all of it is for: memory set aside for xmon once and for good, no  *)
(* failure after its launch, and the answer that lets the firmware go on   *)
(* ("it will try the next bootloader", preload.c:395).                     *)
Stage == IF pc \in {"deadloop", "lost", "overrun"} THEN "stopped"
         ELSE IF pc = "returned" THEN "returned"
         ELSE IF ~Launched THEN "boot"
         ELSE IF pc \in {"startap", "xmon"} THEN "launched" ELSE "back"
Aside   == {p \in Pages : mem[p] = "rt"}
Offered == {p \in Pages : e820[p] = "memory"}
XmonIs  == IF ~Launched THEN "absent"
           ELSE IF /\ HoldsAll(Region(StartapBase, pkg.bins["startap"].pages), "startap")
                   /\ HoldsAll(Region(XmonBase, pkg.bins["xmon"].pages), "xmon")
           THEN "whole" ELSE "broken"
Answer  == IF pc = "returned" THEN err ELSE "none"
Boot == INSTANCE HypervisorBoot WITH stage <- Stage, aside <- Aside,
          mapped <- MapGiven, offered <- Offered, xmon <- XmonIs, answer <- Answer
BootSpec == Boot!Spec

(* "because we return EFI_NOT_FOUND, it will try the next bootloader"      *)
(* (preload.c:395-397): a sound package that is called comes back, under   *)
(* xmon, and the firmware goes on.                                         *)
NextBootLoader ==
  (pc = "starter" /\ GoodPackage /\ HeapSuffices)
    ~> (pc = "returned" /\ Launched /\ err = "NOT_FOUND")

(* "populate rt_mem_base (make sure it < 4G)", "populate ldr_mem_base      *)
(* (make sure it < 4G)" (ikgtboot.h:65-66, 72-73): the addresses handed to *)
(* the loader name the memory that was allocated.                          *)
AddressesNameRegions ==
  pc = "starter" => mem[info.load_addr] = "ldr" /\ mem[info.run_addr] = "rt"
-----------------------------------------------------------------------------
(* The inductive invariant, for the proofs: at each step, what preload     *)
(* still holds and where it has noted it.                                  *)

LdrPages == SizeToPages(LdrSize)
RtPages  == SizeToPages(RtSize)
Held(base, n, label) == /\ Region(base, n) \subseteq Pages
                        /\ \A p \in Region(base, n) : mem[p] = label

Ending  == {"free_ldr", "close", "returned", "lost"}
HasInfo == {"check_vmx", "call"} \union LoaderPcs
HasRt   == {"copy", "overrun", "alloc_platform", "take_map"} \union HasInfo
HasLdr  == {"alloc_rt"} \union HasRt

BuffersInv ==
  pc \notin Ending =>
    /\ image_addr # Nowhere => Held(image_addr, ImagePages, "image")
    /\ platform_addr # Nowhere => Held(platform_addr, 1, "platform")

HeaderInv ==
  /\ pc = "alloc_ldr" => hdr.ldr_size \in {0, LdrSize}
  /\ pc \in {"alloc_ldr", "alloc_rt"} => hdr.rt_size \in {0, RtSize}
  /\ pc \in HasLdr => Held(hdr.ldr_base, LdrPages, "ldr")
  /\ pc \in HasRt  => Held(hdr.rt_base, RtPages, "rt")
  /\ pc \in HasLdr \/ alloc_flag => hdr.ldr_size = 0
  /\ alloc_flag => pc \in HasRt \union {"resumed", "out"} \union Ending

(* What the loader is told, and the map it is given.                       *)
InfoInv ==
  /\ pc \in HasInfo => info.load_addr = hdr.ldr_base /\ info.run_addr = hdr.rt_base
  /\ pc \in HasInfo /\ MapGiven =>
       /\ memmap = mem
       /\ info.memmap_addr \in Pages
       /\ mem[info.memmap_addr] = "map" /\ content[info.memmap_addr] = "map"
  /\ Launched => /\ pc \in {"startap", "xmon", "resumed", "out"} \union Ending
                 /\ RuntimeArea \subseteq Pages

ChainInv == /\ TypeOK /\ BuffersInv /\ HeaderInv /\ InfoInv
            /\ FirmwareMemoryIntact /\ RuntimeHidden

(* Every page of preload's buffers is where preload has noted it.          *)
NoBuffer == {"open_protocol", "open_root", "load_image"}
NoInfoBuffer == {"find_header", "alloc_ldr", "alloc_rt", "copy", "alloc_platform"}
OwnedInv ==
  /\ \A p \in Pages : mem[p] = "image" =>
       image_addr # Nowhere /\ p \in Region(image_addr, ImagePages)
  /\ \A p \in Pages : mem[p] = "platform" =>
       platform_addr # Nowhere /\ p = platform_addr
  /\ pc \in NoBuffer => image_addr = Nowhere /\ platform_addr = Nowhere
  /\ pc \in {"open_protocol", "open_root"} => ~root_dir
  /\ pc \in NoInfoBuffer => platform_addr = Nowhere
  /\ pc \in Ending => \A p \in Pages : mem[p] \notin {"image", "platform"}
  /\ pc = "returned" => (root_dir => err # "SUCCESS")

(* What is loaded by now.                                                  *)
HasStartap == {"cpu_state", "primary_guest", "startup_env", "startap", "xmon"}
HasXmon == {"load_startap"} \union HasStartap
HasDesc == {"run_xmon_loader", "xmon_loader", "load_xmon"} \union HasXmon
LoadedInv ==
  /\ pc \in HasDesc => HoldsAll(DescArea, "desc")
  /\ pc \in HasXmon =>
       /\ HoldsAll(Region(XmonBase, pkg.bins["xmon"].pages), "xmon")
       /\ pkg.bins["xmon"].pages \in 0 .. XmonPages
  /\ pc \in HasStartap =>
       HoldsAll(Region(StartapBase, pkg.bins["startap"].pages), "startap")

(* What starter finds, and how much of the heap was used.                  *)
HasPackage == {"alloc_platform", "take_map", "check_vmx", "call", "starter"}
HeapUsed(n) == heap_tops = HeapBase + HeapBytes /\ heap_current = HeapBase + n
SoundInv ==
  /\ pc \in {"call"} \union LoaderPcs => vmx
  /\ pc \in HasPackage => content[hdr.ldr_base] = "package"
  /\ pc \in {"load_xmon", "load_startap", "cpu_state"} => HeapUsed(0)
  /\ pc = "primary_guest" => HeapUsed(CpuStateSize)
  /\ pc = "startup_env" => HeapUsed(CpuStateSize + GuestSize)
  /\ LoopsOnlyWhenBroken

(* Which part of the boot it is, and that nothing fails after the launch.  *)
BeforeRt  == {"open_protocol", "open_root", "load_image", "find_header",
              "alloc_ldr", "alloc_rt"}
BeforeMap == BeforeRt \union {"copy", "alloc_platform", "take_map"}
FlowInv ==
  /\ pc \in BeforeRt => Aside = {}
  /\ pc \in BeforeMap => ~MapGiven
  /\ pc \notin {"out"} \union Ending =>
       err = "SUCCESS" /\ (pc \in {"open_protocol", "open_root"} \/ root_dir)
  /\ Launched => /\ root_dir /\ pc # "lost"
                 /\ err = IF pc = "returned" THEN "NOT_FOUND" ELSE "SUCCESS"
=============================================================================
