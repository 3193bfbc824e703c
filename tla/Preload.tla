------------------------------ MODULE Preload -------------------------------
(***************************************************************************)
(* The EFI application (uefi_bootloader/preload.c): it reads the package,  *)
(* allocates load-time and runtime memory, copies the package, takes the   *)
(* memory map, calls the loader, and afterwards returns an error so that   *)
(* the firmware goes on to the OS loader.  The firmware runs nothing else  *)
(* meanwhile; it refuses an allocation only when there is no free range.   *)
(***************************************************************************)
EXTENDS BootPlatform

CONSTANTS BinSize,         \* sizeof(u_ldr_bin), the room for the package
          LdrSize, RtSize, \* the sizes the packer puts in the header
          LdrBase, RtBase, \* the addresses it prefers
          MapSizes         \* memory map sizes: desc_size * nr_entries

(* A header size is megabytes: read as the high half of a 64-bit address   *)
(* it is beyond the memory of any machine.                                 *)
ASSUME HeaderAssumption ==
  /\ BinSize \in Nat
  /\ LdrSize \in Nat /\ LdrSize * Word >= Top
  /\ RtSize \in Nat /\ RtSize * Word >= Top
  /\ LdrBase \in 0 .. Word - 1 /\ RtBase \in 0 .. Word - 1
  /\ MapSizes \subseteq Nat

VARIABLES
  hdr,           \* the boot header in the image buffer
  image_addr, platform_addr, alloc_flag, err,
  root_dir       \* whether it is not NULL
preloadVars == <<hdr, image_addr, platform_addr, alloc_flag, err, root_dir>>
rest == <<vmx, pkg, memmap>>

PreloadPcs == {"open_protocol", "open_root", "load_image", "find_header",
               "alloc_ldr", "alloc_rt", "copy", "alloc_platform", "take_map",
               "check_vmx", "call", "resumed", "out", "free_ldr", "close",
               "returned", "lost", "overrun"}

PreloadInit == /\ hdr = [ldr_base |-> 0, ldr_size |-> 0,
                         rt_base |-> 0, rt_size |-> 0]
               /\ image_addr = Nowhere /\ platform_addr = Nowhere
               /\ alloc_flag = FALSE
               /\ err = "SUCCESS"
               /\ root_dir = FALSE

Goto(from, to) == pc = from /\ pc' = to
Fail(from) == /\ Goto(from, "out") /\ err' = "ERROR"

(* A firmware that answers EFI_SUCCESS and gives no interface ends it with  *)
(* EFI_SUCCESS.                                                            *)
OpenProtocol ==
  /\ \/ Goto("open_protocol", "open_root") /\ UNCHANGED err
     \/ Goto("open_protocol", "returned") /\ err' \in {"ERROR", err}
  /\ UNCHANGED <<mem, content, info, hdr, image_addr, platform_addr,
                 alloc_flag, root_dir, rest>>

(* Without a root directory efi_main leaves with err still EFI_SUCCESS.    *)
OpenRoot ==
  /\ \/ Goto("open_root", "load_image") /\ root_dir' = TRUE
     \/ Goto("open_root", "out") /\ UNCHANGED root_dir
  /\ UNCHANGED <<mem, content, info, hdr, image_addr, platform_addr,
                 alloc_flag, err, rest>>

(* The buffer is for the file and one byte.  The string's end is written   *)
(* behind that byte, which is the next page when the buffer is full.       *)
Buffer      == pkg.size + 1
ImagePages  == SizeToPages(Buffer)
EndPage(base) == base + Buffer \div UnitsPerPage

(* load_image.  When the file does not open, its NULL handle is closed:    *)
(* a call through a null pointer.  A file that cannot be read is given     *)
(* back with what was read of it.                                          *)
LoadImage ==
  /\ \/ /\ Goto("load_image", "lost")
        /\ UNCHANGED <<mem, content, image_addr, err>>
     \/ /\ BelowLimit(Low - 1, ImagePages) = {}
        /\ Fail("load_image")
        /\ UNCHANGED <<mem, content, image_addr>>
     \/ \E base \in BelowLimit(Low - 1, ImagePages) :
          /\ \/ /\ Goto("load_image", "find_header")
                /\ Write(Region(base, ImagePages) \union {EndPage(base)}, "image")
                /\ mem' = Given(base, ImagePages, "image")
                /\ image_addr' = base
                /\ UNCHANGED err
             \/ /\ Fail("load_image")
                /\ Write(Region(base, ImagePages), "image")
                /\ UNCHANGED <<mem, image_addr>>
  /\ UNCHANGED <<info, hdr, platform_addr, alloc_flag, root_dir, rest>>

(* A package without the header is left with err still EFI_SUCCESS.        *)
FindHeader ==
  /\ \/ /\ pkg.header
        /\ Goto("find_header", "alloc_ldr")
        /\ hdr' = [ldr_base |-> IF pkg.filled THEN LdrBase ELSE 0,
                   ldr_size |-> IF pkg.filled THEN LdrSize ELSE 0,
                   rt_base  |-> IF pkg.filled THEN RtBase ELSE 0,
                   rt_size  |-> IF pkg.filled THEN RtSize ELSE 0]
     \/ /\ ~pkg.header
        /\ Goto("find_header", "out")
        /\ UNCHANGED hdr
  /\ UNCHANGED <<mem, content, info, image_addr, platform_addr, alloc_flag,
                 err, root_dir, rest>>

(* Both regions are allocated alike.  &ikgt_header->xxx_base is passed as  *)
(* the address of a 64-bit number, whose high half is the size field       *)
(* beside it: first as the address wanted, then, with HIGH_ADDR as its low *)
(* half, as the limit.                                                     *)
Joined(low, high) == low + high * Word
RangesTaken(base, size) ==
  LET n     == SizeToPages(size)
      fixed == AtAddress(Joined(base, size), n)
  IN  IF fixed # {} THEN fixed ELSE BelowLimit(Joined(Low - 1, size), n)

(* On success the firmware's answer overwrites both halves.                *)
AllocLdr ==
  /\ \/ \E base \in RangesTaken(hdr.ldr_base, hdr.ldr_size) :
          /\ Goto("alloc_ldr", "alloc_rt")
          /\ mem' = Given(base, SizeToPages(hdr.ldr_size), "ldr")
          /\ hdr' = [hdr EXCEPT !.ldr_base = base % Word,
                                !.ldr_size = base \div Word]
          /\ UNCHANGED err
     \/ /\ RangesTaken(hdr.ldr_base, hdr.ldr_size) = {}
        /\ Fail("alloc_ldr")
        /\ hdr' = [hdr EXCEPT !.ldr_base = Low - 1]
        /\ UNCHANGED mem
  /\ UNCHANGED <<content, info, image_addr, platform_addr, alloc_flag,
                 root_dir, rest>>

AllocRt ==
  /\ \/ \E base \in RangesTaken(hdr.rt_base, hdr.rt_size) :
          /\ Goto("alloc_rt", "copy")
          /\ mem' = Given(base, SizeToPages(hdr.rt_size), "rt")
          /\ hdr' = [hdr EXCEPT !.rt_base = base % Word,
                                !.rt_size = base \div Word]
          /\ alloc_flag' = TRUE
          /\ UNCHANGED err
     \/ /\ RangesTaken(hdr.rt_base, hdr.rt_size) = {}
        /\ Fail("alloc_rt")
        /\ hdr' = [hdr EXCEPT !.rt_base = Low - 1]
        /\ UNCHANGED <<mem, alloc_flag>>
  /\ UNCHANGED <<content, info, image_addr, platform_addr, root_dir, rest>>

(* The whole buffer is copied, whatever the room for it.  A package beyond *)
(* u_ldr_bin, which the packer refuses, is over what lies behind it, and   *)
(* is followed no further.                                                 *)
PackageFits == pkg.size <= BinSize
CopyPackage ==
  /\ Goto("copy", IF PackageFits THEN "alloc_platform" ELSE "overrun")
  /\ Write(Region(hdr.ldr_base, ImagePages), "package")
  /\ UNCHANGED <<mem, info, preloadVars, rest>>

AllocPlatform ==
  /\ \/ \E base \in BelowLimit(Low - 1, 1) :
          /\ Goto("alloc_platform", "take_map")
          /\ mem' = Given(base, 1, "platform")
          /\ platform_addr' = base
          /\ UNCHANGED err
     \/ /\ BelowLimit(Low - 1, 1) = {}
        /\ Fail("alloc_platform")
        /\ UNCHANGED <<mem, platform_addr>>
  /\ UNCHANGED <<content, info, hdr, image_addr, alloc_flag, root_dir, rest>>

(* The map that LibMemoryMap returns lists its own buffer too.  Without    *)
(* room for one it returns NULL, which is not checked.  The address is     *)
(* cut to 32 bits.                                                         *)
MapTaken ==
  \/ \E base \in BelowLimit(Top - 1, 1), size \in MapSizes :
       /\ mem' = Given(base, 1, "map")
       /\ memmap' = mem'
       /\ content' = [content EXCEPT ![base] = "map", ![platform_addr] = "info"]
       /\ info' = [load_addr |-> hdr.ldr_base, run_addr |-> hdr.rt_base,
                   memmap_addr |-> base % Word, memmap_size |-> size]
  \/ \E size \in MapSizes :
       /\ BelowLimit(Top - 1, 1) = {}
       /\ content' = [content EXCEPT ![platform_addr] = "info"]
       /\ info' = [load_addr |-> hdr.ldr_base, run_addr |-> hdr.rt_base,
                   memmap_addr |-> Nowhere, memmap_size |-> size]
       /\ UNCHANGED <<mem, memmap>>
TakeMap == /\ Goto("take_map", "check_vmx")
           /\ MapTaken
           /\ UNCHANGED <<vmx, pkg, preloadVars>>

SkipVmxCheck == /\ Goto("check_vmx", "call")
                /\ UNCHANGED <<mem, content, info, preloadVars, rest>>
CheckVmx == /\ Goto("check_vmx", IF vmx THEN "call" ELSE "out")
            /\ UNCHANGED <<mem, content, info, preloadVars, rest>>

CallLoader == /\ Goto("call", "starter")
              /\ UNCHANGED <<mem, content, info, preloadVars, rest>>

(* The call came back, as the first instruction of xmon's primary guest.   *)
LoadingDone == /\ Goto("resumed", "out")
               /\ UNCHANGED <<mem, content, info, preloadVars, rest>>

FreeNothing == /\ Goto("out", "free_ldr")
               /\ UNCHANGED <<mem, content, info, preloadVars, rest>>
FreeBuffers ==
  /\ Goto("out", "free_ldr")
  /\ LET withoutImage == IF image_addr # Nowhere
                         THEN Freed(mem, image_addr, ImagePages) ELSE mem
     IN  mem' = IF platform_addr # Nowhere
                THEN Freed(withoutImage, platform_addr, 1) ELSE withoutImage
  /\ UNCHANGED <<content, info, preloadVars, rest>>

(* The header is read where it was, in the buffer just freed: its fields,  *)
(* or the pattern a debug firmware fills freed pages with, which names no  *)
(* memory.  The size field is by now the high half of the region's address. *)
FreeRuntimeToo ==
  /\ Goto("free_ldr", "close")
  /\ mem' = IF alloc_flag
            THEN Freed(Freed(mem, hdr.ldr_base, SizeToPages(hdr.ldr_size)),
                       hdr.rt_base, SizeToPages(RtSize))
            ELSE mem
  /\ UNCHANGED <<content, info, preloadVars, rest>>
FreeLdr ==
  /\ Goto("free_ldr", "close")
  /\ \/ mem' = IF alloc_flag
               THEN Freed(mem, hdr.ldr_base, SizeToPages(hdr.ldr_size))
               ELSE mem
     \/ UNCHANGED mem
  /\ UNCHANGED <<content, info, preloadVars, rest>>

(* A root directory that was not opened is closed through NULL.            *)
ReturnErr == err
ReturnValue == IF err = "SUCCESS" THEN "NOT_FOUND" ELSE err
CloseAndReturn ==
  /\ Goto("close", IF root_dir THEN "returned" ELSE "lost")
  /\ err' = IF root_dir THEN ReturnValue ELSE err
  /\ UNCHANGED <<mem, content, info, hdr, image_addr, platform_addr,
                 alloc_flag, root_dir, rest>>

PreloadNext == \/ OpenProtocol \/ OpenRoot \/ LoadImage \/ FindHeader
               \/ AllocLdr \/ AllocRt \/ CopyPackage \/ AllocPlatform
               \/ TakeMap \/ CheckVmx \/ CallLoader \/ LoadingDone
               \/ FreeBuffers \/ FreeLdr \/ CloseAndReturn
=============================================================================
