---------------------------- MODULE BootPlatform ----------------------------
(***************************************************************************)
(* What the stages of the boot share: the machine's memory as the firmware *)
(* accounts for it and as it is written, the package file, the structure   *)
(* that preload hands to the loader, and the bootstrap processor's place.  *)
(*                                                                         *)
(* Addresses are page numbers.  The sizes in the boot header and of the    *)
(* package file are in units of which UnitsPerPage make a page: a half of  *)
(* an address is read as a size in preload, so both need one scale.        *)
(***************************************************************************)
EXTENDS Integers, FiniteSets

CONSTANTS Top,          \* pages of memory
          Low,          \* pages below 1 GB (HIGH_ADDR)
          Word,         \* pages below 4 GB, which a UINT32 can name
          UnitsPerPage,
          Maps,         \* the firmware's memory maps to start from
          Packages      \* the ikgt_pkg.bin files: see PackageOf

Pages == 0 .. Top - 1
Region(base, n) == base .. base + n - 1
SizeToPages(size) == (size + UnitsPerPage - 1) \div UnitsPerPage

(* Who a page belongs to.  The firmware's own pages differ in what becomes *)
(* of them after boot; the others are what preload allocated it for.       *)
FirmwareLabels == {"boot_services", "runtime_services", "acpi", "nvs"}
PreloadLabels  == {"image", "ldr", "rt", "platform", "map"}
Labels == {"conventional"} \union FirmwareLabels \union PreloadLabels

Bins == {"xmon_loader", "startap", "xmon"}
(* A raw image: the answer of get_image_info, the machine type, the pages  *)
(* it needs when loaded, and whether load_image succeeds.                  *)
ImageOf == [ok : BOOLEAN, em64t : BOOLEAN, pages : Nat, loads : BOOLEAN]
(* The file: its size, whether it has the boot header and whether the      *)
(* packer filled its sizes in, and the binaries whose mapping entry the    *)
(* packer set.                                                             *)
PackageOf == [size : Nat, header : BOOLEAN, filled : BOOLEAN,
              listed : SUBSET Bins, bins : [Bins -> ImageOf]]

ASSUME PlatformAssumption ==
  /\ Top \in Nat \ {0} /\ Word \in Nat \ {0} /\ UnitsPerPage \in Nat \ {0}
  /\ Low \in 1 .. Word
  /\ Maps \subseteq [Pages -> {"conventional"} \union FirmwareLabels]
  /\ \A file \in Packages :
       /\ file.size \in Nat
       /\ file.header \in BOOLEAN /\ file.filled \in BOOLEAN
       /\ file.listed \subseteq Bins
       /\ \A b \in Bins : file.bins[b] \in ImageOf

Nowhere == -1   \* HIGH_ADDR or NULL, which name no page

VARIABLES
  pc,       \* the bootstrap processor's next step
  mem,      \* the firmware's account: the label of each page
  content,  \* what was last written to each page
  vmx,      \* whether VT is available and not locked off
  pkg,      \* the package file
  info,     \* ikgt_platform_info_t
  memmap    \* the account in LibMemoryMap's buffer
platformVars == <<pc, mem, content, vmx, pkg, info, memmap>>

NoInfo == [load_addr |-> Nowhere, run_addr |-> Nowhere,
           memmap_addr |-> Nowhere, memmap_size |-> 0]

PlatformInit ==
  /\ pc = "open_protocol"
  /\ mem \in Maps
  /\ content = [p \in Pages |-> IF mem[p] \in FirmwareLabels THEN "firmware"
                                ELSE "none"]
  /\ vmx \in BOOLEAN
  /\ pkg \in Packages
  /\ info = NoInfo
  /\ memmap = mem

(* Writes go to the pages there are; nothing asks whose they are.          *)
Write(pages, what) ==
  content' = [p \in Pages |-> IF p \in pages THEN what ELSE content[p]]

(* The firmware's page allocator (external).  AllocateAddress takes the    *)
(* pages asked for, AllocateMaxAddress any free range that ends at or      *)
(* below the limit; neither gives out an empty range.                      *)
IsFree(base, n) ==
  /\ n > 0
  /\ Region(base, n) \subseteq Pages
  /\ \A p \in Region(base, n) : mem[p] = "conventional"
AtAddress(base, n)  == {b \in {base} : IsFree(b, n)}
BelowLimit(max, n)  == {b \in Pages : b + n - 1 <= max /\ IsFree(b, n)}
Given(base, n, label) ==
  [p \in Pages |-> IF p \in Region(base, n) THEN label ELSE mem[p]]

(* FreePages frees a range that is allocated, whoever asks.                *)
Freed(account, base, n) ==
  IF /\ n > 0
     /\ Region(base, n) \subseteq Pages
     /\ \A p \in Region(base, n) : account[p] # "conventional"
  THEN [p \in Pages |-> IF p \in Region(base, n) THEN "conventional"
                        ELSE account[p]]
  ELSE account
=============================================================================
