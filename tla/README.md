# Verification of the iKGT UEFI loader

TLA+ modules of the loader's state machines, TLC runs on small instances, and TLAPS proofs of
the properties that matter most for every instance. Paths below are relative to the repository
(`src/`). `PROJECT.json` maps each definition to the lines it stands for, and lists the runs, a
plausible bug that breaks each property, the findings, the hazards and the theorems.

    tlc -workers 2 -config MCBootChain.cfg MCBootChain.tla      # a run
    tlapm BootChainProofs.tla                                   # the proofs of a module

## 1. The system

The loader puts a hypervisor, xmon, under an operating system that boots by UEFI.

    xmon_packer  --(ikgt_pkg.bin)-->  preload  --(platform info)-->  starter --> xmon_loader
     build tool       a file        EFI application                      \           |
                                          ^                      ELF loader, heap, E820
                                          |                                          v
                     the firmware's next boot loader <-- guest <-- xmon <-- startap (all CPUs)

| component | source | state | operations |
|---|---|---|---|
| package tool | `pre_os/tools/xmon_packer.c` | input sizes, offsets, the package on disk | size files, check the total, append, write the file mapping, write the boot header, pad |
| preload | `uefi_bootloader/preload.c` | image buffer, boot header in it, platform page, `alloc_flag`, `err` | find and read the package, allocate load-time and runtime memory, copy, take the memory map, check VT, call the loader, clean up, return |
| starter | `pre_os/starter/` | `xmon_desc_t` | find the mapping header, list the binaries, load and call xmon_loader |
| xmon_loader | `pre_os/xmon_loader/` | the heap, boot protocol operations, guest state, E820 table | set up the heap, load xmon and startap, save the CPU state, build the table, call startap |
| heap | `xmon_loader/utils/memory/memory.c` | `heap_current`, `heap_tops` | `initialize_memory_manager`, `allocate_memory`, `mon_page_alloc` |
| ELF loader | `common/ld/` | `elf_load_info_t`, the memory at the destination | `get_image_info`, `load_image`: copy, zero, move headers, relocate |
| startap | `startap/` | presence array, two counters, the release word, the callback | `ap_procs_startup` (INIT-SIPI-SIPI, stall, count), `ap_procs_run` (release, rendezvous), the APs' `wakeup_init64.S` |
| serial port | `pre_os/common/loader_serial/` | `debug_port`, the UART's registers | `loader_serial_init`, `putc` and its wait, `puts`, `put_hex` |
| screen | `xmon_loader/utils/screen/` | the cursor, the cells | `clear_screen`, `print_string`, `print_value`, `print_string_value` |
| command line, strings | `xmon_loader/utils/string/` | the value of each option | `parse_cmdline`, `get_cmdline_value_str`, `strtoul` |
| 32-bit boot | `xmon_loader/utils/x64/`, `startap/x32_init64.*` | a GDT and page tables on the heap | `x32_gdt64_setup`, `x32_pt64_setup_paging`, `x32_init64_start`; compiled and without a caller |
| exception table | `xmon_loader/idt.c` | `xmon_idt` | `setup_idt`; without a caller, not modelled |
| file image accessor, host utilities, gnu-efi | `common/ld/image_accessors/image_access_file.c`, `common/util/linux/`, `uefi_bootloader/efi_prebuilts/` | | not modelled, see section 6 |

**Interaction.** The tool and the boot share a file. preload and the loader share memory: the
copy of the package, one platform information page, and the firmware's memory map. Control
passes by calls down to xmon; it comes back to preload not by a return but as the first
instruction of xmon's primary guest, after which preload frees its buffers and returns an error,
so that the firmware tries the next boot loader (the OS) with xmon underneath. startap's
processors share a byte array, two counters and a release word, without locks except one
`lock; incl` and one exchange.

**What is hard about it.**

* *Concurrency and timing* (startap): the processors run in any order, a start-up IPI may be
  missed, and the number of processors is decided by a fixed stall.
* *Ownership* (boot chain): who may write, free or give to the OS which page, over four programs
  and the return to the firmware; a 32-bit field passed as a 64-bit one; a table that hides the
  runtime memory only because of the order of two calls.
* *Partial failure* (preload, package tool): each of about fifteen steps may fail after the ones
  before took effect, and the tool may be killed between any two.
* *Bounds in unsigned arithmetic* (package tool, ELF loader, heap): sums that wrap before they are
  compared, checks by subtraction in `size_t`, rounding up, three passes each working on the output
  of the last.
* *Devices as the firmware left them*: a UART with its divisor latch open or its FIFO full, a
  memory map whose descriptors have another size, a processor with a local descriptor table.
* *Memory that is built up over several allocations* (page tables, GDT, startup environment): each
  part is written when others already point to it.
* *Endless loops*: every failure after preload's call, and the rendezvous itself.

The full list, each item at its line, is under `hazards` in `PROJECT.json`.

## 2. The modules

| module | models | composed with |
|---|---|---|
| `XmonLaunch` | abstract: what xmon may rely on when it is entered (ids 0..n-1, one per processor, cpu 0 after all others have committed) | |
| `ApStartup` | startap: the BSP and each AP | implements `XmonLaunch` |
| `BlockArena` | abstract: an allocator of disjoint blocks | |
| `LoaderHeap` | the heap of xmon_loader | implements `BlockArena`; part of `XmonLoader`, `LongMode` and `StartupEnv` |
| `Packer` | the package tool, and what its readers accept | |
| `BootPlatform` | memory as the firmware accounts for it and as it is written; the package; the platform information; the firmware's page allocator (external) | extended by the next two |
| `Preload` | the EFI application | |
| `XmonLoader` | starter and xmon_loader | extends `LoaderHeap` |
| `HypervisorBoot` | abstract: what the boot promises to xmon and the OS (memory set aside before the map is known, and for good; xmon entered whole, with a table that offers none of it; no failure after that) | |
| `BootChain` | preload, starter and xmon_loader on one processor, back to the firmware | `Preload` and `XmonLoader`; implements `HypervisorBoot` |
| `StartupEnv` | the registers, segments and memory map that the guest starts with, on the heap | extends `LoaderHeap` |
| `LongMode` | the tables of the 32-bit boot, on the heap | extends `LoaderHeap` |
| `LoaderEnv` | the heap with these users, and with any others between their steps | `StartupEnv` and `LongMode` |
| `ElfLoad` | the ELF loader for 64-bit images and its callers' checks | |
| `Elf32Load` | the same for images of either class | extends `ElfLoad` |
| `LoaderSerial` | the serial port and the UART behind it (external) | |
| `CmdLine` | the command line and the string functions it uses | |
| `Console` | the screen, and what is printed to it and the port | `LoaderSerial` and `CmdLine` |
| `ApStartupProofs`, `LoaderHeapProofs`, `BootChainProofs`, `ElfLoadProofs`, `Elf32LoadProofs`, `PackerProofs`, `LoaderEnvProofs`, `ConsoleProofs` | theorems | |
| `MC*` | values of the constants for TLC | |

### ApStartup

`bspPc` follows `startap_main`, `ap_procs_startup` and `ap_procs_run`; `apPc[a]` follows
processor `a` from the firmware through the low-memory trampoline (`RunLowPage`, one step with
two outcomes), its mark in `ap_presence_array`, the spin on the release word, its ordered id, and
the call of the callback. Every access to shared memory is a step of its own, except that one
round of `bsp_enumerate_aps` is one step: within a round only the processor of that index could
interfere, and its write and the BSP's read of the byte commute with everything else. The four
forms of `startap_main`'s arguments (no start-up data, no low page, pre-OS, post-OS) are values
of `launch`. The trampoline reads a GDT pointer through a local variable of a function that has
returned (`ap_procs_init.c:333`), which is undefined: the AP gets the value or shuts down.

`Timely` says whether the stall is long enough. It is a property of the machine and not of the
code; with `Timely = FALSE` the model lets any AP answer at any time.

### LoaderHeap

One pointer in 32 bits. `blocks` is a history variable: what was handed out. That
`allocate_memory` returns a rounded pointer but advances by the size is modelled as it is;
`RequestsAssumption` states what makes it harmless: all sizes it is asked for are multiples of
the alignment.

### Packer

`main` looks at its arguments one by one (`Option`, `Name`): an option without a name, an unknown
one, and the same file for two options are command lines of the run. The package is a sequence of
bytes known by file and position. Each step may fail (`Fail`), the last step that happened is the
last before the tool is killed, and a failed flush leaves part of the file. `HeaderWritesFail`
turns on the flushes whose result nobody looks at. `PreloadAccepts`, `StarterAccepts` and
`BinaryFound` are the readers' side.

Sizes, offsets and the total are unsigned ints in the tool, so they are numbers modulo
`UIntValues` (`UInt`): a longer file is cut when its size is noted, and the sum may wrap before it
is compared. Neither is refused by the code, so the properties name what they need. `FitsLoaderBin`
needs that the sum of the noted sizes does not wrap; the other two need `SizesKept`, that the files
are shorter than 4 GB together.

The boot header is found by searching for its magic: the tool searches all that it read back of the
package, in steps of four bytes (`WordBytes`), and fills in the first hit (`FirstHit`); preload
searches in steps of eight (`QuadBytes`). `BootMagics` says where in each file the magic is, so
that a package may have it in a binary before or instead of starter's header, or at a place that
only one of the two looks at. `StarterHasHeader` is what starter.S gives: the header in starter.bin,
aligned for both. Without it the tool may write its header into a binary.

### BootPlatform, Preload, XmonLoader, BootChain

`mem[p]` is whose page p is; `content[p]` is what was last written to it. Nothing in the code asks
`mem` before it writes, and nothing in the model does either. Addresses are page numbers; a size
in the boot header is in units of which `UnitsPerPage` make a page, because preload reads half of
an address as a size. `AllocLdr` and `AllocRt` do what the code does: the address of a 32-bit
field is passed as that of a 64-bit one, so the neighbouring size is the high half of the address
or limit, and the firmware's answer overwrites both. `HeaderAssumption` states the consequence
that the size, as a high half, is beyond all memory. `FreeLdr` therefore reads a size that is now
the upper half of an address, from a buffer that was freed a step before.

The image buffer is as large as the file and one byte; the terminator is written behind that byte
(`preload.c:190`), which is in the next page, whoever has it, when the file and the byte fill the
pages (`Buffer`, `EndPage`, `TerminatorFits`). A package larger than `u_ldr_bin` is not refused by
preload: it is copied over what lies behind the space, and the boot is followed no further
(`overrun`); that the tool never makes one is `FitsLoaderBin`. What is said of writes to the
firmware's memory is therefore said of a package that fits and whose terminator stays in its pages.
A firmware that answers EFI_SUCCESS and gives no interface ends preload with EFI_SUCCESS
(`preload.c:256`).

The firmware is external: `AllocatePages` gives any free range within the limit and fails only
when there is none; `FreePages` frees any allocated range; the map that `LibMemoryMap` returns is
the account after its own buffer was allocated. xmon is external: it starts the guest at the
instruction after starter's call. startap is one step here and has `ApStartup` to itself.
`ElfLoad` details what is here the answer "so many pages, loads or not".

`HypervisorBoot` is implemented with these values: `aside` is the set of pages whose owner in
`mem` is the runtime region, `offered` those that the E820 table calls memory, `xmon` is "whole"
when `content` has the images of xmon and startap in their places, `stage` follows from `pc` and
from whether xmon was entered, `answer` is `err` once preload has returned. A step that fails
before the launch is a stutter there until the boot returns or loops; after the launch no failure
is left that `HypervisorBoot` would allow.

### StartupEnv, LongMode, LoaderEnv

`StartupEnv` is the part of the boot that `BootChain` has without registers. `stack` is preload's
stack at the call; `proc` the processor; `initial_state` what `start_x64` passes on by pointer;
`cpu_state` the structure on the heap. A segment is compared by the number of bytes it reaches,
because `primary_guest.c` turns a granular limit into bytes. A general register holds what preload
had in it or a value of the loader: `start_x64` keeps preload's rbp, has rax, rbx and rcx carry
values of its own to the guest, and `xmon_desc` has no place for r12 to r15, which the guest finds
zero. So preload resumes without five of the six registers that a called function must leave alone
(`NotKept`). Nothing in the code makes up for it; it is harmless because preload is compiled without
optimisation and has its variables in the frame that rbp gives it back, and as long as the firmware
that called it has nothing in these registers either. `GuestReturns` claims the frame and the stack,
and no more. The firmware's map is a sequence of
words of descriptors of the firmware's size; `get_e820_table_from_ibh` reads the words it takes
for type, address and page count at its own stride. That xmon starts the guest from `cpu_state`
is external.

`LongMode`, which the boot of today does not call, has a word of memory for each 8-byte slot of the heap. `AllocPml4`, `AllocPdpt` and
`AllocPd` are the allocations of `x32_pt64_setup_paging` with the writes up to the next one;
`StartLongMode` is the switch, after which `cpu64` holds what the processor was given.

`LoaderEnv` composes both over one heap. A step of either is a step of the boot; `Others` is a
request by anyone, who then overwrites what he was given, so that a table that lay in a block of
somebody else's would show.

### LoaderSerial, CmdLine, Console

The UART holds `fw` characters of the firmware's and then the loader's; register writes are taken
apart by `WriteRegister` as the 16550 does (the divisor latch, the FIFO's reset, loss of a
character without room). `Drain` is its step. `PutChar` writes without a look at the line status,
as `loader_serial_putc` does; the wait comes after. The bit fields of the code's unions are values
of a byte with `Bit`.

`CmdLine` follows `parse_cmdline`'s pointers as indices of the line, so that the search for `=`
beyond the option's end and the comparison with a pointer past the last character are there.
`strtoul` saturates at `ULONG_MAX`, and its result is cut to the port's width by the caller. A null
pointer for the line (`NullLine`) is refused; white space is that of `isspace`, VT included.

In `Console` a call draws first (one step) and then its characters go to the port one by one. The
cursor is unbounded, as in the code; what is drawn beyond the screen is not tracked further.

### ElfLoad

Memory is cells that know where their content comes from: the file's cell k, zero, a moved
program header, a relocated value. The loops over segments, headers and relocation entries take
one step per entry. Sums have the width that they have in the code: those of `mem_image_read` and of
a 64-bit image's addresses wrap at `SizeMod`, those of a 32-bit image's addresses at `WordMod`, the
size that the caller is told at `InfoMod`, and the loops count headers up to `MaxPhdrs`, an int16_t.
So a segment whose end wraps is missed by the scan and written outside the space. Where the code
would read memory whose content is not known, or copy nearly the whole address space, the model
stops in `lost` and promises nothing.

`Elf32Load` adds the 32-bit class. Up to the relocation the two files are the same code, and the
module says so (`ScanSegment32 == X86 /\ ScanSegment`). `elf32_do_relocation` has entries with
addends or without; without, the place that is changed holds the address to change, so that what
a segment copied, what was moved and what another entry wrote there all count (`Rebased`). Every
caller in the repository refuses a 32-bit image after the scan, `load_image` itself does not: the
caller here may do either.

`Linked(image)` states what the loader takes for granted, and what `ld -pie` and the two
Makefiles give it: headers first, on a page; segments in the file, apart, with file offsets no
larger than their distance from the lowest address; relocation entries inside a segment and
apart from the headers, and targets outside both. It has `NothingCut` as a part: no sum, size or
count of the image is cut to a type's width. `LoadedRight` and `SoundImagesLoad` are about these
images. `Confined` is about all that are `WithinItself`, a much weaker condition which names what the
loader does not check and its comment takes for granted (`elf_ld.c:66`): `NothingCut`, segments that
begin in the file no further than the image is large (`OffsetsInside`), and relocations of the
image's own addresses (`TargetsInside`). `Linked32` is the same for the 32-bit class, with one of the two
tables; a table without addends is in one segment and no two of its entries change the same place
(`EachOnce`), because an entry that is made twice adds the distance twice: the proof does not go
through without it, and an image with a repeated entry is among those the run loads.

## 3. What the runs show

| run | question | instance |
|---|---|---|
| `ap_startup` | With a machine on which every started AP answers in time: ids unique and at most the count, the BSP waits for all, no call through an unset callback, everyone ends in xmon with ids 0..n-1, and `XmonLaunch` is implemented | 4 APs with a hole in the APIC ids, all 4 launches |
| `ap_startup_late` | What remains true whatever the timing, with APIC id 0 an AP's | 4 APs, ids 0..3 |
| `late_ids`, `late_hang` | Findings: two APs share an id; the BSP spins for ever | 2 APs |
| `packer` | If the headers reach the disk, a package preload accepts is whole and of the files that were asked for, whatever else failed or was cut short; it fits `u_ldr_bin`; success means that it boots. Each under the widths and the header that the property names | 7 command lines, sizes 0, 1, 3 of each file and one of 14 or 18 where an unsigned int has 16 values, 5 placements of the boot magic, limit 8, page 4 |
| `packer_loses_header` | Finding: success over a package without header | the same |
| `boot_chain` | `HypervisorBoot` is implemented (so the runtime memory is never given back, and nothing fails after the launch); runtime memory hidden, the firmware's memory not written by a package that fits and whose terminator stays in its pages, images whole when startap is entered, loops only when the package is broken or the map too large for the heap, buffers returned, and a sound boot comes back to the firmware for the next loader | 12 pages, 5 "below 1 GB", 4 memory maps, 23 packages |
| `above_4g` | Finding: addresses that do not name the regions | memory above "4 GB" |
| `loader_env` | Both requests and all users of the heap, in every order up to exhaustion: blocks are disjoint (`BlockArena`), page tables map the space to itself, the GDT keeps its segments, the guest resumes preload after its call, the E820 table is the firmware's map | 50 words of heap, page 8, 3 GDTs, 3 maps, 2 descriptor sizes, 3 processors |
| `elf_load` | An image within itself writes nothing outside the checked space; a linked image that fits is loaded, and right in every cell, in both classes | 64-bit: 7 linked images that fit, 7 refused, 17 the loader was not made for, 8 with something cut to a type's width; 32-bit: 6 linked, 10 with other tables, the refused and the unforeseen again, 4 with something cut |
| `elf_reads` | Finding: a read past the end is not bounded by the size | 2 of these images |
| `console` | Every option gets the value written for it, and the port is the number written; the UART is set up whatever state it was in; no character is lost; every line is legible on the screen; a number reads back; every call returns | all command lines up to 5 characters, 14 longer ones and none at all, 4 UARTs, 2 calls, a screen of 3 by 3 |

**Bounds and why they are enough.** *startap*: two APs are enough for a shared id or a counter
overtaken, three for a rendezvous that is late for one of them; four with a hole also exercises
skipped indices and the array's end. The processors are not symmetric (the index order decides the
ids), so there is no symmetry set. *Heap and its users*: a page of four slots is the smallest that
a GDT of two old and two new descriptors fits and one of three does not; two page directories, so
that the second must go on where the first ends; maps without, with one and with two descriptors,
on firmware whose descriptors have the assumed size and another; room for the tables and some
other requests, so that rounding and exhaustion in either routine occur at every step, and `Width`
is just above the top so that a wrap would show. *Packer*: three bytes tell a whole file from a
prefix, and a limit of eight lies inside the range of totals, with padding that does and does not
add a page; with 16 values a file of 14 makes the sum wrap, and one of 18 is
cut; searches in steps of one and two bytes tell the two apart. *Boot chain*: every area of the two regions but the empty guest area is one page, so
that an image of two pages is one that reaches the next area; the maps are few firmware pages,
scattered ones, and a low memory that is full or nearly; the packages break one thing each, and have
the sizes at which the terminator leaves the buffer, `u_ldr_bin` is full, and the copy leaves the
region. *ELF*:
segments in either order, with zeros, without, with a gap, each check of the loader failed at
least once, and each sum that wraps made to wrap (64 and 32 stand for the two widths). *Console*: five characters are an option, its `=` and a value with one of space,
letter and digit at each place; the longer lines have values at the bounds of their length and of
an unsigned long; two calls meet the room that the first left in a FIFO of two, and one or two
lines on a screen of three rows of three.

**Fairness.** `ap_startup` assumes weak fairness of the BSP and of each AP: processors execute
their next instruction; an AP parked in the firmware or waiting for a SIPI has no step, so nothing
is assumed of it. `late_hang` uses the same assumption, so its BSP really executes its loop for
ever. `boot_chain` and `elf_load` assume weak fairness of `Next`: one processor runs straight-line
code, and firmware calls return. `console` assumes weak fairness of the program's steps at the
port and of the UART, which sends what it holds; nobody has to print. Deadlock checking is off
where the program really ends (in xmon, in the loop, back in the firmware, or the tool exits).

## 4. Findings

Five places where the code does something other than a comment in it says; each is a run with
the counterexample, quoted in full in `PROJECT.json`.

1. `wakeup_init64.S:56` "AP ordered ID [1..Max]": an AP that marks itself late, or has APIC id 0,
   keeps the presence byte 1 and takes it for its id, and for its stack.
2. `ap_procs_init.c:45` the BSP waits until the ready counter *equals* the count; a late AP makes
   it pass the count, and the BSP never leaves.
3. `preload.c:62-64` "any address below 1G" and `ikgtboot.h:65` "make sure it < 4G": the limit's
   high half is the neighbouring size, so there is no limit, and the answer is cut to 32 bits.
4. `xmon_packer.c:666` "Successfully pack": said also when the header's flush failed.
5. `image_access_mem.c:35` "read no more than size": the difference wraps when the read starts
   after the end, and `size` is that of the image in memory.

## 5. What is proved

All for every value of the constants that satisfies the named assumptions of the modules.

| theorem | says | beyond the assumptions |
|---|---|---|
| `ApStartupProofs!TypeCorrect`, `LateIds`, `CallbackIsSet` | types; every id up to the count is given out and only id 1 can be shared; no call through an unset callback | none: any timing |
| `IdsUnique`, `WaitsForAll`, `LaunchImplemented` | unique ids, complete rendezvous, refinement of `XmonLaunch` | `Timely`, and 0 is no AP's APIC id (the late runs show why) |
| `LoaderHeapProofs!HeapTypeCorrect`, `HeapImplementsArena`; `LoaderEnvProofs!EnvHeapTypeCorrect`, `EnvImplementsArena` | pointer and blocks in the heap; refinement of `BlockArena`, by the heap alone and with its users | none |
| `LoaderEnvProofs!SpaceIsMapped`, `SegmentsStay` | the tables of the 32-bit boot, for every page and table size | none |
| `LoaderEnvProofs!PreloadResumes`, `TableIsMap` | the guest's place, stack, frame and segments; the E820 table against the map | the property's own: LDTR null, for the segments; descriptors of the assumed size |
| `BootChainProofs!ChainTypeCorrect`, `RuntimeIsHidden`, `FirmwareIsIntact`, `RuntimeIsKept`, `BuffersAreReturned`, `ImagesAreIntact`, `OnlyTheBrokenLoop` | types and every invariant of the `boot_chain` run | `Top <= Word`: no memory above 4 GB (`above_4g` shows why); `FirmwareIsIntact`: the package fits and its terminator is in the buffer's pages |
| `BootChainProofs!BootImplemented` | refinement of `HypervisorBoot` | the same |
| `PackerProofs!PackageFits` | the package fits its space | the property's own: the sum of the sizes does not wrap |
| `PackerProofs!AcceptedWhole`, `SuccessIsTrue` | what preload accepts is whole; success boots | flushes arrive (`packer_loses_header` shows why for the second); `SizesKept`, `StarterHasHeader` |
| `ElfLoadProofs!ElfTypeCorrect`, `ImageConfined`; `Elf32LoadProofs!EitherTypeCorrect`, `EitherConfined` | types; no write outside the checked space, for images of either class | types: none; the property's own: `WithinItself` |
| `ElfLoadProofs!ImageLoadedRight`, `Elf32LoadProofs!EitherLoadedRight`, `EitherLoadedRight32` | when `load_image` returns TRUE, every address of a linked image has what the file says: copied, zero, moved or relocated | the property's own: `Linked`, `Linked32` |
| `ElfLoadProofs!SoundImageNeverFails`, `Elf32LoadProofs!EitherNeverFails`, `EitherNeverFails32` | no step of the load of a linked image fails or reads the unknown, and the checks do not refuse it (a 32-bit one: once accepted) | the property's own: `Linked` and fits the space, `Linked32` |
| `ElfLoadProofs!LoaderNearsItsEnd`, `Elf32LoadProofs!EitherLoaderNearsItsEnd` | every step of a load leaves fewer steps | none: any image |
| `ConsoleProofs!PortIsReady`, `NothingIsLost` | the UART's settings after its set-up; no character lost | none: any UART, any FIFO |
| `ConsoleProofs!LineIsParsed`, `PortIsAsWritten` | each option has the value written for it; the port is the number written, with `strtoul`'s limit and the cut to the port's width | none: any line of any length, any set of options |
| `ConsoleProofs!Typed`, `LinesLegible`, `HexIsReadBack` | types; what was printed within the screen stays legible; the digits printed give the number | none: any screen, text and number |

**The arguments.**

*startap.* `LateInv` describes the presence array under any timing: unmarked processors have byte
0, the bytes below the loop's index hold the ids handed out, only the byte 1 occurs twice.
`ReleaseInv` orders callback, exchange and id. `TimelyInv` adds that the array is at rest while it
is counted, from which the ids are distinct; `CountInv` says that both counters are cardinalities
of sets of processors, which is what makes the BSP's test for equality mean "all of them". The
refinement maps `count` to the BSP's counter once it is known, `committed` to the ids of the APs
that accepted, `entered` to those in xmon.

*Heap.* The pointer is always a multiple of the alignment (so rounding it does nothing in
`allocate_memory`) and lies above every block; lemmas on multiples and remainders carry it.

*Boot chain.* `ChainInv` says at each step what preload holds and where it noted it: each buffer
has its label (`BuffersInv`); the header holds the region's address and, after the allocation,
size 0, so that the cleanup frees nothing (`HeaderInv`); the loader was told the same addresses,
and the map it will read is the account at that time, still unwritten (`InfoInv`). It is needed
because `RuntimeHidden` speaks of the end of a chain whose links are in different programs. The
steps fall into classes with a lemma each: quiet ones, those that only take free pages
(`GivenGrows`), the frees (`FreedTouches`), and the loader's writes, which stay in the two regions
because each image was checked against its area (`LoadStep`) and because the package fits
`u_ldr_bin`, the first part of the load-time memory (`PackageFits`).

`OwnedInv` adds what preload itself must give back (labels of its buffers are its own until
`FreeBuffers`); `LoadedInv` says what has been loaded by each of the loader's steps, whole and where;
`SoundInv` says what of the package has been found and how much of the heap is used by then, so
that a jump to the loop has only the causes that the property names.

*Heap users.* `TablesInv` says that each table built so far lies in blocks of its own, with its
entries up to `pds`; by `HeapInv`, a new block is above all of them, so neither a new table nor
another caller's writes touch one (lemmas on the slots of a page). `GdtInv` and `CpuInv` carry
this to GDTR and CR3. `GuestInv` follows the return address from the stack through the two
structures to the processor, and preload's rbp with it; `TableInv` follows the words of the map to the entries, by
`(q * s + r) div s = q`.

*Package tool.* `PackerInv` says that, while the files are appended, the package is exactly the
concatenation of the files before the step as long as no error is pending, and shorter than that
when one is; that nothing but a package with all four files in it gets its boot header; and that
the headers hold the total and the mapping once they are written; and that the boot header is at
starter's place (`BootAtInv`), because the first byte of the package with the magic is there. Where
it speaks of the total it does so of sizes whose sum does not wrap (`Unwrapped`). It is needed because
`AcceptedIsWhole` speaks of whatever is on the disk when the tool stops anywhere.

*Serial port.* `SerialInv` says which registers have their final value after the n-th write
(`SetUp(n)`), and, once running, that the line has everything that was printed or all but the one
character in the transmitter, for which the program then waits (`Delivered`). From it there is
room for the next character, for every FIFO size, though nobody looks before the write.

*The whole boot.* `FlowInv` has what the refinement needs beyond the invariants above: before
`AllocRt` nothing is set aside and before `TakeMap` there is no map, so `SetAside` happens once and
first; until preload's end `err` is SUCCESS and the root directory is open, so that once xmon was
launched the cleanup has nothing left that changes the answer. `AsideStays` is the lemma on each
step after the allocation, by the classes of steps above; `TablesDiffer` gives the case without
a map.

*Command line and console.* What a loop over a text returns is proved without the library's
induction theorems, which take an operator: `IntervalInduction` states induction for a set of
numbers instead, and follows from the pigeonhole lemma `FS_PigeonHole` (were there a number
outside the set, a map from a set to one with fewer elements would be injective).
`RecursionExists` builds, by it, a function on 0..n that satisfies the recursion, which gives the
CHOOSE of a recursive definition its value; from there a search finds the first place or none
(`Accumulated`, `FirstDigit`, `LastDigit` name the pieces that `strtoul` and `put_hex` are made
of). `ReadInv` says that the options read so far have what is written for them and the pointers
stand at the rest; `PortFixed` that the port, once taken from the line, stays. `ScreenInv` has
the cursor where the last line ends, and every character of the lines before it where a reader
from the top finds it; drawing writes only at the cursor or behind it. `PrintedInv` has the last
number's digits, at the place noted for them, among the characters sent and still to be sent.

*ELF.* `ElfInv` adds to `Confined` that what the scan has seen lies between `low` and `max`
(`Scanned`) and that from the check on this span fits the space and the offset moves it to Base
(`Checked`); the former holds of an image of which nothing is cut, because a sum that wraps is not
the largest. Each write is then inside: a segment's copy is cut at its size in memory, its zeros
end there too, a header is moved only inside the copy, and a relocation's target is in a segment.
The 32-bit loader keeps the same invariant; only the relocation without addends is new.

`ProgressInv` carries `LoadedRight` through the three passes, which work on one another's output.
The lowest address is that of the segment with the headers, so the offset is the distance of the
whole image (`Progress`); the first pass has finished the segments before the index (`LaidUpTo`,
with no header moved), and leaves them alone because the segments are apart; the second has moved
the headers before the index, each found where the first pass put it; in the third, an address is
the target of an entry already made and has its value, or still has what the two passes gave it
(`RelocatedUpTo`). The next entry is then read as it is in the file: no entry changes an entry,
and a header that was moved is not taken for one. Without addends (`ProgressInv32`), the place
that an entry changes must also still have what the file says, since its value is made of it
(`MadeOnce`). That a dynamic segment was seen exactly if there is one is `DynInv`.

That the load of a linked image does not fail needs another part of `ElfInv`, `Spanned`: what the
scan has seen begins and ends with a segment. The span is then exactly from the headers to the end of
a segment (`WholeSpan`), so it is no larger than the space if the image fits it, and no smaller
than any segment's end in the file, since the file is no sparser than memory. No read is cut
(`WholeRead`), although its bound is the size in memory; each header and each entry is found where
it was put (`HeadersSeen` from the lemmas of `LoadedRight`, `EntryThere`), and each target has
memory (`TargetHasCell`). `StepsLeft` counts what is left of the three passes and the entries; `GoesOn`
says that a step goes to the next item of its loop, to a later loop or to an end.

What TLC can evaluate of an inductive invariant was checked on the instance of the run before it
was proved.

**Only model-checked.** Liveness (`AllReachXmon`, `NextBootLoader`, `SoundImagesLoad`,
`Sound32ImagesLoad`, `PrintsReturn`), which needs fairness and ENABLED and is outside the prover's
reach. Of some of it the part that is not fairness is proved. Of `SoundImagesLoad` and
`Sound32ImagesLoad`: no step fails and every step leaves fewer, so that only "there is a step
until the end, and it is taken" is left to TLC. Of `NextBootLoader`: with a sound package and
enough heap no step goes to the loop (`OnlyTheBrokenLoop`), and from the launch on nothing is left
but the way to EFI_NOT_FOUND (`BootImplemented`). Every invariant, action property and refinement of the passing runs is proved.

## 6. What is not modelled

* `image_access_file.c`: no makefile builds it, nothing creates such an accessor, and the header it
  includes is not in the repository.
* The copies of section headers and sections in the ELF loader: both flags that ask for them are
  set to FALSE in both places where they are set. `elf_is_elf` and `elf_get_segment_info`: no
  caller.
* The Linux host utilities (`common/util/linux/`): memory copies without state.
* gnu-efi: vendored headers and prebuilt libraries, well over half of the repository's lines of
  implementation. The services that preload calls are modelled as external from their use.
* The exception table (`idt.c`): `setup_idt` has no caller; `idt_descriptor` is not packed either,
  so that `lidt` would not take the table that it filled. `validate_descriptor` and other code under `#if 0`.
* `check_file_array_assumptions` in the package tool: it tests constants of the program.
* xmon, the firmware and the OS: external, as described above.
* The bytes around the low-memory page (scratch stacks above it, `ap_procs_init.c:273`): finer than
  the present units; see the plan.
* What happens after a package larger than `u_ldr_bin` was copied: the copy is modelled, the loader
  that runs from what is left is not.
* The order in which a compiler emits the accesses to startap's shared counters: they are in program
  order here (hazards, `ap_procs_init.c`).
* In the ELF loader, the sign of `dyn_section_sz` and of the table's size: negative ones are not
  among the images.

Some headers (`elf64.h`, `image_loader.h`, `elf_ld.h` among them) are not in the repository: field
meanings are those of the ELF standard, and the width of `image_info_t.load_size` is the constant
`InfoMod`.

## 7. Plan

Done, in this order, most important behaviour first: `ApStartup` with `XmonLaunch`; `LoaderHeap`
with `BlockArena`; `Packer`; the boot chain, later with `HypervisorBoot`; `ElfLoad`; the heap's users with the startup
environment and the memory map's stride; the 32-bit class of images; the tool's command line; the
console; and a proof module for each of them.

Next:

1. *Low memory*: the trampoline page with its stacks, GDT pointer and code, as a layout with
   owners, for `ap_procs_init.c:273` and `:333`.
2. *An oversize package*: which parts of the loader the copy reaches before starter runs.
