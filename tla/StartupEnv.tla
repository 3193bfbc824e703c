----------------------------- MODULE StartupEnv -----------------------------
(***************************************************************************)
(* How the guest that xmon starts resumes preload just after its call of   *)
(* the loader: starter.S and starter_main note the stack, the frame and    *)
(* the return address, primary_guest.c the segments, and e820.c turns the  *)
(* firmware's memory map into the guest's table.  The three structures are *)
(* on the loader's heap.  BootChain has the same steps among the others of *)
(* the boot, and no registers.                                             *)
(*                                                                         *)
(* Sizes are in 32-bit words.                                              *)
(***************************************************************************)
EXTENDS LoaderHeap, Sequences

CONSTANTS
  CpuStateSize, GuestSize, \* the two structures
  MapEntry,   \* sizeof(efi_memory_desc_t) + EFI_E820_SIZE_PADDING
  TableEntry, \* sizeof(int15_e820_memory_map_entry_ext_t)
  DescSizes,  \* the descriptor sizes that firmware may use
  Maps,       \* memory maps: sequences of [type, phys_addr, num_pages]
  Granule,    \* 4096
  Descriptors, \* the GDT in use: [base, limit, granularity, attributes]
  Processors, \* the selectors, and whether LDTR is null, when preload calls
  IoBases     \* what the command line may say of the serial port

Segments == {"cs", "ds", "es", "fs", "gs", "ss"}
(* The general registers; r8 to r11 are scratch and of no use to anybody.  *)
High == {"r12", "r13", "r14", "r15"}
Registers == {"rax", "rbx", "rcx", "rdx", "rsi", "rdi", "rbp"} \union High
(* The ones that a called function must leave as they were.                *)
CalleeSaved == {"rbx", "rbp"} \union High

(* What is in a register: what preload had in it, or a value of the loader. *)
OfPreload(r) == <<"preload", r>>
Value(v) == <<"value", v>>

(* A descriptor reaches past its seventh word, the page count, and is      *)
(* longer than the entry made of it, by the table's header at least.       *)
ASSUME EnvAssumption ==
  /\ {CpuStateSize, GuestSize} \subseteq Nat
  /\ Multiple(CpuStateSize, Alignment) /\ Multiple(GuestSize, Alignment)
  /\ MapEntry \in Nat /\ MapEntry > 6
  /\ TableEntry \in Nat \ {0} /\ TableEntry + 2 <= MapEntry
  /\ DescSizes \subseteq Nat \ {0}
  /\ \A map \in Maps : Len(map) \in Nat
  /\ Granule \in Nat \ {0}
  /\ \A p \in Processors : \A s \in Segments :
       p.selectors[s] # 0 => Descriptors[p.selectors[s]].limit \in Nat

VARIABLES
  boot_pc,
  proc,       \* the processor: rip, rsp, rflags.IF, registers and segments
  stack,      \* what is at each place of preload's stack
  initial_state,
  cpu_state,  \* mon_guest_cpu_startup_state_t
  mon_env,    \* the addresses of the structures, the port
  efi_map,    \* the firmware's map and its descriptor size
  e820_table  \* the table, or the empty sequence
envVars == <<boot_pc, proc, stack, initial_state, cpu_state, mon_env, efi_map,
             e820_table>>

(* A segment register as the processor loaded it from the GDT, and the     *)
(* bytes it reaches.  The processor checked the selector against the GDT.  *)
NullSegment == [selector |-> 0, base |-> 0, bytes |-> 0, attributes |-> 0]
Loaded(selector) ==
  IF selector = 0 THEN NullSegment
  ELSE LET d == Descriptors[selector]
       IN  [selector |-> selector, base |-> d.base,
            bytes |-> (d.limit + 1) * (IF d.granularity THEN Granule ELSE 1),
            attributes |-> d.attributes]
Selected(p) == [s \in Segments |-> Loaded(p.selectors[s])]

(* preload calls entry64 (preload.c:377) with interrupts on and the        *)
(* platform info's address in rdi.                                         *)
CallerRsp == 3
EnvInit ==
  /\ boot_pc = "start_x64"
  /\ \E p \in Processors :
       proc = [rip |-> "start_x64", rsp |-> CallerRsp - 1,
               regs |-> [r \in Registers |-> OfPreload(r)],
               interrupts |-> TRUE, segments |-> Selected(p),
               selectors |-> p.selectors, null_ldtr |-> p.null_ldtr]
  /\ stack = [place \in 0 .. CallerRsp |->
                IF place = CallerRsp - 1 THEN "after_call_loader" ELSE "preload_data"]
  /\ initial_state = [rip |-> "none", rsp |-> 0, interrupts |-> FALSE,
                      regs |-> [r \in Registers |-> Value("zero")]]
  /\ cpu_state = [gp |-> initial_state, segments |->
                    [s \in Segments |-> NullSegment]]
  /\ mon_env = [guest |-> 0, cpu_states |-> 0, e820 |-> 0, port |-> "unset"]
  /\ efi_map \in [entries : Maps, desc_size : DescSizes]
  /\ e820_table = <<>>

-----------------------------------------------------------------------------
(* start_x64: cli, the stack pointer as it was at entry, and the call,     *)
(* whose return address starter_main takes for the guest's.  Of preload's  *)
(* registers it keeps rbp; rbx is to hold the platform info, rax the       *)
(* magic, and xmon_desc has no place for r12 to r15.                       *)
RspInCallee == proc.rsp - 1
RspAtEntry == proc.rsp
InitialRegs ==
  [r \in Registers |-> CASE r = "rax" -> Value("boot_magic")
                         [] r = "rbx" -> proc.regs["rdi"]
                         [] r = "rbp" -> proc.regs["rbp"]
                         [] OTHER     -> Value("zero")]
StartX64 ==
  /\ boot_pc = "start_x64" /\ boot_pc' = "primary_guest"
  /\ stack' = [stack EXCEPT ![proc.rsp - 1] = "after_starter_main"]
  /\ proc' = [proc EXCEPT !.rip = "starter_main", !.rsp = @ - 1,
                          !.interrupts = FALSE]
  /\ initial_state' = [rip |-> stack'[proc'.rsp], rsp |-> RspAtEntry,
                       interrupts |-> FALSE, regs |-> InitialRegs]
  /\ UNCHANGED <<heapVars, cpu_state, mon_env, efi_map, e820_table>>

(* save_segment_data: nothing for a null selector; its comparison of       *)
(* index \div 8 with the limit turns no selector away that the processor   *)
(* accepted.  A granular limit counts pages, and its low bits are ones.    *)
LimitOf(d) == IF d.granularity THEN d.limit * Granule + (Granule - 1) ELSE d.limit
SegmentData(selector) ==
  IF selector = 0 THEN NullSegment
  ELSE LET d == Descriptors[selector]
       IN  [selector |-> selector, base |-> d.base, bytes |-> LimitOf(d) + 1,
            attributes |-> d.attributes]
(* save_other_cpu_state returns before the segments when LDTR is not null, *)
(* and its caller goes on.                                                 *)
SavedSegments ==
  IF proc.null_ldtr
  THEN [s \in Segments |-> SegmentData(proc.selectors[s])]
  ELSE [s \in Segments |-> NullSegment]

(* setup_primary_guest_env, in its two allocations; without memory the     *)
(* loader gives up, and starter loops.  The registers are initial_state's, *)
(* rcx apart; those it does not have stay zero, as allocate_memory left    *)
(* them.                                                                   *)
GuestRegs == [initial_state EXCEPT !.regs["rcx"] = Value("xmon_desc")]
NewBlock == AlignForward(heap_current, Alignment)
Loops(size) == /\ ~Fits(size)
               /\ boot_pc' = "deadloop"
               /\ UNCHANGED <<heapVars, proc, stack, initial_state, cpu_state,
                              mon_env, efi_map, e820_table>>
SetupPrimaryGuestEnv ==
  /\ boot_pc = "primary_guest"
  /\ \/ /\ AllocateMemory(CpuStateSize)
        /\ cpu_state' = [gp |-> GuestRegs, segments |-> SavedSegments]
        /\ mon_env' = [mon_env EXCEPT !.cpu_states = NewBlock]
        /\ boot_pc' = "guest"
        /\ UNCHANGED <<proc, stack, initial_state, efi_map, e820_table>>
     \/ Loops(CpuStateSize)
SetupGuest ==
  /\ boot_pc = "guest"
  /\ \/ /\ AllocateMemory(GuestSize)
        /\ mon_env' = [mon_env EXCEPT !.guest = NewBlock]
        /\ boot_pc' = "startup_env"
        /\ UNCHANGED <<proc, stack, initial_state, cpu_state, efi_map, e820_table>>
     \/ Loops(GuestSize)

-----------------------------------------------------------------------------
EfiTypeToE820Type(type) ==
  CASE type \in {"LoaderCode", "LoaderData", "BootServicesCode",
                 "BootServicesData", "Conventional"} -> "memory"
    [] type = "ACPIReclaim" -> "acpi"
    [] type = "ACPINVS"     -> "nvs"
    [] OTHER                -> "reserved"

(* The map as memory: its type, address and page count are the first,      *)
(* third and seventh words of each of the firmware's descriptors.          *)
MapSize == Len(efi_map.entries) * efi_map.desc_size
MapWord(w) ==
  LET d == efi_map.entries[(w \div efi_map.desc_size) + 1]
      f == w % efi_map.desc_size
  IN  CASE f = 0 -> <<"type", d.type>>
        [] f = 2 -> <<"phys_addr", d.phys_addr>>
        [] f = 6 -> <<"num_pages", d.num_pages>>
        [] OTHER -> <<"word", f>>
TypeIn(word) == EfiTypeToE820Type(IF word[1] = "type" THEN word[2] ELSE "none")

(* get_e820_table_from_ibh: the map is divided into descriptors of its own *)
(* size, whatever the firmware's is; the block is as large as the map.     *)
StrideUnpadded == MapEntry - 2
Stride == MapEntry
Count == MapSize \div Stride
TableOfMap == [i \in 1 .. Count |->
                 [base_address |-> MapWord(Stride * (i - 1) + 2),
                  length       |-> MapWord(Stride * (i - 1) + 6),
                  type         |-> TypeIn(MapWord(Stride * (i - 1)))]]
TableBytes == AlignForward(MapSize, PageSize)

(* setup_startup_env.  Without a port there are no debug messages.         *)
SetupStartupEnv ==
  /\ boot_pc = "startup_env"
  /\ \/ /\ AllocateMemory(TableBytes)
        /\ e820_table' = TableOfMap
        /\ \E io_base \in IoBases :
             mon_env' = [mon_env EXCEPT !.e820 = NewBlock,
                           !.port = IF io_base = 0 THEN "none" ELSE "serial"]
        /\ boot_pc' = "startap"
        /\ UNCHANGED <<proc, stack, initial_state, cpu_state, efi_map>>
     \/ Loops(TableBytes)

(* startap, then xmon (external), which starts the guest as cpu_state      *)
(* says.  It resumes after the call of starter_main: sti, ret.             *)
StartGuest ==
  /\ boot_pc = "startap" /\ boot_pc' = "guest_starts"
  /\ proc' = [proc EXCEPT !.rip = cpu_state.gp.rip, !.rsp = cpu_state.gp.rsp,
                          !.regs = cpu_state.gp.regs,
                          !.interrupts = cpu_state.gp.interrupts,
                          !.segments = cpu_state.segments]
  /\ UNCHANGED <<heapVars, stack, initial_state, cpu_state, mon_env, efi_map,
                 e820_table>>
GuestReturn ==
  /\ boot_pc = "guest_starts" /\ proc.rip = "after_starter_main"
  /\ boot_pc' = "returned"
  /\ proc' = [proc EXCEPT !.interrupts = TRUE, !.rip = stack[proc.rsp],
                          !.rsp = @ + 1]
  /\ UNCHANGED <<heapVars, stack, initial_state, cpu_state, mon_env, efi_map,
                 e820_table>>

EnvNext == \/ StartX64 \/ SetupPrimaryGuestEnv \/ SetupGuest \/ SetupStartupEnv
           \/ StartGuest \/ GuestReturn

-----------------------------------------------------------------------------
(* Properties.                                                             *)

(* The guest resumes preload: when xmon has started it and the two         *)
(* instructions after starter_main's call have run, the processor is after *)
(* call_loader, on preload's stack, with its frame, interrupts on, and     *)
(* every segment as it was, to the last byte, when LDTR was null           *)
(* (primary_guest.c:230).  Of the registers that a called function must    *)
(* leave alone, rbx and r12 to r15 are not what they were: preload, which  *)
(* is compiled without optimisation and has its variables in its frame,    *)
(* must not have anything in them, nor must the firmware that called it.   *)
NotKept == {"rbx"} \union High
GuestReturns ==
  boot_pc = "returned" =>
    /\ proc.rip = "after_call_loader" /\ proc.rsp = CallerRsp
    /\ proc.interrupts
    /\ \A r \in CalleeSaved \ NotKept : proc.regs[r] = OfPreload(r)
    /\ proc.null_ldtr =>
         \A s \in Segments : proc.segments[s] = Loaded(proc.selectors[s])

(* On firmware whose descriptors have the size that e820.c assumes, the    *)
(* table has an entry for each of them, with its range and what becomes of *)
(* its memory, and it fits the block that was asked for.                   *)
TableFaithful ==
  mon_env.e820 # 0 =>
    /\ 2 + TableEntry * Len(e820_table) <= TableBytes \/ e820_table = <<>>
    /\ efi_map.desc_size = MapEntry =>
         /\ Len(e820_table) = Len(efi_map.entries)
         /\ \A i \in 1 .. Len(e820_table) :
              LET d == efi_map.entries[i]
              IN  e820_table[i] = [base_address |-> <<"phys_addr", d.phys_addr>>,
                                   length |-> <<"num_pages", d.num_pages>>,
                                   type |-> EfiTypeToE820Type(d.type)]
=============================================================================
