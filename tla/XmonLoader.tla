----------------------------- MODULE XmonLoader -----------------------------
(***************************************************************************)
(* The package's own stages: starter finds the binaries and loads          *)
(* xmon_loader, xmon_loader loads xmon and startap into the runtime        *)
(* memory, prepares the primary guest and the E820 table, and enters       *)
(* startap, which enters xmon (ApStartup).  Every failure ends in a loop.  *)
(* xmon is external: it starts the primary guest where starter was called. *)
(***************************************************************************)
EXTENDS BootPlatform, LoaderHeap

CONSTANTS
  BinPages, LoaderPages, HeapPages,  \* xmon_loader_memory_layout_t, then u_desc
  StartapPages, GuestPages, XmonPages, \* xmon_runtime_memory_layout_t
  CpuStateSize, GuestSize            \* the structures on the heap

ASSUME LayoutAssumption ==
  /\ BinPages \in Nat \ {0} /\ LoaderPages \in Nat \ {0}
  /\ HeapPages \in Nat \ {0}
  /\ StartapPages \in Nat \ {0} /\ GuestPages \in Nat /\ XmonPages \in Nat \ {0}
  /\ {CpuStateSize, GuestSize} \subseteq Requests

VARIABLES
  xd,    \* what xmon_desc_t says is in the package, and what of it is loaded
  ops,   \* boot_protocol_ops
  e820   \* the table handed to xmon: the type of each page
loaderVars == <<xd, ops, e820>>

LoaderPcs == {"starter", "run_xmon_loader", "xmon_loader", "load_xmon",
              "load_startap", "cpu_state", "primary_guest", "startup_env",
              "startap", "xmon", "deadloop"}

NoTable == [p \in Pages |-> "none"]
LoaderInit == /\ xd = [files |-> {}, loaded |-> {}]
              /\ ops = "none"
              /\ e820 = NoTable
              /\ heap_current = 0 /\ heap_tops = 0 /\ blocks = {}

(* Where things go, in pages.                                              *)
LoaderBase  == info.load_addr + BinPages
StartapBase == info.run_addr
XmonBase    == info.run_addr + StartapPages + GuestPages
DescArea    == Region(info.load_addr + BinPages + LoaderPages + HeapPages, 1)
RuntimeArea == Region(info.run_addr, StartapPages + GuestPages + XmonPages)

fixed == <<mem, vmx, pkg, info, memmap>>
Deadloop(from) == pc = from /\ pc' = "deadloop"

(* starter_main: the mapping header, VT again, an empty xmon_desc, and an  *)
(* entry for each binary.                                                  *)
StarterFinds == info.load_addr \in Pages /\ content[info.load_addr] = "package"
StarterMain ==
  /\ \/ /\ ~(StarterFinds /\ vmx)
        /\ Deadloop("starter")
        /\ UNCHANGED <<content, xd>>
     \/ /\ StarterFinds /\ vmx
        /\ pc = "starter"
        /\ pc' = IF pkg.listed = Bins THEN "run_xmon_loader" ELSE "deadloop"
        /\ Write(DescArea, "desc")
        /\ xd' = [xd EXCEPT !.files = pkg.listed]
  /\ UNCHANGED <<fixed, ops, e820, heapVars>>

(* get_image_info, the machine type, and the size against the space for    *)
(* the image.                                                              *)
InfoAnySize(image, space) == image.ok /\ image.em64t /\ image.pages > 0
InfoFits(image, space) ==
  image.ok /\ image.em64t /\ image.pages > 0 /\ image.pages <= space

(* A checked image is written where it runs, and load_image may still      *)
(* fail.                                                                   *)
Load(bin, base, space, from, to) ==
  LET image == pkg.bins[bin]
  IN  /\ \/ /\ ~InfoFits(image, space)
            /\ Deadloop(from)
            /\ UNCHANGED <<content, xd>>
         \/ /\ InfoFits(image, space)
            /\ pc = from
            /\ pc' = IF image.loads THEN to ELSE "deadloop"
            /\ Write(Region(base, image.pages), bin)
            /\ xd' = IF image.loads
                     THEN [xd EXCEPT !.loaded = @ \union {bin}] ELSE xd
      /\ UNCHANGED <<fixed, ops, e820, heapVars>>

RunXmonLoader == Load("xmon_loader", LoaderBase, LoaderPages,
                      "run_xmon_loader", "xmon_loader")

(* protocol_ops_init and heap_init.  The boot magic is the one starter.S   *)
(* puts in a register.                                                     *)
InitLoader == /\ pc = "xmon_loader" /\ pc' = "load_xmon"
              /\ ops' = "ibh"
              /\ InitializeMemoryManager(HeapBase, HeapBytes)
              /\ UNCHANGED <<fixed, content, xd, e820, blocks>>

LoadXmon == Load("xmon", XmonBase, XmonPages, "load_xmon", "load_startap")
LoadStartap == Load("startap", StartapBase, StartapPages,
                    "load_startap", "cpu_state")

(* A structure on the heap, or the loop when allocate_memory says NULL.    *)
OnHeap(size, from, to) == \/ /\ pc = from /\ pc' = to
                             /\ AllocateMemory(size)
                          \/ /\ ~Fits(size)
                             /\ Deadloop(from)
                             /\ UNCHANGED heapVars

(* setup_primary_guest_env allocates twice.                                *)
SaveCpuState == /\ OnHeap(CpuStateSize, "cpu_state", "primary_guest")
                /\ UNCHANGED <<fixed, content, loaderVars>>
SetupPrimaryGuest == /\ OnHeap(GuestSize, "primary_guest", "startup_env")
                     /\ UNCHANGED <<fixed, content, loaderVars>>

(* EFI memory types to E820 types.  preload's buffers are EfiLoaderData,   *)
(* its runtime region EfiReservedMemoryType and the map's buffer pool      *)
(* memory of EfiBootServicesData.                                          *)
EfiTypeDefaultMemory(label) ==
  CASE label = "acpi" -> "acpi"
    [] label = "nvs"  -> "nvs"
    [] OTHER          -> "memory"
EfiTypeToE820Type(label) ==
  CASE label \in {"conventional", "boot_services", "image", "ldr", "platform",
                  "map"}                    -> "memory"
    [] label = "acpi"                       -> "acpi"
    [] label = "nvs"                        -> "nvs"
    [] label \in {"runtime_services", "rt"} -> "reserved"

(* The table is read from the buffer, or from whatever is where the cut or *)
(* missing address points.                                                 *)
MapIsThere == /\ info.memmap_addr \in Pages
              /\ content[info.memmap_addr] = "map"
TablesRead == IF MapIsThere
              THEN {[p \in Pages |-> EfiTypeToE820Type(memmap[p])]}
              ELSE {[p \in Pages |-> t] : t \in {"memory", "reserved"}}
SetupStartupEnv ==
  /\ OnHeap(AlignForward(info.memmap_size, PageSize), "startup_env", "startap")
  /\ \/ pc' = "startap" /\ e820' \in TablesRead
     \/ pc' = "deadloop" /\ UNCHANGED e820
  /\ UNCHANGED <<fixed, content, xd, ops>>

(* Nothing is hidden: ibh has no hide_runtime_memory.  startap takes every *)
(* processor into xmon.                                                    *)
CallStartap == /\ pc = "startap" /\ pc' = "xmon"
               /\ UNCHANGED <<fixed, content, loaderVars, heapVars>>

(* xmon (external): the guest resumes after starter_main's call.           *)
StartGuest == /\ pc = "xmon" /\ pc' = "resumed"
              /\ UNCHANGED <<fixed, content, loaderVars, heapVars>>

LoaderNext == \/ StarterMain \/ RunXmonLoader \/ InitLoader \/ LoadXmon
              \/ LoadStartap \/ SaveCpuState \/ SetupPrimaryGuest
              \/ SetupStartupEnv \/ CallStartap \/ StartGuest
=============================================================================
