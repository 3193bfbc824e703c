----------------------------- MODULE LoaderHeap -----------------------------
(***************************************************************************)
(* xmon_loader's heap (utils/memory/memory.c): one pointer that moves up.  *)
(* Nothing is ever freed.  allocate_memory gives out the pointer rounded   *)
(* up to the alignment, but moves it by the size alone, so its blocks are  *)
(* apart only because the sizes it is asked for are multiples of the       *)
(* alignment; mon_page_alloc moves it past the rounding too.               *)
(***************************************************************************)
EXTENDS Integers

CONSTANTS HeapBase, HeapBytes, \* the loader memory's u_ldr_heap
          Width,               \* 2^32: the pointer is a uint32_t
          Alignment,           \* MEM_ALLOCATE_ALIGNMENT
          PageSize,
          Requests,            \* the sizes allocate_memory is asked for
          PageRequests         \* the numbers mon_page_alloc is asked for

Multiple(n, of) == \E k \in 0 .. n : n = k * of

ASSUME AlignmentAssumption ==
  /\ Alignment \in Nat \ {0}
  /\ PageSize \in Nat \ {0} /\ Multiple(PageSize, Alignment)
(* The heap is a page-aligned part of the loader memory, below 4 GB.       *)
ASSUME HeapAssumption ==
  /\ HeapBase \in Nat /\ Multiple(HeapBase, PageSize)
  /\ HeapBytes \in Nat
  /\ Width \in Nat /\ HeapBase + HeapBytes < Width
(* The loader asks for two structures of 64-bit fields and for a table of  *)
(* whole pages.                                                            *)
ASSUME RequestsAssumption ==
  \A size \in Requests : size \in Nat /\ Multiple(size, Alignment)
ASSUME PageRequestsAssumption == PageRequests \subseteq Nat

VARIABLES heap_current, heap_tops,
          blocks   \* what the callers hold
heapVars == <<heap_current, heap_tops, blocks>>

(* ALIGN_FORWARD                                                           *)
AlignForward(address, bytes) ==
  IF address % bytes = 0 THEN address
  ELSE address + (bytes - (address % bytes))

InitializeMemoryManager(base, bytes) ==
  /\ heap_current' = base % Width
  /\ heap_tops' = (base + bytes) % Width

(* As initialize_memory_manager leaves it.                                 *)
HeapInit == /\ heap_current = HeapBase % Width
            /\ heap_tops = (HeapBase + HeapBytes) % Width
            /\ blocks = {}

(* A request that does not fit returns NULL and changes nothing.           *)
FitsAnyhow(size) == heap_current <= heap_tops
Fits(size) == heap_current + size <= heap_tops

AllocateMemory(size) ==
  /\ Fits(size)
  /\ blocks' = blocks \union
       {[at |-> AlignForward(heap_current, Alignment), size |-> size]}
  /\ heap_current' = (heap_current + size) % Width
  /\ UNCHANGED heap_tops

PageAllocLeavesGap(pages) ==
  LET address == AlignForward(heap_current, PageSize)
      size    == pages * PageSize
  IN  /\ address + size <= heap_tops
      /\ blocks' = blocks \union {[at |-> address, size |-> size]}
      /\ heap_current' = (heap_current + size) % Width
      /\ UNCHANGED heap_tops
MonPageAlloc(pages) ==
  LET address == AlignForward(heap_current, PageSize)
      size    == pages * PageSize
  IN  /\ address + size <= heap_tops
      /\ blocks' = blocks \union {[at |-> address, size |-> size]}
      /\ heap_current' = (address + size) % Width
      /\ UNCHANGED heap_tops

HeapNext == \/ \E size \in Requests : AllocateMemory(size)
            \/ \E pages \in PageRequests : MonPageAlloc(pages)
HeapSpec == HeapInit /\ [][HeapNext]_heapVars

-----------------------------------------------------------------------------
(* allocate_memory and mon_page_alloc give each caller memory of the heap  *)
(* that no other caller was given, in whatever order and however often     *)
(* they are called, and until the heap is used up.                         *)
Arena == INSTANCE BlockArena WITH First <- HeapBase,
                                  Limit <- HeapBase + HeapBytes
ArenaSpec == Arena!Spec

(* mon_page_alloc's blocks start a page (memory.c:98), allocate_memory's   *)
(* at its alignment, and every block is inside the heap: an AlignForward   *)
(* that ran past the top would put it beyond.                              *)
HeapTypeOK ==
  /\ heap_current \in HeapBase .. HeapBase + HeapBytes
  /\ heap_tops = HeapBase + HeapBytes
  /\ \A b \in blocks : /\ b.at \in HeapBase .. HeapBase + HeapBytes
                       /\ b.size \in Nat
                       /\ b.at + b.size <= heap_current

(* The inductive invariant: the pointer is aligned and above every block,  *)
(* so the next block starts at it.                                         *)
HeapInv == /\ HeapTypeOK
           /\ Multiple(heap_current, Alignment)
=============================================================================
