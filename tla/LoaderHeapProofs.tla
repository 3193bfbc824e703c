-------------------------- MODULE LoaderHeapProofs --------------------------
(***************************************************************************)
(* The loader's heap implements BlockArena for every size of the heap and  *)
(* every list of requests whose sizes are multiples of the alignment.      *)
(***************************************************************************)
EXTENDS LoaderHeap, TLAPS

(* A multiple of a number leaves no remainder.                             *)
LEMMA MultipleRemainder ==
  ASSUME NEW n \in Nat, NEW of \in Nat \ {0}, Multiple(n, of)
  PROVE  n % of = 0
<1>1. PICK k \in 0 .. n : n = k * of  BY DEF Multiple
<1>2. (k * of) % of = 0  BY <1>1
<1> QED  BY <1>1, <1>2

LEMMA MultipleSum ==
  ASSUME NEW n \in Nat, NEW m \in Nat, NEW of \in Nat \ {0},
         Multiple(n, of), Multiple(m, of)
  PROVE  Multiple(n + m, of)
<1>1. PICK k \in 0 .. n : n = k * of  BY DEF Multiple
<1>2. PICK l \in 0 .. m : m = l * of  BY DEF Multiple
<1>3. n + m = (k + l) * of  BY <1>1, <1>2
<1>4. k + l \in 0 .. n + m  BY <1>1, <1>2
<1> QED  BY <1>3, <1>4 DEF Multiple

(* Every product is a multiple of its second factor.                       *)
LEMMA MultipleProduct ==
  ASSUME NEW k \in Nat, NEW of \in Nat \ {0}
  PROVE  k * of \in Nat /\ Multiple(k * of, of)
<1>1. k * of \in Nat  OBVIOUS
<1>2. k <= k * of
  <2>1. k * 1 <= k * of  OBVIOUS
  <2> QED  BY <2>1
<1> QED  BY <1>1, <1>2 DEF Multiple

LEMMA MultipleTransitive ==
  ASSUME NEW n \in Nat, NEW m \in Nat \ {0}, NEW of \in Nat \ {0},
         Multiple(n, m), Multiple(m, of)
  PROVE  Multiple(n, of)
<1>1. PICK k \in 0 .. n : n = k * m  BY DEF Multiple
<1>2. PICK l \in 0 .. m : m = l * of  BY DEF Multiple
<1>3. k * l \in Nat  BY <1>1, <1>2
<1>4. n = (k * l) * of  BY <1>1, <1>2
<1> QED  BY <1>3, <1>4, MultipleProduct

LEMMA RemainderRange ==
  ASSUME NEW n \in Nat, NEW of \in Nat \ {0}
  PROVE  n % of \in 0 .. of - 1
  OBVIOUS

LEMMA Quotient ==
  ASSUME NEW n \in Nat, NEW of \in Nat \ {0}
  PROVE  n \div of \in Nat /\ n = (n \div of) * of + (n % of)
  OBVIOUS

(* ALIGN_FORWARD goes up, by less than the alignment, to a multiple of it. *)
LEMMA AlignForwardUp ==
  ASSUME NEW a \in Nat, NEW of \in Nat \ {0}
  PROVE  /\ AlignForward(a, of) \in Nat
         /\ a <= AlignForward(a, of)
         /\ AlignForward(a, of) < a + of
         /\ Multiple(AlignForward(a, of), of)
<1> DEFINE p == (a \div of) * of
           r == a % of
<1>1. a \div of \in Nat /\ a = p + r
  BY Quotient
<1>2. p \in Nat /\ Multiple(p, of)
  BY <1>1, MultipleProduct
<1>3. r \in 0 .. of - 1
  BY RemainderRange
<1>4. Multiple(of, of)
  <2>1. of = 1 * of /\ 1 \in 0 .. of  OBVIOUS
  <2> QED  BY <2>1 DEF Multiple
<1>5. Multiple(p + of, of)
  BY <1>2, <1>4, MultipleSum
<1>6. AlignForward(a, of) = IF r = 0 THEN a ELSE a + (of - r)
  BY DEF AlignForward
<1> HIDE DEF p, r
<1>7. CASE r = 0
  <2>1. AlignForward(a, of) = a  BY <1>6, <1>7
  <2>2. a = p  BY <1>1, <1>2, <1>7
  <2> QED  BY <2>1, <2>2, <1>2
<1>8. CASE r # 0
  <2>1. AlignForward(a, of) = a + (of - r)  BY <1>6, <1>8
  <2>2. a + (of - r) = p + of  BY <1>1, <1>2, <1>3
  <2>3. Multiple(AlignForward(a, of), of)  BY <2>1, <2>2, <1>5
  <2>4. /\ AlignForward(a, of) \in Nat
        /\ a <= AlignForward(a, of)
        /\ AlignForward(a, of) < a + of
    BY <2>1, <1>3, <1>8
  <2> QED  BY <2>3, <2>4
<1> QED  BY <1>7, <1>8

(* It leaves a multiple where it is.                                       *)
LEMMA AlignForwardStays ==
  ASSUME NEW a \in Nat, NEW of \in Nat \ {0}, Multiple(a, of)
  PROVE  AlignForward(a, of) = a
  BY MultipleRemainder DEF AlignForward

-----------------------------------------------------------------------------
(* The pointer stays a multiple of the alignment, and what it has passed   *)
(* is what was handed out.                                                 *)

LEMMA ConstantsTyped ==
  /\ Alignment \in Nat \ {0} /\ PageSize \in Nat \ {0}
  /\ HeapBase \in Nat /\ HeapBytes \in Nat /\ Width \in Nat
  /\ HeapBase + HeapBytes < Width
  /\ Multiple(PageSize, Alignment) /\ Multiple(HeapBase, Alignment)
<1>1. /\ Alignment \in Nat \ {0} /\ PageSize \in Nat \ {0}
      /\ HeapBase \in Nat /\ HeapBytes \in Nat /\ Width \in Nat
      /\ HeapBase + HeapBytes < Width
      /\ Multiple(PageSize, Alignment) /\ Multiple(HeapBase, PageSize)
  BY AlignmentAssumption, HeapAssumption
<1> QED  BY <1>1, MultipleTransitive

LEMMA HeapInvInit == HeapInit => HeapInv
<1> SUFFICES ASSUME HeapInit PROVE HeapInv
  OBVIOUS
<1>1. HeapBase % Width = HeapBase
  BY ConstantsTyped
<1>2. (HeapBase + HeapBytes) % Width = HeapBase + HeapBytes
  BY ConstantsTyped
<1>3. heap_current = HeapBase /\ heap_tops = HeapBase + HeapBytes /\ blocks = {}
  BY <1>1, <1>2 DEF HeapInit
<1> QED  BY <1>3, ConstantsTyped DEF HeapInv, HeapTypeOK

(* What both routines do in a state of the invariant: hand out the block   *)
(* [at, at + size), at or above the pointer, and leave the pointer after   *)
(* it.                                                                     *)
Takes(at, size) ==
  /\ at \in Nat /\ size \in Nat
  /\ heap_current <= at
  /\ at + size <= HeapBase + HeapBytes
  /\ blocks' = blocks \union {[at |-> at, size |-> size]}
  /\ heap_current' = at + size
  /\ heap_tops' = heap_tops
  /\ Multiple(at + size, Alignment)

LEMMA AllocateMemoryTakes ==
  ASSUME HeapInv, NEW size \in Nat, Multiple(size, Alignment), AllocateMemory(size)
  PROVE  Takes(heap_current, size)
<1>1. size \in Nat /\ Multiple(size, Alignment)  OBVIOUS
<1>2. heap_current \in Nat /\ Multiple(heap_current, Alignment)
  BY ConstantsTyped DEF HeapInv, HeapTypeOK
<1>3. AlignForward(heap_current, Alignment) = heap_current
  BY <1>2, AlignForwardStays, ConstantsTyped
<1>4. heap_current + size <= HeapBase + HeapBytes
  BY DEF HeapInv, HeapTypeOK, AllocateMemory, Fits
<1>5. (heap_current + size) % Width = heap_current + size
  BY <1>1, <1>2, <1>4, ConstantsTyped
<1>6. Multiple(heap_current + size, Alignment)
  BY <1>1, <1>2, MultipleSum, ConstantsTyped
<1> QED  BY <1>1, <1>2, <1>3, <1>4, <1>5, <1>6 DEF AllocateMemory, Takes

LEMMA MonPageAllocTakes ==
  ASSUME HeapInv, NEW pages \in Nat, MonPageAlloc(pages)
  PROVE  Takes(AlignForward(heap_current, PageSize), pages * PageSize)
<1> DEFINE at == AlignForward(heap_current, PageSize)
           size == pages * PageSize
<1>1. heap_current \in Nat
  BY ConstantsTyped DEF HeapInv, HeapTypeOK
<1>2. at \in Nat /\ heap_current <= at /\ Multiple(at, PageSize)
  BY <1>1, AlignForwardUp, ConstantsTyped
<1>3. size \in Nat /\ Multiple(size, PageSize)
  BY MultipleProduct, ConstantsTyped
<1>4. at + size <= HeapBase + HeapBytes
  BY DEF HeapInv, HeapTypeOK, MonPageAlloc
<1>5. Multiple(at + size, Alignment)
  <2>1. Multiple(at, Alignment)
    BY <1>2, MultipleTransitive, ConstantsTyped
  <2>2. Multiple(size, Alignment)
    BY <1>3, MultipleTransitive, ConstantsTyped
  <2> QED  BY <1>2, <1>3, <2>1, <2>2, MultipleSum, ConstantsTyped
<1>6. /\ blocks' = blocks \union {[at |-> at, size |-> size]}
      /\ heap_current' = (at + size) % Width
      /\ heap_tops' = heap_tops
  BY DEF MonPageAlloc
<1> HIDE DEF at, size
<1>7. (at + size) % Width = at + size
  BY <1>2, <1>3, <1>4, ConstantsTyped
<1>8. Takes(at, size)
  BY <1>2, <1>3, <1>4, <1>5, <1>6, <1>7 DEF Takes
<1> QED  BY <1>8 DEF at, size

LEMMA TakesKeepsInv ==
  ASSUME HeapInv, NEW at, NEW size, Takes(at, size)
  PROVE  HeapInv'
<1>1. heap_current' \in HeapBase .. HeapBase + HeapBytes
  BY ConstantsTyped DEF HeapInv, HeapTypeOK, Takes
<1>2. heap_tops' = HeapBase + HeapBytes
  BY DEF HeapInv, HeapTypeOK, Takes
<1>3. ASSUME NEW b \in blocks'
      PROVE  /\ b.at \in HeapBase .. HeapBase + HeapBytes
             /\ b.size \in Nat
             /\ b.at + b.size <= heap_current'
  <2>1. CASE b \in blocks
    BY <2>1, ConstantsTyped DEF HeapInv, HeapTypeOK, Takes
  <2>2. CASE b = [at |-> at, size |-> size]
    BY <2>2, ConstantsTyped DEF HeapInv, HeapTypeOK, Takes
  <2> QED  BY <1>3, <2>1, <2>2 DEF Takes
<1>4. Multiple(heap_current, Alignment)'
  BY DEF Takes, Multiple
<1> QED  BY <1>1, <1>2, <1>3, <1>4 DEF HeapInv, HeapTypeOK

LEMMA TakesHandsOut ==
  ASSUME HeapInv, NEW at, NEW size, Takes(at, size)
  PROVE  Arena!Next
<1>1. PICK new : new = [at |-> at, size |-> size]
  OBVIOUS
<1>2. new \in Arena!Blocks
  BY <1>1, ConstantsTyped DEF HeapInv, HeapTypeOK, Takes, Arena!Blocks
<1>3. Arena!BytesOf(new) \subseteq HeapBase .. (HeapBase + HeapBytes) - 1
  BY <1>1, ConstantsTyped DEF HeapInv, HeapTypeOK, Takes, Arena!BytesOf
<1>4. \A c \in blocks : Arena!Apart(new, c)
  BY <1>1, ConstantsTyped
  DEF HeapInv, HeapTypeOK, Takes, Arena!Apart, Arena!BytesOf
<1>5. blocks' = blocks \union {new}
  BY <1>1 DEF Takes
<1>6. Arena!HandOut(new)
  BY <1>3, <1>4, <1>5 DEF Arena!HandOut
<1> QED  BY <1>2, <1>6 DEF Arena!Next

LEMMA HeapStep ==
  ASSUME HeapInv, [HeapNext]_heapVars
  PROVE  HeapInv' /\ [Arena!Next]_blocks
<1>1. CASE \E size \in Requests : AllocateMemory(size)
  BY <1>1, RequestsAssumption, AllocateMemoryTakes, TakesKeepsInv, TakesHandsOut
<1>2. CASE \E pages \in PageRequests : MonPageAlloc(pages)
  BY <1>2, PageRequestsAssumption, MonPageAllocTakes, TakesKeepsInv, TakesHandsOut
<1>3. CASE UNCHANGED heapVars
  BY <1>3 DEF heapVars, HeapInv, HeapTypeOK, Multiple
<1> QED  BY <1>1, <1>2, <1>3 DEF HeapNext

(* Every block lies below the pointer and the pointer in the heap: see     *)
(* memory.c:42-53 and 98-110.                                              *)
THEOREM HeapTypeCorrect == HeapSpec => []HeapTypeOK
<1>1. HeapInv => HeapTypeOK  BY DEF HeapInv
<1> QED  BY HeapInvInit, HeapStep, <1>1, PTL DEF HeapSpec

(* No two callers of allocate_memory and mon_page_alloc share a byte, and  *)
(* none is given memory outside the heap.                                  *)
THEOREM HeapImplementsArena == HeapSpec => ArenaSpec
<1>1. HeapInit => Arena!Init  BY DEF HeapInit, Arena!Init
<1> QED  BY <1>1, HeapInvInit, HeapStep, PTL DEF HeapSpec, ArenaSpec, Arena!Spec
=============================================================================
