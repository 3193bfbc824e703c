----------------------------- MODULE BlockArena -----------------------------
(***************************************************************************)
(* What the loader's heap promises to its callers: each gets a block of    *)
(* the heap that nobody else has.                                          *)
(***************************************************************************)
EXTENDS Integers

CONSTANTS First, Limit   \* the heap is First .. Limit - 1
VARIABLE blocks          \* the blocks handed out: [at |-> a, size |-> n]

BytesOf(b)   == b.at .. b.at + b.size - 1
Blocks       == [at : First .. Limit, size : 0 .. Limit - First]
Apart(b, c)  == BytesOf(b) \intersect BytesOf(c) = {}

Init == blocks = {}

HandOut(b) == /\ BytesOf(b) \subseteq First .. Limit - 1
              /\ \A c \in blocks : Apart(b, c)
              /\ blocks' = blocks \union {b}

Next == \E b \in Blocks : HandOut(b)
Spec == Init /\ [][Next]_blocks
=============================================================================
