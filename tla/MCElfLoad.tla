----------------------------- MODULE MCElfLoad ------------------------------
(***************************************************************************)
(* ElfLoad for TLC: an image as "ld -pie" makes it, with headers, two      *)
(* relocation entries, data, zeros and a dynamic section, and what else    *)
(* the loader may be given: other layouts, an executable without           *)
(* relocations, and images it refuses or was not made for.                 *)
(***************************************************************************)
EXTENDS Elf32Load, TLC

Phdr(type, off, filesz, addr, memsz) ==
  [type |-> type, off |-> off, filesz |-> filesz, addr |-> addr, memsz |-> memsz]
Rela(type, target, addend) == [type |-> type, target |-> target, addend |-> addend]

Text == Phdr("load", 0, 6, 0, 6)
Data == Phdr("load", 6, 1, 6, 3)
Dyn  == Phdr("dynamic", 6, 1, 6, 1)
Pie  == [valid |-> TRUE, machine |-> "em64t", length |-> 8, phoff |-> 1,
         phdrs |-> <<Text, Data, Dyn>>, entry |-> 5,
         dyn |-> [has |-> TRUE, rela |-> 4, sz |-> 2],
         relas |-> (4 :> Rela("relative", 6, 5) @@ 5 :> Rela("symbol", 7, 0))]
(* An executable, at an address of its own.                                *)
Exec == [Pie EXCEPT !.phdrs = <<Phdr("load", 0, 3, 4, 3), Phdr("load", 3, 2, 8, 4)>>,
                    !.dyn = [has |-> FALSE, rela |-> 0, sz |-> 0],
                    !.relas = <<>>, !.entry = 6]
Raised(phdr) == [phdr EXCEPT !.addr = @ + 2]

Sound ==
  {Pie, Exec,
   [Pie EXCEPT !.phdrs = <<Data, Dyn, Text>>],
   [Pie EXCEPT !.phdrs = <<Dyn, Phdr("other", 0, 1, 0, 1), Text, Data>>,
               !.phdrs[3].filesz = 7, !.phdrs[3].memsz = 7,
               !.phdrs[4] = Phdr("load", 7, 1, 8, 1),
               !.phdrs[1].off = 7,
               !.dyn.rela = 5,
               !.relas = (5 :> Rela("relative", 8, 5) @@ 6 :> Rela("none", 0, 0))],
   [Pie EXCEPT !.phdrs[2].memsz = 4],
   [Pie EXCEPT !.phdrs[2].addr = 7, !.phdrs[2].memsz = 1,
               !.relas = (4 :> Rela("relative", 7, 5) @@ 5 :> Rela("none", 0, 0))],
   [Pie EXCEPT !.phdrs[2].memsz = 0, !.dyn.sz = 0,
               !.phdrs[3].off = 5, !.phdrs[3].addr = 5]}
TooLarge == [Pie EXCEPT !.phdrs[2].memsz = 5]
Refused ==
  {TooLarge, [Pie EXCEPT !.phdrs[2].memsz = 6],
   [Pie EXCEPT !.valid = FALSE],
   [Pie EXCEPT !.length = 0], [Pie EXCEPT !.phoff = 6],
   [Pie EXCEPT !.phdrs = <<Dyn>>],
   [Pie EXCEPT !.phdrs = <<Phdr("load", 0, 6, 1, 6)>>]}
(* The bound on the file is too low, the first segment is without headers, *)
(* the program has no relocations or unknown ones or is not linked at 0,   *)
(* or a segment has more in the file than in memory.                       *)
Packed == [Exec EXCEPT !.phdrs = <<Phdr("load", 4, 2, 0, 2)>>, !.length = 6]
Unforeseen ==
  {Packed,
   [Exec EXCEPT !.phdrs[1] = Phdr("load", 3, 2, 4, 3)],
   [Exec EXCEPT !.phdrs[1].filesz = 0],
   [Exec EXCEPT !.phdrs[1].filesz = 2],
   [Exec EXCEPT !.phdrs[1].filesz = 1],
   [Pie EXCEPT !.dyn.has = FALSE],
   [Pie EXCEPT !.relas[5].type = "unsupported"],
   [Pie EXCEPT !.phdrs = <<Raised(Text), Raised(Data), Raised(Dyn)>>,
               !.dyn.rela = 6],
   [Exec EXCEPT !.phoff = 3],
   [Exec EXCEPT !.phdrs = <<Phdr("load", 0, 1, 4, 1)>>],
   [Pie EXCEPT !.phdrs[2].filesz = 4],
   [Exec EXCEPT !.phdrs[2] = Phdr("load", 2, 4, 12, 2)],
   [Pie EXCEPT !.phdrs[2].off = 9],
   [Pie EXCEPT !.phdrs[3].off = 9],
   [Pie EXCEPT !.phdrs[2].off = 8, !.phdrs[2].filesz = 2],
   [Pie EXCEPT !.relas[4].target = 20], [Pie EXCEPT !.relas[4].target = 10]}
(* A sum or a size that is cut to its type's width: the end of a segment,  *)
(* 64 or 32 bits wide, of the program headers, of what is read of a        *)
(* segment or the dynamic section, and the size that the caller is told;   *)
(* or more headers than the loops can count, or a table below the image.   *)
Cut ==
  {[Pie EXCEPT !.phdrs[2] = Phdr("load", 5, 1, 62, 4),
               !.relas[4].target = 3, !.relas[5].target = 5],
   [Pie EXCEPT !.phdrs[2] = Phdr("load", 6, 2, 30, 4)],
   [Pie EXCEPT !.phdrs[2] = Phdr("load", 63, 1, 6, 3)],
   [Pie EXCEPT !.phdrs[2] = Phdr("load", 6, 1, 36, 2)],
   [Pie EXCEPT !.phoff = 63],
   [Pie EXCEPT !.phdrs[3].off = 63, !.phdrs[3].filesz = 2],
   [Pie EXCEPT !.phdrs = <<Text, Data, Dyn, Dyn, Dyn>>],
   [Pie EXCEPT !.dyn.rela = 63]}
(* The like for x86.                                                       *)
Cut32 ==
  {[Pie EXCEPT !.phdrs[2] = Phdr("load", 4, 2, 30, 4),
               !.relas[4].target = 3, !.relas[5].target = 5],
   [Pie EXCEPT !.phdrs = <<Text, Data, Dyn, Dyn, Dyn>>],
   [Pie EXCEPT !.phoff = 31],
   [Pie EXCEPT !.dyn.rela = 31]}

(* For x86: the same with entries that have no addends, or with addends;   *)
(* both tables, an odd or no symbol table, or no table.                    *)
X86Image(image, rel, symtab) ==
  rel @@ [symtab |-> symtab] @@ [image EXCEPT !.machine = "x86"]
NoRel == [rel |-> [has |-> FALSE, at |-> 0, sz |-> 0]]
Rels  == [rel |-> [has |-> TRUE, at |-> 4, sz |-> 2]]
NoRela(image) == [image EXCEPT !.dyn = [has |-> FALSE, rela |-> 0, sz |-> 0]]
Sound32 ==
  {X86Image(Pie, NoRel, "right"),
   X86Image([Pie EXCEPT !.relas[5].type = "none"], NoRel, "right"), X86Image(Exec, NoRel, "none"),
   X86Image(NoRela(Pie), Rels, "right"), X86Image(NoRela(Pie), Rels, "odd"),
   X86Image(NoRela([Pie EXCEPT !.relas[4].target = 7, !.relas[5].target = 6]),
            Rels, "right")}
Unforeseen32 ==
  {X86Image(Pie, Rels, "right"), X86Image(Pie, Rels, "odd"),
   X86Image(NoRela(Pie), Rels, "none"), X86Image(NoRela(Pie), NoRel, "right"),
   X86Image(NoRela([Pie EXCEPT !.relas[5].target = 6]), Rels, "right"),
   X86Image(NoRela([Pie EXCEPT !.relas[5] = Pie.relas[4]]), Rels, "right"),
   X86Image(NoRela([Pie EXCEPT !.relas[5].type = "none"]), Rels, "right"),
   X86Image(NoRela([Pie EXCEPT !.relas[4].target = 2]), Rels, "right"),
   X86Image(NoRela([Pie EXCEPT !.relas[4].target = 20]), Rels, "right"),
   X86Image(NoRela(Pie), [rel |-> [has |-> TRUE, at |-> 5, sz |-> 2]], "right")}
  \union {X86Image(image, NoRel, "right") :
            image \in Refused \union Unforeseen \union Cut32}

MCImages == Sound \union Refused \union Unforeseen \union Cut
            \union Sound32 \union Unforeseen32
PackedImages == {Pie, Packed}

ASSUME EveryCase == /\ \A image \in Sound \union {TooLarge} : Linked(image)
                    /\ \A image \in Sound : FitsSpace(image)
                    /\ ~FitsSpace(TooLarge)
                    /\ \A image \in Unforeseen \union Cut : ~Linked(image)
                    /\ \A image \in Sound32 : Linked32(image)
=============================================================================
