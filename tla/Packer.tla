------------------------------- MODULE Packer -------------------------------
(***************************************************************************)
(* The build tool that makes ikgt_pkg.bin (pre_os/tools/xmon_packer.c),    *)
(* and how starter and preload read what it made.  It appends the files    *)
(* that its command line names, or the defaults, one after the other, then *)
(* fills in two headers that starter.bin holds empty: the file mapping     *)
(* header, and the boot header.                                            *)
(*                                                                         *)
(* Any step may fail, and the tool may be killed between two steps.  It    *)
(* flushes every write before the next, so what is on disk after each step *)
(* is what the next stage of the boot may be given.  It looks for an error *)
(* before it flushes, never after.                                         *)
(*                                                                         *)
(* Sizes, offsets and the total are unsigned ints, so they are numbers     *)
(* modulo UIntValues: a longer file is cut, and a sum may wrap.            *)
(***************************************************************************)
EXTENDS Integers, Sequences

CONSTANTS
  Names,          \* of files on disk; those in Files are the defaults
  Disks,          \* the size of each file; 0 for an empty or missing one
  BootMagics,     \* where in each file the boot magic is; 0 for nowhere
  CommandLines,   \* argv from argv[1] on: see Words
  LoaderBinSize,  \* LOADER_BIN_SIZE, a multiple of PageBytes
  PageBytes,
  UIntValues,     \* 2^32
  WordBytes, QuadBytes, \* the steps in which packer and preload search
  HeaderWritesFail \* whether the flush of a header may fail

(* files_options: starter.bin and then the binaries in the order of        *)
(* file_pack_index_t, which is their index less one.                       *)
Files == 0 .. 3
Binaries == Files \ {0}

(* What begins with --, one of the four options or not, and file names.    *)
Option(f) == <<"option", f>>
Name(n)   == <<"name", n>>
Words == {"option", "name"} \X Nat

ASSUME PackerAssumption ==
  /\ Files \subseteq Names /\ Names \subseteq Nat
  /\ \A argv \in CommandLines :
       /\ Len(argv) \in Nat
       /\ \A k \in 1 .. Len(argv) : argv[k] \in Words
       /\ \A k \in 1 .. Len(argv) : argv[k][1] = "name" => argv[k][2] \in Names
  /\ Disks \subseteq [Names -> Nat] /\ BootMagics \subseteq [Names -> Nat]
  /\ UIntValues \in Nat \ {0}
  /\ WordBytes \in Nat \ {0} /\ QuadBytes = 2 * WordBytes
  /\ PageBytes \in Nat \ {0}
  /\ LoaderBinSize \in Nat /\ LoaderBinSize % PageBytes = 0
  /\ HeaderWritesFail \in BOOLEAN

VARIABLES
  disk, boot_magic, \* the files: one of Disks and of BootMagics
  has_mapping, \* whether the --starter file has the mapping header
  argv, cmd_idx,  \* the command line, and the word that is looked at
  file_name, \* files_options
  fsize, offset,  \* files_options
  pc, next,  \* the step, and the file to append
  ferror,    \* the error indicator of the stream that pack_files appends to
  package    \* ikgt_pkg.bin
given == <<disk, boot_magic, has_mapping, argv>>
vars == <<given, cmd_idx, file_name, fsize, offset, pc, next, ferror, package>>

NoMapping == [flags |-> {}, files |-> [b \in Binaries |-> <<0, 0>>]]
(* data is what was appended.  On top of it are the mapping header, and at *)
(* boot_at the boot header, if boot, the size in it, is not 0.             *)
Absent == [state |-> "absent", data |-> <<>>, mapping |-> NoMapping,
           boot |-> 0, boot_at |-> 0]

(* The i-th byte of file name, and a byte that is of none.                 *)
NoByte == <<-1, 0>>
FileBytes(name, n) == [i \in 1 .. n |-> <<name, i>>]
Align4K(n) == ((n + PageBytes - 1) \div PageBytes) * PageBytes
UInt(n) == n % UIntValues
Sum(size) == size[0] + size[1] + size[2] + size[3]
(* get_total_file_size                                                     *)
Total == UInt(Sum(fsize))

Init == /\ disk \in Disks /\ boot_magic \in BootMagics /\ has_mapping \in BOOLEAN
        /\ argv \in CommandLines /\ cmd_idx = 1
        /\ file_name = [f \in Files |-> f]
        /\ fsize = [f \in Files |-> 0] /\ offset = [f \in Files |-> 0]
        /\ pc = "cmdline" /\ next = 0 /\ ferror = FALSE
        /\ package \in {Absent, [Absent EXCEPT !.state = "old"]}

files == <<given, cmd_idx, file_name>>
Step(from, to) == pc = from /\ pc' = to
(* goto error                                                              *)
Fail(from) == /\ Step(from, "failed")
              /\ UNCHANGED <<files, fsize, offset, next, ferror, package>>

(* parse_packer_cmdline: an option and the name that follows, again and    *)
(* again.  The name is not looked for before the end of argv: after a last *)
(* option the tool reads through a null pointer.                           *)
IsOption(word) == word[1] = "option"
Known(word) == IsOption(word) /\ word[2] \in Files
KeepsFirst(f, name) == IF file_name[f] = f THEN name ELSE file_name[f]
NameFor(f, name) == name
ParseOption ==
  /\ cmd_idx <= Len(argv)
  /\ \/ ~Known(argv[cmd_idx]) /\ Fail("cmdline")
     \/ /\ Known(argv[cmd_idx]) /\ cmd_idx = Len(argv)
        /\ Step("cmdline", "crashed")
        /\ UNCHANGED <<files, fsize, offset, next, ferror, package>>
     \/ /\ Known(argv[cmd_idx]) /\ cmd_idx < Len(argv)
        /\ \/ IsOption(argv[cmd_idx + 1]) /\ Fail("cmdline")
           \/ /\ ~IsOption(argv[cmd_idx + 1])
              /\ Step("cmdline", "cmdline")
              /\ file_name' = [file_name EXCEPT ![argv[cmd_idx][2]] =
                    NameFor(argv[cmd_idx][2], argv[cmd_idx + 1][2])]
              /\ cmd_idx' = cmd_idx + 2
              /\ UNCHANGED <<given, fsize, offset, next, ferror, package>>
CmdlineParsed ==
  /\ cmd_idx > Len(argv)
  /\ Step("cmdline", "file_info")
  /\ UNCHANGED <<files, fsize, offset, next, ferror, package>>

(* update_file_info: every file is required, and each starts where the     *)
(* one before it ends.  A file of a multiple of UIntValues bytes is cut to *)
(* none, which the second look at the sizes refuses.                       *)
StartOf(size, f) == CASE f = 0 -> 0
                      [] f = 1 -> size[0]
                      [] f = 2 -> size[0] + size[1]
                      [] f = 3 -> size[0] + size[1] + size[2]
UpdateFileInfo ==
  \/ /\ \E f \in Files : UInt(disk[file_name[f]]) = 0
     /\ Fail("file_info")
  \/ /\ \A f \in Files : UInt(disk[file_name[f]]) # 0
     /\ Step("file_info", "size_check")
     /\ fsize' = [f \in Files |-> UInt(disk[file_name[f]])]
     /\ offset' = [f \in Files |-> UInt(StartOf(fsize', f))]
     /\ UNCHANGED <<files, next, ferror, package>>

(* total_file_size_check                                                   *)
AnyTotal == TRUE
TotalFits == Total <= LoaderBinSize
CheckTotal == \/ ~TotalFits /\ Fail("size_check")
              \/ /\ TotalFits
                 /\ Step("size_check", "pack")
                 /\ UNCHANGED <<files, fsize, offset, next, ferror, package>>

(* pack_files: fsize bytes of each.  The old package goes first, if it can *)
(* be removed.                                                             *)
CreatePackage ==
  \/ Fail("pack")
  \/ /\ Step("pack", "append")
     /\ package' = [Absent EXCEPT !.state = "new"]
     /\ UNCHANGED <<files, fsize, offset, next, ferror>>

(* A flush that fails leaves part of the file and sets the indicator,      *)
(* which is looked at with the next file.                                  *)
Appended(n) == [package EXCEPT !.data = @ \o FileBytes(file_name[next], n)]
NextFile == /\ pc' = IF next = 3 THEN "file_header" ELSE "append"
            /\ next' = next + 1
AppendFile ==
  /\ pc = "append"
  /\ \/ /\ ~ferror
        /\ package' = Appended(fsize[next])
        /\ NextFile
        /\ UNCHANGED ferror
     \/ /\ \E n \in 0 .. fsize[next] - 1 : package' = Appended(n)
        /\ \/ pc' = "failed" /\ UNCHANGED <<next, ferror>>
           \/ ~ferror /\ ferror' = TRUE /\ NextFile
  /\ UNCHANGED <<files, fsize, offset>>

(* write_buf_to_file looks for an error before rewind flushes, and rewind  *)
(* clears it: a header that does not reach the disk is not noticed.        *)
HeaderWritten(written, old) ==
  IF HeaderWritesFail THEN {written, old} ELSE {written}

(* update_file_header: the --starter file is searched for the header, in   *)
(* steps of four bytes, which must have no flags yet.                      *)
Mapping == [flags |-> {b \in Binaries : fsize[b] # 0},
            files |-> [b \in Binaries |-> <<offset[b], fsize[b]>>]]
UpdateFileHeader ==
  \/ Fail("file_header")
  \/ /\ has_mapping
     /\ Step("file_header", "boot_header")
     /\ package' \in HeaderWritten([package EXCEPT !.mapping = Mapping], package)
     /\ UNCHANGED <<files, fsize, offset, next, ferror>>

(* update_boot_header: read Total bytes of the package back, which fails   *)
(* when it is short, then fill in the first header found in them, be it    *)
(* starter's or not: the region sizes and the padded size of the image.    *)
AnyLength == TRUE
ReadBack == Len(package.data) >= Total
MagicAt(p) == LET byte == package.data[p]
              IN  byte[1] \in Names /\ byte[2] = boot_magic[byte[1]]
Hits(step, last) ==
  {p \in DOMAIN package.data : p <= last /\ (p - 1) % step = 0 /\ MagicAt(p)}
HitsOfPacker == Hits(WordBytes, Total - WordBytes)
LastHit(p) == \A q \in HitsOfPacker : q <= p
FirstHit(p) == \A q \in HitsOfPacker : p <= q
UpdateBootHeader ==
  \/ Fail("boot_header")
  \/ /\ ReadBack
     /\ Step("boot_header", "pad")
     /\ \E p \in HitsOfPacker :
          /\ FirstHit(p)
          /\ package' \in HeaderWritten([package EXCEPT !.boot = Align4K(Total),
                                                      !.boot_at = p], package)
     /\ UNCHANGED <<files, fsize, offset, next, ferror>>

Padding(n) == [i \in 1 .. n |-> NoByte]
PadBytes == Align4K(Total) - Total
PadPackage ==
  \/ Fail("pad")
  \/ /\ Step("pad", "success")
     /\ package' = [package EXCEPT !.data = @ \o Padding(PadBytes)]
     /\ UNCHANGED <<files, fsize, offset, next, ferror>>

Next == \/ ParseOption \/ CmdlineParsed \/ UpdateFileInfo \/ CheckTotal \/ CreatePackage
        \/ AppendFile \/ UpdateFileHeader \/ UpdateBootHeader \/ PadPackage
Spec == Init /\ [][Next]_vars

-----------------------------------------------------------------------------
(* The readers.                                                            *)

(* preload takes the first boot header too, in longer steps, and allocates *)
(* with the sizes in it: an empty one gets no memory and the package is    *)
(* left alone.                                                             *)
HitsOfPreload == Hits(QuadBytes, Len(package.data))
PreloadAccepts == /\ package.state = "new" /\ package.boot # 0
                  /\ package.boot_at \in HitsOfPreload
                  /\ \A q \in HitsOfPreload : package.boot_at <= q
(* starter_main wants an entry for each binary and else loops for ever.    *)
StarterAccepts == /\ package.mapping.flags = Binaries
                  /\ \A b \in Binaries : package.mapping.files[b][2] # 0
ByteAt(i) == IF i \in DOMAIN package.data /\ (package.boot # 0 => i # package.boot_at)
             THEN package.data[i] ELSE NoByte
BinaryFound(b) == LET entry == package.mapping.files[b]
                  IN  [i \in 1 .. entry[2] |-> ByteAt(entry[1] + i)]

-----------------------------------------------------------------------------
(* Properties.                                                             *)

(* The file that the command line asks for: the last that it names for the *)
(* option, or the default.                                                 *)
Uses(f) == {k \in 1 .. Len(argv) : 2 * k <= Len(argv) /\ argv[2 * k - 1] = Option(f)}
Asked(f) ==
  IF Uses(f) = {} THEN f
  ELSE argv[2 * (CHOOSE k \in Uses(f) : \A l \in Uses(f) : l <= k)][2]

(* The files are shorter than 4 GB together, and the --starter file is one *)
(* that starter.S makes: its boot header is aligned for both searches.     *)
SizesKept == Sum([f \in Files |-> disk[Asked(f)]]) < UIntValues
StarterHasHeader ==
  LET at == boot_magic[Asked(0)]
  IN  at # 0 /\ (at - 1) % QuadBytes = 0 /\ at + QuadBytes <= disk[Asked(0)] + 1

(* When every header that is written reaches the disk, and whatever else   *)
(* fails or whenever the tool is killed: a package that preload goes on    *)
(* with is one in which starter finds each binary that was asked for,      *)
(* whole, and not the end of one, the start of the next or a header inside *)
(* it.  Without SizesKept a binary may be cut (xmon_packer.c:228), and     *)
(* without StarterHasHeader the boot header may be written into a binary   *)
(* that happens to hold the magic (xmon_packer.c:463-477).                 *)
AcceptedIsWhole ==
  SizesKept /\ StarterHasHeader /\ PreloadAccepts =>
    /\ StarterAccepts
    /\ \A b \in Binaries : BinaryFound(b) = FileBytes(Asked(b), disk[Asked(b)])

(* The new package never outgrows u_ldr_bin, the space for it in the       *)
(* loader memory, padding included, if the sum of the sizes that the table *)
(* has does not wrap (xmon_packer.c:264-268): files may be cut.            *)
FitsLoaderBin ==
  package.state = "new" /\ Sum(fsize) < UIntValues => Len(package.data) <= LoaderBinSize

(* "Successfully pack below binaries into" (xmon_packer.c:666): after that *)
(* message the package of such files is one that boots, of whole pages,    *)
(* and the size in its boot header is its own.                             *)
SuccessBoots ==
  pc = "success" /\ SizesKept /\ StarterHasHeader =>
    /\ PreloadAccepts /\ StarterAccepts
    /\ package.boot = Len(package.data)
    /\ Len(package.data) % PageBytes = 0

-----------------------------------------------------------------------------
(* The inductive invariant of the three, for the proofs.                   *)
Bytes == (Names \union {-1}) \X Nat
Packages == [state : {"absent", "old", "new"}, data : Seq(Bytes),
             mapping : [flags : SUBSET Binaries, files : [Binaries -> Nat \X Nat]],
             boot : Nat, boot_at : Nat]
TypeInv ==
  /\ disk \in Disks /\ boot_magic \in BootMagics
  /\ argv \in CommandLines /\ cmd_idx \in Nat \ {0}
  /\ file_name \in [Files -> Names]
  /\ fsize \in [Files -> Nat] /\ offset \in [Files -> Nat]
  /\ next \in 0 .. 4 /\ ferror \in BOOLEAN
  /\ package \in Packages

(* What was read of the command line is what file_name has.                *)
Seen(f) == {k \in Uses(f) : 2 * k < cmd_idx}
NamedSoFar(f) ==
  \/ Seen(f) = {} /\ file_name[f] = f
  \/ \E k \in Seen(f) : /\ \A l \in Seen(f) : l <= k
                       /\ file_name[f] = argv[2 * k][2]
Ended == {"failed", "crashed"}
NamesInv ==
  /\ pc = "cmdline" => /\ \E j \in 0 .. cmd_idx : cmd_idx = 2 * j + 1
                       /\ \A f \in Files : NamedSoFar(f)
  /\ pc \notin Ended \union {"cmdline"} \/ package.boot # 0 =>
       \A f \in Files : file_name[f] = Asked(f)
SizesInv ==
  pc \notin Ended \union {"cmdline", "file_info"} \/ package.state = "new" =>
    \A f \in Files : /\ fsize[f] = UInt(disk[file_name[f]]) /\ fsize[f] # 0
                     /\ offset[f] = UInt(StartOf(fsize, f))
TotalInv ==
  pc \notin Ended \union {"cmdline", "file_info", "size_check"}
    \/ package.state = "new" => TotalFits

(* How far the package is, and that nothing in it was moved.  That it was  *)
(* read back whole is known only of a total that did not wrap.             *)
Begun == {"append", "file_header", "boot_header", "pad", "success"}
Unwrapped == Sum(fsize) < UIntValues
EndOf(n) == IF n = 4 THEN Sum(fsize) ELSE StartOf(fsize, n)
Holding(n) ==
  \A f \in Files : f < n =>
    \A i \in 1 .. fsize[f] :
      package.data[StartOf(fsize, f) + i] = <<file_name[f], i>>
Gathered == IF ferror THEN Len(package.data) < EndOf(next)
            ELSE Len(package.data) = EndOf(next) /\ Holding(next)
PackageInv ==
  /\ pc \in Begun <=> package.state = "new" /\ pc \notin Ended
  /\ pc \in {"cmdline", "file_info", "size_check", "pack"} => next = 0 /\ ~ferror
  /\ package.state # "new" => package.boot = 0
  /\ pc \in {"append", "file_header", "boot_header"} =>
       Gathered /\ package.boot = 0
  /\ pc = "append" => next < 4
  /\ pc \in {"file_header", "boot_header"} => next = 4
  /\ Unwrapped /\ (pc \in {"pad", "success"} \/ package.boot # 0) =>
       Holding(4) /\ Sum(fsize) <= Len(package.data)
  /\ Unwrapped /\ package.state = "new" =>
       IF pc = "success" THEN Len(package.data) = Align4K(Total)
       ELSE Len(package.data) <= Sum(fsize)
HeadersInv ==
  ~HeaderWritesFail =>
    /\ pc \in {"boot_header", "pad", "success"} \/ package.boot # 0 =>
         package.mapping = Mapping
    /\ pc \in {"pad", "success"} => package.boot = Align4K(Total)
(* The boot header is where the file of --starter has it.                  *)
BootAtInv ==
  SizesKept /\ StarterHasHeader /\ package.boot # 0 =>
       package.boot_at = boot_magic[Asked(0)]
Pcs == Begun \union Ended \union {"cmdline", "file_info", "size_check", "pack"}
PackerInv == /\ TypeInv /\ pc \in Pcs
             /\ NamesInv /\ SizesInv /\ TotalInv /\ PackageInv
             /\ HeadersInv /\ BootAtInv
=============================================================================
