---------------------------- MODULE PackerProofs ----------------------------
(***************************************************************************)
(* For every set of files and of command lines and every size of page and  *)
(* of the loader's space: a package that preload accepts is whole, never   *)
(* outgrows its space, and is a good one when the tool says so.  The       *)
(* argument is PackerInv: how far the package is at each step, and that    *)
(* each file is in it where the header will say.                           *)
(***************************************************************************)
EXTENDS Packer, SequenceTheorems, TLAPS

USE DEF given

(* Rounding up to pages.                                                   *)
LEMMA AlignBounds ==
  ASSUME NEW n \in Nat
  PROVE  /\ Align4K(n) \in Nat /\ n <= Align4K(n)
         /\ Align4K(n) % PageBytes = 0
         /\ \E q \in Nat : /\ Align4K(n) = q * PageBytes
                           /\ q * PageBytes < n + PageBytes
<1> DEFINE q == (n + PageBytes - 1) \div PageBytes
           r == (n + PageBytes - 1) % PageBytes
<1>1. PageBytes \in Nat /\ PageBytes >= 1  BY PackerAssumption
<1>2. n + PageBytes - 1 \in Nat  BY <1>1
<1>3. q \in Nat /\ r \in 0 .. PageBytes - 1
      /\ n + PageBytes - 1 = PageBytes * q + r
  BY <1>1, <1>2
<1>4. Align4K(n) = q * PageBytes  BY DEF Align4K
<1> HIDE DEF q, r
<1>5. q * PageBytes \in Nat /\ q * PageBytes = PageBytes * q  BY <1>1, <1>3
<1>6. n <= q * PageBytes /\ q * PageBytes < n + PageBytes  BY <1>1, <1>3, <1>5
<1>7. (q * PageBytes) % PageBytes = 0
  <2> DEFINE d == (q * PageBytes) \div PageBytes
             t == (q * PageBytes) % PageBytes
  <2>1. d \in Int /\ t \in 0 .. PageBytes - 1 /\ q * PageBytes = PageBytes * d + t
    BY <1>1, <1>5
  <2> HIDE DEF d, t
  <2>2. t = PageBytes * (q - d)  BY <1>1, <1>3, <1>5, <2>1
  <2>3. CASE q - d >= 1
    <3>1. PageBytes * (q - d) >= PageBytes  BY <1>1, <1>3, <2>1, <2>3
    <3> QED  BY <1>1, <2>1, <2>2, <3>1
  <2>4. CASE q - d <= -1
    <3>1. PageBytes * (q - d) <= -1  BY <1>1, <1>3, <2>1, <2>4
    <3> QED  BY <1>1, <2>1, <2>2, <3>1
  <2>5. CASE q = d  BY <1>1, <1>3, <2>1, <2>2, <2>5 DEF t
  <2> QED  BY <1>3, <2>1, <2>3, <2>4, <2>5
<1> QED  BY <1>3, <1>4, <1>5, <1>6, <1>7

(* What fits in whole pages fits rounded up.                               *)
LEMMA AlignFits ==
  ASSUME NEW n \in Nat, n <= LoaderBinSize
  PROVE  Align4K(n) <= LoaderBinSize
<1> DEFINE m == LoaderBinSize \div PageBytes
<1>1. PageBytes \in Nat /\ PageBytes >= 1 /\ LoaderBinSize \in Nat
      /\ LoaderBinSize % PageBytes = 0
  BY PackerAssumption
<1>2. m \in Nat /\ LoaderBinSize = PageBytes * m  BY <1>1
<1>3. PICK q \in Nat : Align4K(n) = q * PageBytes /\ q * PageBytes < n + PageBytes
  BY AlignBounds
<1> HIDE DEF m
<1>4. q * PageBytes < (m + 1) * PageBytes  BY <1>1, <1>2, <1>3
<1>5. q < m + 1
  <2>1. SUFFICES ASSUME q >= m + 1 PROVE FALSE  BY <1>2, <1>3
  <2>2. q * PageBytes >= (m + 1) * PageBytes  BY <1>1, <1>2, <1>3, <2>1
  <2> QED  BY <1>1, <1>2, <1>3, <1>4, <2>2
<1>6. q * PageBytes <= m * PageBytes  BY <1>1, <1>2, <1>3, <1>5
<1> QED  BY <1>1, <1>2, <1>3, <1>6

(* Where the files start and end in the package.                           *)
LEMMA Starts ==
  ASSUME fsize \in [Files -> Nat]
  PROVE  /\ Sum(fsize) \in Nat /\ EndOf(0) = 0 /\ EndOf(4) = Sum(fsize)
         /\ \A f \in Files : /\ StartOf(fsize, f) \in Nat
                             /\ EndOf(f) = StartOf(fsize, f)
                             /\ EndOf(f + 1) = StartOf(fsize, f) + fsize[f]
                             /\ EndOf(f + 1) <= Sum(fsize)
<1>1. /\ fsize[0] \in Nat /\ fsize[1] \in Nat /\ fsize[2] \in Nat /\ fsize[3] \in Nat
  BY DEF Files
<1> QED  BY <1>1 DEF Sum, EndOf, StartOf, Files

(* What an unsigned int makes of a number.                                 *)
LEMMA UIntCuts ==
  ASSUME NEW n \in Nat
  PROVE  /\ UInt(n) \in Nat /\ UInt(n) <= n
         /\ n < UIntValues => UInt(n) = n
  BY PackerAssumption DEF UInt

LEMMA TotalIs ==
  ASSUME fsize \in [Files -> Nat]
  PROVE  Total \in Nat /\ (Unwrapped => Total = Sum(fsize))
  BY Starts, UIntCuts DEF Total, Unwrapped

LEMMA FileBytesTyped ==
  ASSUME NEW name \in Names, NEW n \in Nat
  PROVE  /\ FileBytes(name, n) \in Seq(Bytes) /\ Len(FileBytes(name, n)) = n
         /\ \A k \in 1 .. n : FileBytes(name, n)[k] = <<name, k>>
<1>1. \A k \in 1 .. n : <<name, k>> \in Bytes  BY DEF Bytes
<1> QED  BY <1>1 DEF FileBytes

(* The fields of the state that the others are about.                      *)
LEMMA Typed ==
  ASSUME TypeInv
  PROVE  /\ fsize \in [Files -> Nat] /\ offset \in [Files -> Nat]
         /\ file_name \in [Files -> Names] /\ disk \in [Names -> Nat]
         /\ package.data \in Seq(Bytes) /\ Len(package.data) \in Nat
         /\ package.boot \in Nat
         /\ \A f \in Files : file_name[f] \in Names /\ disk[file_name[f]] \in Nat
<1>2. disk \in [Names -> Nat]  BY PackerAssumption DEF TypeInv
<1>3. package.data \in Seq(Bytes) /\ package.boot \in Nat  BY DEF TypeInv, Packages
<1>4. Len(package.data) \in Nat  BY <1>3, LenProperties
<1> QED  BY <1>2, <1>3, <1>4 DEF TypeInv

LEMMA InitInv == Init => PackerInv
<1> SUFFICES ASSUME Init PROVE PackerInv  OBVIOUS
<1>1. TypeInv
  <2>1. file_name \in [Files -> Names]  BY PackerAssumption DEF Init
  <2>2. package \in Packages
    <3>1. <<>> \in Seq(Bytes)  OBVIOUS
    <3>2. PICK st \in {"absent", "old"} :
            package = [state |-> st, data |-> <<>>, mapping |-> NoMapping,
                       boot |-> 0, boot_at |-> 0]
      BY DEF Init, Absent
    <3>3. NoMapping \in [flags : SUBSET Binaries, files : [Binaries -> Nat \X Nat]]
      BY DEF NoMapping
    <3> QED  BY <3>1, <3>2, <3>3 DEF Packages
  <2>3. /\ disk \in Disks /\ boot_magic \in BootMagics /\ argv \in CommandLines
        /\ cmd_idx = 1 /\ next = 0 /\ ferror = FALSE
        /\ fsize = [f \in Files |-> 0] /\ offset = [f \in Files |-> 0]
    BY DEF Init
  <2>4. fsize \in [Files -> Nat] /\ offset \in [Files -> Nat]  BY <2>3
  <2>5. cmd_idx \in Nat \ {0} /\ next \in 0 .. 4  BY <2>3
  <2>6. ferror \in BOOLEAN  BY <2>3, Zenon
  <2> QED  BY <2>1, <2>2, <2>3, <2>4, <2>5, <2>6 DEF TypeInv
<1>2. NamesInv
  <2>1. \A f \in Files : Seen(f) = {}
    <3>1. \A f \in Files : \A k \in Uses(f) : k \in Nat /\ k >= 1
      BY PackerAssumption DEF Uses, Init
    <3> QED  BY <3>1 DEF Init, Seen
  <2>2. \A f \in Files : NamedSoFar(f)  BY <2>1 DEF Init, NamedSoFar
  <2>3. \E j \in 0 .. cmd_idx : cmd_idx = 2 * j + 1  BY DEF Init
  <2> QED  BY <2>2, <2>3 DEF Init, NamesInv, Absent
<1>3. SizesInv /\ TotalInv /\ HeadersInv /\ BootAtInv /\ pc \in Pcs
  BY DEF Init, SizesInv, TotalInv, HeadersInv, BootAtInv, Absent, Pcs
<1>4. PackageInv  BY DEF Init, PackageInv, Begun, Absent
<1> QED  BY <1>1, <1>2, <1>3, <1>4 DEF PackerInv

(* The inputs that the properties ask for do not change.                   *)
LEMMA AskedUnchanged ==
  ASSUME UNCHANGED given
  PROVE  /\ \A f \in Files : Asked(f)' = Asked(f)
         /\ \A f \in Files : Uses(f)' = Uses(f)
         /\ SizesKept' = SizesKept /\ StarterHasHeader' = StarterHasHeader
<1>1. \A f \in Files : Asked(f)' = Asked(f) /\ Uses(f)' = Uses(f)
  BY DEF Asked, Uses
<1>2. StarterHasHeader' = StarterHasHeader
  BY <1>1 DEF StarterHasHeader, Files
<1>3. SizesKept' = SizesKept  BY <1>1 DEF SizesKept, Sum, Files
<1> QED  BY <1>1, <1>2, <1>3

LEMMA BootAtKept ==
  ASSUME PackerInv, UNCHANGED given,
         \/ package'.boot = 0
         \/ package'.boot = package.boot /\ package'.boot_at = package.boot_at
  PROVE  BootAtInv'
<1>1. 0 \in Files  BY DEF Files
<1> QED  BY <1>1, AskedUnchanged DEF PackerInv, BootAtInv

(* A step that ends the tool and leaves the package as it is.              *)
LEMMA EndInv ==
  ASSUME PackerInv, pc # "success", pc' \in Ended,
         UNCHANGED <<files, fsize, offset, next, ferror, package>>
  PROVE  PackerInv'
<1> USE DEF files
<1>1. TypeInv' /\ pc' \in Pcs  BY DEF PackerInv, TypeInv, Pcs
<1>2. NamesInv'  BY AskedUnchanged DEF PackerInv, NamesInv, Ended
<1>3. SizesInv' /\ TotalInv'
  BY DEF PackerInv, SizesInv, TotalInv, TotalFits, Total, Sum, UInt, StartOf, Ended
<1>4. PackageInv'
  <2>1. Holding(4)' = Holding(4) /\ Sum(fsize)' = Sum(fsize) /\ Unwrapped' = Unwrapped
    BY DEF Holding, Sum, StartOf, Unwrapped
  <2>2. pc' \notin Begun /\ pc' \notin {"append", "file_header", "boot_header",
                                     "pad", "success"}
        /\ pc' \notin {"cmdline", "file_info", "size_check", "pack"}
        /\ pc' \in Ended
    BY DEF Begun, Ended
  <2>3. Unwrapped /\ package.state = "new" => Len(package.data) <= Sum(fsize)
    BY DEF PackerInv, PackageInv
  <2>4. Unwrapped /\ package.boot # 0 =>
          Holding(4) /\ Sum(fsize) <= Len(package.data)
    BY DEF PackerInv, PackageInv
  <2>5. package.state # "new" => package.boot = 0
    BY DEF PackerInv, PackageInv
  <2> QED  BY <2>1, <2>2, <2>3, <2>4, <2>5 DEF PackageInv
<1>5. HeadersInv'
  BY DEF PackerInv, HeadersInv, Mapping, Total, Sum, UInt, Align4K, Ended
<1> QED  BY <1>1, <1>2, <1>3, <1>4, <1>5, BootAtKept DEF PackerInv

(* Before the first byte is written there is nothing that preload accepts, *)
(* and what is said of the package says nothing.                           *)
Before == {"cmdline", "file_info", "size_check", "pack"}
LEMMA BeforeInv ==
  ASSUME PackerInv, pc \in Before
  PROVE  /\ package.state # "new" /\ package.boot = 0 /\ next = 0 /\ ~ferror
         /\ UNCHANGED <<next, ferror, package>> /\ pc' \in Before =>
              PackageInv' /\ HeadersInv' /\ BootAtInv' /\ pc' \in Pcs
<1>1. /\ pc \notin Begun /\ pc \notin Ended  BY DEF Before, Begun, Ended
<1>2. package.state # "new" /\ package.boot = 0 /\ next = 0 /\ ~ferror
  BY <1>1 DEF PackerInv, PackageInv, Before
<1>3. ASSUME UNCHANGED <<next, ferror, package>>, pc' \in Before
      PROVE  PackageInv' /\ HeadersInv' /\ BootAtInv' /\ pc' \in Pcs
  <2>1. pc' \notin Begun /\ pc' \notin {"append", "file_header", "boot_header",
                                      "pad", "success"}
    BY <1>3 DEF Before, Begun
  <2>2. PackageInv'  BY <1>2, <1>3, <2>1 DEF PackageInv
  <2>3. HeadersInv' /\ BootAtInv'  BY <1>2, <1>3, <2>1 DEF HeadersInv, BootAtInv
  <2> QED  BY <1>3, <2>2, <2>3 DEF Before, Pcs
<1> QED  BY <1>2, <1>3

(* The words of the command line up to cmd_idx.                            *)
LEMMA ParseOptionInv == ASSUME PackerInv, ParseOption PROVE PackerInv'
<1> DEFINE word == argv[cmd_idx]
           name == argv[cmd_idx + 1][2]
<1>1. CASE pc' \in Ended
  <2>1. /\ pc # "success"
        /\ UNCHANGED <<files, fsize, offset, next, ferror, package>>
    BY <1>1 DEF ParseOption, Fail, Step, Ended
  <2> QED  BY <1>1, <2>1, EndInv
<1>2. CASE pc' \notin Ended
  <2>1. /\ pc = "cmdline" /\ pc' = "cmdline"
        /\ Known(word) /\ cmd_idx < Len(argv) /\ ~IsOption(argv[cmd_idx + 1])
        /\ file_name' = [file_name EXCEPT ![word[2]] = name]
        /\ cmd_idx' = cmd_idx + 2
        /\ UNCHANGED <<given, fsize, offset, next, ferror, package>>
    BY <1>2 DEF ParseOption, Fail, Step, Ended, NameFor
  <2>2. /\ argv \in CommandLines /\ cmd_idx \in Nat \ {0} /\ Len(argv) \in Nat
        /\ file_name \in [Files -> Names]
    BY PackerAssumption DEF PackerInv, TypeInv
  <2>3. name \in Names
    <3>1. cmd_idx + 1 \in 1 .. Len(argv)  BY <2>1, <2>2
    <3>2. argv[cmd_idx + 1] \in Words  BY <2>2, <3>1, PackerAssumption
    <3>3. argv[cmd_idx + 1][1] = "name"  BY <2>1, <3>2 DEF IsOption, Words
    <3> QED  BY <2>2, <3>1, <3>3, PackerAssumption
  <2>4. PICK g \in Files : word = Option(g) /\ word[2] = g
    <3>1. word \in Words  BY <2>1, <2>2, PackerAssumption
    <3> QED  BY <2>1, <3>1 DEF Known, IsOption, Option, Words
  <2>5. file_name' = [file_name EXCEPT ![g] = name]  BY <2>1, <2>4
  <2> HIDE DEF word, name
  <2>6. TypeInv'
    <3>1. file_name' \in [Files -> Names]  BY <2>2, <2>3, <2>4, <2>5
    <3>2. cmd_idx' \in Nat \ {0}  BY <2>1, <2>2
    <3> QED  BY <2>1, <3>1, <3>2 DEF PackerInv, TypeInv
  <2>7. PICK j \in 0 .. cmd_idx : cmd_idx = 2 * j + 1
    BY <2>1 DEF PackerInv, NamesInv
  <2>8. j \in Nat  BY <2>2, <2>7
  <2>9. \A f \in Files : /\ Uses(f)' = Uses(f)
                        /\ \A k \in Uses(f) : k \in Nat /\ k >= 1
    BY <2>1, <2>2, AskedUnchanged DEF Uses
  <2>10. ASSUME NEW f \in Files, f # g  PROVE NamedSoFar(f)'
    <3>1. j + 1 \notin Uses(f)
      <4>1. 2 * (j + 1) - 1 = cmd_idx  BY <2>7, <2>8
      <4>2. word # Option(f)  BY <2>4, <2>10 DEF Option
      <4> QED  BY <4>1, <4>2 DEF Uses, word
    <3>2. Seen(f)' = Seen(f)
      <4>1. \A k \in Uses(f) : 2 * k < cmd_idx + 2 <=> 2 * k < cmd_idx
        BY <2>7, <2>8, <2>9, <3>1
      <4> QED  BY <2>1, <2>9, <4>1 DEF Seen
    <3>3. NamedSoFar(f)  BY <2>1 DEF PackerInv, NamesInv
    <3>4. file_name'[f] = file_name[f]  BY <2>2, <2>5, <2>10
    <3> QED  BY <2>1, <3>2, <3>3, <3>4 DEF NamedSoFar
  <2>11. NamedSoFar(g)'
    <3>1. 2 * (j + 1) - 1 = cmd_idx /\ 2 * (j + 1) = cmd_idx + 1
          /\ j + 1 \in 1 .. Len(argv) /\ 2 * (j + 1) <= Len(argv)
      BY <2>1, <2>2, <2>7, <2>8
    <3>2. j + 1 \in Uses(g)
      <4>1. argv[2 * (j + 1) - 1] = Option(g)  BY <2>4, <3>1 DEF word
      <4> QED  BY <3>1, <4>1 DEF Uses
    <3>3. Seen(g)' = {k \in Uses(g) : 2 * k < cmd_idx + 2}
      BY <2>1, <2>9 DEF Seen
    <3>4. j + 1 \in Seen(g)' /\ \A l \in Seen(g)' : l <= j + 1
      BY <2>2, <2>7, <2>8, <2>9, <3>1, <3>2, <3>3
    <3>5. file_name'[g] = argv'[2 * (j + 1)][2]
      BY <2>1, <2>2, <2>4, <2>5, <3>1 DEF name
    <3> QED  BY <3>4, <3>5 DEF NamedSoFar
  <2>12. package.boot = 0 /\ package.state # "new"
         /\ PackageInv' /\ HeadersInv' /\ BootAtInv' /\ pc' \in Pcs
    BY <2>1, BeforeInv DEF Before
  <2>13. NamesInv'
    <3>1. j + 1 \in 0 .. cmd_idx' /\ cmd_idx' = 2 * (j + 1) + 1
      BY <2>1, <2>2, <2>7, <2>8
    <3>2. \A f \in Files : NamedSoFar(f)'  BY <2>10, <2>11
    <3>3. package'.boot = 0  BY <2>1, <2>12
    <3> QED  BY <2>1, <3>1, <3>2, <3>3 DEF NamesInv, Ended
  <2>14. SizesInv' /\ TotalInv'
    BY <2>1, <2>12 DEF SizesInv, TotalInv, Ended
  <2> QED  BY <2>6, <2>12, <2>13, <2>14 DEF PackerInv
<1> QED  BY <1>1, <1>2

(* Nothing of the command line is left.                                    *)
LEMMA CmdlineParsedInv == ASSUME PackerInv, CmdlineParsed PROVE PackerInv'
<1>1. /\ pc = "cmdline" /\ pc' = "file_info" /\ cmd_idx > Len(argv)
      /\ UNCHANGED <<given, cmd_idx, file_name, fsize, offset,
                     next, ferror, package>>
  BY DEF CmdlineParsed, Step, files
<1>2. /\ argv \in CommandLines /\ cmd_idx \in Nat \ {0} /\ Len(argv) \in Nat
  BY PackerAssumption DEF PackerInv, TypeInv
<1>3. TypeInv'  BY <1>1 DEF PackerInv, TypeInv
<1>4. ASSUME NEW f \in Files  PROVE file_name[f] = Asked(f)
  <2>1. \A k \in Uses(f) : k \in Nat /\ 2 * k <= Len(argv)  BY <1>2 DEF Uses
  <2>2. Seen(f) = Uses(f)  BY <1>1, <1>2, <2>1 DEF Seen
  <2>3. NamedSoFar(f)  BY <1>1 DEF PackerInv, NamesInv
  <2>4. CASE Uses(f) = {}  BY <2>2, <2>3, <2>4 DEF NamedSoFar, Asked
  <2>5. CASE Uses(f) # {}
    <3>1. PICK k \in Uses(f) : /\ \A l \in Uses(f) : l <= k
                               /\ file_name[f] = argv[2 * k][2]
      BY <2>2, <2>3, <2>5 DEF NamedSoFar
    <3> DEFINE last == CHOOSE m \in Uses(f) : \A l \in Uses(f) : l <= m
    <3>2. last \in Uses(f) /\ \A l \in Uses(f) : l <= last  BY <3>1
    <3>3. last = k  BY <2>1, <3>1, <3>2
    <3> QED  BY <2>5, <3>1, <3>3 DEF Asked
  <2> QED  BY <2>4, <2>5
<1>5. \A f \in Files : Asked(f)' = Asked(f)  BY <1>1, AskedUnchanged
<1>6. NamesInv'  BY <1>1, <1>4, <1>5 DEF NamesInv
<1>7. package.boot = 0 /\ package.state # "new"
      /\ PackageInv' /\ HeadersInv' /\ BootAtInv' /\ pc' \in Pcs
  BY <1>1, BeforeInv DEF Before
<1>8. SizesInv' /\ TotalInv'  BY <1>1, <1>7 DEF SizesInv, TotalInv, Ended
<1> QED  BY <1>3, <1>6, <1>7, <1>8 DEF PackerInv

(* Each file is one that exists, and starts where the one before it ends.  *)
LEMMA StartsOf ==
  ASSUME NEW size \in [Files -> Nat]
  PROVE  \A f \in Files : StartOf(size, f) \in Nat
<1>1. size[0] \in Nat /\ size[1] \in Nat /\ size[2] \in Nat  BY DEF Files
<1> QED  BY <1>1 DEF StartOf, Files

LEMMA UpdateFileInfoInv == ASSUME PackerInv, UpdateFileInfo PROVE PackerInv'
<1>1. CASE Fail("file_info")
  BY <1>1, EndInv DEF Fail, Step, Ended
<1>2. CASE ~Fail("file_info")
  <2>1. /\ pc = "file_info" /\ pc' = "size_check"
        /\ \A f \in Files : UInt(disk[file_name[f]]) # 0
        /\ fsize' = [f \in Files |-> UInt(disk[file_name[f]])]
        /\ offset' = [f \in Files |-> UInt(StartOf(fsize', f))]
        /\ UNCHANGED <<given, cmd_idx, file_name, next, ferror, package>>
    BY <1>2 DEF UpdateFileInfo, Step, files
  <2>2. TypeInv'
    <3>1. fsize' \in [Files -> Nat]  BY <2>1, Typed, UIntCuts DEF PackerInv
    <3>2. \A f \in Files : StartOf(fsize', f) \in Nat  BY <3>1, StartsOf
    <3>3. offset' \in [Files -> Nat]  BY <2>1, <3>2, UIntCuts
    <3> QED  BY <2>1, <3>1, <3>3 DEF PackerInv, TypeInv
  <2>3. package.boot = 0 /\ package.state # "new"
        /\ PackageInv' /\ HeadersInv' /\ BootAtInv' /\ pc' \in Pcs
    BY <2>1, BeforeInv DEF Before
  <2>4. NamesInv'
    <3>1. \A f \in Files : file_name[f] = Asked(f)
      BY <2>1 DEF PackerInv, NamesInv, Ended
    <3>2. \A f \in Files : Asked(f)' = Asked(f)  BY <2>1, AskedUnchanged
    <3> QED  BY <2>1, <3>1, <3>2 DEF NamesInv
  <2>5. SizesInv'
    <3>1. \A f \in Files : /\ fsize'[f] = UInt(disk'[file_name'[f]])
                          /\ fsize'[f] # 0 /\ offset'[f] = UInt(StartOf(fsize', f))
      BY <2>1
    <3> QED  BY <3>1 DEF SizesInv, StartOf, UInt
  <2>6. TotalInv'  BY <2>1, <2>3 DEF TotalInv
  <2> QED  BY <2>2, <2>3, <2>4, <2>5, <2>6 DEF PackerInv
<1> QED  BY <1>1, <1>2

(* From the first byte written on, only the package and where the tool is  *)
(* change.                                                                 *)
LEMMA TablesInv ==
  ASSUME PackerInv, UNCHANGED <<files, fsize, offset>>,
         pc \notin Ended \union {"cmdline"}, pc' # "cmdline"
  PROVE  /\ NamesInv'
         /\ pc # "file_info" => SizesInv'
         /\ pc \notin {"file_info", "size_check"} => TotalInv'
         /\ Total' = Total /\ Mapping' = Mapping
         /\ Sum(fsize)' = Sum(fsize) /\ Unwrapped' = Unwrapped
         /\ \A n \in 0 .. 4 : EndOf(n)' = EndOf(n)
<1>1. \A f \in Files : Asked(f)' = Asked(f)  BY AskedUnchanged DEF files
<1>2. \A f \in Files : file_name[f] = Asked(f)  BY DEF PackerInv, NamesInv
<1>3. NamesInv'  BY <1>1, <1>2 DEF NamesInv, files
<1>4. pc # "file_info" => SizesInv'
  BY DEF PackerInv, SizesInv, StartOf, UInt, files, Ended
<1>5. /\ Total' = Total /\ Mapping' = Mapping /\ \A n \in 0 .. 4 : EndOf(n)' = EndOf(n)
      /\ Sum(fsize)' = Sum(fsize) /\ Unwrapped' = Unwrapped
  BY DEF Total, Sum, UInt, Unwrapped, Mapping, EndOf, StartOf
<1>6. pc \notin {"file_info", "size_check"} => TotalInv'
  BY <1>5 DEF PackerInv, TotalInv, TotalFits, Ended
<1> QED  BY <1>3, <1>4, <1>5, <1>6

LEMMA CheckTotalInv == ASSUME PackerInv, CheckTotal PROVE PackerInv'
<1>1. CASE Fail("size_check")
  BY <1>1, EndInv DEF Fail, Step, Ended
<1>2. CASE ~Fail("size_check")
  <2>1. /\ pc = "size_check" /\ pc' = "pack" /\ TotalFits
        /\ UNCHANGED <<given, cmd_idx, file_name, fsize, offset,
                       next, ferror, package>>
    BY <1>2 DEF CheckTotal, Step, files
  <2>2. TypeInv'  BY <2>1 DEF PackerInv, TypeInv
  <2>3. PackageInv' /\ HeadersInv' /\ BootAtInv' /\ pc' \in Pcs
    BY <2>1, BeforeInv DEF Before
  <2>4. NamesInv' /\ SizesInv' /\ Total' = Total
    BY <2>1, TablesInv DEF files, Ended
  <2>5. TotalInv'  BY <2>1, <2>4 DEF TotalInv, TotalFits
  <2> QED  BY <2>2, <2>3, <2>4, <2>5 DEF PackerInv
<1> QED  BY <1>1, <1>2

LEMMA CreatePackageInv == ASSUME PackerInv, CreatePackage PROVE PackerInv'
<1>1. CASE Fail("pack")
  BY <1>1, EndInv DEF Fail, Step, Ended
<1>2. CASE ~Fail("pack")
  <2>1. /\ pc = "pack" /\ pc' = "append"
        /\ package' = [Absent EXCEPT !.state = "new"]
        /\ UNCHANGED <<given, cmd_idx, file_name, fsize, offset,
                       next, ferror>>
    BY <1>2 DEF CreatePackage, Step, files
  <2>2. package' = [state |-> "new", data |-> <<>>, mapping |-> NoMapping,
                    boot |-> 0, boot_at |-> 0]
    BY <2>1 DEF Absent
  <2>3. TypeInv'
    <3>1. <<>> \in Seq(Bytes)  OBVIOUS
    <3>2. NoMapping \in [flags : SUBSET Binaries, files : [Binaries -> Nat \X Nat]]
      BY DEF NoMapping
    <3>3. package' \in Packages
      BY <2>2, <3>1, <3>2 DEF Packages
    <3> QED  BY <2>1, <3>3 DEF PackerInv, TypeInv
  <2>4. NamesInv' /\ SizesInv' /\ TotalInv' /\ Sum(fsize)' = Sum(fsize)
    BY <2>1, TablesInv DEF files, Ended
  <2>5. next' = 0 /\ ~ferror'  BY <2>1, BeforeInv DEF Before
  <2>6. /\ package'.boot = 0 /\ package'.state = "new" /\ package'.data = <<>>
        /\ Len(package'.data) = 0
    BY <2>2
  <2>7. Gathered'
    <3>1. Holding(0)'  BY DEF Holding, Files
    <3>2. fsize' \in [Files -> Nat]  BY <2>3 DEF TypeInv
    <3>3. EndOf(0)' = 0  BY DEF EndOf, StartOf
    <3> QED  BY <2>5, <2>6, <3>1, <3>3 DEF Gathered
  <2>8. Sum(fsize)' \in Nat  BY <2>1, <2>4, Starts, Typed DEF PackerInv
  <2>9. PackageInv'
    BY <2>1, <2>5, <2>6, <2>7, <2>8 DEF PackageInv, Begun, Ended
  <2>10. HeadersInv' /\ BootAtInv' /\ pc' \in Pcs
    BY <2>1, <2>6 DEF HeadersInv, BootAtInv, Pcs, Begun
  <2> QED  BY <2>3, <2>4, <2>9, <2>10 DEF PackerInv
<1> QED  BY <1>1, <1>2

LEMMA EndsOrdered ==
  ASSUME fsize \in [Files -> Nat]
  PROVE  \A m \in 0 .. 4 : \A n \in 0 .. 4 :
           EndOf(n) \in Nat /\ (m <= n => EndOf(m) <= EndOf(n))
<1>1. /\ fsize[0] \in Nat /\ fsize[1] \in Nat /\ fsize[2] \in Nat /\ fsize[3] \in Nat
  BY DEF Files
<1> QED  BY <1>1 DEF Sum, EndOf, StartOf

(* A file, or the beginning of it, goes after what is there.               *)
LEMMA AppendFileInv == ASSUME PackerInv, AppendFile PROVE PackerInv'
<1>1. /\ pc = "append" /\ pc' \in {"append", "file_header", "failed"}
      /\ UNCHANGED <<given, cmd_idx, file_name, fsize, offset>>
  BY DEF AppendFile, NextFile, files
<1>2. /\ next \in Files /\ Gathered /\ package.boot = 0 /\ package.state = "new"
  BY <1>1 DEF PackerInv, TypeInv, PackageInv, Begun, Ended, Files
<1>3. fsize \in [Files -> Nat] /\ package.data \in Seq(Bytes)
      /\ Len(package.data) \in Nat /\ file_name[next] \in Names /\ fsize[next] \in Nat
  BY <1>2, Typed DEF PackerInv
<1>4. NamesInv' /\ SizesInv' /\ TotalInv' /\ Sum(fsize)' = Sum(fsize)
      /\ \A n \in 0 .. 4 : EndOf(n)' = EndOf(n)
  BY <1>1, TablesInv DEF files, Ended
<1>5. /\ next + 1 \in 0 .. 4 /\ EndOf(next) = StartOf(fsize, next)
      /\ EndOf(next + 1) = EndOf(next) + fsize[next] /\ EndOf(next) \in Nat
      /\ EndOf(next + 1) <= Sum(fsize) /\ Sum(fsize) \in Nat
      /\ EndOf(4) = Sum(fsize)
  <2>1. /\ Sum(fsize) \in Nat /\ EndOf(4) = Sum(fsize)
        /\ StartOf(fsize, next) \in Nat /\ EndOf(next) = StartOf(fsize, next)
        /\ EndOf(next + 1) = StartOf(fsize, next) + fsize[next]
        /\ EndOf(next + 1) <= Sum(fsize)
    BY <1>2, <1>3, Starts
  <2>2. next + 1 \in 0 .. 4  BY <1>2 DEF Files
  <2> QED  BY <2>1, <2>2
<1>6. ferror => Len(package.data) < EndOf(next)
  BY <1>2 DEF Gathered
<1>7. ~ferror => Len(package.data) = EndOf(next) /\ Holding(next)
  BY <1>2 DEF Gathered
<1>8. ASSUME NEW n \in 0 .. fsize[next], package' = Appended(n)
      PROVE  /\ Len(package'.data) = Len(package.data) + n
             /\ \A k \in 1 .. Len(package.data) : package'.data[k] = package.data[k]
             /\ \A i \in 1 .. n :
                  package'.data[Len(package.data) + i] = <<file_name[next], i>>
             /\ package'.boot = 0 /\ package'.state = "new"
             /\ package' \in Packages
  <2> DEFINE new == FileBytes(file_name[next], n)
             old == package.data
  <2>1. n \in Nat /\ new \in Seq(Bytes) /\ Len(new) = n
        /\ \A k \in 1 .. n : new[k] = <<file_name[next], k>>
    <3>1. n \in Nat  BY <1>3
    <3> QED  BY <1>3, <3>1, FileBytesTyped
  <2>2. package \in Packages
    BY DEF PackerInv, TypeInv
  <2>3. package' = [package EXCEPT !.data = old \o new]  BY <1>8 DEF Appended
  <2>4. old \in Seq(Bytes) /\ Len(old) \in Nat  BY <1>3
  <2> HIDE DEF new, old
  <2>5. /\ package'.data = old \o new /\ package'.boot = package.boot
        /\ package'.state = package.state
    BY <2>2, <2>3 DEF Packages
  <2>6. /\ old \o new \in Seq(Bytes) /\ Len(old \o new) = Len(old) + n
        /\ \A k \in 1 .. Len(old) : (old \o new)[k] = old[k]
        /\ \A i \in 1 .. n : (old \o new)[Len(old) + i] = new[i]
    <3>1. /\ old \o new \in Seq(Bytes) /\ Len(old \o new) = Len(old) + n
          /\ \A k \in 1 .. Len(old) + n :
               (old \o new)[k] = IF k <= Len(old) THEN old[k] ELSE new[k - Len(old)]
      BY <2>1, <2>4, ConcatProperties
    <3>2. ASSUME NEW k \in 1 .. Len(old)  PROVE (old \o new)[k] = old[k]
      BY <2>1, <2>4, <3>1
    <3>3. ASSUME NEW i \in 1 .. n  PROVE (old \o new)[Len(old) + i] = new[i]
      <4>1. /\ Len(old) + i \in 1 .. Len(old) + n /\ ~(Len(old) + i <= Len(old))
            /\ (Len(old) + i) - Len(old) = i
        BY <2>1, <2>4
      <4> QED  BY <3>1, <4>1
    <3> QED  BY <3>1, <3>2, <3>3
  <2>7. package' \in Packages
    BY <2>2, <2>3, <2>6 DEF Packages
  <2>8. \A i \in 1 .. n :
          package'.data[Len(package.data) + i] = <<file_name[next], i>>
    BY <2>1, <2>5, <2>6 DEF old
  <2>9. /\ Len(package'.data) = Len(package.data) + n
        /\ \A k \in 1 .. Len(package.data) : package'.data[k] = package.data[k]
    BY <2>5, <2>6 DEF old
  <2> QED  BY <1>2, <2>5, <2>7, <2>8, <2>9
<1>9. CASE /\ ~ferror /\ package' = Appended(fsize[next]) /\ NextFile
           /\ UNCHANGED ferror
  <2>1. fsize[next] \in 0 .. fsize[next]  BY <1>3
  <2>2. TypeInv'
    <3>1. next' \in 0 .. 4  BY <1>5, <1>9 DEF NextFile
    <3> QED  BY <1>1, <1>8, <1>9, <2>1, <3>1 DEF PackerInv, TypeInv
  <2>3. Len(package'.data) = EndOf(next + 1)
    BY <1>3, <1>5, <1>7, <1>8, <1>9, <2>1
  <2>4. Holding(next)'
    <3>0. next' = next + 1  BY <1>9 DEF NextFile
    <3>1. SUFFICES ASSUME NEW f \in Files, f < next + 1, NEW i \in 1 .. fsize[f]
                   PROVE  package'.data[StartOf(fsize, f) + i] = <<file_name[f], i>>
      BY <1>1, <3>0 DEF Holding, StartOf
    <3>2. CASE f = next
      BY <1>5, <1>7, <1>8, <1>9, <2>1, <3>2
    <3>3. CASE f # next
      <4>1. f < next /\ f + 1 \in 0 .. 4 /\ next \in 0 .. 4 /\ f + 1 <= next
        BY <1>2, <3>1, <3>3 DEF Files
      <4>2. EndOf(f + 1) <= EndOf(next) /\ EndOf(f + 1) = StartOf(fsize, f) + fsize[f]
            /\ StartOf(fsize, f) \in Nat /\ fsize[f] \in Nat
        BY <1>3, <4>1, EndsOrdered, Starts
      <4>3. StartOf(fsize, f) + i \in 1 .. Len(package.data)
        BY <1>5, <1>7, <1>9, <4>2
      <4>4. package.data[StartOf(fsize, f) + i] = <<file_name[f], i>>
        BY <1>7, <1>9, <4>1 DEF Holding
      <4> QED  BY <1>8, <1>9, <2>1, <4>3, <4>4
    <3> QED  BY <3>2, <3>3
  <2>5. /\ next' = next + 1 /\ ~ferror' /\ pc' \in {"append", "file_header"}
        /\ (pc' = "append" => next' < 4) /\ (pc' = "file_header" => next' = 4)
    BY <1>2, <1>9 DEF NextFile, Files
  <2>6. Gathered'
    <3>1. EndOf(next)' = EndOf(next + 1)  BY <1>1, <2>5 DEF EndOf, StartOf, Sum
    <3> QED  BY <2>3, <2>4, <2>5, <3>1 DEF Gathered
  <2>7. Len(package'.data) <= Sum(fsize)'  BY <1>4, <1>5, <2>3
  <2>8. package'.boot = 0 /\ package'.state = "new"  BY <1>8, <1>9, <2>1
  <2>9. PackageInv'
    BY <2>5, <2>6, <2>7, <2>8 DEF PackageInv, Begun, Ended
  <2>10. HeadersInv' /\ BootAtInv' /\ pc' \in Pcs
    BY <2>5, <2>8 DEF HeadersInv, BootAtInv, Pcs, Begun
  <2> QED  BY <1>4, <2>2, <2>9, <2>10 DEF PackerInv
<1>10. ASSUME NEW n \in 0 .. fsize[next] - 1, package' = Appended(n),
              \/ pc' = "failed" /\ UNCHANGED <<next, ferror>>
              \/ ~ferror /\ ferror' = TRUE /\ NextFile
       PROVE  PackerInv'
  <2>1. n \in 0 .. fsize[next] /\ n < fsize[next]  BY <1>3
  <2>2. TypeInv'
    <3>1. next' \in 0 .. 4  BY <1>2, <1>5, <1>10 DEF NextFile, Files
    <3>2. ferror' \in BOOLEAN
      <4>1. ferror \in BOOLEAN  BY DEF PackerInv, TypeInv
      <4> QED  BY <1>10, <4>1
    <3> QED  BY <1>1, <1>8, <1>10, <2>1, <3>1, <3>2 DEF PackerInv, TypeInv
  <2>3. Len(package'.data) < EndOf(next + 1)
    <3>1. Len(package.data) <= EndOf(next)  BY <1>3, <1>5, <1>6, <1>7
    <3>2. Len(package'.data) = Len(package.data) + n  BY <1>8, <1>10, <2>1
    <3> QED  BY <1>3, <1>5, <2>1, <3>1, <3>2
  <2>4. package'.boot = 0 /\ package'.state = "new"
        /\ package'.data \in Seq(Bytes) /\ Len(package'.data) \in Nat
    BY <1>8, <1>10, <2>1, <2>2, LenProperties DEF TypeInv, Packages
  <2>5. Len(package'.data) <= Sum(fsize)'
    <3>1. EndOf(next + 1) \in Nat  BY <1>3, <1>5
    <3>2. Len(package'.data) <= Sum(fsize)  BY <1>5, <2>3, <2>4, <3>1
    <3> QED  BY <1>4, <3>2
  <2>6. CASE pc' = "failed"
    BY <1>4, <2>2, <2>4, <2>5, <2>6
    DEF PackerInv, PackageInv, HeadersInv, BootAtInv, Begun, Ended, Pcs
  <2>7. CASE ferror' = TRUE /\ NextFile
    <3>1. /\ next' = next + 1 /\ pc' \in {"append", "file_header"}
          /\ (pc' = "append" => next' < 4) /\ (pc' = "file_header" => next' = 4)
      BY <1>2, <2>7 DEF NextFile, Files
    <3>2. EndOf(next)' = EndOf(next + 1)  BY <1>1, <3>1 DEF EndOf, StartOf, Sum
    <3>3. Gathered'  BY <2>3, <2>7, <3>2 DEF Gathered
    <3>4. PackageInv'  BY <2>4, <2>5, <3>1, <3>3 DEF PackageInv, Begun, Ended
    <3>5. HeadersInv' /\ BootAtInv' /\ pc' \in Pcs
      BY <2>4, <3>1 DEF HeadersInv, BootAtInv, Pcs, Begun
    <3> QED  BY <1>4, <2>2, <3>4, <3>5 DEF PackerInv
  <2> QED  BY <1>10, <2>6, <2>7
<1> QED  BY <1>9, <1>10 DEF AppendFile

(* What is said of the bytes stays true of a package with other headers.   *)
LEMMA SameBytes ==
  ASSUME PackerInv, UNCHANGED <<files, fsize, offset>>, package'.data = package.data
  PROVE  Holding(4)' = Holding(4) /\ Len(package.data)' = Len(package.data)
  BY DEF Holding, StartOf, files

LEMMA UpdateFileHeaderInv == ASSUME PackerInv, UpdateFileHeader PROVE PackerInv'
<1>1. CASE Fail("file_header")
  BY <1>1, EndInv DEF Fail, Step, Ended
<1>2. CASE ~Fail("file_header")
  <2>1. /\ pc = "file_header" /\ pc' = "boot_header"
        /\ package' \in HeaderWritten([package EXCEPT !.mapping = Mapping], package)
        /\ UNCHANGED <<given, cmd_idx, file_name, fsize, offset,
                       next, ferror>>
    BY <1>2 DEF UpdateFileHeader, Step, files
  <2>2. package \in Packages
    BY DEF PackerInv, TypeInv
  <2>3. Mapping \in [flags : SUBSET Binaries, files : [Binaries -> Nat \X Nat]]
    <3>1. \A b \in Binaries : offset[b] \in Nat /\ fsize[b] \in Nat
      BY Typed DEF PackerInv, Binaries
    <3> QED  BY <3>1 DEF Mapping
  <2>4. /\ package'.data = package.data /\ package'.boot = package.boot
        /\ package'.state = package.state
        /\ (~HeaderWritesFail => package'.mapping = Mapping)
        /\ package'.boot_at = package.boot_at /\ package' \in Packages
    BY <2>1, <2>2, <2>3 DEF HeaderWritten, Packages
  <2>5. TypeInv'  BY <2>1, <2>4 DEF PackerInv, TypeInv
  <2>6. NamesInv' /\ SizesInv' /\ TotalInv' /\ Mapping' = Mapping
        /\ Sum(fsize)' = Sum(fsize) /\ Unwrapped' = Unwrapped
        /\ \A n \in 0 .. 4 : EndOf(n)' = EndOf(n)
    BY <2>1, TablesInv DEF files, Ended
  <2>7. Gathered /\ package.boot = 0 /\ next = 4 /\ package.state = "new"
        /\ (Unwrapped => Len(package.data) <= Sum(fsize))
    BY <2>1 DEF PackerInv, PackageInv, Begun, Ended
  <2>8. Len(package'.data) = Len(package.data) /\ Holding(4)' = Holding(4)
    BY <2>1, <2>4, SameBytes DEF files
  <2>9. Gathered'
    <3>1. EndOf(next)' = EndOf(next)  BY <2>1, <2>6, <2>7
    <3> QED  BY <2>1, <2>7, <2>8, <3>1 DEF Gathered
  <2>10. PackageInv'
    BY <2>1, <2>4, <2>6, <2>7, <2>8, <2>9 DEF PackageInv, Begun, Ended
  <2>11. HeadersInv' /\ BootAtInv' /\ pc' \in Pcs
    BY <2>1, <2>4, <2>6, <2>7, BootAtKept DEF HeadersInv, Pcs, Begun
  <2> QED  BY <2>5, <2>6, <2>10, <2>11 DEF PackerInv
<1> QED  BY <1>1, <1>2

(* With sizes that are kept nothing is cut and nothing wraps.              *)
LEMMA NothingCut ==
  ASSUME PackerInv, SizesKept, \A f \in Files : file_name[f] = Asked(f),
         pc \notin Ended \union {"cmdline", "file_info"} \/ package.state = "new"
  PROVE  /\ Unwrapped /\ Total = Sum(fsize)
         /\ \A f \in Files : /\ fsize[f] = disk[Asked(f)]
                             /\ offset[f] = StartOf(fsize, f)
<1>1. \A f \in Files : /\ fsize[f] = UInt(disk[Asked(f)])
                       /\ offset[f] = UInt(StartOf(fsize, f))
                       /\ disk[Asked(f)] \in Nat
  BY Typed DEF PackerInv, SizesInv
<1> DEFINE size == [f \in Files |-> disk[Asked(f)]]
<1>2. /\ 0 \in Files /\ 1 \in Files /\ 2 \in Files /\ 3 \in Files
      /\ \A f \in Files : f \in {0, 1, 2, 3}
  BY DEF Files
<1>3. size[0] \in Nat /\ size[1] \in Nat /\ size[2] \in Nat /\ size[3] \in Nat
  BY <1>1, <1>2
<1>4. UIntValues \in Nat /\ Sum(size) < UIntValues
  BY PackerAssumption DEF SizesKept
<1>5. \A f \in Files : size[f] = disk[Asked(f)]  OBVIOUS
<1> HIDE DEF size
<1>6. \A f \in Files : size[f] < UIntValues  BY <1>2, <1>3, <1>4 DEF Sum
<1>7. \A f \in Files : fsize[f] = size[f] /\ fsize[f] \in Nat
  BY <1>1, <1>5, <1>6, UIntCuts
<1>8. Sum(fsize) = Sum(size)  BY <1>2, <1>7 DEF Sum
<1>9. fsize \in [Files -> Nat]  BY Typed DEF PackerInv
<1>10. Unwrapped /\ Total = Sum(fsize)  BY <1>4, <1>8, <1>9, TotalIs DEF Unwrapped
<1>11. ASSUME NEW f \in Files  PROVE offset[f] = StartOf(fsize, f)
  <2>1. /\ StartOf(fsize, f) \in Nat /\ fsize[f] \in Nat /\ Sum(fsize) \in Nat
        /\ StartOf(fsize, f) + fsize[f] <= Sum(fsize)
    BY <1>7, <1>9, Starts
  <2>2. StartOf(fsize, f) < UIntValues  BY <1>4, <1>8, <2>1
  <2> QED  BY <1>1, <2>1, <2>2, UIntCuts
<1> QED  BY <1>5, <1>7, <1>10, <1>11

(* What is a place for preload's search is one for the tool's.             *)
LEMMA QuadIsWord ==
  ASSUME NEW n \in Nat, n % QuadBytes = 0
  PROVE  n % WordBytes = 0
<1>1. WordBytes \in Nat /\ WordBytes >= 1 /\ QuadBytes = 2 * WordBytes
  BY PackerAssumption
<1> DEFINE d == n \div QuadBytes
           e == n \div WordBytes
           t == n % WordBytes
<1>2. d \in Nat /\ n = QuadBytes * d
  <2>1. QuadBytes \in Nat /\ QuadBytes >= 1  BY <1>1
  <2> QED  BY <2>1
<1>3. e \in Int /\ t \in 0 .. WordBytes - 1 /\ n = WordBytes * e + t  BY <1>1
<1> HIDE DEF d, e, t
<1>4. n = WordBytes * (2 * d)
  BY <1>1, <1>2
<1>5. t = WordBytes * (2 * d - e)  BY <1>1, <1>2, <1>3, <1>4
<1> DEFINE g == 2 * d - e
<1>6. g \in Int /\ t = WordBytes * g  BY <1>2, <1>3, <1>5
<1> HIDE DEF g
<1>7. CASE g >= 1
  <2>1. WordBytes * g >= WordBytes  BY <1>1, <1>6, <1>7
  <2> QED  BY <1>1, <1>3, <1>6, <2>1
<1>8. CASE g <= -1
  <2>1. WordBytes * g <= -1  BY <1>1, <1>6, <1>8
  <2> QED  BY <1>1, <1>3, <1>6, <2>1
<1>9. CASE g = 0
  <2>1. t = 0  BY <1>1, <1>6, <1>9
  <2> QED  BY <2>1 DEF t
<1> QED  BY <1>6, <1>7, <1>8, <1>9

(* Both searches come to starter's header first.                           *)
LEMMA FoundInStarter ==
  ASSUME PackerInv, SizesKept, StarterHasHeader, package.state = "new",
         \A f \in Files : file_name[f] = Asked(f),
         Holding(4), Sum(fsize) <= Len(package.data),
         NEW step \in {WordBytes, QuadBytes}, NEW last \in Int,
         boot_magic[Asked(0)] <= last
  PROVE  /\ boot_magic[Asked(0)] \in Hits(step, last)
         /\ \A p \in Hits(step, last) : p \in Nat /\ boot_magic[Asked(0)] <= p
<1> DEFINE at == boot_magic[Asked(0)]
<1>1. 0 \in Files /\ Asked(0) \in Names  BY Typed DEF PackerInv, Files
<1>2. at \in Nat /\ at # 0 /\ (at - 1) % QuadBytes = 0
      /\ at + QuadBytes <= disk[Asked(0)] + 1
  BY <1>1, PackerAssumption DEF PackerInv, TypeInv, StarterHasHeader
<1>3. fsize[0] = disk[Asked(0)] /\ fsize[0] \in Nat
  BY <1>1, NothingCut, Typed DEF PackerInv
<1>4. WordBytes \in Nat \ {0} /\ QuadBytes = 2 * WordBytes  BY PackerAssumption
<1>5. at <= fsize[0]  BY <1>2, <1>3, <1>4
<1>6. fsize[0] <= Len(package.data) /\ Len(package.data) \in Nat
  <2>1. /\ fsize \in [Files -> Nat] /\ Len(package.data) \in Nat
    BY Typed DEF PackerInv
  <2>2. StartOf(fsize, 0) + fsize[0] <= Sum(fsize) /\ StartOf(fsize, 0) = 0
        /\ Sum(fsize) \in Nat
    BY <1>1, <2>1, Starts DEF StartOf
  <2> QED  BY <1>3, <2>1, <2>2
<1>7. ASSUME NEW i \in 1 .. fsize[0]  PROVE package.data[i] = <<Asked(0), i>>
  <2>1. StartOf(fsize, 0) + i = i  BY <1>3 DEF StartOf
  <2>2. package.data[StartOf(fsize, 0) + i] = <<file_name[0], i>>
    BY <1>1 DEF Holding
  <2> QED  BY <1>1, <2>1, <2>2
<1>8. DOMAIN package.data = 1 .. Len(package.data)  BY Typed DEF PackerInv
<1>9. (at - 1) % step = 0
  <2>1. at - 1 \in Nat  BY <1>2
  <2> QED  BY <1>2, <2>1, QuadIsWord
<1> HIDE DEF at
<1>10. at \in 1 .. fsize[0]  BY <1>2, <1>3, <1>5
<1>11. MagicAt(at)  BY <1>1, <1>7, <1>10 DEF MagicAt, at
<1>12. at \in Hits(step, last)
  <2>1. at \in DOMAIN package.data  BY <1>3, <1>6, <1>8, <1>10
  <2>2. at <= last  BY DEF at
  <2> QED  BY <1>9, <1>11, <2>1, <2>2 DEF Hits
<1>13. ASSUME NEW p \in Hits(step, last), p < at  PROVE FALSE
  <2>1. p \in 1 .. Len(package.data) /\ MagicAt(p)  BY <1>8 DEF Hits
  <2>2. p \in 1 .. fsize[0]  BY <1>3, <1>5, <1>6, <1>13, <2>1, <1>2
  <2>3. package.data[p] = <<Asked(0), p>>  BY <1>7, <2>2
  <2>4. p = at  BY <2>1, <2>3 DEF MagicAt, at
  <2> QED  BY <1>2, <1>13, <2>4
<1>14. \A p \in Hits(step, last) : p \in Nat  BY <1>6, <1>8 DEF Hits
<1>15. \A p \in Hits(step, last) : at <= p  BY <1>2, <1>13, <1>14
<1> QED  BY <1>12, <1>14, <1>15 DEF at

(* The package is read back whole, so no append had failed.                *)
LEMMA UpdateBootHeaderInv == ASSUME PackerInv, UpdateBootHeader PROVE PackerInv'
<1>1. CASE Fail("boot_header")
  BY <1>1, EndInv DEF Fail, Step, Ended
<1>2. CASE ~Fail("boot_header")
  <2> DEFINE size == Align4K(Total)
  <2>0. PICK at \in HitsOfPacker :
          /\ FirstHit(at)
          /\ package' \in HeaderWritten([package EXCEPT !.boot = size, !.boot_at = at],
                                        package)
    BY <1>2 DEF UpdateBootHeader
  <2>1. /\ pc = "boot_header" /\ pc' = "pad" /\ ReadBack
        /\ package' \in HeaderWritten([package EXCEPT !.boot = size, !.boot_at = at],
                                      package)
        /\ UNCHANGED <<given, cmd_idx, file_name, fsize, offset, next, ferror>>
    BY <1>2, <2>0 DEF UpdateBootHeader, Step, files
  <2>2. package \in Packages  BY DEF PackerInv, TypeInv
  <2>3. fsize \in [Files -> Nat] /\ Len(package.data) \in Nat
        /\ DOMAIN package.data = 1 .. Len(package.data)
    BY Typed DEF PackerInv
  <2>4. /\ Sum(fsize) \in Nat /\ EndOf(4) = Sum(fsize) /\ Total \in Nat
        /\ size \in Nat /\ (Unwrapped => Total = Sum(fsize))
    BY <2>3, Starts, TotalIs, AlignBounds
  <2>5. at \in Nat  BY <2>3 DEF HitsOfPacker, Hits
  <2> HIDE DEF size
  <2>6. /\ package'.data = package.data /\ package'.state = package.state
        /\ package'.mapping = package.mapping
        /\ (~HeaderWritesFail => package'.boot = size)
        /\ (package'.boot = package.boot \/ package'.boot_at = at)
        /\ package' \in Packages
    BY <2>1, <2>2, <2>4, <2>5 DEF HeaderWritten, Packages
  <2>7. TypeInv'  BY <2>1, <2>6 DEF PackerInv, TypeInv
  <2>8. NamesInv' /\ SizesInv' /\ TotalInv' /\ Total' = Total /\ Mapping' = Mapping
        /\ Sum(fsize)' = Sum(fsize) /\ Unwrapped' = Unwrapped
    BY <2>1, TablesInv DEF files, Ended
  <2>9. /\ Gathered /\ next = 4 /\ package.state = "new" /\ package.boot = 0
        /\ (Unwrapped => Len(package.data) <= Sum(fsize))
    BY <2>1 DEF PackerInv, PackageInv, Begun, Ended
  <2>10. Unwrapped => Holding(4) /\ Len(package.data) = Sum(fsize)
    BY <2>1, <2>3, <2>4, <2>9 DEF Gathered, ReadBack
  <2>11. Unwrapped => Len(package'.data) = Sum(fsize)' /\ Holding(4)'
    BY <2>1, <2>6, <2>8, <2>10, SameBytes DEF files
  <2>12. PackageInv'
    BY <2>1, <2>4, <2>6, <2>8, <2>9, <2>11 DEF PackageInv, Begun, Ended
  <2>13. HeadersInv' /\ pc' \in Pcs
    <3>1. ~HeaderWritesFail => package'.mapping = Mapping'
      BY <2>1, <2>6, <2>8 DEF PackerInv, HeadersInv
    <3>2. Align4K(Total)' = Align4K(Total)  BY <2>8 DEF Align4K
    <3> QED  BY <2>1, <2>6, <3>1, <3>2 DEF HeadersInv, Pcs, Begun, size
  <2>14. BootAtInv'
    <3>1. SUFFICES ASSUME SizesKept, StarterHasHeader, package'.boot # 0
                   PROVE  package'.boot_at = boot_magic[Asked(0)]
      <4>1. Asked(0)' = Asked(0) /\ SizesKept' = SizesKept
            /\ StarterHasHeader' = StarterHasHeader
        BY <2>1, AskedUnchanged DEF Files
      <4> QED  BY <2>1, <3>1, <4>1 DEF BootAtInv
    <3>2. package'.boot_at = at  BY <2>6, <2>9, <3>1
    <3>3. \A f \in Files : file_name[f] = Asked(f)
      BY <2>1 DEF PackerInv, NamesInv, Ended
    <3>4. Unwrapped /\ Total = Sum(fsize)
          /\ \A f \in Files : fsize[f] = disk[Asked(f)]
      BY <2>9, <3>1, <3>3, NothingCut
    <3>5. boot_magic[Asked(0)] <= Total - WordBytes
      <4>1. 0 \in Files /\ Asked(0) \in Names  BY <3>3, Typed DEF PackerInv, Files
      <4>2. boot_magic[Asked(0)] \in Nat
            /\ boot_magic[Asked(0)] + QuadBytes <= fsize[0] + 1
        BY <3>1, <3>4, <4>1, PackerAssumption DEF PackerInv, TypeInv, StarterHasHeader
      <4>3. fsize[0] \in Nat /\ fsize[0] <= Sum(fsize)
        <5>1. StartOf(fsize, 0) + fsize[0] <= Sum(fsize) /\ StartOf(fsize, 0) = 0
          BY <2>3, <4>1, Starts DEF StartOf
        <5> QED  BY <2>3, <4>1, <5>1
      <4>4. WordBytes \in Nat \ {0} /\ QuadBytes = 2 * WordBytes
        BY PackerAssumption
      <4> QED  BY <2>4, <3>4, <4>2, <4>3, <4>4
    <3>6. Total - WordBytes \in Int  BY <2>4, PackerAssumption
    <3>7. Holding(4) /\ Sum(fsize) <= Len(package.data)  BY <2>3, <2>10, <3>4
    <3> DEFINE last == Total - WordBytes
    <3>8. /\ boot_magic[Asked(0)] \in Hits(WordBytes, last)
          /\ \A p \in Hits(WordBytes, last) : p \in Nat /\ boot_magic[Asked(0)] <= p
      <4>1. last \in Int /\ boot_magic[Asked(0)] <= last  BY <3>5, <3>6
      <4> HIDE DEF last
      <4> QED  BY <2>9, <3>1, <3>3, <3>7, <4>1, FoundInStarter
    <3>9. at \in Hits(WordBytes, last) /\ \A p \in Hits(WordBytes, last) : at <= p
      BY <2>0 DEF HitsOfPacker, FirstHit
    <3>10. boot_magic[Asked(0)] <= at /\ at <= boot_magic[Asked(0)]
           /\ boot_magic[Asked(0)] \in Nat
      BY <3>8, <3>9
    <3> QED  BY <2>5, <3>2, <3>10
  <2> QED  BY <2>7, <2>8, <2>12, <2>13, <2>14 DEF PackerInv
<1> QED  BY <1>1, <1>2

(* The zeros up to the end of the last page.                               *)
LEMMA PadPackageInv == ASSUME PackerInv, PadPackage PROVE PackerInv'
<1>1. CASE Fail("pad")
  BY <1>1, EndInv DEF Fail, Step, Ended
<1>2. CASE ~Fail("pad")
  <2>1. /\ pc = "pad" /\ pc' = "success"
        /\ package' = [package EXCEPT !.data = package.data \o Padding(PadBytes)]
        /\ UNCHANGED <<given, cmd_idx, file_name, fsize, offset,
                       next, ferror>>
    BY <1>2 DEF PadPackage, Step, files
  <2>2. package \in Packages
    BY DEF PackerInv, TypeInv
  <2>3. fsize \in [Files -> Nat] /\ package.data \in Seq(Bytes)
        /\ Len(package.data) \in Nat
    BY Typed DEF PackerInv
  <2>4. /\ Sum(fsize) \in Nat /\ EndOf(4) = Sum(fsize) /\ Total \in Nat
        /\ Align4K(Total) \in Nat /\ Total <= Align4K(Total)
        /\ (Unwrapped => Total = Sum(fsize))
    BY <2>3, Starts, TotalIs, AlignBounds
  <2>5. NamesInv' /\ SizesInv' /\ TotalInv' /\ Total' = Total /\ Mapping' = Mapping
        /\ Sum(fsize)' = Sum(fsize) /\ Unwrapped' = Unwrapped
    BY <2>1, TablesInv DEF files, Ended
  <2>6. /\ package.state = "new"
        /\ (Unwrapped => Holding(4) /\ Len(package.data) = Sum(fsize))
    BY <2>1, <2>3, <2>4 DEF PackerInv, PackageInv, Begun, Ended
  <2>7. PadBytes \in Nat /\ PadBytes = Align4K(Total) - Total  BY <2>4 DEF PadBytes
  <2>8. Padding(PadBytes) \in Seq(Bytes) /\ Len(Padding(PadBytes)) = PadBytes
    <3>1. NoByte \in Bytes  BY DEF NoByte, Bytes
    <3> QED  BY <2>7, <3>1 DEF Padding
  <2> DEFINE zeros == Padding(PadBytes)
  <2> HIDE DEF zeros
  <2>9. zeros \in Seq(Bytes) /\ Len(zeros) = PadBytes
        /\ package' = [package EXCEPT !.data = package.data \o zeros]
    BY <2>1, <2>8 DEF zeros
  <2>10. /\ package.data \o zeros \in Seq(Bytes)
         /\ Len(package.data \o zeros) = Len(package.data) + Len(zeros)
         /\ \A i \in 1 .. Len(package.data) + Len(zeros) : (package.data \o zeros)[i] =
              IF i <= Len(package.data) THEN package.data[i]
              ELSE zeros[i - Len(package.data)]
    BY <2>3, <2>9, ConcatProperties
  <2>11. /\ package'.data = package.data \o zeros /\ package'.state = package.state
         /\ package'.mapping = package.mapping /\ package'.boot = package.boot
         /\ package'.boot_at = package.boot_at /\ package' \in Packages
    BY <2>2, <2>9, <2>10 DEF Packages
  <2>12. Align4K(Total)' = Align4K(Total)  BY <2>5 DEF Align4K
  <2>13. Unwrapped => Len(package'.data) = Align4K(Total)'
    BY <2>4, <2>6, <2>7, <2>9, <2>10, <2>11, <2>12
  <2>14. ASSUME Unwrapped  PROVE Holding(4)'
    <3>1. SUFFICES ASSUME NEW f \in Files, NEW i \in 1 .. fsize[f]
                   PROVE  package'.data[StartOf(fsize, f) + i] = <<file_name[f], i>>
      BY <2>1 DEF Holding, StartOf
    <3>2. /\ StartOf(fsize, f) \in Nat /\ fsize[f] \in Nat
          /\ StartOf(fsize, f) + fsize[f] <= Sum(fsize)
      <4>1. /\ StartOf(fsize, f) \in Nat
            /\ EndOf(f + 1) = StartOf(fsize, f) + fsize[f]
            /\ EndOf(f + 1) <= Sum(fsize)
        BY <2>3, Starts
      <4> QED  BY <2>3, <4>1
    <3>3. StartOf(fsize, f) + i \in 1 .. Len(package.data)  BY <2>4, <2>6, <2>14, <3>2
    <3>4. package.data[StartOf(fsize, f) + i] = <<file_name[f], i>>
      BY <2>6, <2>14 DEF Holding, Files
    <3>5. package'.data[StartOf(fsize, f) + i] = package.data[StartOf(fsize, f) + i]
      BY <2>3, <2>7, <2>9, <2>10, <2>11, <3>3
    <3> QED  BY <3>4, <3>5
  <2>15. TypeInv'  BY <2>1, <2>11 DEF PackerInv, TypeInv
  <2>16. PackageInv'
    BY <2>1, <2>4, <2>5, <2>6, <2>11, <2>12, <2>13, <2>14 DEF PackageInv, Begun, Ended
  <2>17. HeadersInv' /\ pc' \in Pcs
    <3>1. ~HeaderWritesFail => /\ package'.mapping = Mapping'
                               /\ package'.boot = Align4K(Total)'
      BY <2>1, <2>5, <2>11, <2>12 DEF PackerInv, HeadersInv
    <3> QED  BY <2>1, <3>1 DEF HeadersInv, Pcs, Begun
  <2>18. BootAtInv'  BY <2>1, <2>11, BootAtKept
  <2> QED  BY <2>5, <2>15, <2>16, <2>17, <2>18 DEF PackerInv
<1> QED  BY <1>1, <1>2

-----------------------------------------------------------------------------
(* How far the package is, for every command line and every file.          *)
THEOREM PackerInductive == Spec => []PackerInv
<1>1. Init => PackerInv  BY InitInv
<1>2. PackerInv /\ [Next]_vars => PackerInv'
  <2> SUFFICES ASSUME PackerInv, [Next]_vars  PROVE PackerInv'  OBVIOUS
  <2>1. CASE ParseOption  BY <2>1, ParseOptionInv
  <2>2. CASE CmdlineParsed  BY <2>2, CmdlineParsedInv
  <2>3. CASE UpdateFileInfo  BY <2>3, UpdateFileInfoInv
  <2>4. CASE CheckTotal  BY <2>4, CheckTotalInv
  <2>5. CASE CreatePackage  BY <2>5, CreatePackageInv
  <2>6. CASE AppendFile  BY <2>6, AppendFileInv
  <2>7. CASE UpdateFileHeader  BY <2>7, UpdateFileHeaderInv
  <2>8. CASE UpdateBootHeader  BY <2>8, UpdateBootHeaderInv
  <2>9. CASE PadPackage  BY <2>9, PadPackageInv
  <2>10. CASE UNCHANGED vars
    <3>1. TypeInv' /\ pc' \in Pcs  BY <2>10 DEF vars, PackerInv, TypeInv
    <3>2. NamesInv'
      <4>1. \A f \in Files : Asked(f)' = Asked(f) /\ Uses(f)' = Uses(f)
        BY <2>10, AskedUnchanged DEF vars
      <4>2. \A f \in Files : Seen(f)' = Seen(f)  BY <2>10, <4>1 DEF vars, Seen
      <4>3. \A f \in Files : NamedSoFar(f)' = NamedSoFar(f)
        BY <2>10, <4>2 DEF vars, NamedSoFar
      <4> QED  BY <2>10, <4>1, <4>3 DEF vars, PackerInv, NamesInv
    <3>3. SizesInv' /\ TotalInv'
      BY <2>10
      DEF vars, PackerInv, SizesInv, StartOf, TotalInv, TotalFits, Total, Sum, UInt
    <3>4. PackageInv'
      <4>1. /\ Total' = Total /\ Align4K(Total)' = Align4K(Total)
            /\ EndOf(next)' = EndOf(next) /\ Sum(fsize)' = Sum(fsize)
            /\ Unwrapped' = Unwrapped
        BY <2>10 DEF vars, Total, Sum, UInt, Unwrapped, Align4K, EndOf, StartOf
      <4>2. Holding(4)' = Holding(4) /\ Holding(next)' = Holding(next)
        BY <2>10 DEF vars, Holding, StartOf
      <4>3. Gathered' = Gathered  BY <2>10, <4>1, <4>2 DEF vars, Gathered
      <4> QED  BY <2>10, <4>1, <4>2, <4>3 DEF vars, PackerInv, PackageInv
    <3>5. HeadersInv'
      BY <2>10 DEF vars, PackerInv, HeadersInv, Mapping, Total, Sum, UInt, Align4K
    <3>6. BootAtInv'  BY <2>10, BootAtKept DEF vars
    <3> QED  BY <3>1, <3>2, <3>3, <3>4, <3>5, <3>6 DEF PackerInv
  <2> QED
    BY <2>1, <2>2, <2>3, <2>4, <2>5, <2>6, <2>7, <2>8, <2>9, <2>10 DEF Next
<1> QED  BY <1>1, <1>2, PTL DEF Spec

(* The new package fits in the loader's memory whatever fails, if the sum  *)
(* of the sizes in the table, which is compared with it, does not wrap     *)
(* (xmon_packer.c:264-279).                                                *)
THEOREM PackageFits == Spec => []FitsLoaderBin
<1>1. PackerInv => FitsLoaderBin
  <2> SUFFICES ASSUME PackerInv, package.state = "new", Unwrapped
               PROVE  Len(package.data) <= LoaderBinSize
    BY DEF FitsLoaderBin, Unwrapped
  <2>1. fsize \in [Files -> Nat] /\ Len(package.data) \in Nat
    BY Typed DEF PackerInv
  <2>2. Total \in Nat /\ LoaderBinSize \in Nat /\ Total = Sum(fsize)
    BY <2>1, TotalIs, PackerAssumption
  <2>3. Total <= LoaderBinSize  BY DEF PackerInv, TotalInv, TotalFits
  <2>4. Align4K(Total) <= LoaderBinSize  BY <2>2, <2>3, AlignFits
  <2>5. Len(package.data) = Align4K(Total) \/ Len(package.data) <= Total
    BY <2>2 DEF PackerInv, PackageInv
  <2> QED  BY <2>1, <2>2, <2>3, <2>4, <2>5
<1> QED  BY <1>1, PackerInductive, PTL

(* What the file mapping header says, when it was written.                 *)
LEMMA MappingRight ==
  ASSUME PackerInv, package.state = "new", package.mapping = Mapping
  PROVE  StarterAccepts
<1>1. \A f \in Files : fsize[f] # 0  BY DEF PackerInv, SizesInv
<1>2. \A b \in Binaries : b \in Files /\ fsize[b] # 0  BY <1>1 DEF Binaries
<1>3. Mapping.flags = Binaries  BY <1>2 DEF Mapping
<1>4. \A b \in Binaries : Mapping.files[b][2] # 0  BY <1>2 DEF Mapping
<1> QED  BY <1>3, <1>4 DEF StarterAccepts

(* What preload goes on with is whole and is what was asked for, even when *)
(* the tool fails or is killed, if every header that is written reaches    *)
(* the disk, the files are shorter than 4 GB together and the --starter    *)
(* file is one of starter.S.                                               *)
THEOREM AcceptedWhole == ~HeaderWritesFail => (Spec => []AcceptedIsWhole)
<1> SUFFICES ASSUME ~HeaderWritesFail PROVE Spec => []AcceptedIsWhole  OBVIOUS
<1>1. PackerInv => AcceptedIsWhole
  <2> SUFFICES ASSUME PackerInv, SizesKept, StarterHasHeader, PreloadAccepts
               PROVE  /\ StarterAccepts
                      /\ \A b \in Binaries :
                           BinaryFound(b) = FileBytes(Asked(b), disk[Asked(b)])
    BY DEF AcceptedIsWhole
  <2>1. package.state = "new" /\ package.boot # 0  BY DEF PreloadAccepts
  <2>2. package.mapping = Mapping  BY <2>1 DEF PackerInv, HeadersInv
  <2>3. StarterAccepts  BY <2>1, <2>2, MappingRight
  <2>4. \A f \in Files : file_name[f] = Asked(f)
    BY <2>1 DEF PackerInv, NamesInv
  <2>5. /\ Unwrapped
        /\ \A f \in Files : fsize[f] = disk[Asked(f)] /\ offset[f] = StartOf(fsize, f)
    BY <2>1, <2>4, NothingCut
  <2>6. fsize \in [Files -> Nat] /\ package.data \in Seq(Bytes)
        /\ Len(package.data) \in Nat /\ DOMAIN package.data = 1 .. Len(package.data)
    BY Typed DEF PackerInv
  <2>7. Holding(4) /\ Sum(fsize) <= Len(package.data)
    BY <2>1, <2>5 DEF PackerInv, PackageInv
  <2>8. package.boot_at \in Nat /\ package.boot_at <= fsize[0]
    <3>1. 0 \in Files /\ Asked(0) \in Names  BY <2>4, Typed DEF PackerInv, Files
    <3>2. package.boot_at = boot_magic[Asked(0)]  BY <2>1 DEF PackerInv, BootAtInv
    <3>3. boot_magic[Asked(0)] \in Nat
          /\ boot_magic[Asked(0)] + QuadBytes <= fsize[0] + 1
      BY <2>5, <3>1, PackerAssumption DEF PackerInv, TypeInv, StarterHasHeader
    <3>4. QuadBytes \in Nat /\ QuadBytes >= 1  BY PackerAssumption
    <3> QED  BY <2>6, <3>1, <3>2, <3>3, <3>4
  <2>9. ASSUME NEW b \in Binaries
        PROVE  BinaryFound(b) = FileBytes(Asked(b), disk[Asked(b)])
    <3>1. b \in Files /\ 0 \in Files /\ b >= 1 /\ b < 4  BY DEF Binaries, Files
    <3>2. /\ StartOf(fsize, b) \in Nat /\ fsize[b] \in Nat /\ Sum(fsize) \in Nat
          /\ StartOf(fsize, b) + fsize[b] <= Sum(fsize)
      <4>1. /\ StartOf(fsize, b) \in Nat /\ Sum(fsize) \in Nat
            /\ EndOf(b + 1) = StartOf(fsize, b) + fsize[b] /\ EndOf(b + 1) <= Sum(fsize)
        BY <2>6, <3>1, Starts
      <4> QED  BY <2>6, <3>1, <4>1
    <3>3. fsize[0] <= StartOf(fsize, b) /\ fsize[0] \in Nat
      <4>1. fsize[0] \in Nat /\ fsize[1] \in Nat /\ fsize[2] \in Nat
        BY <2>6 DEF Files
      <4> QED  BY <3>1, <4>1 DEF StartOf, Files
    <3>4. ASSUME NEW i \in 1 .. fsize[b]
          PROVE  ByteAt(StartOf(fsize, b) + i) = <<Asked(b), i>>
      <4>1. StartOf(fsize, b) + i \in DOMAIN package.data
        BY <2>6, <2>7, <3>2
      <4>2. StartOf(fsize, b) + i # package.boot_at  BY <2>8, <3>2, <3>3
      <4>3. package.data[StartOf(fsize, b) + i] = <<Asked(b), i>>
        BY <2>4, <2>7, <3>1 DEF Holding
      <4> QED  BY <4>1, <4>2, <4>3 DEF ByteAt
    <3>5. package.mapping.files[b] = <<StartOf(fsize, b), fsize[b]>>
      BY <2>2, <2>5, <3>1 DEF Mapping
    <3>6. BinaryFound(b) = [i \in 1 .. fsize[b] |-> ByteAt(StartOf(fsize, b) + i)]
      BY <3>5 DEF BinaryFound
    <3>7. BinaryFound(b) = [i \in 1 .. fsize[b] |-> <<Asked(b), i>>]
      BY <3>4, <3>6
    <3> QED  BY <2>5, <3>1, <3>7 DEF FileBytes
  <2> QED  BY <2>3, <2>9
<1> QED  BY <1>1, PackerInductive, PTL

(* The message of success is true under the same conditions.               *)
THEOREM SuccessIsTrue == ~HeaderWritesFail => (Spec => []SuccessBoots)
<1> SUFFICES ASSUME ~HeaderWritesFail PROVE Spec => []SuccessBoots  OBVIOUS
<1>1. PackerInv => SuccessBoots
  <2> SUFFICES ASSUME PackerInv, pc = "success", SizesKept, StarterHasHeader
               PROVE  /\ PreloadAccepts /\ StarterAccepts
                      /\ package.boot = Len(package.data)
                      /\ Len(package.data) % PageBytes = 0
    BY DEF SuccessBoots
  <2>1. package.state = "new"  BY DEF PackerInv, PackageInv, Begun, Ended
  <2>2. package.mapping = Mapping /\ package.boot = Align4K(Total)
    BY DEF PackerInv, HeadersInv
  <2>3. \A f \in Files : file_name[f] = Asked(f)
    BY DEF PackerInv, NamesInv, Ended
  <2>4. /\ Unwrapped /\ Total = Sum(fsize)
        /\ \A f \in Files : fsize[f] = disk[Asked(f)]
    BY <2>1, <2>3, NothingCut
  <2>5. Len(package.data) = Align4K(Total)  BY <2>1, <2>4 DEF PackerInv, PackageInv
  <2>6. fsize \in [Files -> Nat] /\ Len(package.data) \in Nat
    BY Typed DEF PackerInv
  <2>7. Total \in Nat /\ Total # 0
    <3>1. fsize[0] # 0  BY <2>1 DEF PackerInv, SizesInv, Files
    <3>2. /\ fsize[0] \in Nat /\ fsize[1] \in Nat /\ fsize[2] \in Nat /\ fsize[3] \in Nat
      BY <2>6 DEF Files
    <3> QED  BY <2>4, <3>1, <3>2 DEF Sum
  <2>8. Align4K(Total) \in Nat /\ Total <= Align4K(Total)
        /\ Align4K(Total) % PageBytes = 0
    BY <2>7, AlignBounds
  <2>9. PreloadAccepts
    <3> DEFINE at == boot_magic[Asked(0)]
               last == Len(package.data)
    <3>1. package.boot # 0  BY <2>2, <2>7, <2>8
    <3>2. package.boot_at = at  BY <3>1 DEF PackerInv, BootAtInv
    <3>3. Holding(4) /\ Sum(fsize) <= last  BY <2>4 DEF PackerInv, PackageInv
    <3>4. at <= last
      <4>1. 0 \in Files /\ Asked(0) \in Names  BY <2>3, Typed DEF PackerInv, Files
      <4>2. at \in Nat /\ at + QuadBytes <= fsize[0] + 1
        BY <2>4, <4>1, PackerAssumption DEF PackerInv, TypeInv, StarterHasHeader
      <4>3. fsize[0] \in Nat /\ fsize[0] <= Sum(fsize) /\ Sum(fsize) \in Nat
        <5>1. StartOf(fsize, 0) + fsize[0] <= Sum(fsize) /\ StartOf(fsize, 0) = 0
              /\ Sum(fsize) \in Nat
          BY <2>6, <4>1, Starts DEF StartOf
        <5> QED  BY <2>6, <4>1, <5>1
      <4>4. QuadBytes \in Nat /\ QuadBytes >= 1  BY PackerAssumption
      <4> QED  BY <2>6, <3>3, <4>2, <4>3, <4>4
    <3>5. last \in Int  BY <2>6
    <3> HIDE DEF last
    <3>6. at \in Hits(QuadBytes, last)
          /\ \A p \in Hits(QuadBytes, last) : p \in Nat /\ at <= p
      BY <2>1, <2>3, <3>3, <3>4, <3>5, FoundInStarter DEF last
    <3> QED  BY <2>1, <3>1, <3>2, <3>6 DEF PreloadAccepts, HitsOfPreload, last
  <2>10. StarterAccepts  BY <2>1, <2>2, MappingRight
  <2> QED  BY <2>2, <2>5, <2>8, <2>9, <2>10
<1> QED  BY <1>1, PackerInductive, PTL
=============================================================================
