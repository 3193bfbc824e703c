--------------------------- MODULE ConsoleProofs ---------------------------
(***************************************************************************)
(* For every UART that firmware may leave, every size of its FIFO, every   *)
(* command line, table of options and sequence of calls:                   *)
(*  - the port is set up, and no character is lost, though                 *)
(*    loader_serial_putc does not look at LSR before it writes.  The       *)
(*    argument is SerialInv: how far the writes of loader_serial_init have *)
(*    come, and that the transmitter is empty whenever the program is      *)
(*    ready for the next character;                                        *)
(*  - every line printed can be read on the screen (ScreenInv), every      *)
(*    number printed can be read back from the line (PrintedInv), the port *)
(*    is the number written (PortFixed), and parse_cmdline gives every     *)
(*    option what the line says of it (ReadInv).                           *)
(* What these functions compute is recursive, over the characters of a     *)
(* text; the first lemmas are the induction that the proofs go by.         *)
(***************************************************************************)
EXTENDS Console, SequenceTheorems, FiniteSetTheorems, TLAPS

-----------------------------------------------------------------------------
(* Induction from m to n, for a set of numbers: if one were missing, the   *)
(* numbers below it that are in the set would map one to one into one less *)
(* of them.                                                                *)
LEMMA IntervalInduction ==
  ASSUME NEW m \in Int, NEW n \in Int, m <= n,
         NEW T, m \in T,
         \A k \in m .. n : k # m /\ k - 1 \in T => k \in T
  PROVE  \A k \in m .. n : k \in T
<1>1. SUFFICES ASSUME NEW bad \in m .. n, bad \notin T
               PROVE  FALSE
  OBVIOUS
<1> DEFINE low  == T \cap (m .. bad - 1)
           rest == low \ {m}
           next == [k \in low |-> k + 1]
<1>2. IsFiniteSet(low) /\ low \subseteq Int
  <2>1. IsFiniteSet(m .. bad - 1)  BY FS_Interval
  <2> QED  BY <2>1, FS_Subset
<1>3. m \in low  BY <1>1
<1>4. next \in [low -> rest]
  <2> SUFFICES ASSUME NEW k \in low PROVE k + 1 \in rest  OBVIOUS
  <2>1. k \in T /\ k \in m .. n /\ k < bad  BY <1>1
  <2>2. k + 1 \in T
    <3>1. k + 1 \in m .. n /\ k + 1 # m /\ (k + 1) - 1 = k  BY <2>1, <1>1
    <3> QED  BY <2>1, <3>1
  <2> QED  BY <2>1, <2>2, <1>1
<1>5. /\ IsFiniteSet(rest)
      /\ Cardinality(rest) = Cardinality(low) - 1 /\ Cardinality(low) \in Nat
  BY <1>2, <1>3, FS_RemoveElement, FS_CardinalityType
<1> HIDE DEF low, rest
<1>6. PICK x \in low, y \in low : x # y /\ next[x] = next[y]
  <2>1. Cardinality(rest) < Cardinality(low)  BY <1>5
  <2> HIDE DEF next
  <2> QED  BY <1>2, <1>4, <1>5, <2>1, FS_PigeonHole
<1> QED  BY <1>2, <1>6

Recursive(f, m, n, c, d) ==
  f = [k \in m .. n |-> IF k = m THEN c ELSE d[k][f[k - 1]]]

LEMMA RecursionExists ==
  ASSUME NEW m \in Int, NEW n \in Int, m <= n, NEW S, NEW c \in S,
         NEW d \in [m .. n -> [S -> S]]
  PROVE  \E f \in [m .. n -> S] : Recursive(f, m, n, c, d)
<1> DEFINE Good(f, j) ==
             \A k \in m .. j : f[k] = IF k = m THEN c ELSE d[k][f[k - 1]]
           T == {j \in m .. n : \E f \in [m .. j -> S] : Good(f, j)}
<1>1. m \in T
  <2> DEFINE g == [k \in m .. m |-> c]
  <2>1. g \in [m .. m -> S] OBVIOUS
  <2>2. Good(g, m) OBVIOUS
  <2>3. m \in m .. n OBVIOUS
  <2> HIDE DEF g, Good
  <2> QED  BY <2>1, <2>2, <2>3
<1>2. ASSUME NEW j \in m .. n, j # m, j - 1 \in T
      PROVE  j \in T
  <2>1. PICK f \in [m .. j - 1 -> S] : Good(f, j - 1)  BY <1>2
  <2> DEFINE g == [k \in m .. j |-> IF k = j THEN d[j][f[j - 1]] ELSE f[k]]
  <2>2. g \in [m .. j -> S]  
    <3>1. j - 1 \in m .. j - 1 BY <1>2
    <3>2. f[j-1] \in S BY <3>1
    <3>3. d[j][f[j-1]] \in S BY <3>2
    <3> QED BY <3>3
  <2>3. Good(g, j)
    <3> SUFFICES ASSUME NEW k \in m .. j
                 PROVE g[k] = IF k = m THEN c ELSE d[k][g[k - 1]]
      OBVIOUS
    <3>1. k # j => k \in m .. j - 1 /\ g[k] = f[k]  OBVIOUS
    <3>2. k # m => k - 1 \in m .. j - 1 /\ k - 1 \in m .. j /\ k - 1 # j  OBVIOUS
    <3>3. k # m => g[k - 1] = f[k - 1]  BY <3>2
    <3>4. k = j => g[k] = d[j][f[j - 1]]  OBVIOUS
    <3>5. k # j => f[k] = IF k = m THEN c ELSE d[k][f[k - 1]] BY <2>1, <3>1
    <3> HIDE DEF g
    <3> QED  BY <3>1, <3>3, <3>4, <3>5, <1>2
  <2> HIDE DEF g, Good
  <2> QED  BY <2>2, <2>3
<1>3. \A k \in m .. n : k \in T
  <2> HIDE DEF T
  <2> QED  BY <1>1, <1>2, IntervalInduction
<1>4. n \in T  BY <1>3
<1>5. PICK f \in [m .. n -> S] : Good(f, n)  BY <1>4
<1>6. f = [k \in m .. n |-> IF k = m THEN c ELSE d[k][f[k - 1]]]  BY <1>5
<1> QED  BY <1>6 DEF Recursive

(* A property of all values of a function that each value inherits from    *)
(* the one before.                                                         *)
LEMMA StaysIn ==
  ASSUME NEW m \in Int, NEW n \in Int, m <= n, NEW f, NEW S, f[m] \in S,
         \A k \in m .. n : k # m /\ f[k - 1] \in S => f[k] \in S
  PROVE  \A k \in m .. n : f[k] \in S
<1> DEFINE T == {k \in m .. n : f[k] \in S}
<1>1. m \in T  OBVIOUS
<1>2. ASSUME NEW k \in m .. n, k # m, k - 1 \in T PROVE k \in T
  BY <1>2
<1> HIDE DEF T
<1>3. \A k \in m .. n : k \in T  BY <1>1, <1>2, IntervalInduction
<1> QED  BY <1>3 DEF T

LEMMA Least ==
  ASSUME NEW m \in Int, NEW n \in Int, NEW S, S \subseteq m .. n, S # {}
  PROVE  \E k \in S : \A j \in S : k <= j
<1> SUFFICES ASSUME \A k \in S : \E j \in S : j < k
             PROVE  FALSE
  OBVIOUS
<1>1. PICK x \in S : x \in m .. n  OBVIOUS
<1> DEFINE T == {k \in m .. n : \A j \in m .. k : j \notin S}
<1>2. m \in T  OBVIOUS
<1>3. ASSUME NEW k \in m .. n, k # m, k - 1 \in T PROVE k \in T
  <2>1. \A j \in m .. k - 1 : j \notin S  BY <1>3
  <2>2. k \notin S  BY <2>1
  <2> QED  BY <2>1, <2>2
<1>4. m <= n  BY <1>1
<1> HIDE DEF T
<1>5. \A k \in m .. n : k \in T  BY <1>2, <1>3, <1>4, IntervalInduction
<1>6. x \in T  BY <1>1, <1>5
<1> QED  BY <1>1, <1>6 DEF T

-----------------------------------------------------------------------------
(* The port.                                                               *)
Good == <<1, TRUE>>
InOrder(s) == [k \in 1 .. Len(s) |-> <<s[k], Good>>]

(* What the UART's registers hold after the first writes.                  *)
SetUp(n) ==
  /\ n > 3 => uart.ier = 0
  /\ n > 2 /\ n < 7 => uart.lcr = 3
  /\ n > 6 /\ n < 10 => uart.lcr = 131
  /\ n > 7 => uart.dll = 1
  /\ n > 8 => uart.dlm = 0
  /\ n > 9 => uart.lcr = 3
  /\ n > 10 => uart.fcr = 7 /\ uart.fw = 0
  /\ n > 11 => uart.mcr = 3
Record == DOMAIN uart = {"there", "ier", "dll", "dlm", "fcr", "lcr", "mcr",
                          "fw", "tx"}

(* Everything given to loader_serial_putc is on the line, or all but the   *)
(* last character, which the program then waits for.                       *)
Delivered ==
  \/ uart.tx = <<>> /\ line = InOrder(sent)
  \/ /\ serial_pc = "wait"
     /\ \E c : uart.tx = <<c>> /\ Append(line, <<c, Good>>) = InOrder(sent)
Sequences == \E S : line \in Seq(S) /\ sent \in Seq(S)

Starting == serial_pc \in {"start", "init"}
Running  == serial_pc \in {"idle", "wait"}
SerialInv ==
  /\ uart.there \in BOOLEAN /\ Record
  /\ step \in 1 .. 12 /\ Sequences /\ uart.fw \in Nat
  /\ Starting \/ Running
  /\ serial_pc = "start" => step = 1
  /\ serial_pc = "init" => step < 12
  /\ Running /\ debug_port # 0 => step = 12
  /\ uart.there /\ (Starting \/ debug_port # 0) => SetUp(step)
  /\ uart.there /\ Starting => uart.tx = <<>> /\ line = <<>>
  /\ Starting => sent = <<>>
  /\ uart.there /\ Running /\ debug_port # 0 => Delivered

LEMMA Bits ==
  /\ Bit(3, 7) = 0 /\ Bit(131, 7) = 1
  /\ Bit(7, 2) = 1 /\ Bit(7, 0) = 1
  BY DEF Bit

LEMMA GoodSetting ==
  ASSUME uart.dlm = 0, uart.dll = 1, uart.lcr = 3
  PROVE  Setting(uart) = Good
<1>1. 256 * uart.dlm + uart.dll = 1  OBVIOUS
<1>2. (uart.lcr % 128 = 3) = TRUE  OBVIOUS
<1> QED  BY <1>1, <1>2, Zenon DEF Setting, Good

LEMMA Writes ==
  /\ Len(InitWrites) = 11
  /\ InitWrites[1] = <<"MCR", 0>> /\ InitWrites[2] = <<"LCR", 3>>
  /\ InitWrites[3] = <<"IER", 0>> /\ InitWrites[4] = <<"FCR", 0>>
  /\ InitWrites[5] = <<"SCR", 0>> /\ InitWrites[6] = <<"LCR", 131>>
  /\ InitWrites[7] = <<"DLL", 1>> /\ InitWrites[8] = <<"DLM", 0>>
  /\ InitWrites[9] = <<"LCR", 3>> /\ InitWrites[10] = <<"FCR", 7>>
  /\ InitWrites[11] = <<"MCR", 3>>
  BY DEF InitWrites

LEMMA InitInv == ConsoleInit => SerialInv
<1> SUFFICES ASSUME ConsoleInit PROVE SerialInv  OBVIOUS
<1>1. SerialInit  BY DEF ConsoleInit
<1>2. uart \in UartOf  BY <1>1, UartsAssumption DEF SerialInit
<1>3. Record /\ uart.there \in BOOLEAN /\ uart.fw \in Nat /\ uart.tx = <<>>
  BY <1>2, SerialAssumption DEF UartOf, Record
<1>4. Sequences  BY <1>1 DEF SerialInit, Sequences
<1> QED  BY <1>1, <1>3, <1>4 DEF SerialInv, SerialInit, SetUp, Starting, Running

(* Steps that do not touch the port: printing leaves its characters in     *)
(* out, and the command line and the screen are elsewhere.                 *)
portVars == <<debug_port, uart, line, serial_pc, step, sent>>
LEMMA QuietInv == ASSUME SerialInv, UNCHANGED portVars PROVE SerialInv'
<1>1. /\ debug_port' = debug_port /\ uart' = uart /\ line' = line
      /\ serial_pc' = serial_pc /\ step' = step /\ sent' = sent
  BY DEF portVars
<1>2. /\ Sequences' <=> Sequences
      /\ Record' <=> Record
      /\ SetUp(step)' <=> SetUp(step)
  BY <1>1 DEF Sequences, Record, SetUp
<1>3. Delivered' <=> Delivered  BY <1>1 DEF Delivered, InOrder
<1> QED  BY <1>1, <1>2, <1>3 DEF SerialInv, Starting, Running

LEMMA StartInv ==
  ASSUME SerialInv, NEW io_base, LoaderSerialInit(io_base)
  PROVE  SerialInv'
<1>1. /\ serial_pc = "start" /\ Starting /\ step = 1
      /\ UNCHANGED <<uart, line, step, sent>> /\ debug_port' = io_base
      /\ serial_pc' = IF io_base = 0 THEN "idle" ELSE "init"
  BY DEF LoaderSerialInit, SerialInv, Starting
<1>2. Record' /\ Sequences' /\ (SetUp(step) => SetUp(step)')
  BY <1>1 DEF SerialInv, Record, Sequences, SetUp
<1> QED  BY <1>1, <1>2 DEF SerialInv, Starting, Running

(* The writes of loader_serial_init, one after the other.                  *)
Same(fields) == \A f \in fields : uart'[f] = uart[f]
Registers == {"there", "ier", "dll", "dlm", "fcr", "lcr", "mcr", "fw", "tx"}
LEMMA OneRegister ==
  ASSUME Record, NEW f \in Registers, NEW value,
         uart' = [uart EXCEPT ![f] = value]
  PROVE  Record' /\ uart'[f] = value /\ Same(Registers \ {f})
  BY DEF Record, Registers, Same

LEMMA WriteInv ==
  ASSUME SerialInv, InitStep, uart.there
  PROVE  /\ SetUp(step)' /\ Record' /\ uart'.there = uart.there
         /\ uart'.fw \in Nat /\ uart'.tx = <<>>
<1> DEFINE value == InitWrites[step][2]
<1>1. /\ Record /\ SetUp(step) /\ uart.tx = <<>> /\ uart.fw \in Nat
      /\ step \in 1 .. 11 /\ step' = step + 1
      /\ uart' = WriteRegister(uart, InitWrites[step][1], value)
  BY DEF SerialInv, InitStep, Starting, Running
<1>2. CASE step \in {1, 11}
  <2>1. uart' = [uart EXCEPT !.mcr = value]
    BY <1>1, <1>2, Writes DEF WriteRegister
  <2>2. step = 11 => value = 3  BY Writes
  <2> HIDE DEF value
  <2>3. Record' /\ uart'.mcr = value /\ Same(Registers \ {"mcr"})
    BY <1>1, <2>1, OneRegister DEF Registers
  <2>4. /\ uart'.there = uart.there /\ uart'.ier = uart.ier
        /\ uart'.dll = uart.dll /\ uart'.dlm = uart.dlm
        /\ uart'.fcr = uart.fcr /\ uart'.lcr = uart.lcr
        /\ uart'.fw = uart.fw /\ uart'.tx = uart.tx
    BY <2>3 DEF Registers, Same
  <2> QED  BY <1>1, <1>2, <2>2, <2>3, <2>4 DEF SetUp
<1>3. CASE step \in {2, 6, 9}
  <2>1. uart' = [uart EXCEPT !.lcr = value]
    BY <1>1, <1>3, Writes DEF WriteRegister
  <2>2. (step \in {2, 9} => value = 3) /\ (step = 6 => value = 131)  BY Writes
  <2> HIDE DEF value
  <2>3. Record' /\ uart'.lcr = value /\ Same(Registers \ {"lcr"})
    BY <1>1, <2>1, OneRegister DEF Registers
  <2>4. /\ uart'.there = uart.there /\ uart'.ier = uart.ier
        /\ uart'.dll = uart.dll /\ uart'.dlm = uart.dlm
        /\ uart'.fcr = uart.fcr /\ uart'.mcr = uart.mcr
        /\ uart'.fw = uart.fw /\ uart'.tx = uart.tx
    BY <2>3 DEF Registers, Same
  <2> QED  BY <1>1, <1>3, <2>2, <2>3, <2>4 DEF SetUp
<1>4. CASE step \in {3, 7, 8}
  <2>1. PICK f \in {"ier", "dll", "dlm"} :
          /\ uart' = [uart EXCEPT ![f] = value]
          /\ step = 3 => f = "ier" /\ value = 0
          /\ step = 7 => f = "dll" /\ value = 1
          /\ step = 8 => f = "dlm" /\ value = 0
    <3>1. (step \in {7, 8} => Dlab(uart)) /\ (step = 3 => ~Dlab(uart))
      BY <1>1, Bits DEF SetUp, Dlab
    <3>2. CASE step = 3
      <4>1. value = 0 /\ uart' = [uart EXCEPT !.ier = value]
        BY <1>1, <3>1, <3>2, Writes DEF WriteRegister
      <4> QED  BY <3>2, <4>1
    <3>3. CASE step = 7
      <4>1. value = 1 /\ uart' = [uart EXCEPT !.dll = value]
        BY <1>1, <3>1, <3>3, Writes DEF WriteRegister
      <4> QED  BY <3>3, <4>1
    <3>4. CASE step = 8
      <4>1. value = 0 /\ uart' = [uart EXCEPT !.dlm = value]
        BY <1>1, <3>1, <3>4, Writes DEF WriteRegister
      <4> QED  BY <3>4, <4>1
    <3> QED  BY <1>4, <3>2, <3>3, <3>4
  <2> HIDE DEF value
  <2>3. Record' /\ uart'[f] = value /\ Same(Registers \ {f})
    BY <1>1, <2>1, OneRegister DEF Registers
  <2>4. /\ uart'.there = uart.there /\ uart'.fcr = uart.fcr
        /\ uart'.lcr = uart.lcr /\ uart'.mcr = uart.mcr
        /\ uart'.fw = uart.fw /\ uart'.tx = uart.tx
    BY <2>3 DEF Registers, Same
  <2>5. \A g \in {"ier", "dll", "dlm"} : g # f => uart'[g] = uart[g]
    BY <2>3 DEF Registers, Same
  <2>6. CASE step = 3
    <3>1. uart'.ier = 0  BY <2>1, <2>3, <2>6
    <3> QED  BY <1>1, <2>3, <2>4, <2>6, <3>1 DEF SetUp
  <2>7. CASE step = 7
    <3>1. uart'.dll = 1 /\ uart'.ier = uart.ier  BY <2>1, <2>3, <2>5, <2>7
    <3> QED  BY <1>1, <2>3, <2>4, <2>7, <3>1 DEF SetUp
  <2>8. CASE step = 8
    <3>1. /\ uart'.dlm = 0 /\ uart'.ier = uart.ier
          /\ uart'.dll = uart.dll
      BY <2>1, <2>3, <2>5, <2>8
    <3> QED  BY <1>1, <2>3, <2>4, <2>8, <3>1 DEF SetUp
  <2> QED  BY <1>4, <2>6, <2>7, <2>8
<1>5. CASE step \in {4, 10}
  <2>1. uart' = SetFcr(uart, value)
    BY <1>1, <1>5, Writes DEF WriteRegister
  <2>2. step = 10 => Empties(uart, value) /\ value = 7
    BY Bits, Writes DEF Empties
  <2> HIDE DEF value
  <2>3. /\ uart'.there = uart.there /\ uart'.ier = uart.ier
        /\ uart'.dll = uart.dll /\ uart'.dlm = uart.dlm
        /\ uart'.lcr = uart.lcr /\ uart'.mcr = uart.mcr
        /\ uart'.fcr = value
        /\ uart'.fw = IF Empties(uart, value) THEN 0 ELSE uart.fw
        /\ uart'.tx = IF Empties(uart, value) THEN <<>> ELSE uart.tx
        /\ Record'
    BY <1>1, <2>1 DEF SetFcr, Record
  <2> QED  BY <1>1, <1>5, <2>2, <2>3 DEF SetUp
<1>6. CASE step = 5
  <2>1. uart' = uart
    BY <1>1, <1>6, Writes DEF WriteRegister
  <2>2. Record'  BY <1>1, <2>1 DEF Record
  <2>3. SetUp(step)'  BY <1>1, <1>6, <2>1 DEF SetUp
  <2> QED  BY <1>1, <2>1, <2>2, <2>3
<1>7. step \in {1, 11} \/ step \in {2, 6, 9} \/ step \in {3, 7, 8}
      \/ step \in {4, 10} \/ step = 5
  BY <1>1
<1> QED  BY <1>1, <1>2, <1>3, <1>4, <1>5, <1>6, <1>7

LEMMA InitStepInv == ASSUME SerialInv, InitStep PROVE SerialInv'
<1>1. /\ Starting /\ step \in 1 .. 11 /\ step' = step + 1
      /\ UNCHANGED <<debug_port, line, sent>> /\ sent = <<>>
      /\ serial_pc' = IF step = 11 THEN "idle" ELSE "init"
  BY Writes DEF InitStep, SerialInv, Starting, Running
<1>2. Sequences'  BY <1>1 DEF SerialInv, Sequences
<1>3. CASE uart.there
  <2>1. /\ SetUp(step)' /\ Record' /\ uart'.there = uart.there
        /\ uart'.fw \in Nat /\ uart'.tx = <<>>
    BY <1>3, WriteInv
  <2>2. line' = <<>> /\ sent' = <<>>  BY <1>1, <1>3 DEF SerialInv
  <2>3. Delivered'  BY <2>1, <2>2 DEF Delivered, InOrder
  <2> QED  BY <1>1, <1>2, <2>1, <2>2, <2>3 DEF SerialInv, Starting, Running
<1>4. CASE ~uart.there
  <2>1. uart' = uart  BY <1>4 DEF InitStep, WriteRegister
  <2> QED  BY <1>1, <1>2, <1>4, <2>1 DEF SerialInv, Starting, Running, Record
<1> QED  BY <1>3, <1>4

-----------------------------------------------------------------------------
(* Sequences of characters, and of characters as they are on the line.     *)
LEMMA InOrderTyped ==
  ASSUME NEW S, NEW s \in Seq(S)
  PROVE  /\ Len(s) \in Nat
         /\ InOrder(s) \in Seq(S \X {Good}) /\ Len(InOrder(s)) = Len(s)
  BY DEF InOrder

LEMMA InOrderAppend ==
  ASSUME NEW S, NEW s \in Seq(S), NEW c \in S
  PROVE  Append(InOrder(s), <<c, Good>>) = InOrder(Append(s, c))
<1> DEFINE left == Append(InOrder(s), <<c, Good>>)
           right == InOrder(Append(s, c))
<1>1. Len(s) \in Nat /\ InOrder(s) \in Seq(S \X {Good}) /\ Len(InOrder(s)) = Len(s)
  BY InOrderTyped
<1>2. Append(s, c) \in Seq(S) /\ Len(Append(s, c)) = Len(s) + 1  OBVIOUS
<1>3. left \in Seq(S \X {Good}) /\ Len(left) = Len(s) + 1  BY <1>1
<1>4. right \in Seq(S \X {Good}) /\ Len(right) = Len(s) + 1
  BY <1>2, InOrderTyped
<1>5. ASSUME NEW k \in 1 .. Len(s) + 1
      PROVE  left[k] = right[k]
  <2>1. right[k] = <<Append(s, c)[k], Good>>  BY <1>2 DEF InOrder
  <2>2. CASE k = Len(s) + 1
    BY <1>1, <2>1, <2>2
  <2>3. CASE k \in 1 .. Len(s)
    <3>1. Append(s, c)[k] = s[k]  BY <2>3
    <3>2. left[k] = InOrder(s)[k]  BY <1>1, <2>3
    <3>3. InOrder(s)[k] = <<s[k], Good>>  BY <2>3 DEF InOrder
    <3> QED  BY <2>1, <3>1, <3>2, <3>3
  <2> QED  BY <2>2, <2>3, <1>1
<1> HIDE DEF left, right
<1>6. left = right  BY <1>3, <1>4, <1>5, SeqEqual
<1> QED  BY <1>6 DEF left, right

LEMMA SequencesGrow ==
  ASSUME NEW S, NEW T, NEW s \in Seq(S), S \subseteq T
  PROVE  s \in Seq(T)
  OBVIOUS

(* After the set-up there is room for a character when nothing is held.    *)
LEMMA ThereIsRoom ==
  ASSUME SetUp(12), uart.there, uart.tx = <<>>, NEW c
  PROVE  WriteThr(uart, c) = [uart EXCEPT !.tx = <<c>>]
<1>1. uart.lcr = 3 /\ uart.fcr = 7 /\ uart.fw = 0  BY DEF SetUp
<1>2. ~Dlab(uart) /\ Room(uart) = FifoSize  BY <1>1, Bits DEF Dlab, Room
<1>3. Held(uart) = 0  BY <1>1 DEF Held
<1>4. Held(uart) < Room(uart)  BY <1>2, <1>3, SerialAssumption
<1>5. WriteThr(uart, c) = [uart EXCEPT !.tx = Append(uart.tx, c)]
  BY <1>2, <1>4 DEF WriteThr, Transmit
<1>6. Append(uart.tx, c) = <<c>>  OBVIOUS
<1> QED  BY <1>5, <1>6

LEMMA TxOnly ==
  ASSUME Record, NEW value, uart' = [uart EXCEPT !.tx = value]
  PROVE  /\ Record' /\ uart'.tx = value /\ uart'.there = uart.there
         /\ uart'.fw = uart.fw /\ (SetUp(12) => SetUp(12)')
         /\ uart'.lcr = uart.lcr /\ uart'.dll = uart.dll /\ uart'.dlm = uart.dlm
<1>1. Record' /\ uart'.tx = value /\ Same(Registers \ {"tx"})
  BY OneRegister DEF Registers
<1>2. /\ uart'.there = uart.there /\ uart'.ier = uart.ier
      /\ uart'.dll = uart.dll /\ uart'.dlm = uart.dlm
      /\ uart'.fcr = uart.fcr /\ uart'.lcr = uart.lcr
      /\ uart'.mcr = uart.mcr /\ uart'.fw = uart.fw
  BY <1>1 DEF Registers, Same
<1> QED  BY <1>1, <1>2 DEF SetUp

LEMMA PutCharInv == ASSUME SerialInv, PutChar PROVE SerialInv'
<1> DEFINE c == Head(out)
<1>1. /\ serial_pc = "idle" /\ serial_pc' = "wait" /\ sent' = Append(sent, c)
      /\ uart' = WriteThr(uart, c)
      /\ UNCHANGED <<debug_port, line, step>>
  BY DEF PutChar, AfterWrite
<1> HIDE DEF c
<1>2. PICK S : line \in Seq(S) /\ sent \in Seq(S)
  BY DEF SerialInv, Sequences
<1>3. line \in Seq(S \union {c}) /\ sent \in Seq(S \union {c})
  BY <1>2, SequencesGrow
<1>4. Sequences'
  <2>1. Append(sent, c) \in Seq(S \union {c})  BY <1>3
  <2> QED  BY <1>1, <1>3, <2>1 DEF Sequences
<1>5. CASE ~uart.there
  <2>1. uart' = uart  BY <1>1, <1>5 DEF WriteThr
  <2>2. Record' /\ uart'.there = uart.there /\ uart'.fw = uart.fw
    BY <2>1 DEF SerialInv, Record
  <2> QED  BY <1>1, <1>4, <1>5, <2>2 DEF SerialInv, Starting, Running
<1>6. CASE uart.there /\ debug_port = 0
  <2>1. uart' = uart \/ uart' = [uart EXCEPT !.tx = Append(uart.tx, c)]
    BY <1>1 DEF WriteThr, Transmit
  <2>2. Record' /\ uart'.there = uart.there /\ uart'.fw = uart.fw
    <3>1. CASE uart' = uart  BY <3>1 DEF SerialInv, Record
    <3>2. CASE uart' = [uart EXCEPT !.tx = Append(uart.tx, c)]
      BY <3>2, TxOnly DEF SerialInv
    <3> QED  BY <2>1, <3>1, <3>2
  <2> QED  BY <1>1, <1>4, <1>6, <2>2 DEF SerialInv, Starting, Running
<1>7. CASE uart.there /\ debug_port # 0
  <2>1. /\ step = 12 /\ SetUp(12) /\ uart.tx = <<>> /\ line = InOrder(sent)
        /\ Record /\ uart.fw \in Nat
    BY <1>1, <1>7 DEF SerialInv, Running, Delivered
  <2>2. uart' = [uart EXCEPT !.tx = <<c>>]  BY <1>1, <1>7, <2>1, ThereIsRoom
  <2>3. /\ Record' /\ uart'.tx = <<c>> /\ uart'.there = uart.there
        /\ uart'.fw = uart.fw /\ SetUp(12)'
    BY <2>1, <2>2, TxOnly
  <2>4. Append(line, <<c, Good>>) = InOrder(sent)'
    <3>1. Append(InOrder(sent), <<c, Good>>) = InOrder(Append(sent, c))
      BY <1>3, InOrderAppend
    <3> QED  BY <1>1, <2>1, <3>1 DEF InOrder
  <2>5. Delivered'  BY <1>1, <2>3, <2>4 DEF Delivered
  <2>6. SetUp(step)'  BY <1>1, <2>1, <2>3 DEF SetUp
  <2> QED
    BY <1>1, <1>4, <1>7, <2>1, <2>3, <2>5, <2>6 DEF SerialInv, Starting, Running
<1> QED  BY <1>5, <1>6, <1>7

LEMMA SeeEmptyInv == ASSUME SerialInv, SeeEmpty PROVE SerialInv'
<1>1. /\ serial_pc = "wait" /\ serial_pc' = "idle" /\ Thre(uart)
      /\ uart' = uart /\ debug_port' = debug_port /\ line' = line
      /\ step' = step /\ sent' = sent
  BY DEF SeeEmpty, TransmitReady
<1>2. Record' /\ Sequences' /\ (SetUp(step) => SetUp(step)')
  BY <1>1 DEF SerialInv, Record, Sequences, SetUp
<1>3. uart.there /\ debug_port # 0 => Delivered'
  <2> SUFFICES ASSUME uart.there, debug_port # 0
               PROVE  uart.tx = <<>> /\ line = InOrder(sent)
    BY <1>1 DEF Delivered, InOrder
  <2>1. Held(uart) = 0 /\ Delivered
    BY <1>1 DEF Thre, SerialInv, Running
  <2>2. ASSUME NEW c, uart.tx = <<c>>
        PROVE  FALSE
    <3>1. Len(uart.tx) = 1  BY <2>2
    <3> QED  BY <2>1, <3>1 DEF Held, SerialInv
  <2> QED  BY <2>1, <2>2 DEF Delivered
<1> QED  BY <1>1, <1>2, <1>3 DEF SerialInv, Starting, Running

LEMMA DrainInv == ASSUME SerialInv, Drain PROVE SerialInv'
<1>1. /\ uart.there /\ Record /\ uart.fw \in Nat
      /\ debug_port' = debug_port /\ serial_pc' = serial_pc
      /\ step' = step /\ sent' = sent
  BY DEF SerialInv, Drain
<1>2. CASE /\ uart.fw > 0 /\ line' = line
           /\ uart' = [uart EXCEPT !.fw = uart.fw - 1]
  <2>1. Record' /\ uart'.fw = uart.fw - 1 /\ Same(Registers \ {"fw"})
    BY <1>1, <1>2, OneRegister DEF Registers
  <2>2. /\ uart'.there = uart.there /\ uart'.ier = uart.ier
        /\ uart'.dll = uart.dll /\ uart'.dlm = uart.dlm
        /\ uart'.fcr = uart.fcr /\ uart'.lcr = uart.lcr
        /\ uart'.mcr = uart.mcr /\ uart'.tx = uart.tx
    BY <2>1 DEF Registers, Same
  <2>3. Sequences' /\ uart'.fw \in Nat
    BY <1>1, <1>2, <2>1 DEF SerialInv, Sequences
  <2>4. SetUp(step) => SetUp(step)'  BY <1>1, <1>2, <2>1, <2>2 DEF SetUp
  <2>5. Delivered => Delivered'  BY <1>1, <1>2, <2>2 DEF Delivered, InOrder
  <2> QED
    BY <1>1, <1>2, <2>1, <2>2, <2>3, <2>4, <2>5 DEF SerialInv, Starting, Running
<1>3. CASE /\ uart.fw = 0 /\ uart.tx # <<>>
           /\ line' = Append(line, <<Head(uart.tx), Setting(uart)>>)
           /\ uart' = [uart EXCEPT !.tx = Tail(uart.tx)]
  <2> DEFINE last == <<Head(uart.tx), Setting(uart)>>
  <2>1. Running  BY <1>1, <1>3 DEF SerialInv
  <2>2. /\ Record' /\ uart'.tx = Tail(uart.tx) /\ uart'.there = uart.there
        /\ uart'.fw = uart.fw /\ (SetUp(12) => SetUp(12)')
    BY <1>1, <1>3, TxOnly
  <2>3. Sequences'
    <3>1. PICK S : line \in Seq(S) /\ sent \in Seq(S)
      BY DEF SerialInv, Sequences
    <3>2. line \in Seq(S \union {last}) /\ sent \in Seq(S \union {last})
      BY <3>1, SequencesGrow
    <3>3. line' = Append(line, last)  BY <1>3
    <3> HIDE DEF last
    <3>4. line' \in Seq(S \union {last})  BY <3>2, <3>3
    <3> QED  BY <1>1, <3>2, <3>4 DEF Sequences
  <2> HIDE DEF last
  <2>4. CASE debug_port = 0
    BY <1>1, <2>1, <2>2, <2>3, <2>4 DEF SerialInv, Starting, Running
  <2>5. CASE debug_port # 0
    <3>1. step = 12 /\ SetUp(12) /\ Delivered
      BY <1>1, <2>1, <2>5 DEF SerialInv
    <3>2. PICK c : /\ serial_pc = "wait" /\ uart.tx = <<c>>
                   /\ Append(line, <<c, Good>>) = InOrder(sent)
      BY <1>3, <3>1 DEF Delivered
    <3>3. Head(uart.tx) = c /\ Tail(uart.tx) = <<>>  BY <3>2
    <3>4. Setting(uart) = Good  BY <3>1, GoodSetting DEF SetUp
    <3>5. line' = InOrder(sent)  BY <1>3, <3>2, <3>3, <3>4
    <3>6. Delivered'  BY <1>1, <2>2, <3>3, <3>5 DEF Delivered, InOrder
    <3>7. SetUp(step)'  BY <1>1, <2>2, <3>1 DEF SetUp
    <3> QED
      BY <1>1, <2>1, <2>2, <2>3, <3>1, <3>6, <3>7
      DEF SerialInv, Starting, Running
  <2> QED  BY <2>4, <2>5
<1> QED  BY <1>2, <1>3 DEF Drain

-----------------------------------------------------------------------------
(* Every step of the program and of the UART.                              *)
LEMMA NextInv == ASSUME SerialInv, [Next]_vars PROVE SerialInv'
<1>1. CASE Parse
  <2>1. UNCHANGED portVars  BY <1>1 DEF Parse, serialVars, portVars
  <2> QED  BY <2>1, QuietInv
<1>2. CASE InitPort  BY <1>2, StartInv DEF InitPort
<1>3. CASE PortStep
  BY <1>3, InitStepInv, PutCharInv, SeeEmptyInv DEF PortStep, SerialStep
<1>4. CASE Device  BY <1>4, DrainInv DEF Device
<1>5. CASE ClearScreen
  <2>1. UNCHANGED portVars  BY <1>5 DEF ClearScreen, serialVars, portVars
  <2> QED  BY <2>1, QuietInv
<1>6. CASE \E text \in Strings : PrintString(text)
  <2>1. UNCHANGED portVars  BY <1>6 DEF PrintString, portVars
  <2> QED  BY <2>1, QuietInv
<1>7. CASE \E number \in Numbers : PrintValue(number)
  <2>1. UNCHANGED portVars  BY <1>7 DEF PrintValue, portVars
  <2> QED  BY <2>1, QuietInv
<1>8. CASE \E text \in Strings, number \in Numbers :
             PrintStringValue(text, number)
  <2>1. UNCHANGED portVars  BY <1>8 DEF PrintStringValue, portVars
  <2> QED  BY <2>1, QuietInv
<1>9. CASE \E number \in Numbers, all \in BOOLEAN : SerialPutHex(number, all)
  <2>1. UNCHANGED portVars  BY <1>9 DEF SerialPutHex, portVars
  <2> QED  BY <2>1, QuietInv
<1>10. CASE UNCHANGED vars
  <2>1. UNCHANGED portVars  BY <1>10 DEF vars, serialVars, portVars
  <2> QED  BY <2>1, QuietInv
<1> QED
  BY <1>1, <1>2, <1>3, <1>4, <1>5, <1>6, <1>7, <1>8, <1>9, <1>10 DEF Next

(* SerialInv holds in every state: the inductive invariant behind both     *)
(* theorems below.                                                         *)
THEOREM SerialHolds == Spec => []SerialInv
<1>1. ConsoleInit => SerialInv  BY InitInv
<1>2. SerialInv /\ [Next]_vars => SerialInv'  BY NextInv
<1> QED  BY <1>1, <1>2, PTL DEF Spec

(* Whatever the firmware left in the UART, once loader_serial_init has     *)
(* returned it sends at 115200 baud, 8 bits, with its FIFO on, no          *)
(* interrupts and nothing of the firmware's in it.                         *)
THEOREM PortIsReady == Spec => []PortReady
<1>1. SerialInv => PortReady
  <2> SUFFICES ASSUME SerialInv, Running, debug_port # 0, uart.there
               PROVE  PortReady
    BY DEF PortReady, Running
  <2>1. SetUp(12)  BY DEF SerialInv
  <2>2. Setting(uart) = <<1, TRUE>>
    <3>1. uart.dlm = 0 /\ uart.dll = 1 /\ uart.lcr = 3  BY <2>1 DEF SetUp
    <3>2. Setting(uart) = Good  BY <3>1, GoodSetting
    <3> QED  BY <3>2, Zenon DEF Good
  <2>3. ~Dlab(uart) /\ Bit(uart.fcr, 0) = 1
    BY <2>1, Bits DEF SetUp, Dlab
  <2> QED  BY <2>1, <2>2, <2>3 DEF PortReady, SetUp
<1> QED  BY <1>1, SerialHolds, PTL

(* Every character given to loader_serial_putc goes over the line, once,   *)
(* in order and at the right settings, or is still in the transmitter,     *)
(* whatever the size of its FIFO.                                          *)
THEOREM NothingIsLost == Spec => []NothingLost
<1>1. SerialInv => NothingLost
  <2> SUFFICES ASSUME SerialInv, Running, debug_port # 0, uart.there
               PROVE  line \o InOrder(uart.tx) = InOrder(sent)
    BY DEF NothingLost, Running, InOrder, Good
  <2>1. PICK S : line \in Seq(S)  BY DEF SerialInv, Sequences
  <2>2. Delivered  BY DEF SerialInv
  <2>3. CASE uart.tx = <<>> /\ line = InOrder(sent)
    <3>1. InOrder(uart.tx) = <<>>  BY <2>3 DEF InOrder
    <3>2. line \o <<>> = line  BY <2>1
    <3> QED  BY <2>3, <3>1, <3>2
  <2>4. ASSUME NEW c, uart.tx = <<c>>,
               Append(line, <<c, Good>>) = InOrder(sent)
        PROVE  line \o InOrder(uart.tx) = InOrder(sent)
    <3>1. InOrder(uart.tx) = <<<<c, Good>>>>
      <4>1. Len(<<c>>) = 1 /\ <<c>>[1] = c  OBVIOUS
      <4>2. InOrder(uart.tx) = [k \in 1 .. 1 |-> <<c, Good>>]
        BY <2>4, <4>1 DEF InOrder
      <4> QED  BY <4>2
    <3>2. ASSUME NEW e PROVE line \o <<e>> = Append(line, e)
      <4>1. line \in Seq(S \union {e}) /\ e \in S \union {e}
        BY <2>1, SequencesGrow
      <4> QED  BY <4>1, AppendIsConcat
    <3> QED  BY <2>4, <3>1, <3>2
  <2> QED  BY <2>2, <2>3, <2>4 DEF Delivered
<1> QED  BY <1>1, SerialHolds, PTL

-----------------------------------------------------------------------------
(* What the searches of string.c find.                                     *)
LEMMA SkipSpacesFinds ==
  ASSUME NEW S, NEW s \in Seq(S), NEW from \in 1 .. Len(s) + 1
  PROVE  LET at == SkipSpaces(s, from)
         IN  /\ at \in from .. Len(s) + 1
             /\ \A j \in from .. at - 1 : isspace(s[j])
             /\ at <= Len(s) => ~isspace(s[at])
<1> DEFINE Found(k) == /\ \A j \in from .. k - 1 : isspace(s[j])
                       /\ k <= Len(s) => ~isspace(s[k])
           stops == {k \in from .. Len(s) + 1 : k <= Len(s) => ~isspace(s[k])}
<1>1. Len(s) \in Nat /\ Len(s) + 1 \in stops /\ stops \subseteq from .. Len(s) + 1
  OBVIOUS
<1>2. PICK k \in stops : \A j \in stops : k <= j
  <2> HIDE DEF stops
  <2>1. from \in Int /\ Len(s) + 1 \in Int  BY <1>1
  <2> QED  BY <1>1, <2>1, Least
<1>3. k \in from .. Len(s) + 1 /\ Found(k)
  <2>1. ASSUME NEW j \in from .. k - 1 PROVE isspace(s[j])
    <3>1. j \in from .. Len(s) + 1 /\ j <= Len(s) /\ ~(k <= j)  BY <1>1, <1>2
    <3> QED  BY <1>2, <3>1
  <2> QED  BY <1>2, <2>1
<1> HIDE DEF Found, stops
<1>4. SkipSpaces(s, from) = CHOOSE at \in from .. Len(s) + 1 : Found(at)
  BY DEF SkipSpaces, Found
<1>5. SkipSpaces(s, from) \in from .. Len(s) + 1 /\ Found(SkipSpaces(s, from))
  BY <1>3, <1>4, Zenon
<1> QED  BY <1>5 DEF Found

LEMMA strchrFinds ==
  ASSUME NEW S, NEW s \in Seq(S), NEW from \in Nat \ {0}, NEW c
  PROVE  \/ /\ strchr(s, from, c) = 0
            /\ \A k \in from .. Len(s) : s[k] # c
         \/ /\ strchr(s, from, c) \in from .. Len(s)
            /\ s[strchr(s, from, c)] = c
            /\ \A k \in from .. strchr(s, from, c) - 1 : s[k] # c
<1> DEFINE at == {k \in from .. Len(s) : s[k] = c}
<1>1. CASE at = {}
  <2>1. strchr(s, from, c) = 0  BY <1>1 DEF strchr
  <2> QED  BY <1>1, <2>1
<1>2. CASE at # {}
  <2>1. at \subseteq from .. Len(s) /\ from \in Int /\ Len(s) \in Int  OBVIOUS
  <2> DEFINE first == CHOOSE k \in at : \A j \in at : k <= j
  <2>2. strchr(s, from, c) = first  BY <1>2 DEF strchr
  <2>3. first \in at /\ \A j \in at : first <= j
    <3> HIDE DEF at
    <3>1. \E k \in at : \A j \in at : k <= j  BY <1>2, <2>1, Least
    <3> QED  BY <3>1, Zenon
  <2> HIDE DEF first
  <2>4. ASSUME NEW k \in from .. first - 1 PROVE s[k] # c
    <3>1. k \in from .. Len(s) /\ ~(first <= k)  BY <2>1, <2>3
    <3> QED  BY <2>3, <3>1
  <2> QED  BY <2>2, <2>3, <2>4
<1> QED  BY <1>1, <1>2

(* The value of a digit, and of what is none.                              *)
LEMMA DigitValueType == ASSUME NEW c PROVE DigitValue(c) \in 0 .. 16
<1>1. /\ IsAt(DecimalDigits, c) => PlaceOf(DecimalDigits, c) \in 1 .. 10
      /\ IsAt(UpperDigits, c) => PlaceOf(UpperDigits, c) \in 1 .. 6
      /\ IsAt(LowerDigits, c) => PlaceOf(LowerDigits, c) \in 1 .. 6
  <2>1. /\ Len(DecimalDigits) = 10 /\ Len(UpperDigits) = 6
        /\ Len(LowerDigits) = 6
    BY DEF DecimalDigits, UpperDigits, LowerDigits
  <2>2. \A seq : IsAt(seq, c) => PlaceOf(seq, c) \in 1 .. Len(seq)
    BY Zenon DEF IsAt, PlaceOf
  <2> QED  BY <2>1, <2>2
<1> QED  BY <1>1 DEF DigitValue

LEMMA DigitIsNat == ASSUME NEW c PROVE DigitValue(c) \in Nat
<1>1. DigitValue(c) \in 0 .. 16  BY DigitValueType, Zenon
<1> QED  BY <1>1

HexLetters == {"0", "1", "2", "3", "4", "5", "6", "7", "8", "9",
               "A", "B", "C", "D", "E", "F", "a", "b", "c", "d", "e", "f"}
LEMMA NoDigit ==
  ASSUME NEW c, c \notin HexLetters PROVE DigitValue(c) = 16
<1>1. ~IsAt(DecimalDigits, c)
  <2>1. /\ Len(DecimalDigits) = 10
        /\ DecimalDigits[1] = "0" /\ DecimalDigits[2] = "1" /\ DecimalDigits[3] = "2"
        /\ DecimalDigits[4] = "3" /\ DecimalDigits[5] = "4" /\ DecimalDigits[6] = "5"
        /\ DecimalDigits[7] = "6" /\ DecimalDigits[8] = "7" /\ DecimalDigits[9] = "8"
        /\ DecimalDigits[10] = "9"
    BY DEF DecimalDigits
  <2>2. ASSUME NEW d \in 1 .. 10 PROVE DecimalDigits[d] # c
    <3>1. d = 1 \/ d = 2 \/ d = 3 \/ d = 4 \/ d = 5
         \/ d = 6 \/ d = 7 \/ d = 8 \/ d = 9 \/ d = 10
      OBVIOUS
    <3> QED  BY <2>1, <3>1 DEF HexLetters
  <2> QED  BY <2>1, <2>2 DEF IsAt
<1>2. ~IsAt(UpperDigits, c)
  <2>1. /\ Len(UpperDigits) = 6
        /\ UpperDigits[1] = "A" /\ UpperDigits[2] = "B" /\ UpperDigits[3] = "C"
        /\ UpperDigits[4] = "D" /\ UpperDigits[5] = "E" /\ UpperDigits[6] = "F"
    BY DEF UpperDigits
  <2>2. ASSUME NEW d \in 1 .. 6 PROVE UpperDigits[d] # c
    <3>1. d = 1 \/ d = 2 \/ d = 3 \/ d = 4 \/ d = 5 \/ d = 6
      OBVIOUS
    <3> QED  BY <2>1, <3>1 DEF HexLetters
  <2> QED  BY <2>1, <2>2 DEF IsAt
<1>3. ~IsAt(LowerDigits, c)
  <2>1. /\ Len(LowerDigits) = 6
        /\ LowerDigits[1] = "a" /\ LowerDigits[2] = "b" /\ LowerDigits[3] = "c"
        /\ LowerDigits[4] = "d" /\ LowerDigits[5] = "e" /\ LowerDigits[6] = "f"
    BY DEF LowerDigits
  <2>2. ASSUME NEW d \in 1 .. 6 PROVE LowerDigits[d] # c
    <3>1. d = 1 \/ d = 2 \/ d = 3 \/ d = 4 \/ d = 5 \/ d = 6
      OBVIOUS
    <3> QED  BY <2>1, <3>1 DEF HexLetters
  <2> QED  BY <2>1, <2>2 DEF IsAt
<1> QED  BY <1>1, <1>2, <1>3 DEF DigitValue

LEMMA OtherCharacters ==
  /\ {"\t", "\n", "VT", "\f", "\r", " ", "-", "+", "x", "X", "O"}
       \cap HexLetters = {}
  /\ " " \notin HexLetters
  BY Zenon DEF HexLetters

(* strtoul: where its digits are, and what it has made of them.            *)
LEMMA FirstDigitType ==
  ASSUME NEW S, NEW s \in Seq(S)
  PROVE  FirstDigit(s) \in 1 .. Len(s) + 1
<1> DEFINE blank == SkipSpaces(s, 1)
           sign  == IF CharAt(s, blank) \in {"-", "+"} THEN blank + 1 ELSE blank
<1>1. blank \in 1 .. Len(s) + 1 /\ Len(s) \in Nat
  <2>1. Len(s) \in Nat /\ 1 \in 1 .. Len(s) + 1  OBVIOUS
  <2> QED  BY <2>1, SkipSpacesFinds
<1> HIDE DEF blank
<1>2. sign \in 1 .. Len(s) + 1  BY <1>1 DEF CharAt
<1>3. FirstDigit(s) = IF CharAt(s, sign) = "0" /\ CharAt(s, sign + 1) \in {"x", "X"}
                      THEN sign + 2 ELSE sign
  BY DEF FirstDigit, blank
<1> HIDE DEF sign
<1> QED  BY <1>1, <1>2, <1>3 DEF CharAt

LEMMA LastDigitFinds ==
  ASSUME NEW S, NEW s \in Seq(S)
  PROVE  /\ LastDigit(s) \in FirstDigit(s) - 1 .. Len(s)
         /\ \A j \in FirstDigit(s) .. LastDigit(s) : DigitValue(s[j]) < 16
         /\ LastDigit(s) < Len(s) => DigitValue(s[LastDigit(s) + 1]) >= 16
<1> DEFINE first == FirstDigit(s)
           Found(k) == /\ \A j \in first .. k : DigitValue(s[j]) < 16
                       /\ k < Len(s) => DigitValue(s[k + 1]) >= 16
           ends == {k \in first - 1 .. Len(s) :
                      k < Len(s) => DigitValue(s[k + 1]) >= 16}
<1>1. first \in 1 .. Len(s) + 1 /\ Len(s) \in Nat  BY FirstDigitType
<1> HIDE DEF first
<1>2. PICK k \in ends : \A j \in ends : k <= j
  <2>1. Len(s) \in ends /\ ends \subseteq first - 1 .. Len(s)  BY <1>1
  <2>2. first - 1 \in Int /\ Len(s) \in Int  BY <1>1
  <2> HIDE DEF ends
  <2> QED  BY <2>1, <2>2, Least
<1>3. k \in first - 1 .. Len(s) /\ Found(k)
  <2>1. ASSUME NEW j \in first .. k PROVE DigitValue(s[j]) < 16
    <3>1. j - 1 \in first - 1 .. Len(s) /\ ~(k <= j - 1) /\ (j - 1) + 1 = j
      BY <1>1, <1>2
    <3>2. j - 1 \notin ends  BY <1>2, <3>1
    <3>3. ~(DigitValue(s[j]) >= 16)  BY <3>1, <3>2
    <3> QED  BY <3>3, DigitValueType
  <2> QED  BY <1>2, <2>1
<1> HIDE DEF Found, ends
<1>4. LastDigit(s) = CHOOSE at \in first - 1 .. Len(s) : Found(at)
  BY DEF LastDigit, Found, first
<1>5. LastDigit(s) \in first - 1 .. Len(s) /\ Found(LastDigit(s))
  BY <1>3, <1>4, Zenon
<1> QED  BY <1>5 DEF Found, first

Sums == Nat \union {-1}
LEMMA AccumulateType ==
  ASSUME NEW acc \in Sums, NEW d \in Nat PROVE Accumulate(acc, d) \in Sums
  BY DEF Sums, Accumulate

LEMMA AccumulatedIs ==
  ASSUME NEW S, NEW s \in Seq(S)
  PROVE  /\ Accumulated(s) \in [FirstDigit(s) - 1 .. LastDigit(s) -> Sums]
         /\ \A k \in FirstDigit(s) - 1 .. LastDigit(s) :
              Accumulated(s)[k] =
                IF k = FirstDigit(s) - 1 THEN 0
                ELSE Accumulate(Accumulated(s)[k - 1], DigitValue(s[k]))
<1> DEFINE m == FirstDigit(s) - 1
           n == LastDigit(s)
           d == [k \in m .. n |-> [acc \in Sums |-> Accumulate(acc, DigitValue(s[k]))]]
<1>1. m \in Int /\ n \in Int /\ m <= n  BY FirstDigitType, LastDigitFinds
<1>2. d \in [m .. n -> [Sums -> Sums]]
  <2>1. ASSUME NEW k, NEW acc \in Sums
        PROVE  Accumulate(acc, DigitValue(s[k])) \in Sums
    <3>1. DigitValue(s[k]) \in Nat  BY DigitIsNat, Zenon
    <3> QED  BY <3>1, AccumulateType
  <2> HIDE DEF m, n
  <2> QED  BY <2>1
<1> HIDE DEF m, n
<1>3. 0 \in Sums  BY DEF Sums
<1>4. PICK f \in [m .. n -> Sums] : Recursive(f, m, n, 0, d)
  <2> HIDE DEF d
  <2> QED  BY <1>1, <1>2, <1>3, RecursionExists
<1>5. f = [k \in m .. n |-> IF k = m THEN 0
                            ELSE Accumulate(f[k - 1], DigitValue(s[k]))]
  <2>1. ASSUME NEW k \in m .. n
        PROVE  f[k] = IF k = m THEN 0 ELSE Accumulate(f[k - 1], DigitValue(s[k]))
    <3>1. k # m => f[k - 1] \in Sums  BY <1>1
    <3>2. k # m => d[k][f[k - 1]] = Accumulate(f[k - 1], DigitValue(s[k]))
      BY <3>1
    <3> HIDE DEF d
    <3> QED  BY <1>4, <3>2 DEF Recursive
  <2> QED  BY <2>1
<1>6. Accumulated(s) = [k \in m .. n |->
        IF k = m THEN 0 ELSE Accumulate(Accumulated(s)[k - 1], DigitValue(s[k]))]
  BY <1>5, Zenon DEF Accumulated, m, n
<1> DEFINE g == Accumulated(s)
<1>7. \A k \in m .. n : g[k] \in Sums
  <2>1. g[m] \in Sums  BY <1>1, <1>3, <1>6
  <2>2. ASSUME NEW k \in m .. n, k # m, g[k - 1] \in Sums
        PROVE  g[k] \in Sums
    <3>1. DigitValue(s[k]) \in Nat  BY DigitIsNat, Zenon
    <3>2. g[k] = Accumulate(g[k - 1], DigitValue(s[k]))  BY <1>6, <2>2
    <3> QED  BY <2>2, <3>1, <3>2, AccumulateType
  <2> HIDE DEF g
  <2> QED  BY <1>1, <2>1, <2>2, StaysIn
<1> QED  BY <1>6, <1>7 DEF m, n

-----------------------------------------------------------------------------
(* Types.  The characters are strings; those that the program itself       *)
(* writes are named, for the provers know of no string that it is one.     *)
Chars == STRING \union HexLetters
         \union {"O", "P", "T", "I", "N", "L", "Y", "x", "\n"}

CmdLineTyped ==
  /\ cmdline \in Seq(Chars)
  /\ p \in 1 .. Len(cmdline) + 1
  /\ parse_pc \in {"unparsed", "parsing", "parsed", "error", "refused"}
  /\ values \in [1 .. Len(Options) -> Seq(Chars)]

LEMMA StringsAreTexts == Seq(STRING) \subseteq Seq(Chars)
<1>1. STRING \subseteq Chars  BY DEF Chars
<1> QED  BY <1>1, SequencesGrow

LEMMA OptionsAreTexts ==
  /\ Options \in Seq(Seq(Chars)) /\ Len(Options) \in Nat
  /\ \A o \in 1 .. Len(Options) : Options[o] \in Seq(Chars) /\ Len(Options[o]) > 0
<1>1. Options \in Seq(Seq(STRING))  BY OptionsAssumption
<1>2. \A o \in 1 .. Len(Options) : Options[o] \in Seq(STRING)  BY <1>1
<1>3. Options \in Seq(Seq(Chars))  BY <1>1, StringsAreTexts
<1> QED  BY <1>2, <1>3, StringsAreTexts, OptionsAssumption

LEMMA DefaultsTyped ==
  /\ Default \in Seq(Chars) /\ OptionOnly \in Seq(Chars) /\ NoValue \in Seq(Chars)
  /\ Len(OptionOnly) = 10 /\ OptionOnly[1] = "O"
  BY DEF Default, OptionOnly, NoValue, Chars, HexLetters

(* An option is in the line, and there is one as long as something other   *)
(* than white space is left of it.                                         *)
LEMMA OptionPlaces ==
  ASSUME cmdline \in Seq(Chars), p \in 1 .. Len(cmdline) + 1
  PROVE  LET start == SkipSpaces(cmdline, p)
         IN  /\ start \in p .. Len(cmdline) + 1
             /\ start <= Len(cmdline) =>
                  EndOf(start) \in start .. Len(cmdline) + 1
<1> DEFINE start == SkipSpaces(cmdline, p)
<1>1. start \in p .. Len(cmdline) + 1 /\ Len(cmdline) \in Nat
  BY SkipSpacesFinds
<1> HIDE DEF start
<1>2. ASSUME start <= Len(cmdline)
      PROVE  EndOf(start) \in start .. Len(cmdline) + 1
  <2> DEFINE blank == strchr(cmdline, start, " ")
  <2>1. blank = 0 \/ blank \in start .. Len(cmdline)
    <3>1. start \in Nat \ {0}  BY <1>1
    <3> QED  BY <3>1, strchrFinds
  <2>2. EndOf(start) = IF blank = 0 THEN Len(cmdline) + 1 ELSE blank
    BY Zenon DEF EndOf
  <2> HIDE DEF blank
  <2> QED  BY <1>1, <1>2, <2>1, <2>2
<1> QED  BY <1>1, <1>2 DEF start

LEMMA SetValueTyped ==
  ASSUME values \in [1 .. Len(Options) -> Seq(Chars)],
         NEW name, NEW value \in Seq(Chars), SetValue(name, value)
  PROVE  values' \in [1 .. Len(Options) -> Seq(Chars)]
  BY DEF SetValue

LEMMA ParseTyped ==
  ASSUME CmdLineTyped, ParseStep PROVE CmdLineTyped' /\ UNCHANGED cmdline
<1>1. CASE ParseStart  BY <1>1 DEF ParseStart, CmdLineTyped
<1>2. CASE ParseEnd  BY <1>2 DEF ParseEnd, CmdLineTyped
<1>3. CASE ParseOption
  <2> DEFINE start  == SkipSpaces(cmdline, p)
             end    == EndOf(start)
             equals == strchr(cmdline, start, "=")
  <2>1. /\ start <= Len(cmdline) /\ p' = end /\ UNCHANGED cmdline
        /\ parse_pc' = parse_pc \/ parse_pc' = "error"
        /\ \/ UNCHANGED values
           \/ SetValue(Text(cmdline, start, end), OptionOnly)
           \/ /\ ValueIn(equals, end)
              /\ SetValue(Text(cmdline, start, equals),
                          Text(cmdline, equals + 1, end))
    BY <1>3 DEF ParseOption
  <2>2. /\ start \in 1 .. Len(cmdline) /\ end \in 1 .. Len(cmdline) + 1
        /\ equals \in 0 .. Len(cmdline) /\ Len(cmdline) \in Nat
    <3>1. /\ start \in p .. Len(cmdline) + 1 /\ Len(cmdline) \in Nat
          /\ end \in start .. Len(cmdline) + 1
      BY <2>1, OptionPlaces DEF CmdLineTyped
    <3>2. start \in Nat \ {0} /\ cmdline \in Seq(Chars)
      BY <3>1 DEF CmdLineTyped
    <3>3. equals = 0 \/ equals \in start .. Len(cmdline)
      BY <3>2, strchrFinds
    <3> HIDE DEF start, end, equals
    <3> QED  BY <2>1, <3>1, <3>2, <3>3 DEF CmdLineTyped
  <2> HIDE DEF start, end, equals
  <2>3. values' \in [1 .. Len(Options) -> Seq(Chars)]
    <3>1. CASE UNCHANGED values  BY <3>1 DEF CmdLineTyped
    <3>2. CASE SetValue(Text(cmdline, start, end), OptionOnly)
      BY <3>2, SetValueTyped, DefaultsTyped DEF CmdLineTyped
    <3>3. CASE /\ ValueIn(equals, end)
               /\ SetValue(Text(cmdline, start, equals),
                           Text(cmdline, equals + 1, end))
      <4>1. Text(cmdline, equals + 1, end) \in Seq(Chars)
        BY <2>2, <3>3 DEF Text, ValueIn, CmdLineTyped
      <4> QED  BY <3>3, <4>1, SetValueTyped DEF CmdLineTyped
    <3> QED  BY <2>1, <3>1, <3>2, <3>3
  <2> QED  BY <2>1, <2>2, <2>3 DEF CmdLineTyped
<1> QED  BY <1>1, <1>2, <1>3 DEF ParseStep

LEMMA ValueFound ==
  ASSUME values \in [1 .. Len(Options) -> Seq(Chars)], NEW name
  PROVE  get_cmdline_value_str(name) \in Seq(Chars)
<1> DEFINE found == {o \in 1 .. Len(Options) : strcmp_equal(name, Options[o])}
           first == CHOOSE o \in found : \A q \in found : o <= q
<1>1. CASE found = {}
  BY <1>1, DefaultsTyped DEF get_cmdline_value_str
<1>2. CASE found # {}
  <2>1. found \subseteq 1 .. Len(Options) /\ 1 \in Int /\ Len(Options) \in Int
    BY OptionsAreTexts
  <2>2. first \in found
    <3> HIDE DEF found
    <3>1. \E o \in found : \A q \in found : o <= q  BY <1>2, <2>1, Least
    <3> QED  BY <3>1, Zenon
  <2>3. get_cmdline_value_str(name) = values[first]
    BY <1>2 DEF get_cmdline_value_str
  <2> HIDE DEF first
  <2> QED  BY <2>1, <2>2, <2>3
<1> QED  BY <1>1, <1>2

LEMMA strtoulType ==
  ASSUME NEW S, NEW s \in Seq(S) PROVE strtoul(s) \in Nat
<1> DEFINE acc == Accumulated(s)[LastDigit(s)]
<1>1. acc \in Nat \union {-1}
  <2>1. LastDigit(s) \in FirstDigit(s) - 1 .. LastDigit(s)
    BY FirstDigitType, LastDigitFinds
  <2> QED  BY <2>1, AccumulatedIs DEF Sums
<1>2. strtoul(s) = IF acc = -1 THEN ULONG_MAX
                   ELSE IF CharAt(s, SkipSpaces(s, 1)) = "-"
                   THEN (ULONG_MAX + 1 - acc) % (ULONG_MAX + 1)
                   ELSE acc
  BY DEF strtoul
<1> HIDE DEF acc
<1>3. ULONG_MAX \in Nat \ {0}  BY OptionsAssumption
<1>4. ASSUME acc \in Nat
      PROVE  (ULONG_MAX + 1 - acc) % (ULONG_MAX + 1) \in Nat
  <2>1. \A a \in Int, b \in Nat \ {0} : a % b \in Nat  OBVIOUS
  <2>2. ULONG_MAX + 1 - acc \in Int /\ ULONG_MAX + 1 \in Nat \ {0}
    BY <1>3, <1>4
  <2> QED  BY <2>1, <2>2
<1> QED  BY <1>1, <1>2, <1>3, <1>4

LEMMA IoBaseType ==
  ASSUME values \in [1 .. Len(Options) -> Seq(Chars)] PROVE IoBase \in Nat
<1>1. strtoul(get_cmdline_value_str(PortOption)) \in Nat
  BY ValueFound, strtoulType
<1>2. \A a \in Nat, b \in Nat \ {0} : a % b \in Nat  OBVIOUS
<1> QED  BY <1>1, <1>2, OptionsAssumption DEF IoBase

(* The port, and what is in the UART.                                      *)
Bytes == 0 .. 255
UartTyped ==
  /\ \E S : uart \in [there : BOOLEAN, ier : Bytes, dll : Bytes, dlm : Bytes,
                      fcr : Bytes, lcr : Bytes, mcr : Bytes, fw : Nat,
                      tx : Seq(S)]
  /\ Held(uart) <= FifoSize
PortTyped ==
  /\ SerialInv /\ UartTyped
  /\ debug_port \in Nat
  /\ serial_pc = "start" => debug_port = 0
  /\ serial_pc = "init" => debug_port # 0
  /\ serial_pc # "start" /\ debug_port = 0 => step = 1

LEMMA UartStays == ASSUME UartTyped, UNCHANGED uart PROVE UartTyped'
  BY DEF UartTyped, Held

LEMMA RegisterTyped ==
  ASSUME UartTyped, NEW value \in Bytes,
         NEW f \in {"ier", "dll", "dlm", "fcr", "lcr", "mcr"},
         uart' = [uart EXCEPT ![f] = value]
  PROVE  UartTyped'
<1>1. PICK S : uart \in [there : BOOLEAN, ier : Bytes, dll : Bytes, dlm : Bytes,
                         fcr : Bytes, lcr : Bytes, mcr : Bytes, fw : Nat,
                         tx : Seq(S)]
  BY DEF UartTyped
<1>2. uart' \in [there : BOOLEAN, ier : Bytes, dll : Bytes, dlm : Bytes,
                 fcr : Bytes, lcr : Bytes, mcr : Bytes, fw : Nat, tx : Seq(S)]
  BY <1>1
<1>3. uart'.fw = uart.fw /\ uart'.tx = uart.tx  BY <1>1
<1> QED  BY <1>2, <1>3 DEF UartTyped, Held

LEMMA FcrTyped ==
  ASSUME UartTyped, NEW value \in Bytes, uart' = SetFcr(uart, value)
  PROVE  UartTyped'
<1>1. PICK S : uart \in [there : BOOLEAN, ier : Bytes, dll : Bytes, dlm : Bytes,
                         fcr : Bytes, lcr : Bytes, mcr : Bytes, fw : Nat,
                         tx : Seq(S)]
  BY DEF UartTyped
<1>2. Held(uart) <= FifoSize  BY DEF UartTyped
<1>3. CASE Empties(uart, value)
  <2>1. uart' = [uart EXCEPT !.fcr = value, !.fw = 0, !.tx = <<>>]
    BY <1>3 DEF SetFcr
  <2>2. <<>> \in Seq(S) /\ 0 \in Nat  OBVIOUS
  <2>3. uart' \in [there : BOOLEAN, ier : Bytes, dll : Bytes, dlm : Bytes,
                   fcr : Bytes, lcr : Bytes, mcr : Bytes, fw : Nat, tx : Seq(S)]
    BY <1>1, <2>1, <2>2
  <2>4. uart'.fw = 0 /\ uart'.tx = <<>>  BY <1>1, <2>1
  <2>5. Held(uart)' = 0  BY <2>4 DEF Held
  <2> QED  BY <2>3, <2>5, SerialAssumption DEF UartTyped
<1>4. CASE ~Empties(uart, value)
  <2>1. uart' = [uart EXCEPT !.fcr = value, !.fw = uart.fw, !.tx = uart.tx]
    BY <1>4 DEF SetFcr
  <2>2. uart' \in [there : BOOLEAN, ier : Bytes, dll : Bytes, dlm : Bytes,
                   fcr : Bytes, lcr : Bytes, mcr : Bytes, fw : Nat, tx : Seq(S)]
    BY <1>1, <2>1
  <2>3. uart'.fw = uart.fw /\ uart'.tx = uart.tx  BY <1>1, <2>1
  <2> QED  BY <1>2, <2>2, <2>3 DEF UartTyped, Held
<1> QED  BY <1>3, <1>4

LEMMA TransmitTyped ==
  ASSUME UartTyped, NEW c, uart' = Transmit(uart, c)
  PROVE  UartTyped'
<1>1. PICK S : uart \in [there : BOOLEAN, ier : Bytes, dll : Bytes, dlm : Bytes,
                         fcr : Bytes, lcr : Bytes, mcr : Bytes, fw : Nat,
                         tx : Seq(S)]
  BY DEF UartTyped
<1>2. CASE ~(Held(uart) < Room(uart))
  BY <1>2, UartStays DEF Transmit
<1>3. CASE Held(uart) < Room(uart)
  <2>1. uart' = [uart EXCEPT !.tx = Append(uart.tx, c)]
    BY <1>3 DEF Transmit
  <2>2. /\ uart.tx \in Seq(S) /\ uart.fw \in Nat /\ uart.tx \in Seq(S \union {c})
    BY <1>1, SequencesGrow
  <2>3. /\ Append(uart.tx, c) \in Seq(S \union {c})
        /\ Len(Append(uart.tx, c)) = Len(uart.tx) + 1 /\ Len(uart.tx) \in Nat
    BY <2>2
  <2>4. uart' \in [there : BOOLEAN, ier : Bytes, dll : Bytes, dlm : Bytes,
                   fcr : Bytes, lcr : Bytes, mcr : Bytes, fw : Nat,
                   tx : Seq(S \union {c})]
    BY <1>1, <2>1, <2>3
  <2>5. uart'.fw = uart.fw /\ uart'.tx = Append(uart.tx, c)  BY <1>1, <2>1
  <2>6. Held(uart)' = Held(uart) + 1 /\ Held(uart) \in Nat
    BY <2>2, <2>3, <2>5 DEF Held
  <2>7. Room(uart) <= FifoSize /\ Room(uart) \in Nat
    BY SerialAssumption DEF Room
  <2>8. Held(uart)' <= FifoSize  BY <1>3, <2>6, <2>7, SerialAssumption
  <2> QED  BY <2>4, <2>8 DEF UartTyped
<1> QED  BY <1>2, <1>3

LEMMA DrainTyped == ASSUME UartTyped, Drain PROVE UartTyped'
<1>1. PICK S : uart \in [there : BOOLEAN, ier : Bytes, dll : Bytes, dlm : Bytes,
                         fcr : Bytes, lcr : Bytes, mcr : Bytes, fw : Nat,
                         tx : Seq(S)]
  BY DEF UartTyped
<1>2. Held(uart) <= FifoSize /\ uart.fw \in Nat /\ uart.tx \in Seq(S)
  BY <1>1 DEF UartTyped
<1>3. CASE uart.fw > 0 /\ uart' = [uart EXCEPT !.fw = uart.fw - 1]
  <2>1. uart.fw - 1 \in Nat  BY <1>2, <1>3
  <2>2. uart' \in [there : BOOLEAN, ier : Bytes, dll : Bytes, dlm : Bytes,
                   fcr : Bytes, lcr : Bytes, mcr : Bytes, fw : Nat, tx : Seq(S)]
    BY <1>1, <1>3, <2>1
  <2>3. uart'.fw = uart.fw - 1 /\ uart'.tx = uart.tx  BY <1>1, <1>3
  <2>4. Held(uart)' <= FifoSize  BY <1>2, <2>3, SerialAssumption DEF Held
  <2> QED  BY <2>2, <2>4 DEF UartTyped
<1>4. CASE uart.tx # <<>> /\ uart' = [uart EXCEPT !.tx = Tail(uart.tx)]
  <2>1. /\ Tail(uart.tx) \in Seq(S) /\ Len(Tail(uart.tx)) = Len(uart.tx) - 1
        /\ Len(uart.tx) \in Nat
    BY <1>2, <1>4
  <2>2. uart' \in [there : BOOLEAN, ier : Bytes, dll : Bytes, dlm : Bytes,
                   fcr : Bytes, lcr : Bytes, mcr : Bytes, fw : Nat, tx : Seq(S)]
    BY <1>1, <1>4, <2>1
  <2>3. uart'.fw = uart.fw /\ uart'.tx = Tail(uart.tx)  BY <1>1, <1>4
  <2>4. Held(uart)' <= FifoSize  BY <1>2, <2>1, <2>3, SerialAssumption DEF Held
  <2> QED  BY <2>2, <2>4 DEF UartTyped
<1> QED  BY <1>3, <1>4 DEF Drain

LEMMA InitStepTyped ==
  ASSUME UartTyped, InitStep, step \in 1 .. 11 PROVE UartTyped'
<1> DEFINE value == InitWrites[step][2]
<1>1. uart' = WriteRegister(uart, InitWrites[step][1], value)
  BY DEF InitStep
<1>2. CASE ~uart.there  BY <1>1, <1>2, UartStays DEF WriteRegister
<1>3. CASE uart.there /\ step \in {1, 11}
  <2>1. uart' = [uart EXCEPT !.mcr = value] /\ value \in Bytes
    BY <1>1, <1>3, Writes DEF WriteRegister, Bytes
  <2> HIDE DEF value
  <2> QED  BY <2>1, RegisterTyped
<1>4. CASE uart.there /\ step \in {2, 6, 9}
  <2>1. uart' = [uart EXCEPT !.lcr = value] /\ value \in Bytes
    BY <1>1, <1>4, Writes DEF WriteRegister, Bytes
  <2> HIDE DEF value
  <2> QED  BY <2>1, RegisterTyped
<1>5. CASE uart.there /\ step = 3
  <2>1. \/ uart' = [uart EXCEPT !.ier = value]
        \/ uart' = [uart EXCEPT !.dlm = value]
    BY <1>1, <1>5, Writes DEF WriteRegister
  <2>2. value = 0  BY <1>5, Writes
  <2> QED  BY <2>1, <2>2, RegisterTyped DEF Bytes
<1>6. CASE uart.there /\ step = 8
  <2>1. \/ uart' = [uart EXCEPT !.ier = value]
        \/ uart' = [uart EXCEPT !.dlm = value]
    BY <1>1, <1>6, Writes DEF WriteRegister
  <2>2. value = 0  BY <1>6, Writes
  <2> QED  BY <2>1, <2>2, RegisterTyped DEF Bytes
<1>7. CASE uart.there /\ step = 7
  <2>1. \/ uart' = [uart EXCEPT !.dll = value]
        \/ uart' = Transmit(uart, "junk")
    BY <1>1, <1>7, Writes DEF WriteRegister
  <2>2. value = 1  BY <1>7, Writes
  <2> QED  BY <2>1, <2>2, RegisterTyped, TransmitTyped DEF Bytes
<1>8. CASE uart.there /\ step \in {4, 10}
  <2>1. uart' = SetFcr(uart, value) /\ value \in {0, 7}
    BY <1>1, <1>8, Writes DEF WriteRegister
  <2> QED  BY <2>1, FcrTyped DEF Bytes
<1>9. CASE uart.there /\ step = 5
  BY <1>1, <1>9, Writes, UartStays DEF WriteRegister
<1> QED  BY <1>2, <1>3, <1>4, <1>5, <1>6, <1>7, <1>8, <1>9

LEMMA PortQuiet ==
  ASSUME PortTyped, UNCHANGED portVars PROVE PortTyped'
<1>1. SerialInv'  BY QuietInv DEF PortTyped
<1>2. /\ debug_port' = debug_port /\ uart' = uart /\ serial_pc' = serial_pc
      /\ step' = step
  BY DEF portVars
<1>3. UartTyped'  BY <1>2, UartStays DEF PortTyped
<1> QED  BY <1>1, <1>2, <1>3 DEF PortTyped

LEMMA PortStepTyped ==
  ASSUME PortTyped, SerialStep \/ Drain PROVE PortTyped'
<1>1. CASE InitStep
  <2>1. /\ step \in 1 .. 11 /\ serial_pc = "init" /\ debug_port' = debug_port
        /\ serial_pc' \in {"idle", "init"}
    BY <1>1 DEF InitStep, PortTyped, SerialInv
  <2> QED  BY <1>1, <2>1, InitStepInv, InitStepTyped DEF PortTyped
<1>2. CASE PutChar
  <2>1. /\ serial_pc = "idle" /\ serial_pc' = "wait"
        /\ debug_port' = debug_port /\ step' = step
        /\ uart' = WriteThr(uart, Head(out))
    BY <1>2 DEF PutChar, AfterWrite
  <2>2. UartTyped'
    BY <2>1, UartStays, TransmitTyped DEF WriteThr, PortTyped
  <2> QED  BY <1>2, <2>1, <2>2, PutCharInv DEF PortTyped
<1>3. CASE SeeEmpty
  <2>1. /\ serial_pc = "wait" /\ serial_pc' = "idle"
        /\ debug_port' = debug_port /\ step' = step /\ uart' = uart
    BY <1>3 DEF SeeEmpty
  <2>2. UartTyped'  BY <2>1, UartStays DEF PortTyped
  <2> QED  BY <1>3, <2>1, <2>2, SeeEmptyInv DEF PortTyped
<1>4. CASE Drain
  <2>1. /\ serial_pc' = serial_pc /\ debug_port' = debug_port /\ step' = step
    BY <1>4 DEF Drain
  <2>2. UartTyped'  BY <1>4, DrainTyped DEF PortTyped
  <2> QED  BY <1>4, <2>1, <2>2, DrainInv DEF PortTyped
<1> QED  BY <1>1, <1>2, <1>3, <1>4 DEF SerialStep

LEMMA PortInitTyped ==
  ASSUME PortTyped, NEW io_base \in Nat, LoaderSerialInit(io_base)
  PROVE  PortTyped'
<1>1. /\ serial_pc = "start" /\ debug_port' = io_base /\ step' = step
      /\ serial_pc' = IF io_base = 0 THEN "idle" ELSE "init"
      /\ uart' = uart
  BY DEF LoaderSerialInit
<1>2. step = 1  BY <1>1 DEF PortTyped, SerialInv
<1>3. UartTyped'  BY <1>1, UartStays DEF PortTyped
<1> QED  BY <1>1, <1>2, <1>3, StartInv DEF PortTyped

-----------------------------------------------------------------------------
(* The screen.  Where the cursor is at each character of a text, the       *)
(* lines, and the rows they start on are functions by recursion; these say *)
(* that each is the one that its definition describes.                     *)
LEMMA RowArithmetic ==
  /\ Columns \in Nat \ {0}
  /\ \A at \in Nat : /\ at \div Columns \in Nat
                     /\ at < NextRow(at) /\ NextRow(at) \in Nat
  /\ \A row, at \in Nat : /\ row * Columns \in Nat
                          /\ (row * Columns + at) \div Columns = row + at \div Columns
<1>1. Columns \in Nat \ {0}  BY ConsoleAssumption
<1>2. ASSUME NEW at \in Nat
      PROVE  /\ at \div Columns \in Nat
             /\ at < (at \div Columns + 1) * Columns
             /\ (at \div Columns + 1) * Columns \in Nat
  BY <1>1
<1>3. ASSUME NEW row \in Nat, NEW at \in Nat
      PROVE  /\ row * Columns \in Nat
             /\ (row * Columns + at) \div Columns = row + at \div Columns
  <2>1. row * Columns \in Nat  BY <1>1
  <2> DEFINE q == at \div Columns
             r == at % Columns
  <2>2. q \in Nat /\ r \in 0 .. Columns - 1 /\ at = q * Columns + r  BY <1>1
  <2>3. row * Columns + at = (row + q) * Columns + r  BY <1>1, <2>1, <2>2
  <2> HIDE DEF q, r
  <2>4. ((row + q) * Columns + r) \div Columns = row + q
    BY <1>1, <2>2
  <2> QED  BY <2>1, <2>3, <2>4 DEF q
<1> QED  BY <1>1, <1>2, <1>3 DEF NextRow

LEMMA AfterType ==
  ASSUME NEW at \in Nat, NEW c
  PROVE  After(at, c) \in Nat /\ at < After(at, c)
  BY RowArithmetic DEF After

LEMMA WalkIs ==
  ASSUME NEW S, NEW text \in Seq(S), cursor \in Nat
  PROVE  /\ Walk(text) \in [0 .. Len(text) -> Nat]
         /\ Walk(text)[0] = cursor
         /\ \A k \in 1 .. Len(text) :
              Walk(text)[k] = After(Walk(text)[k - 1], text[k])
<1> DEFINE n == Len(text)
           d == [k \in 0 .. n |-> [at \in Nat |-> After(at, text[k])]]
           g == Walk(text)
<1>1. n \in Nat /\ 0 \in Int /\ n \in Int /\ 0 <= n  OBVIOUS
<1>2. d \in [0 .. n -> [Nat -> Nat]]  BY AfterType
<1>3. PICK f \in [0 .. n -> Nat] : Recursive(f, 0, n, cursor, d)
  <2> HIDE DEF d, n
  <2> QED  BY <1>1, <1>2, RecursionExists
<1>4. f = [k \in 0 .. n |-> IF k = 0 THEN cursor ELSE After(f[k - 1], text[k])]
  <2>1. ASSUME NEW k \in 0 .. n
        PROVE  f[k] = IF k = 0 THEN cursor ELSE After(f[k - 1], text[k])
    <3>1. k # 0 => f[k - 1] \in Nat  BY <1>1
    <3>2. k # 0 => d[k][f[k - 1]] = After(f[k - 1], text[k])  BY <3>1
    <3> HIDE DEF d, n
    <3> QED  BY <1>3, <3>2 DEF Recursive
  <2> QED  BY <2>1
<1>5. g = [k \in 0 .. n |-> IF k = 0 THEN cursor ELSE After(g[k - 1], text[k])]
  BY <1>4, Zenon DEF Walk
<1> HIDE DEF d, n, g
<1>6. g[0] = cursor /\ \A k \in 1 .. n : g[k] = After(g[k - 1], text[k])
  BY <1>1, <1>5
<1>7. \A k \in 0 .. n : g[k] \in Nat
  <2>1. ASSUME NEW k \in 0 .. n, k # 0, g[k - 1] \in Nat PROVE g[k] \in Nat
    BY <1>1, <1>6, <2>1, AfterType
  <2> QED  BY <1>1, <1>6, <2>1, StaysIn
<1> QED  BY <1>5, <1>6, <1>7 DEF g, n

Pages == Seq(Seq(Chars)) \ {<<>>}
LEMMA PageFacts ==
  ASSUME NEW ls \in Pages
  PROVE  /\ ls \in Seq(Seq(Chars)) /\ Len(ls) \in Nat \ {0}
         /\ \A n \in 1 .. Len(ls) : ls[n] \in Seq(Chars) /\ Len(ls[n]) \in Nat
  BY DEF Pages

LEMMA AddedIs ==
  ASSUME NEW ls \in Pages, NEW c \in Chars
  PROVE  /\ Added(ls, c) \in Pages
         /\ c = "\n" =>
              /\ Len(Added(ls, c)) = Len(ls) + 1
              /\ \A n \in 1 .. Len(ls) : Added(ls, c)[n] = ls[n]
              /\ Added(ls, c)[Len(ls) + 1] = <<>>
         /\ c # "\n" =>
              /\ Len(Added(ls, c)) = Len(ls)
              /\ \A n \in 1 .. Len(ls) - 1 : Added(ls, c)[n] = ls[n]
              /\ Added(ls, c)[Len(ls)] = Append(ls[Len(ls)], c)
<1> DEFINE last == Len(ls)
<1>1. /\ ls \in Seq(Seq(Chars)) /\ last \in Nat \ {0}
      /\ \A n \in 1 .. last : ls[n] \in Seq(Chars)
  BY PageFacts
<1>2. CASE c = "\n"
  <2>1. Added(ls, c) = Append(ls, <<>>)  BY <1>2 DEF Added
  <2> DEFINE new == Append(ls, <<>>)
  <2>2. <<>> \in Seq(Chars)  OBVIOUS
  <2>3. /\ new \in Seq(Seq(Chars)) /\ Len(new) = last + 1
        /\ new[last + 1] = <<>>
        /\ \A n \in 1 .. last : new[n] = ls[n]
    BY <1>1, <2>2
  <2> HIDE DEF new
  <2>4. new # <<>>  BY <1>1, <2>3
  <2> QED  BY <1>2, <2>1, <2>3, <2>4 DEF new, Pages
<1>3. CASE c # "\n"
  <2> DEFINE new == Append(ls[last], c)
  <2>1. Added(ls, c) = [ls EXCEPT ![last] = new]  BY <1>3 DEF Added
  <2>2. new \in Seq(Chars)  BY <1>1
  <2> HIDE DEF new
  <2>3. /\ [ls EXCEPT ![last] = new] \in Seq(Seq(Chars))
        /\ Len([ls EXCEPT ![last] = new]) = last
        /\ [ls EXCEPT ![last] = new][last] = new
        /\ \A n \in 1 .. last - 1 : [ls EXCEPT ![last] = new][n] = ls[n]
    BY <1>1, <2>2
  <2>4. Added(ls, c) # <<>>  BY <1>1, <2>1, <2>3
  <2> QED  BY <1>3, <2>1, <2>3, <2>4 DEF new, Pages
<1> QED  BY <1>2, <1>3

LEMMA AddingIs ==
  ASSUME NEW text \in Seq(Chars), lines \in Pages
  PROVE  /\ Adding(text) \in [0 .. Len(text) -> Pages]
         /\ Adding(text)[0] = lines
         /\ \A k \in 1 .. Len(text) :
              Adding(text)[k] = Added(Adding(text)[k - 1], text[k])
<1> DEFINE n == Len(text)
           d == [k \in 0 .. n |-> [ls \in Pages |-> IF k = 0 THEN lines
                                                    ELSE Added(ls, text[k])]]
           g == Adding(text)
<1>1. n \in Nat /\ 0 \in Int /\ n \in Int /\ 0 <= n
      /\ \A k \in 1 .. n : text[k] \in Chars
  OBVIOUS
<1>2. d \in [0 .. n -> [Pages -> Pages]]
  <2>1. ASSUME NEW k \in 0 .. n, NEW ls \in Pages
        PROVE  (IF k = 0 THEN lines ELSE Added(ls, text[k])) \in Pages
    <3>1. k # 0 => text[k] \in Chars  BY <1>1
    <3> QED  BY <3>1, AddedIs
  <2> HIDE DEF n
  <2> QED  BY <2>1
<1>3. PICK f \in [0 .. n -> Pages] : Recursive(f, 0, n, lines, d)
  <2> HIDE DEF d, n
  <2> QED  BY <1>1, <1>2, RecursionExists
<1>4. f = [k \in 0 .. n |-> IF k = 0 THEN lines ELSE Added(f[k - 1], text[k])]
  <2>1. ASSUME NEW k \in 0 .. n
        PROVE  f[k] = IF k = 0 THEN lines ELSE Added(f[k - 1], text[k])
    <3>1. k # 0 => f[k - 1] \in Pages  BY <1>1
    <3>2. k # 0 => d[k][f[k - 1]] = Added(f[k - 1], text[k])  BY <3>1
    <3> HIDE DEF d, n
    <3> QED  BY <1>3, <3>2 DEF Recursive
  <2> QED  BY <2>1
<1>5. g = [k \in 0 .. n |-> IF k = 0 THEN lines ELSE Added(g[k - 1], text[k])]
  BY <1>4, Zenon DEF Adding
<1> HIDE DEF d, n, g
<1>6. g[0] = lines /\ \A k \in 1 .. n : g[k] = Added(g[k - 1], text[k])
  BY <1>1, <1>5
<1>7. \A k \in 0 .. n : g[k] \in Pages
  <2>1. ASSUME NEW k \in 0 .. n, k # 0, g[k - 1] \in Pages PROVE g[k] \in Pages
    <3>1. k \in 1 .. n  BY <2>1
    <3> QED  BY <1>1, <1>6, <2>1, <3>1, AddedIs
  <2> QED  BY <1>1, <1>6, <2>1, StaysIn
<1> QED  BY <1>5, <1>6, <1>7 DEF g, n

LEMMA FirstRowsIs ==
  ASSUME NEW ls \in Pages
  PROVE  /\ FirstRows(ls) \in [1 .. Len(ls) -> Nat]
         /\ FirstRows(ls)[1] = 0
         /\ \A n \in 2 .. Len(ls) :
              FirstRows(ls)[n] = FirstRows(ls)[n - 1] + Len(ls[n - 1]) \div Columns + 1
<1> DEFINE last == Len(ls)
           rows(n) == Len(ls[n - 1]) \div Columns + 1
           d == [n \in 1 .. last |-> [row \in Nat |-> IF n = 1 THEN 0
                                                      ELSE row + rows(n)]]
           g == FirstRows(ls)
<1>1. last \in Nat /\ 1 \in Int /\ last \in Int /\ 1 <= last /\ 0 \in Nat
  BY PageFacts
<1>2. ASSUME NEW n \in 2 .. last PROVE rows(n) \in Nat
  <2>1. n - 1 \in 1 .. last  BY <1>1
  <2>2. Len(ls[n - 1]) \in Nat  BY <2>1, PageFacts
  <2>3. Len(ls[n - 1]) \div Columns \in Nat  BY <2>2, RowArithmetic
  <2> QED  BY <2>3
<1>3. d \in [1 .. last -> [Nat -> Nat]]
  <2>1. ASSUME NEW n \in 1 .. last, NEW row \in Nat
        PROVE  (IF n = 1 THEN 0 ELSE row + rows(n)) \in Nat
    <3>1. n # 1 => n \in 2 .. last  BY <1>1
    <3> HIDE DEF rows
    <3> QED  BY <1>2, <3>1
  <2> HIDE DEF last, rows
  <2> QED  BY <2>1
<1>4. PICK f \in [1 .. last -> Nat] : Recursive(f, 1, last, 0, d)
  <2> HIDE DEF d, last
  <2> QED  BY <1>1, <1>3, RecursionExists
<1>5. f = [n \in 1 .. last |-> IF n = 1 THEN 0
             ELSE f[n - 1] + Len(ls[n - 1]) \div Columns + 1]
  <2>1. ASSUME NEW n \in 1 .. last
        PROVE  f[n] = IF n = 1 THEN 0
                      ELSE f[n - 1] + Len(ls[n - 1]) \div Columns + 1
    <3>1. n # 1 => f[n - 1] \in Nat /\ n \in 2 .. last  BY <1>1
    <3>2. n # 1 => d[n][f[n - 1]] = f[n - 1] + rows(n)
      <4> HIDE DEF rows
      <4> QED  BY <3>1
    <3>3. f[n] = IF n = 1 THEN 0 ELSE d[n][f[n - 1]]
      <4> HIDE DEF d, last
      <4> QED  BY <1>4 DEF Recursive
    <3>4. n # 1 => Len(ls[n - 1]) \div Columns \in Nat
      <4>1. n # 1 => n - 1 \in 1 .. last  BY <3>1
      <4>2. n # 1 => Len(ls[n - 1]) \in Nat  BY <4>1, PageFacts
      <4> QED  BY <4>2, RowArithmetic
    <3> HIDE DEF d, last
    <3> QED  BY <3>1, <3>2, <3>3, <3>4
  <2> HIDE DEF last
  <2> QED  BY <2>1
<1>6. g = [n \in 1 .. last |-> IF n = 1 THEN 0
             ELSE g[n - 1] + Len(ls[n - 1]) \div Columns + 1]
  BY <1>5, Zenon DEF FirstRows
<1> HIDE DEF d, last, g
<1>7. /\ g[1] = 0
      /\ \A n \in 2 .. last :
           g[n] = g[n - 1] + Len(ls[n - 1]) \div Columns + 1
  BY <1>1, <1>6
<1>8. \A n \in 1 .. last : g[n] \in Nat
  <2>1. ASSUME NEW n \in 1 .. last, n # 1, g[n - 1] \in Nat PROVE g[n] \in Nat
    <3>1. n \in 2 .. last  BY <1>1, <2>1
    <3>2. Len(ls[n - 1]) \div Columns \in Nat
      <4>1. n - 1 \in 1 .. Len(ls)  BY <1>1, <3>1 DEF last
      <4>2. Len(ls[n - 1]) \in Nat  BY <4>1, PageFacts
      <4> QED  BY <4>2, RowArithmetic
    <3> QED  BY <1>7, <2>1, <3>1, <3>2
  <2>2. g[1] \in Nat  BY <1>1, <1>7
  <2> QED  BY <1>1, <2>1, <2>2, StaysIn
<1> QED  BY <1>6, <1>7, <1>8 DEF g, last

(* A line starts where the lines before it end, whatever follows.          *)
LEMMA FirstRowsAgree ==
  ASSUME NEW ls \in Pages, NEW ms \in Pages,
         NEW n \in 1 .. Len(ls), n <= Len(ms),
         \A i \in 1 .. n - 1 : ls[i] = ms[i]
  PROVE  \A i \in 1 .. n : FirstRows(ls)[i] = FirstRows(ms)[i]
<1> DEFINE f == FirstRows(ls)
           g == FirstRows(ms)
           T == {i \in 1 .. n : f[i] = g[i]}
<1>1. /\ Len(ls) \in Nat /\ Len(ms) \in Nat /\ n \in Int /\ 1 \in Int /\ 1 <= n
  BY PageFacts
<1>2. /\ f[1] = 0 /\ g[1] = 0
      /\ \A i \in 2 .. Len(ls) : f[i] = f[i - 1] + Len(ls[i - 1]) \div Columns + 1
      /\ \A i \in 2 .. Len(ms) : g[i] = g[i - 1] + Len(ms[i - 1]) \div Columns + 1
  BY FirstRowsIs
<1> HIDE DEF f, g
<1>3. 1 \in T  BY <1>1, <1>2
<1>4. ASSUME NEW i \in 1 .. n, i # 1, i - 1 \in T PROVE i \in T
  <2>1. i \in 2 .. Len(ls) /\ i \in 2 .. Len(ms) /\ i - 1 \in 1 .. n - 1
    BY <1>1, <1>4
  <2>2. f[i - 1] = g[i - 1] /\ ls[i - 1] = ms[i - 1]  BY <1>4, <2>1
  <2>3. f[i] = g[i]  BY <1>2, <2>1, <2>2
  <2> QED  BY <2>3
<1> HIDE DEF T
<1>5. \A i \in 1 .. n : i \in T  BY <1>1, <1>3, <1>4, IntervalInduction
<1> QED  BY <1>5 DEF T, f, g

(* Every character of the lines is where reading from the top finds it,    *)
(* behind the cursor, which is where the last line ends.                   *)
OnScreen(ls, at, cs) ==
  /\ at = FirstRows(ls)[Len(ls)] * Columns + Len(ls[Len(ls)])
  /\ \A n \in 1 .. Len(ls) : \A k \in 1 .. Len(ls[n]) :
       /\ FirstRows(ls)[n] * Columns + k - 1 < at
       /\ FirstRows(ls)[n] * Columns + k - 1 \in Screen =>
            cs[FirstRows(ls)[n] * Columns + k - 1] = ls[n][k]

LEMMA CharacterShown ==
  ASSUME NEW ls \in Pages, NEW c \in Chars, NEW at \in Nat, NEW cs, NEW cs2,
         OnScreen(ls, at, cs),
         \A q \in Screen : q < at => cs2[q] = cs[q],
         c # "\n" /\ at \in Screen => cs2[at] = c
  PROVE  OnScreen(Added(ls, c), After(at, c), cs2)
<1> DEFINE new  == Added(ls, c)
           last == Len(ls)
           L    == Len(ls[last])
           F    == FirstRows(ls)
           G    == FirstRows(new)
           Place(R, n, k) == R[n] * Columns + k - 1
<1>1. /\ last \in Nat \ {0} /\ L \in Nat /\ last \in 1 .. last
      /\ \A n \in 1 .. last : ls[n] \in Seq(Chars) /\ Len(ls[n]) \in Nat
  <2>1. last \in Nat \ {0} /\ last \in 1 .. last  BY PageFacts
  <2> QED  BY <2>1, PageFacts
<1>2. /\ new \in Pages
      /\ c = "\n" => /\ Len(new) = last + 1 /\ new[last + 1] = <<>>
                     /\ \A n \in 1 .. last : new[n] = ls[n]
      /\ c # "\n" => /\ Len(new) = last /\ new[last] = Append(ls[last], c)
                     /\ \A n \in 1 .. last - 1 : new[n] = ls[n]
  BY AddedIs
<1>3. /\ F \in [1 .. last -> Nat] /\ G \in [1 .. Len(new) -> Nat]
      /\ \A n \in 2 .. Len(new) : G[n] = G[n - 1] + Len(new[n - 1]) \div Columns + 1
  BY <1>2, FirstRowsIs
<1>4. \A n \in 1 .. last : G[n] = F[n]
  <2>1. last <= Len(new) /\ \A i \in 1 .. last - 1 : ls[i] = new[i]
    BY <1>1, <1>2
  <2> HIDE DEF new
  <2>2. \A n \in 1 .. last : F[n] = G[n]
    BY <1>1, <1>2, <2>1, FirstRowsAgree
  <2> QED  BY <2>2
<1>5. /\ at = F[last] * Columns + L
      /\ \A n \in 1 .. last : \A k \in 1 .. Len(ls[n]) :
           /\ Place(F, n, k) < at
           /\ Place(F, n, k) \in Screen => cs[Place(F, n, k)] = ls[n][k]
  BY DEF OnScreen
<1>6. ASSUME NEW n \in 1 .. last, NEW k \in 1 .. Len(ls[n])
      PROVE  /\ Place(G, n, k) < at
             /\ Place(G, n, k) \in Screen => cs2[Place(G, n, k)] = ls[n][k]
  <2>1. Place(G, n, k) = Place(F, n, k)  BY <1>4
  <2>2. /\ Place(F, n, k) < at
        /\ Place(F, n, k) \in Screen => cs[Place(F, n, k)] = ls[n][k]
    BY <1>5
  <2> HIDE DEF Place
  <2> QED  BY <2>1, <2>2
<1> HIDE DEF new, F, G
<1>7. CASE c = "\n"
  <2>1. After(at, c) = NextRow(at) /\ at < NextRow(at) /\ NextRow(at) \in Nat
    BY <1>7, RowArithmetic DEF After
  <2>2. /\ Len(new) = last + 1 /\ new[last + 1] = <<>>
        /\ \A n \in 1 .. last : new[n] = ls[n]
    BY <1>2, <1>7
  <2>3. G[last + 1] = F[last] + L \div Columns + 1
    <3>1. last + 1 \in 2 .. Len(new) /\ (last + 1) - 1 = last  BY <1>1, <2>2
    <3>2. G[last + 1] = G[last] + Len(new[last]) \div Columns + 1
      BY <1>3, <3>1
    <3> QED  BY <1>1, <1>4, <2>2, <3>2
  <2>4. NextRow(at) = G[last + 1] * Columns + 0
    <3>1. F[last] \in Nat  BY <1>1, <1>3
    <3>2. at \div Columns = F[last] + L \div Columns
      BY <1>1, <1>5, <3>1, RowArithmetic
    <3>3. NextRow(at) = (F[last] + L \div Columns + 1) * Columns
      BY <3>2 DEF NextRow
    <3>4. (F[last] + L \div Columns + 1) * Columns \in Nat
      BY <2>1, <3>3
    <3> QED  BY <2>3, <3>3, <3>4
  <2>5. Len(new[last + 1]) = 0  BY <2>2
  <2>6. ASSUME NEW n \in 1 .. Len(new), NEW k \in 1 .. Len(new[n])
        PROVE  /\ Place(G, n, k) < NextRow(at)
               /\ Place(G, n, k) \in Screen => cs2[Place(G, n, k)] = new[n][k]
    <3>1. n # last + 1  BY <2>5
    <3>2. n \in 1 .. last /\ new[n] = ls[n]  BY <1>1, <2>2, <3>1
    <3>3. Place(G, n, k) < at
          /\ (Place(G, n, k) \in Screen => cs2[Place(G, n, k)] = new[n][k])
      BY <1>6, <3>2
    <3>4. Place(G, n, k) \in Int
      <4>1. G[n] * Columns \in Nat  BY <1>3, RowArithmetic
      <4> QED  BY <4>1
    <3> HIDE DEF Place
    <3> QED  BY <2>1, <3>3, <3>4
  <2>7. NextRow(at) = G[Len(new)] * Columns + Len(new[Len(new)])
    BY <2>2, <2>4, <2>5
  <2> QED  BY <2>1, <2>6, <2>7 DEF OnScreen, new, G
<1>8. CASE c # "\n"
  <2>1. After(at, c) = at + 1  BY <1>8 DEF After
  <2>2. /\ Len(new) = last /\ new[last] = Append(ls[last], c)
        /\ \A n \in 1 .. last - 1 : new[n] = ls[n]
    BY <1>2, <1>8
  <2>3. /\ Len(new[last]) = L + 1 /\ new[last][L + 1] = c
        /\ \A k \in 1 .. L : new[last][k] = ls[last][k]
    BY <1>1, <2>2
  <2>4. G[last] * Columns \in Nat /\ at = G[last] * Columns + L
    <3>1. G[last] \in Nat /\ G[last] = F[last]  BY <1>1, <1>3, <1>4
    <3> QED  BY <1>5, <3>1, RowArithmetic
  <2>5. at + 1 = G[Len(new)] * Columns + Len(new[Len(new)])
    BY <1>1, <2>2, <2>3, <2>4
  <2>6. ASSUME NEW n \in 1 .. Len(new), NEW k \in 1 .. Len(new[n])
        PROVE  /\ Place(G, n, k) < at + 1
               /\ Place(G, n, k) \in Screen => cs2[Place(G, n, k)] = new[n][k]
    <3>1. CASE n = last /\ k = L + 1
      <4>1. Place(G, n, k) = at  BY <1>1, <2>4, <3>1
      <4>2. new[n][k] = c  BY <2>3, <3>1
      <4> HIDE DEF Place
      <4> QED  BY <1>8, <4>1, <4>2
    <3>2. CASE ~(n = last /\ k = L + 1)
      <4>1. n \in 1 .. last /\ k \in 1 .. Len(ls[n]) /\ new[n][k] = ls[n][k]
        <5>1. CASE n = last  BY <1>1, <2>2, <2>3, <3>2, <5>1
        <5>2. CASE n # last
          <6>1. n \in 1 .. last - 1 /\ n \in 1 .. last  BY <1>1, <2>2, <5>2
          <6>2. new[n] = ls[n]  BY <2>2, <6>1
          <6> QED  BY <6>1, <6>2
        <5> QED  BY <5>1, <5>2
      <4>2. /\ Place(G, n, k) < at
            /\ Place(G, n, k) \in Screen => cs2[Place(G, n, k)] = new[n][k]
        BY <1>6, <4>1
      <4>3. Place(G, n, k) \in Int
        <5>1. G[n] * Columns \in Nat  BY <1>3, RowArithmetic
        <5> QED  BY <5>1
      <4> HIDE DEF Place
      <4> QED  BY <4>2, <4>3
    <3> QED  BY <3>1, <3>2
  <2> QED  BY <2>1, <2>5, <2>6 DEF OnScreen, new, G
<1> QED  BY <1>7, <1>8

LEMMA WalkGrows ==
  ASSUME NEW S, NEW text \in Seq(S), cursor \in Nat
  PROVE  \A k \in 0 .. Len(text) : \A j \in 0 .. k - 1 :
           Walk(text)[j] < Walk(text)[k]
<1> DEFINE n == Len(text)
           w == Walk(text)
           T == {k \in 0 .. n : \A j \in 0 .. k - 1 : w[j] < w[k]}
<1>1. n \in Nat /\ 0 \in Int /\ n \in Int /\ 0 <= n  OBVIOUS
<1>2. w \in [0 .. n -> Nat] /\ \A k \in 1 .. n : w[k] = After(w[k - 1], text[k])
  BY WalkIs
<1> HIDE DEF w, n
<1>3. 0 \in T  BY <1>1
<1>4. ASSUME NEW k \in 0 .. n, k # 0, k - 1 \in T PROVE k \in T
  <2>1. k \in 1 .. n /\ k - 1 \in 0 .. n  BY <1>1, <1>4
  <2>2. w[k - 1] < w[k] /\ w[k - 1] \in Nat /\ w[k] \in Nat
    BY <1>2, <2>1, AfterType
  <2>3. ASSUME NEW j \in 0 .. k - 1 PROVE w[j] < w[k]
    <3>1. CASE j = k - 1  BY <2>2, <3>1
    <3>2. CASE j # k - 1
      <4>1. j \in 0 .. (k - 1) - 1 /\ j \in 0 .. n  BY <1>1, <3>2
      <4>2. w[j] < w[k - 1] /\ w[j] \in Nat  BY <1>2, <1>4, <4>1
      <4> QED  BY <2>2, <4>2
    <3> QED  BY <3>1, <3>2
  <2> QED  BY <2>3
<1> HIDE DEF T
<1>5. \A k \in 0 .. n : k \in T  BY <1>1, <1>3, <1>4, IntervalInduction
<1> QED  BY <1>5 DEF T, w, n

ScreenInv ==
  /\ cursor \in Nat /\ lines \in Pages /\ DOMAIN cells = Screen
  /\ OnScreen(lines, cursor, cells)

LEMMA DrawShows ==
  ASSUME ScreenInv, NEW text \in Seq(Chars), Draw(text), lines' = Lines(text)
  PROVE  ScreenInv'
<1> DEFINE n == Len(text)
           w == Walk(text)
           a == Adding(text)
           At(k, q) == {j \in 1 .. k : text[j] # "\n" /\ w[j - 1] = q}
           Drawn(k) == [q \in Screen |-> IF At(k, q) = {} THEN cells[q]
                                         ELSE text[CHOOSE j \in At(k, q) : TRUE]]
           T == {k \in 0 .. n : OnScreen(a[k], w[k], Drawn(k))}
<1>1. /\ cursor \in Nat /\ lines \in Pages /\ OnScreen(lines, cursor, cells)
      /\ n \in Nat /\ 0 \in Int /\ n \in Int /\ 0 <= n
      /\ \A k \in 1 .. n : text[k] \in Chars
  BY DEF ScreenInv
<1>2. /\ w \in [0 .. n -> Nat] /\ w[0] = cursor
      /\ \A k \in 1 .. n : w[k] = After(w[k - 1], text[k])
  BY <1>1, WalkIs
<1>3. /\ a \in [0 .. n -> Pages] /\ a[0] = lines
      /\ \A k \in 1 .. n : a[k] = Added(a[k - 1], text[k])
  BY <1>1, AddingIs
<1>4. \A k \in 0 .. n : \A j \in 0 .. k - 1 : w[j] < w[k]
  BY <1>1, WalkGrows
<1>5. cursor' = w[n] /\ cells' = Drawn(n) /\ lines' = a[n]
  BY DEF Draw, Lines
<1> HIDE DEF n, w, a
<1>6. 0 \in T
  <2>1. \A q \in Screen : At(0, q) = {}  OBVIOUS
  <2>2. \A q \in Screen : Drawn(0)[q] = cells[q]  BY <2>1
  <2> HIDE DEF Drawn
  <2>3. OnScreen(lines, cursor, Drawn(0))  BY <1>1, <2>2 DEF OnScreen
  <2>4. OnScreen(a[0], w[0], Drawn(0))  BY <1>2, <1>3, <2>3
  <2> QED  BY <1>1, <2>4
<1>7. ASSUME NEW k \in 0 .. n, k # 0, k - 1 \in T PROVE k \in T
  <2> DEFINE at == w[k - 1]
             c  == text[k]
  <2>1. k \in 1 .. n /\ k - 1 \in 0 .. n  BY <1>1, <1>7
  <2>2. /\ at \in Nat /\ c \in Chars /\ a[k - 1] \in Pages
        /\ w[k] = After(at, c) /\ a[k] = Added(a[k - 1], c)
        /\ OnScreen(a[k - 1], at, Drawn(k - 1))
    <3> HIDE DEF Drawn
    <3> QED  BY <1>1, <1>2, <1>3, <1>7, <2>1
  <2>3. \A j \in 1 .. k - 1 : w[j - 1] < at
    <3> SUFFICES ASSUME NEW j \in 1 .. k - 1 PROVE w[j - 1] < at  OBVIOUS
    <3>1. j - 1 \in 0 .. (k - 1) - 1  BY <2>1
    <3> QED  BY <1>4, <2>1, <3>1
  <2>4. ASSUME NEW q \in Screen, q < at
        PROVE  Drawn(k)[q] = Drawn(k - 1)[q]
    <3>1. q # at  BY <2>2, <2>4
    <3>2. At(k, q) = At(k - 1, q)  BY <2>1, <3>1
    <3> HIDE DEF At
    <3> QED  BY <3>2
  <2>5. ASSUME c # "\n", at \in Screen PROVE Drawn(k)[at] = c
    <3>1. \A j \in 1 .. k - 1 : w[j - 1] # at
      <4>1. ASSUME NEW j \in 1 .. k - 1 PROVE w[j - 1] \in Nat
        <5>1. j - 1 \in 0 .. n  BY <1>1, <2>1
        <5> QED  BY <1>2, <5>1
      <4> QED  BY <2>2, <2>3, <4>1
    <3>2. At(k, at) = {k}
      <4>1. k \in At(k, at)  BY <2>1, <2>5
      <4>2. ASSUME NEW j \in At(k, at) PROVE j = k  BY <2>1, <3>1
      <4> HIDE DEF At
      <4> QED  BY <4>1, <4>2
    <3>3. (CHOOSE j \in At(k, at) : TRUE) = k
      <4> HIDE DEF At
      <4>1. (CHOOSE j \in At(k, at) : TRUE) \in {k}  BY <3>2
      <4> QED  BY <4>1
    <3>4. At(k, at) # {}  BY <3>2
    <3> HIDE DEF At
    <3> QED  BY <2>5, <3>3, <3>4
  <2> HIDE DEF Drawn, at, c
  <2>6. OnScreen(Added(a[k - 1], c), After(at, c), Drawn(k))
    BY <2>2, <2>4, <2>5, CharacterShown
  <2> QED  BY <2>2, <2>6
<1>8. OnScreen(a[n], w[n], Drawn(n))
  <2> HIDE DEF T
  <2>1. \A k \in 0 .. n : k \in T  BY <1>1, <1>6, <1>7, IntervalInduction
  <2> USE DEF T
  <2> HIDE DEF Drawn
  <2> QED  BY <1>1, <2>1
<1>9. DOMAIN Drawn(n) = Screen  OBVIOUS
<1> HIDE DEF Drawn
<1>10. OnScreen(lines', cursor', cells')  BY <1>5, <1>8
<1>11. OnScreen(lines, cursor, cells)'  BY <1>10
<1>12. cursor' \in Nat /\ lines' \in Pages  BY <1>1, <1>2, <1>3, <1>5
<1>13. DOMAIN cells' = Screen  BY <1>5, <1>9
<1> QED  BY <1>11, <1>12, <1>13 DEF ScreenInv

-----------------------------------------------------------------------------
(* Numbers in hexadecimal: what loader_serial_put_hex cuts off the right    *)
(* end, and that its digits are the number.                                *)
LEMMA ShiftedIs ==
  ASSUME NEW number \in Nat
  PROVE  /\ Shifted(number) \in [0 .. HexDigits -> Nat]
         /\ Shifted(number)[0] = number
         /\ \A i \in 1 .. HexDigits :
              Shifted(number)[i] = Shifted(number)[i - 1] \div 16
<1> DEFINE d == [i \in 0 .. HexDigits |-> [x \in Nat |-> x \div 16]]
           g == Shifted(number)
<1>1. HexDigits \in Nat /\ 0 \in Int /\ HexDigits \in Int /\ 0 <= HexDigits
  BY SerialAssumption
<1>2. d \in [0 .. HexDigits -> [Nat -> Nat]]
  <2>1. \A x \in Nat : x \div 16 \in Nat  OBVIOUS
  <2> QED  BY <2>1
<1>3. PICK f \in [0 .. HexDigits -> Nat] : Recursive(f, 0, HexDigits, number, d)
  <2> HIDE DEF d
  <2> QED  BY <1>1, <1>2, RecursionExists
<1>4. f = [i \in 0 .. HexDigits |-> IF i = 0 THEN number ELSE f[i - 1] \div 16]
  <2>1. ASSUME NEW i \in 0 .. HexDigits
        PROVE  f[i] = IF i = 0 THEN number ELSE f[i - 1] \div 16
    <3>1. i # 0 => f[i - 1] \in Nat  BY <1>1
    <3>2. i # 0 => d[i][f[i - 1]] = f[i - 1] \div 16  BY <3>1
    <3> HIDE DEF d
    <3> QED  BY <1>3, <3>2 DEF Recursive
  <2> QED  BY <2>1
<1>5. g = [i \in 0 .. HexDigits |-> IF i = 0 THEN number ELSE g[i - 1] \div 16]
  BY <1>4, Zenon DEF Shifted
<1> HIDE DEF d, g
<1>6. g[0] = number /\ \A i \in 1 .. HexDigits : g[i] = g[i - 1] \div 16
  BY <1>1, <1>5
<1>7. \A i \in 0 .. HexDigits : g[i] \in Nat
  <2>1. ASSUME NEW i \in 0 .. HexDigits, i # 0, g[i - 1] \in Nat PROVE g[i] \in Nat
    <3>1. g[i] = g[i - 1] \div 16  BY <1>1, <1>6, <2>1
    <3> QED  BY <2>1, <3>1
  <2> QED  BY <1>1, <1>6, <2>1, StaysIn
<1> QED  BY <1>5, <1>6, <1>7 DEF g

LEMMA DigitIs ==
  ASSUME NEW number \in Nat, NEW i \in 0 .. HexDigits - 1
  PROVE  /\ Digit(number, i) \in 0 .. 15
         /\ Shifted(number)[i] = 16 * Shifted(number)[i + 1] + Digit(number, i)
<1> DEFINE x == Shifted(number)[i]
<1>1. i + 1 \in 1 .. HexDigits /\ i \in 0 .. HexDigits /\ (i + 1) - 1 = i
  BY SerialAssumption
<1>2. x \in Nat /\ Shifted(number)[i + 1] = x \div 16
  <2>1. x \in Nat  BY <1>1, ShiftedIs
  <2>2. Shifted(number)[i + 1] = Shifted(number)[(i + 1) - 1] \div 16
    BY <1>1, ShiftedIs, Zenon
  <2> QED  BY <1>1, <2>1, <2>2, Zenon
<1>3. Digit(number, i) = x % 16  BY DEF Digit
<1> HIDE DEF x
<1>4. (x % 16) \in 0 .. 15 /\ x = 16 * (x \div 16) + (x % 16)  BY <1>2
<1> QED  BY <1>2, <1>3, <1>4 DEF x

LEMMA HexCharsAre ==
  /\ HexChars \in Seq(Chars) /\ Len(HexChars) = 16
  /\ \A d, e \in 0 .. 15 : HexChars[d + 1] = HexChars[e + 1] => d = e
  /\ \A d \in 0 .. 15 : /\ HexChars[d + 1] \in Chars
                        /\ HexChars[d + 1] = "0" <=> d = 0
<1> DEFINE char == [d \in 0 .. 15 |-> HexChars[d + 1]]
<1>1. HexChars \in Seq(Chars) /\ Len(HexChars) = 16
  BY DEF HexChars, Chars, HexLetters
<1>2. \A d \in 0 .. 15 : HexChars[d + 1] = char[d] /\ HexChars[d + 1] \in Chars
  <2>1. \A d \in 0 .. 15 : d + 1 \in 1 .. 16  OBVIOUS
  <2>2. \A d \in 1 .. 16 : HexChars[d] \in Chars
    BY <1>1, ElementOfSeq
  <2> QED  BY <2>1, <2>2
<1>3. /\ char[0] = "0" /\ char[1] = "1" /\ char[2] = "2" /\ char[3] = "3"
      /\ char[4] = "4" /\ char[5] = "5" /\ char[6] = "6" /\ char[7] = "7"
      /\ char[8] = "8" /\ char[9] = "9" /\ char[10] = "a" /\ char[11] = "b"
      /\ char[12] = "c" /\ char[13] = "d" /\ char[14] = "e" /\ char[15] = "f"
  BY DEF HexChars
<1> HIDE DEF char
<1>4. ASSUME NEW d \in 0 .. 15
      PROVE  \/ d = 0 \/ d = 1 \/ d = 2 \/ d = 3 \/ d = 4 \/ d = 5 \/ d = 6
             \/ d = 7 \/ d = 8 \/ d = 9 \/ d = 10 \/ d = 11 \/ d = 12
             \/ d = 13 \/ d = 14 \/ d = 15
  OBVIOUS
<1>5. \A d, e \in 0 .. 15 : char[d] = char[e] => d = e  BY <1>3, <1>4
<1>6. \A d \in 0 .. 15 : char[d] = "0" <=> d = 0  BY <1>3, <1>5
<1> QED  BY <1>1, <1>2, <1>5, <1>6

LEMMA DigitCharacter ==
  ASSUME NEW number \in Nat, NEW i \in 0 .. HexDigits - 1
  PROVE  HexChars[Digit(number, i) + 1] \in Chars
  BY DigitIs, HexCharsAre

LEMMA CapitalTyped == ASSUME NEW c \in Chars PROVE Capital(c) \in Chars
<1>1. /\ Len(LowerDigits) = 6
      /\ \A n \in 1 .. 6 : UpperDigits[n] \in Chars
  <2>1. /\ UpperDigits[1] = "A" /\ UpperDigits[2] = "B" /\ UpperDigits[3] = "C"
        /\ UpperDigits[4] = "D" /\ UpperDigits[5] = "E" /\ UpperDigits[6] = "F"
    BY DEF UpperDigits
  <2>2. {"A", "B", "C", "D", "E", "F"} \subseteq Chars  BY DEF Chars, HexLetters
  <2>3. \A n \in 1 .. 6 : n = 1 \/ n = 2 \/ n = 3 \/ n = 4 \/ n = 5 \/ n = 6
    OBVIOUS
  <2>4. Len(LowerDigits) = 6  BY DEF LowerDigits
  <2> QED  BY <2>1, <2>2, <2>3, <2>4
<1>2. IsAt(LowerDigits, c) => PlaceOf(LowerDigits, c) \in 1 .. Len(LowerDigits)
  BY Zenon DEF IsAt, PlaceOf
<1> QED  BY <1>1, <1>2 DEF Capital

LEMMA DigitsTyped ==
  ASSUME NEW number \in Nat PROVE Digits(number) \in Seq(Chars)
<1>1. HexDigits \in Nat  BY SerialAssumption
<1>2. ASSUME NEW k \in 1 .. HexDigits
      PROVE  Capital(HexChars[Digit(number, HexDigits - k) + 1]) \in Chars
  <2>1. HexDigits - k \in 0 .. HexDigits - 1  BY <1>1
  <2> QED  BY <2>1, DigitCharacter, CapitalTyped
<1> QED  BY <1>1, <1>2 DEF Digits

LEMMA HighestDigitIs ==
  ASSUME NEW number \in Nat, NEW all \in BOOLEAN
  PROVE  LET top == HighestDigit(number, all)
         IN  /\ top \in 0 .. HexDigits - 1
             /\ all => top = HexDigits - 1
             /\ ~all /\ top # 0 => Digit(number, top) # 0
             /\ \A i \in top + 1 .. HexDigits - 1 : Digit(number, i) = 0
<1> DEFINE nonzero == {i \in 0 .. HexDigits - 1 : Digit(number, i) # 0}
           Top(i) == i \in nonzero \union {0} /\ \A j \in nonzero : j <= i
           top == HighestDigit(number, all)
<1>1. HexDigits \in Nat \ {0}  BY SerialAssumption
<1>2. CASE all
  <2>1. top = HexDigits - 1  BY <1>2 DEF HighestDigit
  <2>2. top + 1 .. HexDigits - 1 = {}  BY <1>1, <2>1
  <2>3. top \in 0 .. HexDigits - 1  BY <1>1, <2>1
  <2> HIDE DEF top, nonzero
  <2> QED  BY <1>2, <2>1, <2>2, <2>3 DEF top
<1>3. CASE ~all
  <2>1. \E i : Top(i)
    <3>1. CASE nonzero = {}  BY <3>1
    <3>2. CASE nonzero # {}
      <4> DEFINE mirror == {HexDigits - 1 - i : i \in nonzero}
      <4>1. mirror \subseteq 0 .. HexDigits - 1 /\ mirror # {}
        BY <1>1, <3>2
      <4>2. 0 \in Int /\ HexDigits - 1 \in Int  BY <1>1
      <4>3. \E m \in mirror : \A l \in mirror : m <= l
        <5> HIDE DEF mirror
        <5> QED  BY <4>1, <4>2, Least
      <4>4. PICK i \in nonzero : \A l \in mirror : HexDigits - 1 - i <= l
        BY <4>3
      <4>5. ASSUME NEW j \in nonzero PROVE j <= i
        <5>1. HexDigits - 1 - j \in mirror /\ i \in Int /\ j \in Int
          BY <1>1
        <5>2. HexDigits - 1 - i <= HexDigits - 1 - j
          <6> HIDE DEF mirror
          <6> QED  BY <4>4, <5>1
        <5> QED  BY <1>1, <5>1, <5>2
      <4> QED  BY <4>5
    <3> QED  BY <3>1, <3>2
  <2>2. Top(top)
    <3>1. top = CHOOSE i \in nonzero \union {0} : \A j \in nonzero : j <= i
      BY <1>3 DEF HighestDigit
    <3> HIDE DEF nonzero, top
    <3> QED  BY <2>1, <3>1, Zenon
  <2>3. top \in 0 .. HexDigits - 1 /\ (top # 0 => Digit(number, top) # 0)
    BY <1>1, <2>2
  <2>4. ASSUME NEW i \in top + 1 .. HexDigits - 1 PROVE Digit(number, i) = 0
    <3>1. i \in 0 .. HexDigits - 1 /\ ~(i <= top)  BY <1>1, <2>3
    <3> QED  BY <2>2, <3>1
  <2> QED  BY <1>3, <2>3, <2>4
<1> QED  BY <1>2, <1>3

LEMMA HexTextIs ==
  ASSUME NEW number \in Nat, NEW all \in BOOLEAN
  PROVE  LET top == HighestDigit(number, all)
         IN  /\ HexText(number, all) \in Seq(Chars)
             /\ Len(HexText(number, all)) = top + 3
             /\ \A k \in 1 .. top + 1 :
                  HexText(number, all)[k + 2]
                    = HexChars[Digit(number, top + 1 - k) + 1]
<1> DEFINE top == HighestDigit(number, all)
           digits == [k \in 1 .. top + 1 |->
                        HexChars[Digit(number, top + 1 - k) + 1]]
           prefix == <<"0", "x">>
<1>1. top \in 0 .. HexDigits - 1 /\ HexDigits \in Nat
  BY HighestDigitIs, SerialAssumption
<1>2. HexText(number, all) = prefix \o digits  BY DEF HexText
<1> HIDE DEF top
<1>3. ASSUME NEW k \in 1 .. top + 1
      PROVE  HexChars[Digit(number, top + 1 - k) + 1] \in Chars
  <2>1. top + 1 - k \in 0 .. HexDigits - 1  BY <1>1
  <2> QED  BY <2>1, DigitCharacter
<1>4. digits \in Seq(Chars) /\ Len(digits) = top + 1  BY <1>1, <1>3
<1>5. prefix \in Seq(Chars) /\ Len(prefix) = 2  BY DEF Chars, HexLetters
<1>6. \A k \in 1 .. top + 1 :
        digits[k] = HexChars[Digit(number, top + 1 - k) + 1]
  OBVIOUS
<1> HIDE DEF digits, prefix
<1>7. prefix \o digits \in Seq(Chars) /\ Len(prefix \o digits) = top + 3
  <2>1. Len(prefix \o digits) = Len(prefix) + Len(digits)
    BY <1>4, <1>5, ConcatProperties
  <2>2. 2 + (top + 1) = top + 3  BY <1>1
  <2> QED  BY <1>4, <1>5, <2>1, <2>2, ConcatProperties
<1>8. ASSUME NEW k \in 1 .. top + 1
      PROVE  (prefix \o digits)[k + 2] = digits[k]
  <2> DEFINE j == k + 2
  <2>1. j \in 1 .. Len(prefix) + Len(digits)  BY <1>1, <1>4, <1>5
  <2>2. ~(j <= Len(prefix)) /\ j - Len(prefix) = k  BY <1>1, <1>5
  <2> HIDE DEF j
  <2>3. (prefix \o digits)[j] = IF j <= Len(prefix) THEN prefix[j]
                                ELSE digits[j - Len(prefix)]
    BY <1>4, <1>5, <2>1, ConcatProperties
  <2>4. (prefix \o digits)[j] = digits[k]  BY <2>2, <2>3
  <2> QED  BY <2>4 DEF j
<1> QED  BY <1>2, <1>6, <1>7, <1>8 DEF top

(* The digits from the highest that is not 0 are the number again.         *)
LEMMA NothingAbove ==
  ASSUME NEW number \in Nat, Shifted(number)[HexDigits] = 0,
         NEW top \in 0 .. HexDigits - 1,
         \A i \in top + 1 .. HexDigits - 1 : Digit(number, i) = 0
  PROVE  Shifted(number)[top + 1] = 0
<1> DEFINE n == HexDigits - 1 - top
           T == {j \in 0 .. n : Shifted(number)[HexDigits - j] = 0}
<1>1. /\ HexDigits \in Nat \ {0} /\ 0 \in Int /\ n \in Int /\ 0 <= n
      /\ n \in 0 .. n
  BY SerialAssumption
<1>2. 0 \in T  BY <1>1
<1>3. ASSUME NEW j \in 0 .. n, j # 0, j - 1 \in T PROVE j \in T
  <2> DEFINE i == HexDigits - j
  <2>1. /\ i \in 0 .. HexDigits - 1 /\ i \in top + 1 .. HexDigits - 1
        /\ HexDigits - (j - 1) = i + 1
    BY <1>1, <1>3
  <2>2. Shifted(number)[i + 1] = 0
    <3>1. Shifted(number)[HexDigits - (j - 1)] = 0  BY <1>3
    <3> HIDE DEF i
    <3> QED  BY <2>1, <3>1
  <2> HIDE DEF i
  <2>3. Shifted(number)[i] = 0  BY <2>1, <2>2, DigitIs
  <2> QED  BY <2>3 DEF i
<1> HIDE DEF T, n
<1>4. n \in T  BY <1>1, <1>2, <1>3, IntervalInduction
<1>5. HexDigits - n = top + 1  BY <1>1 DEF n
<1> QED  BY <1>4, <1>5 DEF T

LEMMA ReadsBack ==
  ASSUME NEW number \in Nat, NEW top \in 0 .. HexDigits - 1,
         Shifted(number)[top + 1] = 0,
         NEW chars \in Seq(Chars), Len(chars) = top + 1,
         \A k \in 1 .. top + 1 :
           chars[k] = HexChars[Digit(number, top + 1 - k) + 1]
  PROVE  ValueOf(chars) = number
<1> DEFINE n == Len(chars)
           Value(c) == CHOOSE d \in 0 .. 15 : HexChars[d + 1] = c
           Step(v, k) == 16 * v + Value(chars[k])
           f == [k \in 0 .. n |-> Shifted(number)[top + 1 - k]]
           g == CHOOSE v : v = [k \in 0 .. n |-> IF k = 0 THEN 0
                                                 ELSE 16 * v[k - 1] + Value(chars[k])]
<1>1. n = top + 1 /\ n \in Nat /\ HexDigits \in Nat \ {0}
      /\ 0 \in Int /\ n \in Int /\ 0 <= n
  BY SerialAssumption
<1>2. ASSUME NEW k \in 1 .. n
      PROVE  f[k] = 16 * f[k - 1] + Value(chars[k])
  <2> DEFINE i == top + 1 - k
             d == Digit(number, i)
  <2>1. i \in 0 .. HexDigits - 1 /\ top + 1 - (k - 1) = i + 1
    BY <1>1
  <2>2. d \in 0 .. 15 /\ Shifted(number)[i] = 16 * Shifted(number)[i + 1] + d
    <3> HIDE DEF i
    <3> QED  BY <2>1, DigitIs
  <2>3. Value(chars[k]) = d
    <3>1. chars[k] = HexChars[d + 1]  BY <1>1
    <3> HIDE DEF d
    <3>2. \A e \in 0 .. 15 : HexChars[e + 1] = chars[k] => e = d
      BY <2>2, <3>1, HexCharsAre
    <3> QED  BY <2>2, <3>1, <3>2
  <2>4. f[k] = Shifted(number)[i] /\ f[k - 1] = Shifted(number)[i + 1]
    <3>1. k \in 0 .. n /\ k - 1 \in 0 .. n  BY <1>1
    <3>2. f[k - 1] = Shifted(number)[top + 1 - (k - 1)]  BY <3>1
    <3> QED  BY <2>1, <3>1, <3>2
  <2> HIDE DEF i, d, f, Value
  <2> QED  BY <2>2, <2>3, <2>4
<1>3. f[0] = 0 /\ f[n] = number
  <2>1. top + 1 - 0 = top + 1 /\ top + 1 - n = 0  BY <1>1
  <2>2. f[0] = Shifted(number)[top + 1 - 0] /\ f[n] = Shifted(number)[top + 1 - n]
    BY <1>1
  <2> QED  BY <2>1, <2>2, ShiftedIs
<1>4. f = [k \in 0 .. n |-> IF k = 0 THEN 0 ELSE 16 * f[k - 1] + Value(chars[k])]
  <2>1. ASSUME NEW k \in 0 .. n
        PROVE  f[k] = IF k = 0 THEN 0 ELSE 16 * f[k - 1] + Value(chars[k])
    <3>1. k # 0 => k \in 1 .. n  BY <1>1
    <3> HIDE DEF f, Value
    <3> QED  BY <1>2, <1>3, <3>1
  <2>2. f = [k \in 0 .. n |-> f[k]]  OBVIOUS
  <2> HIDE DEF f, Value, n
  <2> QED  BY <2>1, <2>2
<1>5. g = [k \in 0 .. n |-> IF k = 0 THEN 0 ELSE 16 * g[k - 1] + Value(chars[k])]
  <2> HIDE DEF f, Value, n
  <2> QED  BY <1>4, Zenon DEF g
<1>6. ValueOf(chars) = g[n]  BY DEF ValueOf
<1> DEFINE T == {k \in 0 .. n : g[k] = f[k]}
<1> HIDE DEF g, f, Value, n
<1>7. 0 \in T  BY <1>1, <1>3, <1>5
<1>8. ASSUME NEW k \in 0 .. n, k # 0, k - 1 \in T PROVE k \in T
  <2>1. k \in 1 .. n  BY <1>1, <1>8
  <2>2. g[k] = 16 * g[k - 1] + Value(chars[k])  BY <1>5, <1>8
  <2> QED  BY <1>2, <1>8, <2>1, <2>2
<1> HIDE DEF T
<1>9. n \in T
  <2>1. \A k \in 0 .. n : k \in T  BY <1>1, <1>7, <1>8, IntervalInduction
  <2> QED  BY <1>1, <2>1
<1> QED  BY <1>3, <1>6, <1>9 DEF T

-----------------------------------------------------------------------------
(* What is printed: the characters sent, and those still to be sent after  *)
(* them, hold the digits of the last number from where they are said to.   *)
DigitsIn(chars) ==
  /\ hex.number \in Numbers
  /\ hex.digits = HighestDigit(hex.number, hex.all) + 1
  /\ hex.from + 2 + hex.digits <= Len(chars)
  /\ \A k \in 1 .. hex.digits :
       chars[hex.from + 2 + k] = HexChars[Digit(hex.number, hex.digits - k) + 1]
PrintedInv ==
  /\ out \in Seq(Chars) /\ sent \in Seq(Chars)
  /\ debug_port = 0 => out = <<>>
  /\ serial_pc = "start" => debug_port = 0
  /\ hex \in [number : Nat, all : BOOLEAN, from : Nat, digits : Nat]
  /\ hex.digits > 0 => DigitsIn(sent \o out)

LEMMA NumberIs ==
  ASSUME NEW number \in Numbers
  PROVE  number \in Nat /\ Shifted(number)[HexDigits] = 0
  BY ConsoleAssumption

LEMMA Joined ==
  ASSUME NEW s \in Seq(Chars), NEW t \in Seq(Chars)
  PROVE  /\ s \o t \in Seq(Chars) /\ Len(s \o t) = Len(s) + Len(t)
         /\ Len(s) \in Nat /\ Len(t) \in Nat
         /\ \A i \in 1 .. Len(s) : (s \o t)[i] = s[i]
         /\ \A i \in 1 .. Len(t) : (s \o t)[Len(s) + i] = t[i]
<1>1. Len(s) \in Nat /\ Len(t) \in Nat  OBVIOUS
<1>2. /\ s \o t \in Seq(Chars) /\ Len(s \o t) = Len(s) + Len(t)
      /\ \A i \in 1 .. Len(s) + Len(t) :
           (s \o t)[i] = IF i <= Len(s) THEN s[i] ELSE t[i - Len(s)]
  BY ConcatProperties
<1>3. ASSUME NEW i \in 1 .. Len(s) PROVE (s \o t)[i] = s[i]
  <2>1. i \in 1 .. Len(s) + Len(t) /\ i <= Len(s)  BY <1>1
  <2> QED  BY <1>2, <2>1
<1>4. ASSUME NEW i \in 1 .. Len(t) PROVE (s \o t)[Len(s) + i] = t[i]
  <2> DEFINE j == Len(s) + i
  <2>1. j \in 1 .. Len(s) + Len(t) /\ ~(j <= Len(s)) /\ j - Len(s) = i
    BY <1>1
  <2> HIDE DEF j
  <2>2. (s \o t)[j] = t[i]  BY <1>2, <2>1
  <2> QED  BY <2>2 DEF j
<1> QED  BY <1>1, <1>2, <1>3, <1>4

(* A character that is printed moves from the one to the other.            *)
LEMMA MovesOver ==
  ASSUME NEW s \in Seq(Chars), NEW t \in Seq(Chars), t # <<>>
  PROVE  /\ Append(s, Head(t)) \in Seq(Chars) /\ Tail(t) \in Seq(Chars)
         /\ Append(s, Head(t)) \o Tail(t) = s \o t
<1> DEFINE u == Append(s, Head(t))
           v == Tail(t)
<1>1. /\ Head(t) \in Chars /\ v \in Seq(Chars) /\ Len(v) = Len(t) - 1
      /\ \A i \in 1 .. Len(v) : v[i] = t[i + 1]
      /\ Len(t) \in Nat \ {0} /\ Len(s) \in Nat /\ Head(t) = t[1]
  BY HeadTailProperties, EmptySeq
<1>2. /\ u \in Seq(Chars) /\ Len(u) = Len(s) + 1 /\ u[Len(s) + 1] = t[1]
      /\ \A i \in 1 .. Len(s) : u[i] = s[i]
  BY <1>1
<1> HIDE DEF u, v
<1>3. /\ u \o v \in Seq(Chars) /\ s \o t \in Seq(Chars)
      /\ Len(u \o v) = Len(u) + Len(v) /\ Len(s \o t) = Len(s) + Len(t)
  BY <1>1, <1>2, Joined
<1>4. Len(u \o v) = Len(s \o t)  BY <1>1, <1>2, <1>3
<1>5. ASSUME NEW i \in 1 .. Len(u \o v)
      PROVE  (u \o v)[i] = (s \o t)[i]
  <2>1. i \in 1 .. Len(s) + Len(t)  BY <1>3, <1>4
  <2>2. CASE i <= Len(s)
    <3>1. i \in 1 .. Len(s) /\ i \in 1 .. Len(u)  BY <1>1, <1>2, <2>1, <2>2
    <3>2. (u \o v)[i] = u[i] /\ (s \o t)[i] = s[i]  BY <1>1, <1>2, <3>1, Joined
    <3> QED  BY <1>2, <3>1, <3>2
  <2>3. CASE i = Len(s) + 1
    <3>1. i \in 1 .. Len(u) /\ 1 \in 1 .. Len(t)  BY <1>1, <1>2, <2>3
    <3>2. (u \o v)[i] = u[i]  BY <1>1, <1>2, <3>1, Joined
    <3>3. (s \o t)[Len(s) + 1] = t[1]  BY <3>1, Joined
    <3> QED  BY <1>2, <2>3, <3>2, <3>3
  <2>4. CASE i > Len(s) + 1
    <3> DEFINE j == i - (Len(s) + 1)
    <3>1. j \in 1 .. Len(v) /\ j + 1 \in 1 .. Len(t)
          /\ Len(u) + j = i /\ Len(s) + (j + 1) = i
      BY <1>1, <1>2, <2>1, <2>4
    <3> HIDE DEF j
    <3>2. (u \o v)[Len(u) + j] = v[j]  BY <1>1, <1>2, <3>1, Joined
    <3>3. (s \o t)[Len(s) + (j + 1)] = t[j + 1]  BY <3>1, Joined
    <3> QED  BY <1>1, <3>1, <3>2, <3>3
  <2> QED  BY <1>1, <2>1, <2>2, <2>3, <2>4
<1>6. u \o v = s \o t  BY <1>3, <1>4, <1>5, SeqEqual
<1> QED  BY <1>1, <1>2, <1>6 DEF u, v

(* A call to print is made when nothing is left of the call before.        *)
LEMMA CallingFrom ==
  ASSUME PrintedInv, Calling PROVE out = <<>> /\ sent \o out = sent
<1>1. out = <<>>  BY DEF PrintedInv, Calling, SerialReady
<1> QED  BY <1>1, ConcatEmptySeq DEF PrintedInv

LEMMA PutsTyped ==
  ASSUME PrintedInv, NEW text \in Seq(Chars), Puts(text)
  PROVE  /\ out' \in Seq(Chars) /\ (debug_port = 0 => out' = <<>>)
         /\ debug_port # 0 => out' = text
<1>1. <<>> \in Seq(Chars)  OBVIOUS
<1> QED  BY <1>1 DEF Puts

LEMMA DigitsStay ==
  ASSUME PrintedInv, NEW text \in Seq(Chars), Calling, Puts(text),
         UNCHANGED <<debug_port, serial_pc, sent, hex>>
  PROVE  PrintedInv'
<1>1. out' \in Seq(Chars) /\ (debug_port = 0 => out' = <<>>)
  BY PutsTyped
<1>2. sent \o out = sent  BY CallingFrom
<1>3. ASSUME hex.digits > 0 PROVE DigitsIn(sent \o out)'
  <2>1. /\ DigitsIn(sent) /\ sent \in Seq(Chars)
        /\ hex.from \in Nat /\ hex.digits \in Nat
    BY <1>2, <1>3 DEF PrintedInv
  <2> DEFINE all == sent \o out'
  <2>2. /\ Len(sent) \in Nat /\ Len(sent) <= Len(all)
        /\ \A i \in 1 .. Len(sent) : all[i] = sent[i]
    BY <1>1, <2>1, Joined
  <2> HIDE DEF all
  <2>3. \A k \in 1 .. hex.digits : hex.from + 2 + k \in 1 .. Len(sent)
    BY <2>1, <2>2 DEF DigitsIn
  <2>4. hex.from + 2 + hex.digits <= Len(all)
    <3>1. hex.from + 2 + hex.digits <= Len(sent)  BY <2>1 DEF DigitsIn
    <3>2. Len(all) \in Nat  BY <1>1, <2>1, Joined DEF all
    <3> QED  BY <2>1, <2>2, <3>1, <3>2
  <2>5. \A k \in 1 .. hex.digits :
          all[hex.from + 2 + k] = HexChars[Digit(hex.number, hex.digits - k) + 1]
    BY <2>1, <2>2, <2>3 DEF DigitsIn
  <2>6. DigitsIn(all)  BY <2>1, <2>4, <2>5 DEF DigitsIn
  <2> QED  BY <2>6 DEF DigitsIn, all
<1> QED  BY <1>1, <1>3 DEF PrintedInv

(* A number printed after some text, and before some other.                *)
LEMMA DigitsPrinted ==
  ASSUME PrintedInv, NEW number \in Numbers, NEW all \in BOOLEAN,
         NEW before \in Seq(Chars), NEW after \in Seq(Chars), Calling,
         Puts((before \o HexText(number, all)) \o after),
         HexIs(number, all, Len(before)),
         UNCHANGED <<debug_port, serial_pc, sent>>
  PROVE  PrintedInv'
<1> DEFINE text == HexText(number, all)
           top == HighestDigit(number, all)
           front == before \o text
           whole == front \o after
<1>1. /\ number \in Nat /\ text \in Seq(Chars) /\ Len(text) = top + 3
      /\ top \in Nat
      /\ \A k \in 1 .. top + 1 :
           text[k + 2] = HexChars[Digit(number, top + 1 - k) + 1]
  <2>1. number \in Nat  BY NumberIs
  <2>2. top \in Nat  BY <2>1, HighestDigitIs, SerialAssumption
  <2> HIDE DEF text, top
  <2> QED  BY <2>1, <2>2, HexTextIs DEF text, top
<1> HIDE DEF text, top
<1>2. /\ front \in Seq(Chars) /\ Len(front) = Len(before) + (top + 3)
      /\ Len(before) \in Nat
      /\ \A i \in 1 .. top + 3 : front[Len(before) + i] = text[i]
  <2>1. /\ front \in Seq(Chars) /\ Len(front) = Len(before) + Len(text)
        /\ Len(before) \in Nat
        /\ \A i \in 1 .. Len(text) : front[Len(before) + i] = text[i]
    BY <1>1, Joined
  <2> HIDE DEF front
  <2> QED  BY <1>1, <2>1
<1> HIDE DEF front
<1>3. /\ whole \in Seq(Chars) /\ Len(whole) = Len(front) + Len(after)
      /\ Len(after) \in Nat
      /\ \A i \in 1 .. Len(front) : whole[i] = front[i]
  BY <1>2, Joined
<1>4. Puts(whole)  BY DEF front, text
<1> HIDE DEF whole
<1>5. /\ out' \in Seq(Chars) /\ (debug_port = 0 => out' = <<>>)
      /\ debug_port # 0 => out' = whole
  BY <1>3, <1>4, PutsTyped
<1>6. /\ sent \in Seq(Chars) /\ Len(sent) \in Nat
      /\ hex' = [number |-> number, all |-> all, from |-> Len(sent) + Len(before),
                 digits |-> IF debug_port # 0 THEN top + 1 ELSE 0]
  <2>1. sent \in Seq(Chars)  BY DEF PrintedInv
  <2>2. Len(text) - 2 = top + 1  BY <1>1
  <2> QED  BY <2>1, <2>2 DEF HexIs, text
<1>7. hex' \in [number : Nat, all : BOOLEAN, from : Nat, digits : Nat]
  BY <1>1, <1>2, <1>6
<1>8. ASSUME debug_port # 0 PROVE DigitsIn(sent \o out)'
  <2> DEFINE chars == sent \o out'
  <2>1. /\ Len(chars) = Len(sent) + Len(whole)
        /\ \A i \in 1 .. Len(whole) : chars[Len(sent) + i] = whole[i]
    <3>1. chars = sent \o whole  BY <1>5, <1>8
    <3>2. /\ Len(sent \o whole) = Len(sent) + Len(whole)
          /\ \A i \in 1 .. Len(whole) : (sent \o whole)[Len(sent) + i] = whole[i]
      BY <1>3, <1>6, Joined
    <3> HIDE DEF chars
    <3> QED  BY <3>1, <3>2
  <2> HIDE DEF chars
  <2>2. /\ hex'.number = number /\ hex'.all = all /\ hex'.digits = top + 1
        /\ hex'.from = Len(sent) + Len(before)
    BY <1>6, <1>8
  <2>3. hex'.from + 2 + hex'.digits <= Len(chars)
    BY <1>1, <1>2, <1>3, <1>6, <2>1, <2>2
  <2>4. ASSUME NEW k \in 1 .. top + 1
        PROVE  chars[hex'.from + 2 + k]
                 = HexChars[Digit(number, top + 1 - k) + 1]
    <3> DEFINE i == Len(before) + (k + 2)
    <3>1. /\ k + 2 \in 1 .. top + 3 /\ i \in 1 .. Len(front)
          /\ i \in 1 .. Len(whole) /\ hex'.from + 2 + k = Len(sent) + i
      BY <1>1, <1>2, <1>3, <1>6, <2>2
    <3>2. front[i] = text[k + 2]  BY <1>2, <3>1
    <3> HIDE DEF i
    <3>3. chars[Len(sent) + i] = text[k + 2]  BY <1>3, <2>1, <3>1, <3>2
    <3> QED  BY <1>1, <3>1, <3>3
  <2>5. chars = (sent \o out)'  BY DEF chars
  <2>6. \A k \in 1 .. hex'.digits :
          chars[hex'.from + 2 + k]
            = HexChars[Digit(hex'.number, hex'.digits - k) + 1]
    <3> SUFFICES ASSUME NEW k \in 1 .. hex'.digits
                 PROVE  chars[hex'.from + 2 + k]
                          = HexChars[Digit(hex'.number, hex'.digits - k) + 1]
      OBVIOUS
    <3>1. k \in 1 .. top + 1 /\ hex'.digits - k = top + 1 - k
      <4>1. hex'.digits = top + 1  BY <2>2
      <4>2. k \in 1 .. top + 1  BY <4>1
      <4> QED  BY <1>1, <4>1, <4>2
    <3>2. chars[hex'.from + 2 + k] = HexChars[Digit(number, top + 1 - k) + 1]
      BY <2>4, <3>1
    <3> QED  BY <2>2, <3>1, <3>2, Zenon
  <2>7. hex'.digits = HighestDigit(hex'.number, hex'.all) + 1  BY <2>2 DEF top
  <2> QED  BY <2>2, <2>3, <2>5, <2>6, <2>7 DEF DigitsIn
<1>9. hex'.digits > 0 => debug_port # 0  BY <1>6
<1> QED  BY <1>5, <1>6, <1>7, <1>8, <1>9 DEF PrintedInv

LEMMA PrintedQuiet ==
  ASSUME PrintedInv, UNCHANGED <<serialVars, hex>> PROVE PrintedInv'
  BY DEF PrintedInv, serialVars, DigitsIn

(* The port does not change what was printed, only what is sent of it.     *)
LEMMA PrintedPort ==
  ASSUME PrintedInv, SerialStep \/ Drain \/ \E io_base \in Nat : LoaderSerialInit(io_base),
         UNCHANGED hex
  PROVE  PrintedInv'
<1>1. CASE /\ UNCHANGED <<out, sent>>
           /\ UNCHANGED debug_port \/ serial_pc = "start"
           /\ serial_pc' = "start" => serial_pc = "start" /\ UNCHANGED debug_port
  <2>1. serial_pc = "start" => out = <<>>  BY DEF PrintedInv
  <2> QED  BY <1>1, <2>1 DEF PrintedInv, DigitsIn
<1>2. CASE PutChar
  <2>1. /\ out # <<>> /\ sent' = Append(sent, Head(out)) /\ out' = Tail(out)
        /\ serial_pc' = "wait" /\ debug_port' = debug_port
    BY <1>2 DEF PutChar, AfterWrite
  <2>2. /\ sent' \in Seq(Chars) /\ out' \in Seq(Chars)
        /\ sent' \o out' = sent \o out
    BY <2>1, MovesOver DEF PrintedInv
  <2> QED  BY <2>1, <2>2 DEF PrintedInv, DigitsIn
<1>3. CASE InitStep
  BY <1>1, <1>3 DEF InitStep
<1>4. CASE SeeEmpty  BY <1>1, <1>4 DEF SeeEmpty
<1>5. CASE Drain  BY <1>1, <1>5 DEF Drain
<1>6. CASE \E io_base \in Nat : LoaderSerialInit(io_base)
  <2>1. /\ UNCHANGED <<out, sent>> /\ serial_pc = "start"
        /\ serial_pc' \in {"idle", "init"}
    BY <1>6 DEF LoaderSerialInit
  <2> QED  BY <1>1, <2>1
<1> QED  BY <1>2, <1>3, <1>4, <1>5, <1>6 DEF SerialStep

-----------------------------------------------------------------------------
(* The invariant of the whole console: every step keeps it.                *)
ConsoleInv == /\ PortTyped /\ CmdLineTyped /\ ScreenInv /\ PrintedInv
              /\ calls \in Nat

LEMMA EmptyScreen ==
  ASSUME NEW cs
  PROVE  <<<<>>>> \in Pages /\ OnScreen(<<<<>>>>, 0, cs)
<1> DEFINE ls == <<<<>>>>
<1>1. <<>> \in Seq(Chars) /\ Len(<<>>) = 0  OBVIOUS
<1>2. ls \in Seq(Seq(Chars)) /\ Len(ls) = 1 /\ ls[1] = <<>>  BY <1>1
<1> HIDE DEF ls
<1>3. ls \in Pages
  <2>1. Len(ls) # Len(<<>>)  BY <1>1, <1>2
  <2>2. ls # <<>>  BY <2>1
  <2> QED  BY <1>2, <2>2 DEF Pages
<1>4. FirstRows(ls)[1] = 0  BY <1>3, FirstRowsIs
<1>5. 0 * Columns = 0  BY ConsoleAssumption
<1>6. \A n \in 1 .. Len(ls) : n = 1 /\ Len(ls[n]) = 0  BY <1>1, <1>2
<1>7. OnScreen(ls, 0, cs)
  <2>1. 0 = FirstRows(ls)[Len(ls)] * Columns + Len(ls[Len(ls)])
    BY <1>1, <1>2, <1>4, <1>5
  <2> QED  BY <1>6, <2>1 DEF OnScreen
<1> QED  BY <1>3, <1>7 DEF ls

LEMMA ConsoleStarts == ConsoleInit => ConsoleInv
<1> SUFFICES ASSUME ConsoleInit PROVE ConsoleInv  OBVIOUS
<1>1. PICK boot \in Boots : cmdline = boot.cmdline /\ calls = boot.calls
  BY DEF ConsoleInit
<1>2. cmdline \in Seq(STRING) /\ calls \in Nat  BY <1>1, ConsoleAssumption
<1>3. CmdLineTyped
  <2>1. cmdline \in Seq(Chars) /\ Len(cmdline) \in Nat
    BY <1>2, StringsAreTexts
  <2>2. CmdLineInit  BY DEF ConsoleInit
  <2>3. Default \in Seq(Chars)  BY DefaultsTyped
  <2> QED  BY <2>1, <2>2, <2>3 DEF CmdLineInit, CmdLineTyped
<1>4. PortTyped
  <2>1. SerialInit /\ SerialInv  BY InitInv DEF ConsoleInit
  <2>2. uart \in UartOf  BY <2>1, UartsAssumption DEF SerialInit
  <2>3. uart \in [there : BOOLEAN, ier : Bytes, dll : Bytes, dlm : Bytes,
                  fcr : Bytes, lcr : Bytes, mcr : Bytes, fw : Nat,
                  tx : Seq({})]
    <3>1. 0 .. FifoSize \subseteq Nat /\ {<<>>} \subseteq Seq({})
      BY SerialAssumption
    <3>2. UartOf = [there : BOOLEAN, ier : Bytes, dll : Bytes, dlm : Bytes,
                    fcr : Bytes, lcr : Bytes, mcr : Bytes,
                    fw : 0 .. FifoSize, tx : {<<>>}]
      BY Zenon DEF UartOf, Bytes
    <3> QED  BY <2>2, <3>1, <3>2
  <2>4. Held(uart) <= FifoSize
    <3>1. uart.fw \in 0 .. FifoSize /\ uart.tx = <<>>  BY <2>2 DEF UartOf
    <3> QED  BY <3>1, SerialAssumption DEF Held
  <2>5. UartTyped  BY <2>3, <2>4 DEF UartTyped
  <2> QED  BY <2>1, <2>5 DEF PortTyped, SerialInit
<1>5. ScreenInv
  <2>1. /\ cursor = 0 /\ cells = [c \in Screen |-> "old"] /\ lines = <<<<>>>>
    BY DEF ConsoleInit
  <2> QED  BY <2>1, EmptyScreen DEF ScreenInv
<1>6. PrintedInv
  <2>1. /\ out = <<>> /\ sent = <<>> /\ debug_port = 0
        /\ hex = [number |-> 0, all |-> FALSE, from |-> 0, digits |-> 0]
    BY DEF ConsoleInit, SerialInit
  <2> QED  BY <2>1 DEF PrintedInv
<1> QED  BY <1>2, <1>3, <1>4, <1>5, <1>6 DEF ConsoleInv

LEMMA CmdLineQuiet ==
  ASSUME CmdLineTyped, UNCHANGED cmdlineVars PROVE CmdLineTyped'
  BY DEF CmdLineTyped, cmdlineVars

LEMMA ScreenQuiet ==
  ASSUME ScreenInv, UNCHANGED <<cursor, cells, lines>> PROVE ScreenInv'
<1>1. cursor' = cursor /\ cells' = cells /\ lines' = lines  OBVIOUS
<1>2. OnScreen(lines', cursor', cells')  BY <1>1 DEF ScreenInv
<1>3. OnScreen(lines, cursor, cells)'  BY <1>2
<1>4. cursor' \in Nat /\ lines' \in Pages /\ DOMAIN cells' = Screen
  BY <1>1 DEF ScreenInv
<1> QED  BY <1>3, <1>4 DEF ScreenInv

LEMMA CallTyped == ASSUME ConsoleInv, Calling PROVE CmdLineTyped' /\ calls' \in Nat
<1>1. UNCHANGED cmdlineVars /\ calls' \in Nat  BY DEF Calling, ConsoleInv
<1> QED  BY <1>1, CmdLineQuiet DEF ConsoleInv

LEMMA StringKeeps ==
  ASSUME ConsoleInv, NEW text \in Strings, PrintString(text) PROVE ConsoleInv'
<1>1. text \in Seq(Chars)  BY ConsoleAssumption, StringsAreTexts
<1>2. /\ Calling /\ Draw(text) /\ lines' = Lines(text) /\ Puts(text)
      /\ UNCHANGED portVars /\ UNCHANGED hex
  BY DEF PrintString, portVars
<1>3. PrintedInv'  BY <1>1, <1>2, DigitsStay DEF ConsoleInv, portVars
<1>4. ScreenInv'  BY <1>1, <1>2, DrawShows DEF ConsoleInv
<1> QED  BY <1>2, <1>3, <1>4, CallTyped, PortQuiet DEF ConsoleInv

LEMMA ValueKeeps ==
  ASSUME ConsoleInv, NEW number \in Numbers, PrintValue(number)
  PROVE  ConsoleInv'
<1> DEFINE text == HexText(number, TRUE)
           none == <<>>
<1>1. number \in Nat  BY NumberIs
<1>2. Digits(number) \in Seq(Chars) /\ text \in Seq(Chars) /\ none \in Seq(Chars)
  <2>1. none \in Seq(Chars)  OBVIOUS
  <2>2. text \in Seq(Chars)  BY <1>1, HexTextIs
  <2> QED  BY <1>1, <2>1, <2>2, DigitsTyped
<1>3. /\ Calling /\ Draw(Digits(number)) /\ lines' = Lines(Digits(number))
      /\ Puts(text) /\ HexIs(number, TRUE, 0) /\ UNCHANGED portVars
  BY DEF PrintValue, portVars
<1>4. (none \o text) \o none = text /\ Len(none) = 0
  BY <1>2, ConcatEmptySeq
<1> HIDE DEF text, none
<1>5. PrintedInv'
  <2>1. Puts((none \o HexText(number, TRUE)) \o none)
    BY <1>3, <1>4 DEF text
  <2>2. HexIs(number, TRUE, Len(none))  BY <1>3, <1>4
  <2> QED  BY <1>2, <1>3, <2>1, <2>2, DigitsPrinted DEF ConsoleInv, portVars
<1>6. ScreenInv'  BY <1>2, <1>3, DrawShows DEF ConsoleInv
<1> QED  BY <1>3, <1>5, <1>6, CallTyped, PortQuiet DEF ConsoleInv

LEMMA StringValueKeeps ==
  ASSUME ConsoleInv, NEW text \in Strings, NEW number \in Numbers,
         PrintStringValue(text, number)
  PROVE  ConsoleInv'
<1> DEFINE newline == <<"\n">>
           shown == text \o Digits(number) \o newline
<1>1. text \in Seq(Chars)  BY ConsoleAssumption, StringsAreTexts
<1>2. newline \in Seq(Chars)  BY DEF Chars
<1>3. /\ Calling /\ Draw(shown) /\ lines' = Lines(shown)
      /\ Puts((text \o HexText(number, TRUE)) \o newline)
      /\ HexIs(number, TRUE, Len(text)) /\ UNCHANGED portVars
  BY DEF PrintStringValue, portVars
<1>4. shown \in Seq(Chars)
  <2>1. Digits(number) \in Seq(Chars)  BY NumberIs, DigitsTyped
  <2>2. text \o Digits(number) \in Seq(Chars)  BY <1>1, <2>1
  <2> HIDE DEF newline
  <2> QED  BY <1>2, <2>2
<1> HIDE DEF newline, shown
<1>5. PrintedInv'  BY <1>1, <1>2, <1>3, DigitsPrinted DEF ConsoleInv, portVars
<1>6. ScreenInv'  BY <1>3, <1>4, DrawShows DEF ConsoleInv
<1> QED  BY <1>3, <1>5, <1>6, CallTyped, PortQuiet DEF ConsoleInv

LEMMA PutHexKeeps ==
  ASSUME ConsoleInv, NEW number \in Numbers, NEW all \in BOOLEAN,
         SerialPutHex(number, all)
  PROVE  ConsoleInv'
<1> DEFINE text == HexText(number, all)
           none == <<>>
<1>1. text \in Seq(Chars) /\ none \in Seq(Chars)  BY NumberIs, HexTextIs
<1>2. /\ Calling /\ Puts(text) /\ HexIs(number, all, 0)
      /\ UNCHANGED portVars /\ UNCHANGED <<cursor, cells, lines>>
  BY DEF SerialPutHex, portVars
<1>3. (none \o text) \o none = text /\ Len(none) = 0
  BY <1>1, ConcatEmptySeq
<1> HIDE DEF text, none
<1>4. PrintedInv'
  <2>1. Puts((none \o HexText(number, all)) \o none)
    BY <1>2, <1>3 DEF text
  <2>2. HexIs(number, all, Len(none))  BY <1>2, <1>3
  <2> QED  BY <1>1, <1>2, <2>1, <2>2, DigitsPrinted DEF ConsoleInv, portVars
<1>5. ScreenInv'  BY <1>2, ScreenQuiet DEF ConsoleInv
<1> QED  BY <1>2, <1>4, <1>5, CallTyped, PortQuiet DEF ConsoleInv

LEMMA ClearKeeps == ASSUME ConsoleInv, ClearScreen PROVE ConsoleInv'
<1>1. /\ Calling /\ UNCHANGED serialVars /\ UNCHANGED hex
      /\ cells' = [c \in Screen |-> IF c < Columns * MaxRows THEN Blank
                                    ELSE cells[c]]
      /\ cursor' = 0 /\ lines' = <<<<>>>>
  BY Zenon DEF ClearScreen
<1>2. UNCHANGED portVars  BY <1>1 DEF serialVars, portVars
<1>3. PrintedInv'  BY <1>1, PrintedQuiet DEF ConsoleInv
<1>4. ScreenInv'
  <2>1. OnScreen(lines', cursor', cells') /\ lines' \in Pages
    BY <1>1, EmptyScreen, Zenon
  <2>2. OnScreen(lines, cursor, cells)'  BY <2>1
  <2>3. DOMAIN cells' = Screen  BY <1>1
  <2> QED  BY <1>1, <2>1, <2>2, <2>3 DEF ScreenInv
<1> QED  BY <1>1, <1>2, <1>3, <1>4, CallTyped, PortQuiet DEF ConsoleInv

LEMMA ConsoleKeeps == ASSUME ConsoleInv, [Next]_vars PROVE ConsoleInv'
<1>1. ASSUME UNCHANGED consoleVars
      PROVE  ScreenInv' /\ calls' \in Nat /\ UNCHANGED hex
  <2>1. UNCHANGED <<cursor, cells, lines>> /\ calls' = calls /\ hex' = hex
    BY <1>1 DEF consoleVars
  <2> QED  BY <2>1, ScreenQuiet DEF ConsoleInv
<1>2. CASE UNCHANGED vars
  <2>1. /\ UNCHANGED serialVars /\ UNCHANGED cmdlineVars
        /\ UNCHANGED consoleVars /\ UNCHANGED portVars
    BY <1>2 DEF vars, serialVars, portVars
  <2> QED
    BY <1>1, <2>1, PortQuiet, CmdLineQuiet, PrintedQuiet DEF ConsoleInv
<1>3. CASE Parse
  <2>1. /\ ParseStep /\ UNCHANGED serialVars /\ UNCHANGED consoleVars
        /\ UNCHANGED portVars
    BY <1>3 DEF Parse, serialVars, portVars
  <2> QED
    BY <1>1, <2>1, PortQuiet, ParseTyped, PrintedQuiet DEF ConsoleInv
<1>4. CASE InitPort
  <2>1. /\ LoaderSerialInit(IoBase) /\ UNCHANGED cmdlineVars
        /\ UNCHANGED consoleVars
    BY <1>4 DEF InitPort
  <2>2. IoBase \in Nat  BY IoBaseType DEF ConsoleInv, CmdLineTyped
  <2> QED
    BY <1>1, <2>1, <2>2, PortInitTyped, CmdLineQuiet, PrintedPort DEF ConsoleInv
<1>5. CASE PortStep \/ Device
  <2>1. /\ SerialStep \/ Drain
        /\ UNCHANGED cmdlineVars
        /\ UNCHANGED consoleVars
    BY <1>5 DEF PortStep, Device
  <2> QED
    BY <1>1, <2>1, PortStepTyped, CmdLineQuiet, PrintedPort DEF ConsoleInv
<1>6. CASE ClearScreen  BY <1>6, ClearKeeps
<1>7. CASE \E text \in Strings : PrintString(text)  BY <1>7, StringKeeps
<1>8. CASE \E number \in Numbers : PrintValue(number)  BY <1>8, ValueKeeps
<1>9. CASE \E text \in Strings, number \in Numbers : PrintStringValue(text, number)
  BY <1>9, StringValueKeeps
<1>10. CASE \E number \in Numbers, all \in BOOLEAN : SerialPutHex(number, all)
  BY <1>10, PutHexKeeps
<1> QED
  BY <1>2, <1>3, <1>4, <1>5, <1>6, <1>7, <1>8, <1>9, <1>10 DEF Next

(* ConsoleInv holds in every state: what loader_serial_init and            *)
(* loader_serial_putc keep of the port, parse_cmdline of its place in the  *)
(* line, print_string and the calls of it of the screen, and the texts of  *)
(* the numbers printed.                                                    *)
THEOREM ConsoleHolds == Spec => []ConsoleInv
<1>1. ConsoleInit => ConsoleInv  BY ConsoleStarts
<1>2. ConsoleInv /\ [Next]_vars => ConsoleInv'  BY ConsoleKeeps
<1> QED  BY <1>1, <1>2, PTL DEF Spec

(* The state stays of its type, whatever is called: in particular the      *)
(* cursor never leaves the screen's cells, and debug_port is 0 exactly as  *)
(* long as loader_serial_init has not come to its end.                     *)
THEOREM Typed == Spec => []TypeOK
<1>1. ConsoleInv => TypeOK
  <2> SUFFICES ASSUME ConsoleInv PROVE TypeOK  OBVIOUS
  <2>1. SerialTypeOK
    <3>1. PortTyped /\ SerialInv /\ UartTyped  BY DEF ConsoleInv, PortTyped
    <3>2. PICK S : uart \in [there : BOOLEAN, ier : Bytes, dll : Bytes, dlm : Bytes,
                             fcr : Bytes, lcr : Bytes, mcr : Bytes, fw : Nat,
                             tx : Seq(S)]
      BY <3>1 DEF UartTyped
    <3>3. /\ uart.there \in BOOLEAN /\ uart.fw \in Nat
          /\ {uart.ier, uart.dll, uart.dlm, uart.fcr, uart.lcr, uart.mcr}
               \subseteq 0 .. 255
      BY <3>2 DEF Bytes
    <3>4. Held(uart) <= FifoSize  BY <3>1 DEF UartTyped
    <3>5. /\ debug_port \in Nat /\ step \in 1 .. 12
          /\ serial_pc \in {"start", "init", "idle", "wait"}
          /\ serial_pc \in {"idle", "wait"} => (debug_port # 0 <=> step > 11)
      BY <3>1 DEF PortTyped, SerialInv, Starting, Running
    <3> QED  BY <3>3, <3>4, <3>5, Writes DEF SerialTypeOK
  <2> QED  BY <2>1 DEF TypeOK, ConsoleInv, ScreenInv, CmdLineTyped
<1> QED  BY <1>1, ConsoleHolds, PTL

(* A line that print_string, print_value and print_string_value print,     *)
(* from the top of a screen that clear_screen has cleared, stands on rows  *)
(* of its own below the lines before it, as far as the screen has rows:    *)
(* for every screen and every text.                                        *)
THEOREM LinesLegible == Spec => []Legible
<1>1. ConsoleInv => Legible
  <2> SUFFICES ASSUME ConsoleInv PROVE Legible  OBVIOUS
  <2>1. OnScreen(lines, cursor, cells)  BY DEF ConsoleInv, ScreenInv
  <2> QED  BY <2>1 DEF OnScreen, Legible
<1> QED  BY <1>1, ConsoleHolds, PTL

(* A number that loader_serial_put_hex has sent, of as many digits as it   *)
(* has or of all of them, can be read back from the characters after "0x", *)
(* for every number that its digits hold and every number of digits.       *)
THEOREM HexIsReadBack == Spec => []HexReadsBack
<1>1. ConsoleInv => HexReadsBack
  <2> DEFINE n == hex.digits
             chars == SubSeq(sent, hex.from + 3, hex.from + 2 + n)
             top == HighestDigit(hex.number, hex.all)
  <2> SUFFICES ASSUME ConsoleInv, Len(sent) >= hex.from + 2 + n, n > 0
               PROVE  /\ ValueOf(chars) = hex.number
                      /\ IF hex.all THEN Len(chars) = HexDigits
                         ELSE Len(chars) = 1 \/ chars[1] # "0"
    BY DEF HexReadsBack
  <2>1. /\ sent \in Seq(Chars) /\ out \in Seq(Chars) /\ Len(sent) \in Nat
        /\ hex.all \in BOOLEAN /\ hex.from \in Nat /\ n \in Nat
        /\ DigitsIn(sent \o out)
    BY DEF ConsoleInv, PrintedInv
  <2>2. hex.number \in Nat /\ Shifted(hex.number)[HexDigits] = 0 /\ n = top + 1
    BY <2>1, NumberIs DEF DigitsIn
  <2>3. /\ top \in 0 .. HexDigits - 1
        /\ hex.all => top = HexDigits - 1
        /\ ~hex.all /\ top # 0 => Digit(hex.number, top) # 0
        /\ \A i \in top + 1 .. HexDigits - 1 : Digit(hex.number, i) = 0
    BY <2>1, <2>2, HighestDigitIs
  <2> HIDE DEF top
  <2>4. Shifted(hex.number)[top + 1] = 0  BY <2>2, <2>3, NothingAbove
  <2>5. /\ chars \in Seq(Chars) /\ Len(chars) = n
        /\ \A k \in 1 .. n : chars[k] = sent[hex.from + 2 + k]
    <3>1. \A i \in hex.from + 3 .. hex.from + 2 + n : sent[i] \in Chars
      <4>1. \A i \in hex.from + 3 .. hex.from + 2 + n : i \in 1 .. Len(sent)
        BY <2>1
      <4> QED  BY <2>1, <4>1, ElementOfSeq
    <3> DEFINE a == hex.from + 3
               b == hex.from + 2 + n
    <3>2. /\ a \in Int /\ b \in Int /\ a <= b /\ b - a + 1 = n
          /\ \A k \in 1 .. n : a + k - 1 = hex.from + 2 + k
      <4> HIDE DEF n
      <4>1. hex.from \in Nat /\ n \in Nat /\ n > 0  BY <2>1
      <4>2. a \in Int /\ b \in Int /\ a <= b  BY <4>1
      <4>3. b - a + 1 = n  BY <4>1
      <4>4. \A k \in 1 .. n : a + k - 1 = hex.from + 2 + k  BY <4>1
      <4> QED  BY <4>2, <4>3, <4>4
    <3>3. \A i \in a .. b : sent[i] \in Chars  BY <3>1
    <3> HIDE DEF a, b
    <3>4. /\ SubSeq(sent, a, b) \in Seq(Chars)
          /\ Len(SubSeq(sent, a, b)) = n
          /\ \A k \in 1 .. n : SubSeq(sent, a, b)[k] = sent[a + k - 1]
      BY <3>2, <3>3, SubSeqProperties
    <3>5. \A k \in 1 .. n : SubSeq(sent, a, b)[k] = sent[hex.from + 2 + k]
      BY <3>2, <3>4
    <3> QED  BY <3>4, <3>5 DEF a, b
  <2> HIDE DEF chars
  <2>6. ASSUME NEW k \in 1 .. top + 1
        PROVE  chars[k] = HexChars[Digit(hex.number, top + 1 - k) + 1]
    <3> DEFINE i == hex.from + 2 + k
    <3>1. i \in 1 .. Len(sent) /\ k \in 1 .. n /\ n - k = top + 1 - k
      BY <2>1, <2>2, <2>3
    <3>2. (sent \o out)[i] = HexChars[Digit(hex.number, n - k) + 1]
      BY <2>1, <3>1 DEF DigitsIn
    <3>3. (sent \o out)[i] = sent[i]
      <4> HIDE DEF i
      <4> QED  BY <2>1, <3>1, Joined
    <3>4. chars[k] = sent[i]  BY <2>5, <3>1
    <3> QED  BY <3>1, <3>2, <3>3, <3>4, Zenon
  <2>7. ValueOf(chars) = hex.number
    BY <2>2, <2>3, <2>4, <2>5, <2>6, ReadsBack
  <2>8. CASE hex.all
    BY <2>2, <2>3, <2>5, <2>7, <2>8, SerialAssumption
  <2>9. CASE ~hex.all /\ top = 0  BY <2>2, <2>5, <2>7, <2>9
  <2>10. CASE ~hex.all /\ top # 0
    <3>1. 1 \in 1 .. top + 1 /\ top + 1 - 1 = top  BY <2>3
    <3>2. chars[1] = HexChars[Digit(hex.number, top) + 1]  BY <2>6, <3>1
    <3>3. Digit(hex.number, top) \in 0 .. 15 /\ Digit(hex.number, top) # 0
      BY <2>2, <2>3, <2>10, DigitIs
    <3>4. chars[1] # "0"  BY <3>2, <3>3, HexCharsAre
    <3> QED  BY <2>7, <2>10, <3>4
  <2> QED  BY <2>1, <2>8, <2>9, <2>10
<1> QED  BY <1>1, ConsoleHolds, PTL

-----------------------------------------------------------------------------
(* The number that strtoul makes of hexadecimal digits.                    *)
LEMMA NumberIsSum ==
  ASSUME NEW digits \in Seq(Chars)
  PROVE  \E f \in [0 .. Len(digits) -> Nat] :
           /\ f[0] = 0 /\ Number(digits) = f[Len(digits)]
           /\ \A k \in 1 .. Len(digits) :
                f[k] = 16 * f[k - 1] + DigitValue(digits[k])
<1> DEFINE n == Len(digits)
           d == [k \in 0 .. n |-> [x \in Nat |-> 16 * x + DigitValue(digits[k])]]
           g == CHOOSE v : v = [k \in 0 .. n |-> IF k = 0 THEN 0
                              ELSE 16 * v[k - 1] + DigitValue(digits[k])]
<1>1. n \in Nat /\ 0 \in Int /\ n \in Int /\ 0 <= n /\ 0 \in Nat  OBVIOUS
<1>2. \A c : DigitValue(c) \in Nat  BY DigitValueType
<1>3. d \in [0 .. n -> [Nat -> Nat]]  BY <1>2
<1>4. PICK f \in [0 .. n -> Nat] : Recursive(f, 0, n, 0, d)
  <2> HIDE DEF d, n
  <2> QED  BY <1>1, <1>3, RecursionExists
<1>5. f = [k \in 0 .. n |-> IF k = 0 THEN 0
                            ELSE 16 * f[k - 1] + DigitValue(digits[k])]
  <2>1. ASSUME NEW k \in 0 .. n
        PROVE  f[k] = IF k = 0 THEN 0
                      ELSE 16 * f[k - 1] + DigitValue(digits[k])
    <3>1. k # 0 => f[k - 1] \in Nat  BY <1>1
    <3>2. k # 0 => d[k][f[k - 1]] = 16 * f[k - 1] + DigitValue(digits[k])
      BY <3>1
    <3> HIDE DEF d, n
    <3> QED  BY <1>4, <3>2 DEF Recursive
  <2> QED  BY <2>1
<1>6. g = [k \in 0 .. n |-> IF k = 0 THEN 0
                            ELSE 16 * g[k - 1] + DigitValue(digits[k])]
  <2> HIDE DEF d, n
  <2> QED  BY <1>5, Zenon DEF g
<1>7. Number(digits) = g[n]  BY DEF Number
<1> HIDE DEF d, n, g
<1>8. g[0] = 0 /\ \A k \in 1 .. n : g[k] = 16 * g[k - 1] + DigitValue(digits[k])
  BY <1>1, <1>6
<1>9. \A k \in 0 .. n : g[k] \in Nat
  <2>1. ASSUME NEW k \in 0 .. n, k # 0, g[k - 1] \in Nat PROVE g[k] \in Nat
    <3>1. g[k] = 16 * g[k - 1] + DigitValue(digits[k])  BY <1>1, <1>8, <2>1
    <3> QED  BY <1>2, <2>1, <3>1
  <2>2. \A k \in 0 .. n : k # 0 /\ g[k - 1] \in Nat => g[k] \in Nat
    BY <2>1, Zenon
  <2>3. g[0] \in Nat  BY <1>1, <1>8
  <2> QED  BY <1>1, <2>2, <2>3, StaysIn, Zenon
<1>10. g \in [0 .. n -> Nat]  BY <1>6, <1>9
<1> QED  BY <1>7, <1>8, <1>10 DEF n

LEMMA DigitPlain ==
  ASSUME NEW c, DigitValue(c) < 16
  PROVE  ~isspace(c) /\ c \notin {"-", "+", "x", "X"}
<1>1. c \in HexLetters
  <2>1. DigitValue(c) # 16  BY DigitValueType
  <2> QED  BY <2>1, NoDigit
<1>2. c \notin {"\t", "\n", "VT", "\f", "\r", " ", "-", "+", "x", "X"}
  BY <1>1, OtherCharacters, Zenon
<1> QED  BY <1>2, Zenon DEF isspace

(* A value that starts with neither white space nor a sign.                *)
LEMMA StartsAtOnce ==
  ASSUME NEW value \in Seq(Chars),
         Len(value) > 0 => ~isspace(value[1]) /\ value[1] \notin {"-", "+"}
  PROVE  /\ SkipSpaces(value, 1) = 1
         /\ CharAt(value, 1) \notin {"-", "+"}
         /\ FirstDigit(value) =
              IF CharAt(value, 1) = "0" /\ CharAt(value, 2) \in {"x", "X"}
              THEN 3 ELSE 1
<1> DEFINE at == SkipSpaces(value, 1)
<1>1. Len(value) \in Nat /\ 1 \in 1 .. Len(value) + 1  OBVIOUS
<1>2. /\ at \in 1 .. Len(value) + 1
      /\ \A j \in 1 .. at - 1 : isspace(value[j])
  BY <1>1, SkipSpacesFinds
<1> HIDE DEF at
<1>3. at = 1
  <2>1. at # 1 => 1 \in 1 .. at - 1 /\ Len(value) > 0  BY <1>1, <1>2
  <2> QED  BY <1>2, <2>1
<1>4. CharAt(value, 1) \notin {"-", "+"}
  <2>1. CASE Len(value) > 0  BY <1>1, <2>1 DEF CharAt
  <2>2. CASE ~(Len(value) > 0)
    <3>1. CharAt(value, 1) = "NUL"  BY <1>1, <2>2 DEF CharAt
    <3> QED  BY <3>1
  <2> QED  BY <2>1, <2>2
<1>5. FirstDigit(value) =
        IF CharAt(value, 1) = "0" /\ CharAt(value, 2) \in {"x", "X"}
        THEN 3 ELSE 1
  <2> DEFINE sign == IF CharAt(value, at) \in {"-", "+"} THEN at + 1 ELSE at
  <2>1. FirstDigit(value) =
          IF CharAt(value, sign) = "0" /\ CharAt(value, sign + 1) \in {"x", "X"}
          THEN sign + 2 ELSE sign
    BY Zenon DEF FirstDigit, at
  <2>2. sign = 1  BY <1>3, <1>4
  <2>3. sign + 1 = 2 /\ sign + 2 = 3  BY <2>2
  <2> HIDE DEF sign
  <2> QED  BY <2>1, <2>2, <2>3, Zenon
<1> QED  BY <1>3, <1>4, <1>5 DEF at

(* Digits to the end of the value add up to the number, or to -1.          *)
LEMMA AddsUp ==
  ASSUME NEW value \in Seq(Chars), NEW digits \in Seq(Chars),
         Len(digits) = Len(value) - FirstDigit(value) + 1,
         \A k \in 1 .. Len(digits) : digits[k] = value[FirstDigit(value) - 1 + k],
         Hexadecimal(digits)
  PROVE  /\ Number(digits) \in Nat
         /\ Accumulated(value)[LastDigit(value)]
              = IF Number(digits) > ULONG_MAX THEN -1 ELSE Number(digits)
<1> DEFINE first == FirstDigit(value)
           last == LastDigit(value)
           n == Len(digits)
           acc == Accumulated(value)
<1>1. /\ first \in 1 .. Len(value) + 1 /\ Len(value) \in Nat /\ n \in Nat
      /\ n = Len(value) - first + 1
      /\ 0 \in Int /\ n \in Int /\ 0 <= n /\ n \in 0 .. n
  BY FirstDigitType
<1>2. last \in first - 1 .. Len(value)
      /\ (last < Len(value) => DigitValue(value[last + 1]) >= 16)
  BY LastDigitFinds
<1>3. \A k \in 1 .. n : /\ digits[k] = value[first - 1 + k]
                        /\ DigitValue(digits[k]) < 16
                        /\ DigitValue(digits[k]) \in Nat
  BY DigitValueType DEF Hexadecimal
<1>4. /\ acc \in [first - 1 .. last -> Sums]
      /\ \A k \in first - 1 .. last :
           acc[k] = IF k = first - 1 THEN 0
                    ELSE Accumulate(acc[k - 1], DigitValue(value[k]))
  BY AccumulatedIs
<1> HIDE DEF first, last, n, acc
<1>5. last = Len(value) /\ last = first - 1 + n
  <2>1. ASSUME last < Len(value) PROVE FALSE
    <3> DEFINE k == last + 1 - (first - 1)
    <3>1. k \in 1 .. n /\ first - 1 + k = last + 1  BY <1>1, <1>2, <2>1
    <3> HIDE DEF k
    <3>2. DigitValue(value[last + 1]) < 16  BY <1>3, <3>1
    <3>3. DigitValue(value[last + 1]) >= 16  BY <1>2, <2>1
    <3>4. DigitValue(value[last + 1]) \in 0 .. 16  BY DigitValueType
    <3> QED  BY <3>2, <3>3, <3>4
  <2> QED  BY <1>1, <1>2, <2>1
<1>6. PICK f \in [0 .. n -> Nat] :
        /\ f[0] = 0 /\ Number(digits) = f[n]
        /\ \A k \in 1 .. n : f[k] = 16 * f[k - 1] + DigitValue(digits[k])
  BY NumberIsSum DEF n
<1>7. ULONG_MAX \in Nat  BY OptionsAssumption
<1> DEFINE Cut(x) == IF x > ULONG_MAX THEN -1 ELSE x
           T == {k \in 0 .. n : acc[first - 1 + k] = Cut(f[k])}
<1>8. 0 \in T
  <2>1. first - 1 + 0 = first - 1 /\ first - 1 \in first - 1 .. last
    BY <1>1, <1>2
  <2>2. acc[first - 1] = 0  BY <1>4, <2>1
  <2> QED  BY <1>1, <1>6, <1>7, <2>1, <2>2
<1>9. ASSUME NEW k \in 0 .. n, k # 0, k - 1 \in T PROVE k \in T
  <2> DEFINE d == DigitValue(digits[k])
             i == first - 1 + k
  <2>1. /\ k \in 1 .. n /\ i \in first - 1 .. last /\ i # first - 1
        /\ i - 1 = first - 1 + (k - 1) /\ k - 1 \in 0 .. n
    BY <1>1, <1>5, <1>9
  <2>2. d \in Nat /\ d = DigitValue(value[i])  BY <1>3, <2>1
  <2>3. acc[i - 1] = Cut(f[k - 1])
    <3>1. acc[first - 1 + (k - 1)] = Cut(f[k - 1])  BY <1>9
    <3> HIDE DEF i, Cut
    <3> QED  BY <2>1, <3>1
  <2>4. acc[i] = Accumulate(Cut(f[k - 1]), d)
    <3> HIDE DEF i, d, Cut
    <3> QED  BY <1>4, <2>1, <2>2, <2>3
  <2>5. f[k] = 16 * f[k - 1] + d /\ f[k - 1] \in Nat  BY <1>6, <2>1
  <2> HIDE DEF i, d
  <2>6. Accumulate(Cut(f[k - 1]), d) = Cut(f[k])
    BY <1>7, <2>2, <2>5 DEF Accumulate
  <2>7. acc[i] = Cut(f[k])  BY <2>4, <2>6
  <2> QED  BY <2>7 DEF i
<1> HIDE DEF T
<1>10. n \in T
  <2>1. \A k \in 0 .. n : k \in T  BY <1>1, <1>8, <1>9, IntervalInduction
  <2> QED  BY <1>1, <2>1
<1>11. acc[last] = Cut(Number(digits)) /\ Number(digits) \in Nat
  BY <1>1, <1>5, <1>6, <1>10 DEF T
<1> QED  BY <1>11 DEF acc, last

LEMMA HexadecimalValue ==
  ASSUME NEW value \in Seq(Chars), NEW digits,
         digits = IF Len(value) > 2 /\ SubSeq(value, 1, 2) = <<"0", "x">>
                  THEN SubSeq(value, 3, Len(value)) ELSE value,
         Hexadecimal(digits)
  PROVE  /\ Number(digits) \in Nat
         /\ strtoul(value) = IF Number(digits) > ULONG_MAX THEN ULONG_MAX
                             ELSE Number(digits)
<1>1. Len(value) \in Nat  OBVIOUS
<1>2. /\ digits \in Seq(Chars)
      /\ CharAt(value, 1) \notin {"-", "+"} /\ SkipSpaces(value, 1) = 1
      /\ Len(digits) = Len(value) - FirstDigit(value) + 1
      /\ \A k \in 1 .. Len(digits) : digits[k] = value[FirstDigit(value) - 1 + k]
  <2>1. CASE Len(value) > 2 /\ SubSeq(value, 1, 2) = <<"0", "x">>
    <3>1. value[1] = "0" /\ value[2] = "x"
      <4>1. 1 \in 1 .. Len(value) /\ 2 \in 1 .. Len(value)  BY <1>1, <2>1
      <4>2. /\ \A i \in 1 .. 2 : value[i] \in Chars
        BY <4>1, ElementOfSeq
      <4>3. \A i \in 1 .. 2 - 1 + 1 : SubSeq(value, 1, 2)[i] = value[1 + i - 1]
        BY <4>2, SubSeqProperties
      <4>4. SubSeq(value, 1, 2)[1] = value[1] /\ SubSeq(value, 1, 2)[2] = value[2]
        BY <4>3
      <4>5. <<"0", "x">>[1] = "0" /\ <<"0", "x">>[2] = "x"  OBVIOUS
      <4> QED  BY <2>1, <4>4, <4>5
    <3>2. ~isspace(value[1]) /\ value[1] \notin {"-", "+"}
      <4>1. "0" \in HexLetters  BY DEF HexLetters
      <4>2. "0" \notin {"\t", "\n", "VT", "\f", "\r", " ", "-", "+"}
        BY <4>1, OtherCharacters, Zenon
      <4> QED  BY <3>1, <4>2, Zenon DEF isspace
    <3>3. CharAt(value, 1) = "0" /\ CharAt(value, 2) = "x"
      BY <1>1, <2>1, <3>1 DEF CharAt
    <3>4. /\ SkipSpaces(value, 1) = 1 /\ CharAt(value, 1) \notin {"-", "+"}
          /\ FirstDigit(value) = 3
      BY <3>2, <3>3, StartsAtOnce
    <3>5. /\ digits \in Seq(Chars) /\ Len(digits) = Len(value) - 2
          /\ \A k \in 1 .. Len(value) - 2 : digits[k] = value[k + 2]
      <4>1. digits = SubSeq(value, 3, Len(value))  BY <2>1
      <4>2. \A i \in 3 .. Len(value) : value[i] \in Chars
        BY <1>1, ElementOfSeq
      <4>3. /\ digits \in Seq(Chars)
            /\ Len(digits) = IF 3 <= Len(value) THEN Len(value) - 3 + 1 ELSE 0
            /\ \A i \in 1 .. Len(value) - 3 + 1 : digits[i] = value[3 + i - 1]
        BY <1>1, <4>1, <4>2, SubSeqProperties
      <4>4. \A i \in 1 .. Len(value) - 2 : 3 + i - 1 = i + 2  OBVIOUS
      <4> QED  BY <1>1, <2>1, <4>3, <4>4
    <3>6. Len(value) - 3 + 1 = Len(value) - 2
          /\ \A k \in 1 .. Len(value) - 2 : 3 - 1 + k = k + 2
      BY <1>1
    <3> QED  BY <3>4, <3>5, <3>6
  <2>2. CASE ~(Len(value) > 2 /\ SubSeq(value, 1, 2) = <<"0", "x">>)
    <3>1. digits = value  BY <2>2
    <3>2. \A k \in 1 .. Len(value) :
            ~isspace(value[k]) /\ value[k] \notin {"-", "+", "x", "X"}
      BY <3>1, DigitPlain DEF Hexadecimal
    <3>3. /\ SkipSpaces(value, 1) = 1 /\ CharAt(value, 1) \notin {"-", "+"}
          /\ FirstDigit(value) =
               IF CharAt(value, 1) = "0" /\ CharAt(value, 2) \in {"x", "X"}
               THEN 3 ELSE 1
      <4>1. Len(value) > 0 => ~isspace(value[1]) /\ value[1] \notin {"-", "+"}
        BY <1>1, <3>2
      <4> QED  BY <4>1, StartsAtOnce
    <3>4. CharAt(value, 2) \notin {"x", "X"}
      <4>1. CASE 2 <= Len(value)
        <5>1. 2 \in 1 .. Len(value)  BY <1>1, <4>1
        <5> QED  BY <3>2, <4>1, <5>1 DEF CharAt
      <4>2. CASE ~(2 <= Len(value))
        <5>1. CharAt(value, 2) = "NUL"  BY <4>2 DEF CharAt
        <5> QED  BY <5>1
      <4> QED  BY <4>1, <4>2
    <3>5. FirstDigit(value) = 1  BY <3>3, <3>4
    <3>6. Len(digits) = Len(value) - FirstDigit(value) + 1
      BY <1>1, <3>1, <3>5
    <3>7. \A k \in 1 .. Len(digits) : digits[k] = value[FirstDigit(value) - 1 + k]
      <4>1. \A k \in 1 .. Len(digits) : FirstDigit(value) - 1 + k = k
        BY <3>5
      <4> QED  BY <3>1, <4>1
    <3> QED  BY <3>1, <3>3, <3>6, <3>7
  <2> QED  BY <2>1, <2>2
<1> DEFINE acc == Accumulated(value)[LastDigit(value)]
<1>3. /\ Number(digits) \in Nat
      /\ acc = IF Number(digits) > ULONG_MAX THEN -1 ELSE Number(digits)
  BY <1>2, AddsUp
<1>4. strtoul(value) = IF acc = -1 THEN ULONG_MAX ELSE acc
  BY <1>2 DEF strtoul
<1> HIDE DEF acc
<1>5. Number(digits) # -1  BY <1>3
<1> QED  BY <1>3, <1>4, <1>5

LEMMA OptionAlone == strtoul(OptionOnly) = 0
<1> DEFINE value == OptionOnly
           acc == Accumulated(value)[LastDigit(value)]
<1>1. value \in Seq(Chars) /\ Len(value) = 10 /\ value[1] = "O"
  BY DefaultsTyped
<1>2. "O" \notin HexLetters /\ ~isspace("O") /\ "O" \notin {"-", "+", "0"}
  <2>1. "O" \notin HexLetters /\ "O" \notin {"-", "+", "0"}
    BY DEF HexLetters
  <2>2. ~isspace("O")  BY Zenon DEF isspace
  <2> QED  BY <2>1, <2>2
<1>3. CharAt(value, 1) = "O"  BY <1>1 DEF CharAt
<1> HIDE DEF value
<1>4. /\ SkipSpaces(value, 1) = 1 /\ CharAt(value, 1) \notin {"-", "+"}
      /\ FirstDigit(value) = IF CharAt(value, 1) = "0"
                                /\ CharAt(value, 2) \in {"x", "X"}
                             THEN 3 ELSE 1
  BY <1>1, <1>2, StartsAtOnce
<1>5. FirstDigit(value) = 1  BY <1>2, <1>3, <1>4
<1>6. LastDigit(value) = 0
  <2>1. /\ LastDigit(value) \in 0 .. 10
        /\ \A j \in 1 .. LastDigit(value) : DigitValue(value[j]) < 16
    BY <1>1, <1>5, LastDigitFinds
  <2>2. DigitValue(value[1]) = 16  BY <1>1, <1>2, NoDigit
  <2>3. LastDigit(value) # 0 => 1 \in 1 .. LastDigit(value)  BY <2>1
  <2> QED  BY <2>1, <2>2, <2>3
<1>7. acc = 0
  <2>1. 0 \in FirstDigit(value) - 1 .. LastDigit(value) /\ FirstDigit(value) - 1 = 0
    BY <1>5, <1>6
  <2> QED  BY <1>1, <1>6, <2>1, AccumulatedIs
<1>8. strtoul(value) = IF acc = -1 THEN ULONG_MAX ELSE acc
  BY <1>4 DEF strtoul
<1> HIDE DEF acc
<1> QED  BY <1>7, <1>8 DEF value

(* The port is set once, from the values as they then are, and they are    *)
(* not changed after that.                                                 *)
PortFixed == serial_pc # "start" => debug_port = IoBase

LEMMA PortFixedStays == ASSUME PortFixed, [Next]_vars PROVE PortFixed'
<1>1. ASSUME UNCHANGED <<values, debug_port>>,
             serial_pc = "start" => serial_pc' = "start"
      PROVE  PortFixed'
  <2>1. IoBase' = IoBase  BY <1>1 DEF IoBase, get_cmdline_value_str
  <2> QED  BY <1>1, <2>1 DEF PortFixed
<1>2. CASE UNCHANGED vars
  BY <1>1, <1>2 DEF vars, serialVars, cmdlineVars
<1>3. CASE Parse
  <2>1. serial_pc' = "start"  BY <1>3 DEF Parse, serialVars
  <2> QED  BY <2>1 DEF PortFixed
<1>4. CASE InitPort
  <2>1. debug_port' = IoBase /\ values' = values
    BY <1>4 DEF InitPort, LoaderSerialInit, cmdlineVars
  <2>2. IoBase' = IoBase  BY <2>1 DEF IoBase, get_cmdline_value_str
  <2> QED  BY <2>1, <2>2 DEF PortFixed
<1>5. CASE PortStep
  <2>1. UNCHANGED <<values, debug_port>> /\ serial_pc # "start"
    BY <1>5 DEF PortStep, SerialStep, InitStep, PutChar, SeeEmpty, cmdlineVars
  <2> QED  BY <1>1, <2>1
<1>6. CASE Device  BY <1>1, <1>6 DEF Device, Drain, cmdlineVars
<1>7. ASSUME Calling, UNCHANGED <<debug_port, serial_pc>> PROVE PortFixed'
  BY <1>1, <1>7 DEF Calling, cmdlineVars
<1>8. CASE ClearScreen  BY <1>7, <1>8 DEF ClearScreen, serialVars
<1>9. CASE \E text \in Strings : PrintString(text)
  BY <1>7, <1>9 DEF PrintString
<1>10. CASE \E number \in Numbers : PrintValue(number)
  BY <1>7, <1>10 DEF PrintValue
<1>11. CASE \E text \in Strings, number \in Numbers : PrintStringValue(text, number)
  BY <1>7, <1>11 DEF PrintStringValue
<1>12. CASE \E number \in Numbers, all \in BOOLEAN : SerialPutHex(number, all)
  BY <1>7, <1>12 DEF SerialPutHex
<1> QED
  BY <1>2, <1>3, <1>4, <1>5, <1>6, <1>8, <1>9, <1>10, <1>11, <1>12 DEF Next

(* The port of loader_serial_init is the hexadecimal number in the value   *)
(* that the command line gives, through strtoul's limit at ULONG_MAX and   *)
(* the cut to a port number: for every value, limit and width.             *)
THEOREM PortIsAsWritten == Spec => []PortAsWritten
<1>1. ConsoleInit => PortFixed  BY DEF ConsoleInit, SerialInit, PortFixed
<1>2. PortFixed /\ [Next]_vars => PortFixed'  BY PortFixedStays
<1>3. ConsoleInv /\ PortFixed => PortAsWritten
  <2> DEFINE value  == get_cmdline_value_str(PortOption)
             digits == IF Len(value) > 2 /\ SubSeq(value, 1, 2) = <<"0", "x">>
                       THEN SubSeq(value, 3, Len(value)) ELSE value
  <2> SUFFICES ASSUME ConsoleInv, PortFixed, serial_pc # "start"
               PROVE  /\ Hexadecimal(digits) =>
                           debug_port = IF Number(digits) > ULONG_MAX
                                        THEN ULONG_MAX % PortMod
                                        ELSE Number(digits) % PortMod
                      /\ value = OptionOnly => debug_port = 0
    BY DEF PortAsWritten
  <2>1. value \in Seq(Chars)  BY ValueFound DEF ConsoleInv, CmdLineTyped
  <2>2. debug_port = strtoul(value) % PortMod  BY DEF PortFixed, IoBase
  <2>3. ASSUME Hexadecimal(digits)
        PROVE  debug_port = IF Number(digits) > ULONG_MAX
                            THEN ULONG_MAX % PortMod
                            ELSE Number(digits) % PortMod
    <3>1. strtoul(value) = IF Number(digits) > ULONG_MAX THEN ULONG_MAX
                           ELSE Number(digits)
      <4> HIDE DEF value
      <4> QED  BY <2>1, <2>3, HexadecimalValue
    <3> HIDE DEF value, digits
    <3> QED  BY <2>2, <3>1
  <2>4. ASSUME value = OptionOnly PROVE debug_port = 0
    <3>1. strtoul(value) = 0  BY <2>4, OptionAlone, Zenon
    <3>2. \A m \in Nat \ {0} : 0 % m = 0  OBVIOUS
    <3> HIDE DEF value
    <3> QED  BY <2>2, <3>1, <3>2, OptionsAssumption
  <2> QED  BY <2>3, <2>4
<1> QED  BY <1>1, <1>2, <1>3, ConsoleHolds, PTL DEF Spec

-----------------------------------------------------------------------------
(* Words of the line.  What parse_cmdline reads at a blank, or at the start *)
(* of the line, is the first word from there, and the next blank ends it.  *)
BlankAt(k) == cmdline[k] = " "
Border(k) == k = 1 \/ k = Len(cmdline) + 1 \/ BlankAt(k)

LEMMA BlankIsSpace == ASSUME NEW k, BlankAt(k) PROVE isspace(cmdline[k])
  BY Zenon DEF BlankAt, isspace

LEMMA WordIs ==
  ASSUME NEW a, NEW b
  PROVE  Word(a, b) <=>
           /\ \A k \in a .. b : ~BlankAt(k)
           /\ ~isspace(cmdline[a])
           /\ b < Len(cmdline) => BlankAt(b + 1)
           /\ \E w \in 1 .. a : /\ \A k \in w .. a - 1 : isspace(cmdline[k])
                                /\ w = 1 \/ BlankAt(w - 1)
  BY Zenon DEF Word, BlankAt

LEMMA WordsAre ==
  ASSUME NEW w \in Words
  PROVE  /\ w[1] \in 1 .. Len(cmdline) /\ w[2] \in w[1] .. Len(cmdline)
         /\ w = <<w[1], w[2]>> /\ Word(w[1], w[2])
  BY DEF Words

LEMMA EndOfIs ==
  ASSUME cmdline \in Seq(Chars), NEW start \in 1 .. Len(cmdline)
  PROVE  /\ EndOf(start) \in start .. Len(cmdline) + 1
         /\ \A k \in start .. EndOf(start) - 1 : ~BlankAt(k)
         /\ EndOf(start) <= Len(cmdline) => BlankAt(EndOf(start))
<1> DEFINE space == " "
           blank == strchr(cmdline, start, space)
<1>1. EndOf(start) = IF blank = 0 THEN Len(cmdline) + 1 ELSE blank
  BY Zenon DEF EndOf
<1>2. \A k : BlankAt(k) <=> cmdline[k] = space  BY Zenon DEF BlankAt
<1> HIDE DEF space
<1>3. start \in Nat \ {0} /\ Len(cmdline) \in Nat  OBVIOUS
<1>4. \/ blank = 0 /\ \A k \in start .. Len(cmdline) : cmdline[k] # space
      \/ /\ blank \in start .. Len(cmdline) /\ cmdline[blank] = space
         /\ \A k \in start .. blank - 1 : cmdline[k] # space
  BY <1>3, strchrFinds
<1> HIDE DEF blank
<1>5. CASE blank = 0
  <2>1. EndOf(start) = Len(cmdline) + 1  BY <1>1, <1>5
  <2>2. \A k \in start .. Len(cmdline) : ~BlankAt(k)  BY <1>2, <1>3, <1>4, <1>5
  <2> QED  BY <1>3, <2>1, <2>2
<1>6. CASE blank # 0
  <2>1. EndOf(start) = blank  BY <1>1, <1>6
  <2> QED  BY <1>2, <1>3, <1>4, <1>6, <2>1
<1> QED  BY <1>5, <1>6

LEMMA NextWord ==
  ASSUME cmdline \in Seq(Chars), NEW at \in 1 .. Len(cmdline) + 1, Border(at),
         SkipSpaces(cmdline, at) <= Len(cmdline)
  PROVE  LET start == SkipSpaces(cmdline, at)
             end   == EndOf(start)
         IN  /\ start \in at .. Len(cmdline) /\ end \in start + 1 .. Len(cmdline) + 1
             /\ Border(end)
             /\ <<start, end - 1>> \in Words
             /\ \A w \in Words : w[1] >= at /\ w[1] < end => w = <<start, end - 1>>
<1> DEFINE start == SkipSpaces(cmdline, at)
           end   == EndOf(start)
           n     == Len(cmdline)
<1>1. /\ start \in at .. n /\ start \in 1 .. n /\ n \in Nat
      /\ \A j \in at .. start - 1 : isspace(cmdline[j])
      /\ ~isspace(cmdline[start])
  <2>1. /\ start \in at .. n + 1 /\ n \in Nat
        /\ \A j \in at .. start - 1 : isspace(cmdline[j])
        /\ start <= n => ~isspace(cmdline[start])
    BY SkipSpacesFinds
  <2> HIDE DEF start
  <2> QED  BY <2>1 DEF start
<1> HIDE DEF start
<1>2. /\ end \in start .. n + 1
      /\ \A k \in start .. end - 1 : ~BlankAt(k)
      /\ end <= n => BlankAt(end)
  BY <1>1, EndOfIs
<1> HIDE DEF end
<1>3. end \in start + 1 .. n + 1
  <2>1. end # start
    <3>1. end = start => end <= n  BY <1>1
    <3>2. end = start => isspace(cmdline[start])  BY <1>2, <3>1, BlankIsSpace
    <3> QED  BY <1>1, <3>2
  <2> QED  BY <1>1, <1>2, <2>1
<1>4. Border(end)  BY <1>1, <1>2 DEF Border, n
<1>5. \E v \in 1 .. start : /\ \A k \in v .. start - 1 : isspace(cmdline[k])
                            /\ v = 1 \/ BlankAt(v - 1)
  <2>1. CASE at = 1
    <3>1. 1 \in 1 .. start /\ \A k \in 1 .. start - 1 : isspace(cmdline[k])
      BY <1>1, <2>1
    <3> QED  BY <3>1
  <2>2. CASE BlankAt(at)
    <3>1. at # start  BY <1>1, <2>2, BlankIsSpace
    <3>2. at + 1 \in 1 .. start /\ (at + 1) - 1 = at  BY <1>1, <3>1
    <3>3. \A k \in at + 1 .. start - 1 : isspace(cmdline[k])  BY <1>1
    <3> QED  BY <2>2, <3>2, <3>3
  <2>3. at # n + 1  BY <1>1
  <2> QED  BY <2>1, <2>2, <2>3 DEF Border, n
<1>6. <<start, end - 1>> \in Words
  <2>1. /\ end - 1 \in start .. n /\ end - 1 \in 1 .. n /\ (end - 1) + 1 = end
        /\ end - 1 < n => end <= n
    BY <1>1, <1>3
  <2>2. Word(start, end - 1)
    <3>1. end - 1 < Len(cmdline) => BlankAt((end - 1) + 1)
      BY <1>2, <2>1 DEF n
    <3> QED  BY <1>1, <1>2, <1>5, <3>1, WordIs
  <2>3. start <= end - 1  BY <1>1, <2>1
  <2> QED  BY <1>1, <2>1, <2>2, <2>3 DEF Words, n
<1>7. ASSUME NEW w \in Words, w[1] >= at, w[1] < end
      PROVE  w = <<start, end - 1>>
  <2> DEFINE a == w[1]
             b == w[2]
  <2>1. a \in 1 .. n /\ b \in a .. n /\ w = <<a, b>> /\ Word(a, b)
    BY WordsAre DEF n
  <2>2. a >= at /\ a < end  BY <1>7
  <2> HIDE DEF a, b
  <2>3. /\ \A k \in a .. b : ~BlankAt(k)
        /\ ~isspace(cmdline[a])
        /\ b < n => BlankAt(b + 1)
        /\ \E v \in 1 .. a : /\ \A k \in v .. a - 1 : isspace(cmdline[k])
                             /\ v = 1 \/ BlankAt(v - 1)
    BY <2>1, WordIs DEF n
  <2>4. a >= start
    <3>1. a < start => a \in at .. start - 1  BY <1>1, <2>1, <2>2
    <3> QED  BY <1>1, <2>1, <2>3, <3>1
  <2>5. a = start
    <3>1. PICK v \in 1 .. a : /\ \A k \in v .. a - 1 : isspace(cmdline[k])
                              /\ v = 1 \/ BlankAt(v - 1)
      BY <2>3
    <3>2. SUFFICES ASSUME a > start PROVE FALSE  BY <1>1, <2>1, <2>4
    <3>3. v > start
      <4>1. v <= start => start \in v .. a - 1  BY <1>1, <2>1, <3>2
      <4> QED  BY <1>1, <2>1, <3>1, <4>1
    <3>4. v - 1 \in start .. end - 1 /\ v # 1
      BY <1>1, <1>3, <2>1, <2>2, <3>3
    <3> QED  BY <1>2, <3>1, <3>4
  <2>6. b < end
    <3>1. SUFFICES ASSUME b >= end PROVE FALSE  BY <1>3, <2>1
    <3>2. end <= n /\ end \in a .. b  BY <1>1, <1>3, <2>1, <2>2, <3>1
    <3> QED  BY <1>2, <2>3, <3>2
  <2>7. b = end - 1
    <3>1. SUFFICES ASSUME b < end - 1 PROVE FALSE  BY <1>3, <2>1, <2>6
    <3>2. b < n /\ b + 1 \in start .. end - 1  BY <1>1, <1>3, <2>1, <2>5, <3>1
    <3> QED  BY <1>2, <2>3, <3>2
  <2> QED  BY <2>1, <2>5, <2>7
<1> QED  BY <1>1, <1>3, <1>4, <1>6, <1>7 DEF start, end, n

LEMMA NoMoreWords ==
  ASSUME cmdline \in Seq(Chars), NEW at \in 1 .. Len(cmdline) + 1,
         SkipSpaces(cmdline, at) > Len(cmdline)
  PROVE  \A w \in Words : w[1] < at
<1> SUFFICES ASSUME NEW w \in Words, ~(w[1] < at) PROVE FALSE  OBVIOUS
<1> DEFINE a == w[1]
           b == w[2]
           start == SkipSpaces(cmdline, at)
<1>1. a \in 1 .. Len(cmdline) /\ Word(a, b)  BY WordsAre
<1>2. ~(a < at)  OBVIOUS
<1>3. /\ start \in at .. Len(cmdline) + 1 /\ Len(cmdline) \in Nat
      /\ \A j \in at .. start - 1 : isspace(cmdline[j])
  BY SkipSpacesFinds
<1>4. start > Len(cmdline)  OBVIOUS
<1> HIDE DEF a, b, start
<1>5. ~isspace(cmdline[a])  BY <1>1, WordIs
<1>6. a \in at .. start - 1  BY <1>1, <1>2, <1>3, <1>4
<1> QED  BY <1>3, <1>5, <1>6

(* What a word says is what parse_cmdline makes of it.                     *)
LEMMA WordSays ==
  ASSUME cmdline \in Seq(Chars), NEW start \in 1 .. Len(cmdline),
         NEW end \in start + 1 .. Len(cmdline) + 1,
         end <= Len(cmdline) => BlankAt(end)
  PROVE  LET w      == <<start, end - 1>>
             equals == strchr(cmdline, start, "=")
         IN  \/ /\ ~ValueIn(equals, end) /\ Equals(w) = {}
                /\ NameOf(w) = Text(cmdline, start, end)
                /\ ValueOfWord(w) = OptionOnly
             \/ /\ ValueIn(equals, end) /\ Equals(w) # {}
                /\ equals \in start .. end - 1
                /\ NameOf(w) = Text(cmdline, start, equals)
                /\ ValueOfWord(w) = Text(cmdline, equals + 1, end)
<1> DEFINE w      == <<start, end - 1>>
           sign   == "="
           equals == strchr(cmdline, start, sign)
           n      == Len(cmdline)
<1>1. start \in Nat \ {0} /\ n \in Nat  OBVIOUS
<1>2. w[1] = start /\ w[2] = end - 1  OBVIOUS
<1>3. /\ Equals(w) = {k \in start .. end - 1 :
                        cmdline[k] = sign /\ \A j \in start .. k - 1 : cmdline[j] # sign}
      /\ NameOf(w) = SubSeq(cmdline, start,
                       IF Equals(w) = {} THEN end - 1
                       ELSE (CHOOSE k \in Equals(w) : TRUE) - 1)
      /\ ValueOfWord(w) = IF Equals(w) = {} THEN OptionOnly
                          ELSE SubSeq(cmdline, (CHOOSE k \in Equals(w) : TRUE) + 1,
                                      end - 1)
  <2> HIDE DEF w
  <2>1. Equals(w) = {k \in w[1] .. w[2] :
                       cmdline[k] = sign /\ \A j \in w[1] .. k - 1 : cmdline[j] # sign}
    BY Zenon DEF Equals
  <2>2. NameOf(w) = SubSeq(cmdline, w[1],
                      IF Equals(w) = {} THEN w[2]
                      ELSE (CHOOSE k \in Equals(w) : TRUE) - 1)
    BY Zenon DEF NameOf
  <2>3. ValueOfWord(w) = IF Equals(w) = {} THEN OptionOnly
                         ELSE SubSeq(cmdline, (CHOOSE k \in Equals(w) : TRUE) + 1,
                                     w[2])
    BY Zenon DEF ValueOfWord
  <2> HIDE DEF sign
  <2> QED  BY <1>2, <2>1, <2>2, <2>3
<1>4. end <= n => cmdline[end] # sign
  BY Zenon DEF BlankAt
<1> HIDE DEF w, sign
<1>5. \/ equals = 0 /\ \A k \in start .. n : cmdline[k] # sign
      \/ /\ equals \in start .. n /\ cmdline[equals] = sign
         /\ \A k \in start .. equals - 1 : cmdline[k] # sign
  BY <1>1, strchrFinds
<1> HIDE DEF equals
<1>6. CASE ~ValueIn(equals, end)
  <2>1. Equals(w) = {}
    <3> SUFFICES ASSUME NEW k \in start .. end - 1, cmdline[k] = sign
                 PROVE  FALSE
      BY <1>3
    <3>1. k \in start .. n  BY <1>1
    <3>2. equals # 0 /\ equals \in start .. n /\ ~(k \in start .. equals - 1)
      BY <1>5, <3>1
    <3>3. equals <= end  BY <1>1, <3>1, <3>2
    <3> QED  BY <1>6, <3>2, <3>3 DEF ValueIn
  <2>2. NameOf(w) = SubSeq(cmdline, start, end - 1) /\ ValueOfWord(w) = OptionOnly
    BY <1>3, <2>1
  <2> QED  BY <1>6, <2>1, <2>2 DEF Text, w, equals, sign
<1>7. CASE ValueIn(equals, end)
  <2>1. /\ equals \in start .. n /\ equals <= end /\ cmdline[equals] = sign
        /\ \A k \in start .. equals - 1 : cmdline[k] # sign
    BY <1>1, <1>5, <1>7 DEF ValueIn
  <2>2. equals \in start .. end - 1
    <3>1. equals # end  BY <1>4, <2>1
    <3> QED  BY <1>1, <2>1, <3>1
  <2>3. Equals(w) = {equals}
    <3>1. equals \in Equals(w)  BY <1>3, <2>1, <2>2
    <3>2. ASSUME NEW k \in Equals(w) PROVE k = equals
      <4>1. /\ k \in start .. end - 1 /\ cmdline[k] = sign
            /\ \A j \in start .. k - 1 : cmdline[j] # sign
        BY <1>3
      <4>2. ~(k \in start .. equals - 1) /\ ~(equals \in start .. k - 1)
        BY <2>1, <4>1
      <4> QED  BY <1>1, <2>1, <4>1, <4>2
    <3> QED  BY <3>1, <3>2
  <2>4. (CHOOSE k \in Equals(w) : TRUE) = equals  BY <2>3
  <2>5. /\ NameOf(w) = SubSeq(cmdline, start, equals - 1)
        /\ ValueOfWord(w) = SubSeq(cmdline, equals + 1, end - 1)
    BY <1>3, <2>3, <2>4
  <2>6. Equals(w) # {}  BY <2>3
  <2> QED  BY <1>7, <2>2, <2>5, <2>6, Zenon DEF Text, w, equals, sign
<1> QED  BY <1>6, <1>7

-----------------------------------------------------------------------------
(* parse_cmdline as far as it has come: of the words before a place none   *)
(* has a value too long, and every option has what they say of it.         *)
WordsBefore(place) == {w \in Words : w[1] < place}
About(words, o) == {w \in words : SpeaksOf(w, o)}
Last(words) == CHOOSE w \in words : \A v \in words : v[1] <= w[1]
Latest(about) == IF about = {} THEN Default ELSE ValueOfWord(Last(about))
Says(words, vals) ==
  /\ \A w \in words : ~TooLong(w)
  /\ \A o \in 1 .. Len(Options) : vals[o] = Latest(About(words, o))
ReadInv ==
  /\ Border(p)
  /\ parse_pc \in {"unparsed", "parsing"} => Says(WordsBefore(p), values)
  /\ parse_pc = "parsed" => Says(Words, values)
  /\ parse_pc = "error" =>
       \E v \in Words : TooLong(v) /\ Says(WordsBefore(v[1]), values)

LEMMA LineStays ==
  ASSUME cmdline' = cmdline
  PROVE  /\ Words' = Words
         /\ \A w : TooLong(w)' <=> TooLong(w)
         /\ \A place : Border(place)' <=> Border(place)
         /\ \A place : WordsBefore(place)' = WordsBefore(place)
         /\ \A words, vals : Says(words, vals)' <=> Says(words, vals)
<1>1. ASSUME NEW a, NEW b PROVE Word(a, b)' <=> Word(a, b)
  BY DEF Word
<1>2. Words' = Words  BY <1>1 DEF Words
<1>3. ASSUME NEW w PROVE Equals(w)' = Equals(w)  BY DEF Equals
<1>4. ASSUME NEW w PROVE NameOf(w)' = NameOf(w)  BY <1>3 DEF NameOf
<1>5. ASSUME NEW w PROVE ValueOfWord(w)' = ValueOfWord(w)
  <2> DEFINE E == Equals(w)
  <2>1. E' = E  BY <1>3
  <2>2. ValueOfWord(w) = IF E = {} THEN OptionOnly
                         ELSE SubSeq(cmdline, (CHOOSE k \in E : TRUE) + 1, w[2])
    BY Zenon DEF ValueOfWord
  <2>3. ValueOfWord(w)' = IF E' = {} THEN OptionOnly
                          ELSE SubSeq(cmdline', (CHOOSE k \in E' : TRUE) + 1, w[2])
    BY Zenon DEF ValueOfWord
  <2> HIDE DEF E
  <2> QED  BY <2>1, <2>2, <2>3
<1>6. ASSUME NEW w, NEW o PROVE SpeaksOf(w, o)' <=> SpeaksOf(w, o)
  BY <1>4, <1>5 DEF SpeaksOf
<1>7. ASSUME NEW w PROVE TooLong(w)' <=> TooLong(w)
  BY <1>3, <1>5 DEF TooLong
<1>8. ASSUME NEW place PROVE Border(place)' <=> Border(place)
  BY DEF Border, BlankAt
<1>9. ASSUME NEW place PROVE WordsBefore(place)' = WordsBefore(place)
  BY <1>2 DEF WordsBefore
<1>10. ASSUME NEW words, NEW o
       PROVE  Latest(About(words, o))' = Latest(About(words, o))
  <2>1. About(words, o)' = About(words, o)  BY <1>6 DEF About
  <2>2. ASSUME NEW about PROVE Latest(about)' = Latest(about)
    BY <1>5 DEF Latest
  <2> QED  BY <2>1, <2>2
<1>11. ASSUME NEW words, NEW vals PROVE Says(words, vals)' <=> Says(words, vals)
  BY <1>7, <1>10 DEF Says
<1> QED  BY <1>2, <1>7, <1>8, <1>9, <1>11

(* The option that a name is given to is the one that it speaks of.        *)
LEMMA PrefixIs ==
  ASSUME NEW name \in Seq(Chars), NEW o \in 1 .. Len(Options)
  PROVE  IsPrefixOf(name, Options[o]) <=> o \in Matching(name)
<1> DEFINE whole == Options[o]
           n == Len(name)
<1>1. whole \in Seq(Chars) /\ Len(whole) \in Nat /\ n \in Nat
  BY OptionsAreTexts
<1>2. o \in Matching(name) <=> n <= Len(whole) /\ \A k \in 1 .. n : whole[k] = name[k]
  BY DEF Matching, strncmp_equal
<1>3. IsPrefixOf(name, whole) <=> n <= Len(whole) /\ SubSeq(whole, 1, n) = name
  BY DEF IsPrefixOf
<1> HIDE DEF whole
<1>4. ASSUME n <= Len(whole)
      PROVE  SubSeq(whole, 1, n) = name <=> \A k \in 1 .. n : whole[k] = name[k]
  <2> DEFINE front == SubSeq(whole, 1, n)
  <2>1. \A k \in 1 .. n : whole[k] \in Chars
    <3>1. \A k \in 1 .. n : k \in 1 .. Len(whole)  BY <1>1, <1>4
    <3> QED  BY <1>1, <3>1, ElementOfSeq
  <2>2. /\ front \in Seq(Chars) /\ Len(front) = IF 1 <= n THEN n - 1 + 1 ELSE 0
        /\ \A k \in 1 .. n - 1 + 1 : front[k] = whole[1 + k - 1]
    <3>1. 1 \in Int /\ n \in Int  BY <1>1
    <3> QED  BY <2>1, <3>1, SubSeqProperties
  <2> HIDE DEF front
  <2>3. Len(front) = n /\ \A k \in 1 .. n : front[k] = whole[k]
    <3>1. n - 1 + 1 = n /\ (~(1 <= n) => n = 0)  BY <1>1
    <3>2. \A k \in 1 .. n : 1 + k - 1 = k  OBVIOUS
    <3> QED  BY <2>2, <3>1, <3>2
  <2>4. ASSUME \A k \in 1 .. n : whole[k] = name[k] PROVE front = name
    <3>1. \A k \in 1 .. Len(front) : front[k] = name[k]  BY <2>3, <2>4
    <3> HIDE DEF n
    <3> QED  BY <2>2, <2>3, <3>1, SeqEqual DEF n
  <2>5. ASSUME front = name PROVE \A k \in 1 .. n : whole[k] = name[k]
    BY <2>3, <2>5
  <2> QED  BY <2>4, <2>5 DEF front
<1> QED  BY <1>2, <1>3, <1>4 DEF whole

LEMMA SpeaksIs ==
  ASSUME NEW w, NameOf(w) \in Seq(Chars), Len(NameOf(w)) > 0,
         Len(ValueOfWord(w)) > 0, NEW o \in 1 .. Len(Options)
  PROVE  SpeaksOf(w, o) <=> /\ o \in Matching(NameOf(w))
                            /\ \A q \in Matching(NameOf(w)) : o <= q
<1> DEFINE M == Matching(NameOf(w))
<1>1. SpeaksOf(w, o) <=> /\ IsPrefixOf(NameOf(w), Options[o])
                         /\ \A q \in 1 .. o - 1 : ~IsPrefixOf(NameOf(w), Options[q])
  BY DEF SpeaksOf
<1>2. M \subseteq 1 .. Len(Options) /\ Len(Options) \in Nat
  BY OptionsAreTexts DEF Matching
<1>3. \A q \in 1 .. Len(Options) : IsPrefixOf(NameOf(w), Options[q]) <=> q \in M
  BY PrefixIs
<1> HIDE DEF M
<1>4. \A q \in 1 .. o - 1 : q \in 1 .. Len(Options)  BY <1>2
<1>5. (\A q \in 1 .. o - 1 : q \notin M) <=> \A q \in M : o <= q
  BY <1>2
<1> QED  BY <1>1, <1>3, <1>4, <1>5 DEF M

(* One more word: the options that it speaks of have its value, which is   *)
(* the last that was said of them.                                         *)
LEMMA OneMoreWord ==
  ASSUME NEW words, words \subseteq Words, NEW w \in Words, ~TooLong(w),
         \A v \in words : v[1] < w[1],
         NEW vals, Says(words, vals), NEW vals2,
         \A o \in 1 .. Len(Options) :
           vals2[o] = IF SpeaksOf(w, o) THEN ValueOfWord(w) ELSE vals[o]
  PROVE  Says(words \union {w}, vals2)
<1> DEFINE more == words \union {w}
<1>1. \A v \in more : ~TooLong(v)  BY DEF Says
<1>2. ASSUME NEW o \in 1 .. Len(Options)
      PROVE  vals2[o] = Latest(About(more, o))
  <2>1. vals[o] = Latest(About(words, o))  BY DEF Says
  <2>2. CASE ~SpeaksOf(w, o)
    <3>1. About(more, o) = About(words, o)  BY <2>2 DEF About
    <3> QED  BY <2>1, <2>2, <3>1
  <2>3. CASE SpeaksOf(w, o)
    <3> DEFINE about == About(more, o)
    <3>1. w \in about /\ about \subseteq more  BY <2>3 DEF About
    <3>2. \A v \in more : v[1] \in Int  BY WordsAre
    <3>3. \A v \in about : v = w \/ v[1] < w[1]  BY <3>1
    <3> HIDE DEF about, more
    <3>4. \A v \in about : v[1] <= w[1]  BY <3>1, <3>2, <3>3
    <3>5. ASSUME NEW v \in about, \A u \in about : u[1] <= v[1] PROVE v = w
      BY <3>1, <3>2, <3>3, <3>5
    <3>6. Last(about) = w  BY <3>1, <3>4, <3>5 DEF Last
    <3>7. about # {}  BY <3>1
    <3>8. Latest(about) = ValueOfWord(w)  BY <3>6, <3>7 DEF Latest
    <3> QED  BY <2>3, <3>8 DEF about
  <2> QED  BY <2>2, <2>3
<1> QED  BY <1>1, <1>2 DEF Says

LEMMA OptionRead ==
  ASSUME CmdLineTyped, Border(p), Says(WordsBefore(p), values), ParseOption
  PROVE  /\ Border(p') /\ cmdline' = cmdline
         /\ \/ parse_pc' = parse_pc /\ Says(WordsBefore(p'), values')
            \/ /\ parse_pc' = "error"
               /\ \E v \in Words : TooLong(v) /\ Says(WordsBefore(v[1]), values')
<1> DEFINE start  == SkipSpaces(cmdline, p)
           end    == EndOf(start)
           equals == strchr(cmdline, start, "=")
           size   == end - (equals + 1)
           w      == <<start, end - 1>>
<1>1. /\ start <= Len(cmdline) /\ p' = end /\ cmdline' = cmdline
      /\ \/ /\ ~ValueIn(equals, end)
            /\ SetValue(Text(cmdline, start, end), OptionOnly)
            /\ parse_pc' = parse_pc
         \/ /\ ValueIn(equals, end) /\ size > MaxValue
            /\ parse_pc' = "error" /\ values' = values
         \/ /\ ValueIn(equals, end) /\ size <= MaxValue
            /\ IF equals = start \/ size = 0 THEN values' = values
               ELSE SetValue(Text(cmdline, start, equals),
                             Text(cmdline, equals + 1, end))
            /\ parse_pc' = parse_pc
  BY Zenon DEF ParseOption
<1>2. /\ cmdline \in Seq(Chars) /\ p \in 1 .. Len(cmdline) + 1 /\ Len(cmdline) \in Nat
      /\ values \in [1 .. Len(Options) -> Seq(Chars)]
  BY DEF CmdLineTyped
<1>3. /\ start \in p .. Len(cmdline) /\ end \in start + 1 .. Len(cmdline) + 1
      /\ Border(end) /\ w \in Words
      /\ \A v \in Words : v[1] >= p /\ v[1] < end => v = w
  BY <1>1, <1>2, NextWord
<1>4. start \in 1 .. Len(cmdline) /\ (end <= Len(cmdline) => BlankAt(end))
  <2> HIDE DEF start, end
  <2> QED  BY <1>2, <1>3 DEF Border
<1>5. \/ /\ ~ValueIn(equals, end) /\ Equals(w) = {}
         /\ NameOf(w) = Text(cmdline, start, end)
         /\ ValueOfWord(w) = OptionOnly
      \/ /\ ValueIn(equals, end) /\ Equals(w) # {}
         /\ equals \in start .. end - 1
         /\ NameOf(w) = Text(cmdline, start, equals)
         /\ ValueOfWord(w) = Text(cmdline, equals + 1, end)
  <2> HIDE DEF start, end
  <2> QED  BY <1>2, <1>3, <1>4, WordSays
<1>6. w[1] = start  OBVIOUS
<1> HIDE DEF start, end, equals, w
<1>7. \A v \in Words : v[1] \in Int  BY WordsAre
<1>8. WordsBefore(end) = WordsBefore(p) \union {w}
  BY <1>2, <1>3, <1>6, <1>7 DEF WordsBefore
<1>9. WordsBefore(start) = WordsBefore(p)
  BY <1>2, <1>3, <1>6, <1>7 DEF WordsBefore
<1>10. /\ WordsBefore(p) \subseteq Words
       /\ \A v \in WordsBefore(p) : v[1] < w[1]
  BY <1>2, <1>3, <1>6, <1>7 DEF WordsBefore
<1>11. ASSUME ~TooLong(w),
              \A o \in 1 .. Len(Options) :
                values'[o] = IF SpeaksOf(w, o) THEN ValueOfWord(w) ELSE values[o]
       PROVE  Says(WordsBefore(end), values')
  BY <1>3, <1>8, <1>10, <1>11, OneMoreWord
<1>12. ASSUME NameOf(w) \in Seq(Chars), Len(NameOf(w)) > 0, Len(ValueOfWord(w)) > 0,
              SetValue(NameOf(w), ValueOfWord(w))
       PROVE  \A o \in 1 .. Len(Options) :
                values'[o] = IF SpeaksOf(w, o) THEN ValueOfWord(w) ELSE values[o]
  <2>1. ASSUME NEW o \in 1 .. Len(Options)
        PROVE  values'[o] = IF /\ o \in Matching(NameOf(w))
                               /\ \A q \in Matching(NameOf(w)) : o <= q
                            THEN ValueOfWord(w) ELSE values[o]
    BY <1>12 DEF SetValue
  <2> QED  BY <1>12, <2>1, SpeaksIs
<1>13. CASE ~ValueIn(equals, end)
  <2>1. /\ Equals(w) = {} /\ NameOf(w) = Text(cmdline, start, end)
        /\ ValueOfWord(w) = OptionOnly
        /\ SetValue(Text(cmdline, start, end), OptionOnly)
        /\ parse_pc' = parse_pc
    BY <1>1, <1>5, <1>13
  <2>2. ~TooLong(w)  BY <2>1 DEF TooLong
  <2>3. NameOf(w) \in Seq(Chars) /\ Len(NameOf(w)) > 0
    <3>1. \A i \in start .. end - 1 : cmdline[i] \in Chars
      <4>1. \A i \in start .. end - 1 : i \in 1 .. Len(cmdline)
        BY <1>2, <1>3, <1>4
      <4> QED  BY <1>2, <4>1, ElementOfSeq
    <3>2. start \in Int /\ end - 1 \in Int /\ start <= end - 1
          /\ end - 1 - start + 1 > 0
      BY <1>2, <1>3, <1>4
    <3>3. /\ SubSeq(cmdline, start, end - 1) \in Seq(Chars)
          /\ Len(SubSeq(cmdline, start, end - 1)) = end - 1 - start + 1
      BY <3>1, <3>2, SubSeqProperties
    <3> QED  BY <2>1, <3>2, <3>3 DEF Text
  <2>4. Len(ValueOfWord(w)) > 0  BY <2>1, DefaultsTyped
  <2>5. SetValue(NameOf(w), ValueOfWord(w))  BY <2>1
  <2> QED  BY <1>1, <1>3, <1>11, <1>12, <2>1, <2>2, <2>3, <2>4, <2>5
<1>14. CASE ValueIn(equals, end)
  <2>1. /\ Equals(w) # {} /\ equals \in start .. end - 1
        /\ NameOf(w) = Text(cmdline, start, equals)
        /\ ValueOfWord(w) = Text(cmdline, equals + 1, end)
    BY <1>5, <1>14
  <2>2. /\ NameOf(w) \in Seq(Chars) /\ Len(NameOf(w)) = equals - start
    <3>1. \A i \in start .. equals - 1 : cmdline[i] \in Chars
      <4>1. \A i \in start .. equals - 1 : i \in 1 .. Len(cmdline)
        BY <1>2, <1>3, <1>4, <2>1
      <4> QED  BY <1>2, <4>1, ElementOfSeq
    <3>2. /\ start \in Int /\ equals - 1 \in Int
          /\ equals - start = IF start <= equals - 1 THEN equals - 1 - start + 1
                              ELSE 0
      BY <1>2, <1>3, <1>4, <2>1
    <3>3. /\ SubSeq(cmdline, start, equals - 1) \in Seq(Chars)
          /\ Len(SubSeq(cmdline, start, equals - 1))
               = IF start <= equals - 1 THEN equals - 1 - start + 1 ELSE 0
      BY <3>1, <3>2, SubSeqProperties
    <3> QED  BY <2>1, <3>2, <3>3 DEF Text
  <2>3. Len(ValueOfWord(w)) = size
    <3>1. \A i \in equals + 1 .. end - 1 : cmdline[i] \in Chars
      <4>1. \A i \in equals + 1 .. end - 1 : i \in 1 .. Len(cmdline)
        BY <1>2, <1>3, <1>4, <2>1
      <4> QED  BY <1>2, <4>1, ElementOfSeq
    <3>2. /\ equals + 1 \in Int /\ end - 1 \in Int
          /\ size = IF equals + 1 <= end - 1 THEN end - 1 - (equals + 1) + 1
                    ELSE 0
      BY <1>2, <1>3, <1>4, <2>1
    <3>3. Len(SubSeq(cmdline, equals + 1, end - 1))
            = IF equals + 1 <= end - 1 THEN end - 1 - (equals + 1) + 1 ELSE 0
      BY <3>1, <3>2, SubSeqProperties
    <3> QED  BY <2>1, <3>2, <3>3 DEF Text
  <2>4. size \in Nat /\ equals - start \in Nat  BY <1>2, <1>3, <1>4, <2>1
  <2> HIDE DEF size
  <2>5. TooLong(w) <=> size > MaxValue  BY <2>1, <2>3 DEF TooLong
  <2>6. MaxValue \in Nat  BY OptionsAssumption
  <2>7. CASE size > MaxValue
    <3>1. parse_pc' = "error" /\ values' = values
      BY <1>1, <1>14, <2>4, <2>6, <2>7 DEF size
    <3>2. TooLong(w) /\ Says(WordsBefore(w[1]), values')
      BY <1>6, <1>9, <2>5, <2>7, <3>1
    <3> QED  BY <1>1, <1>3, <3>1, <3>2
  <2>8. CASE ~(size > MaxValue)
    <3>1. /\ IF equals = start \/ size = 0 THEN values' = values
             ELSE SetValue(NameOf(w), ValueOfWord(w))
          /\ parse_pc' = parse_pc
      BY <1>1, <1>14, <2>1, <2>8 DEF size
    <3>2. ~TooLong(w)  BY <2>5, <2>8
    <3>3. CASE equals = start \/ size = 0
      <4>1. ~(Len(NameOf(w)) > 0) \/ ~(Len(ValueOfWord(w)) > 0)
        BY <1>2, <1>4, <2>2, <2>3, <3>3
      <4>2. \A o : ~SpeaksOf(w, o)  BY <4>1 DEF SpeaksOf
      <4> QED  BY <1>1, <1>3, <1>11, <3>1, <3>2, <3>3, <4>2
    <3>4. CASE ~(equals = start \/ size = 0)
      <4>1. Len(NameOf(w)) > 0 /\ Len(ValueOfWord(w)) > 0
        BY <1>4, <2>1, <2>2, <2>3, <2>4, <3>4
      <4> QED  BY <1>1, <1>3, <1>11, <1>12, <2>2, <3>1, <3>2, <3>4, <4>1
    <3> QED  BY <3>3, <3>4
  <2> QED  BY <2>7, <2>8
<1> QED  BY <1>13, <1>14

LEMMA ReadStays ==
  ASSUME ReadInv, UNCHANGED cmdlineVars PROVE ReadInv'
<1>1. cmdline' = cmdline /\ p' = p /\ values' = values /\ parse_pc' = parse_pc
  BY DEF cmdlineVars
<1>2. /\ Border(p')
      /\ parse_pc' \in {"unparsed", "parsing"} => Says(WordsBefore(p'), values')
      /\ parse_pc' = "parsed" => Says(Words, values')
      /\ parse_pc' = "error" =>
           \E v \in Words : TooLong(v) /\ Says(WordsBefore(v[1]), values')
  BY <1>1 DEF ReadInv
<1> QED  BY <1>1, <1>2, LineStays DEF ReadInv

LEMMA ReadStarts == ConsoleInit => ReadInv
<1> SUFFICES ASSUME ConsoleInit PROVE ReadInv  OBVIOUS
<1>1. /\ p = 1 /\ values = [o \in 1 .. Len(Options) |-> Default]
      /\ parse_pc = "unparsed"
  BY DEF ConsoleInit, CmdLineInit
<1>2. Len(cmdline) \in Nat
  <2>1. CmdLineTyped  BY ConsoleStarts DEF ConsoleInv
  <2> QED  BY <2>1 DEF CmdLineTyped
<1>3. WordsBefore(1) = {}
  <2> SUFFICES ASSUME NEW w \in Words, w[1] < 1 PROVE FALSE  BY DEF WordsBefore
  <2>1. w[1] \in 1 .. Len(cmdline)  BY WordsAre
  <2> QED  BY <1>2, <2>1
<1>4. Says({}, values)
  <2>1. \A o \in 1 .. Len(Options) : values[o] = Default  BY <1>1
  <2>2. \A o : Latest(About({}, o)) = Default  BY DEF About, Latest
  <2> QED  BY <2>1, <2>2 DEF Says
<1> QED  BY <1>1, <1>3, <1>4 DEF ReadInv, Border

LEMMA ReadKeeps ==
  ASSUME ReadInv, CmdLineTyped, [Next]_vars PROVE ReadInv'
<1>1. ASSUME /\ cmdline' = cmdline
             /\ Border(p')
             /\ parse_pc' \in {"unparsed", "parsing"} => Says(WordsBefore(p'), values')
             /\ parse_pc' = "parsed" => Says(Words, values')
             /\ parse_pc' = "error" =>
                  \E v \in Words : TooLong(v) /\ Says(WordsBefore(v[1]), values')
      PROVE  ReadInv'
  BY <1>1, LineStays DEF ReadInv
<1>2. CASE ParseStart
  <2>1. /\ cmdline' = cmdline /\ p' = p /\ values' = values
        /\ parse_pc = "unparsed" /\ parse_pc' \in {"parsing", "refused"}
    BY <1>2 DEF ParseStart
  <2> QED  BY <1>1, <2>1 DEF ReadInv
<1>3. CASE ParseEnd
  <2>1. /\ cmdline' = cmdline /\ p' = p /\ values' = values
        /\ parse_pc = "parsing" /\ parse_pc' = "parsed"
        /\ SkipSpaces(cmdline, p) > Len(cmdline)
    BY <1>3 DEF ParseEnd
  <2>2. \A w \in Words : w[1] < p  BY <2>1, NoMoreWords DEF CmdLineTyped
  <2>3. WordsBefore(p) = Words  BY <2>2 DEF WordsBefore
  <2> QED  BY <1>1, <2>1, <2>3 DEF ReadInv
<1>4. CASE ParseOption
  <2>1. parse_pc = "parsing" /\ Border(p) /\ Says(WordsBefore(p), values)
    BY <1>4 DEF ParseOption, ReadInv
  <2>2. /\ Border(p') /\ cmdline' = cmdline
        /\ \/ parse_pc' = parse_pc /\ Says(WordsBefore(p'), values')
           \/ /\ parse_pc' = "error"
              /\ \E v \in Words : TooLong(v) /\ Says(WordsBefore(v[1]), values')
    BY <1>4, <2>1, OptionRead
  <2> QED  BY <1>1, <2>1, <2>2
<1>5. CASE UNCHANGED cmdlineVars  BY <1>5, ReadStays
<1>6. ParseStep \/ UNCHANGED cmdlineVars
  BY DEF Next, vars, Parse, InitPort, PortStep, Device, ClearScreen, PrintString,
         PrintValue, PrintStringValue, SerialPutHex, Calling
<1> QED  BY <1>2, <1>3, <1>4, <1>5, <1>6 DEF ParseStep

(* parse_cmdline leaves in every option the value of the last word of the  *)
(* line that speaks of it, and in the others their defaults, for every     *)
(* line and every table of options.                                        *)
THEOREM LineIsParsed == Spec => []ParsedAsWritten
<1>1. ConsoleInit => ReadInv  BY ReadStarts
<1>2. ReadInv /\ ConsoleInv /\ [Next]_vars => ReadInv'
  BY ReadKeeps DEF ConsoleInv
<1>3. ReadInv => ParsedAsWritten
  <2> DEFINE long == {w \in Words : TooLong(w)}
             read == {w \in Words : \A v \in long : w[1] < v[1]}
  <2> SUFFICES ASSUME ReadInv, parse_pc \in {"parsed", "error"}
               PROVE  /\ parse_pc = "error" <=> long # {}
                      /\ Says(read, values)
    BY DEF ParsedAsWritten, Says, Latest, About, Last
  <2>1. CASE parse_pc = "parsed"
    <3>1. Says(Words, values)  BY <2>1 DEF ReadInv
    <3>2. long = {}  BY <3>1 DEF Says
    <3>3. read = Words  BY <3>2
    <3> QED  BY <2>1, <3>1, <3>2, <3>3
  <2>2. CASE parse_pc = "error"
    <3>1. PICK v \in Words : TooLong(v) /\ Says(WordsBefore(v[1]), values)
      BY <2>2 DEF ReadInv
    <3>2. v \in long  BY <3>1
    <3>3. \A w \in Words : w[1] < v[1] => w \notin long
      BY <3>1 DEF Says, WordsBefore
    <3>4. \A w \in Words : w[1] \in Int  BY WordsAre
    <3>5. read = WordsBefore(v[1])
      <4>1. \A w \in read : w[1] < v[1]  BY <3>2
      <4>2. ASSUME NEW w \in Words, w[1] < v[1] PROVE w \in read
        <5>1. ASSUME NEW u \in long PROVE w[1] < u[1]
          BY <3>3, <3>4, <4>2
        <5> QED  BY <5>1
      <4> QED  BY <4>1, <4>2 DEF WordsBefore
    <3> QED  BY <2>2, <3>1, <3>2, <3>5
  <2> QED  BY <2>1, <2>2
<1> QED  BY <1>1, <1>2, <1>3, ConsoleHolds, PTL DEF Spec
=============================================================================
