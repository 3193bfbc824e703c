---------------------------- MODULE LoaderSerial ----------------------------
(***************************************************************************)
(* The loader's serial port (src/pre_os/common/loader_serial) and the UART *)
(* behind it.  A register write is a step of the program; the UART sends   *)
(* what it holds in steps of its own.  Values written to registers are     *)
(* those of the code; the bits that matter are taken apart by the device.  *)
(***************************************************************************)
EXTENDS Integers, Sequences

CONSTANTS
  FifoSize,  \* characters that the UART's transmit FIFO holds
  HexDigits, \* digits of an unsigned int (8)
  Uarts      \* the states the firmware may leave the UART in: see UartOf

ASSUME SerialAssumption == FifoSize \in Nat \ {0} /\ HexDigits \in Nat \ {0}

(* The registers that can be written, the receive side left out, and what  *)
(* the transmitter holds: first fw characters of the firmware's, then the  *)
(* loader's.  There may be no UART at the port: then reads give all ones.  *)
UartOf == [there : BOOLEAN, ier : 0 .. 255, dll : 0 .. 255, dlm : 0 .. 255,
           fcr : 0 .. 255, lcr : 0 .. 255, mcr : 0 .. 255,
           fw : 0 .. FifoSize, tx : {<<>>}]
ASSUME UartsAssumption == Uarts \subseteq UartOf

VARIABLES
  debug_port, \* the base of its registers, 0 for none
  uart,
  line,       \* what of the loader's went over the line, and how it was sent
  serial_pc,
  step,       \* the register write that loader_serial_init is at
  out,        \* what is left to print
  sent        \* every character given to loader_serial_putc
serialVars == <<debug_port, uart, line, serial_pc, step, out, sent>>

SerialInit == /\ debug_port = 0
              /\ uart \in Uarts
              /\ line = <<>>
              /\ serial_pc = "start" /\ step = 1
              /\ out = <<>> /\ sent = <<>>

-----------------------------------------------------------------------------
(* The device (external).                                                  *)

Bit(value, n) == (value \div 2 ^ n) % 2
Dlab(u)  == Bit(u.lcr, 7) = 1
Room(u)  == IF Bit(u.fcr, 0) = 1 THEN FifoSize ELSE 1
Held(u)  == u.fw + Len(u.tx)
Thre(u)  == ~u.there \/ Held(u) = 0
(* The line's settings: the divisor, and 8 bits without parity, 1 stop     *)
(* bit, no break.                                                          *)
Setting(u) == <<256 * u.dlm + u.dll, u.lcr % 128 = 3>>
(* Turning the FIFO on or off empties it, and so does its reset bit.       *)
Empties(u, value) == Bit(value, 2) = 1 \/ Bit(value, 0) # Bit(u.fcr, 0)
SetFcr(u, value) ==
  [u EXCEPT !.fcr = value,
            !.fw = IF Empties(u, value) THEN 0 ELSE @,
            !.tx = IF Empties(u, value) THEN <<>> ELSE @]
(* A character that there is no room for is lost.                          *)
Transmit(u, c) == IF Held(u) < Room(u) THEN [u EXCEPT !.tx = Append(@, c)]
                  ELSE u
WriteRegister(u, register, value) ==
  IF ~u.there THEN u
  ELSE CASE register = "SCR"               -> u
         [] register = "DLL" /\ Dlab(u)    -> [u EXCEPT !.dll = value]
         [] register = "DLL" /\ ~Dlab(u)   -> Transmit(u, "junk")
         [] register \in {"DLM", "IER"} /\ Dlab(u)  -> [u EXCEPT !.dlm = value]
         [] register \in {"DLM", "IER"} /\ ~Dlab(u) -> [u EXCEPT !.ier = value]
         [] register = "FCR"               -> SetFcr(u, value)
         [] register = "LCR"               -> [u EXCEPT !.lcr = value]
         [] register = "MCR"               -> [u EXCEPT !.mcr = value]
(* THR is DLL's register while DLAB is clear.                              *)
WriteThr(u, c) ==
  IF ~u.there \/ Dlab(u) THEN u ELSE Transmit(u, c)

Drain == /\ uart.there
         /\ \/ /\ uart.fw > 0
               /\ uart' = [uart EXCEPT !.fw = @ - 1]
               /\ UNCHANGED line
            \/ /\ uart.fw = 0 /\ uart.tx # <<>>
               /\ line' = Append(line, <<Head(uart.tx), Setting(uart)>>)
               /\ uart' = [uart EXCEPT !.tx = Tail(@)]
         /\ UNCHANGED <<debug_port, serial_pc, step, out, sent>>

-----------------------------------------------------------------------------
(* loader_serial_init: no port, or eleven writes.                          *)
WritesKeepingDlab ==
  <<<<"MCR", 0>>, <<"IER", 0>>, <<"FCR", 0>>, <<"SCR", 0>>, <<"LCR", 131>>,
    <<"DLL", 1>>, <<"DLM", 0>>, <<"LCR", 3>>, <<"FCR", 7>>, <<"MCR", 3>>>>
InitWrites ==
  <<<<"MCR", 0>>,                                \* dtr, rts and loop off
    <<"LCR", 3>>, <<"IER", 0>>, <<"FCR", 0>>, <<"SCR", 0>>,
    <<"LCR", 131>>, <<"DLL", 1>>, <<"DLM", 0>>,  \* dlab set: 115200 baud
    <<"LCR", 3>>,
    <<"FCR", 7>>,                                \* FIFOs on, both emptied
    <<"MCR", 3>>>>                               \* dtr and rts on
InitAnyPort(io_base) ==
  /\ serial_pc = "start"
  /\ debug_port' = io_base
  /\ serial_pc' = "init"
  /\ UNCHANGED <<uart, line, step, out, sent>>
LoaderSerialInit(io_base) ==
  /\ serial_pc = "start"
  /\ debug_port' = io_base
  /\ serial_pc' = IF io_base = 0 THEN "idle" ELSE "init"
  /\ UNCHANGED <<uart, line, step, out, sent>>
InitStep ==
  /\ serial_pc = "init"
  /\ uart' = WriteRegister(uart, InitWrites[step][1], InitWrites[step][2])
  /\ step' = step + 1
  /\ serial_pc' = IF step = Len(InitWrites) THEN "idle" ELSE "init"
  /\ UNCHANGED <<debug_port, line, out, sent>>

(* loader_serial_puts and loader_serial_putc: a character, then a wait     *)
(* until the transmitter is empty.                                         *)
NoWait == "idle"
AfterWrite == "wait"   \* reads of LSR until thre is 1
Puts(text) == out' = (IF debug_port # 0 THEN text ELSE <<>>)
PutChar == /\ serial_pc = "idle" /\ out # <<>>
           /\ uart' = WriteThr(uart, Head(out))
           /\ sent' = Append(sent, Head(out))
           /\ out' = Tail(out)
           /\ serial_pc' = AfterWrite
           /\ UNCHANGED <<debug_port, line, step>>
DataReady(u) == ~u.there   \* nothing is received
TransmitReady(u) == Thre(u)
SeeEmpty == /\ serial_pc = "wait" /\ TransmitReady(uart)
            /\ serial_pc' = "idle"
            /\ UNCHANGED <<debug_port, uart, line, step, out, sent>>

(* loader_serial_put_hex: "0x", then the digits from the highest that is   *)
(* not 0, or all of them.  Digits are cut off the right end, one a shift.  *)
HexChars == <<"0", "1", "2", "3", "4", "5", "6", "7", "8", "9",
              "a", "b", "c", "d", "e", "f">>
Shifted(hex) ==
  LET shifted[i \in 0 .. HexDigits] ==
        IF i = 0 THEN hex ELSE shifted[i - 1] \div 16
  IN  shifted
Digit(hex, i) == Shifted(hex)[i] % 16
FirstNonzero(hex, need_prefix) ==
  LET nonzero == {i \in 0 .. HexDigits - 1 : Digit(hex, i) # 0}
  IN  IF need_prefix \/ nonzero = {} THEN HexDigits - 1
      ELSE CHOOSE i \in nonzero : \A j \in nonzero : i <= j
HighestDigit(hex, need_prefix) ==
  LET nonzero == {i \in 0 .. HexDigits - 1 : Digit(hex, i) # 0}
  IN  IF need_prefix THEN HexDigits - 1
      ELSE CHOOSE i \in nonzero \union {0} : \A j \in nonzero : j <= i
HexText(hex, need_prefix) ==
  LET top == HighestDigit(hex, need_prefix)
  IN  <<"0", "x">> \o
      [k \in 1 .. top + 1 |-> HexChars[Digit(hex, top + 1 - k) + 1]]

SerialReady == serial_pc = "idle" /\ out = <<>>
SerialStep  == InitStep \/ PutChar \/ SeeEmpty
-----------------------------------------------------------------------------
(* Properties.                                                             *)

SerialTypeOK ==
  /\ debug_port \in Nat
  /\ uart.there \in BOOLEAN
  /\ {uart.ier, uart.dll, uart.dlm, uart.fcr, uart.lcr, uart.mcr} \subseteq 0 .. 255
  /\ uart.fw \in Nat /\ Held(uart) <= FifoSize
  /\ serial_pc \in {"start", "init", "idle", "wait"}
  /\ step \in 1 .. Len(InitWrites) + 1
  /\ serial_pc \in {"idle", "wait"} => (debug_port # 0 <=> step > Len(InitWrites))

(* Whatever the firmware left in the UART, its divisor latch open, a slow  *)
(* speed, interrupts or a full FIFO, after loader_serial_init it is the    *)
(* port that the comments there promise: 115200 baud, 8 bits, one stop     *)
(* bit, no parity, no interrupts, FIFO on, dtr and rts set, and nothing of *)
(* the firmware's left in it.                                              *)
PortReady ==
  debug_port # 0 /\ serial_pc \in {"idle", "wait"} /\ uart.there =>
    /\ Setting(uart) = <<1, TRUE>> /\ ~Dlab(uart)
    /\ uart.ier = 0
    /\ Bit(uart.fcr, 0) = 1 /\ uart.mcr = 3
    /\ uart.fw = 0

(* Every character printed reaches the line, once, in order and at the     *)
(* right settings, or is in the transmitter: loader_serial_putc writes     *)
(* without a look at LSR, and it is the wait of the call before, or the    *)
(* reset of the FIFO in loader_serial_init, that makes room for it.        *)
NothingLost ==
  debug_port # 0 /\ serial_pc \in {"idle", "wait"} /\ uart.there =>
    line \o [k \in 1 .. Len(uart.tx) |-> <<uart.tx[k], <<1, TRUE>>>>]
      = [k \in 1 .. Len(sent) |-> <<sent[k], <<1, TRUE>>>>]
=============================================================================
