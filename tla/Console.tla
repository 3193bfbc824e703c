------------------------------ MODULE Console -------------------------------
(***************************************************************************)
(* The loader's messages: the command line says where the serial port is,  *)
(* and what is printed goes to the text screen (xmon_loader/utils/screen)  *)
(* with a copy to the port.  xmon_loader prints before it has set the port *)
(* up and after.  It does not call parse_cmdline today, although it says   *)
(* that the port is set up after that (xmon_loader.c:226-229): both are    *)
(* here.  A call draws on the screen first and then waits for the serial   *)
(* port, so the screen is one step.                                        *)
(***************************************************************************)
EXTENDS LoaderSerial, CmdLine

CONSTANTS
  Columns, MaxRows, \* MAX_COLOUMNS and MAX_ROWS; the screen has a row more
  Strings, Numbers, \* what may be printed
  PortOption,       \* "iobase="
  Boots             \* command lines, UARTs, and the bound on calls to print

ASSUME ConsoleAssumption ==
  /\ Columns \in Nat \ {0} /\ MaxRows \in Nat \ {0}
  /\ Strings \subseteq Seq(STRING)
  /\ \A number \in Numbers : \* an unsigned int has HexDigits digits
       number \in Nat /\ Shifted(number)[HexDigits] = 0
  /\ \A boot \in Boots : /\ boot.cmdline \in Seq(STRING) /\ boot.calls \in Nat
                         /\ boot.uart \in Uarts

VARIABLES
  cursor,  \* cells from VGA_BASE_ADDRESS
  cells,   \* the characters on the screen
  lines,   \* the lines printed since the screen was cleared
  calls,   \* how many more calls
  hex      \* the number that the last loader_serial_put_hex was given
consoleVars == <<cursor, cells, lines, calls, hex>>

Screen == 0 .. Columns * (MaxRows + 1) - 1
Blank == " "

ConsoleInit == /\ SerialInit /\ CmdLineInit
               /\ \E boot \in Boots : /\ cmdline = boot.cmdline
                                      /\ uart = boot.uart
                                      /\ calls = boot.calls
               /\ cursor = 0
               /\ cells = [c \in Screen |-> "old"]
               /\ lines = <<<<>>>>
               /\ hex = [number |-> 0, all |-> FALSE, from |-> 0, digits |-> 0]

(* print_string: a newline takes the cursor to the start of the next row,  *)
(* another character is written where the cursor is, on the screen or      *)
(* beyond.                                                                 *)
NextRowRounded(at) == ((at + Columns - 1) \div Columns) * Columns
NextRow(at) == (at \div Columns + 1) * Columns
After(at, c) == IF c = "\n" THEN NextRow(at) ELSE at + 1
(* Where the cursor is before each character of a text, and after it.      *)
Walk(text) ==
  LET walk[k \in 0 .. Len(text)] ==
        IF k = 0 THEN cursor ELSE After(walk[k - 1], text[k])
  IN  walk
Draw(text) ==
  LET walk == Walk(text)
      At(c) == {k \in 1 .. Len(text) : text[k] # "\n" /\ walk[k - 1] = c}
  IN  /\ cursor' = walk[Len(text)]
      /\ cells' = [c \in Screen |-> IF At(c) = {} THEN cells[c]
                                    ELSE text[CHOOSE k \in At(c) : TRUE]]

(* The lines so far, with a text added.                                    *)
Added(ls, c) == IF c = "\n" THEN Append(ls, <<>>)
                ELSE [ls EXCEPT ![Len(ls)] = Append(@, c)]
Adding(text) ==
  LET add[k \in 0 .. Len(text)] ==
        IF k = 0 THEN lines ELSE Added(add[k - 1], text[k])
  IN  add
Lines(text) == Adding(text)[Len(text)]

Calling == /\ SerialReady \/ serial_pc = "start"
           /\ parse_pc # "parsing"
           /\ calls > 0 /\ calls' = calls - 1
           /\ UNCHANGED cmdlineVars
PrintString(text) ==
  /\ Calling
  /\ Draw(text) /\ lines' = Lines(text)
  /\ Puts(text)
  /\ UNCHANGED <<debug_port, uart, line, serial_pc, step, sent, hex>>

(* print_value: eight digits, capital letters on the screen and small ones *)
(* on the line, where they follow "0x"; print_string_value.                *)
Capital(c) == IF IsAt(LowerDigits, c) THEN UpperDigits[PlaceOf(LowerDigits, c)]
              ELSE c
Digits(number) ==
  [k \in 1 .. HexDigits |-> Capital(HexChars[Digit(number, HexDigits - k) + 1])]
HexIs(number, all, before) ==
  hex' = [number |-> number, all |-> all, from |-> Len(sent) + before,
          digits |-> IF debug_port # 0 THEN Len(HexText(number, all)) - 2 ELSE 0]
PrintStringValue(text, number) ==
  LET shown == text \o Digits(number) \o <<"\n">>
  IN  /\ Calling
      /\ Draw(shown) /\ lines' = Lines(shown)
      /\ Puts(text \o HexText(number, TRUE) \o <<"\n">>)
      /\ HexIs(number, TRUE, Len(text))
      /\ UNCHANGED <<debug_port, uart, line, serial_pc, step, sent>>
PrintValue(number) ==
  /\ Calling
  /\ Draw(Digits(number)) /\ lines' = Lines(Digits(number))
  /\ Puts(HexText(number, TRUE))
  /\ HexIs(number, TRUE, 0)
  /\ UNCHANGED <<debug_port, uart, line, serial_pc, step, sent>>
SerialPutHex(number, need_prefix) ==
  /\ Calling
  /\ Puts(HexText(number, need_prefix))
  /\ HexIs(number, need_prefix, 0)
  /\ UNCHANGED <<debug_port, uart, line, serial_pc, step, sent, cursor, cells,
                 lines>>

(* clear_screen: as many cells as MAX_ROWS rows have.                      *)
ClearScreen ==
  /\ Calling
  /\ cells' = [c \in Screen |-> IF c < Columns * MaxRows THEN Blank ELSE cells[c]]
  /\ cursor' = 0 /\ lines' = <<<<>>>>
  /\ UNCHANGED <<serialVars, hex>>

(* get_io_base_from_cmdline_option, and what is done with its answer.      *)
IoBase == strtoul(get_cmdline_value_str(PortOption)) % PortMod
InitPort == /\ parse_pc # "parsing"
            /\ LoaderSerialInit(IoBase)
            /\ UNCHANGED <<cmdlineVars, consoleVars>>
Parse    == /\ serial_pc = "start" /\ ParseStep
            /\ UNCHANGED <<serialVars, consoleVars>>
PortStep == SerialStep /\ UNCHANGED <<cmdlineVars, consoleVars>>
Device   == Drain /\ UNCHANGED <<cmdlineVars, consoleVars>>

Next == \/ Parse \/ InitPort \/ PortStep \/ Device \/ ClearScreen
        \/ \E text \in Strings : PrintString(text)
        \/ \E number \in Numbers : PrintValue(number)
        \/ \E text \in Strings, number \in Numbers : PrintStringValue(text, number)
        \/ \E number \in Numbers, all \in BOOLEAN : SerialPutHex(number, all)
vars == <<serialVars, cmdlineVars, consoleVars>>
Spec == ConsoleInit /\ [][Next]_vars
(* The program runs on and the UART sends; neither has to print.           *)
FairSpec == Spec /\ WF_vars(PortStep) /\ WF_vars(Device)
-----------------------------------------------------------------------------
(* Properties.                                                             *)

TypeOK ==
  /\ SerialTypeOK
  /\ cursor \in Nat /\ DOMAIN cells = Screen
  /\ calls \in Nat
  /\ p \in 1 .. Len(cmdline) + 1
  /\ parse_pc \in {"unparsed", "parsing", "parsed", "error", "refused"}

(* The port is the number written in the option's value, in hexadecimal    *)
(* digits with or without "0x": of those up to ULONG_MAX, and in 16 bits.  *)
(* A value of something else is no port.                                   *)
Number(digits) ==
  LET number[k \in 0 .. Len(digits)] ==
        IF k = 0 THEN 0 ELSE 16 * number[k - 1] + DigitValue(digits[k])
  IN  number[Len(digits)]
Hexadecimal(text) == \A k \in 1 .. Len(text) : DigitValue(text[k]) < 16
PortAsWritten ==
  serial_pc # "start" =>
    LET value  == get_cmdline_value_str(PortOption)
        digits == IF Len(value) > 2 /\ SubSeq(value, 1, 2) = <<"0", "x">>
                  THEN SubSeq(value, 3, Len(value)) ELSE value
    IN  /\ Hexadecimal(digits) =>
             debug_port = IF Number(digits) > ULONG_MAX THEN ULONG_MAX % PortMod
                          ELSE Number(digits) % PortMod
        /\ value = OptionOnly => debug_port = 0

(* Every line printed can be read on the screen, on rows of its own, as    *)
(* long as there are rows: reading from the top, a line of n characters    *)
(* takes n / columns rows and one, whatever calls it was printed by.  What *)
(* is on the screen besides is what was there before.                      *)
FirstRows(ls) ==
  LET first[n \in 1 .. Len(ls)] ==
        IF n = 1 THEN 0 ELSE first[n - 1] + Len(ls[n - 1]) \div Columns + 1
  IN  first
Legible ==
  \A n \in 1 .. Len(lines) : \A k \in 1 .. Len(lines[n]) :
    LET c == FirstRows(lines)[n] * Columns + k - 1
    IN  c \in Screen => cells[c] = lines[n][k]

(* The number last printed in hexadecimal can be read back from what was   *)
(* sent after the "0x", and has no leading zero unless all digits are      *)
(* asked for.                                                              *)
ValueOf(chars) ==
  LET Value(c) == CHOOSE d \in 0 .. 15 : HexChars[d + 1] = c
      value[k \in 0 .. Len(chars)] ==
        IF k = 0 THEN 0 ELSE 16 * value[k - 1] + Value(chars[k])
  IN  value[Len(chars)]
HexReadsBack ==
  SerialReady /\ debug_port # 0 /\ Len(sent) >= hex.from + 2 + hex.digits
     /\ hex.digits > 0 =>
    LET chars == SubSeq(sent, hex.from + 3, hex.from + 2 + hex.digits)
    IN  /\ ValueOf(chars) = hex.number
        /\ IF hex.all THEN Len(chars) = HexDigits
           ELSE Len(chars) = 1 \/ chars[1] # "0"

(* "print log through serial port" (screen.c:62): a call to print returns, *)
(* if the UART sends, so that a boot with a serial port is not stuck in    *)
(* the wait for thre.                                                      *)
PrintsReturn == (serial_pc = "wait" \/ out # <<>>) ~> SerialReady
=============================================================================
