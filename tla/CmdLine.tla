------------------------------ MODULE CmdLine -------------------------------
(***************************************************************************)
(* The loader's options (xmon_loader/utils/string): parse_cmdline, one     *)
(* step for each option it meets, the search of get_cmdline_value_str, and *)
(* the string functions that both use.                                     *)
(*                                                                         *)
(* A string is a sequence of one-character strings without the terminating *)
(* NUL; a place in it is an index, Len + 1 that of the NUL.  "VT" is the   *)
(* vertical tab.                                                           *)
(***************************************************************************)
EXTENDS Integers, Sequences

CONSTANTS
  Options,   \* the names in the table, each ending in "="; its last entry,
             \* the empty name, is where the table ends
  MaxValue,  \* MAX_CMDLINE_VALUE_STRING_LEN - 1
  ULONG_MAX,
  PortMod    \* values of a uint16_t

ASSUME OptionsAssumption ==
  /\ Options \in Seq(Seq(STRING))
  /\ \A o \in 1 .. Len(Options) : Len(Options[o]) > 0
  /\ {MaxValue, ULONG_MAX, PortMod} \subseteq Nat \ {0}

-----------------------------------------------------------------------------
(* string.c and ctype.c                                                    *)

Text(s, from, to) == SubSeq(s, from, to - 1)
isspace(c)    == c \in {"\t", "\n", "VT", "\f", "\r", " "}
UpperDigits   == <<"A", "B", "C", "D", "E", "F">>
LowerDigits   == <<"a", "b", "c", "d", "e", "f">>
DecimalDigits == <<"0", "1", "2", "3", "4", "5", "6", "7", "8", "9">>
(* The value that strtoul gives a digit or a letter; for a letter after f  *)
(* and any other character it ends the number.                             *)
IsAt(seq, c)  == \E d \in 1 .. Len(seq) : seq[d] = c
PlaceOf(seq, c) == CHOOSE d \in 1 .. Len(seq) : seq[d] = c
DigitValue(c) == IF IsAt(DecimalDigits, c) THEN PlaceOf(DecimalDigits, c) - 1
                 ELSE IF IsAt(UpperDigits, c) THEN PlaceOf(UpperDigits, c) + 9
                 ELSE IF IsAt(LowerDigits, c) THEN PlaceOf(LowerDigits, c) + 9
                 ELSE 16

(* The first place of a character at or after a place; 0 for NULL.         *)
strchr(s, from, c) ==
  LET at == {k \in from .. Len(s) : s[k] = c}
  IN  IF at = {} THEN 0 ELSE CHOOSE k \in at : \A j \in at : k <= j
(* strncmp of a whole string and n characters of another, not 0 when the   *)
(* first ends before.                                                      *)
strncmp_equal(s, text, n) ==
  /\ n <= Len(s)
  /\ \A k \in 1 .. n : s[k] = text[k]
strcmp_equal(s, text) == s = text

(* strtoul with base 16: spaces, a sign, 0x, then digits as long as there  *)
(* are some; ULONG_MAX when they are too large.                            *)
SkipSpaces(s, from) ==
  CHOOSE k \in from .. Len(s) + 1 :
    /\ \A j \in from .. k - 1 : isspace(s[j])
    /\ k <= Len(s) => ~isspace(s[k])
CharAt(s, k) == IF k <= Len(s) THEN s[k] ELSE "NUL"
AccumulateModulo(acc, d) == (16 * acc + d) % (ULONG_MAX + 1)
Accumulate(acc, d) ==
  IF acc = -1 \/ 16 * acc + d > ULONG_MAX THEN -1 ELSE 16 * acc + d
FirstDigit(s) ==
  LET blank == SkipSpaces(s, 1)
      sign  == IF CharAt(s, blank) \in {"-", "+"} THEN blank + 1 ELSE blank
  IN  IF CharAt(s, sign) = "0" /\ CharAt(s, sign + 1) \in {"x", "X"}
      THEN sign + 2 ELSE sign
LastDigit(s) ==
  CHOOSE k \in FirstDigit(s) - 1 .. Len(s) :
    /\ \A j \in FirstDigit(s) .. k : DigitValue(s[j]) < 16
    /\ k < Len(s) => DigitValue(s[k + 1]) >= 16
Accumulated(s) ==
  LET acc[k \in FirstDigit(s) - 1 .. LastDigit(s)] ==
        IF k = FirstDigit(s) - 1 THEN 0
        ELSE Accumulate(acc[k - 1], DigitValue(s[k]))
  IN  acc
strtoul(s) ==
  LET neg == CharAt(s, SkipSpaces(s, 1)) = "-"
      acc == Accumulated(s)[LastDigit(s)]
  IN  IF acc = -1 THEN ULONG_MAX
      ELSE IF neg THEN (ULONG_MAX + 1 - acc) % (ULONG_MAX + 1)
      ELSE acc

-----------------------------------------------------------------------------
VARIABLES
  cmdline,  \* what it is given
  p,        \* the place it is at
  values,   \* the table's values
  parse_pc  \* "unparsed", "parsing", "parsed", "error" or "refused"
cmdlineVars == <<cmdline, p, values, parse_pc>>

Default == <<"0">>
NullLine == <<"NULL">>  \* no line: a null pointer
OptionOnly == <<"O", "P", "T", "I", "O", "N", "O", "N", "L", "Y">>

CmdLineInit == /\ p = 1
               /\ values = [o \in 1 .. Len(Options) |-> Default]
               /\ parse_pc = "unparsed"

(* parse_cmdline's first entry that starts with the name.                  *)
Matching(name) == {o \in 1 .. Len(Options) :
                     strncmp_equal(Options[o], name, Len(name))}
SetValue(name, value) ==
  values' = [o \in 1 .. Len(Options) |->
               IF o \in Matching(name) /\ \A q \in Matching(name) : o <= q
               THEN value ELSE values[o]]

(* An option goes up to the next blank; its value starts after the first   *)
(* "=", which is looked for up to the end of the line.                     *)
EndOf(start) == LET blank == strchr(cmdline, start, " ")
                IN  IF blank = 0 THEN Len(cmdline) + 1 ELSE blank
ValueInNext(equals, end) == equals # 0
ValueIn(equals, end) == equals # 0 /\ equals <= end

ParseStart == /\ parse_pc = "unparsed"
              /\ parse_pc' = IF cmdline = NullLine THEN "refused" ELSE "parsing"
              /\ UNCHANGED <<cmdline, p, values>>
ParseEnd == /\ parse_pc = "parsing"
            /\ SkipSpaces(cmdline, p) > Len(cmdline)
            /\ parse_pc' = "parsed"
            /\ UNCHANGED <<cmdline, p, values>>
ParseOption ==
  LET start  == SkipSpaces(cmdline, p)
      end    == EndOf(start)
      equals == strchr(cmdline, start, "=")
      size   == end - (equals + 1)
  IN  /\ parse_pc = "parsing" /\ start <= Len(cmdline)
      /\ p' = end
      /\ \/ /\ ~ValueIn(equals, end)
            /\ SetValue(Text(cmdline, start, end), OptionOnly)
            /\ UNCHANGED parse_pc
         \/ /\ ValueIn(equals, end) /\ size > MaxValue
            /\ parse_pc' = "error"
            /\ UNCHANGED values
         \/ /\ ValueIn(equals, end) /\ size <= MaxValue
            /\ IF equals = start \/ size = 0 THEN UNCHANGED values
               ELSE SetValue(Text(cmdline, start, equals),
                             Text(cmdline, equals + 1, end))
            /\ UNCHANGED parse_pc
      /\ UNCHANGED cmdline
ParseStep == ParseStart \/ ParseOption \/ ParseEnd

(* The value of the option with that whole name.                           *)
NoValue == <<>>
get_cmdline_value_str(name) ==
  LET found == {o \in 1 .. Len(Options) : strcmp_equal(name, Options[o])}
  IN  IF found = {} THEN NoValue
      ELSE values[CHOOSE o \in found : \A q \in found : o <= q]

-----------------------------------------------------------------------------
(* Properties.                                                             *)

(* A word: no blank in it, and blanks or the ends of the line around it,   *)
(* without the white space it starts with.                                 *)
Word(a, b) ==
  /\ \A k \in a .. b : cmdline[k] # " "
  /\ ~isspace(cmdline[a])
  /\ b < Len(cmdline) => cmdline[b + 1] = " "
  /\ \E w \in 1 .. a : /\ \A k \in w .. a - 1 : isspace(cmdline[k])
                       /\ w = 1 \/ cmdline[w - 1] = " "
Words == {w \in (1 .. Len(cmdline)) \X (1 .. Len(cmdline)) :
            w[1] <= w[2] /\ Word(w[1], w[2])}
Equals(w) == {k \in w[1] .. w[2] :
                cmdline[k] = "=" /\ \A j \in w[1] .. k - 1 : cmdline[j] # "="}
NameOf(w) == SubSeq(cmdline, w[1],
                    IF Equals(w) = {} THEN w[2] ELSE (CHOOSE k \in Equals(w) : TRUE) - 1)
ValueOfWord(w) == IF Equals(w) = {} THEN OptionOnly
                  ELSE SubSeq(cmdline, (CHOOSE k \in Equals(w) : TRUE) + 1, w[2])
IsPrefixOf(name, whole) ==
  Len(name) <= Len(whole) /\ SubSeq(whole, 1, Len(name)) = name
(* A word speaks of the first option that its name is the beginning of.    *)
SpeaksOf(w, o) ==
  /\ Len(NameOf(w)) > 0 /\ Len(ValueOfWord(w)) > 0
  /\ IsPrefixOf(NameOf(w), Options[o])
  /\ \A q \in 1 .. o - 1 : ~IsPrefixOf(NameOf(w), Options[q])
TooLong(w) == Equals(w) # {} /\ Len(ValueOfWord(w)) > MaxValue

(* "It will be updated after parsing" (xmon_loader.c:58): of the words of  *)
(* the line up to the first with a value too long, which is an error even  *)
(* for an option that the loader does not know, each option has the value  *)
(* of the last that speaks of it, or says that it came without one, or has *)
(* its default.                                                            *)
ParsedAsWritten ==
  parse_pc \in {"parsed", "error"} =>
    LET long  == {w \in Words : TooLong(w)}
        read  == {w \in Words : \A v \in long : w[1] < v[1]}
    IN  /\ parse_pc = "error" <=> long # {}
        /\ \A o \in 1 .. Len(Options) :
             LET about == {w \in read : SpeaksOf(w, o)}
             IN  values[o] = IF about = {} THEN Default
                   ELSE ValueOfWord(CHOOSE w \in about : \A v \in about : v[1] <= w[1])
=============================================================================
