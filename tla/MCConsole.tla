----------------------------- MODULE MCConsole ------------------------------
(***************************************************************************)
(* Console for TLC.  The option is "io=": every command line up to five    *)
(* characters, longer ones with values at the bounds of their length and   *)
(* of an unsigned long.  A screen of three columns and three rows, texts   *)
(* with a newline at the start, in the middle, after a full row, and of    *)
(* more than a row, and UARTs as firmware may leave them.                  *)
(***************************************************************************)
EXTENDS Console

MCOptions == <<<<"i", "o", "=">>, <<"v", "=">>>>
MCPortOption == <<"i", "o", "=">>
MCStrings == {<<"m", "\n">>, <<"p", "q", "r", "\n">>, <<"\n", "s">>,
              <<"t", "u", "v", "w">>}
MCNumbers == {0, 10, 160}
Uart(there, ier, dll, lcr, fcr, fw) ==
  [there |-> there, ier |-> ier, dll |-> dll, dlm |-> 0, fcr |-> fcr,
   lcr |-> lcr, mcr |-> 0, fw |-> fw, tx |-> <<>>]
Off == Uart(FALSE, 0, 0, 0, 0, 0)
MCUarts == {Off, Uart(TRUE, 0, 12, 0, 0, 0),
            Uart(TRUE, 15, 12, 131, 1, 2),
            Uart(TRUE, 1, 1, 27, 0, 1)}

Short == UNION {[1 .. n -> {"i", "o", "=", "3", " "}] : n \in 0 .. 5}
Io == <<"i", "o", "=">>
Long == {Io \o value : value \in
           {<<"0", "x", "3", "f">>, <<"f", "f", "f">>, <<"F", "F", "F", "3">>,
            <<"-", "1">>, <<"+", "3", "z">>, <<"0", "x", "z">>, <<"3", "\n">>,
            <<"1", "0", "0">>, <<"3", "3", "3", "3", "3">>}}
        \union
        {NullLine,
         <<"\t", "i", "=", "3", " ", "VT">> \o Io \o <<"8">>,
         <<"i", "o", " ", "q", "=", "1", " ", "v", "=", "2", " ">> \o Io,
         Io \o <<"3", " ", "i", "o", " ", "v">>,
         Io \o <<"3", " ", "q", "=", "3", "3", "3", "3", "3", " ">> \o Io \o <<"4">>,
         <<" ", " ">> \o Io \o <<"3", "\t">> \o Io \o <<"4">>}
Boot(line0, u, n) == [cmdline |-> line0, uart |-> u, calls |-> n]
MCBoots == {Boot(line0, Off, 0) : line0 \in Short \union Long}
           \union {Boot(Io \o <<"3", "f">>, u, 2) : u \in MCUarts}
=============================================================================
