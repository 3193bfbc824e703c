------------------------------ MODULE MCPacker ------------------------------
(***************************************************************************)
(* Packer for TLC: command lines that name no file, another one, the same  *)
(* for two options, one option twice, and those that are refused.  Files   *)
(* of 0, 1 or 3 bytes, and one among them of 14, with which the total can  *)
(* wrap at 16, or of 18, which is cut to 2.                                *)
(***************************************************************************)
EXTENDS Packer, TLC

Other == 4
MCNames == Files \union {Other}
Small == {0, 1, 3}
MCDisks ==
  [MCNames -> Small] \union
  {[d EXCEPT ![n] = long] : d \in [MCNames -> Small \ {0}],
                            n \in MCNames, long \in {14, 18}}
(* The boot magic in starter.bin alone; in xmon_loader.bin as well; in a   *)
(* place of starter.bin that only packer searches, and in the other file;  *)
(* in xmon_loader.bin alone; in no file.                                   *)
In(places) == [n \in MCNames |-> IF n \in DOMAIN places THEN places[n] ELSE 0]
MCBootMagics ==
  {In(0 :> 1), In(0 :> 1 @@ 1 :> 1), In(0 :> 2 @@ Other :> 1), In(1 :> 1), In(<<>>)}
MCCommandLines ==
  {<<>>,
   <<Option(2), Name(Other)>>,
   <<Option(3), Name(1), Option(0), Name(Other)>>,
   <<Option(1), Name(Other), Option(1), Name(2)>>,
   <<Option(7), Name(Other)>>,
   <<Option(1), Option(2)>>,
   <<Option(1), Name(Other), Option(2)>>}
=============================================================================
