----------------------------- MODULE MCGdbLink -----------------------------
(***************************************************************************)
(* Bounds for TLC: four digits, so that sums are taken modulo 16, and codes *)
(* that are different modulo 16 as real ones are modulo 256; a command of  *)
(* one character after one of three.                                       *)
(***************************************************************************)
EXTENDS GdbLink, TLC

MChexchars == <<"0", "1", "2", "3">>

MCCode ==
  [NUL |-> 0] @@ ("s" :> 1) @@ ("m" :> 6) @@ ("S" :> 3) @@ ("0" :> 4) @@ ("1" :> 5)
    @@ ("2" :> 2) @@ ("3" :> 7) @@ (":" :> 8) @@ ("+" :> 9) @@ ("-" :> 10)

MCScript == <<<<"m", "0", "1">>, <<"s">>>>

MCAnswer == (<<"m", "0", "1">> :> <<"3">>) @@ (<<"s">> :> <<"S", "1">>)
=============================================================================
