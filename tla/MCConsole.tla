----------------------------- MODULE MCConsole -----------------------------
(***************************************************************************)
(* Bounds for TLC.  The digit gives arguments of 3 and 33: a delta beyond  *)
(* the screen, a colour, a harmless argc and a harmful one.  2^16 and 2^32 *)
(* leave the same remainder modulo 3 and modulo 2, so movements wrap       *)
(* around as in 32 bits.                                                   *)
(***************************************************************************)
EXTENDS Console

MCCommands == {"A", "B", "C", "D", "E", "F", "G", "H", "J", "K", "S", "T", "s", "u", "m", "other"}
=============================================================================
