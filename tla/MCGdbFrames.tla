---------------------------- MODULE MCGdbFrames ----------------------------
(***************************************************************************)
(* Bounds for TLC: an array in which two small frames leave exactly the    *)
(* margin, and one large or three small ones come too near to the start.   *)
(* The exceptions are a bus error, a trace, a breakpoint and an illegal    *)
(* instruction, which differ in the words they save and in how a frame of  *)
(* theirs is found again.  The state frames of the 68040's FPU are those   *)
(* of an idle one, of an unimplemented instruction and of a busy one.      *)
(***************************************************************************)
EXTENDS GdbFrames

MCTaken == {<<BusError, 7>>, <<Trace, 2>>, <<Breakpoint, 0>>, <<4, 0>>}
=============================================================================
