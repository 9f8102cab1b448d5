----------------------------- MODULE MCProcess -----------------------------
(***************************************************************************)
(* Bounds for TLC.  Four entries leave room for init, for process 1, whose *)
(* exit panics, and for two that can exit around each other.               *)
(* LastBound lets the table fill up, be refused once, and be asked again.  *)
(* The stack words are those of an empty stack, whose pointer is 0, and of  *)
(* one that is in use in the page below it, 0xFFFFFFF0.                     *)
(***************************************************************************)
EXTENDS Process
=============================================================================
