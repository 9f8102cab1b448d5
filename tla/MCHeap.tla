------------------------------- MODULE MCHeap -------------------------------
(***************************************************************************)
(* Bounds for TLC: the proportions of the build at half its size, with     *)
(* three of its four quick lists and a small page.  The sizes asked for    *)
(* are one of the first quick list, one of the third, where blocks are     *)
(* split, and one of the general list; none is a multiple of LONG.         *)
(***************************************************************************)
EXTENDS Heap
=============================================================================
