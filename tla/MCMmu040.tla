------------------------------ MODULE MCMmu040 ------------------------------
(***************************************************************************)
(* Bounds for TLC: a tree is one path, from root table to page.            *)
(***************************************************************************)
EXTENDS Mmu040

\* 0 root table, 1 pointer table, 2 page table, 3 page
MCParent == [n \in Node |-> IF n = 0 THEN 0 ELSE n - 1]
MCLevel  == [n \in Node |-> n]

(* The supervisor's tree, in the first four frames. *)
MCBootTree == [n \in Node |-> IF n <= 3 THEN n + 1 ELSE INVALID]
=============================================================================
