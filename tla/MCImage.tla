------------------------------- MODULE MCImage -------------------------------
(***************************************************************************)
(* Bounds for TLC.  User space has three pages of four bytes, two under    *)
(* one page table and the stack page under another; the frames suffice for *)
(* two processes until the kernel heap takes some.                         *)
(***************************************************************************)
EXTENDS Image, TLC

\* 0 root table, 1 pointer table, 2 page table of pages 3 and 4, 5 page table of page 6
MCParent   == [n \in Node |-> CASE n \in {2, 5} -> 1 [] n \in {3, 4} -> 2 [] n = 6 -> 5 [] OTHER -> 0]
MCLevel    == [n \in Node |-> CASE n \in {2, 5} -> 2 [] n \in {3, 4, 6} -> 3 [] OTHER -> n]
MCPageNode == (0 :> 3) @@ (1 :> 4) @@ (2 :> 6)

(* The supervisor's tree, in the first four frames. *)
MCBootTree == [n \in Node |-> IF n <= 3 THEN n + 1 ELSE INVALID]

SectionAt(address, type, alloc, offset, size) ==
  [address |-> address, type |-> type, alloc |-> alloc, offset |-> offset, size |-> size]

File(length, sections) == [valid |-> TRUE, length |-> length, sections |-> sections]

MCImages == <<
  \* text up to the end of its page, bss, and sections that are not loaded
  File(9, <<SectionAt(1, "progbits", TRUE, 1, 3), SectionAt(5, "nobits", TRUE, 9, 3),
            SectionAt(0, "progbits", FALSE, 4, 5)>>),
  \* two sections in one page, then one of a page and a half that meets the stack
  File(12, <<SectionAt(1, "progbits", TRUE, 1, 1), SectionAt(2, "progbits", TRUE, 2, 2),
             SectionAt(4, "progbits", TRUE, 5, 6)>>),
  \* a section across the end of a page
  File(6, <<SectionAt(5, "progbits", TRUE, 0, 2), SectionAt(2, "progbits", TRUE, 1, 3)>>),
  [valid |-> FALSE, length |-> 0, sections |-> <<>>] >>
=============================================================================
