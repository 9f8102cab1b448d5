----------------------------- MODULE Allocator -----------------------------
(***************************************************************************)
(* What the heap promises to the rest of the kernel: a block it gives is   *)
(* at least as long as what was asked for and overlaps no block that       *)
(* somebody holds, and as long as a block is held the heap neither changes *)
(* its length nor writes into it.                                          *)
(*                                                                         *)
(* It promises nothing about what is free, and may refuse.                 *)
(***************************************************************************)
EXTENDS Integers

CONSTANTS
  HEADER,   (* bytes before every block, which belong to it               *)
  Sizes     (* what may be asked for                                      *)

VARIABLES
  held,     \* the blocks somebody holds: their lengths by their addresses
  asked,    \* what is being asked for, 0 if nothing is
  memory    \* the headers: what is in the HEADER bytes at each address

vars == <<held, asked, memory>>

Init ==
  /\ held = [b \in {} |-> 0]
  /\ asked = 0
  /\ \A a \in DOMAIN memory : memory[a] = <<0, 0>>

(* A block of n bytes at b, header included, and one of m bytes at c.       *)
Apart(b, n, c, m) == b + HEADER + n <= c \/ c + HEADER + m <= b

(* Nothing is written into the block at b. *)
Spared(b) ==
  \A a \in DOMAIN memory : memory'[a] # memory[a] => Apart(a, 0, b, held[b])

Ask(n) ==
  /\ asked = 0 /\ n > 0
  /\ asked' = n
  /\ UNCHANGED <<held, memory>>

Refuse ==
  /\ asked # 0
  /\ asked' = 0
  /\ UNCHANGED <<held, memory>>

Give(b) ==
  /\ asked # 0 /\ asked' = 0
  /\ DOMAIN held' = DOMAIN held \cup {b}
  /\ held'[b] >= asked
  /\ \A c \in DOMAIN held :
       held'[c] = held[c] /\ Spared(c) /\ Apart(b, held'[b], c, held[c])

Return(b) ==
  /\ asked = 0 /\ asked' = 0
  /\ b \in DOMAIN held
  /\ DOMAIN held' = DOMAIN held \ {b}
  /\ \A c \in DOMAIN held' : held'[c] = held[c] /\ Spared(c)

(* Rearranging what is free. *)
Work ==
  /\ \A c \in DOMAIN held : Spared(c)
  /\ UNCHANGED <<held, asked>>

Next ==
  \/ \E n \in Sizes : Ask(n)
  \/ \E b \in DOMAIN held' \ DOMAIN held : Give(b)
  \/ \E b \in DOMAIN held : Return(b)
  \/ Refuse \/ Work

Spec == Init /\ [][Next]_vars
=============================================================================
