----------------------------- MODULE FrameStore -----------------------------
(***************************************************************************)
(* What the frame manager promises to the rest of the kernel: a frame is   *)
(* free or belongs to one address space; an address space is given frames  *)
(* that nobody owns and gives back frames of its own, one at a time.       *)
(*                                                                         *)
(* It promises no more than that about what is free: all of it may be      *)
(* forgotten at once, as the code does when it frees the boot ROM.         *)
(***************************************************************************)
CONSTANTS Frame, Owner

VARIABLES free, owned

vars == <<free, owned>>

(* The boot loader has given some frames away before the kernel starts. *)
Init ==
  /\ free \subseteq Frame
  /\ owned \in [Owner -> SUBSET (Frame \ free)]
  /\ \A a, b \in Owner : a # b => owned[a] \cap owned[b] = {}

Take(o, f) ==
  /\ f \in free
  /\ free' = free \ {f}
  /\ owned' = [owned EXCEPT ![o] = @ \cup {f}]

Give(o, f) ==
  /\ f \in owned[o]
  /\ free' = free \cup {f}
  /\ owned' = [owned EXCEPT ![o] = @ \ {f}]

Forget == free' = {} /\ UNCHANGED owned

Next == (\E o \in Owner, f \in Frame : Take(o, f) \/ Give(o, f)) \/ Forget

Spec == Init /\ [][Next]_vars
=============================================================================
