---------------------------- MODULE Image_proofs ----------------------------
(***************************************************************************)
(* Proofs about the frame manager and the translation trees of Mmu040, for *)
(* every number of frames, every tree shape and every set of handles, and  *)
(* about what Image puts into memory with them, for every number of        *)
(* processes, every page size and every set of files.                      *)
(*                                                                         *)
(* A step of Mmu040 moves at most one frame: from the head of the list     *)
(* into a slot (TakeFrame), from a slot to the head of the list            *)
(* (FreeFrame), or not at all.  TakeMove and GiveMove show what each kind  *)
(* of move preserves; the proof of an action only has to say which move it *)
(* makes.  The calls of the kernel in Image are sequences of operations of *)
(* the frame manager, so what is shown of Mmu040 holds there; HeldOnce in  *)
(* particular says that what a step writes into one frame is seen through  *)
(* one descriptor only.                                                    *)
(***************************************************************************)
EXTENDS Image, NumberLemmas


(* A descriptor holds address 0 only once the counter has reached zero,     *)
(* and the counter never grows again: what is pushed before that is a frame.*)
NullMeansExhausted ==
  \A s \in Space, n \in Node : slot[s][n] = NULL => free_frames = 0

(* Where the running operation stands, and how high the mapper stack is.    *)
OpInv ==
  /\ op.kind \in {"clear", "free"} =>
       /\ op.src \in User /\ Resident(op.src, op.tab)
       /\ mapping = Level[op.tab] + 1
  /\ op.kind = "clone" =>
       /\ op.src # op.dst /\ Resident(op.src, op.tab) /\ Resident(op.dst, op.tab)
       /\ mapping = 2 * Level[op.tab] + 2
  /\ op.kind = "alloc" =>
       /\ Resident(op.src, op.tab) /\ IsPage(op.goal) /\ op.tab \in Above(Parent[op.goal])
       /\ mapping = Level[op.tab] + 1
  /\ op.kind # "idle" => ~IsPage(op.tab) /\ wild = "no"
  /\ op.kind = "idle" /\ wild = "no" => mapping = 0

(* How far a clone has come: nothing but the tables it stands below is      *)
(* still incomplete.                                                        *)
CloneInv ==
  op.kind = "clone" =>
    \A n \in Node :
      /\ Resident(op.dst, n) => Resident(op.src, n)
      /\ n # 0 /\ Resident(op.src, n) /\ ~Resident(op.dst, n) /\ Resident(op.dst, Parent[n])
           => Parent[n] \in Above(op.tab)

-----------------------------------------------------------------------------
(* Facts about the shape of a tree. *)

(* Only the root table is at level 0, and Parent goes up one level. *)
LEMMA TreeShape ==
  ASSUME NEW n \in Node
  PROVE  /\ Parent[n] \in Node /\ Level[n] \in 0 .. 3
         /\ Level[n] = 0 <=> n = 0
         /\ n # 0 => Level[n] = Level[Parent[n]] + 1
         /\ Parent[0] = 0 /\ 0 \in Node /\ Level[0] = 0
<1>1. 0 \in Node /\ Parent[0] = 0 /\ Level[0] = 0
  BY TreeAssumption DEF TreeAssumption, Node
<1>2. Parent[n] \in Node /\ Level[n] \in 0 .. 3
  BY TreeAssumption DEF TreeAssumption
<1>3. Level[Parent[n]] \in 0 .. 3
  BY <1>2, TreeAssumption DEF TreeAssumption
<1>4. n # 0 => Level[n] = Level[Parent[n]] + 1
  BY TreeAssumption DEF TreeAssumption
<1> QED BY <1>1, <1>2, <1>3, <1>4

(* A table is never a page, and above a page table there are at most two    *)
(* tables.                                                                  *)
LEMMA AboveShape ==
  ASSUME NEW t \in Node, Level[t] <= 2
  PROVE  /\ Above(t) \subseteq Node
         /\ \A m \in Above(t) : m = t \/ Level[m] < Level[t]
         /\ Parent[Parent[Parent[t]]] \in {0}
         /\ \A n \in Children(t) : Level[n] = Level[t] + 1 /\ n \in Node /\ n # 0 /\ Parent[n] = t
<1>1. Parent[t] \in Node /\ Parent[Parent[t]] \in Node
  BY TreeShape
<1>2. /\ Level[Parent[t]] < Level[t] \/ (t = 0 /\ Parent[t] = 0)
      /\ Level[Parent[Parent[t]]] < Level[Parent[t]] \/ (Parent[t] = 0 /\ Parent[Parent[t]] = 0)
  BY <1>1, TreeShape
<1>3. Parent[Parent[Parent[t]]] = 0
  BY <1>1, <1>2, TreeShape
<1>4. \A n \in Children(t) : Level[n] = Level[t] + 1 /\ n \in Node /\ n # 0 /\ Parent[n] = t
  BY TreeShape DEF Children
<1> QED BY <1>1, <1>2, <1>3, <1>4, TreeShape DEF Above

-----------------------------------------------------------------------------
(* Facts about the free list as a sequence. *)

(* Pushing a frame shifts the list by one place. *)
LEMMA PushShape ==
  ASSUME NEW list \in Seq(Frame), NEW f \in Frame
  PROVE  /\ <<f>> \o list \in Seq(Frame)
         /\ Len(<<f>> \o list) = Len(list) + 1
         /\ (<<f>> \o list)[1] = f
         /\ \A i \in 2 .. Len(list) + 1 : (<<f>> \o list)[i] = list[i - 1]
         /\ Head(<<f>> \o list) = f
         /\ Tail(<<f>> \o list) = list
<1>1. <<f>> \in Seq(Frame) /\ Len(<<f>>) = 1 /\ <<f>>[1] = f
  OBVIOUS
<1>2. /\ <<f>> \o list \in Seq(Frame)
      /\ Len(<<f>> \o list) = Len(list) + 1
      /\ (<<f>> \o list)[1] = f
      /\ \A i \in 2 .. Len(list) + 1 : (<<f>> \o list)[i] = list[i - 1]
  BY <1>1
<1>3. Head(<<f>> \o list) = f
  BY <1>2
<1>4. Tail(<<f>> \o list) = list
  BY <1>2
<1> QED BY <1>2, <1>3, <1>4

(* Taking the head shifts the list the other way. *)
LEMMA TakeShape ==
  ASSUME NEW list \in Seq(Frame), list # <<>>
  PROVE  /\ Tail(list) \in Seq(Frame)
         /\ Len(Tail(list)) = Len(list) - 1
         /\ Head(list) = list[1] /\ list[1] \in Frame
         /\ \A i \in 1 .. Len(list) - 1 : Tail(list)[i] = list[i + 1]
OBVIOUS

-----------------------------------------------------------------------------
(* The two moves. *)

ListInv == CounterCovered /\ NoDoubleUse /\ NullMeansExhausted

(* When the counter is not zero the head of the list is a frame. *)
LEMMA ListNotEmpty ==
  ASSUME TypeOK, CounterCovered, ~AllocFails
  PROVE  /\ free_frame \in Seq(Frame) /\ free_frame # <<>>
         /\ free_frames \in Nat /\ free_frames > 0
         /\ AllocFrame = free_frame[1] /\ AllocFrame \in Frame
<1>1. free_frame \in Seq(Frame) /\ free_frames \in Nat /\ free_frames > 0
  BY DEF TypeOK, AllocFails
<1>2. free_frame # <<>>
  BY <1>1 DEF CounterCovered
<1> QED BY <1>1, <1>2, TakeShape DEF AllocFrame

(* A frame taken from the list and put under an invalid descriptor. *)
LEMMA TakeMove ==
  ASSUME TypeOK, ListInv, TakeFrame,
         NEW s \in Space, NEW n \in Node, ~Resident(s, n), SetSlot(s, n, AllocFrame)
  PROVE  ListInv' /\ Listed \cup Held \subseteq (Listed \cup Held)'
<1>1. ~AllocFails
  BY DEF TakeFrame
<1>2. /\ free_frame \in Seq(Frame) /\ free_frame # <<>>
      /\ free_frames \in Nat /\ free_frames > 0
      /\ AllocFrame = free_frame[1] /\ AllocFrame \in Frame
  BY <1>1, ListNotEmpty DEF ListInv
<1>3. /\ Len(free_frame') = Len(free_frame) - 1
      /\ Len(free_frame) \in Nat
      /\ \A i \in 1 .. Len(free_frame) - 1 : free_frame'[i] = free_frame[i + 1]
      /\ free_frames' = free_frames - 1
  BY <1>2, TakeShape DEF TakeFrame
<1>4. \A t \in Space, m \in Node :
        slot'[t][m] = IF t = s /\ m = n THEN free_frame[1] ELSE slot[t][m]
  BY <1>2 DEF SetSlot, TypeOK
<1>5. CounterCovered'
  BY <1>2, <1>3 DEF ListInv, CounterCovered
<1>6. ListDistinct'
  BY <1>3 DEF ListInv, NoDoubleUse, ListDistinct
<1>7. ListUnheld'
  <2> SUFFICES ASSUME NEW t \in Space, NEW m \in Node, NEW i \in 1 .. Len(free_frame')
               PROVE  slot'[t][m] # free_frame'[i]
    BY DEF ListUnheld
  <2>1. i + 1 \in 1 .. Len(free_frame) /\ free_frame'[i] = free_frame[i + 1] /\ 1 \in 1 .. Len(free_frame)
    BY <1>3
  <2>2. slot[t][m] # free_frame[i + 1]
    BY <2>1 DEF ListInv, NoDoubleUse, ListUnheld
  <2>3. free_frame[1] # free_frame[i + 1]
    BY <2>1 DEF ListInv, NoDoubleUse, ListDistinct
  <2> QED BY <2>1, <2>2, <2>3, <1>4
<1>8. HeldOnce'
  <2> SUFFICES ASSUME NEW t1 \in Space, NEW t2 \in Space, NEW m1 \in Node, NEW m2 \in Node,
                      slot'[t1][m1] = slot'[t2][m2], slot'[t1][m1] \in Frame
               PROVE  t1 = t2 /\ m1 = m2
    BY DEF HeldOnce
  <2>1. 1 \in 1 .. Len(free_frame)
    BY <1>2
  <2>2. slot[t1][m1] # free_frame[1] /\ slot[t2][m2] # free_frame[1]
    BY <2>1 DEF ListInv, NoDoubleUse, ListUnheld
  <2>3. CASE (t1 = s /\ m1 = n) \/ (t2 = s /\ m2 = n)
    BY <2>2, <2>3, <1>4
  <2>4. CASE ~(t1 = s /\ m1 = n) /\ ~(t2 = s /\ m2 = n)
    BY <2>4, <1>4 DEF ListInv, NoDoubleUse, HeldOnce
  <2> QED BY <2>3, <2>4
<1>9. NullMeansExhausted'
  BY <1>2, <1>3, <1>4 DEF ListInv, NullMeansExhausted, NULL, Frame
<1>10. ASSUME NEW f \in Listed \cup Held PROVE f \in (Listed \cup Held)'
  <2>1. CASE f = free_frame[1]
    <3>1. slot'[s][n] = f /\ f # NULL /\ f # INVALID
      BY <1>2, <1>4, <2>1 DEF NULL, INVALID, Frame
    <3> QED BY <3>1 DEF Held
  <2>2. CASE f \in Listed /\ f # free_frame[1]
    <3>1. PICK i \in 2 .. Len(free_frame) : f = free_frame[i]
      BY <1>3, <2>2 DEF Listed
    <3>2. i - 1 \in 1 .. Len(free_frame') /\ free_frame'[i - 1] = f
      BY <1>3, <3>1
    <3> QED BY <3>2 DEF Listed
  <2>3. CASE f \in Held
    <3>1. PICK t \in Space, m \in Node : slot[t][m] = f /\ f # NULL /\ f # INVALID
      BY <2>3 DEF Held
    <3>2. slot'[t][m] = f
      BY <3>1, <1>4 DEF Resident
    <3> QED BY <3>1, <3>2 DEF Held
  <2> QED BY <2>1, <2>2, <2>3
<1> QED BY <1>5, <1>6, <1>7, <1>8, <1>9, <1>10 DEF ListInv, NoDoubleUse

(* A resident descriptor's frame pushed on the list, the descriptor left    *)
(* invalid, or left at address 0 when memory is exhausted.                  *)
LEMMA GiveMove ==
  ASSUME TypeOK, ListInv,
         NEW s \in Space, NEW n \in Node, Resident(s, n),
         NEW v \in {INVALID, NULL}, v = NULL => free_frames = 0,
         FreeFrame(slot[s][n]), SetSlot(s, n, v)
  PROVE  /\ ListInv'
         /\ free_frame' \in Seq(Frame)
         /\ slot[s][n] # NULL => Listed \cup Held \subseteq (Listed \cup Held)'
<1>1. /\ free_frame \in Seq(Frame) /\ Len(free_frame) \in Nat /\ free_frames \in Nat
      /\ free_frames' = free_frames
      /\ v \notin Frame
  BY DEF TypeOK, FreeFrame, NULL, INVALID, Frame
<1>2. \A t \in Space, m \in Node :
        slot'[t][m] = IF t = s /\ m = n THEN v ELSE slot[t][m]
  BY DEF SetSlot, TypeOK
<1>3. NullMeansExhausted'
  BY <1>1, <1>2 DEF ListInv, NullMeansExhausted, NULL, INVALID
<1>4. HeldOnce'
  BY <1>1, <1>2 DEF ListInv, NoDoubleUse, HeldOnce
<1>5. CASE slot[s][n] = NULL
  <2>1. free_frame' = <<>> /\ free_frames = 0
    BY <1>5 DEF FreeFrame, Pushed, ListInv, NullMeansExhausted
  <2>2. CounterCovered' /\ ListDistinct' /\ ListUnheld'
    BY <2>1, <1>1 DEF CounterCovered, ListDistinct, ListUnheld
  <2> QED BY <1>3, <1>4, <1>5, <2>1, <2>2 DEF ListInv, NoDoubleUse
<1>6. CASE slot[s][n] # NULL
  <2> DEFINE f == slot[s][n]
  <2>1. f \in Frame
    BY <1>6 DEF TypeOK, Resident
  <2>2. free_frame' = <<f>> \o free_frame
    BY <1>6 DEF FreeFrame, Pushed
  <2> HIDE DEF f
  <2>3. /\ free_frame' \in Seq(Frame)
        /\ Len(free_frame') = Len(free_frame) + 1
        /\ free_frame'[1] = f
        /\ \A i \in 2 .. Len(free_frame) + 1 : free_frame'[i] = free_frame[i - 1]
    BY <1>1, <2>1, <2>2, PushShape
  <2>4. \A i \in 1 .. Len(free_frame) : free_frame[i] # f
    BY DEF ListInv, NoDoubleUse, ListUnheld, f
  <2>5. CounterCovered'
    BY <1>1, <2>3 DEF ListInv, CounterCovered
  <2>6. ListDistinct'
    <3> SUFFICES ASSUME NEW i \in 1 .. Len(free_frame) + 1, NEW j \in 1 .. Len(free_frame) + 1,
                        free_frame'[i] = free_frame'[j]
                 PROVE  i = j
      BY <2>3 DEF ListDistinct
    <3>1. ASSUME NEW k \in 2 .. Len(free_frame) + 1 PROVE free_frame'[k] # free_frame'[1]
      <4>1. k - 1 \in 1 .. Len(free_frame)
        BY <1>1
      <4>2. free_frame'[k] = free_frame[k - 1]
        BY <2>3
      <4> QED BY <2>3, <2>4, <4>1, <4>2
    <3>2. CASE i # 1 /\ j # 1
      <4>1. i - 1 \in 1 .. Len(free_frame) /\ j - 1 \in 1 .. Len(free_frame)
        BY <3>2, <1>1
      <4>2. free_frame[i - 1] = free_frame[j - 1]
        BY <3>2, <1>1, <2>3
      <4> QED BY <4>1, <4>2 DEF ListInv, NoDoubleUse, ListDistinct
    <3>3. (i = 1 \/ i \in 2 .. Len(free_frame) + 1) /\ (j = 1 \/ j \in 2 .. Len(free_frame) + 1)
      BY <1>1
    <3> QED BY <3>1, <3>2, <3>3
  <2>7. ListUnheld'
    <3> SUFFICES ASSUME NEW t \in Space, NEW m \in Node, NEW i \in 1 .. Len(free_frame) + 1
                 PROVE  slot'[t][m] # free_frame'[i]
      BY <2>3 DEF ListUnheld
    <3>1. CASE t = s /\ m = n
      <4>1. free_frame'[i] \in Frame
        BY <2>3, <1>1
      <4> QED BY <4>1, <3>1, <1>1, <1>2
    <3>2. CASE ~(t = s /\ m = n)
      <4>1. slot'[t][m] = slot[t][m]
        BY <3>2, <1>2
      <4>2. slot[t][m] # f
        BY <3>2, <2>1 DEF ListInv, NoDoubleUse, HeldOnce, f
      <4>3. CASE i = 1
        BY <4>1, <4>2, <4>3, <2>3
      <4>4. CASE i # 1
        <5>1. i - 1 \in 1 .. Len(free_frame) /\ free_frame'[i] = free_frame[i - 1]
          BY <4>4, <1>1, <2>3
        <5> QED BY <5>1, <4>1 DEF ListInv, NoDoubleUse, ListUnheld
      <4> QED BY <4>3, <4>4
    <3> QED BY <3>1, <3>2
  <2>8. ASSUME NEW g \in Listed \cup Held PROVE g \in (Listed \cup Held)'
    <3>1. CASE g = f
      <4>1. 1 \in 1 .. Len(free_frame') /\ free_frame'[1] = g
        BY <3>1, <2>3, <1>1
      <4> QED BY <4>1 DEF Listed
    <3>2. CASE g \in Listed
      <4>1. PICK i \in 1 .. Len(free_frame) : g = free_frame[i]
        BY <3>2 DEF Listed
      <4>2. i + 1 \in 1 .. Len(free_frame') /\ free_frame'[i + 1] = g
        BY <4>1, <1>1, <2>3
      <4> QED BY <4>2 DEF Listed
    <3>3. CASE g \in Held /\ g # f
      <4>1. PICK t \in Space, m \in Node : slot[t][m] = g /\ g # NULL /\ g # INVALID
        BY <3>3 DEF Held
      <4>2. slot'[t][m] = g
        BY <4>1, <3>3, <1>2 DEF f
      <4> QED BY <4>1, <4>2 DEF Held
    <3> QED BY <3>1, <3>2, <3>3
  <2> QED BY <1>3, <1>4, <2>3, <2>5, <2>6, <2>7, <2>8 DEF ListInv, NoDoubleUse
<1> QED BY <1>5, <1>6

(* Address 0 put under an invalid descriptor once memory is exhausted. *)
LEMMA NullMove ==
  ASSUME TypeOK, ListInv, AllocFails, UNCHANGED <<free_frame, free_frames>>,
         NEW s \in Space, NEW n \in Node, ~Resident(s, n), SetSlot(s, n, NULL)
  PROVE  ListInv' /\ Listed \cup Held \subseteq (Listed \cup Held)'
<1>1. \A t \in Space, m \in Node :
        slot'[t][m] = IF t = s /\ m = n THEN NULL ELSE slot[t][m]
  BY DEF SetSlot, TypeOK
<1>2. CounterCovered' /\ ListDistinct' /\ NullMeansExhausted'
  BY <1>1 DEF ListInv, NoDoubleUse, CounterCovered, ListDistinct, NullMeansExhausted, AllocFails
<1>3. HeldOnce'
  BY <1>1 DEF ListInv, NoDoubleUse, HeldOnce, Frame, NULL
<1>4. ListUnheld'
  <2>1. free_frame \in Seq(Frame)
    BY DEF TypeOK
  <2>2. \A i \in 1 .. Len(free_frame) : free_frame[i] \in Frame
    BY <2>1
  <2>3. \A i \in 1 .. Len(free_frame) : free_frame[i] # NULL
    BY <2>2 DEF Frame, NULL
  <2> QED BY <2>3, <1>1 DEF ListInv, NoDoubleUse, ListUnheld
<1>5. Listed \cup Held \subseteq (Listed \cup Held)'
  BY <1>1 DEF Listed, Held, Resident
<1> QED BY <1>2, <1>3, <1>4, <1>5 DEF ListInv, NoDoubleUse

-----------------------------------------------------------------------------
(* The inductive invariant, and one lemma for each group of actions. *)

IInv == TypeOK /\ ListInv /\ TreeClosed /\ OpInv /\ CloneInv

(* The initial state. *)
LEMMA InitIInv == Init => IInv
<1> SUFFICES ASSUME Init PROVE IInv
  OBVIOUS
<1> USE FrameAssumption, SpaceAssumption DEF FrameAssumption, SpaceAssumption
<1>1. free_frame \in Seq(Frame) /\ Len(free_frame) = Total - Boot
  <2> DEFINE n == Total - Boot
             f == [i \in 1 .. n |-> Total + 1 - i]
  <2>1. n \in Nat /\ \A i \in 1 .. n : Total + 1 - i \in Frame
    BY DEF Frame
  <2>2. f \in [1 .. n -> Frame]
    BY <2>1
  <2>3. free_frame = f
    BY DEF Init, BuildFreeFrameList
  <2> HIDE DEF f, n
  <2>4. f \in Seq(Frame) /\ Len(f) = n
    BY <2>1, <2>2
  <2> QED BY <2>3, <2>4 DEF n
<1>2. \A i \in 1 .. Len(free_frame) : free_frame[i] = Total + 1 - i /\ free_frame[i] > Boot
  BY <1>1 DEF Init, BuildFreeFrameList
<1>3. /\ slot[Kernel] = BootTree /\ Kernel \in Space
      /\ \A s \in Space \ {Kernel}, n \in Node : slot[s][n] = INVALID
  BY DEF Init, Space
<1>4. \A n \in Node : BootTree[n] \in (1 .. Boot) \cup {INVALID}
  OBVIOUS
<1>5. slot \in [Space -> [Node -> Frame \cup {NULL, INVALID}]]
  BY DEF Init, Frame
<1>6. TypeOK
  <2>1. Idle \in [kind : Kinds, src : Space, dst : Space, tab : Node, goal : Node]
    BY <1>3, TreeAssumption DEF TreeAssumption, Idle, Kinds, Node
  <2> QED BY <1>1, <1>5, <2>1 DEF Init, TypeOK
<1>7. CounterCovered
  BY <1>1 DEF Init, CounterCovered
<1>8. ListDistinct
  BY <1>1, <1>2 DEF ListDistinct
<1>9. ListUnheld
  <2>1. Boot \in Int /\ INVALID \in Int /\ INVALID <= Boot
    BY DEF INVALID
  <2>2. \A n \in Node : BootTree[n] \in Int /\ BootTree[n] <= Boot
    BY <1>4, <2>1
  <2>3. \A s \in Space, n \in Node : slot[s][n] \in Int /\ slot[s][n] <= Boot
    BY <1>3, <2>1, <2>2
  <2>4. \A i \in 1 .. Len(free_frame) : free_frame[i] \in Int /\ free_frame[i] > Boot
    BY <1>1, <1>2 DEF Frame
  <2>5. SUFFICES ASSUME NEW s \in Space, NEW n \in Node, NEW i \in 1 .. Len(free_frame)
                 PROVE  slot[s][n] # free_frame[i]
    BY DEF ListUnheld
  <2> QED BY <2>1, <2>3, <2>4
<1>10. HeldOnce
  BY <1>3, <1>4 DEF HeldOnce, INVALID, Frame
<1>11. NullMeansExhausted
  BY <1>3, <1>4 DEF NullMeansExhausted, NULL, INVALID
<1>12. TreeClosed
  BY <1>3, TreeShape DEF TreeClosed, Resident
<1>13. OpInv /\ CloneInv
  BY DEF Init, OpInv, CloneInv, Idle
<1> QED BY <1>6, <1>7, <1>8, <1>9, <1>10, <1>11, <1>12, <1>13 DEF IInv, ListInv, NoDoubleUse

(* An invalid descriptor below a resident table becomes resident. *)
LEMMA TreeGrows ==
  ASSUME TypeOK, TreeClosed,
         NEW s \in Space, NEW n \in Node, NEW f \in Frame \cup {NULL},
         n = 0 \/ Resident(s, Parent[n]), SetSlot(s, n, f)
  PROVE  /\ slot' \in [Space -> [Node -> Frame \cup {NULL, INVALID}]]
         /\ TreeClosed'
         /\ \A t \in Space, m \in Node :
              Resident(t, m)' <=> (Resident(t, m) \/ (t = s /\ m = n))
<1>1. \A t \in Space, m \in Node :
        slot'[t][m] = IF t = s /\ m = n THEN f ELSE slot[t][m]
  BY DEF SetSlot, TypeOK
<1>2. slot' \in [Space -> [Node -> Frame \cup {NULL, INVALID}]]
  BY DEF SetSlot, TypeOK
<1>3. \A t \in Space, m \in Node :
        Resident(t, m)' <=> (Resident(t, m) \/ (t = s /\ m = n))
  BY <1>1 DEF Resident, Frame, NULL, INVALID
<1>4. TreeClosed'
  BY <1>3, TreeShape DEF TreeClosed
<1> QED BY <1>2, <1>3, <1>4

(* A descriptor with nothing resident below it becomes invalid. *)
LEMMA TreeShrinks ==
  ASSUME TypeOK, TreeClosed,
         NEW s \in Space, NEW n \in Node,
         \A m \in Children(n) : ~Resident(s, m), SetSlot(s, n, INVALID)
  PROVE  /\ slot' \in [Space -> [Node -> Frame \cup {NULL, INVALID}]]
         /\ TreeClosed'
         /\ \A t \in Space, m \in Node :
              Resident(t, m)' <=> (Resident(t, m) /\ ~(t = s /\ m = n))
<1>1. \A t \in Space, m \in Node :
        slot'[t][m] = IF t = s /\ m = n THEN INVALID ELSE slot[t][m]
  BY DEF SetSlot, TypeOK
<1>2. slot' \in [Space -> [Node -> Frame \cup {NULL, INVALID}]]
  BY DEF SetSlot, TypeOK
<1>3. \A t \in Space, m \in Node :
        Resident(t, m)' <=> (Resident(t, m) /\ ~(t = s /\ m = n))
  BY <1>1 DEF Resident
<1>4. ASSUME NEW t \in Space, NEW m \in Node, Resident(t, m)'
      PROVE  Resident(t, Parent[m])'
  <2>1. Parent[m] \in Node /\ Resident(t, m) /\ Resident(t, Parent[m])
    BY <1>3, <1>4, TreeShape DEF TreeClosed
  <2>2. ~(t = s /\ Parent[m] = n)
    BY <2>1, <1>3, <1>4, TreeShape DEF Children
  <2> QED BY <2>1, <2>2, <1>3
<1> QED BY <1>2, <1>3, <1>4 DEF TreeClosed

(* Steps that leave the list and the trees alone. *)
LEMMA NoMove ==
  ASSUME IInv, UNCHANGED <<free_frame, free_frames, slot>>
  PROVE  /\ ListInv' /\ TreeClosed' /\ (Listed \cup Held)' = Listed \cup Held
         /\ \A s \in Space, n \in Node : Resident(s, n)' <=> Resident(s, n)
BY DEF IInv, ListInv, CounterCovered, NoDoubleUse, ListDistinct, ListUnheld, HeldOnce,
       NullMeansExhausted, TreeClosed, Listed, Held, Resident

(* The hardware goes wild: nothing is running any more. *)
LEMMA WildKeeps ==
  ASSUME IInv, NEW why \in {"rom", "freed"}, GoWild(why)
  PROVE  IInv'
<1>1. ListInv' /\ TreeClosed'
  BY NoMove DEF GoWild
<1>2. TypeOK'
  BY SpaceAssumption, TreeAssumption
     DEF IInv, TypeOK, GoWild, Idle, Kinds, Space, TreeAssumption, Node
<1>3. OpInv' /\ CloneInv'
  BY DEF GoWild, OpInv, CloneInv, Idle
<1> QED BY <1>1, <1>2, <1>3 DEF IInv

(* No operation is running. *)
LEMMA IdleType == Idle \in [kind : Kinds, src : Space, dst : Space, tab : Node, goal : Node]
BY TreeAssumption DEF TreeAssumption, Idle, Kinds, Space, Node

(* The record of an operation that starts. *)
LEMMA OperationType ==
  ASSUME NEW kind \in Kinds, NEW s \in Space, NEW d \in Space, NEW g \in Node
  PROVE  Operation(kind, s, d, g) \in [kind : Kinds, src : Space, dst : Space, tab : Node, goal : Node]
BY TreeAssumption DEF TreeAssumption, Operation, Kinds, Node

(* mmu040_init_userspace and mmu040_switch_userspace. *)
LEMMA InitSwitchKeeps ==
  ASSUME IInv, NEW s \in User, InitUserspace(s) \/ SwitchUserspace(s)
  PROVE  IInv'
<1> USE DEF IInv
<1>1. s \in Space /\ 0 \in Node
  BY TreeShape, TreeAssumption DEF Space, TreeAssumption, Node
<1>2. CASE SwitchUserspace(s)
  <2>1. ListInv' /\ TreeClosed'
    BY <1>2, NoMove DEF SwitchUserspace
  <2>2. slot[s][0] \in Frame \cup {NULL}
    BY <1>1, <1>2 DEF SwitchUserspace, TypeOK, Resident
  <2>3. TypeOK'
    BY <1>2, <2>2 DEF SwitchUserspace, TypeOK
  <2>4. OpInv' /\ CloneInv'
    BY <1>2 DEF SwitchUserspace, Ready, OpInv, CloneInv
  <2> QED BY <2>1, <2>3, <2>4
<1>3. CASE InitUserspace(s) /\ TakeFrame
  <2>1. SetSlot(s, 0, AllocFrame) /\ urp' = AllocFrame
    BY <1>3 DEF InitUserspace, TakeFrame
  <2>2. ListInv'
    BY <1>1, <1>3, <2>1, TakeMove DEF InitUserspace
  <2>3. AllocFrame \in Frame /\ free_frame # <<>> /\ free_frame \in Seq(Frame) /\ free_frames \in Nat /\ free_frames > 0
    BY <1>3, ListNotEmpty DEF TakeFrame, ListInv
  <2>4. TreeClosed' /\ slot' \in [Space -> [Node -> Frame \cup {NULL, INVALID}]]
    BY <1>1, <2>1, <2>3, TreeGrows
  <2>5. free_frame' \in Seq(Frame) /\ free_frames' \in Nat
    BY <1>3, <2>3, TakeShape DEF TakeFrame
  <2>6. TypeOK'
    BY <1>3, <2>1, <2>3, <2>4, <2>5 DEF InitUserspace, TypeOK
  <2>7. OpInv' /\ CloneInv'
    BY <1>3 DEF InitUserspace, Ready, OpInv, CloneInv
  <2> QED BY <2>2, <2>4, <2>6, <2>7
<1>4. CASE InitUserspace(s) /\ AllocFails
  <2>1. SetSlot(s, 0, NULL) /\ UNCHANGED <<free_frame, free_frames, urp>>
    BY <1>4 DEF InitUserspace, TakeFrame
  <2>2. TreeClosed' /\ slot' \in [Space -> [Node -> Frame \cup {NULL, INVALID}]]
    BY <1>1, <2>1, TreeGrows
  <2>3. ListInv'
    BY <1>1, <1>4, <2>1, NullMove DEF InitUserspace
  <2>7. TypeOK'
    BY <1>4, <2>1, <2>2 DEF InitUserspace, TypeOK
  <2>8. OpInv' /\ CloneInv'
    BY <1>4 DEF InitUserspace, Ready, OpInv, CloneInv
  <2> QED BY <2>2, <2>3, <2>7, <2>8
<1> QED BY <1>2, <1>3, <1>4 DEF InitUserspace

(* An operation is entered. *)
LEMMA CallKeeps ==
  ASSUME IInv, wild' = "no", Ready, UNCHANGED <<free_frame, free_frames, slot, urp>>,
         NEW s \in Space, NEW d \in Space, NEW g \in Node,
         Resident(s, 0), Resident(d, 0),
         \/ \E kind \in {"clear", "free"} :
              op' = Operation(kind, s, d, g) /\ mapping' = mapping + 1 /\ s \in User
         \/ /\ op' = Operation("clone", s, d, g) /\ mapping' = mapping + 2
            /\ s # d /\ \A n \in Node \ {0} : ~Resident(d, n)
         \/ /\ op' = Operation("alloc", s, d, g) /\ mapping' = mapping + 1
            /\ IsPage(g)
  PROVE  IInv'
<1> USE DEF IInv
<1>1. /\ ListInv' /\ TreeClosed'
      /\ \A t \in Space, n \in Node : Resident(t, n)' <=> Resident(t, n)
  BY NoMove
<1>2. mapping = 0 /\ 0 \in Node /\ Level[0] = 0 /\ ~IsPage(0)
  BY TreeAssumption DEF TreeAssumption, OpInv, Ready, IsPage, Node
<1>3. TypeOK'
  <2>1. op' \in [kind : Kinds, src : Space, dst : Space, tab : Node, goal : Node]
    BY OperationType DEF Kinds
  <2>2. mapping' \in Nat
    BY <1>2
  <2> QED BY <2>1, <2>2 DEF TypeOK
<1>4. op'.tab = 0 /\ op'.src = s /\ op'.dst = d /\ op'.goal = g /\ op'.kind # "idle"
  BY DEF Operation
<1>5. IsPage(g) => 0 \in Above(Parent[g])
  <2>1. SUFFICES ASSUME IsPage(g) PROVE Parent[Parent[Parent[g]]] = 0
    BY DEF Above
  <2>2. Parent[g] \in Node /\ Level[Parent[g]] = 2
    BY <2>1, TreeShape DEF IsPage
  <2>3. Parent[Parent[g]] \in Node /\ Level[Parent[Parent[g]]] = 1
    BY <2>2, TreeShape
  <2> QED BY <2>3, TreeShape
<1>6. OpInv'
  BY <1>1, <1>2, <1>4, <1>5 DEF OpInv, Operation, IsPage, Resident
<1>7. CloneInv'
  <2> SUFFICES ASSUME op'.kind = "clone", NEW n \in Node
               PROVE  /\ Resident(d, n) => Resident(s, n)
                      /\ n # 0 /\ Resident(s, n) /\ ~Resident(d, n) /\ Resident(d, Parent[n])
                           => Parent[n] \in Above(0)
    BY <1>1, <1>4, TreeShape DEF CloneInv
  <2>1. \A m \in Node \ {0} : ~Resident(d, m)
    BY DEF Operation
  <2>2. Resident(d, Parent[n]) => Parent[n] = 0
    BY <2>1, TreeShape
  <2> QED BY <2>1, <2>2 DEF Above
<1> QED BY <1>1, <1>3, <1>6, <1>7

(* A frame is taken for a descriptor below op.tab, in the operation's       *)
(* destination or in the tree alloc_at works on.                            *)
LEMMA TakeBelow ==
  ASSUME IInv, TakeFrame, NEW s \in Space, NEW n \in Children(op.tab), op.tab \in Node,
         Resident(s, op.tab), ~Resident(s, n), SetSlot(s, n, AllocFrame)
  PROVE  /\ ListInv' /\ TreeClosed'
         /\ free_frame' \in Seq(Frame) /\ free_frames' \in Nat
         /\ slot' \in [Space -> [Node -> Frame \cup {NULL, INVALID}]]
         /\ \A t \in Space, m \in Node :
              Resident(t, m)' <=> (Resident(t, m) \/ (t = s /\ m = n))
         /\ Listed \cup Held \subseteq (Listed \cup Held)'
<1> USE DEF IInv
<1>1. n \in Node /\ Parent[n] = op.tab
  BY DEF Children
<1>2. ListInv' /\ Listed \cup Held \subseteq (Listed \cup Held)'
  BY <1>1, TakeMove
<1>3. AllocFrame \in Frame /\ free_frame # <<>> /\ free_frame \in Seq(Frame) /\ free_frames \in Nat /\ free_frames > 0
  BY ListNotEmpty DEF TakeFrame, ListInv
<1>4. free_frame' \in Seq(Frame) /\ free_frames' \in Nat
  BY <1>3, TakeShape DEF TakeFrame
<1>5. /\ slot' \in [Space -> [Node -> Frame \cup {NULL, INVALID}]]
      /\ TreeClosed'
      /\ \A t \in Space, m \in Node :
           Resident(t, m)' <=> (Resident(t, m) \/ (t = s /\ m = n))
  BY <1>1, <1>3, TreeGrows
<1> QED BY <1>2, <1>4, <1>5

(* The record of an operation after it entered or left a loop. *)
LEMMA LoopType ==
  ASSUME TypeOK, NEW n \in Node
  PROVE  /\ op.tab \in Node /\ op.src \in Space /\ op.dst \in Space /\ op.goal \in Node
         /\ [op EXCEPT !.tab = n] \in [kind : Kinds, src : Space, dst : Space, tab : Node, goal : Node]
         /\ [op EXCEPT !.tab = n].tab = n /\ [op EXCEPT !.tab = n].kind = op.kind
         /\ [op EXCEPT !.tab = n].src = op.src /\ [op EXCEPT !.tab = n].dst = op.dst
         /\ [op EXCEPT !.tab = n].goal = op.goal
BY DEF TypeOK

(* The steps of clear and free. *)
LEMMA ClearKeeps ==
  ASSUME IInv,
         \/ \E n \in Node : ClearEnter(n)
         \/ \E n \in Node : ClearPage(n)
         \/ ClearLeave
         \/ ClearReturn
         \/ FreeReturn
  PROVE  IInv'
<1> USE DEF IInv
<1>1. /\ op.kind \in {"clear", "free"} /\ wild = "no" /\ ~IsPage(op.tab)
      /\ op.src \in Space /\ op.dst \in Space /\ op.tab \in Node /\ op.goal \in Node
      /\ op.src \in User /\ Resident(op.src, op.tab) /\ mapping = Level[op.tab] + 1
      /\ Level[op.tab] \in 0 .. 2
  <2>1. op.kind \in {"clear", "free"} /\ wild = "no"
    BY DEF ClearEnter, ClearPage, ClearLeave, ClearReturn, FreeReturn, Sweeping, Running
  <2>2. op.src \in Space /\ op.dst \in Space /\ op.tab \in Node /\ op.goal \in Node
    BY DEF TypeOK
  <2>3. op.src \in User /\ Resident(op.src, op.tab) /\ mapping = Level[op.tab] + 1 /\ ~IsPage(op.tab)
    BY <2>1 DEF OpInv
  <2>4. Level[op.tab] \in 0 .. 2
    BY <2>2, <2>3, TreeShape DEF IsPage
  <2> QED BY <2>1, <2>2, <2>3, <2>4
<1>2. ASSUME NEW n \in Node, ClearEnter(n) PROVE IInv'
  <2>1. /\ ListInv' /\ TreeClosed'
        /\ \A t \in Space, m \in Node : Resident(t, m)' <=> Resident(t, m)
    BY <1>2, NoMove DEF ClearEnter
  <2>2. Level[n] = Level[op.tab] + 1 /\ Resident(op.src, n) /\ ~IsPage(n)
    BY <1>1, <1>2, AboveShape DEF ClearEnter, NextToClear
  <2>3. /\ op' \in [kind : Kinds, src : Space, dst : Space, tab : Node, goal : Node]
        /\ op'.tab = n /\ op'.kind = op.kind /\ op'.src = op.src
    BY <1>2, LoopType DEF ClearEnter, EnterLoop
  <2>4. TypeOK'
    BY <1>1, <1>2, <2>3 DEF ClearEnter, TypeOK
  <2>5. OpInv'
    BY <1>1, <1>2, <2>1, <2>2, <2>3 DEF ClearEnter, OpInv, IsPage, Resident
  <2>6. CloneInv'
    BY <1>1, <2>3 DEF CloneInv
  <2> QED BY <2>1, <2>4, <2>5, <2>6
<1>3. ASSUME NEW n \in Node, ClearPage(n) PROVE IInv'
  <2>1. /\ n \in Children(op.tab) /\ Resident(op.src, n) /\ Level[n] = 3 /\ n # op.tab
        /\ FreeFrame(slot[op.src][n]) /\ SetSlot(op.src, n, INVALID)
    BY <1>1, <1>3 DEF ClearPage, NextToClear, IsPage
  <2>2. \A m \in Children(n) : FALSE
    BY <2>1, TreeShape DEF Children
  <2>3. ListInv' /\ free_frame' \in Seq(Frame)
    BY <1>1, <2>1, GiveMove DEF INVALID, NULL
  <2>4. /\ slot' \in [Space -> [Node -> Frame \cup {NULL, INVALID}]]
        /\ TreeClosed'
        /\ \A t \in Space, m \in Node : Resident(t, m)' <=> (Resident(t, m) /\ ~(t = op.src /\ m = n))
    BY <1>1, <2>1, <2>2, TreeShrinks
  <2>5. TypeOK'
    BY <1>3, <2>3, <2>4 DEF ClearPage, FreeFrame, TypeOK
  <2>6. OpInv' /\ CloneInv'
    BY <1>1, <1>3, <2>1, <2>4 DEF ClearPage, OpInv, CloneInv
  <2> QED BY <2>3, <2>4, <2>5, <2>6
<1>4. CASE ClearLeave
  <2>1. /\ op.tab # 0 /\ FreeFrame(slot[op.src][op.tab]) /\ SetSlot(op.src, op.tab, INVALID)
        /\ \A m \in Children(op.tab) : ~Resident(op.src, m)
        /\ mapping' = mapping - 1
    BY <1>4 DEF ClearLeave, NothingToClear
  <2>2. ListInv' /\ free_frame' \in Seq(Frame)
    BY <1>1, <2>1, GiveMove DEF INVALID, NULL
  <2>3. /\ slot' \in [Space -> [Node -> Frame \cup {NULL, INVALID}]]
        /\ TreeClosed'
        /\ \A t \in Space, m \in Node : Resident(t, m)' <=> (Resident(t, m) /\ ~(t = op.src /\ m = op.tab))
    BY <1>1, <2>1, TreeShrinks
  <2>4. /\ Parent[op.tab] \in Node /\ Level[op.tab] = Level[Parent[op.tab]] + 1
        /\ Level[Parent[op.tab]] \in 0 .. 1
    BY <1>1, <2>1, TreeShape
  <2>5. /\ op' \in [kind : Kinds, src : Space, dst : Space, tab : Node, goal : Node]
        /\ op'.tab = Parent[op.tab] /\ op'.kind = op.kind /\ op'.src = op.src
    BY <1>4, <2>4, LoopType DEF ClearLeave, LeaveLoop
  <2>6. TypeOK'
    BY <1>1, <1>4, <2>1, <2>2, <2>3, <2>5 DEF ClearLeave, FreeFrame, TypeOK
  <2>7. slot'[op.src][Parent[op.tab]] # INVALID
    <3>1. Resident(op.src, Parent[op.tab]) /\ Parent[op.tab] # op.tab
      BY <1>1, <2>4 DEF TreeClosed
    <3> QED BY <1>1, <2>1, <2>4, <3>1 DEF SetSlot, TypeOK, Resident
  <2>8. OpInv'
    BY <1>1, <1>4, <2>1, <2>4, <2>5, <2>7 DEF ClearLeave, OpInv, IsPage, Resident
  <2>9. CloneInv'
    BY <1>1, <2>5 DEF CloneInv
  <2> QED BY <2>2, <2>3, <2>6, <2>8, <2>9
<1>5. CASE ClearReturn
  <2>1. ListInv' /\ TreeClosed'
    BY <1>5, NoMove DEF ClearReturn
  <2>2. op' = Idle /\ mapping' = 0 /\ wild' = "no"
    BY <1>1, <1>5, TreeShape DEF ClearReturn, Return
  <2>3. TypeOK'
    BY <1>1, <1>5, <2>2, IdleType DEF ClearReturn, TypeOK
  <2>4. OpInv' /\ CloneInv'
    BY <2>2 DEF OpInv, CloneInv, Idle
  <2> QED BY <2>1, <2>3, <2>4
<1>6. CASE FreeReturn
  <2>1. /\ op.tab = 0 /\ FreeFrame(slot[op.src][0]) /\ SetSlot(op.src, 0, INVALID)
        /\ \A m \in Children(0) : ~Resident(op.src, m)
        /\ op' = Idle /\ mapping' = 0 /\ wild' = "no"
    BY <1>1, <1>6, TreeShape DEF FreeReturn, NothingToClear, Return
  <2>2. ListInv' /\ free_frame' \in Seq(Frame)
    BY <1>1, <2>1, GiveMove DEF INVALID, NULL
  <2>3. TreeClosed' /\ slot' \in [Space -> [Node -> Frame \cup {NULL, INVALID}]]
    BY <1>1, <2>1, TreeShrinks
  <2>4. TypeOK'
    BY <1>1, <1>6, <2>1, <2>2, <2>3, IdleType DEF FreeReturn, FreeFrame, TypeOK
  <2>5. OpInv' /\ CloneInv'
    BY <2>1 DEF OpInv, CloneInv, Idle
  <2> QED BY <2>2, <2>3, <2>4, <2>5
<1> QED BY <1>2, <1>3, <1>4, <1>5, <1>6

(* The steps of clone. *)
LEMMA CloneKeeps ==
  ASSUME IInv,
         \/ \E n \in Node : CloneTable(n)
         \/ \E n \in Node : ClonePage(n)
         \/ \E n \in Node : CloneFail(n)
         \/ CloneLeave
         \/ CloneReturn
  PROVE  IInv'
<1> USE DEF IInv
<1>1. /\ op.kind = "clone" /\ wild = "no" /\ ~IsPage(op.tab)
      /\ op.src \in Space /\ op.dst \in Space /\ op.tab \in Node /\ op.src # op.dst
      /\ Resident(op.src, op.tab) /\ Resident(op.dst, op.tab)
      /\ mapping = 2 * Level[op.tab] + 2 /\ Level[op.tab] \in 0 .. 2
  <2>1. op.kind = "clone" /\ wild = "no"
    BY DEF CloneTable, ClonePage, CloneFail, CloneLeave, CloneReturn, Running
  <2>2. op.src \in Space /\ op.dst \in Space /\ op.tab \in Node
    BY DEF TypeOK
  <2>3. /\ op.src # op.dst /\ Resident(op.src, op.tab) /\ Resident(op.dst, op.tab)
        /\ mapping = 2 * Level[op.tab] + 2 /\ ~IsPage(op.tab)
    BY <2>1 DEF OpInv
  <2>4. Level[op.tab] \in 0 .. 2
    BY <2>2, <2>3, TreeShape DEF IsPage
  <2> QED BY <2>1, <2>2, <2>3, <2>4
<1>2. \A n \in Node :
        /\ Resident(op.dst, n) => Resident(op.src, n)
        /\ n # 0 /\ Resident(op.src, n) /\ ~Resident(op.dst, n) /\ Resident(op.dst, Parent[n])
             => Parent[n] \in Above(op.tab)
  BY <1>1 DEF CloneInv
<1>3. ASSUME NEW n \in Node, NextToClone(n)
      PROVE  /\ n \in Children(op.tab) /\ n # 0 /\ Parent[n] = op.tab /\ n # op.tab
             /\ Level[n] = Level[op.tab] + 1
             /\ Resident(op.src, n) /\ ~Resident(op.dst, n)
  BY <1>1, <1>3, AboveShape DEF NextToClone, ToClone
<1>4. ASSUME NEW n \in Node, CloneTable(n) PROVE IInv'
  <2>1. NextToClone(n) /\ TakeFrame /\ SetSlot(op.dst, n, AllocFrame) /\ ~IsPage(n)
    BY <1>4 DEF CloneTable
  <2>2. /\ ListInv' /\ TreeClosed'
        /\ free_frame' \in Seq(Frame) /\ free_frames' \in Nat
        /\ slot' \in [Space -> [Node -> Frame \cup {NULL, INVALID}]]
        /\ \A t \in Space, m \in Node : Resident(t, m)' <=> (Resident(t, m) \/ (t = op.dst /\ m = n))
    BY <1>1, <1>3, <2>1, TakeBelow
  <2>3. /\ op' \in [kind : Kinds, src : Space, dst : Space, tab : Node, goal : Node]
        /\ op'.tab = n /\ op'.kind = op.kind /\ op'.src = op.src /\ op'.dst = op.dst
    BY <1>4, LoopType DEF CloneTable, EnterLoop
  <2>4. TypeOK'
    BY <1>1, <1>4, <2>2, <2>3 DEF CloneTable, TypeOK
  <2>5. OpInv'
    BY <1>1, <1>3, <1>4, <2>1, <2>2, <2>3 DEF CloneTable, OpInv, IsPage, Resident
  <2>6. Above(op.tab) \subseteq Above(n)
    <3>1. Level[op.tab] <= 1
      BY <1>1, <1>3, <2>1, TreeShape DEF IsPage
    <3>2. Parent[Parent[op.tab]] = Parent[op.tab]
      <4>1. CASE op.tab = 0
        BY <4>1, TreeShape
      <4>2. CASE op.tab # 0
        <5>1. Parent[op.tab] \in Node /\ Level[Parent[op.tab]] = 0
          BY <1>1, <3>1, <4>2, TreeShape
        <5> QED BY <5>1, TreeShape
      <4> QED BY <4>1, <4>2
    <3> QED BY <1>3, <2>1, <3>2 DEF Above
  <2>7. CloneInv'
    <3> SUFFICES ASSUME NEW m \in Node
                 PROVE  /\ slot'[op.dst][m] # INVALID => slot'[op.src][m] # INVALID
                        /\ m # 0 /\ slot'[op.src][m] # INVALID /\ slot'[op.dst][m] = INVALID
                             /\ slot'[op.dst][Parent[m]] # INVALID => Parent[m] \in Above(n)
      BY <2>3 DEF CloneInv, Resident
    <3>1. Parent[m] \in Node
      BY TreeShape
    <3>2. \A t \in Space, k \in Node :
            slot'[t][k] # INVALID <=> (slot[t][k] # INVALID \/ (t = op.dst /\ k = n))
      BY <2>2 DEF Resident
    <3>3. CASE Parent[m] = n
      BY <3>2, <3>3, <1>1, <1>2, <1>3, <2>1 DEF Above, Resident
    <3>4. CASE Parent[m] # n
      BY <3>1, <3>2, <3>4, <1>1, <1>2, <1>3, <2>1, <2>6 DEF Resident
    <3> QED BY <3>3, <3>4
  <2> QED BY <2>2, <2>4, <2>5, <2>7
<1>5. ASSUME NEW n \in Node, ClonePage(n) PROVE IInv'
  <2>1. NextToClone(n) /\ TakeFrame /\ SetSlot(op.dst, n, AllocFrame) /\ IsPage(n) /\ op' = op
    BY <1>5 DEF ClonePage
  <2>2. /\ ListInv' /\ TreeClosed'
        /\ free_frame' \in Seq(Frame) /\ free_frames' \in Nat
        /\ slot' \in [Space -> [Node -> Frame \cup {NULL, INVALID}]]
        /\ \A t \in Space, m \in Node : Resident(t, m)' <=> (Resident(t, m) \/ (t = op.dst /\ m = n))
    BY <1>1, <1>3, <2>1, TakeBelow
  <2>3. TypeOK'
    BY <1>5, <2>2 DEF ClonePage, TypeOK
  <2>4. OpInv'
    BY <1>1, <1>5, <2>1, <2>2 DEF ClonePage, OpInv
  <2>5. CloneInv'
    <3> SUFFICES ASSUME NEW m \in Node
                 PROVE  /\ slot'[op.dst][m] # INVALID => slot'[op.src][m] # INVALID
                        /\ m # 0 /\ slot'[op.src][m] # INVALID /\ slot'[op.dst][m] = INVALID
                             /\ slot'[op.dst][Parent[m]] # INVALID => Parent[m] \in Above(op.tab)
      BY <2>1 DEF CloneInv, Resident
    <3>1. Parent[m] \in Node /\ (m # 0 => Level[Parent[m]] < 3)
      BY TreeShape
    <3>2. \A t \in Space, k \in Node :
            slot'[t][k] # INVALID <=> (slot[t][k] # INVALID \/ (t = op.dst /\ k = n))
      BY <2>2 DEF Resident
    <3>3. m # 0 => Parent[m] # n
      BY <3>1, <2>1 DEF IsPage
    <3> QED BY <3>1, <3>2, <3>3, <1>1, <1>2, <1>3, <2>1 DEF Resident
  <2> QED BY <2>2, <2>3, <2>4, <2>5
<1>6. ASSUME NEW n \in Node, CloneFail(n) PROVE IInv'
  <2>1. ListInv' /\ TreeClosed'
    BY <1>6, NoMove DEF CloneFail
  <2>2. op' = Idle /\ mapping' = 0 /\ wild' = "no"
    BY <1>1, <1>3, <1>6 DEF CloneFail, PoppedOnError, Return
  <2>3. TypeOK'
    BY <1>6, <2>2, IdleType DEF CloneFail, TypeOK
  <2>4. OpInv' /\ CloneInv'
    BY <2>2 DEF OpInv, CloneInv, Idle
  <2> QED BY <2>1, <2>3, <2>4
<1>7. CASE CloneLeave
  <2>1. /\ ListInv' /\ TreeClosed' /\ slot' = slot /\ op.tab # 0
    BY <1>7, NoMove DEF CloneLeave
  <2>2. /\ Parent[op.tab] \in Node /\ Level[op.tab] = Level[Parent[op.tab]] + 1
        /\ Level[Parent[op.tab]] \in 0 .. 1
        /\ Resident(op.src, Parent[op.tab]) /\ Resident(op.dst, Parent[op.tab])
    BY <1>1, <2>1, TreeShape DEF TreeClosed
  <2>3. /\ op' \in [kind : Kinds, src : Space, dst : Space, tab : Node, goal : Node]
        /\ op'.tab = Parent[op.tab] /\ op'.kind = op.kind /\ op'.src = op.src /\ op'.dst = op.dst
    BY <1>7, <2>2, LoopType DEF CloneLeave, LeaveLoop
  <2>4. TypeOK'
    BY <1>1, <1>7, <2>3 DEF CloneLeave, TypeOK
  <2>5. OpInv'
    BY <1>1, <1>7, <2>1, <2>2, <2>3 DEF CloneLeave, OpInv, IsPage, Resident
  <2>6. CloneInv'
    <3> SUFFICES ASSUME NEW m \in Node, m # 0, Resident(op.src, m), ~Resident(op.dst, m),
                        Resident(op.dst, Parent[m])
                 PROVE  Parent[m] \in Above(Parent[op.tab])
      BY <1>2, <2>1, <2>3 DEF CloneInv, Resident
    <3>1. Parent[m] \in Above(op.tab)
      BY <1>2
    <3>2. Parent[m] # op.tab
      BY <1>7 DEF CloneLeave, NothingToClone, ToClone, Children
    <3> QED BY <3>1, <3>2 DEF Above
  <2> QED BY <2>1, <2>4, <2>5, <2>6
<1>8. CASE CloneReturn
  <2>1. ListInv' /\ TreeClosed'
    BY <1>8, NoMove DEF CloneReturn
  <2>2. op' = Idle /\ mapping' = 0 /\ wild' = "no"
    BY <1>1, <1>8, TreeShape DEF CloneReturn, Return
  <2>3. TypeOK'
    BY <1>8, <2>2, IdleType DEF CloneReturn, TypeOK
  <2>4. OpInv' /\ CloneInv'
    BY <2>2 DEF OpInv, CloneInv, Idle
  <2> QED BY <2>1, <2>3, <2>4
<1> QED BY <1>4, <1>5, <1>6, <1>7, <1>8

(* The last step of alloc_at, in each of its four cases. *)
LEMMA AllocPageMove ==
  ASSUME IInv, AllocPage
  PROVE  /\ ListInv' /\ free_frame' \in Seq(Frame) /\ free_frames' \in Nat
         /\ \E f \in Frame \cup {NULL} : SetSlot(op.src, op.goal, f)
         /\ slot[op.src][op.goal] # NULL => Listed \cup Held \subseteq (Listed \cup Held)'
<1> USE DEF IInv
<1>1. op.src \in Space /\ op.goal \in Node /\ free_frame \in Seq(Frame) /\ free_frames \in Nat
  BY DEF TypeOK
<1>2. CASE AllocFails /\ ~Resident(op.src, op.goal)
  <2>1. SetSlot(op.src, op.goal, NULL) /\ UNCHANGED <<free_frame, free_frames>>
    BY <1>2 DEF AllocPage, ListForPage
  <2> QED BY <1>1, <1>2, <2>1, NullMove
<1>3. CASE AllocFails /\ Resident(op.src, op.goal)
  <2>1. SetSlot(op.src, op.goal, NULL) /\ FreeFrame(slot[op.src][op.goal]) /\ free_frames = 0
    BY <1>3 DEF AllocPage, ListForPage, FreeFrame, AllocFails
  <2> QED BY <1>1, <1>3, <2>1, GiveMove DEF FreeFrame
<1>4. CASE ~AllocFails /\ ~Resident(op.src, op.goal)
  <2>1. SetSlot(op.src, op.goal, AllocFrame) /\ TakeFrame
    BY <1>4 DEF AllocPage, ListForPage, TakeFrame, AllocFrame
  <2>2. AllocFrame \in Frame /\ free_frame # <<>> /\ free_frames > 0
    BY <1>4, ListNotEmpty DEF ListInv
  <2>3. free_frame' \in Seq(Frame) /\ free_frames' \in Nat
    BY <1>1, <2>1, <2>2, TakeShape DEF TakeFrame
  <2> QED BY <1>1, <1>4, <2>1, <2>2, <2>3, TakeMove
<1>5. CASE ~AllocFails /\ Resident(op.src, op.goal)
  <2> DEFINE f == slot[op.src][op.goal]
  <2>1. f \in Frame
    BY <1>1, <1>5 DEF TypeOK, Resident, ListInv, NullMeansExhausted, AllocFails
  <2>2. /\ SetSlot(op.src, op.goal, Head(<<f>> \o free_frame))
        /\ free_frame' = Tail(<<f>> \o free_frame) /\ free_frames' = free_frames - 1
    BY <1>5, <2>1 DEF AllocPage, ListForPage, Pushed, NULL, Frame
  <2>3. SetSlot(op.src, op.goal, f) /\ free_frame' = free_frame
    BY <1>1, <2>1, <2>2, PushShape
  <2>4. slot' = slot
    BY <1>1, <2>3 DEF SetSlot, TypeOK
  <2>5. free_frames' \in Nat /\ free_frames' <= free_frames /\ free_frames # 0
    BY <1>1, <1>5, <2>2 DEF AllocFails
  <2>6. CounterCovered' /\ NullMeansExhausted'
    BY <1>1, <2>3, <2>4, <2>5 DEF ListInv, CounterCovered, NullMeansExhausted
  <2>7. NoDoubleUse' /\ Listed \cup Held \subseteq (Listed \cup Held)'
    BY <2>3, <2>4 DEF ListInv, NoDoubleUse, ListDistinct, ListUnheld, HeldOnce, Listed, Held
  <2> QED BY <1>1, <2>1, <2>3, <2>5, <2>6, <2>7 DEF ListInv
<1> QED BY <1>2, <1>3, <1>4, <1>5

(* The steps of alloc_at. *)
LEMMA AllocKeeps ==
  ASSUME IInv,
         \/ \E n \in Node : AllocWalk(n)
         \/ \E n \in Node : AllocTable(n)
         \/ \E n \in Node : AllocTableNull(n)
         \/ AllocPage
  PROVE  IInv'
<1> USE DEF IInv
<1>1. /\ op.kind = "alloc" /\ wild = "no" /\ ~IsPage(op.tab)
      /\ op.src \in Space /\ op.tab \in Node /\ op.goal \in Node
      /\ Resident(op.src, op.tab) /\ IsPage(op.goal) /\ op.tab \in Above(Parent[op.goal])
      /\ mapping = Level[op.tab] + 1 /\ Level[op.tab] \in 0 .. 2
      /\ Parent[op.goal] \in Node /\ Level[Parent[op.goal]] = 2 /\ op.goal # 0
  <2>1. op.kind = "alloc" /\ wild = "no"
    BY DEF AllocWalk, AllocTable, AllocTableNull, AllocPage, Running
  <2>2. op.src \in Space /\ op.tab \in Node /\ op.goal \in Node
    BY DEF TypeOK
  <2>3. /\ Resident(op.src, op.tab) /\ IsPage(op.goal) /\ op.tab \in Above(Parent[op.goal])
        /\ mapping = Level[op.tab] + 1 /\ ~IsPage(op.tab)
    BY <2>1 DEF OpInv
  <2>4. Level[op.tab] \in 0 .. 2 /\ Parent[op.goal] \in Node /\ Level[Parent[op.goal]] = 2 /\ op.goal # 0
    BY <2>2, <2>3, TreeShape DEF IsPage
  <2> QED BY <2>1, <2>2, <2>3, <2>4
<1>2. ASSUME NEW n \in Node, OnTheWay(n)
      PROVE  n \in Children(op.tab) /\ n \in Above(Parent[op.goal]) /\ Level[n] = Level[op.tab] + 1 /\ Level[n] <= 2
  <2>1. n \in Children(op.tab) /\ n \in Above(Parent[op.goal])
    BY <1>2 DEF OnTheWay
  <2>2. Level[n] = Level[op.tab] + 1
    BY <2>1, <1>1, AboveShape
  <2>3. n = Parent[op.goal] \/ Level[n] < Level[Parent[op.goal]]
    BY <2>1, <1>1, AboveShape
  <2> QED BY <2>1, <2>2, <2>3, <1>1
<1>3. ASSUME NEW n \in Node, OnTheWay(n), EnterLoop(n), mapping' = mapping + 1, wild' = wild,
             slot'[op.src][n] # INVALID
      PROVE  /\ op' \in [kind : Kinds, src : Space, dst : Space, tab : Node, goal : Node]
             /\ mapping' \in Nat /\ OpInv' /\ CloneInv'
  <2>1. /\ op' \in [kind : Kinds, src : Space, dst : Space, tab : Node, goal : Node]
        /\ op'.tab = n /\ op'.kind = "alloc" /\ op'.src = op.src /\ op'.goal = op.goal
    BY <1>1, <1>3, LoopType DEF EnterLoop
  <2>2. Level[n] = Level[op.tab] + 1 /\ Level[n] <= 2 /\ n \in Above(Parent[op.goal])
    BY <1>2, <1>3
  <2>3. OpInv'
    BY <1>1, <1>3, <2>1, <2>2 DEF OpInv, IsPage, Resident
  <2>4. CloneInv'
    BY <2>1 DEF CloneInv
  <2> QED BY <1>1, <1>3, <2>1, <2>3, <2>4
<1>4. ASSUME NEW n \in Node, AllocWalk(n) PROVE IInv'
  <2>1. ListInv' /\ TreeClosed'
    BY <1>4, NoMove DEF AllocWalk
  <2>2. /\ op' \in [kind : Kinds, src : Space, dst : Space, tab : Node, goal : Node]
        /\ mapping' \in Nat /\ OpInv' /\ CloneInv'
    BY <1>3, <1>4 DEF AllocWalk, Resident
  <2>3. TypeOK'
    BY <1>4, <2>2 DEF AllocWalk, TypeOK
  <2> QED BY <2>1, <2>2, <2>3
<1>5. ASSUME NEW n \in Node, AllocTable(n) PROVE IInv'
  <2>1. TakeFrame /\ SetSlot(op.src, n, AllocFrame) /\ ~Resident(op.src, n) /\ n \in Children(op.tab)
    BY <1>2, <1>5 DEF AllocTable
  <2>2. /\ ListInv' /\ TreeClosed'
        /\ free_frame' \in Seq(Frame) /\ free_frames' \in Nat
        /\ slot' \in [Space -> [Node -> Frame \cup {NULL, INVALID}]]
        /\ \A t \in Space, m \in Node : Resident(t, m)' <=> (Resident(t, m) \/ (t = op.src /\ m = n))
    BY <1>1, <2>1, TakeBelow
  <2>3. slot'[op.src][n] # INVALID
    BY <1>1, <2>2 DEF Resident
  <2>4. /\ op' \in [kind : Kinds, src : Space, dst : Space, tab : Node, goal : Node]
        /\ mapping' \in Nat /\ OpInv' /\ CloneInv'
    BY <1>3, <1>5, <2>3 DEF AllocTable
  <2>5. TypeOK'
    BY <1>5, <2>2, <2>4 DEF AllocTable, TypeOK
  <2> QED BY <2>2, <2>4, <2>5
<1>6. ASSUME NEW n \in Node, AllocTableNull(n) PROVE IInv'
  BY <1>6, WildKeeps DEF AllocTableNull
<1>7. CASE AllocPage
  <2>1. op' = Idle /\ mapping' = 0 /\ wild' = "no"
    BY <1>1, <1>7 DEF AllocPage, Return
  <2>2. ListInv' /\ free_frame' \in Seq(Frame) /\ free_frames' \in Nat
    BY <1>7, AllocPageMove
  <2>3. PICK f \in Frame \cup {NULL} : SetSlot(op.src, op.goal, f)
    BY <1>7, AllocPageMove
  <2>4. TreeClosed' /\ slot' \in [Space -> [Node -> Frame \cup {NULL, INVALID}]]
    <3>1. Resident(op.src, Parent[op.goal])
      BY <1>1, <1>7 DEF AllocPage
    <3> QED BY <1>1, <2>3, <3>1, TreeGrows
  <2>5. TypeOK'
    BY <1>7, <2>1, <2>2, <2>4, IdleType DEF AllocPage, TypeOK
  <2>6. OpInv' /\ CloneInv'
    BY <2>1 DEF OpInv, CloneInv, Idle
  <2> QED BY <2>2, <2>4, <2>5, <2>6
<1> QED BY <1>4, <1>5, <1>6, <1>7

-----------------------------------------------------------------------------
(* The supervisor's root table is always there. *)
KernelMapped == Resident(Kernel, 0)

(* No step of the frame manager takes the supervisor's root table away. *)
LEMMA KernelKeeps ==
  ASSUME IInv, KernelMapped, [Next]_vars
  PROVE  KernelMapped'
<1> USE DEF IInv
<1>1. Kernel \in Space /\ Kernel \notin User /\ 0 \in Node
  BY SpaceAssumption, TreeAssumption DEF SpaceAssumption, TreeAssumption, Space, Node
<1>2. CASE slot' = slot
  BY <1>2 DEF KernelMapped, Resident
<1>3. ASSUME NEW s \in Space, NEW n \in Node, NEW f \in Frame \cup {NULL, INVALID}, SetSlot(s, n, f),
             f \in Frame \cup {NULL} \/ n # 0 \/ s # Kernel
      PROVE  KernelMapped'
  <2>1. slot'[Kernel][0] = IF s = Kernel /\ n = 0 THEN f ELSE slot[Kernel][0]
    BY <1>1, <1>3 DEF SetSlot, TypeOK
  <2> QED BY <1>3, <2>1 DEF KernelMapped, Resident, Frame, NULL, INVALID
<1>4. op.src \in Space /\ op.dst \in Space /\ op.tab \in Node /\ op.goal \in Node
  BY DEF TypeOK
<1>5. ASSUME TakeFrame PROVE AllocFrame \in Frame
  BY <1>5, ListNotEmpty DEF TakeFrame, ListInv
<1>6. ASSUME NEW s \in User, InitUserspace(s) PROVE KernelMapped'
  BY <1>1, <1>3, <1>5, <1>6 DEF InitUserspace, Space
<1>7. ASSUME NEW n \in Node, ClearPage(n) PROVE KernelMapped'
  BY <1>3, <1>4, <1>7 DEF ClearPage, NextToClear, Children
<1>8. CASE ClearLeave
  BY <1>3, <1>4, <1>8 DEF ClearLeave
<1>9. CASE FreeReturn
  <2>1. op.src \in User
    BY <1>9 DEF FreeReturn, Running, OpInv
  <2> QED BY <1>1, <1>3, <1>4, <1>9, <2>1 DEF FreeReturn
<1>10. ASSUME NEW n \in Node, CloneTable(n) \/ ClonePage(n) PROVE KernelMapped'
  BY <1>3, <1>4, <1>5, <1>10 DEF CloneTable, ClonePage
<1>11. ASSUME NEW n \in Node, AllocTable(n) PROVE KernelMapped'
  BY <1>3, <1>4, <1>5, <1>11 DEF AllocTable
<1>12. CASE AllocPage
  <2>1. PICK f \in Frame \cup {NULL} : SetSlot(op.src, op.goal, f)
    BY <1>12, AllocPageMove
  <2> QED BY <1>3, <1>4, <2>1
<1> QED
  BY <1>2, <1>6, <1>7, <1>8, <1>9, <1>10, <1>11, <1>12
     DEF Next, Call, Step, Wild, vars, SwitchUserspace, ClearUserspace, CloneUserspace, AllocAt,
         AllocAtNowhere, GoWild, ClearEnter, ClearReturn, CloneFail, CloneLeave, CloneReturn,
         AllocWalk, AllocTableNull

-----------------------------------------------------------------------------
(* The invariant is inductive. *)
LEMMA StepIInv == IInv /\ KernelMapped /\ [Next]_vars => IInv' /\ KernelMapped'
<1> SUFFICES ASSUME IInv, KernelMapped, [Next]_vars PROVE IInv'
  BY KernelKeeps
<1>1. ASSUME NEW s \in User, InitUserspace(s) \/ SwitchUserspace(s) PROVE IInv'
  BY <1>1, InitSwitchKeeps
<1>2. ASSUME NEW s \in User, NEW kind \in {"clear", "free"}, ClearUserspace(kind, s) PROVE IInv'
  <2>1. s \in Space /\ 0 \in Node /\ Resident(s, 0) /\ Ready
    BY <1>2, TreeAssumption DEF ClearUserspace, Space, TreeAssumption, Node
  <2>2. CASE slot[s][0] = NULL
    BY <1>2, <2>2, WildKeeps DEF ClearUserspace
  <2>3. CASE slot[s][0] # NULL
    <3>1. /\ op' = Operation(kind, s, s, 0) /\ mapping' = mapping + 1
          /\ wild' = "no" /\ UNCHANGED <<free_frame, free_frames, slot, urp>>
      BY <1>2, <2>1, <2>3 DEF ClearUserspace, Ready
    <3> QED BY <2>1, <3>1, CallKeeps
  <2> QED BY <2>2, <2>3
<1>3. ASSUME NEW s \in User, NEW d \in User, CloneUserspace(s, d) PROVE IInv'
  <2>1. s \in Space /\ d \in Space /\ 0 \in Node /\ Resident(s, 0) /\ Resident(d, 0) /\ Ready
    BY <1>3, TreeAssumption DEF CloneUserspace, Space, TreeAssumption, Node
  <2>2. CASE slot[s][0] = NULL
    BY <1>3, <2>2, WildKeeps DEF CloneUserspace
  <2>3. CASE slot[s][0] # NULL
    <3>1. /\ op' = Operation("clone", s, d, 0) /\ mapping' = mapping + 2
          /\ s # d /\ \A n \in Node \ {0} : ~Resident(d, n)
          /\ wild' = "no" /\ UNCHANGED <<free_frame, free_frames, slot, urp>>
      BY <1>3, <2>1, <2>3 DEF CloneUserspace, Ready
    <3> QED BY <2>1, <3>1, CallKeeps
  <2> QED BY <2>2, <2>3
<1>4. ASSUME NEW s \in Space, NEW g \in Node, AllocAt(s, g) PROVE IInv'
  <2>1. /\ op' = Operation("alloc", s, s, g) /\ mapping' = mapping + 1
        /\ IsPage(g) /\ Ready /\ Designated(s)
        /\ wild' = "no" /\ UNCHANGED <<free_frame, free_frames, slot, urp>>
    BY <1>4 DEF AllocAt, Ready
  <2>2. Resident(s, 0)
    <3>1. urp # INVALID
      BY DEF IInv, TypeOK, Frame, NULL, INVALID
    <3> QED BY <2>1, <3>1 DEF Designated, KernelMapped, Resident
  <2> QED BY <1>4, <2>1, <2>2, CallKeeps
<1>5. CASE AllocAtNowhere
  BY <1>5, WildKeeps DEF AllocAtNowhere
<1>6. CASE Call
  BY <1>1, <1>2, <1>3, <1>4, <1>5, <1>6 DEF Call
<1>7. CASE Step
  BY <1>7, ClearKeeps, CloneKeeps, AllocKeeps DEF Step
<1>8. CASE UNCHANGED vars
  <2>1. ListInv' /\ TreeClosed'
    BY <1>8, NoMove DEF vars
  <2>2. TypeOK' /\ OpInv' /\ CloneInv'
    BY <1>8 DEF IInv, vars, TypeOK, OpInv, CloneInv, Resident
  <2> QED BY <2>1, <2>2 DEF IInv
<1> QED BY <1>6, <1>7, <1>8 DEF Next, Wild

(* The inductive invariant holds in every reachable state. *)
THEOREM Invariance == Spec => [](IInv /\ KernelMapped)
<1>1. Init => IInv /\ KernelMapped
  <2>1. Init => KernelMapped
    BY SpaceAssumption, TreeAssumption
       DEF Init, KernelMapped, Resident, SpaceAssumption, TreeAssumption, Space, Node
  <2> QED BY <2>1, InitIInv
<1> QED BY <1>1, StepIInv, PTL DEF Spec

(* Type correctness of the frame manager and of the running operation. *)
THEOREM TypeCorrect == Spec => []TypeOK
<1>1. IInv => TypeOK
  BY DEF IInv
<1> QED BY <1>1, Invariance, PTL

(* _alloc_frame never follows the end of the free list, for any number of   *)
(* frames and any history of operations.                                    *)
THEOREM AllocNeverUnderruns == Spec => []CounterCovered
<1>1. IInv => CounterCovered
  BY DEF IInv, ListInv
<1> QED BY <1>1, Invariance, PTL

(* No frame is ever in two places: the free list and the trees of all       *)
(* processes and of the supervisor are disjoint.                            *)
THEOREM FramesAreExclusive == Spec => []NoDoubleUse
<1>1. IInv => NoDoubleUse
  BY DEF IInv, ListInv
<1> QED BY <1>1, Invariance, PTL

(* Residency is closed upwards at every step of every operation. *)
THEOREM TreesStayClosed == Spec => []TreeClosed
<1>1. IInv => TreeClosed
  BY DEF IInv
<1> QED BY <1>1, Invariance, PTL

(* _mapping_push never panics, and every operation, failed clones included, *)
(* returns with an empty mapper stack.                                      *)
THEOREM MapperNeverExhausted == Spec => []MapperFits
<1>1. IInv => MapperFits
  <2> SUFFICES ASSUME IInv, wild = "no"
               PROVE  mapping + 2 <= MAPPER_PAGES /\ (op.kind = "idle" => mapping = 0)
    BY DEF MapperFits
  <2>1. /\ op.kind \in Kinds /\ op.tab \in Node /\ OpInv
        /\ MAPPER_PAGES \in Nat /\ MAPPER_PAGES >= 8
    BY FrameAssumption DEF IInv, TypeOK, FrameAssumption
  <2>2. CASE op.kind = "idle"
    BY <2>1, <2>2 DEF OpInv
  <2>3. CASE op.kind # "idle"
    <3>1. Level[op.tab] \in 0 .. 2
      BY <2>1, <2>3, TreeShape DEF OpInv, IsPage
    <3>2. mapping \in {Level[op.tab] + 1, 2 * Level[op.tab] + 2}
      BY <2>1, <2>3 DEF OpInv, Kinds
    <3> QED BY <2>1, <2>3, <3>1, <3>2
  <2> QED BY <2>2, <2>3
<1> QED BY <1>1, Invariance, PTL

(* A clone that returns success has copied every table and every page. *)
THEOREM CloneCopiesAll == Spec => []CloneComplete
<1>1. IInv => CloneComplete
  <2> SUFFICES ASSUME IInv, op.kind = "clone", op.tab = 0, NothingToClone, NEW n \in Node
               PROVE  Resident(op.dst, n) <=> Resident(op.src, n)
    BY DEF CloneComplete
  <2>1. /\ op.src \in Space /\ op.dst \in Space /\ TreeClosed
        /\ Resident(op.dst, 0) /\ Resident(op.src, 0)
    BY DEF IInv, TypeOK, OpInv
  <2>2. Above(0) = {0}
    BY TreeShape DEF Above
  <2>3. ASSUME NEW m \in Node, m # 0, Resident(op.src, m), Resident(op.dst, Parent[m])
        PROVE  Resident(op.dst, m)
    <3>1. CASE Parent[m] = 0
      BY <2>3, <3>1 DEF NothingToClone, ToClone, Children
    <3>2. CASE Parent[m] # 0
      BY <2>2, <2>3, <3>2 DEF IInv, CloneInv
    <3> QED BY <3>1, <3>2
  <2>4. SUFFICES ASSUME Resident(op.src, n) PROVE Resident(op.dst, n)
    BY DEF IInv, CloneInv
  <2> DEFINE p == Parent[n]
             q == Parent[Parent[n]]
  <2>5. /\ p \in Node /\ q \in Node /\ Resident(op.src, p) /\ Resident(op.src, q)
    BY <2>1, <2>4, TreeShape DEF TreeClosed
  <2>6. Parent[q] = 0
    <3>1. CASE Level[n] <= 2
      BY <3>1, AboveShape
    <3>2. CASE Level[n] = 3
      <4>1. Level[p] = 2
        BY <3>2, TreeShape
      <4>2. Level[q] = 1
        BY <4>1, <2>5, TreeShape
      <4>3. Parent[q] \in Node /\ Level[Parent[q]] = 0
        BY <4>2, <2>5, TreeShape
      <4> QED BY <4>3, TreeShape
    <3> QED BY <3>1, <3>2, TreeShape
  <2>7. Resident(op.dst, q)
    BY <2>1, <2>3, <2>5, <2>6
  <2>8. Resident(op.dst, p)
    BY <2>1, <2>3, <2>5, <2>7
  <2> QED BY <2>1, <2>3, <2>4, <2>8
<1> QED BY <1>1, Invariance, PTL

-----------------------------------------------------------------------------
(* Address 0 is under no table's descriptor, and a sweep does not run over  *)
(* the boot ROM: everything it frees, except pages, is a frame.             *)
RealTables ==
  /\ \A s \in Space, n \in Node : slot[s][n] = NULL => n = 0 \/ IsPage(n)
  /\ op.kind \in {"clear", "free"} => slot[op.src][0] # NULL

(* RealTables is inductive relative to IInv. *)
LEMMA RealKeeps ==
  ASSUME IInv, RealTables, [Next]_vars
  PROVE  RealTables'
<1> USE DEF IInv
<1>1. op.src \in Space /\ op.dst \in Space /\ op.tab \in Node /\ op.goal \in Node /\ 0 \in Node
  BY TreeAssumption DEF TypeOK, TreeAssumption, Node
<1>2. ASSUME slot' = slot, op'.kind \notin {"clear", "free"} \/ (op'.kind = op.kind /\ op'.src = op.src)
      PROVE  RealTables'
  BY <1>2 DEF RealTables
<1>3. ASSUME NEW s \in Space, NEW n \in Node, NEW f \in Frame \cup {NULL, INVALID}, SetSlot(s, n, f),
             f = NULL => n = 0 \/ IsPage(n),
             op'.kind \notin {"clear", "free"} \/ (f # NULL /\ op'.kind = op.kind /\ op'.src = op.src)
      PROVE  RealTables'
  <2>1. \A t \in Space, m \in Node :
          slot'[t][m] = IF t = s /\ m = n THEN f ELSE slot[t][m]
    BY <1>3 DEF SetSlot, TypeOK
  <2> QED BY <1>1, <1>3, <2>1 DEF RealTables
<1>4. ASSUME TakeFrame PROVE AllocFrame \in Frame /\ AllocFrame # NULL
  BY <1>4, ListNotEmpty DEF TakeFrame, ListInv, Frame, NULL
<1>5. INVALID # NULL /\ Idle.kind = "idle"
  BY DEF INVALID, NULL, Idle
<1>6. ASSUME NEW s \in User, InitUserspace(s) PROVE RealTables'
  BY <1>1, <1>3, <1>4, <1>6 DEF InitUserspace, Ready, Space
<1>7. ASSUME NEW s \in User, SwitchUserspace(s) PROVE RealTables'
  BY <1>2, <1>7 DEF SwitchUserspace
<1>8. ASSUME NEW why, GoWild(why) PROVE RealTables'
  BY <1>2, <1>5, <1>8 DEF GoWild
<1>9. ASSUME NEW s \in User, NEW kind \in {"clear", "free"}, ClearUserspace(kind, s) PROVE RealTables'
  <2>1. CASE slot[s][0] # NULL
    BY <1>9, <2>1 DEF ClearUserspace, Operation, RealTables
  <2> QED BY <1>8, <1>9, <2>1 DEF ClearUserspace
<1>10. ASSUME NEW s \in User, NEW d \in User, CloneUserspace(s, d) PROVE RealTables'
  <2>1. CASE slot[s][0] # NULL
    BY <1>10, <2>1 DEF CloneUserspace, Operation, RealTables
  <2> QED BY <1>8, <1>10, <2>1 DEF CloneUserspace
<1>11. ASSUME NEW s \in Space, NEW g \in Node, AllocAt(s, g) PROVE RealTables'
  BY <1>11 DEF AllocAt, Operation, RealTables
<1>12. ASSUME NEW n \in Node, ClearEnter(n) PROVE RealTables'
  BY <1>2, <1>12, LoopType DEF ClearEnter, EnterLoop
<1>13. ASSUME NEW n \in Node, ClearPage(n) PROVE RealTables'
  BY <1>1, <1>3, <1>5, <1>13 DEF ClearPage
<1>14. CASE ClearLeave
  <2>1. Parent[op.tab] \in Node
    BY <1>1, TreeShape
  <2>2. op'.kind = op.kind /\ op'.src = op.src
    BY <1>14, <2>1, LoopType DEF ClearLeave, LeaveLoop
  <2> QED BY <1>1, <1>3, <1>5, <1>14, <2>2 DEF ClearLeave
<1>15. CASE FreeReturn
  BY <1>1, <1>3, <1>5, <1>15 DEF FreeReturn, Return
<1>16. CASE ClearReturn \/ CloneReturn
  BY <1>2, <1>5, <1>16 DEF ClearReturn, CloneReturn, Return
<1>17. ASSUME NEW n \in Node, CloneTable(n) \/ AllocTable(n) PROVE RealTables'
  <2>1. op'.kind = op.kind /\ op.kind \notin {"clear", "free"}
    BY <1>17, LoopType DEF CloneTable, AllocTable, EnterLoop, Running
  <2> QED BY <1>1, <1>3, <1>4, <1>17, <2>1 DEF CloneTable, AllocTable
<1>18. ASSUME NEW n \in Node, ClonePage(n) PROVE RealTables'
  BY <1>1, <1>3, <1>4, <1>18 DEF ClonePage, Running
<1>19. ASSUME NEW n \in Node, CloneFail(n) PROVE RealTables'
  BY <1>2, <1>5, <1>19 DEF CloneFail, Return
<1>20. CASE CloneLeave
  <2>1. Parent[op.tab] \in Node
    BY <1>1, TreeShape
  <2> QED BY <1>2, <1>20, <2>1, LoopType DEF CloneLeave, LeaveLoop
<1>21. ASSUME NEW n \in Node, AllocWalk(n) PROVE RealTables'
  BY <1>2, <1>21, LoopType DEF AllocWalk, EnterLoop
<1>22. CASE AllocPage
  <2>1. PICK f \in Frame \cup {NULL} : SetSlot(op.src, op.goal, f)
    BY <1>22, AllocPageMove
  <2>2. IsPage(op.goal) /\ op'.kind = "idle"
    BY <1>5, <1>22 DEF AllocPage, Running, OpInv, Return
  <2> QED BY <1>1, <1>3, <2>1, <2>2
<1>23. CASE UNCHANGED vars
  BY <1>2, <1>23 DEF vars
<1>24. CASE Call
  BY <1>6, <1>7, <1>8, <1>9, <1>10, <1>11, <1>24 DEF Call, AllocAtNowhere
<1>25. CASE Step
  BY <1>8, <1>12, <1>13, <1>14, <1>15, <1>16, <1>17, <1>18, <1>19, <1>20, <1>21, <1>22, <1>25
     DEF Step, AllocTableNull
<1> QED BY <1>23, <1>24, <1>25 DEF Next, Wild

(* A step from a state without a ROM page drops no frame. *)
LEMMA StepKeepsFrames ==
  ASSUME IInv, RealTables, ~RomMapped, [Next]_vars
  PROVE  Listed \cup Held \subseteq (Listed \cup Held)'
<1> USE DEF IInv
<1>1. op.src \in Space /\ op.dst \in Space /\ op.tab \in Node /\ op.goal \in Node /\ 0 \in Node
  BY TreeAssumption DEF TypeOK, TreeAssumption, Node
<1>2. CASE UNCHANGED <<free_frame, free_frames, slot>>
  BY <1>2, NoMove
<1>3. ASSUME NEW s \in User, InitUserspace(s) PROVE Listed \cup Held \subseteq (Listed \cup Held)'
  BY <1>1, <1>3, TakeMove, NullMove DEF InitUserspace, Space
<1>4. ASSUME NEW n \in Node, ClearPage(n) PROVE Listed \cup Held \subseteq (Listed \cup Held)'
  <2>1. slot[op.src][n] # NULL
    BY <1>1, <1>4 DEF ClearPage, RomMapped
  <2> QED BY <1>1, <1>4, <2>1, GiveMove DEF ClearPage, NextToClear, INVALID, NULL
<1>5. CASE ClearLeave
  <2>1. Sweeping /\ Resident(op.src, op.tab) /\ ~IsPage(op.tab)
    BY <1>5 DEF ClearLeave, Sweeping, Running, OpInv
  <2>2. slot[op.src][op.tab] # NULL
    BY <1>1, <1>5, <2>1 DEF ClearLeave, RealTables
  <2> QED BY <1>1, <1>5, <2>1, <2>2, GiveMove DEF ClearLeave, INVALID, NULL
<1>6. CASE FreeReturn
  <2>1. Resident(op.src, 0) /\ slot[op.src][0] # NULL
    BY <1>6 DEF FreeReturn, Running, OpInv, RealTables
  <2> QED BY <1>1, <1>6, <2>1, GiveMove DEF FreeReturn, INVALID, NULL
<1>7. ASSUME NEW n \in Node, CloneTable(n) \/ ClonePage(n) PROVE Listed \cup Held \subseteq (Listed \cup Held)'
  <2>1. TakeFrame /\ SetSlot(op.dst, n, AllocFrame) /\ ~Resident(op.dst, n)
    BY <1>7 DEF CloneTable, ClonePage, NextToClone, ToClone
  <2> QED BY <1>1, <2>1, TakeMove
<1>8. ASSUME NEW n \in Node, AllocTable(n) PROVE Listed \cup Held \subseteq (Listed \cup Held)'
  BY <1>1, <1>8, TakeMove DEF AllocTable
<1>9. CASE AllocPage
  <2>1. slot[op.src][op.goal] # NULL
    BY <1>1, <1>9 DEF AllocPage, Running, OpInv, RomMapped
  <2> QED BY <1>9, <2>1, AllocPageMove
<1> QED
  BY <1>2, <1>3, <1>4, <1>5, <1>6, <1>7, <1>8, <1>9
     DEF Next, Call, Step, Wild, vars, SwitchUserspace, ClearUserspace, CloneUserspace, AllocAt,
         AllocAtNowhere, GoWild, ClearEnter, ClearReturn, CloneFail, CloneLeave, CloneReturn,
         AllocWalk, AllocTableNull

(* While no page is mapped to the boot ROM, every frame that was on the     *)
(* list or in a tree stays on the list or in a tree, across every step of   *)
(* every operation and across failed clones.                                *)
THEOREM FramesAreKept == Spec => NoFrameDropped
<1>1. Init => RealTables
  BY InitIInv, SpaceAssumption DEF Init, RealTables, Idle, Space, SpaceAssumption, NULL, INVALID
<1>2. Spec => []RealTables
  <2>1. IInv /\ RealTables /\ [Next]_vars => RealTables'
    BY RealKeeps
  <2> QED BY <1>1, <2>1, Invariance, PTL DEF Spec
<1>3. IInv /\ RealTables /\ [Next]_vars
        => [RomMapped \/ (Listed \cup Held) \subseteq (Listed \cup Held)']_vars
  BY StepKeepsFrames
<1> QED BY <1>2, <1>3, Invariance, PTL DEF Spec, NoFrameDropped

(* The boot ROM serves as a translation table only after memory ran out, or *)
(* before any userspace exists.                                             *)
THEOREM RomTablesNeedExhaustion == Spec => []RomTableOnlyWhenExhausted
<1>1. Init => RomTableOnlyWhenExhausted
  BY DEF Init, RomTableOnlyWhenExhausted
<1>2. IInv /\ RomTableOnlyWhenExhausted /\ [Next]_vars => RomTableOnlyWhenExhausted'
  <2> SUFFICES ASSUME IInv, RomTableOnlyWhenExhausted, [Next]_vars, wild' = "rom"
               PROVE  free_frames' = 0 \/ urp' = NULL
    BY DEF RomTableOnlyWhenExhausted
  <2>1. CASE UNCHANGED vars
    BY <2>1 DEF RomTableOnlyWhenExhausted, vars
  <2>2. CASE wild = "no" /\ GoWild("rom") /\ (free_frames = 0 \/ urp = NULL)
    BY <2>2 DEF GoWild
  <2>3. \A s \in User : s \in Space /\ 0 \in Node
    BY TreeAssumption DEF Space, TreeAssumption, Node
  <2>4. ASSUME NEW s \in User, NEW kind \in {"clear", "free"}, ClearUserspace(kind, s)
        PROVE  wild = "no" /\ GoWild("rom") /\ free_frames = 0
    BY <2>3, <2>4 DEF ClearUserspace, Ready, IInv, ListInv, NullMeansExhausted
  <2>5. ASSUME NEW s \in User, NEW d \in User, CloneUserspace(s, d)
        PROVE  wild = "no" /\ GoWild("rom") /\ free_frames = 0
    BY <2>3, <2>5 DEF CloneUserspace, Ready, IInv, ListInv, NullMeansExhausted
  <2>6. CASE AllocAtNowhere
    BY <2>2, <2>6 DEF AllocAtNowhere, Ready, GoWild
  <2>7. ASSUME NEW n \in Node, AllocTableNull(n)
        PROVE  wild = "no" /\ GoWild("rom") /\ free_frames = 0
    BY <2>7 DEF AllocTableNull, Running, AllocFails
  <2>8. CASE Wild
    BY <2>1, <2>8 DEF Wild
  <2> QED
    BY <2>1, <2>2, <2>4, <2>5, <2>6, <2>7, <2>8
       DEF Next, Call, Step, Ready, Running, Sweeping, InitUserspace, SwitchUserspace, AllocAt,
           ClearEnter, ClearPage, ClearLeave, ClearReturn, FreeReturn, CloneTable, ClonePage,
           CloneFail, CloneLeave, CloneReturn, AllocWalk, AllocTable, AllocPage
<1> QED BY <1>1, <1>2, Invariance, PTL DEF Spec

-----------------------------------------------------------------------------
(* Mmu040 implements FrameStore.  The free frames are those of the list and *)
(* the frames of an address space those its descriptors hold.  The three    *)
(* moves become a Take, a Give or a Forget, and a stutter; that they do     *)
(* rests on NoDoubleUse: a frame that leaves a slot leaves the tree only    *)
(* because no other slot of the tree holds it.                              *)

(* What a change of one slot does to the frames a tree owns. *)
LEMMA OwnedAfter ==
  ASSUME TypeOK, NoDoubleUse, NEW s \in Space, NEW n \in Node,
         NEW v \in Frame \cup {NULL, INVALID}, SetSlot(s, n, v)
  PROVE  Owned' = [Owned EXCEPT ![s] = (@ \ {slot[s][n]}) \cup ({v} \ {NULL, INVALID})]
<1> DEFINE Now(t) == {slot[t][m] : m \in Node} \ {NULL, INVALID}
           Then(t) == {slot'[t][m] : m \in Node} \ {NULL, INVALID}
<1>1. \A t \in Space, m \in Node :
        slot'[t][m] = IF t = s /\ m = n THEN v ELSE slot[t][m]
  BY DEF SetSlot, TypeOK
<1>2. \A t \in Space : t # s => Then(t) = Now(t)
  BY <1>1
<1>3. ASSUME NEW f PROVE f \in Then(s) <=> f \in (Now(s) \ {slot[s][n]}) \cup ({v} \ {NULL, INVALID})
  <2>1. CASE f \in {NULL, INVALID}
    BY <2>1
  <2>2. CASE f \notin {NULL, INVALID}
    <3>1. f \in Then(s) <=> (\E m \in Node : slot'[s][m] = f)
      BY <2>2
    <3>2. f \in Now(s) <=> (\E m \in Node : slot[s][m] = f)
      BY <2>2
    <3>3. \A m \in Node : slot[s][m] = f /\ slot[s][n] = f => m = n
      BY <2>2 DEF NoDoubleUse, HeldOnce, TypeOK
    <3>4. (\E m \in Node : slot'[s][m] = f) <=> (v = f \/ \E m \in Node \ {n} : slot[s][m] = f)
      BY <1>1
    <3>5. (\E m \in Node \ {n} : slot[s][m] = f) <=> (f \in Now(s) /\ f # slot[s][n])
      BY <3>2, <3>3
    <3> HIDE DEF Now, Then
    <3> QED BY <3>1, <3>4, <3>5, <2>2
  <2> QED BY <2>1, <2>2
<1>4. Then(s) = (Now(s) \ {slot[s][n]}) \cup ({v} \ {NULL, INVALID})
  <2> HIDE DEF Now, Then
  <2> QED BY <1>3
<1>5. Owned = [t \in Space |-> Now(t)] /\ Owned' = [t \in Space |-> Then(t)]
  BY DEF Owned
<1> HIDE DEF Now, Then
<1> QED BY <1>2, <1>4, <1>5

(* A frame taken from the list and put under an invalid descriptor. *)
LEMMA TakeIsTake ==
  ASSUME TypeOK, ListInv, TakeFrame,
         NEW s \in Space, NEW n \in Node, ~Resident(s, n), SetSlot(s, n, AllocFrame)
  PROVE  Store!Next
<1>1. ~AllocFails
  BY DEF TakeFrame
<1>2. /\ free_frame \in Seq(Frame) /\ free_frame # <<>>
      /\ AllocFrame = free_frame[1] /\ AllocFrame \in Frame
  BY <1>1, ListNotEmpty DEF ListInv
<1>3. /\ Len(free_frame') = Len(free_frame) - 1 /\ Len(free_frame) \in Nat
      /\ \A i \in 1 .. Len(free_frame) - 1 : free_frame'[i] = free_frame[i + 1]
  BY <1>2, TakeShape DEF TakeFrame
<1>4. Owned' = [Owned EXCEPT ![s] = @ \cup {AllocFrame}]
  <2>1. slot[s][n] = INVALID /\ INVALID \notin Owned[s] /\ AllocFrame \notin {NULL, INVALID}
    BY <1>2 DEF Resident, Owned, NULL, INVALID, Frame
  <2>2. Owned' = [Owned EXCEPT ![s] = (@ \ {INVALID}) \cup ({AllocFrame} \ {NULL, INVALID})]
    BY <1>2, <2>1, OwnedAfter DEF ListInv
  <2>3. (Owned[s] \ {INVALID}) \cup ({AllocFrame} \ {NULL, INVALID}) = Owned[s] \cup {AllocFrame}
    BY <2>1
  <2> QED BY <2>2, <2>3
<1>5. AllocFrame \in Listed
  BY <1>2, <1>3 DEF Listed
<1>6. Listed' = Listed \ {AllocFrame}
  <2>1. ASSUME NEW f \in Listed', TRUE PROVE f \in Listed \ {AllocFrame}
    <3>1. PICK i \in 1 .. Len(free_frame') : f = free_frame'[i]
      BY <2>1 DEF Listed
    <3>2. i + 1 \in 1 .. Len(free_frame) /\ f = free_frame[i + 1] /\ 1 \in 1 .. Len(free_frame)
      BY <3>1, <1>3
    <3>3. f # free_frame[1]
      BY <3>2, <1>3 DEF ListInv, NoDoubleUse, ListDistinct
    <3> QED BY <3>2, <3>3, <1>2 DEF Listed
  <2>2. ASSUME NEW f \in Listed \ {AllocFrame} PROVE f \in Listed'
    <3>1. PICK i \in 1 .. Len(free_frame) : f = free_frame[i]
      BY <2>2 DEF Listed
    <3>2. i # 1
      BY <3>1, <2>2, <1>2
    <3>3. i - 1 \in 1 .. Len(free_frame') /\ free_frame'[i - 1] = f
      BY <3>1, <3>2, <1>3
    <3> QED BY <3>3 DEF Listed
  <2> QED BY <2>1, <2>2
<1>7. Store!Take(s, AllocFrame)
  BY <1>4, <1>5, <1>6 DEF Store!Take
<1> QED BY <1>2, <1>7 DEF Store!Next

(* A resident descriptor's frame pushed on the list: given back, unless it  *)
(* is the boot ROM, which costs the list.                                   *)
LEMMA GiveIsGiveOrForget ==
  ASSUME TypeOK, ListInv,
         NEW s \in Space, NEW n \in Node, Resident(s, n),
         NEW v \in {INVALID, NULL},
         FreeFrame(slot[s][n]), SetSlot(s, n, v)
  PROVE  Store!Next
<1> DEFINE f == slot[s][n]
<1>1. free_frame \in Seq(Frame) /\ f \in Frame \cup {NULL} /\ f # INVALID
  BY DEF TypeOK, Resident
<1>2. Owned' = [Owned EXCEPT ![s] = @ \ {f}]
  <2>1. Owned' = [Owned EXCEPT ![s] = (@ \ {f}) \cup ({v} \ {NULL, INVALID})]
    BY OwnedAfter DEF ListInv
  <2>2. (Owned[s] \ {f}) \cup ({v} \ {NULL, INVALID}) = Owned[s] \ {f}
    OBVIOUS
  <2> QED BY <2>1, <2>2
<1>3. CASE f = NULL
  <2>1. free_frame' = <<>>
    BY <1>3 DEF FreeFrame, Pushed
  <2>2. Listed' = {}
    BY <2>1 DEF Listed
  <2>3. Owned[s] \ {f} = Owned[s] /\ Owned = [t \in Space |-> Owned[t]]
    BY <1>3 DEF Owned
  <2>4. Owned' = Owned
    BY <1>2, <2>3
  <2> QED BY <2>2, <2>4 DEF Store!Next, Store!Forget
<1>4. CASE f # NULL
  <2>1. f \in Frame /\ f \in Owned[s]
    BY <1>1, <1>4 DEF Owned
  <2>2. free_frame' = <<f>> \o free_frame
    BY <1>4 DEF FreeFrame, Pushed
  <2> HIDE DEF f
  <2>3. /\ Len(free_frame') = Len(free_frame) + 1 /\ Len(free_frame) \in Nat
        /\ free_frame'[1] = f
        /\ \A i \in 2 .. Len(free_frame) + 1 : free_frame'[i] = free_frame[i - 1]
    BY <1>1, <2>1, <2>2, PushShape
  <2>4. Listed' = Listed \cup {f}
    <3>1. ASSUME NEW g \in Listed', TRUE PROVE g \in Listed \cup {f}
      <4>1. PICK i \in 1 .. Len(free_frame') : g = free_frame'[i]
        BY <3>1 DEF Listed
      <4>2. CASE i = 1
        BY <4>1, <4>2, <2>3
      <4>3. CASE i # 1
        <5>1. i - 1 \in 1 .. Len(free_frame) /\ g = free_frame[i - 1]
          BY <4>1, <4>3, <2>3
        <5> QED BY <5>1 DEF Listed
      <4> QED BY <4>2, <4>3
    <3>2. ASSUME NEW g \in Listed PROVE g \in Listed'
      <4>1. PICK i \in 1 .. Len(free_frame) : g = free_frame[i]
        BY <3>2 DEF Listed
      <4>2. i + 1 \in 1 .. Len(free_frame') /\ free_frame'[i + 1] = g
        BY <4>1, <2>3
      <4> QED BY <4>2 DEF Listed
    <3>3. f \in Listed'
      <4>1. 1 \in 1 .. Len(free_frame')
        BY <2>3
      <4> QED BY <4>1, <2>3 DEF Listed
    <3> QED BY <3>1, <3>2, <3>3
  <2>5. Store!Give(s, f)
    BY <1>2, <2>1, <2>4 DEF Store!Give
  <2> QED BY <2>1, <2>5 DEF Store!Next
<1> QED BY <1>3, <1>4

(* Address 0 put under an invalid descriptor: nobody owns the boot ROM. *)
LEMMA NullIsStutter ==
  ASSUME TypeOK, ListInv, UNCHANGED free_frame,
         NEW s \in Space, NEW n \in Node, ~Resident(s, n), SetSlot(s, n, NULL)
  PROVE  UNCHANGED Store!vars
<1>1. slot[s][n] = INVALID /\ INVALID \notin Owned[s]
  BY DEF Resident, Owned
<1>2. Owned' = [Owned EXCEPT ![s] = (@ \ {INVALID}) \cup ({NULL} \ {NULL, INVALID})]
  BY <1>1, OwnedAfter DEF ListInv
<1>3. (Owned[s] \ {INVALID}) \cup ({NULL} \ {NULL, INVALID}) = Owned[s]
  BY <1>1
<1>4. Owned = [t \in Space |-> Owned[t]]
  BY DEF Owned
<1>5. Owned' = Owned
  BY <1>2, <1>3, <1>4
<1>6. Listed' = Listed
  BY DEF Listed
<1> QED BY <1>5, <1>6 DEF Store!vars

-----------------------------------------------------------------------------
(* The last step of alloc_at.  A page that was resident gets back the frame *)
(* that has just been pushed.                                               *)
LEMMA AllocPageIsStep ==
  ASSUME IInv, AllocPage
  PROVE  [Store!Next]_(Store!vars)
<1> USE DEF IInv
<1>1. op.src \in Space /\ op.goal \in Node /\ free_frame \in Seq(Frame) /\ free_frames \in Nat
  BY DEF TypeOK
<1>2. CASE AllocFails /\ ~Resident(op.src, op.goal)
  <2>1. SetSlot(op.src, op.goal, NULL) /\ UNCHANGED free_frame
    BY <1>2 DEF AllocPage, ListForPage
  <2> QED BY <1>1, <1>2, <2>1, NullIsStutter
<1>3. CASE AllocFails /\ Resident(op.src, op.goal)
  <2>1. SetSlot(op.src, op.goal, NULL) /\ FreeFrame(slot[op.src][op.goal])
    BY <1>3 DEF AllocPage, ListForPage, FreeFrame
  <2> QED BY <1>1, <1>3, <2>1, GiveIsGiveOrForget
<1>4. CASE ~AllocFails /\ ~Resident(op.src, op.goal)
  <2>1. SetSlot(op.src, op.goal, AllocFrame) /\ TakeFrame
    BY <1>4 DEF AllocPage, ListForPage, TakeFrame, AllocFrame
  <2> QED BY <1>1, <1>4, <2>1, TakeIsTake
<1>5. CASE ~AllocFails /\ Resident(op.src, op.goal)
  <2> DEFINE f == slot[op.src][op.goal]
  <2>1. f \in Frame
    BY <1>1, <1>5 DEF TypeOK, Resident, ListInv, NullMeansExhausted, AllocFails
  <2>2. /\ SetSlot(op.src, op.goal, Head(<<f>> \o free_frame))
        /\ free_frame' = Tail(<<f>> \o free_frame)
    BY <1>5, <2>1 DEF AllocPage, ListForPage, Pushed, NULL, Frame
  <2>3. SetSlot(op.src, op.goal, f) /\ free_frame' = free_frame
    BY <1>1, <2>1, <2>2, PushShape
  <2>4. slot' = slot
    BY <1>1, <2>3 DEF SetSlot, TypeOK
  <2> QED BY <2>3, <2>4 DEF Store!vars, Listed, Owned
<1> QED BY <1>2, <1>3, <1>4, <1>5

(* Every step of the code is a step of the store or changes nothing there. *)
LEMMA StepIsStep ==
  ASSUME IInv, [Next]_vars
  PROVE  [Store!Next]_(Store!vars)
<1> USE DEF IInv
<1>1. op.src \in Space /\ op.dst \in Space /\ op.tab \in Node /\ op.goal \in Node /\ 0 \in Node
  BY TreeAssumption DEF TypeOK, TreeAssumption, Node
<1>2. CASE UNCHANGED <<free_frame, free_frames, slot>>
  BY <1>2 DEF Store!vars, Listed, Owned
<1>3. ASSUME NEW s \in User, InitUserspace(s) PROVE [Store!Next]_(Store!vars)
  BY <1>1, <1>3, TakeIsTake, NullIsStutter DEF InitUserspace, Space
<1>4. ASSUME NEW n \in Node, ClearPage(n) PROVE [Store!Next]_(Store!vars)
  BY <1>1, <1>4, GiveIsGiveOrForget DEF ClearPage, NextToClear
<1>5. CASE ClearLeave
  <2>1. Resident(op.src, op.tab)
    BY <1>5 DEF ClearLeave, Sweeping, Running, OpInv
  <2> QED BY <1>1, <1>5, <2>1, GiveIsGiveOrForget DEF ClearLeave
<1>6. CASE FreeReturn
  <2>1. Resident(op.src, 0)
    BY <1>6 DEF FreeReturn, Running, OpInv
  <2> QED BY <1>1, <1>6, <2>1, GiveIsGiveOrForget DEF FreeReturn
<1>7. ASSUME NEW n \in Node, CloneTable(n) \/ ClonePage(n) PROVE [Store!Next]_(Store!vars)
  <2>1. TakeFrame /\ SetSlot(op.dst, n, AllocFrame) /\ ~Resident(op.dst, n)
    BY <1>7 DEF CloneTable, ClonePage, NextToClone, ToClone
  <2> QED BY <1>1, <2>1, TakeIsTake
<1>8. ASSUME NEW n \in Node, AllocTable(n) PROVE [Store!Next]_(Store!vars)
  BY <1>1, <1>8, TakeIsTake DEF AllocTable
<1>9. CASE AllocPage
  BY <1>9, AllocPageIsStep
<1> QED
  BY <1>2, <1>3, <1>4, <1>5, <1>6, <1>7, <1>8, <1>9
     DEF Next, Call, Step, Wild, vars, SwitchUserspace, ClearUserspace, CloneUserspace, AllocAt,
         AllocAtNowhere, GoWild, ClearEnter, ClearReturn, CloneFail, CloneLeave, CloneReturn,
         AllocWalk, AllocTableNull

(* What the boot loader leaves behind is an initial state of the store. *)
LEMMA InitIsInit == Init => Store!Init
<1> SUFFICES ASSUME Init PROVE Store!Init
  OBVIOUS
<1>1. TypeOK /\ ListUnheld /\ HeldOnce
  BY InitIInv DEF IInv, ListInv, NoDoubleUse
<1>2. Listed \subseteq Frame
  BY <1>1 DEF TypeOK, Listed
<1>3. ASSUME NEW s \in Space PROVE Owned[s] \subseteq Frame \ Listed
  <2> SUFFICES ASSUME NEW n \in Node, slot[s][n] \notin {NULL, INVALID}
               PROVE  slot[s][n] \in Frame \ Listed
    BY DEF Owned
  <2>1. slot[s][n] \in Frame
    BY <1>1 DEF TypeOK
  <2>2. slot[s][n] \notin Listed
    BY <1>1 DEF ListUnheld, Listed
  <2> QED BY <2>1, <2>2
<1>4. Owned \in [Space -> SUBSET (Frame \ Listed)]
  <2>1. Owned = [s \in Space |-> Owned[s]]
    BY DEF Owned
  <2> QED BY <1>3, <2>1
<1>5. ASSUME NEW a \in Space, NEW b \in Space, a # b PROVE Owned[a] \cap Owned[b] = {}
  <2> SUFFICES ASSUME NEW m \in Node, NEW n \in Node,
                      slot[a][m] = slot[b][n], slot[a][m] \notin {NULL, INVALID}
               PROVE  FALSE
    BY DEF Owned
  <2> QED BY <1>1, <1>5 DEF HeldOnce, TypeOK
<1> QED BY <1>2, <1>4, <1>5 DEF Store!Init

(* The frame manager and the translation trees of the 68040 implement the   *)
(* abstract store: whatever sequence of calls the kernel makes, and         *)
(* wherever memory runs out in them, no address space is ever given a frame *)
(* that another one has.                                                    *)
THEOREM StoreImplemented == Spec => ImplementsStore
<1>1. IInv /\ [Next]_vars => [Store!Next]_(Store!vars)
  BY StepIsStep
<1> QED BY <1>1, InitIsInit, Invariance, PTL DEF Spec, Store!Spec, ImplementsStore

-----------------------------------------------------------------------------
(* What is in memory *)


(* The fields of the call under way; it is about two processes. *)
CallShape ==
  /\ call = [st |-> call.st, image |-> call.image, buffer |-> call.buffer, sec |-> call.sec,
             turn |-> call.turn, src |-> call.src, dst |-> call.dst]
  /\ call.src \in User /\ call.dst \in User

(* A page that shows nothing of the lists and tables of the frame manager,  *)
(* and of what processes wrote only what those in H did.                    *)
Shows(w, H) ==
  \A c \in Cell : /\ w[c][1] \notin {"link", "descriptor"}
                  /\ w[c][1] = "user" => w[c][2] \in H

(* Every page of every process shows what its owner may see. *)
AllShown ==
  \A s \in User, n \in Node :
    IsPage(n) /\ slot[s][n] \in Frame => Shows(cells[slot[s][n]], heir[s])

(* The child of a clone may show what its parent may, from fork on. *)
ForkHeir == call.st = "clone" => heir[call.src] \subseteq heir[call.dst]

CloneHeir ==
  op.kind = "clone" => /\ op.src \in User /\ op.dst \in User
                       /\ heir[op.src] \subseteq heir[op.dst]

(* The thread that runs may be seen in the address space the register       *)
(* designates, and every thread in the process under which it is saved.     *)
ThreadsSeen ==
  /\ calls \in Nat /\ current \in User /\ saved = [s \in User |-> saved[s]]
  /\ thread \in heir[current]
  /\ \A s \in User : saved[s] \in heir[s]
  /\ \A s \in User : Designated(s) => thread \in heir[s]

(* What a clone has copied so far is equal to the original. *)
CloneSame ==
  op.kind = "clone" =>
    \A n \in Node : IsPage(n) /\ Resident(op.dst, n) =>
      Contents(slot[op.dst][n]) = Contents(slot[op.src][n])

(* Boot has begun no thread but the first. *)
BootThread == call.st = "boot" => current = First /\ thread = calls

(* The page the loader fills next is one alloc_at was called for. *)
FillsPage == call.st = "fill" => PageAsked \in Node

(* Every frame has contents, and every process a set of threads it may show. *)
Memory ==
  /\ cells = [f \in Frame |-> cells[f]] /\ \A f \in Frame : cells[f] = [c \in Cell |-> cells[f][c]]
  /\ heir \in [User -> SUBSET Nat]

ImageInv ==
  /\ IInv /\ KernelMapped
  /\ CallShape /\ Memory /\ FillsPage
  /\ AllShown /\ CloneHeir /\ CloneSame
  /\ ForkHeir /\ BootThread /\ ThreadsSeen

-----------------------------------------------------------------------------
(* Every step of a call is a step of the frame manager, or leaves it alone. *)

(* The steps that begin a call. *)
LEMMA EnterIsNext ==
  ASSUME EnterCall
  PROVE  [Next]_vars
<1>1. ASSUME NEW s \in User, NEW d \in User, Fork(s, d) PROVE Next
  BY <1>1 DEF Fork, Create, Next, Call
<1>2. ASSUME NEW s \in User, NEW d \in User, Exit(s, d) PROVE Next
  BY <1>2 DEF Exit, Next, Call
<1>3. ASSUME NEW s \in User, Execve(s) PROVE Next
  BY <1>3 DEF Execve, Next, Call
<1>4. ASSUME NEW s \in User, Switch(s) PROVE Next
  BY <1>4 DEF Switch, SwitchTo, Next, Call
<1>5. ASSUME NEW g \in Node, GrowHeap(g) PROVE Next
  BY <1>5 DEF GrowHeap, Next, Call, Space
<1>6. ASSUME NEW s \in User, NEW n \in Node, Write(s, n) PROVE UNCHANGED vars
  BY <1>6 DEF Write
<1>7. CASE WriteNowhere
  BY <1>7 DEF WriteNowhere, Next, Call
<1> QED BY <1>1, <1>2, <1>3, <1>4, <1>5, <1>6, <1>7 DEF EnterCall

(* The steps of the frame manager inside a call. *)
LEMMA MmuIsNext ==
  ASSUME MmuStep
  PROVE  Next
<1>1. CASE ClearReturn \/ CloneLeave \/ CloneReturn \/ ClearLeave \/ FreeReturn \/ AllocPage
  BY <1>1 DEF Next, Step
<1>2. ASSUME NEW n \in Node,
             \/ ClearEnter(n) \/ AllocWalk(n) \/ AllocTableNull(n) \/ ClearPage(n)
             \/ CloneTable(n) \/ AllocTable(n) \/ ClonePage(n) \/ CloneFail(n)
      PROVE  Next
  BY <1>2 DEF Next, Step
<1> QED BY <1>1, <1>2 DEF MmuStep

(* All steps. *)
LEMMA ImageIsNext ==
  ASSUME CallShape, [ImageNext]_ivars
  PROVE  [Next]_vars
<1>1. CASE EnterCall
  BY <1>1, EnterIsNext
<1>2. CASE MmuStep
  BY <1>2, MmuIsNext
<1>3. CASE BootFirst
  BY <1>3, ImageAssumption DEF BootFirst, Create, Next, Call, ImageAssumption
<1>4. CASE ForkClone
  BY <1>4 DEF ForkClone, Next, Call, CallShape
<1>5. CASE ForkReturn \/ LoadHeader \/ LoadSection \/ LoadDone
  BY <1>5 DEF ForkReturn, LoadHeader, LoadSection, LoadDone
<1>6. CASE ExitFree
  BY <1>6 DEF ExitFree, Next, Call, CallShape
<1>7. CASE LoadNowhere
  BY <1>7 DEF LoadNowhere, Next, Call
<1>8. ASSUME NEW s \in User, NEW g \in Node, LoadPage(s, g) PROVE Next
  BY <1>8 DEF LoadPage, Next, Call, Space
<1>9. ASSUME NEW s \in User, LoadFill(s) PROVE UNCHANGED vars
  BY <1>9 DEF LoadFill
<1>10. CASE Rest \/ UNCHANGED ivars
  BY <1>10 DEF Rest, ivars
<1>11. ASSUME NEW s \in User, ForcedSwitch(s) PROVE Next
  BY <1>11 DEF ForcedSwitch, SwitchTo, Next, Call
<1> QED
  BY <1>1, <1>2, <1>3, <1>4, <1>5, <1>6, <1>7, <1>8, <1>9, <1>10, <1>11 DEF ImageNext, Continue

-----------------------------------------------------------------------------
(* The call under way. *)

(* The shape of the call is kept. *)
LEMMA ShapeKeeps ==
  ASSUME CallShape, [ImageNext]_ivars
  PROVE  CallShape'
<1> First \in User
  BY ImageAssumption DEF ImageAssumption
<1>1. ASSUME call' = NoCall \/ LoadReturns PROVE CallShape'
  BY <1>1 DEF CallShape, NoCall, LoadReturns
<1>2. ASSUME Load PROVE CallShape'
  BY <1>2 DEF CallShape, NoCall, Load
<1>3. ASSUME NEW st, NEW k, \/ call' = [call EXCEPT !.st = st, !.buffer = k]
                            \/ call' = [call EXCEPT !.st = st, !.turn = k]
                            \/ call' = [call EXCEPT !.sec = k, !.turn = 1]
      PROVE  CallShape'
  BY <1>3 DEF CallShape
<1>4. ASSUME NEW st, call' = [call EXCEPT !.st = st] PROVE CallShape'
  BY <1>4 DEF CallShape
<1>5. CASE UNCHANGED call
  BY <1>5 DEF CallShape
<1>6. ASSUME NEW s \in User, NEW d \in User,
             \/ call' = [NoCall EXCEPT !.st = "clone", !.src = s, !.dst = d]
             \/ call' = [NoCall EXCEPT !.st = "exit", !.src = s]
      PROVE  CallShape'
  BY <1>6 DEF CallShape, NoCall
<1>7. ASSUME call' = AfterFailedClone PROVE CallShape'
  BY <1>7 DEF CallShape, AfterFailedClone
<1>8. CASE EnterCall
  BY <1>2, <1>5, <1>6, <1>8
     DEF EnterCall, Fork, Exit, Execve, Switch, GrowHeap, Write, WriteNowhere
<1>9. CASE MmuStep
  BY <1>5, <1>7, <1>9 DEF MmuStep
<1>10. CASE BootFirst
  BY <1>2, <1>10 DEF BootFirst
<1>11. CASE ForkReturn \/ LoadDone \/ ExitFree
  BY <1>1, <1>11 DEF ForkReturn, LoadDone, ExitFree
<1>12. CASE ForkClone
  BY <1>4, <1>12 DEF ForkClone
<1>13. CASE LoadHeader \/ LoadSection
  BY <1>1, <1>3, <1>13 DEF LoadHeader, LoadSection
<1>14. ASSUME NEW s \in User, NEW g \in Node, LoadPage(s, g) PROVE CallShape'
  BY <1>4, <1>14 DEF LoadPage
<1>15. ASSUME NEW s \in User, LoadFill(s) \/ ForcedSwitch(s) PROVE CallShape'
  BY <1>1, <1>3, <1>4, <1>15 DEF LoadFill, ForcedSwitch
<1>16. CASE LoadNowhere \/ Rest \/ UNCHANGED ivars
  BY <1>5, <1>16 DEF LoadNowhere, Rest, ivars
<1> QED
  BY <1>8, <1>9, <1>10, <1>11, <1>12, <1>13, <1>14, <1>15, <1>16 DEF ImageNext, Continue

(* The calls of boot, execve, fork and exit drive the frame manager only    *)
(* through its operations: whatever is shown of Mmu040 holds under them.    *)
THEOREM CallsUseTheFrameManager == ImageSpec => Spec
<1>1. ImageInit => Init /\ CallShape
  BY ImageAssumption DEF ImageInit, CallShape, NoCall, ImageAssumption
<1>2. CallShape /\ [ImageNext]_ivars => CallShape' /\ [Next]_vars
  BY ImageIsNext, ShapeKeeps
<1> QED BY <1>1, <1>2, PTL DEF ImageSpec, Spec

-----------------------------------------------------------------------------
(* Pages. *)

(* What the kernel itself puts into a page shows nothing. *)
LEMMA CleanPages ==
  ASSUME NEW H
  PROVE  Shows(Zero, H) /\ Shows(Rom, H)
<1>1. Shows(Zero, H)
  BY DEF Shows, Zero
<1>2. Shows(Rom, H)
  BY DEF Shows, Rom
<1> QED BY <1>1, <1>2

(* Filling in part of a file hides what was there and shows nothing new. *)
LEMMA WrittenShows ==
  ASSUME NEW H, NEW t, NEW m, NEW old, Shows(old, H)
  PROVE  Shows(Written(t, m, old), H)
<1> SUFFICES ASSUME NEW c \in Cell
             PROVE  /\ Written(t, m, old)[c][1] \notin {"link", "descriptor"}
                    /\ Written(t, m, old)[c][1] = "user" => Written(t, m, old)[c][2] \in H
  BY DEF Shows
<1>1. CASE c \in t.offset .. t.offset + t.length - 1
  <2>1. Written(t, m, old)[c] = FileByte(m, t.data + c - t.offset)
    BY <1>1 DEF Written
  <2>2. FileByte(m, t.data + c - t.offset)[1] \in {"file", "heap"}
    BY DEF FileByte
  <2> QED BY <2>1, <2>2
<1>2. CASE c \notin t.offset .. t.offset + t.length - 1
  <2>1. Written(t, m, old)[c] = old[c]
    BY <1>2 DEF Written
  <2> QED BY <2>1 DEF Shows
<1> QED BY <1>1, <1>2

(* One frame is overwritten. *)
LEMMA FilledAt ==
  ASSUME Memory, NEW f, f # NULL, NEW w, cells' = Filled(f, w)
  PROVE  /\ cells' = [g \in Frame |-> cells'[g]]
         /\ \A g \in Frame : cells'[g] = IF g = f THEN w ELSE cells[g]
BY DEF Memory, Filled

(* One frame gets the link word of the free list. *)
LEMMA LinkedAt ==
  ASSUME Memory, NEW f, cells' = Linked(f)
  PROVE  /\ cells' = [g \in Frame |-> cells'[g]]
         /\ \A g \in Frame : g # f => cells'[g] = cells[g]
         /\ \A g \in Frame : cells'[g] = [c \in Cell |-> cells'[g][c]]
<1>1. CASE f = NULL
  BY <1>1 DEF Linked, Memory
<1>2. CASE f # NULL
  <2>1. cells' = [cells EXCEPT ![f] = [cells[f] EXCEPT ![0] = <<"link">>]]
    BY <1>2 DEF Linked
  <2>2. cells' = [g \in Frame |-> cells'[g]] /\ \A g \in Frame : g # f => cells'[g] = cells[g]
    BY <2>1 DEF Memory
  <2>3. ASSUME f \in Frame PROVE cells'[f] = [c \in Cell |-> cells'[f][c]]
    <3>1. cells[f] = [c \in Cell |-> cells[f][c]]
      BY <2>3 DEF Memory
    <3>2. cells'[f] = [cells[f] EXCEPT ![0] = <<"link">>]
      BY <2>1, <2>3 DEF Memory
    <3> QED BY <3>1, <3>2
  <2> QED BY <2>2, <2>3 DEF Memory
<1> QED BY <1>1, <1>2

(* One descriptor is changed. *)
LEMMA SetAt ==
  ASSUME TypeOK, NEW s \in Space, NEW n \in Node, NEW v, SetSlot(s, n, v)
  PROVE  \A t \in Space, m \in Node :
           slot'[t][m] = IF t = s /\ m = n THEN v ELSE slot[t][m]
BY DEF SetSlot, TypeOK

(* A frame that is in no other place is filled and put into a tree: no      *)
(* other page changes.                                                      *)
LEMMA TakeShown ==
  ASSUME TypeOK, Memory, AllShown, HeldOnce',
         NEW s \in Space, NEW n \in Node, NEW f \in Frame, SetSlot(s, n, f),
         NEW w, w = [c \in Cell |-> w[c]], cells' = Filled(f, w), UNCHANGED heir,
         s \in User /\ IsPage(n) => Shows(w, heir[s])
  PROVE  /\ Memory' /\ AllShown'
         /\ cells'[f] = w
         /\ \A t \in Space, m \in Node : <<t, m>> # <<s, n>> =>
              /\ slot'[t][m] = slot[t][m]
              /\ Resident(t, m) => Contents(slot[t][m])' = Contents(slot[t][m])
<1>0. f # NULL
  BY DEF Frame, NULL
<1>1. \A g \in Frame : cells'[g] = IF g = f THEN w ELSE cells[g]
  BY <1>0, FilledAt
<1>2. \A t \in Space, m \in Node : slot'[t][m] = IF t = s /\ m = n THEN f ELSE slot[t][m]
  BY SetAt
<1>3. Memory'
  <2>1. cells' = [g \in Frame |-> cells'[g]]
    BY <1>0, FilledAt
  <2> QED BY <1>1, <2>1 DEF Memory
<1>4. ASSUME NEW t \in Space, NEW m \in Node, <<t, m>> # <<s, n>>
      PROVE  slot'[t][m] = slot[t][m] /\ slot[t][m] # f
  BY <1>2, <1>4 DEF HeldOnce
<1>5. ASSUME NEW t \in Space, NEW m \in Node, <<t, m>> # <<s, n>>
      PROVE  /\ slot'[t][m] = slot[t][m]
             /\ Resident(t, m) => Contents(slot[t][m])' = Contents(slot[t][m])
  <2>1. slot[t][m] \in Frame \cup {NULL, INVALID}
    BY DEF TypeOK
  <2> QED BY <1>1, <1>4, <1>5, <2>1 DEF Contents, Resident
<1>6. AllShown'
  <2> SUFFICES ASSUME NEW t \in User, NEW m \in Node, IsPage(m), slot'[t][m] \in Frame
               PROVE  Shows(cells'[slot'[t][m]], heir[t])
    BY DEF AllShown, Shows, IsPage
  <2>1. t \in Space
    BY DEF Space
  <2>2. CASE <<t, m>> = <<s, n>>
    BY <1>1, <1>2, <2>1, <2>2
  <2>3. CASE <<t, m>> # <<s, n>>
    BY <1>1, <1>4, <2>1, <2>3 DEF AllShown
  <2> QED BY <2>2, <2>3
<1> QED BY <1>1, <1>3, <1>5, <1>6

(* A frame taken out of a tree gets a link word nobody sees. *)
LEMMA GiveShown ==
  ASSUME TypeOK, Memory, AllShown, HeldOnce,
         NEW s \in Space, NEW n \in Node, NEW v \in {INVALID, NULL}, SetSlot(s, n, v),
         cells' = Linked(slot[s][n]) \/ UNCHANGED cells, UNCHANGED heir
  PROVE  Memory' /\ AllShown'
<1>1. \A g \in Frame : g # slot[s][n] => cells'[g] = cells[g]
  BY LinkedAt
<1>2. \A t \in Space, m \in Node : slot'[t][m] = IF t = s /\ m = n THEN v ELSE slot[t][m]
  BY SetAt
<1>3. Memory'
  <2>1. CASE UNCHANGED cells
    BY <2>1 DEF Memory
  <2>2. CASE cells' = Linked(slot[s][n])
    BY <2>2, LinkedAt DEF Memory
  <2> QED BY <2>1, <2>2
<1>4. AllShown'
  <2> SUFFICES ASSUME NEW t \in User, NEW m \in Node, IsPage(m), slot'[t][m] \in Frame
               PROVE  Shows(cells'[slot'[t][m]], heir[t])
    BY DEF AllShown, Shows, IsPage
  <2>1. t \in Space /\ v \notin Frame
    BY DEF Space, Frame, NULL, INVALID
  <2>2. <<t, m>> # <<s, n>> /\ slot'[t][m] = slot[t][m]
    BY <1>2, <2>1
  <2>3. slot[t][m] # slot[s][n]
    BY <2>1, <2>2 DEF HeldOnce
  <2> QED BY <1>1, <2>2, <2>3 DEF AllShown
<1> QED BY <1>3, <1>4

(* Nothing moves. *)
LEMMA StayShown ==
  ASSUME Memory, AllShown, UNCHANGED <<slot, cells, heir>>
  PROVE  Memory' /\ AllShown'
BY DEF Memory, AllShown, Shows, IsPage

(* Nothing moves, and processes may show more. *)
LEMMA GrowShown ==
  ASSUME Memory, AllShown, UNCHANGED <<slot, cells>>, heir' \in [User -> SUBSET Nat],
         \A s \in User : heir[s] \subseteq heir'[s]
  PROVE  Memory' /\ AllShown'
<1>1. Memory'
  BY DEF Memory
<1>2. AllShown'
  <2> SUFFICES ASSUME NEW t \in User, NEW m \in Node, IsPage(m), slot[t][m] \in Frame
               PROVE  Shows(cells[slot[t][m]], heir'[t])
    BY DEF AllShown, Shows, IsPage
  <2> QED BY DEF AllShown, Shows
<1> QED BY <1>1, <1>2

(* A process that has no root table has no page. *)
LEMMA NoRootNoPage ==
  ASSUME IInv, NEW s \in Space, ~Resident(s, 0)
  PROVE  \A n \in Node : ~Resident(s, n)
<1> SUFFICES ASSUME NEW n \in Node, Resident(s, n) PROVE FALSE
  OBVIOUS
<1> DEFINE p == Parent[n]
           q == Parent[Parent[n]]
<1>1. \A m \in Node : Resident(s, m) => Parent[m] \in Node /\ Resident(s, Parent[m])
  BY TreeShape DEF IInv, TreeClosed
<1>2. /\ p \in Node /\ q \in Node /\ Parent[q] \in Node
      /\ Resident(s, p) /\ Resident(s, q) /\ Resident(s, Parent[q])
  BY <1>1
<1>3. Parent[q] = 0
  <2>1. CASE Level[n] <= 2
    BY <2>1, AboveShape
  <2>2. CASE Level[n] = 3
    <3>1. Level[p] = 2
      BY <2>2, TreeShape
    <3>2. Level[q] = 1
      BY <3>1, <1>2, TreeShape
    <3>3. Level[Parent[q]] = 0
      BY <3>2, <1>2, TreeShape
    <3> QED BY <1>2, <3>3, TreeShape
  <2> QED BY <2>1, <2>2, TreeShape
<1> QED BY <1>2, <1>3

-----------------------------------------------------------------------------
(* The steps of the frame manager. *)

(* A step of a clear, a free or an alloc_at. *)
LEMMA SweepShown ==
  ASSUME ImageInv, UNCHANGED heir,
         \/ ClearLeave /\ cells' = Linked(slot[op.src][op.tab])
         \/ FreeReturn /\ cells' = Linked(slot[op.src][0])
         \/ \E n \in Node : ClearPage(n) /\ cells' = Linked(slot[op.src][n])
  PROVE  Memory' /\ AllShown'
<1>1. TypeOK /\ Memory /\ AllShown /\ HeldOnce /\ op.src \in Space /\ op.tab \in Node /\ 0 \in Node
  BY TreeShape DEF ImageInv, IInv, ListInv, NoDoubleUse, TypeOK
<1>2. CASE ClearLeave /\ cells' = Linked(slot[op.src][op.tab])
  BY <1>1, <1>2, GiveShown DEF ClearLeave
<1>3. CASE FreeReturn /\ cells' = Linked(slot[op.src][0])
  BY <1>1, <1>3, GiveShown DEF FreeReturn
<1>4. ASSUME NEW n \in Node, ClearPage(n), cells' = Linked(slot[op.src][n])
      PROVE  Memory' /\ AllShown'
  BY <1>1, <1>4, GiveShown DEF ClearPage
<1> QED BY <1>2, <1>3, <1>4

(* alloc_at gives a page that reads zero. *)
LEMMA AllocPageShown ==
  ASSUME ImageInv, HeldOnce', UNCHANGED heir, AllocPage, cells' = NewPage
  PROVE  /\ Memory' /\ AllShown'
         /\ ~AllocFails => /\ slot'[op.src][op.goal] \in Frame
                           /\ cells'[slot'[op.src][op.goal]] = Zero
         /\ \A t \in Space, m \in Node : <<t, m>> # <<op.src, op.goal>> =>
              /\ slot'[t][m] = slot[t][m]
              /\ Resident(t, m) => Contents(slot[t][m])' = Contents(slot[t][m])
<1>1. TypeOK /\ Memory /\ AllShown /\ HeldOnce /\ op.src \in Space /\ op.goal \in Node
  BY DEF ImageInv, IInv, ListInv, NoDoubleUse, TypeOK
<1>2. CASE AllocFails
  <2>1. SetSlot(op.src, op.goal, NULL)
    BY <1>2 DEF AllocPage
  <2>2. cells' = Linked(slot[op.src][op.goal]) \/ UNCHANGED cells
    BY <1>2 DEF NewPage
  <2>3. Memory' /\ AllShown'
    BY <1>1, <2>1, <2>2, GiveShown
  <2>4. ASSUME NEW t \in Space, NEW m \in Node, <<t, m>> # <<op.src, op.goal>>
        PROVE  /\ slot'[t][m] = slot[t][m]
               /\ Resident(t, m) => Contents(slot[t][m])' = Contents(slot[t][m])
    <3>1. slot'[t][m] = slot[t][m]
      BY <1>1, <2>1, <2>4, SetAt
    <3>2. \A g \in Frame : g # slot[op.src][op.goal] => cells'[g] = cells[g]
      BY <1>1, <2>2, LinkedAt
    <3>3. ASSUME slot[t][m] \in Frame PROVE slot[t][m] # slot[op.src][op.goal]
      BY <1>1, <2>4, <3>3 DEF HeldOnce
    <3>4. slot[t][m] \in Frame \cup {NULL, INVALID}
      BY <1>1 DEF TypeOK
    <3> QED BY <3>1, <3>2, <3>3, <3>4 DEF Contents, Resident
  <2> QED BY <1>2, <2>3, <2>4
<1>3. CASE ~AllocFails
  <2> DEFINE f == Head(ListForPage)
  <2>1. SetSlot(op.src, op.goal, f) /\ cells' = Filled(f, Zero)
    BY <1>3 DEF AllocPage, NewPage, Fresh
  <2>2. f \in Frame
    <3>1. free_frame \in Seq(Frame) /\ AllocFrame \in Frame /\ free_frame # <<>>
      BY <1>1, <1>3, ListNotEmpty DEF ImageInv, IInv, ListInv
    <3>2. CASE ~Resident(op.src, op.goal)
      BY <3>1, <3>2 DEF ListForPage, AllocFrame
    <3>3. CASE Resident(op.src, op.goal)
      <4>1. slot[op.src][op.goal] \in Frame
        BY <1>1, <1>3, <3>3
           DEF ImageInv, IInv, TypeOK, Resident, ListInv, NullMeansExhausted, AllocFails
      <4>2. ListForPage = <<slot[op.src][op.goal]>> \o free_frame
        BY <3>3, <4>1 DEF ListForPage, Pushed, NULL, Frame
      <4> QED BY <3>1, <4>1, <4>2, PushShape
    <3> QED BY <3>2, <3>3
  <2>3. Zero = [c \in Cell |-> Zero[c]] /\ Shows(Zero, heir[op.src])
    BY CleanPages DEF Zero
  <2>4. slot'[op.src][op.goal] = f
    BY <1>1, <2>1, SetAt
  <2> HIDE DEF f
  <2> QED BY <1>1, <1>3, <2>1, <2>2, <2>3, <2>4, TakeShown
<1> QED BY <1>2, <1>3

(* A frame that becomes a table is below no page's descriptor. *)
LEMMA TableShown ==
  ASSUME ImageInv, HeldOnce', UNCHANGED heir, NEW s \in Space, NEW n \in Node, ~IsPage(n),
         TakeFrame, SetSlot(s, n, AllocFrame), cells' = Filled(AllocFrame, Table)
  PROVE  /\ Memory' /\ AllShown'
         /\ \A t \in Space, m \in Node : <<t, m>> # <<s, n>> =>
              /\ slot'[t][m] = slot[t][m]
              /\ Resident(t, m) => Contents(slot[t][m])' = Contents(slot[t][m])
<1>1. TypeOK /\ Memory /\ AllShown
  BY DEF ImageInv, IInv
<1>2. AllocFrame \in Frame
  BY ListNotEmpty DEF ImageInv, IInv, ListInv, TakeFrame
<1>3. Table = [c \in Cell |-> Table[c]]
  BY DEF Table
<1> QED BY <1>1, <1>2, <1>3, TakeShown

(* The tables alloc_at builds on its way down. *)
LEMMA AllocTableShown ==
  ASSUME ImageInv, HeldOnce', UNCHANGED heir, NEW n \in Node, AllocTable(n),
         cells' = Filled(AllocFrame, Table)
  PROVE  /\ Memory' /\ AllShown'
         /\ \A t \in Space, m \in Node : <<t, m>> # <<op.src, n>> =>
              /\ slot'[t][m] = slot[t][m]
              /\ Resident(t, m) => Contents(slot[t][m])' = Contents(slot[t][m])
<1>1. op.kind = "alloc" /\ op.src \in Space /\ op.goal \in Node /\ IsPage(op.goal)
  BY DEF ImageInv, IInv, TypeOK, OpInv, AllocTable, Running
<1>2. Parent[op.goal] \in Node /\ Level[Parent[op.goal]] = 2
  BY <1>1, TreeShape DEF IsPage
<1>3. n \in Above(Parent[op.goal])
  BY DEF AllocTable, OnTheWay
<1>4. n = Parent[op.goal] \/ Level[n] < 2
  BY <1>2, <1>3, AboveShape
<1>5. ~IsPage(n)
  BY <1>2, <1>4, TreeShape DEF IsPage
<1>6. TakeFrame /\ SetSlot(op.src, n, AllocFrame)
  BY DEF AllocTable
<1> QED BY <1>1, <1>5, <1>6, TableShown

(* The steps of a clone keep the copy faithful and what it shows inherited. *)
LEMMA CloneShown ==
  ASSUME ImageInv, IInv', UNCHANGED heir, NEW n \in Node,
         \/ CloneTable(n) /\ cells' = Filled(AllocFrame, Table)
         \/ ClonePage(n) /\ cells' = Copied(n)
  PROVE  Memory' /\ AllShown' /\ CloneHeir' /\ CloneSame'
<1>1. /\ op.kind = "clone" /\ op.src # op.dst /\ op.src \in User /\ op.dst \in User
      /\ op.src \in Space /\ op.dst \in Space /\ heir[op.src] \subseteq heir[op.dst]
      /\ TypeOK /\ Memory /\ AllShown /\ HeldOnce'
  BY DEF ImageInv, IInv, OpInv, CloneHeir, CloneTable, ClonePage, Running, Space, ListInv, NoDoubleUse
<1>2. /\ AllocFrame \in Frame /\ TakeFrame /\ SetSlot(op.dst, n, AllocFrame)
      /\ NextToClone(n) /\ Resident(op.src, n)
  BY ListNotEmpty
     DEF ImageInv, IInv, ListInv, TakeFrame, CloneTable, ClonePage, NextToClone, ToClone
<1>3. op'.kind = op.kind /\ op'.src = op.src /\ op'.dst = op.dst
  BY <1>1 DEF CloneTable, ClonePage, EnterLoop, ImageInv, IInv, TypeOK
<1>4. CloneHeir'
  BY <1>1, <1>3 DEF CloneHeir
<1>5. \A m \in Node : Resident(op.dst, m) => Resident(op.src, m)
  BY <1>1 DEF ImageInv, IInv, CloneInv
<1>6. ASSUME /\ \A t \in Space, m \in Node : <<t, m>> # <<op.dst, n>> =>
                  /\ slot'[t][m] = slot[t][m]
                  /\ Resident(t, m) => Contents(slot[t][m])' = Contents(slot[t][m]),
             IsPage(n) => Contents(slot[op.dst][n])' = Contents(slot[op.src][n])
      PROVE  CloneSame'
  <2> SUFFICES ASSUME NEW m \in Node, IsPage(m), slot'[op.dst][m] # INVALID
               PROVE  Contents(slot[op.dst][m])' = Contents(slot[op.src][m])'
    BY <1>3 DEF CloneSame, IsPage, Resident
  <2>1. CASE m = n
    <3>1. Contents(slot[op.src][n])' = Contents(slot[op.src][n])
      BY <1>1, <1>2, <1>3, <1>6
    <3> QED BY <1>3, <1>6, <2>1, <3>1
  <2>2. CASE m # n
    <3>1. Resident(op.dst, m) /\ Resident(op.src, m)
      BY <1>1, <1>5, <1>6, <2>2 DEF Resident
    <3>2. /\ Contents(slot[op.src][m])' = Contents(slot[op.src][m])
          /\ Contents(slot[op.dst][m])' = Contents(slot[op.dst][m])
      BY <1>1, <1>3, <1>6, <2>2, <3>1
    <3>3. Contents(slot[op.dst][m]) = Contents(slot[op.src][m])
      BY <1>1, <3>1 DEF ImageInv, CloneSame
    <3> QED BY <3>2, <3>3
  <2> QED BY <2>1, <2>2
<1>7. CASE CloneTable(n) /\ cells' = Filled(AllocFrame, Table)
  <2>1. ~IsPage(n)
    BY <1>7 DEF CloneTable
  <2> QED BY <1>1, <1>2, <1>4, <1>6, <1>7, <2>1, TableShown
<1>8. CASE ClonePage(n) /\ cells' = Copied(n)
  <2> DEFINE w == Contents(slot[op.src][n])
  <2>1. slot[op.src][n] \in Frame \cup {NULL} /\ IsPage(n)
    BY <1>1, <1>2, <1>8 DEF TypeOK, Resident, ClonePage
  <2>2. w = [c \in Cell |-> w[c]]
    BY <1>1, <2>1 DEF Contents, Memory, Rom
  <2>3. Shows(w, heir[op.dst])
    <3>1. Shows(w, heir[op.src])
      BY <1>1, <2>1, CleanPages DEF Contents, AllShown
    <3> HIDE DEF w
    <3> QED BY <1>1, <3>1 DEF Shows
  <2>4. cells' = Filled(AllocFrame, w)
    BY <1>8 DEF Copied
  <2>5. slot'[op.dst][n] = AllocFrame /\ AllocFrame # NULL
    BY <1>1, <1>2, SetAt DEF Frame, NULL
  <2>6. cells'[AllocFrame] = w => Contents(slot[op.dst][n])' = w
    BY <1>3, <2>5 DEF Contents
  <2> HIDE DEF w
  <2>7. /\ Memory' /\ AllShown' /\ cells'[AllocFrame] = w
        /\ \A t \in Space, m \in Node : <<t, m>> # <<op.dst, n>> =>
              /\ slot'[t][m] = slot[t][m]
              /\ Resident(t, m) => Contents(slot[t][m])' = Contents(slot[t][m])
    BY <1>1, <1>2, <2>2, <2>3, <2>4, TakeShown
  <2> QED BY <1>4, <1>6, <2>6, <2>7 DEF w
<1> QED BY <1>7, <1>8

(* An operation that is not, or no longer, a clone. *)
LEMMA NotCloning ==
  ASSUME op'.kind # "clone"
  PROVE  CloneHeir' /\ CloneSame'
BY DEF CloneHeir, CloneSame

(* Every step of the frame manager. *)
LEMMA MmuShown ==
  ASSUME ImageInv, IInv', MmuStep
  PROVE  Memory' /\ AllShown' /\ CloneHeir' /\ CloneSame'
<1>1. /\ Memory /\ AllShown /\ HeldOnce' /\ UNCHANGED heir
      /\ op = [kind |-> op.kind, src |-> op.src, dst |-> op.dst, tab |-> op.tab, goal |-> op.goal]
  BY DEF ImageInv, IInv, ListInv, NoDoubleUse, MmuStep, TypeOK, who
<1>2. CASE ClearReturn /\ UNCHANGED cells
  <2>1. UNCHANGED slot /\ op'.kind = "idle"
    BY <1>2 DEF ClearReturn, Return, Idle
  <2> QED BY <1>1, <1>2, <2>1, StayShown, NotCloning
<1>3. CASE CloneReturn /\ UNCHANGED cells
  <2>1. UNCHANGED slot /\ op'.kind = "idle"
    BY <1>3 DEF CloneReturn, Return, Idle
  <2> QED BY <1>1, <1>3, <2>1, StayShown, NotCloning
<1>4. CASE CloneLeave /\ UNCHANGED cells
  <2>1. /\ UNCHANGED slot
        /\ op'.kind = op.kind /\ op'.src = op.src /\ op'.dst = op.dst
    BY <1>1, <1>4 DEF CloneLeave, LeaveLoop
  <2>2. Memory' /\ AllShown'
    BY <1>1, <1>4, <2>1, StayShown
  <2>3. CloneHeir' /\ CloneSame'
    BY <1>1, <1>4, <2>1 DEF ImageInv, CloneHeir, CloneSame, Contents, IsPage, Resident
  <2> QED BY <2>2, <2>3
<1>5. CASE \/ ClearLeave /\ cells' = Linked(slot[op.src][op.tab])
           \/ FreeReturn /\ cells' = Linked(slot[op.src][0])
           \/ \E n \in Node : ClearPage(n) /\ cells' = Linked(slot[op.src][n])
  <2>1. op'.kind # "clone"
    BY <1>1, <1>5
       DEF ClearLeave, FreeReturn, ClearPage, LeaveLoop, Return, Idle, Sweeping, Running
  <2> QED BY <1>1, <1>5, <2>1, SweepShown, NotCloning
<1>6. CASE AllocPage /\ cells' = NewPage
  <2>1. op'.kind = "idle"
    BY <1>6 DEF AllocPage, Return, Idle
  <2> QED BY <1>1, <1>6, <2>1, AllocPageShown, NotCloning
<1>7. ASSUME NEW n \in Node, ClearEnter(n) \/ AllocWalk(n) \/ AllocTableNull(n) \/ CloneFail(n),
             UNCHANGED cells
      PROVE  Memory' /\ AllShown' /\ CloneHeir' /\ CloneSame'
  <2>1. UNCHANGED slot
    BY <1>7 DEF ClearEnter, AllocWalk, AllocTableNull, CloneFail, GoWild
  <2>2. op'.kind # "clone"
    BY <1>1, <1>7
       DEF ClearEnter, AllocWalk, AllocTableNull, CloneFail, GoWild, EnterLoop, Return, Idle,
           Sweeping, Running
  <2> QED BY <1>1, <1>7, <2>1, <2>2, StayShown, NotCloning
<1>8. ASSUME NEW n \in Node, AllocTable(n), cells' = Filled(AllocFrame, Table)
      PROVE  Memory' /\ AllShown' /\ CloneHeir' /\ CloneSame'
  <2>1. op'.kind # "clone"
    BY <1>1, <1>8 DEF AllocTable, EnterLoop, Running
  <2> QED BY <1>1, <1>8, <2>1, AllocTableShown, NotCloning
<1>9. ASSUME NEW n \in Node, \/ CloneTable(n) /\ cells' = Filled(AllocFrame, Table)
                             \/ ClonePage(n) /\ cells' = Copied(n)
      PROVE  Memory' /\ AllShown' /\ CloneHeir' /\ CloneSame'
  BY <1>1, <1>9, CloneShown
<1> QED BY <1>2, <1>3, <1>4, <1>5, <1>6, <1>7, <1>8, <1>9 DEF MmuStep

-----------------------------------------------------------------------------
(* The steps of the calls. *)

(* A new process has no page. *)
LEMMA CreateShown ==
  ASSUME ImageInv, IInv', NEW s \in User, NEW H \in SUBSET Nat, Create(s, H), calls' \in Nat
  PROVE  Memory' /\ AllShown' /\ CloneHeir' /\ CloneSame'
<1>1. /\ TypeOK /\ Memory /\ AllShown /\ s \in Space /\ 0 \in Node /\ ~IsPage(0)
      /\ heir \in [User -> SUBSET Nat]
  <2>1. 0 \in Node /\ ~IsPage(0)
    BY TreeAssumption DEF TreeAssumption, Node, IsPage
  <2> QED BY <2>1 DEF ImageInv, IInv, Memory, Space
<1>2. ~Resident(s, 0) /\ op.kind = "idle" /\ UNCHANGED op
  BY DEF Create, InitUserspace, Ready
<1>3. \A n \in Node : ~Resident(s, n)
  BY <1>1, <1>2, NoRootNoPage DEF ImageInv
<1>4. PICK v \in {AllocFrame, NULL} : SetSlot(s, 0, v)
  <2>1. SetSlot(s, 0, AllocFrame) \/ SetSlot(s, 0, NULL)
    BY DEF Create, InitUserspace
  <2> QED BY <2>1
<1>5. \A t \in Space, m \in Node : slot'[t][m] = IF t = s /\ m = 0 THEN v ELSE slot[t][m]
  BY <1>1, <1>4, SetAt
<1>6. /\ cells' = [g \in Frame |-> cells'[g]]
      /\ \A g \in Frame : cells'[g] = [c \in Cell |-> cells'[g][c]]
      /\ \A g \in Frame : (\E t \in Space, n \in Node : slot[t][n] = g) => cells'[g] = cells[g]
  <2>1. CASE AllocFails
    BY <1>1, <2>1 DEF Create, Memory
  <2>2. CASE ~AllocFails
    <3>1. AllocFrame \in Frame /\ AllocFrame # NULL /\ cells' = Filled(AllocFrame, Table)
          /\ free_frame # <<>> /\ free_frame \in Seq(Frame) /\ AllocFrame = free_frame[1]
      BY <2>2, ListNotEmpty DEF ImageInv, IInv, ListInv, Create, Frame, NULL
    <3>2. /\ cells' = [g \in Frame |-> cells'[g]]
          /\ \A g \in Frame : cells'[g] = IF g = AllocFrame THEN Table ELSE cells[g]
      BY <1>1, <3>1, FilledAt
    <3>3. 1 \in 1 .. Len(free_frame)
      BY <3>1
    <3>4. \A t \in Space, n \in Node : slot[t][n] # AllocFrame
      BY <3>1, <3>3 DEF ImageInv, IInv, ListInv, NoDoubleUse, ListUnheld
    <3> QED BY <1>1, <3>2, <3>4 DEF Memory, Table
  <2> QED BY <2>1, <2>2
<1>7. heir' = [heir EXCEPT ![s] = H \cup {calls'}]
  BY DEF Create
<1>8. Memory'
  <2>1. heir' \in [User -> SUBSET Nat]
    BY <1>1, <1>7
  <2> QED BY <1>6, <2>1 DEF Memory
<1>9. AllShown'
  <2> SUFFICES ASSUME NEW t \in User, NEW m \in Node, IsPage(m), slot'[t][m] \in Frame
               PROVE  Shows(cells'[slot'[t][m]], heir'[t])
    BY DEF AllShown, Shows, IsPage
  <2>1. t \in Space /\ m # 0 /\ slot'[t][m] = slot[t][m]
    BY <1>1, <1>5 DEF Space
  <2>2. t # s
    BY <1>3, <2>1 DEF Resident, Frame, INVALID
  <2>3. heir'[t] = heir[t] /\ cells'[slot[t][m]] = cells[slot[t][m]]
    BY <1>1, <1>6, <1>7, <2>1, <2>2
  <2> QED BY <1>1, <2>1, <2>3 DEF AllShown
<1> QED BY <1>2, <1>8, <1>9, NotCloning

(* The clone begins. *)
LEMMA ForkShown ==
  ASSUME ImageInv, ForkClone
  PROVE  Memory' /\ AllShown' /\ CloneHeir' /\ CloneSame'
<1>1. /\ call.src \in User /\ call.dst \in User
      /\ Memory /\ AllShown /\ heir[call.src] \subseteq heir[call.dst]
      /\ UNCHANGED <<cells, heir>> /\ CloneUserspace(call.src, call.dst)
      /\ \A n \in Node \ {0} : ~Resident(call.dst, n)
  BY DEF ImageInv, CallShape, ForkClone, ForkHeir, CloneUserspace, who
<1>2. UNCHANGED slot
  BY <1>1 DEF CloneUserspace, GoWild
<1>3. ~IsPage(0)
  BY TreeAssumption DEF TreeAssumption, IsPage
<1>4. \A n \in Node : IsPage(n) => slot[call.dst][n] = INVALID
  BY <1>1, <1>3 DEF Resident
<1>5. Memory' /\ AllShown'
  BY <1>1, <1>2, StayShown
<1>7. CASE slot[call.src][0] = NULL
  <2>1. op'.kind = "idle"
    BY <1>1, <1>7 DEF CloneUserspace, GoWild, Idle
  <2> QED BY <1>5, <2>1, NotCloning
<1>8. CASE slot[call.src][0] # NULL
  <2>1. op'.src = call.src /\ op'.dst = call.dst
    BY <1>1, <1>8 DEF CloneUserspace, Operation
  <2>2. CloneHeir'
    BY <1>1, <2>1 DEF CloneHeir
  <2>3. CloneSame'
    BY <1>2, <1>4, <2>1 DEF CloneSame, Resident, IsPage
  <2> QED BY <1>5, <2>2, <2>3
<1> QED BY <1>7, <1>8

(* The thread that runs writes where it may be seen. *)
LEMMA WriteShown ==
  ASSUME ImageInv, NEW s \in User, NEW n \in Node, Write(s, n)
  PROVE  Memory' /\ AllShown' /\ CloneHeir' /\ CloneSame'
<1> DEFINE f == slot[s][n]
           w == [c \in Cell |-> <<"user", thread>>]
<1>1. /\ Memory /\ AllShown /\ HeldOnce /\ TypeOK /\ s \in Space /\ thread \in heir[s]
      /\ op.kind = "idle" /\ UNCHANGED <<slot, op, heir>>
      /\ cells' = Filled(f, w)
  BY DEF ImageInv, IInv, ListInv, NoDoubleUse, Space, Write, Ready, ThreadsSeen, vars, who
<1>2. /\ cells' = [g \in Frame |-> cells'[g]]
      /\ \A g \in Frame : cells'[g] = IF g = f THEN w ELSE cells[g]
  <2>1. CASE f = NULL
    BY <1>1, <2>1 DEF Filled, Memory, Frame, NULL
  <2>2. CASE f # NULL
    <3> HIDE DEF f, w
    <3> QED BY <1>1, <2>2, FilledAt
  <2> QED BY <2>1, <2>2
<1>3. Memory'
  BY <1>1, <1>2 DEF Memory
<1>4. AllShown'
  <2> SUFFICES ASSUME NEW t \in User, NEW m \in Node, IsPage(m), slot[t][m] \in Frame
               PROVE  Shows(cells'[slot[t][m]], heir[t])
    BY <1>1 DEF AllShown, Shows, IsPage
  <2>1. t \in Space
    BY DEF Space
  <2>2. CASE slot[t][m] = f
    <3>1. t = s
      BY <1>1, <2>1, <2>2 DEF HeldOnce
    <3>2. Shows(w, heir[s])
      BY <1>1 DEF Shows
    <3> QED BY <1>2, <2>2, <3>1, <3>2
  <2>3. CASE slot[t][m] # f
    BY <1>1, <1>2, <2>3 DEF AllShown
  <2> QED BY <2>2, <2>3
<1> QED BY <1>1, <1>3, <1>4, NotCloning

(* What the loader writes is from the file, and into the page of one        *)
(* process.                                                                 *)
LEMMA FillShown ==
  ASSUME ImageInv, NEW s \in User, LoadFill(s)
  PROVE  Memory' /\ AllShown' /\ CloneHeir' /\ CloneSame'
<1> DEFINE t == CurrentTurn
           g == PageAsked
           f == slot[s][g]
           w == Written(t, call.image, Contents(f))
<1>1. /\ Memory /\ AllShown /\ HeldOnce /\ TypeOK /\ s \in Space
      /\ op.kind = "idle" /\ UNCHANGED <<slot, op, heir>> /\ g \in Node
  BY DEF ImageInv, IInv, ListInv, NoDoubleUse, Space, LoadFill, Ready, vars, who, FillsPage
<1>2. UNCHANGED cells \/ cells' = Filled(f, w)
  BY DEF LoadFill
<1>3. CASE UNCHANGED cells
  BY <1>1, <1>3, StayShown, NotCloning
<1>4. CASE cells' = Filled(f, w) /\ f = NULL
  BY <1>1, <1>4, StayShown, NotCloning DEF Filled
<1>5. CASE cells' = Filled(f, w) /\ f # NULL
  <2>1. w = [c \in Cell |-> w[c]]
    BY DEF Written
  <2>2. \A H : Shows(cells[f], H) => Shows(w, H)
    BY <1>5, WrittenShows DEF Contents
  <2>3. f \in Frame \cup {INVALID, NULL}
    BY <1>1 DEF TypeOK
  <2> HIDE DEF w, f
  <2>4. /\ cells' = [h \in Frame |-> cells'[h]]
        /\ \A h \in Frame : cells'[h] = IF h = f THEN w ELSE cells[h]
    BY <1>1, <1>5, FilledAt
  <2>5. Memory'
    BY <1>1, <2>1, <2>4 DEF Memory
  <2>6. AllShown'
    <3> SUFFICES ASSUME NEW u \in User, NEW m \in Node, IsPage(m), slot[u][m] \in Frame
                 PROVE  Shows(cells'[slot[u][m]], heir[u])
      BY <1>1 DEF AllShown, Shows, IsPage
    <3>1. Shows(cells[slot[u][m]], heir[u])
      BY <1>1 DEF AllShown
    <3> QED BY <2>2, <2>4, <3>1
  <2> QED BY <1>1, <2>5, <2>6, NotCloning
<1> QED BY <1>2, <1>3, <1>4, <1>5

-----------------------------------------------------------------------------
(* The page to be filled was allocated. *)
LEMMA FillKeeps ==
  ASSUME ImageInv, [ImageNext]_ivars
  PROVE  FillsPage'
<1>0. CallShape /\ FillsPage
  BY DEF ImageInv
<1>1. CASE UNCHANGED call
  BY <1>0, <1>1 DEF FillsPage, PageAsked, CurrentTurn, Section
<1>2. ASSUME call'.st # "fill" PROVE FillsPage'
  BY <1>2 DEF FillsPage
<1>3. ASSUME NEW s \in User, NEW g \in Node, LoadPage(s, g) PROVE FillsPage'
  <2>1. /\ call'.image = call.image /\ call'.buffer = call.buffer
        /\ call'.sec = call.sec /\ call'.turn = call.turn
    BY <1>0, <1>3 DEF LoadPage, CallShape
  <2>2. PageAsked' = PageAsked
    BY <2>1 DEF PageAsked, CurrentTurn, Section
  <2> QED BY <1>3, <2>2 DEF FillsPage, LoadPage
<1>4. ASSUME EnterCall PROVE call'.st # "fill" \/ UNCHANGED call
  <2>1. ASSUME NEW s, NEW d, Fork(s, d) \/ Exit(s, d) PROVE call'.st # "fill"
    BY <2>1 DEF Fork, Exit, NoCall
  <2>2. ASSUME NEW s, Execve(s) PROVE call'.st # "fill"
    BY <2>2 DEF Execve, Load, NoCall
  <2>3. ASSUME NEW s, NEW n, Switch(s) \/ GrowHeap(n) \/ Write(s, n) \/ WriteNowhere
        PROVE  UNCHANGED call
    BY <2>3 DEF Switch, GrowHeap, Write, WriteNowhere
  <2> QED BY <1>4, <2>1, <2>2, <2>3 DEF EnterCall
<1>5. ASSUME MmuStep PROVE call'.st # "fill" \/ UNCHANGED call
  <2>1. UNCHANGED call \/ call' = AfterFailedClone
    BY <1>5 DEF MmuStep
  <2>2. AfterFailedClone.st = "exit"
    BY <1>0 DEF AfterFailedClone, CallShape
  <2> QED BY <2>1, <2>2
<1>6. ASSUME BootFirst \/ ForkReturn \/ LoadDone \/ ExitFree PROVE call'.st # "fill"
  <2>1. NoCall.st = "none" /\ (Load => call'.st = "header")
    BY DEF Load, NoCall
  <2>2. LoadReturns => call'.st \in {"none", "switch"}
    BY DEF LoadReturns, NoCall
  <2> QED BY <1>6, <2>1, <2>2 DEF BootFirst, ForkReturn, LoadDone, ExitFree
<1>7. ASSUME ForkClone \/ LoadHeader \/ LoadSection PROVE call'.st # "fill"
  <2>1. LoadReturns => call'.st \in {"none", "switch"}
    BY DEF LoadReturns, NoCall
  <2>2. CASE ForkClone
    BY <1>0, <2>2 DEF ForkClone, CallShape
  <2>3. CASE LoadHeader
    BY <1>0, <2>1, <2>3 DEF LoadHeader, CallShape
  <2>4. CASE LoadSection
    BY <1>0, <2>4 DEF LoadSection, CallShape
  <2> QED BY <1>7, <2>2, <2>3, <2>4
<1>8. ASSUME NEW s \in User, LoadFill(s) \/ ForcedSwitch(s) PROVE call'.st # "fill"
  <2>1. NoCall.st = "none"
    BY DEF NoCall
  <2>2. CASE LoadFill(s)
    BY <1>0, <2>2 DEF LoadFill, CallShape
  <2>3. CASE ForcedSwitch(s)
    BY <2>1, <2>3 DEF ForcedSwitch
  <2> QED BY <1>8, <2>2, <2>3
<1>9. ASSUME LoadNowhere \/ Rest \/ UNCHANGED ivars PROVE UNCHANGED call
  BY <1>9 DEF LoadNowhere, Rest, ivars
<1> QED
  BY <1>1, <1>2, <1>3, <1>4, <1>5, <1>6, <1>7, <1>8, <1>9 DEF ImageNext, Continue

(* Every step keeps what the pages show and a copy faithful. *)
LEMMA StepShown ==
  ASSUME ImageInv, IInv', [ImageNext]_ivars
  PROVE  Memory' /\ AllShown' /\ CloneHeir' /\ CloneSame'
<1> DEFINE Kept == Memory' /\ AllShown' /\ CloneHeir' /\ CloneSame'
<1>0. Memory /\ AllShown
  BY DEF ImageInv
<1>1. ASSUME UNCHANGED <<slot, cells, heir>>, op'.kind # "clone" PROVE Kept
  BY <1>0, <1>1, StayShown, NotCloning
<1>2. CASE UNCHANGED <<slot, cells, heir, op>>
  BY <1>0, <1>2, StayShown DEF ImageInv, CloneHeir, CloneSame, Contents, Resident, IsPage
<1>3. ASSUME NEW s \in User, SwitchUserspace(s), UNCHANGED cells,
             NEW t \in User, NEW k \in Nat, heir' = [heir EXCEPT ![t] = heir[t] \cup {k}]
      PROVE  Kept
  <2>1. UNCHANGED slot /\ op'.kind # "clone"
    BY <1>3 DEF SwitchUserspace, Ready
  <2>2. heir' \in [User -> SUBSET Nat] /\ \A u \in User : heir[u] \subseteq heir'[u]
    BY <1>0, <1>3 DEF Memory
  <2> QED BY <1>0, <1>3, <2>1, <2>2, GrowShown, NotCloning
<1>4. ASSUME NEW s, NEW g, AllocAt(s, g), UNCHANGED <<cells, heir>> PROVE Kept
  BY <1>1, <1>4 DEF AllocAt, Operation
<1>5. ASSUME NEW s, NEW kind \in {"clear", "free"}, ClearUserspace(kind, s), UNCHANGED <<cells, heir>>
      PROVE  Kept
  <2>1. op'.kind # "clone" /\ UNCHANGED slot
    BY <1>5 DEF ClearUserspace, GoWild, Idle, Operation
  <2> QED BY <1>1, <1>5, <2>1
<1>15. ASSUME NEW s \in User, SwitchTo(s), UNCHANGED cells, calls' \in Nat PROVE Kept
  <2> DEFINE name == IF Designated(current) THEN thread ELSE calls'
  <2>1. /\ SwitchUserspace(s) /\ current \in User
        /\ heir' = [heir EXCEPT ![current] = heir[current] \cup {name}]
    BY <1>15 DEF SwitchTo, ImageInv, ThreadsSeen
  <2>2. name \in Nat
    BY <1>0, <1>15 DEF Memory, ImageInv, ThreadsSeen
  <2> HIDE DEF name
  <2> QED BY <1>3, <1>15, <2>1, <2>2
<1>6. ASSUME EnterCall PROVE Kept
  <2>1. ASSUME NEW s \in User, NEW d \in User, Fork(s, d) PROVE Kept
    <3>1. heir[s] \in SUBSET Nat /\ calls' \in Nat /\ Create(d, heir[s])
      BY <1>0, <2>1 DEF Fork, Enter, Memory, ImageInv, ThreadsSeen
    <3> QED BY <3>1, CreateShown
  <2>2. ASSUME NEW s \in User, NEW n \in Node, Write(s, n) PROVE Kept
    BY <2>2, WriteShown
  <2>3. ASSUME NEW s \in User, NEW d \in User, Exit(s, d) PROVE Kept
    <3>1. /\ SwitchUserspace(d) /\ UNCHANGED cells /\ calls' \in Nat
          /\ heir' = [heir EXCEPT ![d] = heir[d] \cup {calls'}]
      BY <2>3 DEF Exit, Enter, ImageInv, ThreadsSeen
    <3> QED BY <1>3, <3>1
  <2>4. ASSUME NEW s \in User, Execve(s) PROVE Kept
    BY <1>5, <2>4 DEF Execve, who
  <2>5. ASSUME NEW s \in User, Switch(s) PROVE Kept
    <3>1. SwitchTo(s) /\ UNCHANGED cells /\ calls' \in Nat
      BY <2>5 DEF Switch, Enter, ImageInv, ThreadsSeen
    <3> QED BY <1>15, <3>1
  <2>6. ASSUME NEW g \in Node, GrowHeap(g) PROVE Kept
    BY <1>4, <2>6 DEF GrowHeap, who
  <2>7. ASSUME WriteNowhere PROVE Kept
    BY <1>1, <2>7 DEF WriteNowhere, AllocAtNowhere, GoWild, Idle, who
  <2> QED BY <1>6, <2>1, <2>2, <2>3, <2>4, <2>5, <2>6, <2>7 DEF EnterCall
<1>7. ASSUME BootFirst PROVE Kept
  <2>1. First \in User /\ {} \in SUBSET Nat /\ calls' \in Nat /\ Create(First, {})
    BY <1>7, ImageAssumption DEF BootFirst, ImageAssumption, ImageInv, ThreadsSeen
  <2> QED BY <2>1, CreateShown
<1>8. ASSUME ForkClone PROVE Kept
  BY <1>8, ForkShown
<1>9. ASSUME ForkReturn \/ LoadHeader \/ LoadSection \/ LoadDone \/ Rest \/ UNCHANGED ivars PROVE Kept
  BY <1>2, <1>9 DEF ForkReturn, LoadHeader, LoadSection, LoadDone, Rest, ivars, vars, who
<1>10. ASSUME ExitFree PROVE Kept
  BY <1>5, <1>10 DEF ExitFree, who
<1>11. ASSUME LoadNowhere PROVE Kept
  BY <1>1, <1>11 DEF LoadNowhere, AllocAtNowhere, GoWild, Idle, who
<1>12. ASSUME NEW s \in User, NEW g \in Node, LoadPage(s, g) PROVE Kept
  BY <1>4, <1>12 DEF LoadPage, who
<1>13. ASSUME NEW s \in User, LoadFill(s) PROVE Kept
  BY <1>13, FillShown
<1>14. ASSUME MmuStep PROVE Kept
  BY <1>14, MmuShown
<1>16. ASSUME NEW s \in User, ForcedSwitch(s) PROVE Kept
  <2>1. SwitchTo(s) /\ UNCHANGED cells /\ calls' \in Nat
    BY <1>16 DEF ForcedSwitch, ImageInv, ThreadsSeen
  <2> QED BY <1>15, <2>1
<1> HIDE DEF Kept
<1>17. Kept
  BY <1>6, <1>7, <1>8, <1>9, <1>10, <1>11, <1>12, <1>13, <1>14, <1>16 DEF ImageNext, Continue
<1> QED BY <1>17 DEF Kept

(* The steps of the frame manager leave the register alone and change no    *)
(* root table but by freeing it.                                            *)
LEMMA RootsStay ==
  ASSUME ImageInv, MmuStep
  PROVE  /\ urp' = urp /\ UNCHANGED <<who, calls>>
         /\ \A s \in User : slot'[s][0] \in {slot[s][0], NULL, INVALID}
<1>1. /\ TypeOK /\ op.src \in Space /\ op.dst \in Space /\ op.tab \in Node /\ op.goal \in Node
      /\ 0 \in Node /\ ~IsPage(0)
  <2>1. 0 \in Node /\ ~IsPage(0)
    BY TreeAssumption DEF TreeAssumption, Node, IsPage
  <2> QED BY <2>1 DEF ImageInv, IInv, TypeOK
<1>2. UNCHANGED <<who, calls>>
  BY DEF MmuStep
<1>3. urp' = urp
  BY DEF MmuStep, ClearReturn, CloneLeave, CloneReturn, ClearLeave, FreeReturn, AllocPage, ClearEnter,
         AllocWalk, AllocTableNull, ClearPage, CloneTable, AllocTable, ClonePage, CloneFail, GoWild
<1>4. ASSUME NEW t \in Space, NEW n \in Node, NEW v, SetSlot(t, n, v),
             n # 0 \/ v \in {NULL, INVALID}
      PROVE  \A s \in User : slot'[s][0] \in {slot[s][0], NULL, INVALID}
  BY <1>1, <1>4, SetAt DEF Space
<1>5. CASE UNCHANGED slot
  BY <1>2, <1>3, <1>5
<1>6. CASE ClearLeave \/ FreeReturn
  BY <1>1, <1>2, <1>3, <1>4, <1>6 DEF ClearLeave, FreeReturn
<1>7. CASE AllocPage
  <2>1. IsPage(op.goal)
    BY <1>7 DEF ImageInv, IInv, OpInv, AllocPage, Running
  <2>2. \E v : SetSlot(op.src, op.goal, v)
    BY <1>7 DEF AllocPage
  <2> QED BY <1>1, <1>2, <1>3, <1>4, <2>1, <2>2
<1>8. ASSUME NEW n \in Node, ClearPage(n) PROVE \A s \in User : slot'[s][0] \in {slot[s][0], NULL, INVALID}
  BY <1>1, <1>4, <1>8 DEF ClearPage
<1>9. \A n \in Children(op.tab) : n # 0
  BY TreeShape DEF Children
<1>10. ASSUME NEW n \in Node, CloneTable(n) \/ AllocTable(n) \/ ClonePage(n)
       PROVE  \A s \in User : slot'[s][0] \in {slot[s][0], NULL, INVALID}
  <2>1. n # 0
    BY <1>9, <1>10 DEF CloneTable, AllocTable, ClonePage, NextToClone, ToClone, OnTheWay
  <2>2. SetSlot(op.dst, n, AllocFrame) \/ SetSlot(op.src, n, AllocFrame)
    BY <1>10 DEF CloneTable, AllocTable, ClonePage
  <2> QED BY <1>1, <1>4, <2>1, <2>2
<1>11. ASSUME NEW n \in Node, ClearEnter(n) \/ AllocWalk(n) \/ AllocTableNull(n) \/ CloneFail(n)
       PROVE  UNCHANGED slot
  BY <1>11 DEF ClearEnter, AllocWalk, AllocTableNull, CloneFail, GoWild
<1>12. ClearReturn \/ CloneLeave \/ CloneReturn => UNCHANGED slot
  BY DEF ClearReturn, CloneLeave, CloneReturn
<1> QED BY <1>2, <1>3, <1>5, <1>6, <1>7, <1>8, <1>10, <1>11, <1>12 DEF MmuStep

(* A thread that is put on the processor is seen where the register points. *)
LEMMA RegisterSeen ==
  ASSUME TypeOK, HeldOnce, NEW d \in User, SwitchUserspace(d)
  PROVE  \A s \in User : Designated(s)' => s = d
<1> SUFFICES ASSUME NEW s \in User, Designated(s)' PROVE s = d
  OBVIOUS
<1>1. s \in Space /\ d \in Space /\ s # Kernel /\ 0 \in Node
  BY SpaceAssumption, TreeAssumption DEF Space, SpaceAssumption, TreeAssumption, Node
<1>2. slot[s][0] = slot[d][0] /\ slot[d][0] # NULL
  BY <1>1 DEF Designated, SwitchUserspace
<1>3. slot[d][0] \in Frame
  BY <1>1, <1>2 DEF TypeOK, SwitchUserspace, Resident
<1> QED BY <1>1, <1>2, <1>3 DEF HeldOnce

(* A new process: no other than it comes under the register. *)
LEMMA CreateSeen ==
  ASSUME TypeOK, TypeOK', HeldOnce', NEW d \in User, NEW H, Create(d, H)
  PROVE  \A s \in User : s # d /\ Designated(s)' => Designated(s)
<1> SUFFICES ASSUME NEW s \in User, s # d, Designated(s)' PROVE Designated(s)
  OBVIOUS
<1>1. s \in Space /\ d \in Space /\ s # Kernel /\ 0 \in Node
  BY SpaceAssumption, TreeAssumption DEF Space, SpaceAssumption, TreeAssumption, Node
<1>2. urp' # NULL /\ slot'[s][0] = urp' /\ urp' \in Frame
  BY <1>1 DEF Designated, TypeOK
<1>3. CASE SetSlot(d, 0, AllocFrame) /\ urp' = AllocFrame
  <2>1. slot'[d][0] = urp'
    BY <1>1, <1>3, SetAt
  <2> QED BY <1>1, <1>2, <2>1 DEF HeldOnce
<1>4. CASE SetSlot(d, 0, NULL) /\ urp' = urp
  <2>1. slot'[s][0] = slot[s][0]
    BY <1>1, <1>4, SetAt
  <2> QED BY <1>2, <1>4, <2>1 DEF Designated
<1> QED BY <1>3, <1>4 DEF Create, InitUserspace

(* Nobody changes places. *)
LEMMA PlacesSeen ==
  ASSUME ImageInv, TypeOK', UNCHANGED who, calls' \in Nat, urp' = urp,
         \A s \in User : slot'[s][0] \in {slot[s][0], NULL, INVALID}
  PROVE  ThreadsSeen'
<1>1. ThreadsSeen /\ UNCHANGED <<current, thread, saved, heir>>
  BY DEF ImageInv, who
<1>2. ASSUME NEW s \in User, Designated(s)' PROVE Designated(s)
  <2>1. s # Kernel
    BY SpaceAssumption DEF SpaceAssumption
  <2>2. urp # NULL /\ slot'[s][0] = urp /\ urp \in Frame
    BY <1>2, <2>1 DEF Designated, TypeOK
  <2>3. slot[s][0] = urp
    BY <2>2 DEF Frame, INVALID
  <2> QED BY <2>2, <2>3 DEF Designated
<1>3. \A s \in User : Designated(s)' => thread' \in heir'[s]
  BY <1>1, <1>2 DEF ThreadsSeen
<1> QED BY <1>1, <1>3 DEF ThreadsSeen

(* A context switch. *)
LEMMA SwitchSeen ==
  ASSUME ImageInv, calls' \in Nat, NEW s \in User, SwitchTo(s)
  PROVE  ThreadsSeen'
<1> DEFINE name == IF Designated(current) THEN thread ELSE calls'
<1>1. /\ SwitchUserspace(s) /\ ThreadsSeen /\ heir \in [User -> SUBSET Nat] /\ TypeOK /\ HeldOnce
      /\ current' = s /\ thread' = saved'[s] /\ saved' = [saved EXCEPT ![current] = name]
      /\ heir' = [heir EXCEPT ![current] = heir[current] \cup {name}]
  BY DEF ImageInv, IInv, ListInv, NoDoubleUse, Memory, SwitchTo
<1> HIDE DEF name
<1>2. current \in User /\ saved = [t \in User |-> saved[t]] /\ \A t \in User : saved[t] \in heir[t]
  BY <1>1 DEF ThreadsSeen
<1>3. /\ saved' = [t \in User |-> saved'[t]]
      /\ \A t \in User : saved'[t] = IF t = current THEN name ELSE saved[t]
      /\ \A t \in User : heir'[t] = IF t = current THEN heir[current] \cup {name} ELSE heir[t]
  BY <1>1, <1>2
<1>4. \A t \in User : saved'[t] \in heir'[t]
  BY <1>2, <1>3
<1>5. \A t \in User : Designated(t)' => t = s
  BY <1>1, RegisterSeen
<1>6. /\ thread' \in heir'[current']
      /\ \A t \in User : Designated(t)' => thread' \in heir'[t]
  BY <1>1, <1>4, <1>5
<1> QED BY <1>1, <1>3, <1>4, <1>6 DEF ThreadsSeen

(* An exit, after which the thread runs on under the process it leads to. *)
LEMMA ExitSeen ==
  ASSUME ImageInv, NEW s \in User, NEW d \in User, Exit(s, d)
  PROVE  ThreadsSeen'
<1>1. /\ SwitchUserspace(d) /\ ThreadsSeen /\ heir \in [User -> SUBSET Nat] /\ TypeOK /\ HeldOnce
      /\ calls' \in Nat /\ current' = d /\ thread' = calls' /\ UNCHANGED saved
      /\ heir' = [heir EXCEPT ![d] = heir[d] \cup {calls'}]
  BY DEF ImageInv, IInv, ListInv, NoDoubleUse, Memory, Exit, Enter, ThreadsSeen
<1>2. \A t \in User : heir[t] \subseteq heir'[t]
  BY <1>1
<1>3. thread' \in heir'[d] /\ \A t \in User : saved'[t] \in heir'[t]
  BY <1>1, <1>2 DEF ThreadsSeen
<1>4. \A t \in User : Designated(t)' => t = d
  BY <1>1, RegisterSeen
<1>5. \A t \in User : Designated(t)' => thread' \in heir'[t]
  BY <1>3, <1>4
<1> QED BY <1>1, <1>3, <1>5 DEF ThreadsSeen

(* A new process, made by boot or fork. *)
LEMMA NewSeen ==
  ASSUME ImageInv, IInv', calls' \in Nat, UNCHANGED <<current, thread>>,
         NEW d \in User, NEW H \in SUBSET Nat, Create(d, H),
         thread \in H \cup {calls'}
  PROVE  /\ ThreadsSeen'
         /\ heir' = [heir EXCEPT ![d] = H \cup {calls'}]
<1>1. /\ ThreadsSeen /\ heir \in [User -> SUBSET Nat] /\ TypeOK /\ TypeOK' /\ HeldOnce'
      /\ saved' = [saved EXCEPT ![d] = calls'] /\ heir' = [heir EXCEPT ![d] = H \cup {calls'}]
  BY DEF ImageInv, IInv, ListInv, NoDoubleUse, Memory, Create
<1>2. /\ current \in User /\ thread \in heir[current] /\ saved = [t \in User |-> saved[t]]
      /\ \A t \in User : saved[t] \in heir[t]
      /\ \A t \in User : Designated(t) => thread \in heir[t]
  BY <1>1 DEF ThreadsSeen
<1>3. /\ saved' = [t \in User |-> saved'[t]]
      /\ \A t \in User : saved'[t] = IF t = d THEN calls' ELSE saved[t]
      /\ \A t \in User : heir'[t] = IF t = d THEN H \cup {calls'} ELSE heir[t]
  BY <1>1, <1>2
<1>4. \A t \in User : saved'[t] \in heir'[t]
  BY <1>2, <1>3
<1>5. thread' \in heir'[current']
  BY <1>2, <1>3
<1>6. \A t \in User : t # d /\ Designated(t)' => Designated(t)
  BY <1>1, CreateSeen
<1>7. \A t \in User : Designated(t)' => thread' \in heir'[t]
  BY <1>2, <1>3, <1>6
<1> QED BY <1>1, <1>2, <1>3, <1>4, <1>5, <1>7 DEF ThreadsSeen

(* The running thread and the saved ones stay where they may be seen, and   *)
(* the child of a fork inherits.                                            *)
LEMMA ThreadsKeep ==
  ASSUME ImageInv, IInv', [ImageNext]_ivars
  PROVE  ThreadsSeen' /\ ForkHeir' /\ BootThread'
<1> DEFINE Kept == ThreadsSeen' /\ ForkHeir' /\ BootThread'
<1>0. /\ TypeOK /\ TypeOK' /\ CallShape /\ ForkHeir /\ BootThread /\ calls \in Nat
      /\ heir \in [User -> SUBSET Nat]
  BY DEF ImageInv, IInv, ThreadsSeen, Memory
<1>1. ASSUME call'.st \notin {"clone", "boot"}, ThreadsSeen' PROVE Kept
  BY <1>1 DEF ForkHeir, BootThread
<1>2. ASSUME UNCHANGED <<who, calls>>, UNCHANGED call \/ call'.st \notin {"clone", "boot"}, ThreadsSeen'
      PROVE  Kept
  BY <1>0, <1>1, <1>2 DEF ForkHeir, BootThread, who
<1>3. ASSUME UNCHANGED <<slot, urp, who>>, calls' \in Nat PROVE ThreadsSeen'
  BY <1>0, <1>3, PlacesSeen
<1>4. ASSUME NEW s \in User, NEW d \in User, Fork(s, d) PROVE Kept
  <2>1. /\ Create(d, heir[s]) /\ calls' \in Nat /\ UNCHANGED <<current, thread>> /\ s # d
        /\ heir[s] \in SUBSET Nat /\ thread \in heir[s] \cup {calls'}
        /\ call'.st = "clone" /\ call'.src = s /\ call'.dst = d
    BY <1>0, <1>4 DEF Fork, Enter, ImageInv, ThreadsSeen, NoCall
  <2>2. ThreadsSeen' /\ heir' = [heir EXCEPT ![d] = heir[s] \cup {calls'}]
    BY <2>1, NewSeen
  <2>3. heir'[s] \subseteq heir'[d]
    BY <1>0, <2>1, <2>2
  <2> QED BY <2>1, <2>2, <2>3 DEF ForkHeir, BootThread
<1>5. ASSUME BootFirst PROVE Kept
  <2>1. /\ First \in User /\ {} \in SUBSET Nat /\ calls' = calls /\ Create(First, {})
        /\ UNCHANGED <<current, thread>> /\ thread = calls
    BY <1>0, <1>5, ImageAssumption DEF BootFirst, BootThread, ImageAssumption
  <2>2. ThreadsSeen'
    BY <1>0, <2>1, NewSeen
  <2>3. call'.st = "header"
    BY <1>5 DEF BootFirst, Load, NoCall
  <2> QED BY <1>1, <2>2, <2>3
<1>6. ASSUME NEW s \in User, NEW d \in User, Exit(s, d) PROVE Kept
  <2>1. call'.st = "exit"
    BY <1>6 DEF Exit, NoCall
  <2> QED BY <1>1, <1>6, <2>1, ExitSeen
<1>7. ASSUME NEW s \in User, Switch(s) \/ ForcedSwitch(s) PROVE Kept
  <2>1. SwitchTo(s) /\ calls' \in Nat /\ call'.st = "none"
    BY <1>0, <1>7 DEF Switch, ForcedSwitch, Enter, NoCall
  <2> QED BY <1>1, <2>1, SwitchSeen
<1>8. ASSUME NEW s \in User, Execve(s) PROVE Kept
  <2>1. call'.st = "header" /\ calls' \in Nat /\ UNCHANGED <<slot, urp, who>>
    BY <1>0, <1>8 DEF Execve, Enter, Load, NoCall, ClearUserspace, GoWild
  <2> QED BY <1>1, <1>3, <2>1
<1>9. ASSUME NEW s \in User, NEW n \in Node, GrowHeap(n) \/ Write(s, n) PROVE Kept
  <2>1. call'.st = "none" /\ calls' \in Nat /\ UNCHANGED <<slot, urp, who>>
    BY <1>0, <1>9 DEF GrowHeap, Write, Enter, AllocAt, vars
  <2> QED BY <1>1, <1>3, <2>1
<1>10. ASSUME WriteNowhere PROVE Kept
  <2>1. call'.st = "none" /\ calls' \in Nat /\ UNCHANGED <<slot, urp, who>>
    BY <1>0, <1>10 DEF WriteNowhere, Enter, AllocAtNowhere, GoWild
  <2> QED BY <1>1, <1>3, <2>1
<1>11. ASSUME EnterCall PROVE Kept
  BY <1>4, <1>6, <1>7, <1>8, <1>9, <1>10, <1>11, ImageAssumption DEF EnterCall, ImageAssumption
<1>12. ASSUME UNCHANGED <<slot, urp, who, calls>>, UNCHANGED call \/ call'.st \notin {"clone", "boot"}
       PROVE  Kept
  BY <1>0, <1>2, <1>3, <1>12
<1>13. ASSUME ForkClone \/ ForkReturn \/ ExitFree PROVE Kept
  <2>1. call'.st \in {"cloned", "none"}
    BY <1>0, <1>13 DEF ForkClone, ForkReturn, ExitFree, NoCall, CallShape
  <2>2. UNCHANGED <<slot, urp, who, calls>>
    BY <1>13 DEF ForkClone, ForkReturn, ExitFree, CloneUserspace, ClearUserspace, GoWild, vars
  <2> QED BY <1>12, <2>1, <2>2
<1>14. ASSUME LoadHeader \/ LoadSection \/ LoadDone PROVE Kept
  <2>1. call'.st \in {"none", "switch", "page"}
    <3>1. LoadReturns => call'.st \in {"none", "switch"}
      BY DEF LoadReturns, NoCall
    <3>2. CASE LoadHeader
      BY <1>0, <3>1, <3>2 DEF LoadHeader, CallShape
    <3>3. CASE LoadSection
      BY <1>0, <3>3 DEF LoadSection, CallShape
    <3>4. CASE LoadDone
      BY <3>1, <3>4 DEF LoadDone
    <3> QED BY <1>14, <3>2, <3>3, <3>4
  <2>2. UNCHANGED <<slot, urp, who, calls>>
    BY <1>14 DEF LoadHeader, LoadSection, LoadDone, vars
  <2> QED BY <1>12, <2>1, <2>2
<1>15. ASSUME LoadNowhere \/ Rest \/ UNCHANGED ivars PROVE Kept
  BY <1>12, <1>15 DEF LoadNowhere, AllocAtNowhere, GoWild, Rest, ivars, vars
<1>16. ASSUME NEW s \in User, NEW g \in Node, LoadPage(s, g) PROVE Kept
  <2>1. call'.st = "fill"
    BY <1>0, <1>16 DEF LoadPage, CallShape
  <2>2. UNCHANGED <<slot, urp, who, calls>>
    BY <1>16 DEF LoadPage, AllocAt
  <2> QED BY <1>12, <2>1, <2>2
<1>17. ASSUME NEW s \in User, LoadFill(s) PROVE Kept
  <2>1. call'.st \in {"page", "spilled"}
    BY <1>0, <1>17 DEF LoadFill, CallShape
  <2>2. UNCHANGED <<slot, urp, who, calls>>
    BY <1>17 DEF LoadFill, vars
  <2> QED BY <1>12, <2>1, <2>2
<1>18. ASSUME MmuStep PROVE Kept
  <2>1. UNCHANGED call \/ call'.st \notin {"clone", "boot"}
    <3>1. UNCHANGED call \/ call' = AfterFailedClone
      BY <1>18 DEF MmuStep
    <3>2. AfterFailedClone.st = "exit"
      BY <1>0 DEF AfterFailedClone, CallShape
    <3> QED BY <3>1, <3>2
  <2>2. ThreadsSeen' /\ UNCHANGED <<who, calls>>
    BY <1>0, <1>18, RootsStay, PlacesSeen
  <2> QED BY <1>2, <2>1, <2>2
<1> HIDE DEF Kept
<1>19. ASSUME Continue PROVE Kept
  BY <1>5, <1>7, <1>13, <1>14, <1>15, <1>16, <1>17, <1>18, <1>19 DEF Continue
<1>20. Kept
  BY <1>11, <1>15, <1>19 DEF ImageNext
<1> QED BY <1>20 DEF Kept

(* The invariant of the memory of processes. *)
THEOREM ImageInvariance == ImageSpec => []ImageInv
<1>1. ImageInit => ImageInv
  <2> SUFFICES ASSUME ImageInit PROVE ImageInv
    OBVIOUS
  <2>1. IInv /\ KernelMapped
    <3>1. Init => KernelMapped
      BY SpaceAssumption, TreeAssumption
         DEF Init, KernelMapped, Resident, SpaceAssumption, TreeAssumption, Space, Node
    <3> QED BY <3>1, InitIInv DEF ImageInit
  <2>2. CallShape /\ FillsPage
    BY ImageAssumption DEF ImageInit, CallShape, FillsPage, NoCall, ImageAssumption
  <2>3. Memory
    BY DEF ImageInit, Memory, Table, Zero
  <2>4. \A s \in User, n \in Node : slot[s][n] = INVALID
    BY SpaceAssumption DEF ImageInit, Init, Space, SpaceAssumption
  <2>5. AllShown
    BY <2>4 DEF AllShown, Frame, INVALID
  <2>6. CloneHeir /\ CloneSame
    BY DEF ImageInit, Init, Idle, CloneHeir, CloneSame
  <2>7. ForkHeir /\ BootThread
    BY DEF ImageInit, NoCall, ForkHeir, BootThread
  <2>8. ThreadsSeen
    BY ImageAssumption DEF ImageInit, ThreadsSeen, ImageAssumption
  <2> QED BY <2>1, <2>2, <2>3, <2>5, <2>6, <2>7, <2>8 DEF ImageInv
<1>2. ImageInv /\ [ImageNext]_ivars => ImageInv'
  <2> SUFFICES ASSUME ImageInv, [ImageNext]_ivars PROVE ImageInv'
    OBVIOUS
  <2>1. CallShape' /\ [Next]_vars
    BY ImageIsNext, ShapeKeeps DEF ImageInv
  <2>2. IInv' /\ KernelMapped'
    BY <2>1, StepIInv DEF ImageInv
  <2>3. /\ Memory' /\ AllShown' /\ CloneHeir' /\ CloneSame' /\ FillsPage'
        /\ ThreadsSeen' /\ ForkHeir' /\ BootThread'
    BY <2>2, StepShown, FillKeeps, ThreadsKeep
  <2> QED BY <2>1, <2>2, <2>3 DEF ImageInv
<1> QED BY <1>1, <1>2, PTL DEF ImageSpec

(* Whatever is exhausted, wherever the register points and whoever exits,   *)
(* a process sees of stores only those of its own thread, those that came   *)
(* with its fork, and those of threads that exited into it; and never what  *)
(* the frame manager keeps in freed frames and tables.                      *)
THEOREM ProcessesAreIsolated == ImageSpec => []Isolated
<1>1. ImageInv => Isolated
  BY DEF ImageInv, AllShown, Shows, Isolated
<1> QED BY <1>1, ImageInvariance, PTL

(* A clone that returns success has given the child the pages of its        *)
(* parent, with the same contents.                                          *)
THEOREM ClonesAreFaithful == ImageSpec => []CloneFaithful
<1>1. ImageInv /\ CloneComplete => CloneFaithful
  BY DEF ImageInv, CloneSame, CloneFaithful, CloneComplete
<1> QED BY <1>1, ImageInvariance, CallsUseTheFrameManager, CloneCopiesAll, PTL

-----------------------------------------------------------------------------
(* What the loader leaves in memory. *)

(* The sections of a file are section headers, the stack among them, and    *)
(* all their pages are pages of the user space.                             *)
LEMMA SectionsShape ==
  ASSUME NEW m \in DOMAIN Images, NEW i \in 1 .. Len(Sections(m))
  PROVE  /\ Len(Sections(m)) \in Nat
         /\ Sections(m)[i] \in SectionHeader
         /\ PageCount(Sections(m)[i]) \in Nat /\ TurnCount(Sections(m)[i]) \in Nat
         /\ PagesOf(Sections(m)[i]) \subseteq 0 .. StackPage
<1>1. P \in Nat /\ P > 1 /\ StackPage \in Nat /\ StackPage > 0
  BY ImageAssumption DEF ImageAssumption
<1>2. Images[m].sections \in Seq(SectionHeader)
  BY FileAssumption DEF FileAssumption
<1>3. StackPage * P \in Nat /\ StackPage * P # 0
  BY <1>1
<1>4. /\ Stack \in SectionHeader /\ Stack.address = StackPage * P /\ Stack.size = P
      /\ Stack.type # "null" /\ Stack.alloc
  <2>1. Stack \in SectionHeader
    <3> DEFINE a == StackPage * P
    <3>1. a \in Nat /\ P \in Nat /\ 0 \in Nat
      BY <1>1, <1>3
    <3>2. Stack = [address |-> a, type |-> "nobits", alloc |-> TRUE, offset |-> 0, size |-> P]
      BY DEF Stack
    <3> HIDE DEF a
    <3> QED BY <3>1, <3>2, Zenon DEF SectionHeader
  <2>2. Stack.address = StackPage * P /\ Stack.size = P
    BY DEF Stack
  <2>3. Stack.type # "null" /\ Stack.alloc
    BY DEF Stack
  <2> QED BY <2>1, <2>2, <2>3
<1>5. /\ Len(Sections(m)) = Len(Images[m].sections) + 1 /\ Len(Images[m].sections) \in Nat
      /\ Sections(m)[i] = IF i <= Len(Images[m].sections) THEN Images[m].sections[i] ELSE Stack
  BY <1>2, <1>4 DEF Sections
<1>6. Sections(m)[i] \in SectionHeader
  BY <1>2, <1>4, <1>5
<1>7. ASSUME NEW sec \in SectionHeader PROVE PageCount(sec) \in Nat /\ TurnCount(sec) \in Nat
  <2>1. sec.size + P - 1 \in Nat
    BY <1>1 DEF SectionHeader
  <2>2. PageCount(sec) \in Nat
    BY <1>1, <2>1, DivMod DEF PageCount
  <2> QED BY <2>2 DEF TurnCount
<1>8. PagesOf(Stack) = {StackPage}
  <2>1. Stack.address \div P = StackPage
    BY <1>1, <1>3, <1>4, DivModUnique
  <2>2. P + P - 1 \in Nat /\ P + P - 1 = P * 1 + (P - 1)
    BY <1>1
  <2>3. (P + P - 1) \div P = 1
    BY <1>1, <2>2, DivModUnique
  <2>4. TurnCount(Stack) = 1
    BY <1>3, <1>4, <2>3 DEF TurnCount, Loadable, PageCount
  <2> QED BY <1>1, <2>1, <2>4 DEF PagesOf
<1>9. PagesOf(Sections(m)[i]) \subseteq 0 .. StackPage
  <2>1. CASE i <= Len(Images[m].sections)
    BY <1>5, <2>1, FileAssumption DEF FileAssumption
  <2>2. CASE ~(i <= Len(Images[m].sections))
    BY <1>1, <1>5, <1>8, <2>2
  <2> QED BY <2>1, <2>2
<1> QED BY <1>5, <1>6, <1>7, <1>9

(* The j-th turn of alloc() for the i-th section, and its page. *)
TurnAt(i, j) == Turn(Sections(call.image)[i], call.buffer, j)
NodeOf(i, j) == PageNode[TurnAt(i, j).page]

TurnsOf(i) == 1 .. TurnCount(Sections(call.image)[i])
SectionsHere == 1 .. Len(Sections(call.image))

(* No later section asks for a page of the i-th. *)
Alone(i) ==
  \A k \in SectionsHere : k > i =>
    PagesOf(Sections(call.image)[i]) \cap PagesOf(Sections(call.image)[k]) = {}

(* Different turns fill different pages, unless a later section asks for    *)
(* the same page.                                                           *)
LEMMA NodesDiffer ==
  ASSUME call.image \in DOMAIN Images,
         NEW i \in SectionsHere, NEW j \in TurnsOf(i), NEW k \in SectionsHere, NEW l \in TurnsOf(k)
  PROVE  /\ NodeOf(i, j) \in Node /\ IsPage(NodeOf(i, j))
         /\ i < k /\ Alone(i) => NodeOf(i, j) # NodeOf(k, l)
         /\ i = k /\ j # l => NodeOf(i, j) # NodeOf(k, l)
<1> DEFINE si == Sections(call.image)[i]
           sk == Sections(call.image)[k]
           pi == TurnAt(i, j).page
           pk == TurnAt(k, l).page
<1>1. /\ si \in SectionHeader /\ TurnCount(si) \in Nat /\ PagesOf(si) \subseteq 0 .. StackPage
      /\ sk \in SectionHeader /\ TurnCount(sk) \in Nat /\ PagesOf(sk) \subseteq 0 .. StackPage
      /\ Len(Sections(call.image)) \in Nat
  BY SectionsShape DEF SectionsHere
<1>2. pi = si.address \div P + j - 1 /\ pk = sk.address \div P + l - 1
  BY DEF TurnAt, Turn
<1>3. pi \in PagesOf(si) /\ pk \in PagesOf(sk)
  BY <1>2 DEF PagesOf, TurnsOf
<1>4. si.address \div P \in Nat
  <2>1. P \in Nat /\ P > 0
    BY ImageAssumption DEF ImageAssumption
  <2>2. si.address \in Nat
    BY <1>1 DEF SectionHeader
  <2> QED BY <2>1, <2>2, DivMod
<1>5. pi \in 0 .. StackPage /\ pk \in 0 .. StackPage
  BY <1>1, <1>3
<1>6. /\ PageNode[pi] \in Node /\ IsPage(PageNode[pi])
      /\ pi # pk => PageNode[pi] # PageNode[pk]
  BY <1>5, ImageAssumption DEF ImageAssumption
<1>7. i < k /\ Alone(i) => pi # pk
  BY <1>1, <1>3 DEF Alone, SectionsHere
<1>8. i = k /\ j # l => pi # pk
  BY <1>1, <1>2, <1>4 DEF TurnsOf
<1> QED BY <1>6, <1>7, <1>8 DEF NodeOf

-----------------------------------------------------------------------------
(* Where the loader stands. *)

Asking ==
  op.kind = "alloc" /\ op.goal = PageAsked /\ op.src \in User /\ Designated(op.src)

LoadAt ==
  /\ call.st \in {"header", "page", "fill"} => call.image \in DOMAIN Images
  /\ call.st = "header" => call.sec = 1 /\ call.turn = 1
  /\ call.st \in {"page", "fill"} =>
       call.buffer \in Nat /\ call.sec \in Nat \ {0} /\ call.turn \in Nat \ {0}
  /\ call.st = "page" => op.kind = "idle"
  /\ call.st = "fill" => TurnsAgain /\ (op.kind = "idle" \/ Asking)

(* A page of process s that is there and, unless memory was exhausted,      *)
(* holds w.                                                                 *)
PageIs(s, n, w) == Resident(s, n) /\ (slot[s][n] # NULL => Contents(slot[s][n]) = w)

Done(i, j) == i < call.sec \/ (i = call.sec /\ j < call.turn)

Result(i, j) ==
  IF TurnAt(i, j).fill THEN Written(TurnAt(i, j), call.image, Zero) ELSE Zero

(* What the loader has done is in memory, up to pages it asks for again.    *)
SectionsDone(s) ==
  \A i \in SectionsHere : Alone(i) =>
    \A j \in TurnsOf(i) : Done(i, j) => PageIs(s, NodeOf(i, j), Result(i, j))

SoFar ==
  call.st \in {"page", "fill"} /\ wild = "no" =>
    \A s \in User : Designated(s) =>
      /\ SectionsDone(s)
      /\ call.st = "fill" /\ op.kind = "idle" => PageIs(s, PageAsked, Zero)

(* The definitions that depend only on the place the loader is at. *)
LEMMA SamePlace ==
  ASSUME call'.image = call.image, call'.buffer = call.buffer
  PROVE  /\ SectionsHere' = SectionsHere
         /\ \A i \in SectionsHere : TurnsOf(i)' = TurnsOf(i)
         /\ \A i \in SectionsHere : Alone(i)' = Alone(i)
         /\ \A i \in SectionsHere : \A j \in TurnsOf(i) :
              NodeOf(i, j)' = NodeOf(i, j) /\ Result(i, j)' = Result(i, j)
         /\ call'.sec = call.sec /\ call'.turn = call.turn =>
              /\ PageAsked' = PageAsked /\ TurnsAgain' = TurnsAgain
              /\ \A i \in SectionsHere : \A j \in TurnsOf(i) : Done(i, j)' = Done(i, j)
<1>1. SectionsHere' = SectionsHere
  BY DEF SectionsHere
<1>2. \A i \in SectionsHere : TurnsOf(i)' = TurnsOf(i)
  BY DEF TurnsOf
<1>3. \A i \in SectionsHere : Alone(i)' = Alone(i)
  BY <1>1 DEF Alone
<1>4. \A i \in SectionsHere : \A j \in TurnsOf(i) : TurnAt(i, j)' = TurnAt(i, j)
  BY DEF TurnAt
<1>5. \A i \in SectionsHere : \A j \in TurnsOf(i) :
         NodeOf(i, j)' = NodeOf(i, j) /\ Result(i, j)' = Result(i, j)
  BY <1>4 DEF NodeOf, Result, Written
<1>6. ASSUME call'.sec = call.sec, call'.turn = call.turn
      PROVE  /\ PageAsked' = PageAsked /\ TurnsAgain' = TurnsAgain
             /\ \A i \in SectionsHere : \A j \in TurnsOf(i) : Done(i, j)' = Done(i, j)
  BY <1>6 DEF PageAsked, TurnsAgain, AllLoaded, CurrentTurn, Section, Done
<1> QED BY <1>1, <1>2, <1>3, <1>5, <1>6

(* The turn the loader is at is a turn of its section. *)
LEMMA AskedPage ==
  ASSUME LoadAt, call.st = "fill" \/ (call.st = "page" /\ TurnsAgain)
  PROVE  /\ call.image \in DOMAIN Images
         /\ call.sec \in SectionsHere /\ call.turn \in TurnsOf(call.sec)
         /\ CurrentTurn = TurnAt(call.sec, call.turn)
         /\ PageAsked = NodeOf(call.sec, call.turn)
         /\ PageAsked \in Node /\ IsPage(PageAsked)
         /\ \A i \in SectionsHere : \A j \in TurnsOf(i) :
              Alone(i) /\ Done(i, j) => NodeOf(i, j) # PageAsked
<1>1. call.image \in DOMAIN Images /\ call.sec \in Nat \ {0} /\ call.turn \in Nat \ {0} /\ TurnsAgain
  BY DEF LoadAt
<1>2. Len(Sections(call.image)) \in Nat
  <2>1. Images[call.image].sections \in Seq(SectionHeader)
    BY <1>1, FileAssumption DEF FileAssumption
  <2>2. Sections(call.image) = Images[call.image].sections \o <<Stack>>
    BY DEF Sections
  <2>3. Len(Sections(call.image)) = Len(Images[call.image].sections) + 1
    BY <2>1, <2>2
  <2> QED BY <2>1, <2>3
<1>3. call.sec \in SectionsHere
  BY <1>1, <1>2 DEF TurnsAgain, AllLoaded, SectionsHere
<1>4. TurnCount(Section) \in Nat
  BY <1>1, <1>3, SectionsShape DEF Section, SectionsHere
<1>5. call.turn \in TurnsOf(call.sec)
  BY <1>1, <1>4 DEF TurnsAgain, TurnsOf, Section
<1>6. CurrentTurn = TurnAt(call.sec, call.turn) /\ PageAsked = NodeOf(call.sec, call.turn)
  BY DEF CurrentTurn, TurnAt, Section, PageAsked, NodeOf
<1>7. PageAsked \in Node /\ IsPage(PageAsked)
  BY <1>1, <1>3, <1>5, <1>6, NodesDiffer
<1>8. ASSUME NEW i \in SectionsHere, NEW j \in TurnsOf(i), Alone(i), Done(i, j)
      PROVE  NodeOf(i, j) # PageAsked
  <2>1. i < call.sec \/ (i = call.sec /\ j # call.turn)
    BY <1>1, <1>8 DEF Done, TurnsOf
  <2> QED BY <1>1, <1>3, <1>5, <1>6, <1>8, <2>1, NodesDiffer
<1> QED BY <1>1, <1>3, <1>5, <1>6, <1>7, <1>8

(* The register designates one process. *)
LEMMA OneDesignated ==
  ASSUME IInv, NEW s \in User, NEW t \in User, Designated(s), Designated(t)
  PROVE  s = t
<1>1. s \in Space /\ t \in Space /\ s # Kernel /\ t # Kernel /\ 0 \in Node
  BY SpaceAssumption, TreeAssumption DEF Space, SpaceAssumption, TreeAssumption, Node
<1>2. urp \in Frame /\ slot[s][0] = urp /\ slot[t][0] = urp
  BY <1>1 DEF Designated, IInv, TypeOK
<1> QED BY <1>1, <1>2 DEF IInv, ListInv, NoDoubleUse, HeldOnce

(* Nothing but node n0 of tree s0 changes. *)
OnlyAt(s0, n0) ==
  \A t \in Space, m \in Node : <<t, m>> # <<s0, n0>> =>
    /\ slot'[t][m] = slot[t][m]
    /\ Resident(t, m) => Contents(slot[t][m])' = Contents(slot[t][m])

(* A step that changes none of the loaded pages keeps them. *)
LEMMA PagesKept ==
  ASSUME NEW s \in User, NEW s0, NEW n0, OnlyAt(s0, n0),
         call.image \in DOMAIN Images, call'.image = call.image, call'.buffer = call.buffer,
         SectionsDone(s),
         \A i \in SectionsHere : \A j \in TurnsOf(i) : Done(i, j)' => Done(i, j),
         \A i \in SectionsHere : \A j \in TurnsOf(i) : Alone(i) /\ Done(i, j) => NodeOf(i, j) # n0
  PROVE  SectionsDone(s)'
<1> SUFFICES ASSUME NEW i \in SectionsHere', Alone(i)', NEW j \in TurnsOf(i)', Done(i, j)'
             PROVE  PageIs(s, NodeOf(i, j), Result(i, j))'
  BY DEF SectionsDone
<1>1. /\ i \in SectionsHere /\ j \in TurnsOf(i) /\ Alone(i) /\ Done(i, j)
      /\ NodeOf(i, j)' = NodeOf(i, j) /\ Result(i, j)' = Result(i, j)
  BY SamePlace
<1>2. PICK n : n = NodeOf(i, j)
  OBVIOUS
<1>3. PageIs(s, n, Result(i, j)) /\ n # n0 /\ n \in Node /\ s \in Space
  BY <1>1, <1>2, NodesDiffer DEF SectionsDone, Space
<1>4. slot'[s][n] = slot[s][n] /\ Resident(s, n) /\ Contents(slot[s][n])' = Contents(slot[s][n])
  BY <1>3 DEF OnlyAt, PageIs
<1>5. /\ (slot[s][n] # INVALID)'
      /\ (slot[s][n] # NULL)' => Contents(slot[s][n])' = Result(i, j)'
  BY <1>1, <1>3, <1>4 DEF PageIs, Resident
<1>6. PageIs(s, NodeOf(i, j), Result(i, j))'
        <=> /\ (slot[s][n] # INVALID)'
            /\ (slot[s][n] # NULL)' => Contents(slot[s][n])' = Result(i, j)'
  BY <1>1, <1>2 DEF PageIs, Resident
<1> QED BY <1>5, <1>6

(* The steps of alloc_at, called by the loader. *)
LEMMA LoadAllocs ==
  ASSUME ImageInv, LoadAt, SoFar, IInv', call.st = "fill", MmuStep
  PROVE  LoadAt' /\ SoFar'
<1> USE DEF ImageInv
<1>1. op.kind # "idle" /\ Asking
  <2>1. op.kind # "idle"
    BY DEF MmuStep, ClearReturn, CloneLeave, CloneReturn, ClearLeave, FreeReturn, AllocPage, ClearEnter,
           AllocWalk, AllocTableNull, ClearPage, CloneTable, AllocTable, ClonePage, CloneFail,
           Sweeping, Running
  <2> QED BY <2>1 DEF LoadAt
<1>2. /\ op.kind = "alloc" /\ op.goal = PageAsked /\ op.src \in User /\ op.src \in Space
      /\ Designated(op.src) /\ wild = "no" /\ UNCHANGED heir /\ HeldOnce'
      /\ op = [kind |-> op.kind, src |-> op.src, dst |-> op.dst, tab |-> op.tab, goal |-> op.goal]
  BY <1>1 DEF Asking, Space, IInv, OpInv, MmuStep, ListInv, NoDoubleUse, TypeOK, who
<1>u. PICK u \in User : u = op.src
  BY <1>2
<1>3. \/ \E n \in Node : AllocWalk(n) /\ UNCHANGED <<cells, call>>
      \/ \E n \in Node : AllocTableNull(n) /\ UNCHANGED <<cells, call>>
      \/ \E n \in Node : AllocTable(n) /\ cells' = Filled(AllocFrame, Table) /\ UNCHANGED call
      \/ AllocPage /\ cells' = NewPage /\ UNCHANGED call
  BY <1>2 DEF MmuStep, ClearReturn, CloneLeave, CloneReturn, ClearLeave, FreeReturn, ClearEnter,
              ClearPage, CloneTable, ClonePage, CloneFail, Sweeping, Running
<1>4. /\ UNCHANGED call /\ PageAsked' = PageAsked /\ TurnsAgain' = TurnsAgain /\ TurnsAgain
      /\ call.image \in DOMAIN Images
      /\ \A i \in SectionsHere : \A j \in TurnsOf(i) : Done(i, j)' = Done(i, j)
  <2>1. UNCHANGED call
    BY <1>3
  <2> QED BY <2>1, SamePlace DEF LoadAt
<1>5. /\ PageAsked \in Node /\ IsPage(PageAsked)
      /\ \A i \in SectionsHere : \A j \in TurnsOf(i) :
           Alone(i) /\ Done(i, j) => NodeOf(i, j) # PageAsked
      /\ \A i \in SectionsHere : \A j \in TurnsOf(i) : IsPage(NodeOf(i, j))
  BY <1>4, AskedPage, NodesDiffer
<1>6. UNCHANGED urp
  BY <1>3 DEF AllocWalk, AllocTableNull, AllocTable, AllocPage, GoWild
<1>7. 0 \in Node /\ ~IsPage(0) /\ Kernel \notin User
  BY TreeAssumption, SpaceAssumption DEF TreeAssumption, SpaceAssumption, Node, IsPage
<1>8. ASSUME NEW n0, n0 # 0, OnlyAt(op.src, n0)
      PROVE  \A s \in User : Designated(s)' <=> Designated(s)
  <2> SUFFICES ASSUME NEW s \in User PROVE Designated(s)' <=> Designated(s)
    OBVIOUS
  <2>1. s \in Space /\ slot'[s][0] = slot[s][0]
    BY <1>7, <1>8 DEF OnlyAt, Space
  <2> QED BY <1>6, <2>1 DEF Designated
<1>9. ASSUME NEW n0, n0 # 0, OnlyAt(op.src, n0), ~IsPage(n0) \/ n0 = PageAsked,
             op'.kind = "idle" \/ (op'.kind = "alloc" /\ op'.goal = op.goal /\ op'.src = op.src),
             op'.kind = "idle" => PageIs(u, PageAsked, Zero)'
      PROVE  LoadAt' /\ SoFar'
  <2>1. LoadAt'
    BY <1>2, <1>4, <1>8, <1>9 DEF LoadAt, Asking
  <2>2. ASSUME NEW s \in User, Designated(s)' PROVE SectionsDone(s)'
    <3>1. SectionsDone(s)
      BY <1>2, <1>8, <1>9, <2>2 DEF SoFar
    <3>2. \A i \in SectionsHere : \A j \in TurnsOf(i) : Alone(i) /\ Done(i, j) => NodeOf(i, j) # n0
      BY <1>5, <1>9
    <3> QED BY <1>4, <1>9, <3>1, <3>2, PagesKept
  <2>3. ASSUME NEW s \in User, Designated(s)' PROVE s = u
    BY <1>2, <1>u, <1>8, <1>9, <2>3, OneDesignated
  <2>4. ASSUME NEW s \in User, Designated(s)', op'.kind = "idle" PROVE PageIs(s, PageAsked, Zero)'
    BY <1>9, <2>3, <2>4
  <2> QED BY <2>1, <2>2, <2>4 DEF SoFar
<1>10. ASSUME NEW n \in Node, AllocWalk(n), UNCHANGED <<cells, call>> PROVE LoadAt' /\ SoFar'
  <2>1. UNCHANGED slot /\ op'.kind = "alloc" /\ op'.goal = op.goal /\ op'.src = op.src
    BY <1>2, <1>10 DEF AllocWalk, EnterLoop
  <2>2. OnlyAt(op.src, PageAsked)
    BY <1>10, <2>1 DEF OnlyAt, Contents
  <2> QED BY <1>5, <1>7, <1>9, <2>1, <2>2
<1>11. ASSUME NEW n \in Node, AllocTableNull(n), UNCHANGED <<cells, call>> PROVE LoadAt' /\ SoFar'
  <2>1. op'.kind = "idle" /\ wild' = "rom"
    BY <1>11 DEF AllocTableNull, GoWild, Idle
  <2> QED BY <1>4, <2>1 DEF LoadAt, SoFar
<1>12. ASSUME NEW n \in Node, AllocTable(n), cells' = Filled(AllocFrame, Table), UNCHANGED call
       PROVE  LoadAt' /\ SoFar'
  <2>1. op'.kind = "alloc" /\ op'.goal = op.goal /\ op'.src = op.src
    BY <1>2, <1>12 DEF AllocTable, EnterLoop
  <2>2. n \in Children(op.tab) /\ n \in Above(Parent[op.goal])
    BY <1>12 DEF AllocTable, OnTheWay
  <2>3. Parent[op.goal] \in Node /\ Level[Parent[op.goal]] = 2
    BY <1>2, <1>5, TreeShape DEF IsPage
  <2>4. n # 0 /\ ~IsPage(n)
    <3>1. n = Parent[op.goal] \/ Level[n] < 2
      BY <2>2, <2>3, AboveShape
    <3> QED BY <2>2, <2>3, <3>1, TreeShape DEF IsPage, Children
  <2>5. OnlyAt(op.src, n)
    BY <1>2, <1>12, AllocTableShown DEF OnlyAt
  <2> QED BY <1>9, <2>1, <2>4, <2>5
<1>13. ASSUME AllocPage, cells' = NewPage, UNCHANGED call PROVE LoadAt' /\ SoFar'
  <2>1. op'.kind = "idle"
    BY <1>13 DEF AllocPage, Return, Idle
  <2>2. OnlyAt(op.src, PageAsked)
    BY <1>2, <1>13, AllocPageShown DEF OnlyAt
  <2>3. PICK n : n = PageAsked
    OBVIOUS
  <2>4. /\ slot'[u][n] # INVALID
        /\ slot'[u][n] # NULL => Contents(slot[u][n])' = Zero'
    <3>1. CASE AllocFails
      <4>1. slot' = [slot EXCEPT ![u][n] = NULL]
        BY <1>2, <1>u, <1>13, <2>3, <3>1 DEF AllocPage, SetSlot
      <4>2. slot'[u][n] = NULL
        BY <1>2, <1>u, <1>5, <2>3, <4>1 DEF IInv, TypeOK
      <4> QED BY <4>2 DEF NULL, INVALID
    <3>2. CASE ~AllocFails
      <4>1. slot'[u][n] \in Frame /\ cells'[slot'[u][n]] = Zero
        BY <1>2, <1>u, <1>13, <2>3, <3>2, AllocPageShown
      <4> QED BY <4>1 DEF NULL, INVALID, Frame, Contents, Zero
    <3> QED BY <3>1, <3>2
  <2>5. PageIs(u, PageAsked, Zero)'
    BY <2>3, <2>4, <1>4 DEF PageIs, Resident
  <2> QED BY <1>5, <1>7, <1>9, <2>1, <2>2, <2>5
<1> QED BY <1>3, <1>10, <1>11, <1>12, <1>13

(* The step that fills a page completes the turn of the loop. *)
LEMMA LoadFills ==
  ASSUME ImageInv, LoadAt, SoFar, NEW u \in User, LoadFill(u)
  PROVE  LoadAt' /\ SoFar'
<1> DEFINE f == slot[u][PageAsked]
           w == Written(CurrentTurn, call.image, Contents(f))
           i0 == call.sec
           j0 == call.turn
<1>1. /\ call.st = "fill" /\ Designated(u) /\ op.kind = "idle" /\ wild = "no" /\ CallShape
      /\ UNCHANGED <<slot, urp, op, wild>> /\ HeldOnce /\ u \in Space /\ TypeOK /\ Memory
      /\ call.image \in DOMAIN Images /\ call.buffer \in Nat
      /\ call.sec \in Nat \ {0} /\ call.turn \in Nat \ {0}
  BY DEF LoadFill, Ready, vars, ImageInv, IInv, ListInv, NoDoubleUse, Space, LoadAt
<1>2. /\ i0 \in SectionsHere /\ j0 \in TurnsOf(i0)
      /\ CurrentTurn = TurnAt(i0, j0) /\ PageAsked = NodeOf(i0, j0) /\ PageAsked \in Node
      /\ \A i \in SectionsHere : \A j \in TurnsOf(i) :
           Alone(i) /\ Done(i, j) => NodeOf(i, j) # PageAsked
  BY <1>1, AskedPage
<1>3. CASE call' = [call EXCEPT !.st = "spilled"]
  <2>1. call'.st = "spilled"
    BY <1>1, <1>3 DEF CallShape
  <2> QED BY <2>1 DEF LoadAt, SoFar
<1>4. CASE /\ cells' = IF CurrentTurn.fill THEN Filled(f, w) ELSE cells
           /\ call' = [call EXCEPT !.st = "page", !.turn = call.turn + 1]
  <2>1. /\ call'.st = "page" /\ call'.turn = call.turn + 1 /\ call'.sec = call.sec
        /\ call'.image = call.image /\ call'.buffer = call.buffer
    BY <1>1, <1>4 DEF CallShape
  <2>2. LoadAt'
    BY <1>1, <2>1 DEF LoadAt
  <2>3. PageIs(u, PageAsked, Zero) /\ SectionsDone(u)
    BY <1>1 DEF SoFar
  <2>4. f \in Frame \cup {NULL, INVALID} /\ f # INVALID /\ (f # NULL => Contents(f) = Zero)
    BY <1>1, <1>2, <2>3 DEF TypeOK, PageIs, Resident
  <2>5. OnlyAt(u, PageAsked)
    <3> SUFFICES ASSUME NEW t \in Space, NEW m \in Node, <<t, m>> # <<u, PageAsked>>, Resident(t, m)
                 PROVE  Contents(slot[t][m])' = Contents(slot[t][m])
      BY <1>1 DEF OnlyAt
    <3>1. slot[t][m] \in Frame \cup {NULL} /\ slot'[t][m] = slot[t][m]
      BY <1>1 DEF TypeOK, Resident
    <3>2. slot[t][m] \in Frame => slot[t][m] # f
      BY <1>1, <1>2 DEF HeldOnce
    <3>3. \A g \in Frame : g # f => cells'[g] = cells[g]
      <4> HIDE DEF f, w
      <4>1. CASE f = NULL
        BY <1>4, <4>1 DEF Filled
      <4>2. CASE f # NULL /\ CurrentTurn.fill
        BY <1>1, <1>4, <4>2, FilledAt
      <4> QED BY <1>4, <4>1, <4>2
    <3> QED BY <3>1, <3>2, <3>3 DEF Contents, Frame, NULL
  <2>6. ASSUME f # NULL
        PROVE  cells'[f] = IF CurrentTurn.fill THEN Written(CurrentTurn, call.image, Zero) ELSE Zero
    <3>0. f \in Frame /\ f # NULL
      BY <2>4, <2>6
    <3>1. w = Written(CurrentTurn, call.image, Zero) /\ cells[f] = Zero
      BY <2>4, <3>0 DEF Contents
    <3> HIDE DEF f, w
    <3>2. CASE CurrentTurn.fill
      BY <1>1, <1>4, <3>0, <3>1, <3>2, FilledAt
    <3> QED BY <1>4, <3>1, <3>2
  <2>7. ASSUME NEW i \in SectionsHere, NEW j \in TurnsOf(i), Done(i, j)', ~Done(i, j)
        PROVE  i = i0 /\ j = j0
    BY <1>1, <2>1, <2>7 DEF Done, TurnsOf, SectionsHere
  <2>8. ASSUME NEW s \in User, Designated(s)' PROVE s = u
    BY <1>1, <2>8, OneDesignated DEF Designated, ImageInv
  <2>9. SectionsDone(u)'
    <3> SUFFICES ASSUME NEW i \in SectionsHere', Alone(i)', NEW j \in TurnsOf(i)', Done(i, j)'
                 PROVE  PageIs(u, NodeOf(i, j), Result(i, j))'
      BY DEF SectionsDone
    <3>1. /\ i \in SectionsHere /\ j \in TurnsOf(i) /\ Alone(i)
          /\ NodeOf(i, j)' = NodeOf(i, j) /\ Result(i, j)' = Result(i, j)
      BY <2>1, SamePlace
    <3>2. PICK n : n = NodeOf(i, j)
      OBVIOUS
    <3>3. PICK r : r = Result(i, j)
      OBVIOUS
    <3>4. (slot'[u][n] # INVALID) /\ (slot'[u][n] # NULL => Contents(slot[u][n])' = r)
      <4>1. CASE Done(i, j)
        <5>1. PageIs(u, n, r) /\ n # PageAsked /\ n \in Node
          BY <1>1, <1>2, <2>3, <3>1, <3>2, <3>3, <4>1, NodesDiffer DEF SectionsDone
        <5>2. slot'[u][n] = slot[u][n] /\ Resident(u, n)
              /\ Contents(slot[u][n])' = Contents(slot[u][n])
          BY <1>1, <2>5, <5>1 DEF OnlyAt, PageIs
        <5> QED BY <5>1, <5>2 DEF PageIs, Resident
      <4>2. CASE ~Done(i, j)
        <5>1. i = i0 /\ j = j0
          BY <2>7, <3>1, <4>2
        <5>2. n = PageAsked
              /\ r = IF CurrentTurn.fill THEN Written(CurrentTurn, call.image, Zero) ELSE Zero
          BY <1>2, <3>2, <3>3, <5>1 DEF Result
        <5>3. slot'[u][n] = f
          BY <1>1, <5>2
        <5> QED BY <2>4, <2>6, <5>2, <5>3 DEF Contents
      <4> QED BY <4>1, <4>2
    <3> QED BY <3>1, <3>2, <3>3, <3>4 DEF PageIs, Resident
  <2> QED BY <2>1, <2>2, <2>8, <2>9 DEF SoFar
<1> QED BY <1>3, <1>4 DEF LoadFill

(* The turns of the section loop. *)
LEMMA LoadTurns ==
  ASSUME ImageInv, LoadAt, SoFar, LoadHeader \/ LoadSection \/ \E s \in User, g \in Node : LoadPage(s, g)
  PROVE  LoadAt' /\ SoFar'
<1>1. CallShape /\ UNCHANGED <<cells, slot, urp, wild>>
  BY DEF ImageInv, LoadHeader, LoadSection, LoadPage, AllocAt, vars
<1>2. OnlyAt(0, 0)
  BY <1>1 DEF OnlyAt, Contents
<1>3. \A s \in User : Designated(s)' <=> Designated(s)
  BY <1>1 DEF Designated
<1>4. ASSUME LoadHeader PROVE LoadAt' /\ SoFar'
  <2>1. CASE LoadReturns
    <3>1. call'.st \in {"none", "switch"}
      BY <2>1 DEF LoadReturns, NoCall
    <3> QED BY <3>1 DEF LoadAt, SoFar
  <2>2. CASE \E b \in Align : call' = [call EXCEPT !.st = "page", !.buffer = b]
    <3>0. /\ call.st = "header" /\ call.sec = 1 /\ call.turn = 1 /\ call.image \in DOMAIN Images
          /\ op'.kind = "idle"
      BY <1>4 DEF LoadHeader, LoadAt, Ready, vars
    <3>1. /\ call'.st = "page" /\ call'.image = call.image /\ call'.buffer \in Align
          /\ call'.sec = 1 /\ call'.turn = 1 /\ call'.image \in DOMAIN Images
          /\ op'.kind = "idle"
      BY <1>1, <2>2, <3>0 DEF CallShape
    <3>2. call'.buffer \in Nat
      <4>1. P \in Nat /\ Align \subseteq Cell
        BY ImageAssumption DEF ImageAssumption
      <4>2. call'.buffer \in 0 .. P - 1
        BY <3>1, <4>1 DEF Cell
      <4> QED BY <4>1, <4>2
    <3>3. LoadAt'
      BY <3>1, <3>2 DEF LoadAt
    <3>4. \A i, j : i \in SectionsHere' /\ j \in TurnsOf(i)' => ~Done(i, j)'
      BY <3>1 DEF Done, SectionsHere, TurnsOf
    <3>5. \A s \in User : SectionsDone(s)'
      BY <3>4 DEF SectionsDone
    <3> QED BY <3>1, <3>3, <3>5 DEF SoFar
  <2> QED BY <1>4, <2>1, <2>2 DEF LoadHeader
<1>5. ASSUME LoadSection PROVE LoadAt' /\ SoFar'
  <2>1. /\ call.st = "page" /\ call'.st = "page" /\ call'.image = call.image
        /\ call'.buffer = call.buffer /\ call'.sec = call.sec + 1 /\ call'.turn = 1
        /\ ~AllLoaded /\ ~TurnsAgain /\ op'.kind = "idle" /\ wild = "no"
        /\ call.image \in DOMAIN Images /\ call.buffer \in Nat
        /\ call.sec \in Nat \ {0} /\ call.turn \in Nat \ {0}
    BY <1>1, <1>5 DEF CallShape, LoadSection, LoadAt, Ready, vars
  <2>2. LoadAt'
    BY <2>1 DEF LoadAt
  <2>3. ASSUME NEW i \in SectionsHere, NEW j \in TurnsOf(i), Done(i, j)' PROVE Done(i, j)
    <3>1. i \in Nat /\ j \in Nat /\ j >= 1 /\ j <= TurnCount(Sections(call.image)[i])
          /\ TurnCount(Sections(call.image)[i]) \in Nat
      BY <2>1, SectionsShape DEF SectionsHere, TurnsOf
    <3>2. i <= call.sec
      BY <2>1, <2>3, <3>1 DEF Done
    <3>3. i = call.sec => j < call.turn
      BY <2>1, <3>1 DEF TurnsAgain, Section
    <3> QED BY <2>1, <3>1, <3>2, <3>3 DEF Done
  <2>4. ASSUME NEW s \in User, Designated(s)' PROVE SectionsDone(s)'
    <3>1. SectionsDone(s)
      BY <1>3, <2>1, <2>4 DEF SoFar
    <3>2. \A i \in SectionsHere : \A j \in TurnsOf(i) : NodeOf(i, j) # 0
      <4>1. ~IsPage(0)
        BY TreeAssumption DEF TreeAssumption, IsPage
      <4> QED BY <2>1, <4>1, NodesDiffer
    <3> QED BY <1>2, <2>1, <2>3, <3>1, <3>2, PagesKept
  <2> QED BY <2>1, <2>2, <2>4 DEF SoFar
<1>6. ASSUME NEW u \in User, NEW g \in Node, LoadPage(u, g) PROVE LoadAt' /\ SoFar'
  <2>1. /\ call.st = "page" /\ call'.st = "fill" /\ call'.image = call.image
        /\ call'.buffer = call.buffer /\ call'.sec = call.sec /\ call'.turn = call.turn
        /\ TurnsAgain /\ wild = "no" /\ g = PageAsked /\ Designated(u)
        /\ op'.kind = "alloc" /\ op'.goal = g /\ op'.src = u
        /\ call.image \in DOMAIN Images /\ call.buffer \in Nat
        /\ call.sec \in Nat \ {0} /\ call.turn \in Nat \ {0}
    BY <1>1, <1>6 DEF CallShape, LoadPage, LoadAt, AllocAt, Ready, Operation
  <2>2. /\ PageAsked' = PageAsked /\ TurnsAgain' = TurnsAgain
        /\ \A i \in SectionsHere : \A j \in TurnsOf(i) : Done(i, j)' = Done(i, j)
    BY <2>1, SamePlace
  <2>3. Asking'
    BY <1>1, <2>1, <2>2 DEF Asking, Designated
  <2>4. LoadAt'
    BY <2>1, <2>2, <2>3 DEF LoadAt
  <2>5. ASSUME NEW s \in User, Designated(s)' PROVE SectionsDone(s)'
    <3>1. SectionsDone(s)
      BY <1>3, <2>1, <2>5 DEF SoFar
    <3>2. \A i \in SectionsHere : \A j \in TurnsOf(i) : NodeOf(i, j) # 0
      <4>1. ~IsPage(0)
        BY TreeAssumption DEF TreeAssumption, IsPage
      <4> QED BY <2>1, <4>1, NodesDiffer
    <3> QED BY <1>2, <2>1, <2>2, <3>1, <3>2, PagesKept
  <2> QED BY <2>1, <2>4, <2>5 DEF SoFar
<1> QED BY <1>4, <1>5, <1>6

(* Every step keeps what is loaded. *)
LEMMA LoadKeeps ==
  ASSUME ImageInv, LoadAt, SoFar, IInv', [ImageNext]_ivars
  PROVE  LoadAt' /\ SoFar'
<1>0. CallShape
  BY DEF ImageInv
<1>1. ASSUME call'.st \notin {"header", "page", "fill"} PROVE LoadAt' /\ SoFar'
  BY <1>1 DEF LoadAt, SoFar
<1>2. ASSUME Load PROVE LoadAt' /\ SoFar'
  <2>1. PICK m \in DOMAIN Images : call' = [NoCall EXCEPT !.st = "header", !.image = m]
    BY <1>2 DEF Load
  <2>2. call'.st = "header" /\ call'.image = m /\ call'.sec = 1 /\ call'.turn = 1
    BY <2>1 DEF NoCall
  <2> QED BY <2>2 DEF LoadAt, SoFar
<1>3. ASSUME UNCHANGED call, call.st \notin {"page", "fill"} PROVE LoadAt' /\ SoFar'
  BY <1>3 DEF LoadAt, SoFar
<1>4. CASE EnterCall
  <2>1. ASSUME NEW s, NEW d, Fork(s, d) \/ Exit(s, d) PROVE call'.st \in {"clone", "exit"}
    BY <2>1 DEF Fork, Exit, NoCall
  <2>2. ASSUME NEW s, Execve(s) PROVE Load
    BY <2>2 DEF Execve
  <2>3. ASSUME NEW s, NEW n, Switch(s) \/ GrowHeap(n) \/ Write(s, n) \/ WriteNowhere
        PROVE  UNCHANGED call /\ call.st = "none"
    BY <2>3 DEF Switch, GrowHeap, Write, WriteNowhere, Enter
  <2>4. call'.st \in {"clone", "exit"} \/ Load \/ (UNCHANGED call /\ call.st = "none")
    BY <1>4, <2>1, <2>2, <2>3 DEF EnterCall
  <2> QED BY <1>1, <1>2, <1>3, <2>4
<1>5. CASE BootFirst
  BY <1>2, <1>5 DEF BootFirst
<1>6. CASE ForkReturn \/ ExitFree \/ LoadDone
  <2>1. call'.st \in {"none", "switch"}
    BY <1>6 DEF ForkReturn, ExitFree, LoadDone, LoadReturns, NoCall
  <2> QED BY <1>1, <2>1
<1>7. CASE ForkClone
  <2>1. call'.st = "cloned"
    BY <1>0, <1>7 DEF ForkClone, CallShape
  <2> QED BY <1>1, <2>1
<1>8. CASE LoadNowhere
  <2>1. UNCHANGED call /\ call.st = "page" /\ op'.kind = "idle" /\ wild' # "no"
    BY <1>8 DEF LoadNowhere, AllocAtNowhere, GoWild, Idle
  <2> QED BY <2>1 DEF LoadAt, SoFar
<1>9. CASE LoadHeader \/ LoadSection \/ \E s \in User, g \in Node : LoadPage(s, g)
  BY <1>9, LoadTurns
<1>10. ASSUME NEW s \in User, LoadFill(s) PROVE LoadAt' /\ SoFar'
  BY <1>10, LoadFills
<1>13. ASSUME NEW s \in User, ForcedSwitch(s) PROVE LoadAt' /\ SoFar'
  <2>1. call'.st = "none"
    BY <1>13 DEF ForcedSwitch, NoCall
  <2> QED BY <1>1, <2>1
<1>11. CASE MmuStep
  <2>1. CASE call.st = "fill"
    BY <1>11, <2>1, LoadAllocs
  <2>2. call.st # "page"
    <3>1. op.kind # "idle"
      BY <1>11
         DEF MmuStep, ClearReturn, CloneLeave, CloneReturn, ClearLeave, FreeReturn, AllocPage,
             ClearEnter, AllocWalk, AllocTableNull, ClearPage, CloneTable, AllocTable, ClonePage,
             CloneFail, Sweeping, Running
    <3> QED BY <3>1 DEF LoadAt
  <2>3. UNCHANGED call \/ call' = AfterFailedClone
    BY <1>11 DEF MmuStep
  <2>4. call' = AfterFailedClone => call'.st = "exit"
    BY <1>0 DEF AfterFailedClone, CallShape
  <2> QED BY <1>1, <1>3, <2>1, <2>2, <2>3, <2>4
<1>12. CASE Rest \/ UNCHANGED ivars
  <2>1. UNCHANGED <<call, cells, slot, urp, op, wild>>
    BY <1>12 DEF Rest, ivars, vars
  <2>2. LoadAt'
    BY <2>1 DEF LoadAt, TurnsAgain, AllLoaded, Section, Asking, PageAsked, CurrentTurn, Designated
  <2>3. \A s \in User : Designated(s)' = Designated(s)
    BY <2>1 DEF Designated
  <2>4. OnlyAt(0, 0)
    BY <2>1 DEF OnlyAt, Contents
  <2>5. ASSUME call.image \in DOMAIN Images, NEW s \in User, SectionsDone(s) PROVE SectionsDone(s)'
    <3>1. \A i \in SectionsHere : \A j \in TurnsOf(i) : Done(i, j)' = Done(i, j)
      BY <2>1 DEF Done
    <3>2. \A i \in SectionsHere : \A j \in TurnsOf(i) : NodeOf(i, j) # 0
      <4>1. ~IsPage(0)
        BY TreeAssumption DEF TreeAssumption, IsPage
      <4> QED BY <2>5, <4>1, NodesDiffer
    <3> QED BY <2>1, <2>4, <2>5, <3>1, <3>2, PagesKept
  <2>6. \A s \in User : PageIs(s, PageAsked, Zero)' = PageIs(s, PageAsked, Zero)
    BY <2>1 DEF PageIs, Resident, Contents, PageAsked, CurrentTurn, Section
  <2> QED BY <2>1, <2>2, <2>3, <2>5, <2>6 DEF SoFar, LoadAt
<1> QED
  BY <1>4, <1>5, <1>6, <1>7, <1>8, <1>9, <1>10, <1>11, <1>12, <1>13 DEF ImageNext, Continue

(* The byte of an address is in the page of a turn of alloc()'s loop. *)
LEMMA TurnOfByte ==
  ASSUME NEW sec \in SectionHeader, NEW k \in 0 .. sec.size - 1, PageCount(sec) \in Nat,
         (sec.address % P) + sec.size <= PageCount(sec) * P
  PROVE  \E j \in 1 .. PageCount(sec) :
           /\ (sec.address + k) \div P = sec.address \div P + j - 1
           /\ (sec.address + k) % P \in Cell
           /\ PageCount(sec) = 1 => (sec.address + k) % P = (sec.address % P) + k
<1> DEFINE a == sec.address
           c == PageCount(sec)
           q == a \div P
           r == a % P
           q2 == (a + k) \div P
           r2 == (a + k) % P
<1>1. P \in Nat /\ P > 1 /\ a \in Nat /\ sec.size \in Nat /\ k \in Nat /\ a + k \in Nat /\ k < sec.size
      /\ c \in Nat
  BY ImageAssumption DEF ImageAssumption, SectionHeader
<1>2. /\ a = P * q + r /\ q \in Nat /\ r \in 0 .. P - 1
      /\ a + k = P * q2 + r2 /\ q2 \in Nat /\ r2 \in 0 .. P - 1
      /\ r + sec.size <= c * P
  <2>1. a = P * q + r /\ q \in Nat /\ r \in 0 .. P - 1
    <3> HIDE DEF a
    <3> QED BY <1>1, DivMod
  <2>2. a + k = P * q2 + r2 /\ q2 \in Nat /\ r2 \in 0 .. P - 1
    <3>1. PICK b \in Nat : b = a + k
      BY <1>1
    <3>2. b = P * (b \div P) + (b % P) /\ b \div P \in Nat /\ b % P \in 0 .. P - 1
      BY <1>1, DivMod
    <3> HIDE DEF a
    <3> QED BY <3>1, <3>2
  <2> QED BY <2>1, <2>2
<1>3. r2 \in Cell
  BY <1>2 DEF Cell
<1> HIDE DEF a, c, q, r, q2, r2
<1>4. P * (q2 - q) + r2 = r + k
  BY <1>1, <1>2
<1>5. P * (q2 - q) < P * c
  BY <1>1, <1>2, <1>4
<1>6. q2 - q < c
  BY <1>1, <1>2, <1>5
<1>7. q2 - q >= 0
  <2>1. P * (q2 - q) > 0 - P
    BY <1>1, <1>2, <1>4
  <2>2. P * (q2 - q) > P * (0 - 1)
    BY <1>1, <2>1
  <2> QED BY <1>1, <1>2, <2>2
<1>8. q2 - q + 1 \in 1 .. c /\ q2 = q + (q2 - q + 1) - 1
  BY <1>1, <1>2, <1>6, <1>7
<1>9. c = 1 => r2 = r + k
  BY <1>1, <1>2, <1>4, <1>6, <1>7
<1> QED BY <1>3, <1>8, <1>9 DEF a, c, q, r, q2, r2

(* When elf_load returns, every well placed section is in the memory of the *)
(* process, byte for byte, for every page size, every file and whatever was *)
(* in the frames before.                                                    *)
THEOREM FilesAreLoaded == ImageSpec => []LoadedWhole
<1>1. ImageInit => LoadAt /\ SoFar
  BY DEF ImageInit, NoCall, LoadAt, SoFar
<1>2. ImageInv /\ ImageInv' /\ LoadAt /\ SoFar /\ [ImageNext]_ivars => LoadAt' /\ SoFar'
  BY LoadKeeps DEF ImageInv
<1>3. ImageInv /\ LoadAt /\ SoFar => LoadedWhole
  <2> SUFFICES ASSUME ImageInv, LoadAt, SoFar, call.st = "page", AllLoaded, wild = "no", ~RomMapped,
                      NEW s \in User, Designated(s),
                      NEW i \in 1 .. Len(Sections(call.image)), WellPlaced(Sections(call.image), i),
                      NEW k \in 0 .. Sections(call.image)[i].size - 1
               PROVE  ByteAt(s, Sections(call.image)[i].address + k)
                        = IF Sections(call.image)[i].type = "nobits" THEN <<"zero">>
                          ELSE FileByte(call.image, Sections(call.image)[i].offset + k)
    BY DEF LoadedWhole
  <2> DEFINE sec == Sections(call.image)[i]
             a == sec.address + k
  <2>1. /\ call.image \in DOMAIN Images /\ i \in SectionsHere /\ call.sec \in Nat /\ call.buffer \in Nat
        /\ Len(Sections(call.image)) \in Nat
        /\ sec \in SectionHeader /\ PageCount(sec) \in Nat /\ i < call.sec
    BY SectionsShape DEF LoadAt, AllLoaded, SectionsHere
  <2>2. /\ Loadable(sec) /\ TurnCount(sec) = PageCount(sec)
        /\ (sec.address % P) + sec.size <= PageCount(sec) * P
        /\ sec.type # "nobits" => PageCount(sec) = 1 /\ sec.size < P
        /\ \A m \in i + 1 .. Len(Sections(call.image)) :
             PagesOf(sec) \cap PagesOf(Sections(call.image)[m]) = {}
    BY DEF WellPlaced, TurnCount
  <2>3. Alone(i)
    BY <2>1, <2>2 DEF Alone, SectionsHere
  <2>4. PICK j \in 1 .. PageCount(sec) :
          /\ a \div P = sec.address \div P + j - 1
          /\ a % P \in Cell
          /\ PageCount(sec) = 1 => a % P = (sec.address % P) + k
    BY <2>1, <2>2, TurnOfByte
  <2>5. j \in TurnsOf(i) /\ Done(i, j)
    BY <2>1, <2>2, <2>4 DEF TurnsOf, Done
  <2>6. PageIs(s, NodeOf(i, j), Result(i, j))
    BY <2>1, <2>3, <2>5 DEF SoFar, SectionsDone
  <2>7. NodeOf(i, j) \in Node /\ IsPage(NodeOf(i, j)) /\ s \in Space
    BY <2>1, <2>5, NodesDiffer DEF Space
  <2>8. Contents(slot[s][NodeOf(i, j)]) = Result(i, j)
    BY <2>6, <2>7 DEF PageIs, RomMapped
  <2>9. TurnAt(i, j).page = a \div P /\ TurnAt(i, j).fill = (sec.type # "nobits")
    BY <2>4 DEF TurnAt, Turn
  <2>10. ByteAt(s, a) = Result(i, j)[a % P]
    BY <2>8, <2>9 DEF ByteAt, NodeOf
  <2>11. CASE sec.type = "nobits"
    <3>1. Result(i, j) = Zero
      BY <2>9, <2>11 DEF Result
    <3>2. Zero[a % P] = <<"zero">>
      BY <2>4 DEF Zero
    <3> QED BY <2>10, <2>11, <3>1, <3>2
  <2>12. CASE sec.type # "nobits"
    <3> DEFINE t == TurnAt(i, j)
    <3>1. P \in Nat /\ P > 1 /\ sec.offset \in Nat /\ sec.size \in Nat /\ sec.address \in Nat
          /\ k \in Nat /\ k < sec.size
      BY <2>1, ImageAssumption DEF ImageAssumption, SectionHeader
    <3>2. j = 1 /\ sec.size < P /\ a % P = (sec.address % P) + k
      BY <2>2, <2>4, <2>12
    <3>3. sec.size % P = sec.size
      BY <3>1, <3>2, SmallMod
    <3>4. t.offset = sec.address % P
      BY <3>2 DEF TurnAt, Turn
    <3>5. t.data = sec.offset
      <4>1. t.data = (call.buffer + sec.offset) - call.buffer
        BY <3>2 DEF TurnAt, Turn
      <4> QED BY <2>1, <3>1, <4>1
    <3>6. t.length = sec.size
      <4>1. t.length = sec.size % P
        BY <3>2 DEF TurnAt, Turn
      <4> QED BY <3>3, <4>1
    <3> DEFINE x == a % P
               y == sec.address % P
    <3>7. x \in t.offset .. t.offset + t.length - 1 /\ t.data + x - t.offset = sec.offset + k
      <4>1. y \in Nat /\ x = y + k /\ t.offset = y
        BY <3>1, <3>2, <3>4, DivMod
      <4> HIDE DEF x, y, t, sec
      <4> QED BY <3>1, <3>5, <3>6, <4>1
    <3>8. Result(i, j) = Written(t, call.image, Zero)
      BY <2>9, <2>12 DEF Result
    <3>9. Written(t, call.image, Zero)[x] = FileByte(call.image, t.data + x - t.offset)
      <4>1. x \in Cell
        BY <2>4
      <4> HIDE DEF x, t
      <4> QED BY <3>7, <4>1 DEF Written
    <3> QED BY <2>10, <2>12, <3>7, <3>8, <3>9
  <2> QED BY <2>11, <2>12
<1> QED BY <1>1, <1>2, <1>3, ImageInvariance, PTL DEF ImageSpec

=============================================================================
