------------------------------- MODULE Mmu040 -------------------------------
(***************************************************************************)
(* The physical-frame manager and the three-level translation trees of     *)
(* kernel/mmu/mmu040.c.                                                    *)
(*                                                                         *)
(* Every handler of the kernel runs with interrupts masked, so operations  *)
(* do not interleave with each other.  An operation still takes many steps *)
(* here, one for each call of _alloc_frame or _free_frame and one for each *)
(* loop it leaves, because an allocation may fail between any two of them: *)
(* `op' says how far the running operation has come.                       *)
(*                                                                         *)
(* A translation tree is a function from Node to what its descriptor       *)
(* holds.  Nodes are numbered in preorder, the order in which the nested   *)
(* loops of the code visit them: node 0 is the root table, Level 1 the     *)
(* pointer tables, Level 2 the page tables, Level 3 the pages.             *)
(***************************************************************************)
EXTENDS Integers, Sequences

CONSTANTS
  Total,        (* frames of DRAM; frame 1 lies at MMU_DRAM_START          *)
  Boot,         (* the first Boot of them are mapped by the boot loader    *)
  NodeCount,    (* nodes of a translation tree                             *)
  Parent,       (* Parent[n]: the table that holds node n's descriptor     *)
  Level,        (* Level[n]: 0 root, 1 pointer table, 2 page table, 3 page *)
  User,         (* the userspace handles                                   *)
  Kernel,       (* the supervisor's tree, which SRP designates             *)
  BootTree,     (* the supervisor's tree as the boot loader built it       *)
  MAPPER_PAGES  (* size of the mapper stack                                *)

NULL    == 0          \* physical address 0, the boot ROM
INVALID == -1         \* a descriptor whose type is not resident
Frame   == 1 .. Total
Node    == 0 .. NodeCount - 1
Space   == User \cup {Kernel}

(* The boot loader hands over the first Boot frames of DRAM, mapped in      *)
(* ascending order, and the supervisor's tree lives inside them.            *)
ASSUME FrameAssumption ==
  /\ Total \in Nat /\ Boot \in 0 .. Total
  /\ MAPPER_PAGES \in Nat /\ MAPPER_PAGES >= 8

ASSUME TreeAssumption ==
  /\ NodeCount \in Nat \ {0}
  /\ Parent \in [Node -> Node] /\ Parent[0] = 0
  /\ \A n \in Node \ {0} : Parent[n] < n
  /\ Level \in [Node -> 0 .. 3] /\ Level[0] = 0
  /\ \A n \in Node \ {0} : Level[n] = Level[Parent[n]] + 1

ASSUME SpaceAssumption ==
  /\ Kernel \notin User
  /\ BootTree \in [Node -> (1 .. Boot) \cup {INVALID}]
  /\ BootTree[0] # INVALID
  /\ \A n \in Node : BootTree[n] # INVALID => BootTree[Parent[n]] # INVALID
  /\ \A m, n \in Node : BootTree[m] = BootTree[n] /\ BootTree[m] # INVALID => m = n

VARIABLES
  free_frame,   \* the free list, head first; the link word in a frame is abstracted
  free_frames,  \* _mem_layout.free_frames
  slot,         \* slot[s][n]: what the descriptor of node n holds in tree s
  urp,          \* the URP register: the frame of the root table it designates
  mapping,      \* _mapper.mapping, the height of the mapper stack
  op,           \* the running operation
  wild          \* why the hardware follows descriptors that nobody wrote

vars == <<free_frame, free_frames, slot, urp, mapping, op, wild>>

Children(t) == {n \in Node \ {0} : Parent[n] = t}
Resident(s, n) == slot[s][n] # INVALID
IsPage(n) == Level[n] = 3

(* The tables through which an operation that stands at table t came down. *)
Above(t) == {t, Parent[t], Parent[Parent[t]]}

-----------------------------------------------------------------------------
(* The running operation: src and dst are the trees it works on, tab the    *)
(* table whose loop it is in, goal the page alloc_at was asked for.         *)

Idle == [kind |-> "idle", src |-> Kernel, dst |-> Kernel, tab |-> 0, goal |-> 0]

Kinds == {"idle", "clear", "free", "clone", "alloc"}

Operation(kind, s, d, g) ==
  [kind |-> kind, src |-> s, dst |-> d, tab |-> 0, goal |-> g]

EnterLoop(n) == op' = [op EXCEPT !.tab = n]
LeaveLoop    == op' = [op EXCEPT !.tab = Parent[op.tab]]
Return       == op' = Idle

(* _build_free_frame_list: the frames above the boot mappings are pushed in *)
(* ascending order, so the list starts with the last frame of DRAM.         *)
BuildFreeFrameList == [i \in 1 .. Total - Boot |-> Total + 1 - i]

Init ==
  /\ free_frame = BuildFreeFrameList
  /\ free_frames = Total - Boot
  /\ slot = [s \in Space |-> IF s = Kernel THEN BootTree ELSE [n \in Node |-> INVALID]]
  /\ urp = NULL
  /\ mapping = 0
  /\ op = Idle
  /\ wild = "no"

-----------------------------------------------------------------------------
(* The two primitives, as the values they leave behind.                     *)

(* _alloc_frame: the counter, not the list, says whether memory is left;    *)
(* the head of the list is taken and its link becomes the new head.         *)
(* A faulty variant: the last frame is never given out. *)
AllocFailsEarly == free_frames <= 1

AllocFails == free_frames = 0

AllocFrame == Head(free_frame)

(* A faulty variant: the frame is zeroed before its link is read. *)
TakeFrameZeroedFirst ==
  /\ ~AllocFails
  /\ free_frames' = free_frames - 1
  /\ free_frame' = <<>>

TakeFrame ==
  /\ ~AllocFails
  /\ free_frames' = free_frames - 1
  /\ free_frame' = Tail(free_frame)

(* _free_frame: pushes the frame; free_frames is left alone.  The boot ROM  *)
(* cannot be written, so "freeing" NULL leaves a list headed, and hence     *)
(* ended, by NULL.                                                          *)
Pushed(list, f) == IF f = NULL THEN <<>> ELSE <<f>> \o list

FreeFrame(f) == free_frame' = Pushed(free_frame, f) /\ UNCHANGED free_frames

SetSlot(s, n, f) == slot' = [slot EXCEPT ![s][n] = f]

(* The hardware follows descriptors read from the ROM or from a freed frame. *)
GoWild(why) ==
  /\ wild' = why
  /\ op' = Idle
  /\ UNCHANGED <<free_frame, free_frames, slot, urp, mapping>>

Ready == wild = "no" /\ op.kind = "idle"
Running(kind) == wild = "no" /\ op.kind = kind

-----------------------------------------------------------------------------
(* mmu040_init_userspace(s): on failure the handle keeps root pointer 0.    *)

InitUserspace(s) ==
  /\ Ready
  /\ ~Resident(s, 0)
  /\ \/ /\ TakeFrame
        /\ SetSlot(s, 0, AllocFrame)
        /\ urp' = AllocFrame
     \/ /\ AllocFails
        /\ SetSlot(s, 0, NULL)
        /\ UNCHANGED <<free_frame, free_frames, urp>>
  /\ UNCHANGED <<mapping, op, wild>>

(* mmu040_switch_userspace(s). *)
SwitchUserspace(s) ==
  /\ Ready
  /\ Resident(s, 0)
  /\ urp' = slot[s][0]
  /\ UNCHANGED <<free_frame, free_frames, slot, mapping, op, wild>>

-----------------------------------------------------------------------------
(* mmu040_clear_userspace(s) and mmu040_free_userspace(s).  A frame's       *)
(* descriptor is invalid here from the moment the frame is on the list: the *)
(* code leaves the bits in a table it frees next, and resets the root       *)
(* table's descriptor once the pointer table is freed.                      *)

Sweeping == Running("clear") \/ Running("free")

ClearUserspace(kind, s) ==
  /\ Ready
  /\ Resident(s, 0)
  /\ IF slot[s][0] = NULL
     THEN GoWild("rom")
     ELSE /\ op' = Operation(kind, s, s, 0)
          /\ mapping' = mapping + 1
          /\ UNCHANGED <<free_frame, free_frames, slot, urp, wild>>

(* The next resident descriptor of the table the sweep stands in. *)
NextToClear(n) ==
  /\ n \in Children(op.tab) /\ Resident(op.src, n)
  /\ \A m \in Children(op.tab) : Resident(op.src, m) => n <= m

ClearEnter(n) ==
  /\ Sweeping
  /\ NextToClear(n) /\ ~IsPage(n)
  /\ EnterLoop(n)
  /\ mapping' = mapping + 1
  /\ UNCHANGED <<free_frame, free_frames, slot, urp, wild>>

ClearPage(n) ==
  /\ Sweeping
  /\ NextToClear(n) /\ IsPage(n)
  /\ FreeFrame(slot[op.src][n])
  /\ SetSlot(op.src, n, INVALID)
  /\ UNCHANGED <<urp, mapping, op, wild>>

(* A faulty variant: the loop stops before its last descriptor. *)
NothingToClearButLast ==
  \A m \in Children(op.tab) :
    (\E k \in Children(op.tab) : k > m) => ~Resident(op.src, m)

NothingToClear == \A m \in Children(op.tab) : ~Resident(op.src, m)

ClearLeave ==
  /\ Sweeping
  /\ op.tab # 0 /\ NothingToClear
  /\ mapping' = mapping - 1
  /\ FreeFrame(slot[op.src][op.tab])
  /\ SetSlot(op.src, op.tab, INVALID)
  /\ LeaveLoop
  /\ UNCHANGED <<urp, wild>>

ClearReturn ==
  /\ Running("clear")
  /\ op.tab = 0 /\ NothingToClear
  /\ mapping' = mapping - 1
  /\ Return
  /\ UNCHANGED <<free_frame, free_frames, slot, urp, wild>>

FreeReturn ==
  /\ Running("free")
  /\ op.tab = 0 /\ NothingToClear
  /\ mapping' = mapping - 1
  /\ FreeFrame(slot[op.src][0])
  /\ SetSlot(op.src, 0, INVALID)
  /\ Return
  /\ UNCHANGED <<urp, wild>>

-----------------------------------------------------------------------------
(* mmu040_clone_userspace(s, d).  Its one caller, _fork, passes the handle  *)
(* process_create has just initialised, whose root table is all invalid.    *)

CloneUserspace(s, d) ==
  /\ Ready
  /\ s # d /\ Resident(s, 0) /\ Resident(d, 0)
  /\ \A n \in Node \ {0} : ~Resident(d, n)
  /\ IF slot[s][0] = NULL
     THEN GoWild("rom")
     ELSE /\ op' = Operation("clone", s, d, 0)
          /\ mapping' = mapping + 2
          /\ UNCHANGED <<free_frame, free_frames, slot, urp, wild>>

ToClone(n) ==
  n \in Children(op.tab) /\ Resident(op.src, n) /\ ~Resident(op.dst, n)

NextToClone(n) == ToClone(n) /\ \A m \in Children(op.tab) : ToClone(m) => n <= m

NothingToClone == \A m \in Children(op.tab) : ~ToClone(m)

CloneTable(n) ==
  /\ Running("clone")
  /\ NextToClone(n) /\ ~IsPage(n)
  /\ TakeFrame
  /\ SetSlot(op.dst, n, AllocFrame)
  /\ EnterLoop(n)
  /\ mapping' = mapping + 2
  /\ UNCHANGED <<urp, wild>>

(* A faulty variant: the copied descriptor keeps the original's frame. *)
ClonePageShared(n) ==
  /\ Running("clone")
  /\ NextToClone(n) /\ IsPage(n)
  /\ TakeFrame
  /\ SetSlot(op.dst, n, slot[op.src][n])
  /\ UNCHANGED <<urp, mapping, op, wild>>

ClonePage(n) ==
  /\ Running("clone")
  /\ NextToClone(n) /\ IsPage(n)
  /\ TakeFrame
  /\ SetSlot(op.dst, n, AllocFrame)
  /\ UNCHANGED <<urp, mapping, op, wild>>

(* A faulty variant: every error path pops the two root tables only. *)
PoppedOnErrorFlat(n) == 2

(* The error path of each loop pops what the loops around it pushed and     *)
(* returns -ENOMEM; what was built so far stays linked under d.             *)
PoppedOnError(n) == 2 * Level[n]

(* A faulty variant: the error path empties the new root table. *)
CloneFailUnlinks(n) ==
  /\ Running("clone")
  /\ NextToClone(n) /\ AllocFails
  /\ mapping' = mapping - PoppedOnError(n)
  /\ slot' = [slot EXCEPT ![op.dst] = [m \in Node |-> IF m = 0 THEN @[0] ELSE INVALID]]
  /\ Return
  /\ UNCHANGED <<free_frame, free_frames, urp, wild>>

CloneFail(n) ==
  /\ Running("clone")
  /\ NextToClone(n) /\ AllocFails
  /\ mapping' = mapping - PoppedOnError(n)
  /\ Return
  /\ UNCHANGED <<free_frame, free_frames, slot, urp, wild>>

(* A faulty variant: the index of the outer loop does not advance. *)
CloneLeaveStuck ==
  /\ Running("clone")
  /\ op.tab # 0 /\ NothingToClone
  /\ UNCHANGED vars

CloneLeave ==
  /\ Running("clone")
  /\ op.tab # 0 /\ NothingToClone
  /\ mapping' = mapping - 2
  /\ LeaveLoop
  /\ UNCHANGED <<free_frame, free_frames, slot, urp, wild>>

CloneReturn ==
  /\ Running("clone")
  /\ op.tab = 0 /\ NothingToClone
  /\ mapping' = mapping - 2
  /\ Return
  /\ UNCHANGED <<free_frame, free_frames, slot, urp, wild>>

-----------------------------------------------------------------------------
(* mmu040_alloc_at: the tree is the one the register designates, whichever  *)
(* process that belongs to.                                                 *)

Designated(s) == s = Kernel \/ (urp # NULL /\ slot[s][0] = urp)

AllocAt(s, g) ==
  /\ Ready
  /\ IsPage(g) /\ Designated(s)
  /\ op' = Operation("alloc", s, s, g)
  /\ mapping' = mapping + 1
  /\ UNCHANGED <<free_frame, free_frames, slot, urp, wild>>

AllocAtNowhere ==
  /\ Ready
  /\ \A s \in User : ~Designated(s)
  /\ GoWild(IF urp = NULL THEN "rom" ELSE "freed")

(* The table below op.tab on the way to op.goal, _get_table_indices. *)
OnTheWay(n) == n \in Children(op.tab) /\ n \in Above(Parent[op.goal])

AllocWalk(n) ==
  /\ Running("alloc")
  /\ OnTheWay(n) /\ Resident(op.src, n)
  /\ EnterLoop(n)
  /\ mapping' = mapping + 1
  /\ UNCHANGED <<free_frame, free_frames, slot, urp, wild>>

AllocTable(n) ==
  /\ Running("alloc")
  /\ OnTheWay(n) /\ ~Resident(op.src, n)
  /\ TakeFrame
  /\ SetSlot(op.src, n, AllocFrame)
  /\ EnterLoop(n)
  /\ mapping' = mapping + 1
  /\ UNCHANGED <<urp, wild>>

(* The result of _alloc_frame is not tested: address 0 becomes the table.   *)
AllocTableNull(n) ==
  /\ Running("alloc")
  /\ OnTheWay(n) /\ ~Resident(op.src, n)
  /\ AllocFails
  /\ GoWild("rom")

(* A faulty variant: the old descriptor is not tested for residency. *)
ListForPageUntested == Pushed(free_frame, slot[op.src][op.goal])

(* The list after a resident page's old frame has been pushed on it. *)
ListForPage ==
  IF Resident(op.src, op.goal)
  THEN Pushed(free_frame, slot[op.src][op.goal])
  ELSE free_frame

AllocPage ==
  /\ Running("alloc")
  /\ Parent[op.goal] = op.tab
  /\ IF AllocFails
     THEN /\ SetSlot(op.src, op.goal, NULL)
          /\ free_frame' = ListForPage
          /\ UNCHANGED free_frames
     ELSE /\ SetSlot(op.src, op.goal, Head(ListForPage))
          /\ free_frame' = Tail(ListForPage)
          /\ free_frames' = free_frames - 1
  /\ mapping' = mapping - 3
  /\ Return
  /\ UNCHANGED <<urp, wild>>

(* Once the hardware walks garbage nothing more is said about the run. *)
Wild == wild # "no" /\ UNCHANGED vars

-----------------------------------------------------------------------------
Call ==
  \/ \E s \in User : InitUserspace(s)
  \/ \E s \in User : SwitchUserspace(s)
  \/ \E s \in User, kind \in {"clear", "free"} : ClearUserspace(kind, s)
  \/ \E s, d \in User : CloneUserspace(s, d)
  \/ \E s \in Space, g \in Node : AllocAt(s, g)
  \/ AllocAtNowhere

Step ==
  \/ \E n \in Node : ClearEnter(n)
  \/ \E n \in Node : ClearPage(n)
  \/ ClearLeave
  \/ ClearReturn
  \/ FreeReturn
  \/ \E n \in Node : CloneTable(n)
  \/ \E n \in Node : ClonePage(n)
  \/ \E n \in Node : CloneFail(n)
  \/ CloneLeave
  \/ CloneReturn
  \/ \E n \in Node : AllocWalk(n)
  \/ \E n \in Node : AllocTable(n)
  \/ \E n \in Node : AllocTableNull(n)
  \/ AllocPage

Next == Call \/ Step \/ Wild

Spec == Init /\ [][Next]_vars

-----------------------------------------------------------------------------
Listed == {free_frame[i] : i \in 1 .. Len(free_frame)}
Held   == {slot[s][n] : s \in Space, n \in Node} \ {NULL, INVALID}
Owned  == [s \in Space |-> {slot[s][n] : n \in Node} \ {NULL, INVALID}]

Store == INSTANCE FrameStore WITH Owner <- Space, free <- Listed, owned <- Owned

(* The frame manager and the trees implement the store of FrameStore: each  *)
(* step of each operation, those of clones that fail half way included,     *)
(* moves one frame between the list and one tree, or none.                  *)
ImplementsStore == Store!Spec

(* Type correctness of the frame manager and of the running operation. *)
TypeOK ==
  /\ free_frame \in Seq(Frame)
  /\ free_frames \in Nat
  /\ slot \in [Space -> [Node -> Frame \cup {NULL, INVALID}]]
  /\ urp \in Frame \cup {NULL}
  /\ mapping \in Nat
  /\ op \in [kind : Kinds, src : Space, dst : Space, tab : Node, goal : Node]
  /\ wild \in {"no", "rom", "freed"}

(* _alloc_frame tests the counter and then dereferences the head of the     *)
(* list: the list is never shorter than the counter says, so that head is   *)
(* always a frame.                                                          *)
CounterCovered == free_frames <= Len(free_frame)

(* No frame is twice on the free list. *)
ListDistinct ==
  \A i, j \in 1 .. Len(free_frame) : free_frame[i] = free_frame[j] => i = j

(* No frame is on the free list while some descriptor holds it. *)
ListUnheld ==
  \A s \in Space, n \in Node, i \in 1 .. Len(free_frame) : slot[s][n] # free_frame[i]

(* No frame is under two descriptors, of one tree or of two. *)
HeldOnce ==
  \A s, t \in Space, m, n \in Node :
    slot[s][m] = slot[t][n] /\ slot[s][m] \in Frame => s = t /\ m = n

(* No frame is in two places: processes share no memory, and none of theirs *)
(* is handed out again by _alloc_frame while they can reach it.             *)
NoDoubleUse == ListDistinct /\ ListUnheld /\ HeldOnce

(* A descriptor is resident only below a resident table, at every moment of *)
(* a clear, of a free, of a clone and of a clone that ran out of memory: a  *)
(* later clear reaches everything that was ever linked.                     *)
TreeClosed ==
  \A s \in Space, n \in Node : Resident(s, n) => Resident(s, Parent[n])

(* When the outermost loop of mmu040_clone_userspace ends, the copy has     *)
(* exactly the tables and pages of the original.                            *)
CloneComplete ==
  op.kind = "clone" /\ op.tab = 0 /\ NothingToClone =>
    \A n \in Node : Resident(op.dst, n) <=> Resident(op.src, n)

(* The mapper stack never overflows (_mapping_push would panic; a step      *)
(* pushes at most two pages of its own), and every return, the error        *)
(* returns of clone included, leaves it empty.                              *)
MapperFits ==
  wild = "no" => /\ mapping + 2 <= MAPPER_PAGES
                 /\ op.kind = "idle" => mapping = 0

(* The boot ROM is taken for a translation table only when the counter      *)
(* reads zero, or when no userspace was ever switched to.                   *)
RomTableOnlyWhenExhausted == wild = "rom" => free_frames = 0 \/ urp = NULL

(* While no page is mapped to the boot ROM, no step drops a frame: what was *)
(* on the list or in a tree is afterwards on the list or in a tree, also    *)
(* when a clone fails half way.                                             *)
RomMapped == \E s \in Space, n \in Node : IsPage(n) /\ slot[s][n] = NULL
NoFrameDropped ==
  [][RomMapped \/ (Listed \cup Held) \subseteq (Listed \cup Held)']_vars

(* What mmu040_print_status reports as RAM in use are the frames that are   *)
(* not on the free list.                                                    *)
RamUsedIsReported ==
  op.kind = "idle" /\ wild = "no" => Total - free_frames = Total - Len(free_frame)
=============================================================================
