-------------------------------- MODULE Image --------------------------------
(***************************************************************************)
(* What is in the memory of a process: the loader of                       *)
(* kernel/modules/binformat/elf.c on top of the frame manager of Mmu040,   *)
(* with the contents of frames, which Mmu040 leaves out, and the calls     *)
(* that boot, execve, fork and exit make.                                  *)
(*                                                                         *)
(* A page has P cells.  A cell holds zero, a byte of a file, something a   *)
(* process wrote, the link word of the free list or part of a descriptor.  *)
(***************************************************************************)
EXTENDS Mmu040, FiniteSetsExt

CONSTANTS
  P,          (* MMU_PAGE_SIZE                                             *)
  PageNode,   (* PageNode[k]: the node of the k-th page of the user space  *)
  Images,     (* the files: whether the header is good, length, sections   *)
  Align,      (* where in a page the buffer for the file may start         *)
  First,      (* the handle of the first process                           *)
  MaxCalls    (* bounds what happens after boot                            *)

Cell      == 0 .. P - 1
StackPage == Max(DOMAIN PageNode)

ASSUME ImageAssumption ==
  /\ P \in Nat \ {0, 1} /\ Align \subseteq Cell
  /\ StackPage \in Nat \ {0} /\ DOMAIN PageNode = 0 .. StackPage
  /\ \A k \in 0 .. StackPage : PageNode[k] \in Node /\ IsPage(PageNode[k])
  /\ \A j, k \in 0 .. StackPage : PageNode[j] = PageNode[k] => j = k
  /\ First \in User /\ MaxCalls \in Nat

VARIABLES
  cells,   \* the contents of every frame
  call,    \* the call of the kernel under way
  calls,   \* how many there were since boot
  current, \* _process_current
  \* history: who stores.  A thread is named by the call in which it began or
  \* last changed its place: by a fork, a switch or an exit.
  thread,  \* the thread that runs
  saved,   \* saved[s]: the thread whose registers the entry of s holds
  heir     \* heir[s]: the threads whose stores the memory of s may show

who   == <<current, thread, saved, heir>>
ivars == <<vars, cells, call, calls, who>>

-----------------------------------------------------------------------------
(* Contents *)

Zero  == [c \in Cell |-> <<"zero">>]
Table == [c \in Cell |-> <<"descriptor">>]
Rom   == [c \in Cell |-> <<"rom">>]

Contents(f) == IF f = NULL THEN Rom ELSE cells[f]

(* _free_frame writes the link word at the start of the frame. *)
Linked(f) == IF f = NULL THEN cells ELSE [cells EXCEPT ![f][0] = <<"link">>]

Filled(f, with) == IF f = NULL THEN cells ELSE [cells EXCEPT ![f] = with]

(* A faulty variant: _alloc_frame does not zero the frame. *)
FreshUncleared(f) == cells

(* _alloc_frame zeroes the frame, the link word included. *)
Fresh(f) == Filled(f, Zero)

-----------------------------------------------------------------------------
(* The loops of elf_load.  A section is skipped when its address or its     *)
(* type is zero or it is not to be allocated; the stack page is allocated   *)
(* like a section without data.                                             *)

SectionHeader ==
  [address : Nat, type : {"null", "nobits", "progbits"}, alloc : BOOLEAN, offset : Nat, size : Nat]

Loadable(sec) == sec.address # 0 /\ sec.type # "null" /\ sec.alloc

Stack == [address |-> StackPage * P, type |-> "nobits", alloc |-> TRUE, offset |-> 0, size |-> P]

Sections(m) == Images[m].sections \o <<Stack>>

PageCount(sec) == (sec.size + P - 1) \div P

(* How often the loop of alloc() turns for a section. *)
TurnCount(sec) == IF Loadable(sec) THEN PageCount(sec) ELSE 0

(* alloc(): its locals in the i-th turn of the loop.  From the second turn  *)
(* on data is the next page boundary of the buffer.                         *)
Turn(sec, buffer, i) ==
  LET first == sec.address % P
      data  == buffer + sec.offset
  IN  [page   |-> sec.address \div P + i - 1,
       fill   |-> sec.type # "nobits",
       offset |-> IF i = 1 THEN first ELSE 0,
       data   |-> (IF i = 1 THEN data ELSE (data \div P + i - 1) * P) - buffer,
       length |-> (IF i = 1 THEN sec.size ELSE sec.size - (P - first) - (i - 2) * P) % P]

(* The pages alloc() asks for, each of which is a page of the user space.   *)
PagesOf(sec) == {sec.address \div P + i - 1 : i \in 1 .. TurnCount(sec)}

ASSUME FileAssumption ==
  \A m \in DOMAIN Images :
    /\ Images[m].sections \in Seq(SectionHeader)
    /\ \A i \in 1 .. Len(Images[m].sections) :
         PagesOf(Images[m].sections[i]) \subseteq 0 .. StackPage

(* What the buffer holds at distance j from its start. *)
FileByte(m, j) == IF j \in 0 .. Images[m].length - 1 THEN <<"file", m, j>> ELSE <<"heap">>

(* A faulty variant: the offset in the page is left out. *)
WrittenAtStart(t, m, old) ==
  [c \in Cell |-> IF c < t.length THEN FileByte(m, t.data + c) ELSE old[c]]

(* mmu040_fill_frame. *)
Written(t, m, old) ==
  [c \in Cell |-> IF c \in t.offset .. t.offset + t.length - 1
                  THEN FileByte(m, t.data + c - t.offset) ELSE old[c]]

(* The call of the kernel under way: which part of it comes next; the file  *)
(* elf_load loads, where in a page its buffer starts, the section it is at  *)
(* and the turn of alloc()'s loop; the processes a fork or an exit is about.*)
NoCall ==
  [st |-> "none", image |-> 0, buffer |-> 0, sec |-> 1, turn |-> 1, src |-> First, dst |-> First]

ImageInit ==
  /\ Init
  /\ cells = [f \in Frame |-> IF f <= Boot THEN Table ELSE [Zero EXCEPT ![0] = <<"link">>]]
  /\ call = [NoCall EXCEPT !.st = "boot"]
  /\ calls = 0
  /\ current = First /\ thread = 0
  /\ saved = [s \in User |-> 0] /\ heir = [s \in User |-> {0}]

-----------------------------------------------------------------------------
(* The calls of the kernel, each of which runs to its end uninterrupted.    *)

Enter ==
  /\ call.st = "none" /\ calls < MaxCalls
  /\ calls' = calls + 1

Load == \E m \in DOMAIN Images : call' = [NoCall EXCEPT !.st = "header", !.image = m]

(* process_create.  The new process may show what it inherits and its own   *)
(* stores.                                                                  *)
Create(s, inherits) ==
  /\ InitUserspace(s)
  /\ cells' = IF AllocFails THEN cells ELSE Filled(AllocFrame, Table)
  /\ saved' = [saved EXCEPT ![s] = calls']
  /\ heir' = [heir EXCEPT ![s] = inherits \cup {calls'}]

(* main(): process_create, then elf_load. *)
BootFirst ==
  /\ call.st = "boot"
  /\ UNCHANGED calls
  /\ Create(First, {})
  /\ Load
  /\ UNCHANGED <<current, thread>>

(* fork: process_create, then mmu_clone_userspace; if that fails,           *)
(* process_exit for the child.  The caller runs on, with the register at    *)
(* the child.                                                               *)
Fork(s, d) ==
  /\ Enter
  /\ s = current /\ s # d /\ Resident(s, 0)
  /\ Create(d, heir[s])
  /\ call' = [NoCall EXCEPT !.st = "clone", !.src = s, !.dst = d]
  /\ UNCHANGED <<current, thread>>

ForkClone ==
  /\ call.st = "clone"
  /\ CloneUserspace(call.src, call.dst)
  /\ call' = [call EXCEPT !.st = "cloned"]
  /\ UNCHANGED <<cells, who, calls>>

ForkReturn ==
  /\ Ready /\ call.st = "cloned"
  /\ call' = NoCall
  /\ UNCHANGED <<vars, cells, who, calls>>

(* process_exit of the running process: another becomes current, then the   *)
(* tree is freed.  No registers are saved or loaded: the thread that exits  *)
(* runs on in the other's address space.  What comes of making a zombie     *)
(* current, or of an exit of process 1, is said in Process.                 *)
Exit(s, d) ==
  /\ Enter
  /\ s = current /\ s \notin {d, First} /\ Resident(s, 0)
  /\ SwitchUserspace(d)
  /\ current' = d /\ thread' = calls'
  /\ heir' = [heir EXCEPT ![d] = @ \cup {calls'}]
  /\ call' = [NoCall EXCEPT !.st = "exit", !.src = s]
  /\ UNCHANGED <<cells, saved>>

(* The end of process_exit, of the running process or of a failed child. *)
ExitFree ==
  /\ call.st = "exit"
  /\ ClearUserspace("free", call.src)
  /\ call' = NoCall
  /\ UNCHANGED <<cells, who, calls>>

(* execve: mmu_clear_userspace for the caller, then elf_load. *)
Execve(s) ==
  /\ Enter
  /\ s = current
  /\ ClearUserspace("clear", s)
  /\ Load
  /\ UNCHANGED <<cells, who>>

(* A context switch saves the registers of the thread that runs in the      *)
(* entry of the current process and loads those of s.  If the register was  *)
(* at a child, the current process has a new name from then on: the child   *)
(* may show what its parent stored up to this switch, no more.              *)
SwitchTo(s) ==
  LET name == IF Designated(current) THEN thread ELSE calls'
      put  == [saved EXCEPT ![current] = name]
  IN  /\ SwitchUserspace(s)
      /\ current' = s /\ thread' = put[s] /\ saved' = put
      /\ heir' = [heir EXCEPT ![current] = @ \cup {name}]

Switch(s) == Enter /\ SwitchTo(s) /\ UNCHANGED <<cells, call>>

(* The kernel heap asks for a page. *)
GrowHeap(g) ==
  /\ Enter
  /\ ~Resident(Kernel, g)
  /\ AllocAt(Kernel, g)
  /\ UNCHANGED <<cells, call, who>>

(* The thread that runs writes a page.  The register, not the current       *)
(* process, says in whose address space that page is.                       *)
Write(s, n) ==
  /\ Enter /\ Ready /\ Designated(s)
  /\ IsPage(n) /\ Resident(s, n)
  /\ cells' = Filled(slot[s][n], [c \in Cell |-> <<"user", thread>>])
  /\ UNCHANGED <<vars, call, who>>

(* The register designates a root table in ROM, or the freed one of a child *)
(* whose clone failed: nothing is said of where the store goes.             *)
WriteNowhere == Enter /\ AllocAtNowhere /\ UNCHANGED <<cells, call, who>>

-----------------------------------------------------------------------------
(* elf_load, in the address space the register designates. *)

(* elf_load returns: to main(), which switches to the process the register  *)
(* is at already, or to execve, which calls syscall_trigger_context_switch. *)
LoadReturns == call' = IF calls = 0 THEN NoCall ELSE [NoCall EXCEPT !.st = "switch"]

LoadHeader ==
  /\ Ready /\ call.st = "header"
  /\ \/ /\ ~Images[call.image].valid
        /\ LoadReturns
     \/ /\ Images[call.image].valid
        /\ \E b \in Align : call' = [call EXCEPT !.st = "page", !.buffer = b]
  /\ UNCHANGED <<vars, cells, who, calls>>

AllLoaded == call.sec > Len(Sections(call.image))

Section     == Sections(call.image)[call.sec]
CurrentTurn == Turn(Section, call.buffer, call.turn)
PageAsked   == PageNode[CurrentTurn.page]

(* The loop of alloc() turns once more, or the section loop goes on. *)
TurnsAgain == ~AllLoaded /\ call.turn <= TurnCount(Section)

LoadPage(s, g) ==
  /\ Ready /\ call.st = "page" /\ TurnsAgain
  /\ g = PageAsked
  /\ AllocAt(s, g)
  /\ call' = [call EXCEPT !.st = "fill"]
  /\ UNCHANGED <<cells, who, calls>>

LoadNowhere ==
  /\ call.st = "page" /\ TurnsAgain
  /\ AllocAtNowhere
  /\ UNCHANGED <<cells, who, calls, call>>

(* A section that runs over the end of its page is written on into the next *)
(* page of the mapper, which still maps the pointer table alloc_at walked:  *)
(* nothing more is said of a run that has "spilled".                        *)
LoadFill(s) ==
  LET t == CurrentTurn
      f == slot[s][PageAsked]
  IN  /\ Ready /\ call.st = "fill" /\ Designated(s)
      /\ IF t.fill /\ t.offset + t.length > P
         THEN call' = [call EXCEPT !.st = "spilled"] /\ UNCHANGED cells
         ELSE /\ cells' = IF t.fill THEN Filled(f, Written(t, call.image, Contents(f))) ELSE cells
              /\ call' = [call EXCEPT !.st = "page", !.turn = call.turn + 1]
      /\ UNCHANGED <<vars, who, calls>>

LoadSection ==
  /\ Ready /\ call.st = "page" /\ ~AllLoaded /\ ~TurnsAgain
  /\ call' = [call EXCEPT !.sec = call.sec + 1, !.turn = 1]
  /\ UNCHANGED <<vars, cells, who, calls>>

LoadDone ==
  /\ Ready /\ call.st = "page" /\ AllLoaded
  /\ LoadReturns
  /\ UNCHANGED <<vars, cells, who, calls>>

(* The end of execve. *)
ForcedSwitch(s) ==
  /\ call.st = "switch"
  /\ UNCHANGED <<cells, calls>>
  /\ SwitchTo(s)
  /\ call' = NoCall

-----------------------------------------------------------------------------
(* The steps of the frame manager, and what each leaves in the frames. *)

(* A faulty variant: the page is not copied. *)
CopiedNot(n) == Fresh(AllocFrame)

(* memcpy(page_to, page_from, MMU_PAGE_SIZE). *)
Copied(n) == Filled(AllocFrame, Contents(slot[op.src][n]))

(* A resident page's old frame is linked and, unless memory is exhausted,   *)
(* taken again and zeroed.                                                  *)
NewPage ==
  IF AllocFails
  THEN IF Resident(op.src, op.goal) THEN Linked(slot[op.src][op.goal]) ELSE cells
  ELSE Fresh(Head(ListForPage))

(* A clone that fails has fork call process_exit for the child. *)
AfterFailedClone == [call EXCEPT !.st = "exit", !.src = call.dst]

MmuStep ==
  /\ \/ (ClearReturn \/ CloneLeave \/ CloneReturn) /\ UNCHANGED <<cells, call>>
     \/ ClearLeave /\ cells' = Linked(slot[op.src][op.tab]) /\ UNCHANGED call
     \/ FreeReturn /\ cells' = Linked(slot[op.src][0]) /\ UNCHANGED call
     \/ AllocPage /\ cells' = NewPage /\ UNCHANGED call
     \/ \E n \in Node :
          \/ (ClearEnter(n) \/ AllocWalk(n) \/ AllocTableNull(n)) /\ UNCHANGED <<cells, call>>
          \/ ClearPage(n) /\ cells' = Linked(slot[op.src][n]) /\ UNCHANGED call
          \/ (CloneTable(n) \/ AllocTable(n)) /\ cells' = Filled(AllocFrame, Table) /\ UNCHANGED call
          \/ ClonePage(n) /\ cells' = Copied(n) /\ UNCHANGED call
          \/ CloneFail(n) /\ call' = AfterFailedClone /\ UNCHANGED cells
  /\ UNCHANGED <<who, calls>>

EnterCall ==
  \/ \E s, d \in User : Fork(s, d) \/ Exit(s, d)
  \/ \E s \in User : Execve(s) \/ Switch(s)
  \/ \E g \in Node : GrowHeap(g)
  \/ \E s \in User, n \in Node : Write(s, n)
  \/ WriteNowhere

Continue ==
  \/ BootFirst \/ ForkClone \/ ForkReturn \/ ExitFree
  \/ LoadHeader \/ LoadSection \/ LoadDone \/ LoadNowhere
  \/ \E s \in User, g \in Node : LoadPage(s, g)
  \/ \E s \in User : LoadFill(s) \/ ForcedSwitch(s)
  \/ MmuStep

(* The bound is reached, or nothing more is said about the run. *)
Rest ==
  /\ (Ready /\ call.st = "none" /\ calls = MaxCalls) \/ wild # "no" \/ call.st = "spilled"
  /\ UNCHANGED ivars

ImageNext == EnterCall \/ Continue \/ Rest

ImageSpec == ImageInit /\ [][ImageNext]_ivars

(* The processor keeps executing a call it has entered: interrupts are      *)
(* masked and nothing in a call waits for anything.                         *)
FairImageSpec == ImageSpec /\ WF_ivars(Continue)

-----------------------------------------------------------------------------
(* A section that lies inside pages alloc() counts and that no later        *)
(* section allocates again; one with data lies in one page and is shorter.  *)
WellPlaced(secs, i) ==
  /\ Loadable(secs[i])
  /\ (secs[i].address % P) + secs[i].size <= PageCount(secs[i]) * P
  /\ secs[i].type # "nobits" => PageCount(secs[i]) = 1 /\ secs[i].size < P
  /\ \A j \in i + 1 .. Len(secs) : PagesOf(secs[i]) \cap PagesOf(secs[j]) = {}

ByteAt(s, a) == Contents(slot[s][PageNode[a \div P]])[a % P]

(* When elf_load returns, every well placed section is in the memory of the *)
(* process, byte for byte, or reads zero if it has no data: whatever was in *)
(* the frames before, in whichever address space it was loaded, and with    *)
(* whatever other sections around it.                                       *)
LoadedWhole ==
  call.st = "page" /\ AllLoaded /\ wild = "no" /\ ~RomMapped =>
    \A s \in User : Designated(s) =>
      LET secs == Sections(call.image) IN
      \A i \in 1 .. Len(secs) : WellPlaced(secs, i) =>
        \A k \in 0 .. secs[i].size - 1 :
          ByteAt(s, secs[i].address + k)
            = IF secs[i].type = "nobits" THEN <<"zero">>
              ELSE FileByte(call.image, secs[i].offset + k)

(* When a clone ends the child has the pages of its parent, with the same   *)
(* contents.                                                                *)
CloneFaithful ==
  op.kind = "clone" /\ op.tab = 0 /\ NothingToClone =>
    \A n \in Node :
      /\ Resident(op.dst, n) <=> Resident(op.src, n)
      /\ IsPage(n) /\ Resident(op.src, n) =>
           Contents(slot[op.dst][n]) = Contents(slot[op.src][n])

(* What a page of s shows of stores is of s's own thread, of a thread that  *)
(* exited into s, or came with the fork that made s: from an ancestor, or   *)
(* from the parent in the time between the fork and the next switch, when   *)
(* the register is at the child.  No page shows the links and descriptors   *)
(* that freed frames hold.  Through exits, failed clones, execs and loads   *)
(* into whichever address space the register designates.                    *)
Isolated ==
  wild = "no" =>
    \A s \in User, n \in Node : IsPage(n) /\ slot[s][n] \in Frame =>
      \A c \in Cell :
        LET v == cells[slot[s][n]][c] IN
        /\ v[1] \notin {"link", "descriptor"}
        /\ v[1] = "user" => v[2] \in heir[s]

(* Every call of the kernel comes to its end: the nested loops of clear and *)
(* clone, whose bodies change the descriptors they run over, and the loop   *)
(* of the loader.                                                           *)
CallsEnd ==
  []<>((call.st = "none" /\ op.kind = "idle") \/ wild # "no" \/ call.st = "spilled")
=============================================================================
