------------------------------ MODULE Process ------------------------------
(***************************************************************************)
(* Processes: the table and the scheduler of kernel/process.c, the trap    *)
(* and interrupt entries of kernel/process.S and kernel/syscall.S, and the *)
(* system calls fork, execve and exit.                                     *)
(*                                                                         *)
(* User code runs between two actions.  An action is one trap or one timer *)
(* interrupt, from the save of the registers to the rte: the kernel masks  *)
(* interrupts, so nothing interleaves with it.  What two processes can do  *)
(* to each other they do through what an action leaves behind: the         *)
(* registers in the table, the user root pointer and the trees.            *)
(*                                                                         *)
(* A tree is named by the process it was built for.  mmu040.c is modelled  *)
(* in Mmu040; here an allocation succeeds or fails by choice.              *)
(***************************************************************************)
EXTENDS Integers

CONSTANTS
  MAX_PROCESSES,   \* size of the table
  LastBound,       \* how far _process_last may run: the bound of the model
  StackWord        \* the low halves a user stack pointer can have

ASSUME TableAssumption == MAX_PROCESSES \in Nat /\ MAX_PROCESSES > 1

ASSUME BoundAssumption ==
  LastBound \in Nat /\ StackWord # {} /\ StackWord \subseteq 0 .. 65535

Pid   == 0 .. MAX_PROCESSES - 1
Init0 == 0            \* the process main() creates and jumps to: /sbin/init
Freed == -1           \* a tree whose frames are back on the free list

VARIABLES
  state,     \* _process[p]->state, "none" for a NULL entry
  reg,       \* _process[p]->reg: the process whose execution it continues
  current,   \* _process_current
  last,      \* _process_last, which is never reduced modulo MAX_PROCESSES
  urp,       \* whose tree the user root pointer designates
  window,    \* whose tree map_current_userspace copied into the kernel's
  image,     \* what the tree of p maps
  cpu,       \* the process whose execution the processor continues
  refusals,  \* how many forks were answered with -EAGAIN so far (a history)
  halted     \* "no", or how the machine stopped

vars == <<state, reg, current, last, urp, window, image, cpu, refusals, halted>>

Exists(p) == state[p] # "none"

(* The tree a process' handle designates: process_exit frees the tree and   *)
(* leaves the handle as it is.                                              *)
Tree(p) == IF state[p] \in {"running", "blocked"} THEN p ELSE Freed

(* main(): process 0 is created, its image loaded and jumped to. *)
Init ==
  /\ state = [p \in Pid |-> IF p = Init0 THEN "running" ELSE "none"]
  /\ reg = [p \in Pid |-> p]
  /\ current = Init0
  /\ last = Init0
  /\ urp = Init0
  /\ window = Init0
  /\ image = [p \in Pid |-> IF p = Init0 THEN "whole" ELSE "none"]
  /\ cpu = Init0
  /\ refusals = 0
  /\ halted = "no"

Up == halted = "no"

Halt(why) ==
  /\ halted' = why
  /\ UNCHANGED <<state, reg, current, last, urp, window, image, cpu, refusals>>

-----------------------------------------------------------------------------
(* process_save_context: the registers go to the entry of the current       *)
(* process, whoever is running.                                             *)
SaveContext == [reg EXCEPT ![current] = cpu]

Distance(p, n) == IF n > p THEN n - p ELSE n - p + MAX_PROCESSES

(* A faulty variant: the search always starts at the first entry. *)
IsNextFromZero(n, p, S) ==
  n \in S /\ (n = p => S = {p}) /\ \A m \in S \ {p} : n <= m

(* n is the first of the processes in S after p, in table order. *)
IsNext(n, p, S) == n \in S /\ \A m \in S : Distance(p, n) <= Distance(p, m)

(* What the scheduler's loop does not pass over: zombies are eligible. *)
Eligible == {p \in Pid : Exists(p) /\ state[p] # "blocked"}

(* A faulty variant: the user root pointer is not loaded. *)
SwitchToOldTree(n) ==
  /\ UNCHANGED urp
  /\ window' = Tree(n)
  /\ current' = n

(* A faulty variant: the kernel's copy of the tree is not renewed. *)
SwitchToUnmapped(n) ==
  /\ urp' = Tree(n)
  /\ UNCHANGED window
  /\ current' = n

(* process_switch_to(n). *)
SwitchTo(n) ==
  /\ urp' = Tree(n)
  /\ window' = Tree(n)
  /\ current' = n

(* Both entries pass the user stack pointer as status_reg, so the word the  *)
(* restore moves into SR is the low half of the stack pointer (for a forked *)
(* child, whose status is not set, uninitialised memory).  Bit 13 of SR is  *)
(* the supervisor bit.                                                      *)
Supervisor(status) == (status \div 8192) % 2 = 1

ModeAfter(status) == IF Supervisor(status) THEN "super" ELSE "no"

(* A faulty variant: the switch comes first, so that the registers go to    *)
(* the entry of the next process.                                           *)
ScheduleSavesLate(saved) ==
  /\ \E n \in Pid :
       /\ IsNext(n, current, Eligible) /\ SwitchTo(n)
       /\ reg' = [reg EXCEPT ![n] = cpu] /\ cpu' = cpu
  /\ \E w \in StackWord : halted' = ModeAfter(w)

(* scheduler() and the restore at process_force_context_switch, given the   *)
(* registers saved before.                                                  *)
Schedule(saved) ==
  /\ \E n \in Pid : IsNext(n, current, Eligible) /\ SwitchTo(n) /\ cpu' = saved[n]
  /\ reg' = saved
  /\ \E w \in StackWord : halted' = ModeAfter(w)

(* process_isr: the VGA interrupt. *)
Tick ==
  /\ Up
  /\ Schedule(SaveContext)
  /\ UNCHANGED <<state, last, image, refusals>>

(* int_stub_bus_error: user code that keeps to its image faults only when   *)
(* the tree it runs in does not map that image: it was emptied, loaded over *)
(* or filled with ROM, or is that of another process.                       *)
BusError ==
  /\ Up
  /\ urp # Freed => cpu # current \/ image[urp] \in {"empty", "mixed", "rom"}
  /\ Halt("bus error")

-----------------------------------------------------------------------------
(* The search of process_create: `pid' is its k-th candidate, `tried' the   *)
(* number it started from.  Only pid is reduced modulo the table's size.    *)

(* A faulty variant: the last entry is never tried. *)
CandidateButLast(k) == (last + k) % (MAX_PROCESSES - 1)

Candidate(k) == (last + k) % MAX_PROCESSES

GivesUp(k) == Candidate(k) = last

(* The loop comes to its k-th turn. *)
Turn(k) == \A j \in 1 .. k - 1 : ~GivesUp(j) /\ Exists(Candidate(j))

FreeAt(k) == Turn(k) /\ ~GivesUp(k) /\ ~Exists(Candidate(k))

RefusedAt(k) == Turn(k) /\ GivesUp(k)

(* The candidates repeat after MAX_PROCESSES turns. *)
Endless == Turn(MAX_PROCESSES + 1)

Fork(k) ==
  /\ Up
  /\ last + MAX_PROCESSES <= LastBound
  /\ FreeAt(k)
  /\ Tree(current) # Freed
  /\ LET child == Candidate(k) IN
       /\ last' = last + k
       /\ state' = [state EXCEPT ![child] = "running"]
       /\ urp' = child           \* mmu_init_userspace; nobody sets it back
       /\ image' = [image EXCEPT ![child] = image[current]]
       /\ reg' = [SaveContext EXCEPT ![child] = child]
  /\ UNCHANGED <<current, window, cpu, refusals, halted>>

(* The clone fails: the child is exited, and reaped by process_wait.        *)
ForkNoMemory(k) ==
  /\ Up
  /\ last + MAX_PROCESSES <= LastBound
  /\ FreeAt(k) /\ Candidate(k) # 1
  /\ Tree(current) # Freed
  /\ last' = last + k
  /\ urp' = Freed
  /\ reg' = SaveContext
  /\ UNCHANGED <<state, current, window, image, cpu, refusals, halted>>

(* The same for child 1, which process_exit takes for init; and the cases   *)
(* where its uninitialised callback list, or a root table that could not be *)
(* allocated, is walked.                                                    *)
ForkNoMemoryHalts(k) ==
  /\ Up
  /\ last + MAX_PROCESSES <= LastBound
  /\ FreeAt(k)
  /\ Tree(current) # Freed
  /\ Halt(IF Candidate(k) = 1 THEN "killed 1" ELSE "wild")

(* A faulty variant: a search that fails leaves the counter alone. *)
ForkAgainInPlace(k) ==
  /\ Up
  /\ last + MAX_PROCESSES <= LastBound
  /\ RefusedAt(k)
  /\ refusals < LastBound
  /\ refusals' = refusals + 1
  /\ UNCHANGED <<state, reg, current, last, urp, window, image, cpu, halted>>

(* The one way process_create fails: ksbrk grants whatever it is asked for, *)
(* so kmalloc never returns NULL.  The counter stays where the search left  *)
(* it.                                                                      *)
ForkAgain(k) ==
  /\ Up
  /\ last + MAX_PROCESSES <= LastBound
  /\ RefusedAt(k)
  /\ last' = last + k
  /\ reg' = SaveContext
  /\ refusals' = refusals + 1
  /\ UNCHANGED <<state, current, urp, window, image, cpu, halted>>

(* The search neither finds an entry nor gives up. *)
ForkHangs ==
  /\ Up
  /\ Endless
  /\ Halt("hang")

(* A clone or a second free of a tree that is on the free list. *)
UseOfFreedTree ==
  /\ Up
  /\ Tree(current) = Freed
  /\ Halt("wild")

-----------------------------------------------------------------------------
(* process_exit(process_current()). *)

ExitPanics ==
  /\ Up
  /\ current \in {0, 1}
  /\ Halt(IF current = 0 THEN "killed 0" ELSE "killed 1")

(* process_create leaves the callback list uninitialised: when it does not  *)
(* happen to start with NULL, a random address is called.                   *)
ExitCallback ==
  /\ Up
  /\ current \notin {0, 1}
  /\ Halt("wild")

(* The rte returns to the thread that called exit, now in the next tree.    *)
Exit ==
  /\ Up
  /\ current \notin {0, 1}
  /\ Tree(current) # Freed
  /\ \E n \in Pid : IsNext(n, current, {p \in Pid : Exists(p)}) /\ SwitchTo(n)
  /\ state' = [state EXCEPT ![current] = "zombie"]
  /\ image' = [image EXCEPT ![current] = "none"]
  /\ reg' = SaveContext
  /\ UNCHANGED <<last, cpu, refusals, halted>>

-----------------------------------------------------------------------------
(* execve: the tree of the current process is cleared, the file is loaded   *)
(* into the tree the user root pointer designates, and the caller goes on   *)
(* at the entry point when the current process is next scheduled.           *)

(* A faulty variant: the old image is not cleared. *)
LoadedImageOver(pages) == [image EXCEPT ![urp] = "mixed"]

(* After an exit the caller is not the current process: the image is then   *)
(* one its owner never asked for.                                           *)
LoadedImage(pages) ==
  IF urp = current
  THEN [image EXCEPT ![current] = IF cpu = current THEN pages ELSE "foreign"]
  ELSE [image EXCEPT ![current] = "empty", ![urp] = "mixed"]

(* When memory runs out while the file is loaded, mmu_alloc_at maps pages   *)
(* to the boot ROM and nobody notices.                                      *)
Execve(pages) ==
  /\ Up
  /\ Tree(current) # Freed /\ urp # Freed
  /\ image' = LoadedImage(pages)
  /\ Schedule(SaveContext)
  /\ UNCHANGED <<state, last, refusals>>

(* elf_load refuses the file after the tree has been cleared.               *)
ExecveNotElf ==
  /\ Up
  /\ Tree(current) # Freed
  /\ image' = [image EXCEPT ![current] = "empty"]
  /\ Schedule(SaveContext)
  /\ UNCHANGED <<state, last, refusals>>

(* The file cannot be opened (a negative number indexes vfs_file), a freed  *)
(* tree is loaded into, or the forced switch, which builds its frame at the *)
(* user's frame pointer, meets an invalid format word.                      *)
ExecveHalts == Up /\ Halt("wild")

(* The other system calls, as far as the process table is concerned.        *)
OtherSyscall ==
  /\ Up
  /\ reg' = SaveContext
  /\ UNCHANGED <<state, current, last, urp, window, image, cpu, refusals, halted>>

(* syscall_stub lets the number SYSCALLS itself pass, and calls what lies   *)
(* behind the table.                                                        *)
SyscallBehindTable == Up /\ Halt("wild")

Halted == ~Up /\ UNCHANGED vars

-----------------------------------------------------------------------------
Next ==
  \/ Tick
  \/ BusError
  \/ \E k \in 1 .. MAX_PROCESSES : Fork(k)
  \/ \E k \in 1 .. MAX_PROCESSES : ForkNoMemory(k)
  \/ \E k \in 1 .. MAX_PROCESSES : ForkNoMemoryHalts(k)
  \/ \E k \in 1 .. MAX_PROCESSES : ForkAgain(k)
  \/ ForkHangs
  \/ UseOfFreedTree
  \/ ExitPanics
  \/ ExitCallback
  \/ Exit
  \/ \E pages \in {"whole", "rom"} : Execve(pages)
  \/ ExecveNotElf
  \/ ExecveHalts
  \/ OtherSyscall
  \/ SyscallBehindTable
  \/ Halted

Spec == Init /\ [][Next]_vars

(* The VGA raises its interrupt for every picture, and user code cannot     *)
(* mask it.                                                                 *)
FairSpec == Spec /\ WF_vars(Tick)

-----------------------------------------------------------------------------
(* Type correctness of the process table and of the registers. *)
TypeOK ==
  /\ state \in [Pid -> {"none", "running", "blocked", "zombie"}]
  /\ reg \in [Pid -> Pid]
  /\ current \in Pid
  /\ last \in Nat
  /\ urp \in Pid \cup {Freed}
  /\ window \in Pid \cup {Freed}
  /\ image \in [Pid -> {"none", "whole", "rom", "empty", "mixed", "foreign"}]
  /\ cpu \in Pid
  /\ refusals \in Nat
  /\ halted \in {"no", "super", "bus error", "killed 0", "killed 1", "hang", "wild"}

(* process_save_context and scheduler dereference _process[_process_current]*)
(* without a test: the current process is always in the table.              *)
CurrentExists == Exists(current)

Zombies == {p \in Pid : state[p] = "zombie"}

(* Who runs, and whom the table would resume, is the process it says or one *)
(* that has exited.  exit returns to its caller, and the next trap saves    *)
(* the caller's registers over those of the process that was made current;  *)
(* nothing else ever mixes two executions, and without an exit nothing.     *)
OwnRegisters ==
  /\ cpu \in {current} \cup Zombies
  /\ \A p \in Pid : Exists(p) => reg[p] \in {p} \cup Zombies

(* The user root pointer designates the tree of the current process or, in  *)
(* the time from a fork to the next switch, that of the newest process; a   *)
(* freed tree only when one of these two is gone.                           *)
UrpExplained == urp \in {Tree(current), Tree(last % MAX_PROCESSES)}

(* What the kernel sees below its own addresses is the tree of the process  *)
(* that made the system call, also between a fork and the next switch: the  *)
(* pointers user code passes are followed in the right tree.                *)
WindowIsCurrent == Up => window = Tree(current)

(* Whose image a step may change.  A process changes its own, by execve or  *)
(* exit, and is never loaded over itself; the newest process can be loaded  *)
(* over by another one, its parent before the next switch; and whatever an  *)
(* exited thread does to the process that was made current in its place it  *)
(* does to that one.  A process that is neither the newest nor followed an  *)
(* exited one is safe from every execve and every exit of the others.       *)
ImagesAreKept ==
  [][\A p \in Pid :
       Exists(p) /\ image'[p] # image[p] =>
         \/ p = current /\ p = cpu /\ image'[p] # "mixed"
         \/ p = current /\ cpu \in Zombies
         \/ p # current /\ p = urp /\ p = last % MAX_PROCESSES]_vars

(* fork spins for ever only on a full table whose counter has passed the    *)
(* size of the table.                                                       *)
HangNeedsFullTable ==
  halted = "hang" => last >= MAX_PROCESSES /\ \A p \in Pid : Exists(p)

(* fork answers -EAGAIN at most once in the life of the machine: the        *)
(* refusal moves the counter past the numbers the search compares it with,  *)
(* and from then on a full table makes it spin.                             *)
RefusesOnce == refusals <= 1

(* Every process that has not ended runs again and again, its own execution *)
(* and not just its entry, unless the machine stops or an exited thread has *)
(* been saved over its registers.                                           *)
EveryoneRuns ==
  \A p \in Pid : []<>(~Up \/ state[p] # "running" \/ reg[p] # p \/ cpu = p)

(* A thread that the context switch resumes is resumed in user mode. *)
ResumedInUserMode == halted # "super"
=============================================================================
