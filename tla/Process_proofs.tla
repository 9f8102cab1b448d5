-------------------------- MODULE Process_proofs --------------------------
(***************************************************************************)
(* Proofs about Process, for a table of any size.                          *)
(***************************************************************************)
EXTENDS Process, TLAPS

(* Every candidate of process_create is an index of the table. *)
LEMMA ModType ==
  ASSUME NEW a \in Nat, NEW m \in Nat, m > 0
  PROVE  a % m \in 0 .. m - 1
<1>1. a % m \in Int /\ 0 <= a % m /\ a % m < m
  BY SMT
<1> QED BY <1>1, SMT

(* A multiple of m that lies strictly between -m and m is 0. *)
LEMMA SmallMultiple ==
  ASSUME NEW m \in Nat, m > 0, NEW d \in Int, NEW r \in Int,
         m * d = r, -m < r, r < m
  PROVE  r = 0
<1>1. CASE d >= 1
  <2>1. m * d >= m
    BY <1>1, SMT
  <2> QED BY <2>1, SMT
<1>2. CASE d <= -1
  <2>1. m * d <= -m
    BY <1>2, SMT
  <2> QED BY <2>1, SMT
<1>3. CASE d = 0
  BY <1>3, SMT
<1> QED BY <1>1, <1>2, <1>3, SMT

(* The refused search of process_create ends on the entry it started from. *)
LEMMA ModWrap ==
  ASSUME NEW a \in Nat, NEW m \in Nat, m > 0
  PROVE  (a + m) % m = a % m
<1> DEFINE q == a \div m
           p == (a + m) \div m
           r == a % m
           t == (a + m) % m
<1>1. /\ q \in Int /\ r \in Int /\ 0 <= r /\ r < m
      /\ a = m * q + r
  BY SMT
<1>2. /\ p \in Int /\ t \in Int /\ 0 <= t /\ t < m
      /\ a + m = m * p + t
  BY SMT
<1> HIDE DEF q, p, r, t
<1>3. m * (p - q - 1) = r - t
  BY <1>1, <1>2, SMT
<1>4. r - t = 0
  BY <1>1, <1>2, <1>3, SmallMultiple, SMT
<1>5. t = r
  BY <1>1, <1>2, <1>4, SMT
<1> QED BY <1>5 DEF t, r

(* A number is its multiple of m and its remainder. *)
LEMMA ModOf ==
  ASSUME NEW m \in Nat, m > 0, NEW a \in Nat, NEW q \in Int, NEW r \in 0 .. m - 1,
         a = m * q + r
  PROVE  a % m = r
<1> DEFINE p == a \div m
           t == a % m
<1>1. /\ p \in Int /\ t \in Int /\ 0 <= t /\ t < m
      /\ a = m * p + t
  BY SMT
<1> HIDE DEF p, t
<1>2. m * (p - q) = r - t /\ p - q \in Int
  BY <1>1, SMT
<1>5. r - t \in Int /\ -m < r - t /\ r - t < m
  BY <1>1, SMT
<1>3. r - t = 0
  BY <1>5, <1>2, SmallMultiple
<1>4. t = r
  BY <1>1, <1>3, SMT
<1> QED BY <1>4 DEF t

(* A number that is found again as a remainder after at most m steps is     *)
(* less than m, and was found after m steps.                                *)
LEMMA ModReturns ==
  ASSUME NEW a \in Nat, NEW m \in Nat, m > 0, NEW k \in 1 .. m, (a + k) % m = a
  PROVE  a < m /\ k = m
<1> DEFINE q == (a + k) \div m
           r == (a + k) % m
<1>1. /\ q \in Int /\ r \in Int /\ 0 <= r /\ r < m
      /\ a + k = m * q + r
  BY SMT
<1>2. r = a
  OBVIOUS
<1> HIDE DEF q, r
<1>3. m * q = k /\ a < m
  BY <1>1, <1>2, SMT
<1>4. k = m
  <2> SUFFICES ASSUME k # m PROVE FALSE
    OBVIOUS
  <2>1. k \in Int /\ -m < k /\ k < m /\ k # 0
    BY SMT
  <2>2. k = 0
    BY <1>1, <1>3, <2>1, SmallMultiple
  <2> QED BY <2>1, <2>2
<1> QED BY <1>3, <1>4

(* The m candidates after any number are all the entries of the table. *)
LEMMA ModCovers ==
  ASSUME NEW a \in Nat, NEW m \in Nat, m > 0, NEW e \in 0 .. m - 1
  PROVE  \E k \in 1 .. m : (a + k) % m = e
<1> DEFINE q == a \div m
           r == a % m
<1>1. /\ q \in Int /\ r \in Int /\ 0 <= r /\ r < m
      /\ a = m * q + r
  BY SMT
<1> HIDE DEF q, r
<1>2. CASE e > r
  <2>1. e - r \in 1 .. m /\ a + (e - r) \in Nat /\ a + (e - r) = m * q + e
    BY <1>1, <1>2, SMT
  <2>2. (a + (e - r)) % m = e
    BY <1>1, <2>1, ModOf
  <2> QED BY <2>1, <2>2
<1>3. CASE e <= r
  <2>1. m - r + e \in 1 .. m /\ a + (m - r + e) \in Nat
    BY <1>1, <1>3, SMT
  <2>2. a + (m - r + e) = m * (q + 1) + e /\ q + 1 \in Int
    BY <1>1, <1>3, SMT
  <2>3. (a + (m - r + e)) % m = e
    BY <2>1, <2>2, ModOf
  <2> QED BY <2>1, <2>3
<1> QED BY <1>1, <1>2, <1>3, SMT

-----------------------------------------------------------------------------
(* The size of the table, as the provers use it. *)
LEMMA Size == MAX_PROCESSES \in Nat /\ MAX_PROCESSES > 1 /\ 0 \in Pid
BY TableAssumption, SMT DEF Pid

(* Candidate(k) is an entry of the table, and the newest one once the       *)
(* counter has moved to it.                                                 *)
LEMMA CandidateType ==
  ASSUME last \in Nat, NEW k \in 1 .. MAX_PROCESSES
  PROVE  Candidate(k) \in Pid /\ last + k \in Nat
<1>1. last + k \in Nat
  BY Size, SMT
<1> QED BY <1>1, Size, ModType, SMT DEF Candidate, Pid

(* What a tree name can be. *)
LEMMA TreeType == \A p \in Pid : Tree(p) \in Pid \cup {Freed}
BY DEF Tree

(* The mode a restored status word selects. *)
LEMMA ModeType == \A w \in StackWord : ModeAfter(w) \in {"no", "super"}
BY DEF ModeAfter

(* scheduler() leaves a well-typed machine. *)
LEMMA ScheduleType ==
  ASSUME TypeOK, NEW saved \in [Pid -> Pid], Schedule(saved)
  PROVE  /\ reg' \in [Pid -> Pid] /\ current' \in Pid /\ cpu' \in Pid
         /\ urp' \in Pid \cup {Freed} /\ window' \in Pid \cup {Freed}
         /\ halted' \in {"no", "super"}
<1>1. PICK n \in Pid : SwitchTo(n) /\ cpu' = saved[n]
  BY DEF Schedule
<1>2. halted' \in {"no", "super"}
  BY ModeType DEF Schedule
<1> QED BY <1>1, <1>2, TreeType DEF Schedule, SwitchTo

(* Counting up stays in the natural numbers. *)
LEMMA OneMore == \A n \in Nat : n + 1 \in Nat
BY SMT

(* Each action keeps the types. *)
LEMMA TypeStep ==
  ASSUME TypeOK, [Next]_vars
  PROVE  TypeOK'
<1> USE DEF TypeOK
<1>0. CASE UNCHANGED vars
  BY <1>0 DEF vars
<1>1. ASSUME Tick PROVE TypeOK'
  <2>1. SaveContext \in [Pid -> Pid]
    BY DEF SaveContext
  <2> QED BY <1>1, <2>1, ScheduleType DEF Tick
<1>2. ASSUME NEW why \in {"bus error", "killed 0", "killed 1", "hang", "wild"}, Halt(why)
      PROVE  TypeOK'
  BY <1>2 DEF Halt
<1>3. ASSUME NEW k \in 1 .. MAX_PROCESSES, Fork(k) PROVE TypeOK'
  BY <1>3, CandidateType DEF Fork, SaveContext
<1>4. ASSUME NEW k \in 1 .. MAX_PROCESSES, ForkNoMemory(k) PROVE TypeOK'
  BY <1>4, CandidateType DEF ForkNoMemory, SaveContext
<1>5. ASSUME NEW k \in 1 .. MAX_PROCESSES, ForkNoMemoryHalts(k) PROVE TypeOK'
  BY <1>5, <1>2 DEF ForkNoMemoryHalts
<1>6. ASSUME NEW k \in 1 .. MAX_PROCESSES, ForkAgain(k) PROVE TypeOK'
  <2>1. last + k \in Nat
    BY CandidateType
  <2>2. refusals + 1 \in Nat
    BY OneMore
  <2> QED BY <1>6, <2>1, <2>2 DEF ForkAgain, SaveContext
<1>7. ASSUME Exit PROVE TypeOK'
  <2>1. PICK n \in Pid : SwitchTo(n)
    BY <1>7 DEF Exit
  <2> QED BY <1>7, <2>1, TreeType DEF Exit, SwitchTo, SaveContext
<1>8. ASSUME NEW pages \in {"whole", "rom"}, Execve(pages) PROVE TypeOK'
  <2>1. SaveContext \in [Pid -> Pid]
    BY DEF SaveContext
  <2>2. image' \in [Pid -> {"none", "whole", "rom", "empty", "mixed", "foreign"}]
    <3> DEFINE own == IF cpu = current THEN pages ELSE "foreign"
    <3>1. own \in {"whole", "rom", "foreign"}
      OBVIOUS
    <3>2. LoadedImage(pages) = IF urp = current THEN [image EXCEPT ![current] = own]
                               ELSE [image EXCEPT ![current] = "empty", ![urp] = "mixed"]
      BY DEF LoadedImage
    <3> HIDE DEF own
    <3> QED BY <1>8, <3>1, <3>2 DEF Execve
  <2> QED BY <1>8, <2>1, <2>2, ScheduleType DEF Execve
<1>9. ASSUME ExecveNotElf PROVE TypeOK'
  <2>1. SaveContext \in [Pid -> Pid]
    BY DEF SaveContext
  <2> QED BY <1>9, <2>1, ScheduleType DEF ExecveNotElf
<1>10. ASSUME OtherSyscall PROVE TypeOK'
  BY <1>10 DEF OtherSyscall, SaveContext
<1>11. ASSUME \/ BusError \/ UseOfFreedTree \/ ExitPanics \/ ExitCallback
              \/ ExecveHalts \/ ForkHangs \/ SyscallBehindTable
       PROVE  TypeOK'
  BY <1>11, <1>2 DEF BusError, UseOfFreedTree, ExitPanics, ExitCallback, ExecveHalts,
                     ForkHangs, SyscallBehindTable
<1> QED
  BY <1>0, <1>1, <1>3, <1>4, <1>5, <1>6, <1>7, <1>8, <1>9, <1>10, <1>11
  DEF Next, Halted

(* Every state of process.c is well typed. *)
THEOREM TypeCorrect == Spec => []TypeOK
<1>1. Init => TypeOK
  BY Size DEF Init, TypeOK, Init0
<1> QED BY <1>1, TypeStep, PTL DEF Spec

-----------------------------------------------------------------------------
(* Once a fork has been refused the counter is past every entry number. *)
Refusals == refusals <= 1 /\ (refusals = 1 => last >= MAX_PROCESSES)

(* The inductive invariant: init is never reaped nor exited, so that exit   *)
(* always finds another process to go to.                                   *)
IInv ==
  /\ TypeOK
  /\ state[0] = "running"
  /\ CurrentExists
  /\ OwnRegisters
  /\ UrpExplained
  /\ WindowIsCurrent
  /\ HangNeedsFullTable
  /\ Refusals

(* The initial state of main() satisfies the invariant. *)
LEMMA IInvInit == Init => IInv
<1> SUFFICES ASSUME Init PROVE IInv
  OBVIOUS
<1>1. TypeOK
  BY Size DEF Init, TypeOK, Init0
<1>2. state[0] = "running" /\ CurrentExists /\ OwnRegisters
  BY Size DEF Init, Init0, CurrentExists, OwnRegisters, Exists
<1>3. UrpExplained /\ WindowIsCurrent
  BY Size DEF Init, Init0, UrpExplained, WindowIsCurrent, Tree
<1>4. HangNeedsFullTable /\ Refusals
  BY DEF Init, HangNeedsFullTable, Refusals
<1> QED BY <1>1, <1>2, <1>3, <1>4 DEF IInv

(* A halt keeps everything but the word that says the machine runs. *)
LEMMA HaltStep ==
  ASSUME IInv, NEW why, Halt(why), why # "no",
         why = "hang" => last >= MAX_PROCESSES /\ \A p \in Pid : Exists(p)
  PROVE  /\ state'[0] = "running" /\ CurrentExists' /\ OwnRegisters'
         /\ UrpExplained' /\ WindowIsCurrent'
         /\ HangNeedsFullTable' /\ Refusals'
<1>1. state'[0] = "running" /\ CurrentExists' /\ OwnRegisters'
  BY DEF IInv, Halt, CurrentExists, OwnRegisters, Exists, Zombies
<1>2. UrpExplained' /\ WindowIsCurrent'
  BY DEF IInv, Halt, UrpExplained, WindowIsCurrent, Up, Tree
<1>3. HangNeedsFullTable' /\ Refusals'
  BY DEF IInv, Halt, HangNeedsFullTable, Refusals, Exists
<1> QED BY <1>1, <1>2, <1>3

(* scheduler() picks an entry of the table and designates its tree. *)
LEMMA ScheduleStep ==
  ASSUME IInv, NEW saved \in [Pid -> Pid], Schedule(saved),
         UNCHANGED <<state, last>>,
         UNCHANGED refusals,
         \A p \in Pid : Exists(p) => saved[p] \in {p} \cup Zombies
  PROVE  /\ state'[0] = "running" /\ CurrentExists' /\ OwnRegisters'
         /\ UrpExplained' /\ WindowIsCurrent'
         /\ HangNeedsFullTable' /\ Refusals'
<1>1. PICK n \in Pid : n \in Eligible /\ SwitchTo(n) /\ cpu' = saved[n]
  BY DEF Schedule, IsNext
<1>2. Exists(n) /\ current' = n /\ reg' = saved
  BY <1>1 DEF Eligible, SwitchTo, Schedule
<1>3. CurrentExists' /\ state'[0] = "running"
  BY <1>2 DEF CurrentExists, Exists, IInv
<1>4. OwnRegisters'
  BY <1>1, <1>2 DEF OwnRegisters, Zombies, Exists
<1>5. UrpExplained' /\ WindowIsCurrent'
  BY <1>1, <1>2 DEF UrpExplained, WindowIsCurrent, SwitchTo, Tree
<1>6. halted' \in {"no", "super"}
  BY ScheduleType DEF IInv
<1>7. HangNeedsFullTable' /\ Refusals'
  BY <1>6 DEF HangNeedsFullTable, Refusals, IInv
<1> QED BY <1>3, <1>4, <1>5, <1>7

(* exit goes to another process than the one that exits: init is there. *)
LEMMA NextIsAnother ==
  ASSUME IInv, current \notin {0, 1}, NEW n \in Pid,
         IsNext(n, current, {p \in Pid : Exists(p)})
  PROVE  n # current /\ Exists(n)
<1>1. Exists(n) /\ Exists(0)
  BY Size DEF IsNext, IInv, Exists
<1>2. Distance(current, n) <= Distance(current, 0)
  BY <1>1, Size DEF IsNext
<1>7. current \in Pid /\ current # 0
  BY DEF IInv, TypeOK
<1>3. current \in 1 .. MAX_PROCESSES - 1
  BY <1>7, Size, SMT DEF Pid
<1>4. Distance(current, 0) = 0 - current + MAX_PROCESSES
  BY <1>3, Size, SMT DEF Distance
<1>5. Distance(current, current) = MAX_PROCESSES
  BY <1>3, Size, SMT DEF Distance
<1>6. n # current
  BY <1>2, <1>3, <1>4, <1>5, Size, SMT
<1> QED BY <1>1, <1>6

(* A search that goes on after MAX_PROCESSES turns has looked at every      *)
(* entry, and started from a number past the size of the table.             *)
LEMMA FullTable ==
  ASSUME last \in Nat, Endless
  PROVE  last >= MAX_PROCESSES /\ \A p \in Pid : Exists(p)
<1>0. last >= MAX_PROCESSES
  <2> SUFFICES ASSUME last \in Pid PROVE FALSE
    BY Size, SMT DEF Pid
  <2>1. MAX_PROCESSES > 0 /\ MAX_PROCESSES \in Nat
    BY TableAssumption, SMT
  <2>2. \E k \in 1 .. MAX_PROCESSES : (last + k) % MAX_PROCESSES = last
    BY <2>1, ModCovers DEF Pid
  <2>3. \A k \in 1 .. MAX_PROCESSES : k \in 1 .. (MAX_PROCESSES + 1) - 1
    BY <2>1, SMT
  <2> QED BY <2>2, <2>3 DEF Endless, Turn, GivesUp, Candidate
<1>1. ASSUME NEW p \in Pid PROVE Exists(p)
  <2>1. MAX_PROCESSES > 0 /\ MAX_PROCESSES \in Nat
    BY TableAssumption, SMT
  <2>2. \E k \in 1 .. MAX_PROCESSES : (last + k) % MAX_PROCESSES = p
    BY <2>1, ModCovers DEF Pid
  <2>3. \A k \in 1 .. MAX_PROCESSES : k \in 1 .. (MAX_PROCESSES + 1) - 1
    BY <2>1, SMT
  <2> QED BY <2>2, <2>3 DEF Endless, Turn, Candidate
<1> QED BY <1>0, <1>1

(* A successful fork: the new entry is the newest and has its own registers. *)
LEMMA ForkStep ==
  ASSUME IInv, NEW k \in 1 .. MAX_PROCESSES, Fork(k)
  PROVE  /\ state'[0] = "running" /\ CurrentExists' /\ OwnRegisters'
         /\ UrpExplained' /\ WindowIsCurrent'
         /\ HangNeedsFullTable' /\ Refusals'
<1> USE DEF IInv
<1> DEFINE child == Candidate(k)
<1>1. child \in Pid /\ last' % MAX_PROCESSES = child
  BY CandidateType DEF Fork, Candidate, TypeOK
<1> HIDE DEF child
<1>2. /\ ~Exists(child) /\ current' = current /\ cpu' = cpu /\ window' = window
      /\ urp' = child /\ halted' = "no" /\ refusals' = refusals /\ last' = last + k
      /\ state' = [state EXCEPT ![child] = "running"]
      /\ reg' = [reg EXCEPT ![current] = cpu, ![child] = child]
  BY DEF Fork, FreeAt, Up, SaveContext, child
<1>3. current # child /\ 0 # child
  BY <1>2 DEF CurrentExists, Exists
<1>4. state'[0] = "running" /\ CurrentExists'
  BY <1>1, <1>2, <1>3, Size DEF CurrentExists, Exists, TypeOK
<1>5. OwnRegisters'
  <2>1. Zombies' = Zombies
    BY <1>1, <1>2 DEF Zombies, Exists, TypeOK
  <2>2. /\ cpu \in {current} \cup Zombies
        /\ \A p \in Pid : Exists(p) => reg[p] \in {p} \cup Zombies
    BY DEF OwnRegisters
  <2>3. \A p \in Pid : Exists(p)' => reg'[p] \in {p} \cup Zombies
    BY <1>1, <1>2, <2>2 DEF Exists, TypeOK
  <2> QED BY <1>2, <2>1, <2>2, <2>3 DEF OwnRegisters
<1>6. UrpExplained'
  BY <1>1, <1>2 DEF UrpExplained, Tree, TypeOK
<1>7. WindowIsCurrent'
  BY <1>1, <1>2, <1>3 DEF WindowIsCurrent, Up, Fork, Tree, TypeOK
<1>8. HangNeedsFullTable' /\ Refusals'
  <2>1. HangNeedsFullTable'
    BY <1>2 DEF HangNeedsFullTable
  <2>2. refusals <= 1 /\ (refusals = 1 => last >= MAX_PROCESSES) /\ last \in Nat
    BY DEF Refusals, TypeOK
  <2>3. last + k >= last /\ MAX_PROCESSES \in Nat
    BY <2>2, Size, SMT
  <2>4. Refusals'
    BY <1>2, <2>2, <2>3 DEF Refusals
  <2> QED BY <2>1, <2>4
<1> QED BY <1>4, <1>5, <1>6, <1>7, <1>8

(* A fork whose clone fails leaves the freed tree designated, and the       *)
(* newest entry empty.                                                      *)
LEMMA ForkNoMemoryStep ==
  ASSUME IInv, NEW k \in 1 .. MAX_PROCESSES, ForkNoMemory(k)
  PROVE  /\ state'[0] = "running" /\ CurrentExists' /\ OwnRegisters'
         /\ UrpExplained' /\ WindowIsCurrent'
         /\ HangNeedsFullTable' /\ Refusals'
<1> USE DEF IInv
<1>1. Candidate(k) \in Pid /\ last' % MAX_PROCESSES = Candidate(k)
  BY CandidateType DEF ForkNoMemory, Candidate, TypeOK
<1>2. state[Candidate(k)] = "none" /\ urp' = Freed /\ state' = state
  BY DEF ForkNoMemory, FreeAt, Exists
<1>3. UrpExplained'
  BY <1>1, <1>2 DEF UrpExplained, Tree
<1>4. state'[0] = "running" /\ CurrentExists' /\ OwnRegisters'
  BY DEF ForkNoMemory, CurrentExists, OwnRegisters, Exists, Zombies, SaveContext, TypeOK
<1>5. WindowIsCurrent'
  BY DEF ForkNoMemory, WindowIsCurrent, Up, Tree
<1>6. HangNeedsFullTable' /\ Refusals'
  <2>1. HangNeedsFullTable'
    BY DEF ForkNoMemory, HangNeedsFullTable, Up
  <2>2. refusals <= 1 /\ (refusals = 1 => last >= MAX_PROCESSES) /\ last \in Nat
    BY DEF Refusals, TypeOK
  <2>3. last + k >= last /\ MAX_PROCESSES \in Nat
    BY <2>2, Size, SMT
  <2>4. Refusals'
    BY <2>2, <2>3 DEF ForkNoMemory, Refusals
  <2> QED BY <2>1, <2>4
<1> QED BY <1>3, <1>4, <1>5, <1>6

(* A search gives up on the entry it started from, a whole turn of the      *)
(* table later, and only if that number is one of an entry.                 *)
LEMMA GivesUpAfterATurn ==
  ASSUME last \in Nat, NEW k \in 1 .. MAX_PROCESSES, GivesUp(k)
  PROVE  last < MAX_PROCESSES /\ k = MAX_PROCESSES
<1>1. MAX_PROCESSES > 0 /\ MAX_PROCESSES \in Nat /\ last + k \in Nat
  BY TableAssumption, SMT
<1>2. (last + k) % MAX_PROCESSES = last
  BY DEF GivesUp, Candidate
<1> QED BY <1>1, <1>2, ModReturns

(* A refused fork comes back to the same newest entry, its counter past the *)
(* size of the table.                                                       *)
LEMMA ForkAgainStep ==
  ASSUME IInv, NEW k \in 1 .. MAX_PROCESSES, ForkAgain(k)
  PROVE  /\ state'[0] = "running" /\ CurrentExists' /\ OwnRegisters'
         /\ UrpExplained' /\ WindowIsCurrent'
         /\ HangNeedsFullTable' /\ Refusals'
<1> USE DEF IInv
<1>0. last \in Nat /\ refusals \in Nat
  BY DEF TypeOK
<1>1. last < MAX_PROCESSES /\ k = MAX_PROCESSES
  BY <1>0, GivesUpAfterATurn DEF ForkAgain, RefusedAt
<1>2. /\ last' = last + MAX_PROCESSES /\ reg' = SaveContext /\ refusals' = refusals + 1
      /\ UNCHANGED <<state, current, urp, window, cpu, halted>>
  BY <1>1 DEF ForkAgain
<1>9. MAX_PROCESSES > 0 /\ MAX_PROCESSES \in Nat
  BY TableAssumption, SMT
<1>8. (last + MAX_PROCESSES) % MAX_PROCESSES = last % MAX_PROCESSES
  BY <1>0, <1>9, ModWrap
<1>3. last' % MAX_PROCESSES = last % MAX_PROCESSES
  BY <1>2, <1>8
<1>4. UrpExplained' /\ WindowIsCurrent'
  BY <1>2, <1>3 DEF UrpExplained, WindowIsCurrent, Up, Tree
<1>5. state'[0] = "running" /\ CurrentExists' /\ OwnRegisters'
  BY <1>2 DEF CurrentExists, OwnRegisters, Exists, Zombies, SaveContext, TypeOK
<1>6. HangNeedsFullTable'
  BY <1>2 DEF ForkAgain, Up, HangNeedsFullTable
<1>7. Refusals'
  <2>1. refusals # 1 /\ refusals <= 1
    BY <1>0, <1>1, <1>9 DEF Refusals
  <2>2. refusals = 0
    BY <1>0, <2>1
  <2>3. refusals' <= 1 /\ last' >= MAX_PROCESSES
    BY <1>0, <1>2, <1>9, <2>2
  <2> QED BY <2>3 DEF Refusals
<1> QED BY <1>4, <1>5, <1>6, <1>7

(* exit: the process that becomes current is another one. *)
LEMMA ExitStep ==
  ASSUME IInv, Exit
  PROVE  /\ state'[0] = "running" /\ CurrentExists' /\ OwnRegisters'
         /\ UrpExplained' /\ WindowIsCurrent'
         /\ HangNeedsFullTable' /\ Refusals'
<1> USE DEF IInv
<1>1. PICK n \in Pid : IsNext(n, current, {p \in Pid : Exists(p)}) /\ SwitchTo(n)
  BY DEF Exit
<1>2. n # current /\ Exists(n)
  BY <1>1, NextIsAnother DEF Exit
<1>3. state' = [state EXCEPT ![current] = "zombie"] /\ current # 0
      /\ halted' = "no" /\ refusals' = refusals /\ last' = last
      /\ cpu' = cpu /\ reg' = SaveContext
  BY DEF Exit, Up
<1>4. state'[0] = "running" /\ CurrentExists'
  BY <1>1, <1>2, <1>3, Size DEF CurrentExists, Exists, SwitchTo, TypeOK
<1>5. OwnRegisters'
  <2>1. Zombies' = Zombies \cup {current}
    BY <1>3 DEF Zombies, TypeOK
  <2>2. \A p \in Pid : Exists(p)' => Exists(p)
    BY <1>3 DEF Exists, TypeOK, CurrentExists
  <2> QED BY <1>3, <2>1, <2>2 DEF OwnRegisters, SaveContext, TypeOK
<1>6. UrpExplained' /\ WindowIsCurrent'
  BY <1>1, <1>2, <1>3 DEF UrpExplained, WindowIsCurrent, SwitchTo, Tree, TypeOK
<1>7. HangNeedsFullTable' /\ Refusals'
  BY <1>3 DEF HangNeedsFullTable, Refusals
<1> QED BY <1>4, <1>5, <1>6, <1>7

(* The registers a trap saves are those of the current process or of one    *)
(* that has exited.                                                         *)
LEMMA SavedAreOwn ==
  ASSUME IInv
  PROVE  \A p \in Pid : Exists(p) => SaveContext[p] \in {p} \cup Zombies
BY DEF SaveContext, IInv, TypeOK, OwnRegisters

(* Each action keeps the invariant. *)
LEMMA IInvStep ==
  ASSUME IInv, [Next]_vars
  PROVE  IInv'
<1> DEFINE Safe == /\ state[0] = "running" /\ CurrentExists /\ OwnRegisters
                   /\ UrpExplained /\ WindowIsCurrent
                   /\ HangNeedsFullTable /\ Refusals
<1>9. TypeOK'
  BY TypeStep DEF IInv
<1>0. CASE UNCHANGED vars
  BY <1>0 DEF vars, IInv, TypeOK, CurrentExists, OwnRegisters, UrpExplained,
     WindowIsCurrent, HangNeedsFullTable, Refusals, Exists, Zombies, Up, Tree
<1>1. ASSUME Tick PROVE Safe'
  <2>1. SaveContext \in [Pid -> Pid]
    BY DEF SaveContext, IInv, TypeOK
  <2>2. \A p \in Pid : Exists(p) => SaveContext[p] \in {p} \cup Zombies
    BY SavedAreOwn
  <2> QED BY <1>1, <2>1, <2>2, ScheduleStep DEF Tick
<1>2. ASSUME NEW k \in 1 .. MAX_PROCESSES,
             Fork(k) \/ ForkNoMemory(k) \/ ForkNoMemoryHalts(k)
      PROVE  Safe'
  <2>1. CASE ForkNoMemoryHalts(k)
    BY <2>1, HaltStep DEF ForkNoMemoryHalts
  <2> QED BY <1>2, <2>1, ForkStep, ForkNoMemoryStep
<1>3. ASSUME NEW k \in 1 .. MAX_PROCESSES, ForkAgain(k) PROVE Safe'
  BY <1>3, ForkAgainStep
<1>4. ASSUME Exit PROVE Safe'
  BY <1>4, ExitStep
<1>5. ASSUME NEW pages \in {"whole", "rom"}, Execve(pages) \/ ExecveNotElf PROVE Safe'
  <2>1. SaveContext \in [Pid -> Pid]
    BY DEF SaveContext, IInv, TypeOK
  <2>2. \A p \in Pid : Exists(p) => SaveContext[p] \in {p} \cup Zombies
    BY SavedAreOwn
  <2> QED BY <1>5, <2>1, <2>2, ScheduleStep DEF Execve, ExecveNotElf
<1>6. ASSUME OtherSyscall PROVE Safe'
  <2>1. state'[0] = "running" /\ CurrentExists' /\ OwnRegisters'
    BY <1>6 DEF OtherSyscall, IInv, CurrentExists, OwnRegisters, Exists, Zombies,
       SaveContext, TypeOK
  <2>2. UrpExplained' /\ WindowIsCurrent'
    BY <1>6 DEF OtherSyscall, IInv, UrpExplained, WindowIsCurrent, Up, Tree
  <2>3. HangNeedsFullTable' /\ Refusals'
    BY <1>6 DEF OtherSyscall, IInv, HangNeedsFullTable, Refusals, Exists
  <2> QED BY <2>1, <2>2, <2>3
<1>7. ASSUME \/ BusError \/ UseOfFreedTree \/ ExitPanics \/ ExitCallback
             \/ ExecveHalts \/ SyscallBehindTable
      PROVE  Safe'
  BY <1>7, HaltStep DEF BusError, UseOfFreedTree, ExitPanics, ExitCallback, ExecveHalts,
                        SyscallBehindTable
<1>10. ASSUME ForkHangs PROVE Safe'
  BY <1>10, HaltStep, FullTable DEF ForkHangs, IInv, TypeOK
<1>8. IInv' <=> TypeOK' /\ Safe'
  BY DEF IInv
<1> HIDE DEF Safe
<1> QED
  BY <1>9, <1>0, <1>1, <1>2, <1>3, <1>4, <1>5, <1>6, <1>7, <1>8, <1>10 DEF Next, Halted

(* The invariant holds of every behaviour of the kernel's process code. *)
THEOREM Invariance == Spec => []IInv
BY IInvInit, IInvStep, PTL DEF Spec

(* The entry process_save_context and scheduler dereference is there. *)
THEOREM CurrentIsInTable == Spec => []CurrentExists
<1>1. IInv => CurrentExists
  BY DEF IInv
<1> QED BY Invariance, <1>1, PTL

(* Nobody runs with another's registers, and no entry of the table holds    *)
(* another's, but for those of threads that have exited.                    *)
THEOREM RegistersAreOwn == Spec => []OwnRegisters
<1>1. IInv => OwnRegisters
  BY DEF IInv
<1> QED BY Invariance, <1>1, PTL

(* The user root pointer strays no further than to the newest process. *)
THEOREM UrpStaysClose == Spec => []UrpExplained
<1>1. IInv => UrpExplained
  BY DEF IInv
<1> QED BY Invariance, <1>1, PTL

(* The kernel follows user pointers in the tree of the current process. *)
THEOREM WindowFollowsCurrent == Spec => []WindowIsCurrent
<1>1. IInv => WindowIsCurrent
  BY DEF IInv
<1> QED BY Invariance, <1>1, PTL

(* process_create searches for ever only in a full table. *)
THEOREM HangsOnlyWhenFull == Spec => []HangNeedsFullTable
<1>1. IInv => HangNeedsFullTable
  BY DEF IInv
<1> QED BY Invariance, <1>1, PTL

(* fork refuses at most once, whatever is forked and exited before and      *)
(* after: the counter is past every entry number then, and the search, which *)
(* compares it with entry numbers, cannot give up again.                    *)
THEOREM AtMostOneRefusal == Spec => []RefusesOnce
<1>1. IInv => RefusesOnce
  BY DEF IInv, Refusals, RefusesOnce
<1> QED BY Invariance, <1>1, PTL

(* No process loses its image to another, but for two: the newest one,      *)
(* while the user root pointer is still at it, and the one an exited thread *)
(* runs as.                                                                 *)
THEOREM OlderImagesAreKept == Spec => ImagesAreKept
<1> DEFINE Kept ==
      \A p \in Pid :
        Exists(p) /\ image'[p] # image[p] =>
          \/ p = current /\ p = cpu /\ image'[p] # "mixed"
          \/ p = current /\ cpu \in Zombies
          \/ p # current /\ p = urp /\ p = last % MAX_PROCESSES
<1>1. ASSUME IInv, [Next]_vars PROVE [Kept]_vars
  <2> SUFFICES ASSUME NEW p \in Pid, Next, Exists(p), image'[p] # image[p]
               PROVE  \/ p = current /\ p = cpu /\ image'[p] # "mixed"
                      \/ p = current /\ cpu \in Zombies
                      \/ p # current /\ p = urp /\ p = last % MAX_PROCESSES
    BY <1>1
  <2>0. /\ image \in [Pid -> {"none", "whole", "rom", "empty", "mixed", "foreign"}]
        /\ current \in Pid /\ cpu \in {current} \cup Zombies
    BY <1>1 DEF IInv, TypeOK, OwnRegisters
  <2>1. ASSUME NEW k \in 1 .. MAX_PROCESSES, Fork(k) PROVE FALSE
    <3>1. image' = [image EXCEPT ![Candidate(k)] = image[current]] /\ ~Exists(Candidate(k))
      BY <2>1 DEF Fork, FreeAt
    <3> QED BY <2>0, <3>1
  <2>2. ASSUME Exit \/ ExecveNotElf PROVE p = current /\ image'[p] # "mixed"
    BY <2>0, <2>2 DEF Exit, ExecveNotElf
  <2>3. ASSUME NEW pages \in {"whole", "rom"}, Execve(pages)
        PROVE  \/ p = current /\ image'[p] # "mixed"
               \/ p # current /\ p = urp /\ p = last % MAX_PROCESSES
    <3>1. image' = LoadedImage(pages) /\ Tree(current) # Freed /\ urp # Freed
      BY <2>3 DEF Execve
    <3>2. CASE p = current
      BY <2>0, <2>3, <3>1, <3>2 DEF LoadedImage
    <3>3. CASE p # current
      <4>1. p = urp
        BY <2>0, <3>1, <3>3 DEF LoadedImage
      <4>2. Tree(current) = current /\ urp = Tree(last % MAX_PROCESSES)
        BY <1>1, <3>1, <3>3, <4>1 DEF Tree, IInv, UrpExplained
      <4> QED BY <3>1, <3>3, <4>1, <4>2 DEF Tree
    <3> QED BY <3>2, <3>3
  <2>4. image' # image
    OBVIOUS
  <2>5. p = current \/ (p # current /\ p = urp /\ p = last % MAX_PROCESSES)
    BY <2>1, <2>2, <2>3, <2>4 DEF Next, Tick, BusError, ForkNoMemory, ForkNoMemoryHalts,
       ForkAgain, ForkHangs, UseOfFreedTree, ExitPanics, ExitCallback, ExecveHalts,
       OtherSyscall, SyscallBehindTable, Halted, Halt, vars
  <2>6. p = current => image'[p] # "mixed"
    BY <2>1, <2>2, <2>3, <2>4 DEF Next, Tick, BusError, ForkNoMemory, ForkNoMemoryHalts,
       ForkAgain, ForkHangs, UseOfFreedTree, ExitPanics, ExitCallback, ExecveHalts,
       OtherSyscall, SyscallBehindTable, Halted, Halt, vars
  <2> QED BY <2>0, <2>5, <2>6
<1> QED BY <1>1, Invariance, PTL DEF Spec, ImagesAreKept
=============================================================================
