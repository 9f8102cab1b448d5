------------------------------ MODULE GdbFrames ------------------------------
(***************************************************************************)
(* The debugger stub of kernel/gdb-stub.c, from an exception to the rte    *)
(* that ends it: the stack of exception frames in gdbFrameStack, the       *)
(* commands of handle_exception and the bus-error handler they borrow.     *)
(* How commands and replies travel is GdbLink's subject.                   *)
(*                                                                         *)
(* gdbFrameStack grows downwards from its end.  _catchException saves the  *)
(* state of the FPU and the processor's frame below lastFrame without      *)
(* looking at the bound; the bound is tested by the command c, and only    *)
(* when it finds no frame for the address to continue at.  What the code   *)
(* links through `previous' is the sequence `frames', oldest first:        *)
(* lastFrame is its last element and the previous of its first element is  *)
(* that element.                                                           *)
(***************************************************************************)
EXTENDS Integers, Sequences

CONSTANTS
  StackBytes,   (* sizeof(gdbFrameStack)                                   *)
  Pc,           (* addresses the program may stop or be continued at       *)
  Taken,        (* the pairs of a vector and a format the processor raises *)
  FpBytes       (* sizes of the state frames fsave can write; any of them  *)
                (* with any exception, for an FPU exception may be pending *)

FrameBytes == 26     \* sizeof(Frame), its ints aligned to two bytes
Header     == 14     \* previous, exceptionPC, exceptionVector, frameSize
FpIdle     == 4      \* what fsave writes when no FPU instruction is unfinished

(* exceptionSize: the words of each format of the 68040; 0 if it has none.  *)
exceptionSize ==
  [format \in 0 .. 16 |-> CASE format \in {0, 1} -> 4
                            [] format \in {2, 3} -> 6
                            [] format = 4 -> 8
                            [] format = 7 -> 30
                            [] OTHER -> 0]

Formats == {format \in 0 .. 16 : exceptionSize[format] # 0}

(* The vectors set_debug_traps routes to the stub. *)
Caught == (2 .. 23) \cup {31, 33, 40} \cup (48 .. 54)

BusError   == 2
Trace      == 9
Level7     == 31
Breakpoint == 33

(* The end of the stack, where the frame that ends the list lies. *)
Top == StackBytes - 4 - FrameBytes

ASSUME StackAssumption == StackBytes \in Nat /\ Top >= 3 * FrameBytes
ASSUME PcAssumption    == Pc \subseteq Nat
ASSUME TakenAssumption == Taken \subseteq Caught \X Formats
ASSUME FpAssumption    == FpBytes \subseteq Nat

VARIABLES
  frames,    \* the list of frames, oldest first
  pc,        \* registers[PC]
  vector2,   \* the handler of bus errors
  sigval,    \* the signal the stub reports for this stop
  mode       \* "run" the program, "stopped" in handle_exception, "access" while
             \* m or M touches memory, "lost" after an rte through no frame or
             \* a store below the array that hit what the stub itself needs

vars == <<frames, pc, vector2, sigval, mode>>

lastFrame == frames[Len(frames)]

(* initializeRemcomErrorFrame: the array is static, so pc, vector and size  *)
(* of this frame are 0 until somebody writes them.                          *)
Sentinel == [addr |-> Top, pc |-> 0, vector |-> 0, size |-> 0, fp |-> 0]

(* computeSignal. *)
computeSignal(vector) ==
  CASE vector \in {2, 3, 13}               -> 10
    [] vector \in {4, 10, 11}              -> 4
    [] vector \in {5, 6, 7, 40} \cup (48 .. 54) -> 8
    [] vector = 8                          -> 11
    [] vector \in {9, 33}                  -> 5
    [] vector = 31                         -> 2
    [] OTHER                               -> 7

(* set_debug_traps. *)
Init ==
  /\ frames = <<Sentinel>>
  /\ pc \in Pc
  /\ vector2 = "_catchException"
  /\ sigval = 0
  /\ mode = "run"

-----------------------------------------------------------------------------
(* _catchException: SAVE_FP_REGS writes the state frame of the FPU below    *)
(* lastFrame, then come the processor's frame and a header.                 *)
RecordBytes(size, fp) == Header + 2 * size + fp

Push(vector, format, fp, at) ==
  LET size == exceptionSize[format]
  IN  Append(frames, [addr |-> lastFrame.addr - RecordBytes(size, fp),
                      pc |-> at, vector |-> vector, size |-> size, fp |-> fp])

(* What lies below gdbFrameStack is the linker's choice: a record that      *)
(* reaches there may or may not destroy something the stub needs.           *)
Stop(vector, format, fp, at) ==
  /\ frames' = Push(vector, format, fp, at)
  /\ pc' = at
  /\ sigval' = computeSignal(vector)
  /\ \/ mode' = "stopped"
     \/ lastFrame'.addr < 0 /\ mode' = "lost"
  /\ UNCHANGED vector2

(* A bus error of the program while handle_buserror is installed jumps into *)
(* a function of the stub that has returned.                                *)
Exception(vector, format, fp, at) ==
  /\ mode = "run"
  /\ <<vector, format>> \in Taken
  /\ IF vector = BusError /\ vector2 # "_catchException"
     THEN mode' = "lost" /\ UNCHANGED <<frames, pc, vector2, sigval>>
     ELSE Stop(vector, format, fp, at)

(* _debug_level7: a level 7 interrupt of code that runs at level 7, as the  *)
(* stub itself and the kernel's handlers do, returns at once.               *)
Nmi(masked, fp, at) ==
  /\ mode \in {"run", "stopped", "access"}
  /\ mode # "run" => masked
  /\ IF masked
     THEN UNCHANGED vars
     ELSE Stop(Level7, 0, fp, at)

-----------------------------------------------------------------------------
(* Commands.  ?, d, g, k and unknown ones change nothing that is kept here. *)

Inquire == mode = "stopped" /\ UNCHANGED vars

(* G sets all the registers, the program counter among them. *)
SetRegisters(to) ==
  /\ mode = "stopped"
  /\ pc' = to
  /\ UNCHANGED <<frames, vector2, sigval, mode>>

(* m and M, after setjmp: the handler is installed before the arguments are *)
(* looked at.                                                               *)
TouchMemory ==
  /\ mode = "stopped"
  /\ mode' = "access"
  /\ vector2' = "handle_buserror"
  /\ UNCHANGED <<frames, pc, sigval>>

(* A faulty variant: the handler is restored after a fault only. *)
TouchEndsUnrestored ==
  /\ mode = "access"
  /\ mode' = "stopped"
  /\ UNCHANGED <<frames, pc, vector2, sigval>>

(* The arguments were bad (E01, E02), or the access went well.  The host    *)
(* asks for at most 199 bytes, what remcomOutBuffer holds in hexadecimal:   *)
(* the stub does not look, and what a longer reply overwrites is left out.  *)
TouchEnds ==
  /\ mode = "access"
  /\ mode' = "stopped"
  /\ vector2' = "_catchException"
  /\ UNCHANGED <<frames, pc, sigval>>

(* handle_buserror: longjmp back behind setjmp, which answers E03; no frame *)
(* is saved.                                                                *)
TouchFaults(fp) ==
  /\ mode = "access"
  /\ IF vector2 = "handle_buserror"
     THEN /\ mode' = "stopped"
          /\ vector2' = "_catchException"
          /\ UNCHANGED <<frames, pc, sigval>>
     ELSE Stop(BusError, 7, fp, pc)

-----------------------------------------------------------------------------
(* c and s, with or without an address.                                     *)

(* A faulty variant: the two bytes of the trap instruction are forgotten. *)
MatchesExactly(frame, newPC) == frame.pc = newPC

(* A faulty variant: the end of the list is taken for a match. *)
MatchesEnd(frame, newPC) == frame.pc = newPC \/ frame.addr = Top

(* The program counter saved by a breakpoint is behind the trap. *)
Matches(frame, newPC) ==
  \/ frame.pc = newPC
  \/ frame.vector = Breakpoint /\ frame.pc = newPC + 2

Found(newPC) == {i \in 1 .. Len(frames) : Matches(frames[i], newPC)}

(* The list once return_to_any has linked in the frame before frame i. *)
Unwound(i) == IF i = 1 THEN <<frames[1]>> ELSE SubSeq(frames, 1, i - 1)

(* The first match from the newest frame on.  The handler that was there    *)
(* before, _hook, does nothing, so the program counter stays and the frame  *)
(* is used: _returnFromException, which pushes its words and executes rte.  *)
ContinueThrough(i, newPC) ==
  /\ mode = "stopped"
  /\ i \in Found(newPC)
  /\ \A j \in Found(newPC) : j <= i
  /\ pc' = newPC
  /\ frames' = Unwound(i)
  /\ mode' = IF frames[i].size = 0 THEN "lost" ELSE "run"
  /\ UNCHANGED <<vector2, sigval>>

(* A faulty variant: room is kept for the new frame only. *)
CreptTooFarByOne == lastFrame.addr - FrameBytes < 0

CreptTooFar == lastFrame.addr - 3 * FrameBytes < 0

(* No match: a frame of four words is made below lastFrame and at once      *)
(* popped by the return.  If that would come too near to the start of the   *)
(* array the whole list is given up, and the last frame is used for it.     *)
ContinueAnywhere(newPC) ==
  /\ mode = "stopped"
  /\ Found(newPC) = {}
  /\ pc' = newPC
  /\ frames' = IF CreptTooFar THEN <<[Sentinel EXCEPT !.size = 4]>> ELSE frames
  /\ mode' = "run"
  /\ UNCHANGED <<vector2, sigval>>

(* Nothing is said of a machine that returned through no frame. *)
Lost == mode = "lost" /\ UNCHANGED vars

Next ==
  \/ \E t \in Taken, fp \in FpBytes, at \in Pc : Exception(t[1], t[2], fp, at)
  \/ \E masked \in BOOLEAN, fp \in FpBytes, at \in Pc : Nmi(masked, fp, at)
  \/ Inquire
  \/ \E to \in Pc : SetRegisters(to)
  \/ TouchMemory
  \/ TouchEnds
  \/ \E fp \in FpBytes : TouchFaults(fp)
  \/ \E newPC \in Pc \cup {pc}, i \in 1 .. Len(frames) : ContinueThrough(i, newPC)
  \/ \E newPC \in Pc \cup {pc} : ContinueAnywhere(newPC)
  \/ Lost

Spec == Init /\ [][Next]_vars

-----------------------------------------------------------------------------
(* Type correctness of the stub. *)
FrameRecord == [addr : Int, pc : Nat, vector : Nat, size : Nat, fp : Nat]

TypeOK ==
  /\ frames \in Seq(FrameRecord) /\ Len(frames) > 0
  /\ pc \in Nat
  /\ vector2 \in {"_catchException", "handle_buserror"}
  /\ sigval \in Nat
  /\ mode \in {"run", "stopped", "access", "lost"}

(* Only the command c looks at the bound, and the three Frame structures it *)
(* keeps, 78 bytes, are just what a bus error needs with an idle FPU.  A    *)
(* frame that reaches below the start of gdbFrameStack is one taken while   *)
(* an FPU instruction was unfinished; it is the newest, and the program     *)
(* never goes on with it on the list.                                       *)
FrameStackFits ==
  \A i \in 1 .. Len(frames) :
    frames[i].addr < 0 =>
      /\ frames[i].fp > FpIdle
      /\ i = Len(frames)
      /\ mode # "run"

(* The stub loses the machine in two ways only: the host continues at       *)
(* address 0, which the frame that ends the list matches until a reset has  *)
(* filled it in, and the rte goes through a frame without words; or a frame *)
(* was saved below the array.                                               *)
LostExplained == mode = "lost" => pc = 0 \/ lastFrame.addr < 0

(* While handle_buserror is the handler of bus errors the stub is inside m  *)
(* or M: neither a fault of the program nor one of the next command jumps   *)
(* into a setjmp that is over.                                              *)
BusErrorHandlerRestored == vector2 = "handle_buserror" <=> mode = "access"

(* "Normal use should not see this happen": a program continued where it    *)
(* stopped, at a breakpoint two bytes before it, leaves the list as it was  *)
(* before the exception.                                                    *)
ContinuedWhereStopped ==
  /\ mode = "stopped" /\ mode' = "run"
  /\ IF lastFrame.vector = Breakpoint
     THEN pc' \in {lastFrame.pc, lastFrame.pc - 2}
     ELSE pc' = lastFrame.pc

NormalUseDoesNotCreep ==
  [][ContinuedWhereStopped => frames' = SubSeq(frames, 1, Len(frames) - 1)]_vars
=============================================================================
