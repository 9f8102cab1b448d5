-------------------------- MODULE GdbFrames_proofs --------------------------
(***************************************************************************)
(* The stack of exception frames of the debugger stub leaves its array     *)
(* only with a frame taken while an FPU instruction was unfinished, for    *)
(* every size of the array with room for the margin, every set of          *)
(* exceptions, every size of the FPU's state frames and every sequence of  *)
(* stops and commands.                                                     *)
(*                                                                         *)
(* The property is not inductive: what makes the next frame fit is that,   *)
(* whenever the program runs, the newest frame is at least three Frame     *)
(* structures, 78 bytes, above the start, while the largest record with an *)
(* idle FPU, a bus error's, has 14 + 2 * 30 + 4 bytes.  Going back to an   *)
(* older frame keeps this because every frame but the newest was the       *)
(* newest once while the program ran.                                      *)
(***************************************************************************)
EXTENDS GdbFrames, SequenceTheorems, TLAPS

Margin == 3 * FrameBytes

(* The first frame of the list is the one set up by                         *)
(* initializeRemcomErrorFrame, filled in or not.                            *)
EndsAtTop ==
  frames[1].addr = Top /\ frames[1].pc = 0 /\ frames[1].vector = 0

(* Room for one more record below every frame the program ran above. *)
RoomBelow ==
  /\ \A i \in 1 .. Len(frames) - 1 : frames[i].addr >= Margin
  /\ mode = "run" => frames[Len(frames)].addr >= Margin

(* Every frame but the first has words of the processor. *)
HasWords == \A i \in 2 .. Len(frames) : frames[i].size > 0

(* While the stub talks to the host, the exception that stopped the program *)
(* is on the list.                                                          *)
StoppedOnAFrame == mode \in {"stopped", "access"} => Len(frames) > 1

Inv ==
  /\ TypeOK
  /\ StoppedOnAFrame
  /\ EndsAtTop
  /\ RoomBelow
  /\ HasWords
  /\ FrameStackFits
  /\ BusErrorHandlerRestored
  /\ LostExplained

(* A record saved with an idle FPU fits into the margin, and none is empty. *)
LEMMA RecordFits ==
  ASSUME NEW format \in Formats, NEW fp \in Nat
  PROVE  /\ exceptionSize[format] \in Nat
         /\ exceptionSize[format] > 0
         /\ RecordBytes(exceptionSize[format], fp) \in Nat
         /\ fp <= FpIdle => RecordBytes(exceptionSize[format], fp) <= Margin
<1>1. format \in 0 .. 16 /\ exceptionSize[format] # 0
  BY DEF Formats
<1>2. exceptionSize[format] \in {4, 6, 8, 30, 0}
  BY <1>1 DEF exceptionSize
<1> QED BY <1>1, <1>2 DEF RecordBytes, Margin, FrameBytes, Header, FpIdle

(* Signals are numbers. *)
LEMMA SignalType ==
  ASSUME NEW vector \in Nat
  PROVE  computeSignal(vector) \in Nat
BY DEF computeSignal

(* Vectors are numbers. *)
LEMMA CaughtAreNumbers == \A vector \in Caught : vector \in Nat
<1> SUFFICES ASSUME NEW vector \in Caught PROVE vector \in Nat
  OBVIOUS
<1>1. vector \in 2 .. 23 \/ vector \in {31, 33, 40} \/ vector \in 48 .. 54
  BY Zenon DEF Caught
<1> QED BY <1>1

(* Pushing a record below the margin: it stays inside if the FPU is idle.   *)
LEMMA StopStep ==
  ASSUME Inv,
         NEW vector \in Caught, NEW format \in Formats, NEW fp \in Nat, NEW at \in Nat,
         frames[Len(frames)].addr >= Margin,
         vector2 = "_catchException",
         Stop(vector, format, fp, at)
  PROVE  Inv'
<1> DEFINE size  == exceptionSize[format]
           bytes == RecordBytes(size, fp)
           new   == [addr |-> lastFrame.addr - bytes,
                     pc |-> at, vector |-> vector, size |-> size, fp |-> fp]
<1>1. /\ size \in Nat /\ size > 0 /\ bytes \in Nat
      /\ fp <= FpIdle => bytes <= Margin
  BY RecordFits
<1>2. frames' = Append(frames, new)
  BY DEF Stop, Push
<1>3. /\ frames \in Seq(FrameRecord) /\ Len(frames) \in Nat /\ Len(frames) > 0
      /\ lastFrame \in FrameRecord
  BY DEF Inv, TypeOK, lastFrame
<1>5. vector \in Nat
  BY CaughtAreNumbers
<1> HIDE DEF size, bytes
<1>6. new \in FrameRecord
  BY <1>1, <1>3, <1>5 DEF FrameRecord
<1>7. /\ new.addr = lastFrame.addr - bytes
      /\ new.size = size /\ new.fp = fp
  OBVIOUS
<1> HIDE DEF new
<1>8. /\ frames' \in Seq(FrameRecord)
      /\ Len(frames') = Len(frames) + 1
      /\ \A i \in 1 .. Len(frames) : frames'[i] = frames[i]
      /\ frames'[Len(frames) + 1] = new
  BY <1>2, <1>3, <1>6
<1>9. lastFrame = frames[Len(frames)] /\ lastFrame.addr \in Int
  BY <1>3 DEF lastFrame, FrameRecord
<1>4. mode' \in {"stopped", "lost"} /\ (mode' = "lost" => lastFrame'.addr < 0)
  BY DEF Stop
<1>10. TypeOK'
  <2>1. pc' \in Nat /\ sigval' \in Nat /\ vector2' = vector2
    BY <1>5, SignalType DEF Stop
  <2> QED BY <1>4, <1>8, <1>3, <2>1 DEF Inv, TypeOK
<1>11. EndsAtTop'
  BY <1>8, <1>3 DEF Inv, EndsAtTop
<1>12. RoomBelow'
  BY <1>4, <1>8, <1>3, <1>9 DEF Inv, RoomBelow
<1>13. HasWords'
  BY <1>8, <1>3, <1>7, <1>1 DEF Inv, HasWords
<1>14. FrameStackFits'
  <2> SUFFICES ASSUME NEW i \in 1 .. Len(frames'), frames'[i].addr < 0
               PROVE  frames'[i].fp > FpIdle /\ i = Len(frames') /\ mode' # "run"
    BY DEF FrameStackFits
  <2>1. mode' # "run"
    BY <1>4
  <2>2. \A k \in 1 .. Len(frames) : frames[k].addr >= Margin /\ frames[k] \in FrameRecord
    BY <1>3 DEF Inv, RoomBelow
  <2>3. i = Len(frames) + 1
    <3> SUFFICES ASSUME i # Len(frames) + 1 PROVE FALSE
      OBVIOUS
    <3>1. i \in 1 .. Len(frames)
      BY <1>3, <1>8
    <3>2. frames[i].addr \in Int /\ frames[i].addr >= Margin /\ frames[i].addr < 0
      BY <1>8, <2>2, <3>1 DEF FrameRecord
    <3> QED BY <3>2 DEF Margin, FrameBytes
  <2>4. fp > FpIdle
    BY <2>3, <1>1, <1>7, <1>8, <1>9 DEF Margin, FrameBytes, FpIdle
  <2> QED BY <2>1, <2>3, <2>4, <1>7, <1>8
<1>16. BusErrorHandlerRestored'
  BY <1>4 DEF Stop, Inv, BusErrorHandlerRestored
<1>18. LostExplained'
  BY <1>4 DEF LostExplained
<1>17. StoppedOnAFrame'
  BY <1>3, <1>8 DEF StoppedOnAFrame
<1> QED BY <1>10, <1>11, <1>12, <1>13, <1>14, <1>16, <1>17, <1>18 DEF Inv

(* A step that leaves the list alone keeps what is said of the list. *)
LEMMA ListUnchanged ==
  ASSUME Inv, UNCHANGED frames,
         mode' = "run" => frames[Len(frames)].addr >= Margin,
         mode' \in {"stopped", "access"} => mode \in {"stopped", "access"}
  PROVE  /\ EndsAtTop' /\ RoomBelow' /\ HasWords' /\ FrameStackFits'
         /\ StoppedOnAFrame'
<1>1. EndsAtTop' /\ RoomBelow' /\ HasWords' /\ StoppedOnAFrame'
  BY DEF Inv, EndsAtTop, RoomBelow, HasWords, StoppedOnAFrame
<1>2. FrameStackFits'
  <2> SUFFICES ASSUME NEW i \in 1 .. Len(frames), frames[i].addr < 0
               PROVE  frames[i].fp > FpIdle /\ i = Len(frames) /\ mode' # "run"
    BY DEF FrameStackFits
  <2>1. frames[i].fp > FpIdle /\ i = Len(frames)
    BY DEF Inv, FrameStackFits
  <2>2. frames[i].addr \in Int
    <3>1. frames \in Seq(FrameRecord)
      BY DEF Inv, TypeOK
    <3>2. frames[i] \in FrameRecord
      BY <3>1
    <3> QED BY <3>2 DEF FrameRecord
  <2>3. mode' # "run"
    BY <2>1, <2>2 DEF Margin, FrameBytes
  <2> QED BY <2>1, <2>3
<1> QED BY <1>1, <1>2

(* Going back to the frames before frame i. *)
LEMMA ContinueThroughStep ==
  ASSUME Inv, NEW newPC \in Nat, NEW i \in 1 .. Len(frames), ContinueThrough(i, newPC)
  PROVE  Inv'
<1>1. /\ frames \in Seq(FrameRecord) /\ Len(frames) \in Nat /\ Len(frames) > 0
      /\ vector2 = "_catchException"
  BY DEF Inv, TypeOK, BusErrorHandlerRestored, ContinueThrough
<1>2. \A k \in 1 .. Len(frames) : frames[k] \in FrameRecord
  BY <1>1
<1> DEFINE n == IF i = 1 THEN 1 ELSE i - 1
<1>3. /\ n \in 1 .. Len(frames)
      /\ n = 1 \/ n < Len(frames)
  BY <1>1
<1>4. /\ frames' \in Seq(FrameRecord)
      /\ Len(frames') = n
      /\ \A k \in 1 .. n : frames'[k] = frames[k]
  <2>1. CASE i = 1
    BY <2>1, <1>1, <1>2 DEF ContinueThrough, Unwound
  <2>2. CASE i # 1
    <3>1. frames' = SubSeq(frames, 1, n)
      BY <2>2 DEF ContinueThrough, Unwound
    <3>2. n \in Int /\ 1 \in Int /\ \A k \in 1 .. n : frames[k] \in FrameRecord
      BY <1>1, <1>2, <1>3
    <3> HIDE DEF n
    <3>3. /\ SubSeq(frames, 1, n) \in Seq(FrameRecord)
          /\ Len(SubSeq(frames, 1, n)) = IF 1 <= n THEN n - 1 + 1 ELSE 0
          /\ \A k \in 1 .. n - 1 + 1 : SubSeq(frames, 1, n)[k] = frames[1 + k - 1]
      BY <3>2, SubSeqProperties
    <3> QED BY <3>1, <3>3, <1>3
  <2> QED BY <2>1, <2>2
<1> HIDE DEF n
<1>5. frames[n].addr >= Margin
  <2>1. frames[1].addr >= Margin
    BY StackAssumption DEF Inv, EndsAtTop, Margin
  <2> QED BY <2>1, <1>3, <1>1 DEF Inv, RoomBelow
<1>6. TypeOK'
  BY <1>1, <1>3, <1>4 DEF Inv, TypeOK, ContinueThrough
<1>7. EndsAtTop'
  BY <1>3, <1>4 DEF Inv, EndsAtTop
<1>8. RoomBelow'
  BY <1>1, <1>3, <1>4, <1>5 DEF Inv, RoomBelow
<1>9. HasWords' /\ FrameStackFits'
  <2>1. \A k \in 2 .. n : k \in 2 .. Len(frames) /\ k \in 1 .. n /\ k - 1 \in 1 .. n
    BY <1>1, <1>3
  <2>2. HasWords'
    BY <2>1, <1>4 DEF Inv, HasWords
  <2>3. \A k \in 1 .. n : frames[k].addr >= Margin /\ frames[k].addr \in Int
    <3>1. \A k \in 1 .. n : k \in 1 .. Len(frames) /\ (k = n \/ k \in 1 .. Len(frames) - 1)
      BY <1>1, <1>3
    <3>2. \A k \in 1 .. n : frames[k].addr >= Margin
      BY <3>1, <1>5 DEF Inv, RoomBelow
    <3>3. \A k \in 1 .. n : frames[k].addr \in Int
      BY <3>1, <1>2 DEF FrameRecord
    <3> QED BY <3>2, <3>3
  <2>4. FrameStackFits'
    BY <1>3, <1>4, <2>3 DEF FrameStackFits, Margin, FrameBytes
  <2> QED BY <2>2, <2>4
<1>10. BusErrorHandlerRestored'
  BY <1>1 DEF ContinueThrough, BusErrorHandlerRestored
<1>11. LostExplained'
  <2> SUFFICES ASSUME frames[i].size = 0
               PROVE  newPC = 0
    BY DEF ContinueThrough, LostExplained
  <2>1. i = 1
    <3>1. i # 1 => i \in 2 .. Len(frames)
      BY <1>1
    <3>2. i # 1 => 0 > 0
      BY <3>1 DEF Inv, HasWords
    <3> QED BY <3>2
  <2> QED BY <2>1 DEF ContinueThrough, Found, Matches, Breakpoint, Inv, EndsAtTop
<1>12. StoppedOnAFrame'
  BY DEF ContinueThrough, StoppedOnAFrame
<1> QED BY <1>6, <1>7, <1>8, <1>9, <1>10, <1>11, <1>12 DEF Inv

(* Going on with the list as it is, or with a new one. *)
LEMMA ContinueAnywhereStep ==
  ASSUME Inv, NEW newPC \in Nat, ContinueAnywhere(newPC)
  PROVE  Inv'
<1>1. /\ frames \in Seq(FrameRecord) /\ Len(frames) \in Nat /\ Len(frames) > 0
      /\ vector2 = "_catchException"
      /\ frames[Len(frames)].addr \in Int
  <2>1. /\ frames \in Seq(FrameRecord) /\ Len(frames) \in Nat /\ Len(frames) > 0
        /\ vector2 = "_catchException"
    BY DEF Inv, TypeOK, BusErrorHandlerRestored, ContinueAnywhere
  <2>2. frames[Len(frames)] \in FrameRecord
    BY <2>1
  <2> QED BY <2>1, <2>2 DEF FrameRecord
<1>2. BusErrorHandlerRestored' /\ LostExplained' /\ StoppedOnAFrame'
  BY <1>1 DEF ContinueAnywhere, BusErrorHandlerRestored, LostExplained, StoppedOnAFrame
<1>3. CASE CreptTooFar
  <2> DEFINE top == [Sentinel EXCEPT !.size = 4]
  <2>1. Top \in Nat /\ Top >= Margin
    BY StackAssumption DEF Top, FrameBytes, Margin
  <2>2. /\ top \in FrameRecord
        /\ top.addr = Top /\ top.pc = 0 /\ top.vector = 0
    BY <2>1 DEF Sentinel, FrameRecord
  <2> HIDE DEF top
  <2>3. frames' = <<top>>
    BY <1>3 DEF ContinueAnywhere, top
  <2>4. frames' \in Seq(FrameRecord) /\ Len(frames') = 1 /\ frames'[1] = top
    BY <2>2, <2>3
  <2>5. TypeOK'
    BY <2>4 DEF Inv, TypeOK, ContinueAnywhere
  <2>6. EndsAtTop' /\ RoomBelow' /\ HasWords' /\ FrameStackFits'
    BY <2>1, <2>2, <2>4 DEF EndsAtTop, RoomBelow, HasWords, FrameStackFits
  <2> QED BY <1>2, <2>5, <2>6 DEF Inv
<1>4. CASE ~CreptTooFar
  <2>1. UNCHANGED frames /\ mode' = "run"
    BY <1>4 DEF ContinueAnywhere
  <2>2. frames[Len(frames)].addr >= Margin
    BY <1>1, <1>4 DEF CreptTooFar, lastFrame, Margin, FrameBytes
  <2>3. TypeOK'
    BY <2>1 DEF Inv, TypeOK, ContinueAnywhere
  <2> QED BY <1>2, <2>1, <2>2, <2>3, ListUnchanged DEF Inv
<1> QED BY <1>3, <1>4

(* Every step keeps the invariant. *)
LEMMA InvStep ==
  ASSUME Inv, [Next]_vars
  PROVE  Inv'
<1> USE PcAssumption
<1>0. mode = "run" => frames[Len(frames)].addr >= Margin
  BY DEF Inv, RoomBelow
<1>1. ASSUME NEW t \in Taken, NEW fp \in FpBytes, NEW at \in Pc, Exception(t[1], t[2], fp, at)
      PROVE  Inv'
  <2>1. t[1] \in Caught /\ t[2] \in Formats /\ at \in Nat /\ fp \in Nat
    BY TakenAssumption, FpAssumption
  <2>2. vector2 = "_catchException" /\ mode = "run"
    BY <1>1 DEF Inv, TypeOK, BusErrorHandlerRestored, Exception
  <2>3. Stop(t[1], t[2], fp, at)
    BY <1>1, <2>2 DEF Exception
  <2> QED BY <1>0, <2>1, <2>2, <2>3, StopStep
<1>2. ASSUME NEW masked \in BOOLEAN, NEW fp \in FpBytes, NEW at \in Pc, Nmi(masked, fp, at)
      PROVE  Inv'
  <2>1. CASE masked
    <3>1. UNCHANGED vars
      BY <1>2, <2>1 DEF Nmi
    <3>2. TypeOK' /\ BusErrorHandlerRestored' /\ LostExplained'
      BY <3>1 DEF Inv, TypeOK, BusErrorHandlerRestored, LostExplained, lastFrame, vars
    <3> QED BY <1>0, <3>1, <3>2, ListUnchanged DEF Inv, vars
  <2>2. CASE ~masked
    <3>1. Level7 \in Caught /\ 0 \in Formats /\ at \in Nat /\ fp \in Nat
      BY FpAssumption DEF Level7, Caught, Formats, exceptionSize
    <3>2. vector2 = "_catchException" /\ mode = "run" /\ Stop(Level7, 0, fp, at)
      BY <1>2, <2>2 DEF Inv, TypeOK, BusErrorHandlerRestored, Nmi
    <3> QED BY <1>0, <3>1, <3>2, StopStep
  <2> QED BY <2>1, <2>2
<1>3. ASSUME \/ Inquire \/ (\E to \in Pc : SetRegisters(to)) \/ TouchMemory \/ TouchEnds
             \/ Lost \/ UNCHANGED vars
      PROVE  Inv'
  <2>1. /\ UNCHANGED frames /\ (mode' = "run" => mode = "run")
        /\ mode' \in {"stopped", "access"} => mode \in {"stopped", "access"}
    BY <1>3 DEF Inquire, SetRegisters, TouchMemory, TouchEnds, Lost, vars
  <2>2. TypeOK'
    BY <1>3 DEF Inv, TypeOK, Inquire, SetRegisters, TouchMemory, TouchEnds, Lost, vars
  <2>3. BusErrorHandlerRestored'
    BY <1>3 DEF Inv, BusErrorHandlerRestored, Inquire, SetRegisters, TouchMemory, TouchEnds, Lost, vars
  <2>4. LostExplained'
    BY <1>3 DEF Inv, LostExplained, lastFrame, Inquire, SetRegisters, TouchMemory, TouchEnds, Lost, vars
  <2> QED BY <1>0, <2>1, <2>2, <2>3, <2>4, ListUnchanged DEF Inv
<1>4. ASSUME NEW fp \in FpBytes, TouchFaults(fp) PROVE Inv'
  <2>1. vector2 = "handle_buserror"
    BY <1>4 DEF TouchFaults, Inv, BusErrorHandlerRestored
  <2>2. /\ UNCHANGED <<frames, pc, sigval>> /\ mode = "access" /\ mode' = "stopped"
        /\ vector2' = "_catchException"
    BY <1>4, <2>1 DEF TouchFaults
  <2>3. TypeOK' /\ BusErrorHandlerRestored' /\ LostExplained'
    BY <2>2 DEF Inv, TypeOK, BusErrorHandlerRestored, LostExplained
  <2> QED BY <2>2, <2>3, ListUnchanged DEF Inv
<1>5. ASSUME NEW newPC \in Pc \cup {pc}, NEW i \in 1 .. Len(frames), ContinueThrough(i, newPC)
      PROVE  Inv'
  BY <1>5, ContinueThroughStep DEF Inv, TypeOK
<1>6. ASSUME NEW newPC \in Pc \cup {pc}, ContinueAnywhere(newPC)
      PROVE  Inv'
  BY <1>6, ContinueAnywhereStep DEF Inv, TypeOK
<1> QED BY <1>1, <1>2, <1>3, <1>4, <1>5, <1>6 DEF Next

(* set_debug_traps establishes the invariant. *)
LEMMA InvInit == Init => Inv
<1> SUFFICES ASSUME Init PROVE Inv
  OBVIOUS
<1>1. Top \in Nat /\ Top >= Margin
  BY StackAssumption DEF Top, FrameBytes, Margin
<1>2. Sentinel \in FrameRecord /\ Sentinel.addr = Top /\ Sentinel.pc = 0 /\ Sentinel.vector = 0
  BY <1>1 DEF Sentinel, FrameRecord
<1>3. frames \in Seq(FrameRecord) /\ Len(frames) = 1 /\ frames[1] = Sentinel
  BY <1>2 DEF Init
<1>4. TypeOK
  BY <1>3, PcAssumption DEF Init, TypeOK
<1>5. EndsAtTop /\ RoomBelow /\ HasWords /\ FrameStackFits
  BY <1>1, <1>2, <1>3 DEF EndsAtTop, RoomBelow, HasWords, FrameStackFits
<1>6. BusErrorHandlerRestored /\ LostExplained /\ StoppedOnAFrame
  BY DEF Init, BusErrorHandlerRestored, LostExplained, StoppedOnAFrame
<1> QED BY <1>4, <1>5, <1>6 DEF Inv

(* The strengthened invariant holds throughout a debugging session. *)
THEOREM Invariance == Spec => []Inv
BY InvInit, InvStep, PTL DEF Spec

(* The margin the command c keeps is enough for any exception that finds    *)
(* the FPU idle: a frame outside gdbFrameStack was taken with an FPU        *)
(* instruction unfinished, and is gone before the program goes on.          *)
THEOREM FramesStayInside == Spec => []FrameStackFits
<1>1. Inv => FrameStackFits
  BY DEF Inv
<1> QED BY <1>1, Invariance, PTL

(* Only continuing at address 0 returns through a frame without words, and  *)
(* only a frame saved below the array can cost the stub anything else.      *)
THEOREM LossesAreExplained == Spec => []LostExplained
<1>1. Inv => LostExplained
  BY DEF Inv
<1> QED BY <1>1, Invariance, PTL

(* m and M give the bus-error vector back on every path. *)
THEOREM HandlerIsGivenBack == Spec => []BusErrorHandlerRestored
<1>1. Inv => BusErrorHandlerRestored
  BY DEF Inv
<1> QED BY <1>1, Invariance, PTL

(* A program continued where it stopped leaves the list as it was: the      *)
(* newest frame matches, so it is the one that is used and dropped.         *)
LEMMA NormalUse ==
  ASSUME Inv, [Next]_vars, ContinuedWhereStopped
  PROVE  frames' = SubSeq(frames, 1, Len(frames) - 1)
<1>1. /\ frames \in Seq(FrameRecord) /\ Len(frames) \in Nat /\ Len(frames) > 1
      /\ mode = "stopped" /\ mode' = "run"
  BY DEF Inv, TypeOK, StoppedOnAFrame, ContinuedWhereStopped
<1>2. lastFrame \in FrameRecord /\ lastFrame = frames[Len(frames)]
  BY <1>1 DEF lastFrame
<1>3. lastFrame.pc \in Nat
  BY <1>2 DEF FrameRecord
<1>4. Matches(lastFrame, pc')
  BY <1>3 DEF ContinuedWhereStopped, Matches
<1>5. ASSUME NEW newPC, NEW i \in 1 .. Len(frames), ContinueThrough(i, newPC)
      PROVE  frames' = SubSeq(frames, 1, Len(frames) - 1)
  <2>1. Len(frames) \in Found(newPC)
    BY <1>1, <1>2, <1>4, <1>5 DEF Found, ContinueThrough
  <2>2. i = Len(frames)
    BY <1>1, <1>5, <2>1 DEF ContinueThrough
  <2> QED BY <1>1, <1>5, <2>2 DEF ContinueThrough, Unwound
<1>6. ASSUME NEW newPC, ContinueAnywhere(newPC)
      PROVE  FALSE
  <2>1. Len(frames) \in Found(newPC)
    BY <1>1, <1>2, <1>4, <1>6 DEF Found, ContinueAnywhere
  <2> QED BY <2>1, <1>6 DEF ContinueAnywhere
<1>7. \/ \E newPC \in Pc \cup {pc}, i \in 1 .. Len(frames) : ContinueThrough(i, newPC)
      \/ \E newPC \in Pc \cup {pc} : ContinueAnywhere(newPC)
  BY <1>1 DEF Next, vars, Exception, Nmi, Stop, Inquire, SetRegisters, TouchMemory,
              TouchEnds, TouchFaults, Lost
<1> QED BY <1>5, <1>6, <1>7

(* Stopping and continuing, however often, does not use up the frame stack. *)
THEOREM NormalUseKeepsTheStack == Spec => NormalUseDoesNotCreep
<1>1. Inv /\ [Next]_vars => [ContinuedWhereStopped => frames' = SubSeq(frames, 1, Len(frames) - 1)]_vars
  BY NormalUse
<1> QED BY <1>1, Invariance, PTL DEF Spec, NormalUseDoesNotCreep
=============================================================================
