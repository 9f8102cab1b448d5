------------------------------- MODULE GdbLink -------------------------------
(***************************************************************************)
(* How the debugger stub of kernel/gdb-stub.c and its host talk: getpacket *)
(* and putpacket, and the loop of handle_exception that calls them, over a *)
(* serial line that loses and damages characters.                          *)
(*                                                                         *)
(* A packet is $, its text, # and two digits of the sum of the text.  The  *)
(* receiver answers + or -; the sender repeats the packet until it reads   *)
(* a +.  While the stub is in putpacket everything else it reads, the      *)
(* characters of a command among them, makes it repeat its reply.          *)
(*                                                                         *)
(* The host is gdb, which is not part of the repository.  It repeats a     *)
(* command on - and when no answer comes in time, asks for a reply again   *)
(* with -, and drops and acknowledges a reply that comes while it waits    *)
(* for +.                                                                  *)
(***************************************************************************)
EXTENDS Integers, Sequences

CONSTANTS
  BUFMAX,       (* size of remcomInBuffer                                  *)
  hexchars,     (* the digits; the code has sixteen                        *)
  Code,         (* the code of every character that may be in a text       *)
  Script,       (* the commands the host gives, all different              *)
  Answer,       (* what the stub answers to each of them                   *)
  Noise,        (* what a damaged character may be read as                 *)
  MaxErrors,    (* bounds the characters that are lost or damaged          *)
  MaxDamaged,   (* bounds those that are damaged                           *)
  MaxHasty      (* bounds the times the host gives up waiting too early    *)

NUL  == "NUL"
Base == Len(hexchars)
Byte == Base * Base      \* 256: sums are of type unsigned char

(* Texts hold characters that have a code, and not the two that frame a     *)
(* packet; no text has the mark of a sequence number in third place; the    *)
(* digits are different, and the mark is none of them.                      *)
Texts == {t \in Seq(DOMAIN Code \ {NUL}) : Len(t) >= 3 => t[3] # ":"}

ASSUME LinkAssumption ==
  /\ BUFMAX \in Nat /\ BUFMAX > 3
  /\ hexchars \in Seq(DOMAIN Code \ {NUL, ":"}) /\ Base > 1
  /\ \A i, j \in 1 .. Base : hexchars[i] = hexchars[j] => i = j
  /\ {NUL, "+", "-"} \subseteq DOMAIN Code /\ {"$", "#"} \cap DOMAIN Code = {}
  /\ Code \in [DOMAIN Code -> 0 .. Byte - 1] /\ Code[NUL] = 0
  /\ \A a, b \in DOMAIN Code : Code[a] = Code[b] => a = b
  /\ Script \in Seq(Texts) /\ \A i, j \in DOMAIN Script : Script[i] = Script[j] => i = j
  /\ Answer \in [DOMAIN Answer -> Texts]
  /\ Noise \subseteq DOMAIN Code \cup {"$", "#"}

VARIABLES
  toStub, toHost,  \* the characters under way
  rx,              \* getpacket: its locals and remcomInBuffer
  mode,            \* "get" in getpacket, "put" in putpacket
  out,             \* remcomOutBuffer
  host,            \* the host: what it does, the command it is at, its receiver
  executed,        \* history: the texts the stub took for commands
  marked,          \* history: there was a `:' in third place of remcomInBuffer
  answers,         \* history: the replies the host took for answers
  lost, damaged,   \* characters that were
  hasty,           \* times the host gave up waiting too early
  ackHit           \* history: one of the characters was a + of the stub

faults == <<lost, damaged, hasty, ackHit>>

vars == <<toStub, toHost, rx, mode, out, host, executed, marked, answers, faults>>

Errors == lost + damaged

-----------------------------------------------------------------------------
(* The sum putpacket computes and getpacket compares, after n characters    *)
(* and after all of them.                                                   *)
SumUpTo(text) ==
  LET sum[n \in 0 .. Len(text)] ==
        IF n = 0 THEN 0 ELSE (sum[n - 1] + Code[text[n]]) % Byte
  IN  sum

Sum(text) == SumUpTo(text)[Len(text)]

(* hex(ch), -1 if ch is no digit.  (The code reads A to F like a to f;      *)
(* hexchars, and gdb, write the small ones.)                                *)
hex(ch) ==
  IF \E i \in 1 .. Base : hexchars[i] = ch
  THEN (CHOOSE i \in 1 .. Base : hexchars[i] = ch) - 1
  ELSE -1

(* What putpacket writes. *)
Packet(text) ==
  <<"$">> \o text
    \o <<"#", hexchars[(Sum(text) \div Base) + 1], hexchars[(Sum(text) % Base) + 1]>>

(* The number two characters of a packet give when they are read as digits. *)
Digits(text, k) ==
  (((hex(Packet(text)[k]) * Base) % Byte) + hex(Packet(text)[k + 1])) % Byte

(* A $ or # in the middle of a packet would not be noticed if the sum of    *)
(* what comes before it were 0, or were what comes after it: eight bits     *)
(* cannot tell everything apart.  The commands and replies of a session are *)
(* such that they tell these.                                               *)
TellsMarks(text) ==
  /\ "$" \in Noise => \A n \in 1 .. Len(text) : SumUpTo(text)[n] # 0
  /\ "#" \in Noise => \A n \in 0 .. Len(text) - 1 : Digits(text, n + 3) # SumUpTo(text)[n]

ASSUME NoiseAssumption ==
  /\ \A i \in DOMAIN Script : TellsMarks(Script[i])
  /\ \A t \in DOMAIN Answer : TellsMarks(Answer[t])

(* getpacket, character by character.  The buffer is not cleared: behind    *)
(* the text, its end included, is what earlier packets left.                *)
Empty == [st |-> "hunt", count |-> 0, checksum |-> 0, xmitcsum |-> 0,
          buffer |-> [i \in 0 .. BUFMAX - 1 |-> NUL]]

Retry(r) == [r EXCEPT !.st = "body", !.checksum = 0, !.count = 0]

Keep(r, ch) ==
  [r EXCEPT !.checksum = (@ + Code[ch]) % Byte, !.buffer[r.count] = ch, !.count = @ + 1]

(* A text that fills the buffer is dropped without an answer. *)
Bounded(r) ==
  IF r.count < BUFMAX - 1 THEN r ELSE [r EXCEPT !.buffer[r.count] = NUL, !.st = "hunt"]

(* A faulty variant: the sum is not compared. *)
VerdictAlwaysGood(r, sum) == "good"

Verdict(r, sum) == IF r.checksum = sum THEN "good" ELSE "bad"

Scan(r, ch) ==
  CASE r.st = "hunt" /\ ch # "$" -> r
    [] r.st \in {"hunt", "body"} /\ ch = "$" -> Retry(r)
    [] r.st = "body" /\ ch = "#" -> [r EXCEPT !.buffer[r.count] = NUL, !.st = "hi"]
    [] r.st = "body" /\ ch \notin {"$", "#"} -> Bounded(Keep(r, ch))
    [] r.st = "hi" -> [r EXCEPT !.xmitcsum = (hex(ch) * Base) % Byte, !.st = "lo"]
    [] r.st = "lo" -> [r EXCEPT !.st = Verdict(r, (r.xmitcsum + hex(ch)) % Byte)]

(* The text at &buffer[from], up to its end. *)
TextAt(r, from) ==
  LET end == CHOOSE i \in from .. BUFMAX - 1 :
               r.buffer[i] = NUL /\ \A j \in from .. i - 1 : r.buffer[j] # NUL
  IN  [i \in 1 .. end - from |-> r.buffer[from + i - 1]]

(* A third character `:' marks a sequence number before the command. *)
HasSequence(r) == r.buffer[2] = ":"

Text(r) == TextAt(r, IF HasSequence(r) THEN 3 ELSE 0)

(* The + of getpacket, followed by the sequence number if there is one. *)
Acknowledge(r) ==
  IF HasSequence(r) THEN <<"+", r.buffer[0], r.buffer[1]>> ELSE <<"+">>

-----------------------------------------------------------------------------
(* The stub has sent the packet that reports the stop, and the host has     *)
(* acknowledged it.                                                         *)
Init ==
  /\ toStub = <<>> /\ toHost = <<>>
  /\ rx = Empty /\ mode = "get" /\ out = <<>>
  /\ host = [st |-> "idle", at |-> 0, rx |-> Empty]
  /\ executed = <<>> /\ marked = FALSE /\ answers = <<>>
  /\ lost = 0 /\ damaged = 0 /\ hasty = 0 /\ ackHit = FALSE

(* The stub reads a character in getpacket.  A command that came through is *)
(* carried out and answered: no character is read before the reply is out,  *)
(* whether the command is a question or lets the program run to the next    *)
(* exception.                                                               *)
Reply(text) == IF text \in DOMAIN Answer THEN Answer[text] ELSE <<>>

GetPacket ==
  LET r == Scan(rx, Head(toStub))
  IN  /\ mode = "get" /\ toStub # <<>>
      /\ toStub' = Tail(toStub)
      /\ \/ /\ r.st = "good"
            /\ rx' = [r EXCEPT !.st = "hunt"]
            /\ executed' = Append(executed, Text(r))
            /\ out' = Reply(Text(r))
            /\ toHost' = toHost \o Acknowledge(r) \o Packet(out')
            /\ mode' = "put"
         \/ /\ r.st = "bad"
            /\ rx' = [r EXCEPT !.st = "hunt"]
            /\ toHost' = Append(toHost, "-")
            /\ UNCHANGED <<executed, out, mode>>
         \/ /\ r.st \notin {"good", "bad"}
            /\ rx' = r
            /\ UNCHANGED <<executed, out, mode, toHost>>
      /\ marked' = (marked \/ HasSequence(r))
      /\ UNCHANGED <<host, answers, faults>>

(* A faulty variant: a - ends the wait too. *)
AcknowledgedByEither(ch) == ch \in {"+", "-"}

Acknowledged(ch) == ch = "+"

(* A faulty variant: the start of a command ends the wait too, and is left  *)
(* for getpacket.                                                           *)
PutPacketOverruled ==
  /\ mode = "put" /\ toStub # <<>>
  /\ toStub' = IF Head(toStub) = "$" THEN toStub ELSE Tail(toStub)
  /\ IF Acknowledged(Head(toStub)) \/ Head(toStub) = "$"
     THEN mode' = "get" /\ UNCHANGED toHost
     ELSE toHost' = toHost \o Packet(out) /\ UNCHANGED mode
  /\ UNCHANGED <<rx, out, host, executed, marked, answers, faults>>

(* The stub reads a character in putpacket. *)
PutPacket ==
  /\ mode = "put" /\ toStub # <<>>
  /\ toStub' = Tail(toStub)
  /\ IF Acknowledged(Head(toStub))
     THEN mode' = "get" /\ UNCHANGED toHost
     ELSE toHost' = toHost \o Packet(out) /\ UNCHANGED mode
  /\ UNCHANGED <<rx, out, host, executed, marked, answers, faults>>

Stub == GetPacket \/ PutPacket

-----------------------------------------------------------------------------
(* The host, external. *)

HostIs(st) == host' = [host EXCEPT !.st = st, !.rx = Empty]

SendCommand ==
  /\ host.st = "idle" /\ host.at < Len(Script)
  /\ host' = [host EXCEPT !.st = "ack", !.at = @ + 1]
  /\ toStub' = toStub \o Packet(Script[host.at + 1])
  /\ UNCHANGED <<toHost, rx, mode, out, executed, marked, answers, faults>>

(* Outside a packet, + and - count; a packet is an old reply. *)
AwaitAck ==
  LET ch == Head(toHost)
      r  == Scan(host.rx, ch)
  IN  /\ host.st = "ack" /\ toHost # <<>>
      /\ toHost' = Tail(toHost)
      /\ \/ /\ host.rx.st = "hunt" /\ ch = "+"
            /\ HostIs("reply") /\ UNCHANGED toStub
         \/ /\ host.rx.st = "hunt" /\ ch = "-"
            /\ HostIs("ack") /\ toStub' = toStub \o Packet(Script[host.at])
         \/ /\ ~(host.rx.st = "hunt" /\ ch \in {"+", "-"})
            /\ IF r.st \in {"good", "bad"}
               THEN HostIs("ack") /\ toStub' = Append(toStub, "+")
               ELSE host' = [host EXCEPT !.rx = r] /\ UNCHANGED toStub
      /\ UNCHANGED <<rx, mode, out, executed, marked, answers, faults>>

AwaitReply ==
  LET r == Scan(host.rx, Head(toHost))
  IN  /\ host.st = "reply" /\ toHost # <<>>
      /\ toHost' = Tail(toHost)
      /\ \/ /\ r.st = "good"
            /\ HostIs("idle")
            /\ answers' = Append(answers, Text(r))
            /\ toStub' = Append(toStub, "+")
         \/ /\ r.st = "bad"
            /\ HostIs("reply")
            /\ toStub' = Append(toStub, "-")
            /\ UNCHANGED answers
         \/ /\ r.st \notin {"good", "bad"}
            /\ host' = [host EXCEPT !.rx = r]
            /\ UNCHANGED <<toStub, answers>>
      /\ UNCHANGED <<rx, mode, out, executed, marked, faults>>

(* Nobody writes and nothing is under way. *)
Quiet == toStub = <<>> /\ toHost = <<>>

Repeat ==
  /\ host.st \in {"ack", "reply"}
  /\ HostIs(host.st)
  /\ toStub' = toStub \o (IF host.st = "ack" THEN Packet(Script[host.at]) ELSE <<"-">>)
  /\ UNCHANGED <<toHost, rx, mode, out, executed, marked, answers, lost, damaged, ackHit>>

TimeOut == Quiet /\ Repeat /\ UNCHANGED hasty

(* The answer is late, and under way. *)
TimeOutEarly ==
  /\ ~Quiet /\ hasty < MaxHasty
  /\ hasty' = hasty + 1
  /\ Repeat

Finished == host.st = "idle" /\ host.at = Len(Script) /\ UNCHANGED vars

-----------------------------------------------------------------------------
(* The line, external: a character is lost or damaged before it is read.    *)

HitToHost == ackHit' = (ackHit \/ Head(toHost) = "+")

Lose ==
  /\ Errors < MaxErrors /\ lost' = lost + 1
  /\ \/ toStub # <<>> /\ toStub' = Tail(toStub) /\ UNCHANGED <<toHost, ackHit>>
     \/ toHost # <<>> /\ toHost' = Tail(toHost) /\ HitToHost /\ UNCHANGED toStub
  /\ UNCHANGED <<rx, mode, out, host, executed, marked, answers, damaged, hasty>>

Damage(line, ch) == line # <<>> /\ Head(line) # ch

Corrupt ==
  /\ Errors < MaxErrors /\ damaged < MaxDamaged /\ damaged' = damaged + 1
  /\ \E ch \in Noise :
       \/ /\ Damage(toStub, ch) /\ toStub' = <<ch>> \o Tail(toStub)
          /\ UNCHANGED <<toHost, ackHit>>
       \/ /\ Damage(toHost, ch) /\ toHost' = <<ch>> \o Tail(toHost)
          /\ HitToHost /\ UNCHANGED toStub
  /\ UNCHANGED <<rx, mode, out, host, executed, marked, answers, lost, hasty>>

Next ==
  \/ GetPacket \/ PutPacket
  \/ SendCommand \/ AwaitAck \/ AwaitReply \/ TimeOut \/ TimeOutEarly \/ Finished
  \/ Lose \/ Corrupt

Spec == Init /\ [][Next]_vars

(* Both ends keep reading, and the host does not wait for ever. *)
FairSpec ==
  /\ Spec
  /\ WF_vars(Stub)
  /\ WF_vars(SendCommand) /\ WF_vars(AwaitAck) /\ WF_vars(AwaitReply) /\ WF_vars(TimeOut)

-----------------------------------------------------------------------------
Commands == {Script[i] : i \in DOMAIN Script}

(* As long as at most one character of the session is lost or damaged, the  *)
(* stub carries out nothing the host did not send: the checksum catches     *)
(* it, and what a rejected packet left in the buffer does not leak into     *)
(* the next one.  The exception is a `:' that a damaged packet left in      *)
(* third place, when the host, repeating too early, does not send that      *)
(* command again: a later command of one character is then taken for one    *)
(* with a sequence number.                                                  *)
NothingForged ==
  Errors <= 1 /\ ~(marked /\ hasty > 0) =>
    \A i \in DOMAIN executed : executed[i] \in Commands

(* What went wrong so far: characters, and repetitions that came too early. *)
Faults == Errors + hasty

(* One fault does not have a command carried out twice, unless it is the    *)
(* loss of the + of the stub: a repeated command that comes while the stub  *)
(* waits in putpacket only makes it repeat its reply.                       *)
CarriedOutOnce ==
  Faults <= 1 /\ ~ackHit =>
    \A i, j \in DOMAIN executed : executed[i] = executed[j] => i = j

(* The host never takes an old reply, or a damaged one, for the answer to   *)
(* a later command, as long as at most one character suffers, the host is   *)
(* hasty at most once, and not both if the character is a damaged one.      *)
AnswersBelong ==
  Errors <= 1 /\ hasty <= 1 /\ ~(damaged > 0 /\ hasty > 0) =>
    \A i \in DOMAIN answers : answers[i] = Answer[Script[i]]

(* If characters are lost but not damaged, and the host does not give up    *)
(* early, every command is answered in the end.                             *)
EveryCommandAnswered ==
  <>(\/ host.at = Len(Script) /\ host.st = "idle"
     \/ damaged > 0 \/ hasty > 0)
=============================================================================
