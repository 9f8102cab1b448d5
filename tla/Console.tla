------------------------------ MODULE Console ------------------------------
(***************************************************************************)
(* The console, kernel/modules/chardev/console.c: the parser of escape     *)
(* sequences in _write and the commands of _csi, over the frame-buffer     *)
(* backend of ConsoleFb.                                                   *)
(*                                                                         *)
(* One action takes one character.  Characters come from the kernel log    *)
(* and from every process that writes to the console, through one          *)
(* parse_state, so the stream is any stream.                               *)
(*                                                                         *)
(* The fields of parse_state lie behind each other: arg[MAX_ARG] is argc,  *)
(* arg[MAX_ARG + 1] is a, and what follows is `backend' and more.          *)
(***************************************************************************)
EXTENDS ConsoleFb

CONSTANTS
  MAX_ARG,     \* elements of arg
  WORD,        \* unsigned arithmetic is modulo WORD
  Digits,      \* the digits that are written
  Commands,    \* the characters that end a sequence
  Junk,        \* words that lie in memory behind arg
  ArgBound,    \* how large an argument may get: a bound of the model
  GivenBound   \* how many arguments a sequence may have: a bound of the model

ASSUME ParserAssumption ==
  /\ MAX_ARG \in Nat /\ MAX_ARG >= 2
  /\ WORD \in Nat \ {0} /\ Digits \subseteq 0 .. 9
  /\ Junk \subseteq Int /\ ArgBound \in Nat /\ GivenBound \in Nat

Black     == 0
LightGray == 7
Plain     == [fg |-> LightGray, bg |-> Black, bold |-> FALSE]

VARIABLES
  state,    \* parse_state.state
  arg,      \* parse_state.arg
  argc,     \* parse_state.argc
  a,        \* parse_state.a
  color,    \* color_fg, color_bg and bold
  saved,    \* saved_cursor
  given,    \* how many arguments the running sequence has had
  text,     \* TRUE as long as no sequence was carried out
  wild      \* memory other than arg, argc and a was overwritten

vars == <<fb_vars, state, arg, argc, a, color, saved, given, text, wild>>

Init ==
  /\ FbInit
  /\ state = "ASCII"
  /\ arg = [i \in 0 .. MAX_ARG - 1 |-> 0] /\ argc = 0 /\ a = 0
  /\ color = Plain
  /\ saved = [x |-> 0, y |-> 0]
  /\ given = 0 /\ text = TRUE /\ wild = FALSE

-----------------------------------------------------------------------------
(* _csi(cmd, n, args): cursor movements are in unsigned arithmetic.         *)

Delta(n, args) == IF n > 0 /\ args[0] > 0 THEN args[0] ELSE 1

Go(x, y) == SetCursor(x % WORD, y % WORD)

Direction(n, args) ==
  IF n = 0 \/ args[0] = 0 THEN "forward"
  ELSE IF args[0] = 1 THEN "backward" ELSE "both"

(* The backend call of a command that makes one.  H and f with no argument  *)
(* set the cursor twice: the second call, with arg[1], stands.              *)
Moves(cmd, n, args) ==
  LET d == Delta(n, args) IN
  \/ cmd = "A" /\ IF cursor_y = 0 THEN UNCHANGED fb_vars ELSE Go(cursor_x, cursor_y - d)
  \/ cmd = "B" /\ Go(cursor_x, cursor_y + d)
  \/ cmd = "C" /\ Go(cursor_x + d, cursor_y)
  \/ cmd = "D" /\ IF cursor_x = 0 THEN UNCHANGED fb_vars ELSE Go(cursor_x - d, cursor_y)
  \/ cmd = "E" /\ Go(0, cursor_y + d)
  \/ cmd = "F" /\ Go(0, (IF cursor_y = 0 THEN 1 ELSE cursor_y) - d)
  \/ cmd = "G" /\ Go(d - 1, cursor_y)
  \/ cmd = "H" /\ Go(IF n = 1 THEN cursor_x ELSE IF args[1] > 0 THEN args[1] - 1 ELSE 0, d - 1)
  \/ cmd = "J" /\ ClearLines(Direction(n, args))
  \/ cmd = "S" /\ ScrollUp(d)
  \/ cmd = "T" /\ ScrollDown(d)
  \/ cmd = "u" /\ SetCursor(saved.x, saved.y)
  \/ cmd \in {"K", "s", "m", "other"} /\ UNCHANGED fb_vars

(* What one argument of m does to the colours. *)
AfterAttribute(att, v) ==
  CASE v = 0            -> Plain
    [] v \in {1, 22}    -> [att EXCEPT !.bold = (v = 1)]
    [] v \in 31 .. 37   -> [att EXCEPT !.fg = v - 30]
    [] v = 39           -> [att EXCEPT !.fg = LightGray]
    [] v \in 41 .. 47   -> [att EXCEPT !.bg = v - 40]
    [] v = 49           -> [att EXCEPT !.bg = Black]
    [] OTHER            -> att

(* The colours after the first n arguments; with more than there are, the   *)
(* loop goes on through what lies behind.                                   *)
Attributes(n, args) ==
  LET after[i \in 0 .. MAX_ARG] ==
        IF i = 0 THEN color ELSE AfterAttribute(after[i - 1], args[i - 1])
  IN  IF n = 0 THEN {Plain}
      ELSE IF n < 0 THEN {color}
      ELSE IF n <= MAX_ARG THEN {after[n]}
      ELSE {AfterAttribute(after[MAX_ARG], v) : v \in Junk}

Csi(cmd, n, args) ==
  /\ Moves(cmd, n, args)
  /\ IF cmd = "m" THEN color' \in Attributes(n, args) ELSE UNCHANGED color
  /\ saved' = IF cmd = "s" THEN [x |-> cursor_x, y |-> cursor_y] ELSE saved

-----------------------------------------------------------------------------
InSequence == state \in {"CSI", "CSI_ARG"}

(* What ends an argument: -1 for an empty one. *)
Value == IF state = "CSI" THEN -1 ELSE a

(* arg[argc] = Value, and argc counted up unless it is at its limit.  One   *)
(* past the limit the store is to argc itself, which the compiled code may  *)
(* or may not read again for the test and for the call of _csi.             *)
ArgcAfter ==
  CASE argc < MAX_ARG -> {argc + 1}
    [] argc = MAX_ARG -> {Value, IF Value < MAX_ARG THEN Value + 1 ELSE Value, MAX_ARG}
    [] OTHER          -> {argc}

ArgAfter == IF argc < MAX_ARG THEN [arg EXCEPT ![argc] = Value] ELSE arg

StoresInside == argc \in 0 .. MAX_ARG + 1

Ascii(c) ==
  /\ ~wild /\ state = "ASCII"
  /\ Putc(c)
  /\ UNCHANGED <<state, arg, argc, a, color, saved, given, text, wild>>

Escape ==
  /\ ~wild /\ state = "ASCII"
  /\ state' = "ESC"
  /\ UNCHANGED <<fb_vars, arg, argc, a, color, saved, given, text, wild>>

(* A faulty variant: the number of arguments is not reset. *)
BracketKeeps ==
  /\ ~wild /\ state = "ESC"
  /\ state' = "CSI" /\ a' = 0 /\ given' = 0
  /\ UNCHANGED <<fb_vars, arg, argc, color, saved, text, wild>>

Bracket ==
  /\ ~wild /\ state = "ESC"
  /\ state' = "CSI" /\ argc' = 0 /\ a' = 0 /\ given' = 0
  /\ UNCHANGED <<fb_vars, arg, color, saved, text, wild>>

NoBracket ==
  /\ ~wild /\ state = "ESC"
  /\ state' = "ASCII"
  /\ UNCHANGED <<fb_vars, arg, argc, a, color, saved, given, text, wild>>

Digit(d) ==
  /\ ~wild /\ InSequence
  /\ a * 10 + d <= ArgBound
  /\ state' = "CSI_ARG" /\ a' = a * 10 + d
  /\ UNCHANGED <<fb_vars, arg, argc, color, saved, given, text, wild>>

Semicolon ==
  /\ ~wild /\ InSequence
  /\ given < GivenBound /\ StoresInside
  /\ argc' \in ArgcAfter /\ arg' = ArgAfter /\ a' = 0
  /\ given' = given + 1
  /\ state' = "CSI"
  /\ UNCHANGED <<fb_vars, color, saved, text, wild>>

Command(cmd) ==
  /\ ~wild /\ InSequence
  /\ StoresInside
  /\ argc' \in ArgcAfter /\ arg' = ArgAfter /\ a' = 0
  /\ given' = 0
  /\ state' = "ASCII"
  /\ text' = FALSE
  /\ Csi(cmd, argc', arg')
  /\ UNCHANGED wild

(* Any other store goes to state in front of arg, to the backend pointer    *)
(* behind a, or to memory further away.                                     *)
StoreBehind ==
  /\ ~wild /\ InSequence
  /\ ~StoresInside
  /\ wild' = TRUE /\ given' = given + 1
  /\ UNCHANGED <<fb_vars, state, arg, argc, a, color, saved, text>>

(* Nothing more is said of a console whose memory was overwritten. *)
Wild == wild /\ UNCHANGED vars

Next ==
  \/ \E c \in Letters \cup {LF, CR} : Ascii(c)
  \/ Escape
  \/ Bracket
  \/ NoBracket
  \/ \E d \in Digits : Digit(d)
  \/ Semicolon
  \/ \E cmd \in Commands : Command(cmd)
  \/ StoreBehind
  \/ Wild

Spec == Init /\ [][Next]_vars

-----------------------------------------------------------------------------
(* Memory other than arg, argc and a is written to only by a sequence of at *)
(* least two arguments more than arg has room for: the first of them puts a *)
(* wrong number into argc, the second is stored there.                      *)
WildNeedsArguments == wild => given >= MAX_ARG + 2

(* As long as a sequence has no more arguments than arg has room for, argc  *)
(* is their number: no argument is lost and none of an earlier sequence is  *)
(* counted, whatever was written before.                                    *)
ArgumentsCounted == InSequence /\ given <= MAX_ARG => argc = given

(* Text without escape sequences never leaves the screen, however long it   *)
(* is: neither the cursor nor what is drawn.                                *)
TextStaysInside == text => OnScreen(cursor_x, cursor_y) /\ ~outside

(* Wherever sequences and line feeds have left the cursor, one printed      *)
(* character brings it back to the screen.                                  *)
PrintRecovers ==
  [][(\E c \in Letters : Ascii(c)) => OnScreen(cursor_x', cursor_y')]_vars
=============================================================================
