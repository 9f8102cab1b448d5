--------------------------- MODULE Console_proofs ---------------------------
(***************************************************************************)
(* What holds of the console for every screen, every number of arguments   *)
(* and every stream of characters.                                         *)
(***************************************************************************)
EXTENDS Console, Screen, TLAPS

(* A remainder is a natural number. *)
LEMMA RestType ==
  ASSUME NEW n \in Int, NEW m \in Nat \ {0}
  PROVE  n % m \in Nat
  BY SMT

-----------------------------------------------------------------------------
(* The part of the type invariant the proofs need: where the cursor is and  *)
(* what the parser has stored are numbers.                                  *)
Numbers ==
  /\ cursor_x \in Nat /\ cursor_y \in Nat
  /\ arg \in [0 .. MAX_ARG - 1 -> Int]
  /\ argc \in Int /\ a \in Nat /\ given \in Nat
  /\ saved \in [x : Nat, y : Nat]
  /\ outside \in BOOLEAN /\ text \in BOOLEAN /\ wild \in BOOLEAN
  /\ state \in {"ASCII", "ESC", "CSI", "CSI_ARG"}

(* The inductive invariant. *)
IInv == Numbers /\ TextStaysInside /\ ArgumentsCounted /\ WildNeedsArguments

LEMMA InitIInv == Init => IInv
<1> SUFFICES ASSUME Init PROVE IInv
  OBVIOUS
<1>1. Numbers
  <2>1. arg \in [0 .. MAX_ARG - 1 -> Int]
    BY DEF Init
  <2>2. saved \in [x : Nat, y : Nat]
    BY DEF Init
  <2>3. cursor_x \in Nat /\ cursor_y \in Nat /\ argc \in Int /\ a \in Nat /\ given \in Nat
    BY DEF Init, FbInit
  <2>4. /\ outside \in BOOLEAN /\ text \in BOOLEAN /\ wild \in BOOLEAN
        /\ state \in {"ASCII", "ESC", "CSI", "CSI_ARG"}
    BY DEF Init, FbInit
  <2> QED BY <2>1, <2>2, <2>3, <2>4 DEF Numbers
<1>2. TextStaysInside
  BY ScreenAssumption DEF ScreenAssumption, Init, FbInit, TextStaysInside, OnScreen
<1>3. ArgumentsCounted /\ WildNeedsArguments
  BY DEF Init, ArgumentsCounted, InSequence, WildNeedsArguments
<1> QED BY <1>1, <1>2, <1>3 DEF IInv

-----------------------------------------------------------------------------
(* Drawing a character brings the cursor to the screen from anywhere. *)
LEMMA PutcRawLands ==
  ASSUME cursor_x \in Nat, cursor_y \in Nat, NEW c, PutcRaw(c)
  PROVE  cursor_x' \in Nat /\ cursor_y' \in Nat /\ OnScreen(cursor_x', cursor_y')
  BY ScreenAssumption DEF ScreenAssumption, PutcRaw, Wraps, OnScreen

(* A character on the screen is drawn inside of the frame buffer. *)
LEMMA PutcRawInside ==
  ASSUME cursor_x \in Nat, cursor_y \in Nat, outside \in BOOLEAN, NEW c, PutcRaw(c)
  PROVE  /\ outside' \in BOOLEAN
         /\ OnScreen(cursor_x, cursor_y) /\ ~outside => ~outside'
  BY ScreenAssumption DEF ScreenAssumption, PutcRaw, DrawsOutside, OnScreen

(* What _putc does to the cursor and to what was drawn outside. *)
LEMMA PutcKeeps ==
  ASSUME cursor_x \in Nat, cursor_y \in Nat, outside \in BOOLEAN, NEW c, Putc(c)
  PROVE  /\ cursor_x' \in Nat /\ cursor_y' \in Nat /\ outside' \in BOOLEAN
         /\ OnScreen(cursor_x, cursor_y) /\ ~outside
              => OnScreen(cursor_x', cursor_y') /\ ~outside'
<1>1. CASE LineFeed
  BY <1>1, ScreenAssumption DEF ScreenAssumption, LineFeed, OnScreen
<1>2. CASE CarriageReturn
  BY <1>2, ScreenAssumption DEF ScreenAssumption, CarriageReturn, OnScreen
<1>3. CASE PutcRaw(c)
  BY <1>3, PutcRawLands, PutcRawInside
<1> QED BY <1>1, <1>2, <1>3 DEF Putc

-----------------------------------------------------------------------------
(* A movement leaves the cursor at natural numbers. *)
LEMMA SetCursorType ==
  ASSUME NEW x \in Int, NEW y \in Int, outside \in BOOLEAN, SetCursor(x, y)
  PROVE  cursor_x' \in Nat /\ cursor_y' \in Nat /\ outside' \in BOOLEAN
<1>1. w_chars + 1 \in Nat \ {0} /\ h_chars + 1 \in Nat \ {0}
  BY ScreenAssumption DEF ScreenAssumption
<1> QED BY <1>1, RestType DEF SetCursor

LEMMA GoRests ==
  \A n \in Int : (n % WORD) % (w_chars + 1) \in Nat /\ (n % WORD) % (h_chars + 1) \in Nat
<1>1. w_chars + 1 \in Nat \ {0} /\ h_chars + 1 \in Nat \ {0} /\ WORD \in Nat \ {0}
  BY ScreenAssumption, ParserAssumption DEF ScreenAssumption, ParserAssumption
<1> TAKE n \in Int
<1>2. n % WORD \in Int
  BY <1>1, RestType
<1> QED BY <1>1, <1>2, RestType

(* So does every command. *)
LEMMA MovesType ==
  ASSUME Numbers, NEW cmd, NEW n \in Int, NEW args \in [0 .. MAX_ARG - 1 -> Int],
         Moves(cmd, n, args)
  PROVE  cursor_x' \in Nat /\ cursor_y' \in Nat /\ outside' \in BOOLEAN
<1> DEFINE d == Delta(n, args)
           Goal == cursor_x' \in Nat /\ cursor_y' \in Nat /\ outside' \in BOOLEAN
<1>0. /\ cursor_x \in Int /\ cursor_y \in Int /\ outside \in BOOLEAN
      /\ cursor_x \in Nat /\ cursor_y \in Nat
      /\ saved.x \in Int /\ saved.y \in Int
  BY DEF Numbers
<1>1. args[0] \in Int /\ args[1] \in Int
  BY ParserAssumption DEF ParserAssumption
<1>2. d \in Int
  BY <1>1 DEF Delta
<1>3. UNCHANGED fb_vars => Goal
  BY <1>0 DEF fb_vars
<1> HIDE DEF d
<1>5. /\ cursor_y - d \in Int /\ cursor_y + d \in Int /\ cursor_x + d \in Int
      /\ cursor_x - d \in Int /\ d - 1 \in Int /\ 0 \in Int
  BY <1>0, <1>2
<1>6. CASE Go(cursor_x, cursor_y - d) \/ Go(cursor_x, cursor_y + d)
  BY <1>6, <1>0, <1>5, GoRests DEF Go, SetCursor
<1>7. CASE Go(cursor_x - d, cursor_y) \/ Go(cursor_x + d, cursor_y)
  BY <1>7, <1>0, <1>5, GoRests DEF Go, SetCursor
<1>8. CASE Go(0, cursor_y + d) \/ Go(d - 1, cursor_y)
  BY <1>8, <1>0, <1>5, GoRests DEF Go, SetCursor
<1>9. CASE Go(0, (IF cursor_y = 0 THEN 1 ELSE cursor_y) - d)
  <2>1. (IF cursor_y = 0 THEN 1 ELSE cursor_y) - d \in Int
    BY <1>0, <1>2
  <2> QED BY <1>9, <1>0, <1>5, <2>1, GoRests DEF Go, SetCursor
<1>10. CASE Go(IF n = 1 THEN cursor_x ELSE IF args[1] > 0 THEN args[1] - 1 ELSE 0, d - 1)
  <2>1. (IF n = 1 THEN cursor_x ELSE IF args[1] > 0 THEN args[1] - 1 ELSE 0) \in Int
    BY <1>0, <1>1
  <2> QED BY <1>10, <1>0, <1>5, <2>1, GoRests DEF Go, SetCursor
<1>11. CASE ClearLines(Direction(n, args)) \/ ScrollUp(d) \/ ScrollDown(d)
  BY <1>11, <1>0 DEF ClearLines, ScrollUp, ScrollDown
<1>12. CASE SetCursor(saved.x, saved.y)
  BY <1>12, <1>0, SetCursorType
<1>13. CASE UNCHANGED fb_vars
  BY <1>13, <1>3
<1> QED BY <1>6, <1>7, <1>8, <1>9, <1>10, <1>11, <1>12, <1>13 DEF Moves, d

-----------------------------------------------------------------------------
(* What a stored argument leaves in arg and argc. *)
LEMMA StoreType ==
  ASSUME Numbers, StoresInside, argc' \in ArgcAfter, arg' = ArgAfter
  PROVE  arg' \in [0 .. MAX_ARG - 1 -> Int] /\ argc' \in Int
<1>1. Value \in Int
  BY DEF Numbers, Value
<1>2. argc' \in Int
  BY <1>1, ParserAssumption DEF ParserAssumption, Numbers, ArgcAfter
<1>3. arg' \in [0 .. MAX_ARG - 1 -> Int]
  BY <1>1 DEF Numbers, ArgAfter
<1> QED BY <1>2, <1>3

LEMMA StepIInv == IInv /\ [Next]_vars => IInv'
<1> SUFFICES ASSUME IInv, [Next]_vars PROVE IInv'
  OBVIOUS
<1> USE DEF IInv
<1>1. ASSUME NEW c \in Letters \cup {LF, CR}, Ascii(c) PROVE IInv'
  <2>1. Putc(c) /\ UNCHANGED <<state, arg, argc, a, color, saved, given, text, wild>>
    BY <1>1 DEF Ascii
  <2>2. /\ cursor_x' \in Nat /\ cursor_y' \in Nat /\ outside' \in BOOLEAN
        /\ OnScreen(cursor_x, cursor_y) /\ ~outside
              => OnScreen(cursor_x', cursor_y') /\ ~outside'
    BY <2>1, PutcKeeps DEF Numbers
  <2>3. Numbers'
    BY <2>1, <2>2 DEF Numbers
  <2>4. TextStaysInside'
    BY <2>1, <2>2 DEF TextStaysInside, OnScreen
  <2> QED BY <2>1, <2>3, <2>4 DEF ArgumentsCounted, WildNeedsArguments, InSequence
<1>2. ASSUME Escape \/ NoBracket PROVE IInv'
  <2>1. state' \in {"ESC", "ASCII"}
        /\ UNCHANGED <<fb_vars, arg, argc, a, color, saved, given, text, wild>>
    BY <1>2 DEF Escape, NoBracket
  <2> QED BY <2>1 DEF Numbers, TextStaysInside, OnScreen, ArgumentsCounted, InSequence,
                      WildNeedsArguments, fb_vars
<1>3. CASE Bracket
  BY <1>3 DEF Bracket, Numbers, TextStaysInside, OnScreen, ArgumentsCounted, InSequence,
              WildNeedsArguments, fb_vars
<1>4. ASSUME NEW d \in Digits, Digit(d) PROVE IInv'
  <2>1. a' \in Nat
    BY <1>4, ParserAssumption DEF ParserAssumption, Digit, Numbers
  <2> QED BY <1>4, <2>1 DEF Digit, Numbers, TextStaysInside, OnScreen, ArgumentsCounted,
                            InSequence, WildNeedsArguments, fb_vars
<1>5. CASE Semicolon
  <2>1. Numbers'
    BY <1>5, StoreType DEF Semicolon, Numbers, fb_vars
  <2>2. TextStaysInside' /\ WildNeedsArguments'
    BY <1>5 DEF Semicolon, TextStaysInside, OnScreen, WildNeedsArguments, fb_vars
  <2>3. ArgumentsCounted'
    BY <1>5, ParserAssumption
    DEF ParserAssumption, Semicolon, ArgumentsCounted, InSequence, ArgcAfter, Numbers
  <2> QED BY <2>1, <2>2, <2>3
<1>6. ASSUME NEW cmd \in Commands, Command(cmd) PROVE IInv'
  <2>1. /\ ~wild /\ wild' = wild /\ given' = 0 /\ state' = "ASCII" /\ text' = FALSE /\ a' = 0
        /\ StoresInside /\ argc' \in ArgcAfter /\ arg' = ArgAfter /\ Csi(cmd, argc', arg')
    BY <1>6 DEF Command
  <2>2. arg' \in [0 .. MAX_ARG - 1 -> Int] /\ argc' \in Int
    BY <2>1, StoreType
  <2>3. cursor_x' \in Nat /\ cursor_y' \in Nat /\ outside' \in BOOLEAN
    <3>1. Moves(cmd, argc', arg')
      BY <2>1 DEF Csi
    <3> QED BY <2>2, <3>1, MovesType
  <2>4. saved' \in [x : Nat, y : Nat]
    BY <2>1 DEF Csi, Numbers
  <2>5. /\ a' \in Nat /\ given' \in Nat /\ text' \in BOOLEAN /\ wild' \in BOOLEAN
        /\ state' \in {"ASCII", "ESC", "CSI", "CSI_ARG"}
    BY <2>1 DEF Numbers
  <2>6. Numbers'
    BY <2>2, <2>3, <2>4, <2>5 DEF Numbers
  <2> QED BY <2>1, <2>6 DEF TextStaysInside, ArgumentsCounted, InSequence, WildNeedsArguments
<1>7. CASE StoreBehind
  <2>1. given > MAX_ARG
    BY <1>7, ParserAssumption
    DEF ParserAssumption, StoreBehind, StoresInside, ArgumentsCounted, Numbers
  <2>2. given' >= MAX_ARG + 2 /\ given' \in Nat
    BY <1>7, <2>1, ParserAssumption DEF ParserAssumption, StoreBehind, Numbers
  <2>3. ArgumentsCounted' /\ WildNeedsArguments'
    BY <2>2, ParserAssumption DEF ParserAssumption, ArgumentsCounted, WildNeedsArguments
  <2> QED BY <1>7, <2>2, <2>3 DEF StoreBehind, Numbers, TextStaysInside, OnScreen, fb_vars
<1>8. CASE UNCHANGED vars
  BY <1>8 DEF vars, fb_vars, Numbers, TextStaysInside, OnScreen, ArgumentsCounted, InSequence,
              WildNeedsArguments
<1>9. CASE Wild
  BY <1>8, <1>9 DEF Wild
<1> QED BY <1>1, <1>2, <1>3, <1>4, <1>5, <1>6, <1>7, <1>8, <1>9 DEF Next

(* The invariant holds of every stream of characters. *)
THEOREM Invariance == Spec => []IInv
  BY InitIInv, StepIInv, PTL DEF Spec

(* Text without escape sequences stays inside of the screen and of the      *)
(* frame buffer, for a screen of any size (_putc, _putc_raw).               *)
THEOREM TextNeverLeaves == Spec => []TextStaysInside
<1>1. IInv => TextStaysInside
  BY DEF IInv
<1> QED BY <1>1, Invariance, PTL

(* argc is the number of arguments up to the size of arg, whatever came     *)
(* before the sequence (_write).                                            *)
THEOREM ArgumentsAreCounted == Spec => []ArgumentsCounted
<1>1. IInv => ArgumentsCounted
  BY DEF IInv
<1> QED BY <1>1, Invariance, PTL

(* Memory other than arg, argc and a is safe from every sequence of at most *)
(* one argument more than arg has room for (_write).                        *)
THEOREM FewArgumentsAreSafe == Spec => []WildNeedsArguments
<1>1. IInv => WildNeedsArguments
  BY DEF IInv
<1> QED BY <1>1, Invariance, PTL

(* A printed character brings the cursor back to the screen from wherever   *)
(* it was (_putc_raw).                                                      *)
THEOREM PrintingRecovers == Spec => PrintRecovers
<1>1. IInv /\ [Next]_vars
        => [(\E c \in Letters : Ascii(c)) => OnScreen(cursor_x', cursor_y')]_vars
  <2> SUFFICES ASSUME IInv, NEW c \in Letters, Ascii(c)
               PROVE  OnScreen(cursor_x', cursor_y')
    OBVIOUS
  <2>1. PutcRaw(c)
    BY ScreenAssumption DEF ScreenAssumption, Ascii, Putc
  <2> QED BY <2>1, PutcRawLands DEF IInv, Numbers
<1> QED BY <1>1, Invariance, PTL DEF Spec, PrintRecovers

-----------------------------------------------------------------------------
(* The screen against the paper. *)

(* The inductive invariant: with the property itself, that the cursor is on *)
(* the screen and that the paper is empty behind the line it is at.         *)
PaperInv ==
  /\ cursor_x \in Nat /\ cursor_y \in Nat /\ OnScreen(cursor_x, cursor_y)
  /\ line \in Nat /\ col \in Nat
  /\ \A l \in Nat, x \in Nat : l > line => \A c : <<l, x, c>> \notin ink
  /\ ScreenShowsTail

LEMMA InitPaperInv == ScreenInit => PaperInv
<1> SUFFICES ASSUME ScreenInit PROVE PaperInv
  OBVIOUS
<1>1. TopLine = 0 /\ w_chars \in Nat /\ h_chars \in Nat
  BY ScreenAssumption DEF ScreenAssumption, ScreenInit, TopLine
<1>2. CursorAtEnd
  BY <1>1 DEF ScreenInit, FbInit, CursorAtEnd
<1>3. \A y \in Row, x \in Col : Reads(ink, screen[y][x], TopLine + y, x)
  BY DEF ScreenInit, FbInit, Reads, BlankRow
<1>4. cursor_x \in Nat /\ cursor_y \in Nat /\ OnScreen(cursor_x, cursor_y)
  BY ScreenAssumption DEF ScreenAssumption, ScreenInit, FbInit, OnScreen
<1>5. line \in Nat /\ col \in Nat /\ \A l \in Nat, x \in Nat : l > line => \A c : <<l, x, c>> \notin ink
  BY DEF ScreenInit
<1> QED BY <1>2, <1>3, <1>4, <1>5 DEF PaperInv, ScreenShowsTail

(* A letter on the paper takes the place of the one that was there. *)
LEMMA InkAfter ==
  ASSUME NEW c, ink' = {i \in ink : <<i[1], i[2]>> # <<line, col>>} \cup {<<line, col, c>>}
  PROVE  \A l, x, d : <<l, x, d>> \in ink' <=>
           \/ <<l, x, d>> \in ink /\ ~(l = line /\ x = col)
           \/ l = line /\ x = col /\ d = c
<1> SUFFICES ASSUME NEW l, NEW x, NEW d
             PROVE  <<l, x, d>> \in ink' <=>
                      \/ <<l, x, d>> \in ink /\ ~(l = line /\ x = col)
                      \/ l = line /\ x = col /\ d = c
  OBVIOUS
<1>1. <<l, x, d>> = <<line, col, c>> <=> l = line /\ x = col /\ d = c
  OBVIOUS
<1>2. <<l, x>> = <<line, col>> <=> l = line /\ x = col
  OBVIOUS
<1>3. <<l, x, d>>[1] = l /\ <<l, x, d>>[2] = x
  OBVIOUS
<1> QED BY <1>1, <1>2, <1>3

(* Where the first row of the screen is when the text goes on in the next   *)
(* line: one further down exactly if the cursor was in the last row.        *)
LEMMA NextLine ==
  ASSUME PaperInv, line' = line + 1
  PROVE  IF cursor_y + 1 >= h_chars
         THEN cursor_y + 1 = h_chars /\ TopLine' = TopLine + 1
         ELSE TopLine' = TopLine
<1>1. /\ cursor_y \in Nat /\ cursor_y < h_chars /\ line \in Nat /\ TopLine + cursor_y = line
      /\ h_chars \in Nat /\ h_chars > 0
  BY ScreenAssumption DEF ScreenAssumption, PaperInv, OnScreen, ScreenShowsTail, CursorAtEnd
<1> QED BY <1>1 DEF TopLine

(* Scrolling a screen that reads right, the new last row of which is empty. *)
LEMMA ScrollReads ==
  ASSUME PaperInv, NEW scr, line' = line + 1, cursor_y + 1 = h_chars, TopLine' = TopLine + 1,
         \A y \in Row, x \in Col : Reads(ink', scr[y][x], TopLine + y, x),
         \A x \in Nat : \A c : <<line + 1, x, c>> \notin ink',
         screen' = ScrolledUp(scr, 1)
  PROVE  \A y \in Row, x \in Col : Reads(ink', screen'[y][x], TopLine' + y, x)
<1>1. /\ cursor_y \in Nat /\ line \in Nat /\ TopLine \in Nat /\ TopLine + cursor_y = line
      /\ h_chars \in Nat /\ h_chars > 0
  BY ScreenAssumption DEF ScreenAssumption, PaperInv, OnScreen, ScreenShowsTail, CursorAtEnd, TopLine
<1> SUFFICES ASSUME NEW y \in Row, NEW x \in Col
             PROVE  Reads(ink', screen'[y][x], TopLine' + y, x)
  OBVIOUS
<1>2. y \in Nat /\ x \in Nat /\ y < h_chars
  BY <1>1, ScreenAssumption DEF Row, Col, ScreenAssumption
<1>3. screen'[y] = IF y + 1 < h_chars THEN scr[y + 1] ELSE BlankRow
  BY <1>1 DEF ScrolledUp
<1>4. CASE y + 1 < h_chars
  <2>1. y + 1 \in Row /\ TopLine' + y = TopLine + (y + 1)
    BY <1>1, <1>2, <1>4 DEF Row
  <2>2. Reads(ink', scr[y + 1][x], TopLine + (y + 1), x)
    BY <2>1
  <2> QED BY <1>3, <1>4, <2>1, <2>2
<1>5. CASE ~(y + 1 < h_chars)
  <2>1. TopLine' + y = line + 1
    BY <1>1, <1>2, <1>5
  <2>2. screen'[y][x] = "blank"
    BY <1>3, <1>5 DEF BlankRow
  <2> QED BY <1>2, <2>1, <2>2 DEF Reads
<1> QED BY <1>4, <1>5

(* What LineFeed does to the screen and the line to the paper. *)
LEMMA LineFeedReads ==
  ASSUME PaperInv, LineFeed, line' = line + 1, col' = 0, UNCHANGED ink
  PROVE  PaperInv'
<1>1. /\ cursor_y \in Nat /\ line \in Nat /\ TopLine + cursor_y = line /\ cursor_y < h_chars
      /\ h_chars \in Nat /\ h_chars > 0 /\ w_chars \in Nat /\ w_chars > 0
      /\ \A y \in Row, x \in Col : Reads(ink, screen[y][x], TopLine + y, x)
  BY ScreenAssumption DEF ScreenAssumption, PaperInv, OnScreen, ScreenShowsTail, CursorAtEnd
<1>2. \A l \in Nat, x \in Nat : l > line' => \A c : <<l, x, c>> \notin ink'
  BY <1>1 DEF PaperInv
<1>3. \A x \in Nat : \A c : <<line + 1, x, c>> \notin ink'
  BY <1>1 DEF PaperInv
<1>4. /\ cursor_x' = 0
      /\ IF cursor_y + 1 >= h_chars
         THEN /\ cursor_y + 1 = h_chars /\ TopLine' = TopLine + 1
              /\ cursor_y' = cursor_y /\ screen' = ScrolledUp(screen, 1)
         ELSE TopLine' = TopLine /\ cursor_y' = cursor_y + 1 /\ screen' = screen
  BY <1>1, NextLine DEF LineFeed
<1>5. TopLine \in Nat
  BY <1>1 DEF TopLine
<1>6. cursor_x' \in Nat /\ cursor_y' \in Nat /\ OnScreen(cursor_x', cursor_y') /\ line' \in Nat /\ col' \in Nat
  BY <1>1, <1>4 DEF OnScreen
<1>7. cursor_x' = col' /\ TopLine' + cursor_y' = line'
  BY <1>1, <1>4, <1>5
<1>8. \A y \in Row, x \in Col : Reads(ink', screen'[y][x], TopLine' + y, x)
  <2>1. CASE cursor_y + 1 >= h_chars
    <3>1. \A y \in Row, x \in Col : Reads(ink', screen[y][x], TopLine + y, x)
      BY <1>1
    <3> QED BY <1>3, <1>4, <2>1, <3>1, ScrollReads
  <2>2. CASE ~(cursor_y + 1 >= h_chars)
    BY <1>1, <1>4, <2>2
  <2> QED BY <2>1, <2>2
<1> QED BY <1>2, <1>6, <1>7, <1>8 DEF PaperInv, OnScreen, ScreenShowsTail, CursorAtEnd, Reads, Row, Col

(* A drawn letter reads right before the screen is scrolled. *)
LEMMA DrawnReads ==
  ASSUME PaperInv, NEW c \in Letters,
         ink' = {i \in ink : <<i[1], i[2]>> # <<line, col>>} \cup {<<line, col, c>>}
  PROVE  \A y \in Row, x \in Col : Reads(ink', Drawn(c)[y][x], TopLine + y, x)
<1>1. /\ cursor_y \in Nat /\ cursor_x \in Nat /\ line \in Nat /\ TopLine + cursor_y = line
      /\ cursor_x = col /\ cursor_x < w_chars /\ w_chars \in Nat /\ h_chars \in Nat
      /\ \A y \in Row, x \in Col : Reads(ink, screen[y][x], TopLine + y, x)
  BY ScreenAssumption DEF ScreenAssumption, PaperInv, OnScreen, ScreenShowsTail, CursorAtEnd
<1>2. TopLine \in Nat
  BY <1>1 DEF TopLine
<1>3. \A l, x, d : <<l, x, d>> \in ink' <=>
           \/ <<l, x, d>> \in ink /\ ~(l = line /\ x = col)
           \/ l = line /\ x = col /\ d = c
  BY InkAfter
<1> SUFFICES ASSUME NEW y \in Row, NEW x \in Col
             PROVE  Reads(ink', Drawn(c)[y][x], TopLine + y, x)
  OBVIOUS
<1>4. y \in Nat
  BY <1>1 DEF Row
<1>5. Drawn(c)[y][x] = IF x = cursor_x /\ y = cursor_y THEN c ELSE screen[y][x]
  BY <1>1 DEF Drawn
<1>6. CASE x = cursor_x /\ y = cursor_y
  BY <1>1, <1>3, <1>5, <1>6 DEF Reads
<1>7. CASE ~(x = cursor_x /\ y = cursor_y)
  <2>1. ~(TopLine + y = line /\ x = col)
    BY <1>1, <1>2, <1>4, <1>7
  <2>2. Reads(ink, screen[y][x], TopLine + y, x)
    BY <1>1
  <2> DEFINE l == TopLine + y
             v == screen[y][x]
  <2>3. \A d : <<l, x, d>> \in ink' <=> <<l, x, d>> \in ink
    <3>1. ~(l = line /\ x = col)
      BY <2>1
    <3> HIDE DEF l
    <3> QED BY <1>3, <3>1
  <2>4. Reads(ink, v, l, x)
    BY <2>2
  <2> HIDE DEF l, v
  <2>5. Reads(ink', v, l, x)
    BY <2>3, <2>4 DEF Reads
  <2> QED BY <1>5, <1>7, <2>5 DEF l, v
<1> QED BY <1>6, <1>7

(* What _putc_raw does to the screen and the letter to the paper. *)
LEMMA LetterReads ==
  ASSUME PaperInv, NEW c \in Letters, PutcRaw(c),
         line' = line + (col + 1) \div w_chars, col' = (col + 1) % w_chars,
         ink' = {i \in ink : <<i[1], i[2]>> # <<line, col>>} \cup {<<line, col, c>>}
  PROVE  PaperInv'
<1>1. /\ cursor_y \in Nat /\ cursor_x \in Nat /\ line \in Nat /\ TopLine + cursor_y = line
      /\ cursor_x = col /\ cursor_x < w_chars /\ w_chars \in Nat /\ w_chars > 0
      /\ h_chars \in Nat /\ h_chars > 0 /\ cursor_y < h_chars
  BY ScreenAssumption DEF ScreenAssumption, PaperInv, OnScreen, ScreenShowsTail, CursorAtEnd
<1>2. \A l \in Nat, x \in Nat : l > line => \A d : <<l, x, d>> \notin ink'
  <2>1. \A l, x, d : <<l, x, d>> \in ink' <=>
           \/ <<l, x, d>> \in ink /\ ~(l = line /\ x = col)
           \/ l = line /\ x = col /\ d = c
    BY InkAfter
  <2> QED BY <1>1, <2>1 DEF PaperInv
<1>3. \A y \in Row, x \in Col : Reads(ink', Drawn(c)[y][x], TopLine + y, x)
  BY DrawnReads
<1>4. TopLine \in Nat
  BY <1>1 DEF TopLine
<1>5. /\ cursor_x' \in Nat /\ cursor_y' \in Nat /\ OnScreen(cursor_x', cursor_y')
      /\ line' \in Nat /\ col' = cursor_x' /\ line' >= line
      /\ TopLine' + cursor_y' = line'
      /\ \A y \in Row, x \in Col : Reads(ink', screen'[y][x], TopLine' + y, x)
  <2>1. CASE Wraps
    <3>1. col + 1 = w_chars
      BY <1>1, <2>1 DEF Wraps
    <3>2. (col + 1) \div w_chars = 1 /\ (col + 1) % w_chars = 0
      BY <1>1, <3>1
    <3>3. line' = line + 1 /\ col' = 0 /\ cursor_x' = 0
      BY <2>1, <3>2 DEF PutcRaw
    <3>4. IF cursor_y + 1 >= h_chars
          THEN /\ cursor_y + 1 = h_chars /\ TopLine' = TopLine + 1
               /\ cursor_y' = h_chars - 1 /\ screen' = ScrolledUp(Drawn(c), 1)
          ELSE TopLine' = TopLine /\ cursor_y' = cursor_y + 1 /\ screen' = Drawn(c)
      BY <2>1, <3>3, NextLine DEF PutcRaw
    <3>5. \A x \in Nat : \A d : <<line + 1, x, d>> \notin ink'
      BY <1>1, <1>2
    <3>6. CASE cursor_y + 1 >= h_chars
      <4>1. \A y \in Row, x \in Col : Reads(ink', screen'[y][x], TopLine' + y, x)
        BY <1>3, <3>3, <3>4, <3>5, <3>6, ScrollReads
      <4> QED BY <1>1, <1>4, <3>3, <3>4, <3>6, <4>1 DEF OnScreen
    <3>7. CASE ~(cursor_y + 1 >= h_chars)
      <4>1. screen' = Drawn(c) /\ TopLine' = TopLine
        BY <3>4, <3>7
      <4>2. \A y \in Row, x \in Col : Reads(ink', screen'[y][x], TopLine' + y, x)
        BY <1>3, <4>1, Zenon
      <4>3. /\ cursor_x' \in Nat /\ cursor_y' \in Nat /\ OnScreen(cursor_x', cursor_y')
            /\ line' \in Nat /\ col' = cursor_x' /\ line' >= line /\ TopLine' + cursor_y' = line'
        BY <1>1, <1>4, <3>3, <3>4, <3>7 DEF OnScreen
      <4> QED BY <4>2, <4>3
    <3> QED BY <3>6, <3>7
  <2>2. CASE ~Wraps
    <3>1. col + 1 < w_chars
      BY <1>1, <2>2 DEF Wraps
    <3>2. (col + 1) \div w_chars = 0 /\ (col + 1) % w_chars = col + 1
      BY <1>1, <3>1
    <3>3. line' = line /\ col' = col + 1 /\ cursor_x' = cursor_x + 1
      BY <1>1, <2>2, <3>2 DEF PutcRaw
    <3>4. cursor_y' = cursor_y /\ screen' = Drawn(c) /\ TopLine' = TopLine
      BY <1>1, <2>2, <3>3 DEF PutcRaw, TopLine
    <3>5. \A y \in Row, x \in Col : Reads(ink', screen'[y][x], TopLine' + y, x)
      BY <1>3, <3>4, Zenon
    <3>6. /\ cursor_x' \in Nat /\ cursor_y' \in Nat /\ OnScreen(cursor_x', cursor_y')
          /\ line' \in Nat /\ col' = cursor_x' /\ line' >= line /\ TopLine' + cursor_y' = line'
      BY <1>1, <1>4, <3>1, <3>3, <3>4 DEF OnScreen
    <3> QED BY <3>5, <3>6
  <2> QED BY <2>1, <2>2
<1>6. \A l \in Nat, x \in Nat : l > line' => \A d : <<l, x, d>> \notin ink'
  BY <1>1, <1>2, <1>5
<1> QED BY <1>5, <1>6 DEF PaperInv, OnScreen, ScreenShowsTail, CursorAtEnd

(* A carriage return changes neither the screen nor the paper. *)
LEMMA CarriageReturnReads ==
  ASSUME PaperInv, CarriageReturn, col' = 0, UNCHANGED <<line, ink>>
  PROVE  PaperInv'
<1>1. w_chars \in Nat /\ w_chars > 0
  BY ScreenAssumption DEF ScreenAssumption
<1> QED BY <1>1 DEF PaperInv, CarriageReturn, OnScreen, ScreenShowsTail, CursorAtEnd, TopLine

(* For a screen and a text of any size, the screen shows the end of the     *)
(* text as it would stand on paper (_putc, _putc_raw, _scroll_up).          *)
THEOREM ScreenFollowsText == ScreenSpec => []ScreenShowsTail
<1>1. PaperInv /\ [ScreenNext \/ AtBound]_screen_vars => PaperInv'
  <2> SUFFICES ASSUME PaperInv, [ScreenNext \/ AtBound]_screen_vars PROVE PaperInv'
    OBVIOUS
  <2>1. CASE UNCHANGED screen_vars
    BY <2>1 DEF screen_vars, fb_vars, paper_vars, PaperInv, OnScreen, ScreenShowsTail, CursorAtEnd, TopLine
  <2>2. ASSUME NEW c \in Letters \cup {LF, CR}, Putc(c), OnPaper(c) PROVE PaperInv'
    <3>1. LF # CR
      BY DEF LF, CR
    <3>2. CASE c = LF
      <4>1. LineFeed /\ line' = line + 1 /\ col' = 0 /\ UNCHANGED ink
        BY <2>2, <3>1, <3>2 DEF Putc, OnPaper
      <4> QED BY <4>1, LineFeedReads
    <3>3. CASE c = CR
      <4>1. CarriageReturn /\ col' = 0 /\ UNCHANGED <<line, ink>>
        BY <2>2, <3>1, <3>3 DEF Putc, OnPaper
      <4> QED BY <4>1, CarriageReturnReads
    <3>4. CASE c \notin {LF, CR}
      <4>1. c \in Letters /\ PutcRaw(c)
        BY <2>2, <3>4 DEF Putc
      <4>2. /\ line' = line + (col + 1) \div w_chars /\ col' = (col + 1) % w_chars
            /\ ink' = {i \in ink : <<i[1], i[2]>> # <<line, col>>} \cup {<<line, col, c>>}
        BY <2>2, <3>4 DEF OnPaper
      <4> QED BY <4>1, <4>2, LetterReads
    <3> QED BY <3>2, <3>3, <3>4
  <2> QED BY <2>1, <2>2 DEF ScreenNext, AtBound
<1>2. PaperInv => ScreenShowsTail
  BY DEF PaperInv
<1> QED BY <1>1, <1>2, InitPaperInv, PTL DEF ScreenSpec
=============================================================================
