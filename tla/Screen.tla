------------------------------- MODULE Screen -------------------------------
(***************************************************************************)
(* The frame buffer under plain text, beside the same text on paper        *)
(* without end: what the screen shows is compared with the paper.          *)
(***************************************************************************)
EXTENDS ConsoleFb

CONSTANT TextBound    \* characters written: a bound of the model

VARIABLES
  line, col,   \* where on the paper the next character goes
  ink,         \* what is on the paper: line, column, letter
  count        \* characters written

paper_vars  == <<line, col, ink, count>>
screen_vars == <<fb_vars, paper_vars>>

ScreenInit == FbInit /\ line = 0 /\ col = 0 /\ ink = {} /\ count = 0

(* The paper has as many columns as the screen.  A letter goes over the one *)
(* that is there.                                                           *)
OnPaper(c) ==
  \/ c = LF /\ line' = line + 1 /\ col' = 0 /\ UNCHANGED ink
  \/ c = CR /\ col' = 0 /\ UNCHANGED <<line, ink>>
  \/ /\ c \notin {LF, CR}
     /\ line' = line + (col + 1) \div w_chars
     /\ col' = (col + 1) % w_chars
     /\ ink' = {i \in ink : <<i[1], i[2]>> # <<line, col>>} \cup {<<line, col, c>>}

ScreenNext ==
  \E c \in Letters \cup {LF, CR} :
    /\ count < TextBound /\ count' = count + 1
    /\ Putc(c)
    /\ OnPaper(c)

(* At the bound of the model nothing more is written. *)
AtBound == count = TextBound /\ UNCHANGED screen_vars

ScreenSpec == ScreenInit /\ [][ScreenNext \/ AtBound]_screen_vars

-----------------------------------------------------------------------------
(* The line of the paper in the first row of the screen. *)
TopLine == IF line < h_chars THEN 0 ELSE line - h_chars + 1

(* The cursor stands where the text goes on. *)
CursorAtEnd == cursor_x = col /\ TopLine + cursor_y = line

(* v is what is on the paper in line l and column x. *)
Reads(paper, v, l, x) ==
  \/ <<l, x, v>> \in paper
  \/ v = "blank" /\ \A c \in Letters : <<l, x, c>> \notin paper

(* The screen shows the last lines of the text, whatever mixture of long    *)
(* lines, line feeds, carriage returns and overwriting it is made of, and   *)
(* the cursor stands where the text goes on.                                *)
ScreenShowsTail ==
  CursorAtEnd /\ \A y \in Row, x \in Col : Reads(ink, screen[y][x], TopLine + y, x)
=============================================================================
