----------------------------- MODULE ConsoleFb -----------------------------
(***************************************************************************)
(* The frame-buffer backend of the console,                                *)
(* kernel/modules/chardev/console-fb.c.                                    *)
(*                                                                         *)
(* The screen is a grid of character cells; the pixels of a cell are one   *)
(* value, "blank" when they are zero and "spoilt" when a character was put *)
(* across the border of the cell.  Whether the code wrote outside of the   *)
(* frame buffer is recorded in `outside'.                                  *)
(***************************************************************************)
EXTENDS Integers

CONSTANTS
  w_chars, h_chars,  \* the size of the screen in characters
  Letters,           \* the printable characters
  RowBound           \* how far the cursor may run below the screen: a bound

LF == "LF"
CR == "CR"

ASSUME ScreenAssumption ==
  /\ w_chars \in Nat \ {0} /\ h_chars \in Nat \ {0}
  /\ RowBound \in Nat /\ RowBound > h_chars
  /\ Letters \cap {LF, CR} = {}

Row  == 0 .. h_chars - 1
Col  == 0 .. w_chars - 1
Cell == Letters \cup {"blank", "spoilt"}
BlankRow == [x \in Col |-> "blank"]

VARIABLES
  cursor_x, cursor_y,   \* _fbcon.cursor_x, _fbcon.cursor_y
  screen,               \* fb_mem, by row and column of characters
  outside               \* something was written outside of fb_mem

fb_vars == <<cursor_x, cursor_y, screen, outside>>

FbInit ==
  /\ cursor_x = 0 /\ cursor_y = 0
  /\ screen = [y \in Row |-> BlankRow]
  /\ outside = FALSE

OnScreen(x, y) == x < w_chars /\ y < h_chars

-----------------------------------------------------------------------------
(* _scroll_up(n) of a screen: when n is more than the screen has, the first *)
(* loop does nothing and the second starts at a wrapped-around index.       *)
ScrolledUp(scr, n) ==
  IF n > h_chars THEN scr
  ELSE [y \in Row |-> IF y + n < h_chars THEN scr[y + n] ELSE BlankRow]

ScrollUp(n) ==
  /\ screen' = ScrolledUp(screen, n)
  /\ UNCHANGED <<cursor_x, cursor_y, outside>>

(* _scroll_down(n): the loop that blanks the first n rows does not stop at  *)
(* the end of the screen.                                                   *)
ScrollDown(n) ==
  /\ screen' = [y \in Row |-> IF y >= n THEN screen[y - n] ELSE BlankRow]
  /\ outside' = (outside \/ n > h_chars)
  /\ UNCHANGED <<cursor_x, cursor_y>>

(* _clear_lines(dir): from the cursor's row on, up to it, or all. *)
ClearLines(dir) ==
  /\ screen' = [y \in Row |->
       IF \/ dir = "forward" /\ y < cursor_y
          \/ dir = "backward" /\ y >= cursor_y
       THEN screen[y] ELSE BlankRow]
  /\ outside' = (outside \/ (dir = "backward" /\ cursor_y > h_chars))
  /\ UNCHANGED <<cursor_x, cursor_y>>

(* _set_cursor: one more column and row than there are can be reached.      *)
SetCursor(x, y) ==
  /\ cursor_x' = x % (w_chars + 1)
  /\ cursor_y' = y % (h_chars + 1)
  /\ UNCHANGED <<screen, outside>>

-----------------------------------------------------------------------------
(* The pixels _putc_raw sets: those of the cursor's cell; behind the last   *)
(* column, those of the row's first cell, one line of pixels too low, so    *)
(* that the last of them belong to the next row.                            *)
Drawn(c) ==
  [y \in Row |-> [x \in Col |->
     IF x = cursor_x /\ y = cursor_y THEN c
     ELSE IF cursor_x >= w_chars /\ x = 0 /\ y \in {cursor_y, cursor_y + 1} THEN "spoilt"
     ELSE screen[y][x]]]

DrawsOutside ==
  cursor_y >= h_chars \/ (cursor_x >= w_chars /\ cursor_y = h_chars - 1)

(* A faulty variant: the line is wrapped one column late. *)
WrapsLate == cursor_x + 1 > w_chars

Wraps == cursor_x + 1 >= w_chars

(* A faulty variant: the screen is scrolled for the row behind the last     *)
(* one, and not for those further down.                                     *)
PutcRawEqual(c) ==
  LET y == IF Wraps THEN cursor_y + 1 ELSE cursor_y IN
  /\ cursor_x' = IF Wraps THEN 0 ELSE cursor_x + 1
  /\ outside' = (outside \/ DrawsOutside)
  /\ IF y = h_chars
     THEN cursor_y' = h_chars - 1 /\ screen' = ScrolledUp(Drawn(c), 1)
     ELSE cursor_y' = y /\ screen' = Drawn(c)

(* _putc_raw: the character is drawn, then the cursor brought back.         *)
PutcRaw(c) ==
  LET y == IF Wraps THEN cursor_y + 1 ELSE cursor_y IN
  /\ cursor_x' = IF Wraps THEN 0 ELSE cursor_x + 1
  /\ outside' = (outside \/ DrawsOutside)
  /\ IF y >= h_chars
     THEN cursor_y' = h_chars - 1 /\ screen' = ScrolledUp(Drawn(c), 1)
     ELSE cursor_y' = y /\ screen' = Drawn(c)

(* A faulty variant: the row is stepped back only when it has passed the    *)
(* size of the screen.                                                      *)
LineFeedLate ==
  /\ cursor_y < RowBound
  /\ cursor_x' = 0
  /\ IF cursor_y = h_chars
     THEN cursor_y' = cursor_y /\ screen' = ScrolledUp(screen, 1)
     ELSE cursor_y' = cursor_y + 1 /\ UNCHANGED screen
  /\ UNCHANGED outside

(* The test is for equality: below the screen the cursor only goes on down. *)
LineFeed ==
  /\ cursor_y < RowBound
  /\ cursor_x' = 0
  /\ IF cursor_y + 1 = h_chars
     THEN cursor_y' = cursor_y /\ screen' = ScrolledUp(screen, 1)
     ELSE cursor_y' = cursor_y + 1 /\ UNCHANGED screen
  /\ UNCHANGED outside

CarriageReturn == cursor_x' = 0 /\ UNCHANGED <<cursor_y, screen, outside>>

(* _putc. *)
Putc(c) ==
  \/ c = LF /\ LineFeed
  \/ c = CR /\ CarriageReturn
  \/ c \notin {LF, CR} /\ PutcRaw(c)
=============================================================================
