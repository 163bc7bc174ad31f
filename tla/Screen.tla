------------------------------- MODULE Screen -------------------------------
(***************************************************************************)
(* The text screen of kernel/vga.c. A screen is a record of the cells of    *)
(* video memory, row after row, and the cursor; an operation takes a        *)
(* screen to a screen. Colours are left out.                                *)
(***************************************************************************)
EXTENDS Integers, SequencesExt

CONSTANTS
    Width,      \* SCREEN_WIDTH (80)
    Height,     \* SCREEN_HEIGHT (25)
    TabStop     \* 8

ASSUME ScreenAssumption ==
    Width \in Nat \ {0} /\ Height \in Nat \ {0, 1} /\ TabStop \in Nat \ {0}

Blank == " "
NL == "newline"
CR == "return"
BS == "backspace"
TAB == "tab"

Cells == 0 .. Width * Height - 1

At(x, y) == y * Width + x

Cleared == [cell |-> [i \in Cells |-> Blank], x |-> 0, y |-> 0]

clear_screen(s) == Cleared

scroll_up(s) ==
    [cell |-> [i \in Cells |-> IF i + Width \in Cells THEN s.cell[i + Width] ELSE Blank],
     x |-> s.x, y |-> Height - 1]

\* What a character does before the ends of row and screen are looked at.
Glyph(s, c) ==
    CASE c = NL -> [s EXCEPT !.x = 0, !.y = @ + 1]
      [] c = CR -> [s EXCEPT !.x = 0]
      [] c = TAB -> [s EXCEPT !.x = (@ + TabStop) - (@ % TabStop)]
      [] c = BS -> IF s.x = 0 THEN s
                   ELSE [s EXCEPT !.x = @ - 1, !.cell[At(s.x - 1, s.y)] = Blank]
      [] OTHER -> [s EXCEPT !.x = @ + 1, !.cell[At(s.x, s.y)] = c]

Wrap(s) == IF s.x >= Width THEN [s EXCEPT !.x = 0, !.y = @ + 1] ELSE s

\* Fault: the screen scrolls one row late.
ScrollLate(s, c) ==
    LET w == Wrap(Glyph(s, c)) IN IF w.y > Height THEN scroll_up(w) ELSE w

putchar(s, c) ==
    LET w == Wrap(Glyph(s, c)) IN IF w.y >= Height THEN scroll_up(w) ELSE w

vga_write(s, str) == FoldLeft(putchar, s, str)

Clamp(i, n) == IF i < 0 THEN 0 ELSE IF i >= n THEN n - 1 ELSE i

vga_set_pos(s, x, y) == [s EXCEPT !.x = Clamp(x, Width), !.y = Clamp(y, Height)]

\* The text str in width columns of row y from column x on, with blanks behind
\* it. The cursor stays.
vga_draw_row(s, y, x, width, str) ==
    LET start == IF x < 0 THEN 0 ELSE x
        w == IF start + width > Width THEN Width - start ELSE width
    IN  IF y \notin 0 .. Height - 1 THEN s
        ELSE [s EXCEPT !.cell =
                [i \in Cells |->
                    LET k == i - At(start, y)
                    IN  IF k \notin 0 .. w - 1 THEN s.cell[i]
                        ELSE IF k < Len(str) THEN str[k + 1] ELSE Blank]]

\* The cursor is on the screen: every access of putchar is inside video memory.
OnScreen(s) == s.x \in 0 .. Width - 1 /\ s.y \in 0 .. Height - 1
=============================================================================
