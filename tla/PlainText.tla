----------------------------- MODULE PlainText ------------------------------
(***************************************************************************)
(* What a text editor promises: a sequence of lines and a place in it. There *)
(* is no array, no window and no screen here.                                *)
(***************************************************************************)
EXTENDS Integers, SequencesExt

CONSTANTS Chars, Width

VARIABLES
    lines,      \* <<>> while the editor is closed
    row, col    \* the place of the cursor: before character col + 1 of a line

textVars == <<lines, row, col>>

\* The text with what replaces the lines i to j.
Replaced(i, j, new) == SubSeq(lines, 1, i - 1) \o new \o SubSeq(lines, j + 1, Len(lines))

TextInit == lines = <<>> /\ row = 0 /\ col = 0

Start ==
    /\ lines = <<>> /\ lines' # <<>>
    /\ \A i \in DOMAIN lines' : Len(lines'[i]) < Width
    /\ row' = 1 /\ col' = 0

Close == lines' = <<>> /\ row' = 0 /\ col' = 0

Move ==
    /\ UNCHANGED lines
    /\ row' \in DOMAIN lines /\ col' \in 0 .. Len(lines[row'])

\* A character is typed.
Type(c) ==
    /\ lines' = Replaced(row, row, <<InsertAt(lines[row], col + 1, c)>>)
    /\ row' = row /\ col' = col + 1

\* The character before or behind the cursor is removed.
Erase(i) ==
    /\ i \in DOMAIN lines[row]
    /\ lines' = Replaced(row, row, <<RemoveAt(lines[row], i)>>)
    /\ row' = row /\ col' = i - 1

SplitLine ==
    /\ lines' = Replaced(row, row, <<SubSeq(lines[row], 1, col),
                                     SubSeq(lines[row], col + 1, Len(lines[row]))>>)
    /\ row' = row + 1 /\ col' = 0

\* Line i and the one behind it become one; the cursor is between them.
JoinLines(i) ==
    /\ i \in 1 .. Len(lines) - 1
    /\ lines' = Replaced(i, i + 1, <<lines[i] \o lines[i + 1]>>)
    /\ row' = i /\ col' = Len(lines[i])

TextNext ==
    \/ Start \/ Close
    \/ /\ lines # <<>>
       /\ \/ Move \/ SplitLine \/ Erase(col) \/ Erase(col + 1)
          \/ JoinLines(row - 1) \/ JoinLines(row)
          \/ \E c \in Chars : Type(c)

TextSpec == TextInit /\ [][TextNext]_textVars
=============================================================================
