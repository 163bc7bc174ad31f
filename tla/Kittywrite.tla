----------------------------- MODULE Kittywrite -----------------------------
(***************************************************************************)
(* The text editor of kernel/kittywrite.c: an array of lines, a cursor, a    *)
(* window on the screen, and the file it is loaded from and saved to.        *)
(*                                                                         *)
(* A file is the sequence of its characters. The slots of kw_lines behind    *)
(* the last line keep what they held; they are part of the state. The rows   *)
(* of the screen are too, because only some of them are drawn after a key.   *)
(*                                                                         *)
(* The handlers are those for every key code of kernel.h. read_key, as it    *)
(* is (module Keyboard), never returns the arrows, Home, End and Delete.     *)
(***************************************************************************)
EXTENDS Integers, SequencesExt, FiniteSets

CONSTANTS
    Chars,          \* the characters that are typed
    MaxLines,       \* KW_MAX_LINES (200)
    Width,          \* SCREEN_WIDTH (80)
    Rows,           \* KW_EDIT_ROWS (22)
    FileMax,        \* what a file holds: twelve blocks of 1024
    Files           \* the files that may be there before

VARIABLES
    kw_lines, kw_num_lines, kw_cur_line, kw_cur_col, kw_scroll, kw_modified,
    file,           \* what is on the disk
    rows,           \* what the rows of the window show
    open            \* the editor runs

NL == "newline"

\* What a row shows of another terminal, whatever that is: no line looks like it.
Foreign == <<NL>>

text == <<kw_lines, kw_num_lines>>
kwVars == <<text, kw_cur_line, kw_cur_col, kw_scroll, kw_modified, file, rows, open>>

KW_MAX_COL == Width - 1

\* The characters of texts: those that are typed and those the files have.
Letters == Chars \cup {NL} \cup UNION {Range(f) : f \in Files}

ASSUME KittywriteAssumption ==
    /\ MaxLines \in Nat \ {0} /\ Width \in Nat \ {0, 1}
    /\ Rows \in Nat \ {0} /\ FileMax \in Nat \ {0}
    /\ NL \notin Chars
    /\ Files \subseteq Seq(Letters)

-----------------------------------------------------------------------------
(* Loading and saving *)

\* The lines of a file: what its newlines end, and a rest that none ends.
Split(f) ==
    LET ends == {i \in 1 .. Len(f) : f[i] = NL}
        before(e) == LET b == {i \in ends : i < e}
                     IN  IF b = {} THEN 0 ELSE CHOOSE i \in b : \A j \in b : j <= i
        line(e) == SubSeq(f, before(e) + 1, e - 1)
        stops == IF f # <<>> /\ Last(f) # NL THEN ends \cup {Len(f) + 1} ELSE ends
    IN  [n \in 1 .. Cardinality(stops) |->
            line(CHOOSE e \in stops : Cardinality({i \in stops : i <= e}) = n)]

Cut(s, n) == SubSeq(s, 1, IF Len(s) < n THEN Len(s) ELSE n)

\* Fault: a line may fill its array, and its zero falls behind it.
LoadFull(f) ==
    LET ls == Cut(Split(f), MaxLines)
    IN  IF ls = <<>> THEN <<<<>>>> ELSE [i \in 1 .. Len(ls) |-> Cut(ls[i], Width)]

\* What kw_load makes of a file: at most MaxLines lines, each cut to what the
\* array holds; a file that is empty or missing is one empty line.
Loaded(f) ==
    LET ls == Cut(Split(f), MaxLines)
    IN  IF ls = <<>> THEN <<<<>>>> ELSE [i \in 1 .. Len(ls) |-> Cut(ls[i], Width - 1)]

\* The lines as a sequence.
Text(ls, n) == [i \in 1 .. n |-> ls[i - 1]]

\* The characters kw_save gives to fs_write: a newline behind every line.
Saved(ls, n) == FoldLeft(LAMBDA f, l : Append(f \o l, NL), <<>>, Text(ls, n))

-----------------------------------------------------------------------------
(* Drawing *)

Shown(ls, n, i) == IF i < n THEN ls[i] ELSE <<>>

\* kw_draw_line for the lines in the set is, with window w.
Draw(r, is, ls, n, w) ==
    [y \in 0 .. Rows - 1 |-> IF w + y \in is THEN Shown(ls, n, w + y) ELSE r[y]]

\* Fault: the row behind the last line is not drawn.
AllLines(n) == 0 .. n - 1

\* The lines kw_draw_all draws: it stops behind the last one.
All(n) == 0 .. n

\* kw_ensure_visible
Window(cur) ==
    IF cur < kw_scroll THEN cur
    ELSE IF cur >= kw_scroll + Rows THEN cur - Rows + 1
    ELSE kw_scroll

-----------------------------------------------------------------------------
(* Keys *)

cur == kw_lines[kw_cur_line]

\* The cursor goes to column col of line l; all is drawn again if that moves
\* the window.
GoTo(l, col) ==
    /\ kw_cur_line' = l /\ kw_cur_col' = col
    /\ kw_scroll' = Window(l)
    /\ rows' = IF kw_scroll' = kw_scroll THEN rows
               ELSE Draw(rows, All(kw_num_lines), kw_lines, kw_num_lines, kw_scroll')
    /\ UNCHANGED <<text, kw_modified, file, open>>

KeyLeft ==
    \/ kw_cur_col > 0 /\ GoTo(kw_cur_line, kw_cur_col - 1)
    \/ /\ kw_cur_col = 0 /\ kw_cur_line > 0
       /\ GoTo(kw_cur_line - 1, Len(kw_lines[kw_cur_line - 1]))

KeyRight ==
    \/ kw_cur_col < Len(cur) /\ GoTo(kw_cur_line, kw_cur_col + 1)
    \/ /\ kw_cur_col >= Len(cur) /\ kw_cur_line < kw_num_lines - 1
       /\ GoTo(kw_cur_line + 1, 0)

\* Up and Down.
Vertical(l) ==
    /\ l \in 0 .. kw_num_lines - 1
    /\ GoTo(l, IF kw_cur_col > Len(kw_lines[l]) THEN Len(kw_lines[l]) ELSE kw_cur_col)

HomeEnd == \E col \in {0, Len(cur)} : GoTo(kw_cur_line, col)

\* Fault: the loop begins one slot too low, and the last line is overwritten.
ShiftUpShort(ls, i) ==
    [k \in DOMAIN ls |-> IF k > i /\ k < kw_num_lines THEN ls[k - 1] ELSE ls[k]]

\* The array with the slots from i on moved one up, or one down onto i.
ShiftUp(ls, i) ==
    [k \in DOMAIN ls |-> IF k > i /\ k <= kw_num_lines THEN ls[k - 1] ELSE ls[k]]

ShiftDown(ls, i) ==
    [k \in DOMAIN ls |-> IF k >= i /\ k < kw_num_lines - 1 THEN ls[k + 1] ELSE ls[k]]

\* An edit: new lines ls and n, cursor at (l, col), window w, and the lines drawn.
Change(ls, n, l, col, w, drawn) ==
    /\ kw_lines' = ls /\ kw_num_lines' = n
    /\ kw_cur_line' = l /\ kw_cur_col' = col /\ kw_scroll' = w /\ kw_modified' = TRUE
    /\ rows' = Draw(rows, drawn, ls, n, w)
    /\ UNCHANGED <<file, open>>

\* Enter splits the line. Only the two halves are drawn, not the lines below.
Enter ==
    LET l == kw_cur_line + 1
        ls == [ShiftUp(kw_lines, l) EXCEPT
                 ![l] = SubSeq(cur, kw_cur_col + 1, Len(cur)),
                 ![kw_cur_line] = SubSeq(cur, 1, kw_cur_col)]
    IN  /\ kw_num_lines < MaxLines
        /\ Change(ls, kw_num_lines + 1, l, 0, Window(l),
                  IF Window(l) = kw_scroll THEN {kw_cur_line, l} ELSE All(kw_num_lines + 1))

\* Line i + 1 is appended to line i and the lines behind it move up, if the two
\* fit one line.
JoinWith(i, l, col, w) ==
    /\ Len(kw_lines[i]) + Len(kw_lines[i + 1]) < KW_MAX_COL
    /\ Change(ShiftDown([kw_lines EXCEPT ![i] = @ \o kw_lines[i + 1]], i + 1),
              kw_num_lines - 1, l, col, w, All(kw_num_lines - 1))

Backspace ==
    \/ /\ kw_cur_col > 0
       /\ Change([kw_lines EXCEPT ![kw_cur_line] = RemoveAt(@, kw_cur_col)], kw_num_lines,
                 kw_cur_line, kw_cur_col - 1, kw_scroll, {kw_cur_line})
    \/ /\ kw_cur_col = 0 /\ kw_cur_line > 0
       /\ JoinWith(kw_cur_line - 1, kw_cur_line - 1, Len(kw_lines[kw_cur_line - 1]),
                   Window(kw_cur_line - 1))

Delete ==
    \/ /\ kw_cur_col < Len(cur)
       /\ Change([kw_lines EXCEPT ![kw_cur_line] = RemoveAt(@, kw_cur_col + 1)], kw_num_lines,
                 kw_cur_line, kw_cur_col, kw_scroll, {kw_cur_line})
    \/ /\ kw_cur_col >= Len(cur) /\ kw_cur_line < kw_num_lines - 1
       /\ JoinWith(kw_cur_line, kw_cur_line, kw_cur_col, kw_scroll)

Insert(c) ==
    /\ Len(cur) < KW_MAX_COL - 1
    /\ Change([kw_lines EXCEPT ![kw_cur_line] = InsertAt(@, kw_cur_col + 1, c)], kw_num_lines,
              kw_cur_line, kw_cur_col + 1, kw_scroll, {kw_cur_line})

\* Fault: a failed save counts as one.
SaveAlways ==
    /\ kw_modified' = FALSE
    /\ file' = Cut(Saved(kw_lines, kw_num_lines), FileMax) \/ UNCHANGED file
    /\ UNCHANGED <<text, kw_cur_line, kw_cur_col, kw_scroll, rows, open>>

\* Ctrl+S. fs_write keeps what a file holds and answers with that much, or
\* fails; the flag is cleared when it does not fail.
Save ==
    /\ \/ file' = Cut(Saved(kw_lines, kw_num_lines), FileMax) /\ kw_modified' = FALSE
       \/ UNCHANGED <<file, kw_modified>>
    /\ UNCHANGED <<text, kw_cur_line, kw_cur_col, kw_scroll, rows, open>>

\* Ctrl+Q. With changes it asks; the answer of the save is not looked at. The
\* screen is cleared.
Quit ==
    /\ open' = FALSE
    /\ \/ UNCHANGED file
       \/ kw_modified /\ file' = Cut(Saved(kw_lines, kw_num_lines), FileMax)
    /\ rows' = [y \in 0 .. Rows - 1 |-> <<>>]
    /\ UNCHANGED <<text, kw_cur_line, kw_cur_col, kw_scroll, kw_modified>>

\* kittywrite: the file is loaded over what the array held, the screen cleared
\* and drawn.
Open ==
    LET ls == Loaded(file)
    IN  /\ ~open /\ open' = TRUE
        /\ kw_lines' = [k \in DOMAIN kw_lines |-> IF k < Len(ls) THEN ls[k + 1] ELSE kw_lines[k]]
        /\ kw_num_lines' = Len(ls)
        /\ kw_cur_line' = 0 /\ kw_cur_col' = 0 /\ kw_scroll' = 0 /\ kw_modified' = FALSE
        /\ rows' = [y \in 0 .. Rows - 1 |-> Shown(kw_lines', Len(ls), y)]
        /\ UNCHANGED file

\* read_key, while the editor waits in it, gets Alt+F1 to Alt+F4: tty_switch puts
\* another terminal's screen there. The editor is not told and goes on drawing only
\* what its keys change.
Switch ==
    /\ rows' = [y \in 0 .. Rows - 1 |-> Foreign]
    /\ UNCHANGED <<text, kw_cur_line, kw_cur_col, kw_scroll, kw_modified, file, open>>

KwInit ==
    /\ kw_lines = [k \in 0 .. MaxLines - 1 |-> <<>>]
    /\ kw_num_lines = 0 /\ kw_cur_line = 0 /\ kw_cur_col = 0 /\ kw_scroll = 0
    /\ kw_modified = FALSE /\ file \in Files
    /\ rows = [y \in 0 .. Rows - 1 |-> <<>>] /\ open = FALSE

KwNext ==
    \/ Open
    \/ /\ open
       /\ \/ KeyLeft \/ KeyRight \/ Vertical(kw_cur_line - 1) \/ Vertical(kw_cur_line + 1)
          \/ HomeEnd \/ Enter \/ Backspace \/ Delete \/ Save \/ Quit \/ Switch
          \/ \E c \in Chars : Insert(c)

KwSpec == KwInit /\ [][KwNext]_kwVars

-----------------------------------------------------------------------------
(* Properties *)

\* While the editor runs every line fits its array with its zero, the cursor
\* is in the text and the window shows its line: no key writes outside
\* kw_lines and the cursor is never drawn on the status row.
CursorInText ==
    open =>
        /\ kw_num_lines \in 1 .. MaxLines
        /\ \A k \in 0 .. MaxLines - 1 : Len(kw_lines[k]) < Width
        /\ kw_cur_line \in 0 .. kw_num_lines - 1
        /\ kw_cur_col \in 0 .. Len(cur)
        /\ kw_scroll >= 0 /\ kw_cur_line \in kw_scroll .. kw_scroll + Rows - 1

\* Without "[+]" in the title the file, loaded again, is the text on the
\* screen: nothing is lost by closing the editor. The one exception are texts
\* longer than a file can be, which are reported as saved and cut.
CleanIsOnDisk ==
    open /\ ~kw_modified /\ Len(Saved(kw_lines, kw_num_lines)) <= FileMax =>
        Loaded(file) = Text(kw_lines, kw_num_lines)

\* An edit is seen: the row of the cursor shows its line, and after two lines were
\* joined the whole window shows the text. (After Enter the rows below the cursor are
\* not drawn again.) When the terminal was switched under the editor, a join leaves
\* the other terminal in the rows from the second one behind the text on, and only there.
EditIsSeen ==
    [][open /\ text' # text =>
        \A y \in 0 .. Rows - 1 :
            LET i == kw_scroll' + y
            IN  i = kw_cur_line' \/ kw_num_lines' < kw_num_lines =>
                    \/ rows'[y] = Shown(kw_lines', kw_num_lines', i)
                    \/ i > kw_num_lines' /\ rows'[y] = Foreign]_kwVars

P == INSTANCE PlainText WITH
        lines <- IF open THEN Text(kw_lines, kw_num_lines) ELSE <<>>,
        row <- IF open THEN kw_cur_line + 1 ELSE 0, col <- IF open THEN kw_cur_col ELSE 0

\* The array with its shifting and its slots left over behind the text is a
\* plain text: a key inserts, removes, splits or joins where the cursor is and
\* changes nothing else of it.
ImplementsPlainText == P!TextSpec
=============================================================================
