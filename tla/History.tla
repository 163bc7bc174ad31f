------------------------------ MODULE History -------------------------------
(***************************************************************************)
(* The command history of kernel/history.c, a ring of HISTORY_SIZE slots,  *)
(* and the line editor of shell_run (kernel/shell.c) that fills it and     *)
(* recalls from it.                                                        *)
(*                                                                         *)
(* A command is the sequence of its characters. shell_run leaves the       *)
(* buffer it gives to history_prev and history_next uninitialized; they    *)
(* return without writing to it when there is nothing to show, and the     *)
(* line then becomes whatever the stack held (Garbage).                    *)
(*                                                                         *)
(* The keys are those shell_run has code for. As read_key is (module       *)
(* Keyboard), Delete, Left, Right, Home, End, Up and Down never arrive.    *)
(***************************************************************************)
EXTENDS Integers, SequencesExt

CONSTANTS
    Chars,          \* the printable characters
    Size,           \* HISTORY_SIZE (50)
    Widths,         \* max_len: what the prompt leaves of a row
    Aliases         \* the aliases that are set: line |-> command

VARIABLES
    history,        \* the slots; <<>> in one that was never filled
    history_count,
    history_current,    \* the entry last shown, counted from the oldest, or -1
    history_index,      \* the slot to fill next
    line,           \* the line being edited
    pos,            \* the position of the cursor in it
    max_len         \* the room for it

ring == <<history, history_count, history_index>>

editorVars == <<ring, history_current, line, pos, max_len>>

MaxWidth == CHOOSE w \in Widths : \A x \in Widths : x <= w

Lines == UNION {[1 .. n -> Chars] : n \in 0 .. MaxWidth}

ASSUME HistoryAssumption ==
    /\ Size \in Nat \ {0}
    /\ Widths \subseteq Nat \ {0} /\ MaxWidth \in Widths
    /\ \A w \in Widths : w <= MaxWidth
    /\ \A s \in DOMAIN Aliases : Aliases[s] \in Lines /\ Aliases[s] \notin DOMAIN Aliases

-----------------------------------------------------------------------------
(* kernel/history.c *)

\* Fault: right only when the ring is full.
SlotOfFull(i) == (history_index + i) % Size

\* The slot of the i-th oldest entry. TLA+'s % is never negative, which saves
\* the correction of the code's.
Slot(i) == (history_index - history_count + i) % Size

\* The variables as one record, for the calls of history_add in one step.
Ring == [slots |-> history, count |-> history_count, index |-> history_index,
         current |-> history_current]

\* Fault: the entry being shown is not forgotten.
AddKeepsCurrent(r, cmd) ==
    IF r.count > 0 /\ r.slots[(r.index - 1 + Size) % Size] = cmd THEN r
    ELSE [slots |-> [r.slots EXCEPT ![r.index] = cmd],
          count |-> IF r.count < Size THEN r.count + 1 ELSE r.count,
          index |-> (r.index + 1) % Size,
          current |-> r.current]

\* A repetition of the last command is not added, and leaves current alone.
history_add(r, cmd) ==
    IF r.count > 0 /\ r.slots[(r.index - 1 + Size) % Size] = cmd THEN r
    ELSE [slots |-> [r.slots EXCEPT ![r.index] = cmd],
          count |-> IF r.count < Size THEN r.count + 1 ELSE r.count,
          index |-> (r.index + 1) % Size,
          current |-> -1]

\* What of a command fits the row.
Fitting(cmd) == SubSeq(cmd, 1, IF Len(cmd) < max_len THEN Len(cmd) ELSE max_len)

Garbage == {s \in Lines : Len(s) <= max_len}

-----------------------------------------------------------------------------
(* The keys of shell_run *)

\* The line becomes s, the cursor goes to its end.
Show(s) == line' = s /\ pos' = Len(s)

Insert(c) ==
    /\ Len(line) < max_len
    /\ line' = InsertAt(line, pos + 1, c) /\ pos' = pos + 1
    /\ UNCHANGED <<ring, history_current, max_len>>

Backspace ==
    /\ pos > 0
    /\ line' = RemoveAt(line, pos) /\ pos' = pos - 1
    /\ UNCHANGED <<ring, history_current, max_len>>

Delete ==
    /\ pos < Len(line)
    /\ line' = RemoveAt(line, pos + 1)
    /\ UNCHANGED <<ring, history_current, pos, max_len>>

\* Left, Right, Home and End.
Move ==
    /\ \/ pos > 0 /\ pos' \in {0, pos - 1}
       \/ pos < Len(line) /\ pos' \in {pos + 1, Len(line)}
    /\ UNCHANGED <<ring, history_current, line, max_len>>

\* KEY_UP: history_prev. With no history its buffer is as it was, and is shown
\* unless it happens to begin with a zero.
KeyUp ==
    /\ IF history_count = 0
       THEN /\ UNCHANGED history_current
            /\ UNCHANGED <<line, pos>> \/ \E s \in Garbage \ {<<>>} : Show(s)
       ELSE /\ history_current' = IF history_current = -1 THEN history_count - 1
                                  ELSE IF history_current > 0 THEN history_current - 1
                                  ELSE history_current
            /\ Show(Fitting(history[Slot(history_current')]))
    /\ UNCHANGED <<ring, max_len>>

\* KEY_DOWN: history_next. The buffer is shown whatever it holds.
KeyDown ==
    /\ IF history_current = -1
       THEN UNCHANGED history_current /\ \E s \in Garbage : Show(s)
       ELSE IF history_current < history_count - 1
       THEN /\ history_current' = history_current + 1
            /\ Show(Fitting(history[Slot(history_current')]))
       ELSE history_current' = -1 /\ Show(<<>>)
    /\ UNCHANGED <<ring, max_len>>

\* The next prompt.
Prompt == Show(<<>>) /\ max_len' \in Widths

\* execute_command skips the blanks a line begins with.
Stripped(s) ==
    LET ks == {k \in 1 .. Len(s) : s[k] # " "}
    IN  IF ks = {} THEN <<>> ELSE SubSeq(s, Min(ks), Len(s))

\* It remembers the command and, if that is an alias, the command it stands for.
\* (sudo and scripts add commands in the same way; for aliases of aliases see
\* module Shell.)
Remembered(r, cmd) ==
    IF cmd \in DOMAIN Aliases THEN history_add(history_add(r, cmd), Aliases[cmd])
    ELSE history_add(r, cmd)

\* Enter on a line that is not blank: execute_command.
Enter ==
    /\ Stripped(line) # <<>>
    /\ LET r == Remembered(Ring, Stripped(line))
       IN  /\ history' = r.slots /\ history_count' = r.count
           /\ history_index' = r.index /\ history_current' = r.current
    /\ Prompt

\* Ctrl+C, or Enter on a blank line: nothing runs.
Cancel == Prompt /\ UNCHANGED <<ring, history_current>>

EditorInit ==
    /\ history = [i \in 0 .. Size - 1 |-> <<>>]
    /\ history_count = 0 /\ history_index = 0 /\ history_current = -1
    /\ line = <<>> /\ pos = 0 /\ max_len \in Widths

EditorNext ==
    \/ \E c \in Chars : Insert(c)
    \/ Backspace \/ Delete \/ Move \/ KeyUp \/ KeyDown \/ Enter \/ Cancel

EditorSpec == EditorInit /\ [][EditorNext]_editorVars

-----------------------------------------------------------------------------
(* Properties *)

\* The i-th oldest command, counted from 0.
Entry(i) == history[Slot(i)]

\* The types; the cursor is in the line, and the line in the row.
EditorTypeOK ==
    /\ history \in [0 .. Size - 1 -> Lines]
    /\ history_count \in 0 .. Size /\ history_index \in 0 .. Size - 1
    /\ history_current \in -1 .. history_count - 1
    /\ line \in Lines /\ max_len \in Widths
    /\ Len(line) <= max_len /\ pos \in 0 .. Len(line)

\* While a command is being recalled it is still there: the entry the cursor
\* is on was not overwritten since, and Enter has reset the cursor if it was.
CursorOnEntry ==
    [][history_current # -1 /\ history_current' = history_current =>
        Entry(history_current)' = Entry(history_current)]_editorVars

Log == [i \in 1 .. history_count |-> Entry(i - 1)]

L == INSTANCE CommandLog WITH log <- Log,
        cursor <- history_current + 1, width <- max_len, Command <- Stripped

\* The ring and its wrapping indexes implement the plain log of commands.
ImplementsLog == L!LogSpec
=============================================================================
