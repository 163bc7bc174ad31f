----------------------------- MODULE CommandLog -----------------------------
(***************************************************************************)
(* What the command line promises: the last Size commands in the order     *)
(* they were given, none twice in a row, and a cursor that Up moves back    *)
(* and Down moves forward. There is no ring here and no index to wrap.      *)
(***************************************************************************)
EXTENDS Integers, SequencesExt

CONSTANTS Size, Lines, Widths, Aliases, Command(_)

VARIABLES
    log,        \* the commands, oldest first
    cursor,     \* the one that was last shown, 0 when none is
    line,       \* what is typed
    width       \* how much of it fits the row

logVars == <<log, cursor, line, width>>

Cut(s) == SubSeq(s, 1, IF Len(s) < width THEN Len(s) ELSE width)

Newest(s) == SubSeq(s, IF Len(s) > Size THEN Len(s) - Size + 1 ELSE 1, Len(s))

\* A command is appended unless it repeats the last one; then nothing is shown.
Remember(s, cmd) ==
    IF s.log # <<>> /\ Last(s.log) = cmd THEN s
    ELSE [log |-> Newest(Append(s.log, cmd)), cursor |-> 0]

LogInit == log = <<>> /\ cursor = 0 /\ line = <<>> /\ width \in Widths

\* Typing, and what the arrows do when there is nothing to show.
Type ==
    /\ line' \in Lines /\ Len(line') <= width
    /\ UNCHANGED <<log, cursor, width>>

\* The line is given as a command, with what that stands for.
Give ==
    /\ Command(line) # <<>>
    /\ LET cmd == Command(line)
           one == Remember([log |-> log, cursor |-> cursor], cmd)
       IN  [log |-> log', cursor |-> cursor'] =
               IF cmd \in DOMAIN Aliases THEN Remember(one, Aliases[cmd]) ELSE one
    /\ line' = <<>> /\ width' \in Widths

\* The line is dropped.
Drop == line' = <<>> /\ width' \in Widths /\ UNCHANGED <<log, cursor>>

Up ==
    /\ log # <<>>
    /\ cursor' = IF cursor = 0 THEN Len(log) ELSE IF cursor > 1 THEN cursor - 1 ELSE 1
    /\ line' = Cut(log[cursor'])
    /\ UNCHANGED <<log, width>>

Down ==
    /\ cursor # 0
    /\ IF cursor < Len(log)
       THEN cursor' = cursor + 1 /\ line' = Cut(log[cursor'])
       ELSE cursor' = 0 /\ line' = <<>>
    /\ UNCHANGED <<log, width>>

LogSpec == LogInit /\ [][Type \/ Give \/ Drop \/ Up \/ Down]_logVars
=============================================================================
