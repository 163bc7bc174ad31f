------------------------------ MODULE Process -------------------------------
(***************************************************************************)
(* The process table of kernel/process.c, its timer and scheduler, and the  *)
(* listing of "ps", which snprintf (kernel/string.c) writes line by line     *)
(* into a buffer of the shell.                                              *)
(*                                                                         *)
(* In this kernel only proc_init and the listing have callers; the rest is    *)
(* the interface the module offers, and is called here in any order. Of a     *)
(* name only its length matters, of a line only how long it is.              *)
(***************************************************************************)
EXTENDS Integers, SequencesExt

CONSTANTS
    MaxProcesses,   \* MAX_PROCESSES (32)
    TimeSlice,      \* TIME_SLICE (10)
    NameLengths,    \* the lengths of the names that are given; name has 32 bytes
    Sizes,          \* the sizes of the buffers given to proc_get_list
    Heading,        \* the length of the two lines above the list
    Columns,        \* the length of an entry without the name
    Wrap,           \* 2^32: usize and u32 are counted modulo this
    MaxUptime       \* bound: how often the timer ticks

VARIABLES
    processes,
    current_pid,
    next_pid,
    system_uptime,
    list            \* what proc_get_list did: the buffer's size, the bytes
                    \* written, the value returned, or that it hangs

procVars == <<processes, current_pid, next_pid, system_uptime, list>>

ASSUME ProcessAssumption ==
    /\ MaxProcesses \in Nat /\ MaxProcesses > 1
    /\ TimeSlice \in Nat \ {0}
    /\ NameLengths \subseteq 0 .. 31 /\ {3, 4} \subseteq NameLengths
    /\ Sizes \subseteq Nat \ {0}
    /\ Heading \in Nat /\ Columns \in Nat /\ MaxUptime \in Nat
    /\ Wrap \in Nat \ {0} /\ \A n \in Sizes : n < Wrap

Pids == 0 .. MaxProcesses - 1

States == {"unused", "ready", "running", "zombie"}

Process(state, ppid, user, name) ==
    [state |-> state, ppid |-> ppid, is_user |-> user,
     uid |-> IF user THEN 1000 ELSE 0, name |-> name, time_used |-> 0]

Unused == Process("unused", 0, FALSE, 0)

-----------------------------------------------------------------------------
(* The scheduler. The index of a process in the table is its pid. *)

\* Round robin, from the process behind the current one all the way round to
\* it; with nothing to run, the idle process. The table and the pid chosen.
schedule(table, pid) ==
    LET At(k) == (pid + k) % MaxProcesses
        Able(k) == table[At(k)].state \in {"ready", "running"}
        turns == {k \in 1 .. MaxProcesses : Able(k)}
        next == IF turns = {} THEN 0
                ELSE At(CHOOSE k \in turns : \A j \in turns : k <= j)
    IN  [table |-> [table EXCEPT ![next].state = "running"], pid |-> next]

\* Fault: the idle process is accounted for as well.
TimerCountsIdle(table, pid) ==
    LET used == table[pid].time_used + 1
    IN  IF used < TimeSlice
        THEN [table |-> [table EXCEPT ![pid].time_used = used], pid |-> pid]
        ELSE schedule([table EXCEPT ![pid].state = "ready", ![pid].time_used = 0], pid)

\* The process that has the processor has used a tick of its slice; at its end
\* another one is chosen. The idle process has no slice.
Tick(table, pid) ==
    LET used == table[pid].time_used + 1
    IN  IF pid = 0 THEN [table |-> table, pid |-> pid]
        ELSE IF used < TimeSlice
        THEN [table |-> [table EXCEPT ![pid].time_used = used], pid |-> pid]
        ELSE schedule([table EXCEPT ![pid].state = "ready", ![pid].time_used = 0], pid)

timer_handler ==
    /\ system_uptime < MaxUptime
    /\ system_uptime' = (system_uptime + 1) % Wrap
    /\ LET t == Tick(processes, current_pid)
       IN  processes' = t.table /\ current_pid' = t.pid
    /\ UNCHANGED <<next_pid, list>>

-----------------------------------------------------------------------------
(* The processes *)

\* Pids are given out in order, and none is ever used again. The answer to the
\* caller, the pid or -1, is left out.
proc_create_user(name, user) ==
    /\ ~list.hung
    /\ IF next_pid >= MaxProcesses THEN UNCHANGED <<processes, next_pid>>
       ELSE /\ processes' = [processes EXCEPT
                                ![next_pid] = Process("ready", current_pid, user, name)]
            /\ next_pid' = next_pid + 1
    /\ UNCHANGED <<current_pid, system_uptime, list>>

\* proc_create makes a user process.
proc_create(name) == proc_create_user(name, TRUE)

\* The caller becomes a zombie and gives up the processor by the interrupt of
\* the timer.
proc_exit ==
    /\ ~list.hung
    /\ system_uptime < MaxUptime
    /\ system_uptime' = (system_uptime + 1) % Wrap
    /\ LET t == Tick([processes EXCEPT ![current_pid].state = "zombie"], current_pid)
       IN  processes' = t.table /\ current_pid' = t.pid
    /\ UNCHANGED <<next_pid, list>>

-----------------------------------------------------------------------------
(* The listing *)

\* Fault: no room is left for the zero.
ReturnsWhenFull(size, n) == size = 0 \/ n <= size

\* Whether snprintf comes to the end of a line of n characters: PUT moves on to the
\* next one only when it has room for this one and for the zero at the end, and every
\* line ends in a character of the format.
Returns(size, n) == size = 0 \/ n < size

\* How many of them it writes.
Written(size, n) == IF size = 0 THEN 0 ELSE IF n < size THEN n ELSE size - 1

\* One line of n characters more: pos is where it begins, end is the last byte
\* written so far. A call that returns has written all it was given.
Line(size, l, n) ==
    LET left == (size - l.pos) % Wrap
    IN  IF l.hung THEN l
        ELSE [pos |-> l.pos + (IF Returns(left, n) THEN Written(left, n) ELSE 0),
              end |-> IF left = 0 THEN l.end ELSE l.pos + Written(left, n),
              hung |-> ~Returns(left, n)]

\* The line of entry p, if it is in use.
Row(table, size, l, p) ==
    IF table[p].state = "unused" THEN l ELSE Line(size, l, Columns + table[p].name)

\* A call that hangs is the last: only the timer can go on.
proc_get_list(size) ==
    LET Head1 == Line(size, [pos |-> 0, end |-> -1, hung |-> FALSE], Heading)
        Head2 == Line(size, Head1, Heading)
        l == FoldLeft(LAMBDA x, p : Row(processes, size, x, p), Head2,
                      [k \in 1 .. MaxProcesses |-> k - 1])
    IN  /\ ~list.hung
        /\ list' = [size |-> size, end |-> l.end, ret |-> l.pos, hung |-> l.hung]
        /\ UNCHANGED <<processes, current_pid, next_pid, system_uptime>>

-----------------------------------------------------------------------------
(* proc_init: the idle process ("idle") and the shell ("ksh"). *)

ProcInit ==
    /\ processes = [p \in Pids |->
                       IF p = 0 THEN Process("ready", 0, FALSE, 4)
                       ELSE IF p = 1 THEN Process("ready", 0, TRUE, 3) ELSE Unused]
    /\ current_pid = 0 /\ next_pid = 2 /\ system_uptime = 0
    /\ list = [size |-> 1, end |-> 0, ret |-> 0, hung |-> FALSE]

ProcNext ==
    \/ timer_handler
    \/ proc_exit
    \/ \E n \in NameLengths : proc_create(n) \/ \E u \in BOOLEAN : proc_create_user(n, u)
    \/ \E n \in Sizes : proc_get_list(n)

ProcSpec == ProcInit /\ [][ProcNext]_procVars

-----------------------------------------------------------------------------
(* Properties *)

\* The entries up to next_pid are the processes, and only those.
ProcTypeOK ==
    /\ processes \in [Pids -> [state : States, ppid : Pids, is_user : BOOLEAN,
                               uid : {0, 1000}, name : NameLengths \cup {0},
                               time_used : 0 .. TimeSlice - 1]]
    /\ current_pid \in Pids /\ next_pid \in 1 .. MaxProcesses
    /\ system_uptime \in 0 .. Wrap - 1
    /\ \A p \in Pids : processes[p].state # "unused" <=> p < next_pid

\* A process that was created stays ready and never gets the processor: the
\* idle process has it at the start, the timer takes it only from a process
\* with a pid other than 0, and nothing else calls the scheduler. This is so
\* even after the idle process has ended itself.
OnlyIdleRuns ==
    /\ current_pid = 0
    /\ \A p \in Pids \ {0} : /\ processes[p].state \in {"unused", "ready"}
                             /\ processes[p].time_used = 0

\* The text of the whole listing: the heading and a line for each process.
TextLength(table) ==
    FoldLeft(LAMBDA n, p : IF table[p].state = "unused" THEN n
                           ELSE n + Columns + table[p].name,
             Heading + Heading, [k \in 1 .. MaxProcesses |-> k - 1])

\* The listing stays inside its buffer, with the zero that ends it, and size - pos
\* never wraps: it is the whole text, and its length is returned, when that fits;
\* when it does not, the call fills the buffer and never returns.
ListFits ==
    [][\A n \in Sizes : proc_get_list(n) =>
          LET t == TextLength(processes)
          IN  IF t < n THEN list' = [size |-> n, end |-> t, ret |-> t, hung |-> FALSE]
              ELSE list'.hung /\ list'.end = n - 1]_procVars
=============================================================================
