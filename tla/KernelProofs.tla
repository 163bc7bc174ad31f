---------------------------- MODULE KernelProofs ----------------------------
(***************************************************************************)
(* Proofs about the four parts of the kernel that live in memory alone.    *)
(*                                                                         *)
(* Module Process, for tables of every size: no process that is created ever*)
(* runs, and the listing fits every buffer. OnlyIdleRuns is inductive with *)
(* ProcTypeOK, which says that the index chosen by the scheduler, were it  *)
(* ever called, is in the table.                                           *)
(*                                                                         *)
(* Module Heap, for any heap and any request sizes: the blocks tile the heap,*)
(* callers own disjoint blocks, and kmalloc and kfree implement module     *)
(* Allocator.                                                              *)
(*                                                                         *)
(* Module Session, for any number of accounts, terminals and attempts and any*)
(* depth of nesting: there is one root, nobody is root without a proof, no *)
(* step but userdel gives a session to another account, and every elevation*)
(* ends.                                                                   *)
(*                                                                         *)
(* Module History, for a ring of any size and rows of any width: the line  *)
(* and the cursors stay where they belong, and the ring implements module  *)
(* CommandLog.                                                             *)
(***************************************************************************)
EXTENDS Heap, Process, Session, History, SequenceTheorems, TLAPS

USE DEF HeaderSize, Alignment, NULL

\* The loop of proc_get_list as a fold: e is the table and the size of the buffer.
RowOf(e, l, p) == Row(e[1], e[2], l, p)

\* The same for the length of its text.
LengthOf(e, n, p) ==
    IF e[1][p].state = "unused" THEN n ELSE n + Columns + e[1][p].name

\* A listing that got as far as a text of t characters does, and has filled its
\* buffer when that is too long.
Tells(size, l, t) ==
    IF t < size THEN l.pos = t /\ l.end = t /\ l.hung = FALSE
    ELSE l.hung = TRUE /\ l.end = size - 1

Anything(e, x) == TRUE

Rows == INSTANCE Induction WITH Op <- RowOf, Good <- Anything

Lengths == INSTANCE Induction WITH Op <- LengthOf, Good <- Anything

LEMMA MinIsLeast ==
    ASSUME NEW S \in SUBSET Nat, S # {}
    PROVE  /\ Min(S) \in S
           /\ \A x \in S : Min(S) <= x
BY Rows!MinIsLeast DEF Min, Rows!Min

-----------------------------------------------------------------------------
(* Processes *)

(* The timer leaves the table and the processor to process 0. *)
LEMMA IdleKeepsProcessor ==
    ASSUME NEW table
    PROVE  Tick(table, 0) = [table |-> table, pid |-> 0]
  BY DEF Tick

(* The table has the right shape, and entry n is in use exactly when pid n was *)
(* given out: pids are never used again.                                      *)
ProcInv == ProcTypeOK /\ OnlyIdleRuns

Entries == [state : States, ppid : Pids, is_user : BOOLEAN, uid : {0, 1000},
            name : NameLengths \cup {0}, time_used : 0 .. TimeSlice - 1]

(* Every entry that the code writes is one. *)
LEMMA NewEntry ==
    ASSUME NEW s \in States, NEW p \in Pids, NEW u \in BOOLEAN, NEW n \in NameLengths \cup {0}
    PROVE  Process(s, p, u, n) \in Entries
  <1>1. 0 \in 0 .. TimeSlice - 1
    BY ProcessAssumption
  <1>2. (IF u THEN 1000 ELSE 0) \in {0, 1000}
    OBVIOUS
  <1> QED
    BY <1>1, <1>2 DEF Process, Entries

(* The table that proc_init makes satisfies both. *)
LEMMA ProcInitInv == ProcInit => ProcInv
  <1> SUFFICES ASSUME ProcInit PROVE ProcInv
    OBVIOUS
  <1>0. 0 \in Pids /\ 1 \in Pids
    BY ProcessAssumption DEF Pids
  <1>1. /\ Process("ready", 0, FALSE, 4) \in Entries
        /\ Process("ready", 0, TRUE, 3) \in Entries
        /\ Unused \in Entries
    BY <1>0, NewEntry, ProcessAssumption DEF Unused, States
  <1>2. processes \in [Pids -> Entries]
    BY <1>1 DEF ProcInit
  <1>3. \A p \in Pids : processes[p].state # "unused" <=> p < next_pid
    BY DEF ProcInit, Process, Unused, Pids
  <1>4. next_pid \in 1 .. MaxProcesses /\ system_uptime \in 0 .. Wrap - 1
    BY ProcessAssumption DEF ProcInit
  <1>5. OnlyIdleRuns
    BY DEF OnlyIdleRuns, ProcInit, Process, Unused
  <1> QED
    BY <1>0, <1>2, <1>3, <1>4, <1>5 DEF ProcInv, ProcTypeOK, Entries, ProcInit

(* A tick keeps the uptime in its 32 bits. *)
LEMMA UptimeWraps == \A u \in 0 .. Wrap - 1 : (u + 1) % Wrap \in 0 .. Wrap - 1
  BY ProcessAssumption

(* Every operation keeps both. *)
LEMMA ProcNextInv == ProcInv /\ [ProcNext]_procVars => ProcInv'
  <1> SUFFICES ASSUME ProcInv, [ProcNext]_procVars PROVE ProcInv'
    OBVIOUS
  <1>0. /\ processes \in [Pids -> Entries] /\ current_pid = 0 /\ 0 \in Pids
        /\ next_pid \in 1 .. MaxProcesses /\ system_uptime \in 0 .. Wrap - 1
        /\ \A p \in Pids : processes[p].state # "unused" <=> p < next_pid
        /\ \A p \in Pids \ {0} : /\ processes[p].state \in {"unused", "ready"}
                                 /\ processes[p].time_used = 0
    BY ProcessAssumption DEF ProcInv, ProcTypeOK, OnlyIdleRuns, Entries, Pids
  <1>1. CASE timer_handler
    <2>1. processes' = processes /\ current_pid' = 0 /\ next_pid' = next_pid
      BY <1>0, <1>1, IdleKeepsProcessor DEF timer_handler
    <2>2. system_uptime' \in 0 .. Wrap - 1
      BY <1>0, <1>1, UptimeWraps DEF timer_handler
    <2> QED
      BY <1>0, <2>1, <2>2 DEF ProcInv, ProcTypeOK, OnlyIdleRuns, Entries
  <1>2. CASE proc_exit
    <2> DEFINE t == [processes EXCEPT ![0].state = "zombie"]
    <2>1. processes' = t /\ current_pid' = 0 /\ next_pid' = next_pid
      BY <1>0, <1>2, IdleKeepsProcessor DEF proc_exit
    <2>2. system_uptime' \in 0 .. Wrap - 1
      BY <1>0, <1>2, UptimeWraps DEF proc_exit
    <2>3. /\ t \in [Pids -> Entries]
          /\ t[0].state = "zombie"
          /\ \A p \in Pids \ {0} : t[p] = processes[p]
      BY <1>0 DEF Entries, States
    <2>4. 0 < next_pid
      BY <1>0, ProcessAssumption
    <2>5. \A p \in Pids : t[p].state # "unused" <=> p < next_pid
      BY <1>0, <2>3, <2>4
    <2> HIDE DEF t
    <2> QED
      BY <1>0, <2>1, <2>2, <2>3, <2>5 DEF ProcInv, ProcTypeOK, OnlyIdleRuns, Entries
  <1>3. ASSUME NEW n \in NameLengths, NEW u \in BOOLEAN, proc_create_user(n, u)
        PROVE  ProcInv'
    <2> DEFINE e == Process("ready", 0, u, n)
    <2>1. e \in Entries /\ e.state = "ready" /\ e.time_used = 0
      BY <1>0, NewEntry DEF States, Process
    <2>2. UNCHANGED <<current_pid, system_uptime>>
      BY <1>3 DEF proc_create_user
    <2> HIDE DEF e
    <2>3. CASE next_pid >= MaxProcesses
      <3>1. UNCHANGED <<processes, next_pid>>
        BY <1>3, <2>3 DEF proc_create_user
      <3> QED
        BY <1>0, <2>2, <3>1 DEF ProcInv, ProcTypeOK, OnlyIdleRuns, Entries
    <2>4. CASE next_pid < MaxProcesses
      <3>1. next_pid \in Pids \ {0} /\ next_pid + 1 \in 1 .. MaxProcesses
        BY <1>0, <2>4, ProcessAssumption DEF Pids
      <3>2. /\ processes' = [processes EXCEPT ![next_pid] = e]
            /\ next_pid' = next_pid + 1
        BY <1>0, <1>3, <2>4, ProcessAssumption DEF proc_create_user, e
      <3>3. processes' \in [Pids -> Entries]
        BY <1>0, <2>1, <3>1, <3>2
      <3>4. \A p \in Pids : processes'[p].state # "unused" <=> p < next_pid'
        BY <1>0, <2>1, <3>1, <3>2, ProcessAssumption DEF Pids
      <3>5. \A p \in Pids \ {0} : /\ processes'[p].state \in {"unused", "ready"}
                                  /\ processes'[p].time_used = 0
        BY <1>0, <2>1, <3>1, <3>2
      <3> QED
        BY <1>0, <2>2, <3>1, <3>2, <3>3, <3>4, <3>5
           DEF ProcInv, ProcTypeOK, OnlyIdleRuns, Entries
    <2> QED
      BY <1>0, <2>3, <2>4, ProcessAssumption
  <1>4. ASSUME NEW n \in Sizes, proc_get_list(n) PROVE ProcInv'
    <2>1. UNCHANGED <<processes, current_pid, next_pid, system_uptime>>
      BY <1>4 DEF proc_get_list
    <2> QED
      BY <1>0, <2>1 DEF ProcInv, ProcTypeOK, OnlyIdleRuns, Entries
  <1>5. CASE UNCHANGED procVars
    BY <1>0, <1>5 DEF procVars, ProcInv, ProcTypeOK, OnlyIdleRuns, Entries
  <1> QED
    BY <1>1, <1>2, <1>3, <1>4, <1>5 DEF ProcNext, proc_create

(* timer_handler, proc_exit and proc_create_user leave the processor with the   *)
(* idle process and every other process ready, for ever.                        *)
THEOREM IdleRunsAlways == ProcSpec => []OnlyIdleRuns
  <1>1. ProcInv => OnlyIdleRuns
    BY DEF ProcInv
  <1> QED
    BY <1>1, ProcInitInv, ProcNextInv, PTL DEF ProcSpec

(* The table keeps its shape, and no pid is given out twice or past its end. *)
THEOREM ProcTypeCorrect == ProcSpec => []ProcTypeOK
  <1>1. ProcInv => ProcTypeOK
    BY DEF ProcInv
  <1> QED
    BY <1>1, ProcInitInv, ProcNextInv, PTL DEF ProcSpec

(* One line more, of a listing that still goes on or hangs already.            *)
LEMMA LineTells ==
    ASSUME NEW size \in Sizes, NEW l, NEW t \in Nat, NEW n \in Nat,
           IF t < size THEN l.pos = t /\ l.hung = FALSE
           ELSE l.hung = TRUE /\ l.end = size - 1
    PROVE  Tells(size, Line(size, l, n), t + n)
  <1>1. size \in Nat /\ size < Wrap /\ Wrap \in Nat \ {0}
    BY ProcessAssumption
  <1>2. CASE ~(t < size)
    <2>1. ~(t + n < size)
      BY <1>1, <1>2
    <2>2. Line(size, l, n) = l
      BY <1>2 DEF Line
    <2> QED
      BY <1>2, <2>1, <2>2 DEF Tells
  <1>3. CASE t < size
    <2> DEFINE left == (size - l.pos) % Wrap
    <2>1. left = size - t /\ left \in 1 .. size
      <3>1. size - t \in 1 .. Wrap - 1 /\ size - t \in 1 .. size
        BY <1>1, <1>3
      <3>2. \A x \in 1 .. Wrap - 1 : x % Wrap = x
        BY <1>1
      <3> QED
        BY <1>3, <3>1, <3>2
    <2>2. Line(size, l, n) =
              [pos |-> l.pos + (IF Returns(left, n) THEN Written(left, n) ELSE 0),
               end |-> IF left = 0 THEN l.end ELSE l.pos + Written(left, n),
               hung |-> ~Returns(left, n)]
      BY <1>3 DEF Line
    <2> HIDE DEF left
    <2>3. CASE n < left
      <3>1. Returns(left, n) = TRUE /\ Written(left, n) = n /\ left # 0
        BY <1>1, <2>1, <2>3 DEF Returns, Written
      <3>2. t + n < size
        BY <1>1, <2>1, <2>3
      <3>3. Line(size, l, n) = [pos |-> l.pos + n, end |-> l.pos + n, hung |-> FALSE]
        BY <2>2, <3>1
      <3>4. l.pos = t
        BY <1>3
      <3>5. /\ Line(size, l, n).pos = t + n
            /\ Line(size, l, n).end = t + n
            /\ Line(size, l, n).hung = FALSE
        BY <3>3, <3>4
      <3> QED
        BY <3>2, <3>5 DEF Tells
    <2>4. CASE ~(n < left)
      <3>1. Returns(left, n) = FALSE /\ Written(left, n) = left - 1 /\ left # 0
        BY <1>1, <2>1, <2>4 DEF Returns, Written
      <3>2. ~(t + n < size) /\ t + (left - 1) = size - 1
        BY <1>1, <2>1, <2>4
      <3>3. Line(size, l, n) = [pos |-> l.pos + 0, end |-> l.pos + (left - 1), hung |-> TRUE]
        BY <2>2, <3>1
      <3>4. l.pos = t
        BY <1>3
      <3>5. /\ Line(size, l, n).end = size - 1
            /\ Line(size, l, n).hung = TRUE
        BY <3>2, <3>3, <3>4
      <3> QED
        BY <3>2, <3>5 DEF Tells
    <2> QED
      BY <2>3, <2>4
  <1> QED
    BY <1>2, <1>3

(* What a call of proc_get_list does.                                          *)
ListDone ==
    \A n \in Sizes : proc_get_list(n) =>
        LET t == TextLength(processes)
        IN  IF t < n THEN list' = [size |-> n, end |-> t, ret |-> t, hung |-> FALSE]
            ELSE list'.hung /\ list'.end = n - 1

(* The lines of the listing add up to its text, whatever the table holds.      *)
LEMMA ListingTells == ProcTypeOK => ListDone
  <1> SUFFICES ASSUME ProcTypeOK, NEW size \in Sizes, proc_get_list(size)
               PROVE  LET t == TextLength(processes)
                      IN  IF t < size
                          THEN list' = [size |-> size, end |-> t, ret |-> t, hung |-> FALSE]
                          ELSE list'.hung /\ list'.end = size - 1
    BY DEF ListDone
  <1> DEFINE h0 == [pos |-> 0, end |-> -1, hung |-> FALSE]
             h1 == Line(size, h0, Heading)
             h2 == Line(size, h1, Heading)
             b == Heading + Heading
             q == [k \in 1 .. MaxProcesses |-> k - 1]
             e == <<processes, size>>
             l == FoldLeft(LAMBDA x, p : Row(processes, size, x, p), h2, q)
             t == TextLength(processes)
  <1>1. /\ size \in Nat \ {0} /\ Heading \in Nat /\ Columns \in Nat /\ MaxProcesses \in Nat
        /\ NameLengths \subseteq 0 .. 31
    BY ProcessAssumption
  <1>2. Tells(size, h1, Heading)
    <2>1. 0 < size /\ h0.pos = 0 /\ h0.hung = FALSE
      BY <1>1
    <2> HIDE DEF h0
    <2>2. IF 0 < size THEN h0.pos = 0 /\ h0.hung = FALSE
          ELSE h0.hung = TRUE /\ h0.end = size - 1
      BY <2>1
    <2>3. 0 \in Nat
      OBVIOUS
    <2>4. Tells(size, Line(size, h0, Heading), 0 + Heading)
      BY <1>1, <2>2, <2>3, LineTells
    <2>5. 0 + Heading = Heading
      BY <1>1
    <2> QED
      BY <2>4, <2>5
  <1> HIDE DEF h0, h1
  <1>3. Tells(size, h2, b) /\ b \in Nat
    <2>1. IF Heading < size THEN h1.pos = Heading /\ h1.hung = FALSE
          ELSE h1.hung = TRUE /\ h1.end = size - 1
      BY <1>2 DEF Tells
    <2>2. Tells(size, Line(size, h1, Heading), Heading + Heading)
      BY <1>1, <2>1, LineTells
    <2> QED
      BY <1>1, <2>2
  <1> HIDE DEF h2, b
  <1>4. l = Rows!Fold(e, h2, q)
    BY DEF Rows!Fold, FoldLeft, MapThenFoldSet, Max, Rows!FoldLeft, Rows!MapThenFoldSet, Rows!Max, RowOf
  <1>5. t = Lengths!Fold(e, b, q)
    BY DEF TextLength, b, Lengths!Fold, FoldLeft, MapThenFoldSet, Max, Lengths!FoldLeft,
           Lengths!MapThenFoldSet, Lengths!Max, LengthOf
  <1>6. DOMAIN q = 1 .. MaxProcesses /\ \A k \in 1 .. MaxProcesses : q[k] \in Pids
    BY <1>1 DEF Pids
  <1>7. \A p \in Pids : processes[p].name \in Nat
    <2>1. \A p \in Pids : processes[p].name \in NameLengths \cup {0}
      BY DEF ProcTypeOK
    <2>2. \A n \in NameLengths \cup {0} : n \in Nat
      BY <1>1
    <2> QED
      BY <2>1, <2>2, Zenon
  <1> HIDE DEF q
  <1>8. PICK f : Rows!Values(e, h2, q, MaxProcesses, f) /\ Rows!Fold(e, h2, q) = f[MaxProcesses]
    BY <1>1, <1>6, Rows!FoldSteps
  <1>9. PICK g : Lengths!Values(e, b, q, MaxProcesses, g)
                   /\ Lengths!Fold(e, b, q) = g[MaxProcesses]
    BY <1>1, <1>6, Lengths!FoldSteps
  <1> HIDE DEF l, t
  <1>10. /\ f[0] = h2 /\ g[0] = b
         /\ \A k \in 1 .. MaxProcesses : /\ f[k] = RowOf(e, f[k - 1], q[k])
                                         /\ g[k] = LengthOf(e, g[k - 1], q[k])
    BY <1>8, <1>9 DEF Rows!Values, Lengths!Values
  <1> DEFINE S == {k \in Nat : k <= MaxProcesses => g[k] \in Nat /\ Tells(size, f[k], g[k])}
  <1>11. ASSUME NEW k \in Nat, k \in S, k + 1 <= MaxProcesses
         PROVE  g[k + 1] \in Nat /\ Tells(size, f[k + 1], g[k + 1])
    <2>1. g[k] \in Nat /\ Tells(size, f[k], g[k])
      BY <1>1, <1>11
    <2>2. k + 1 \in 1 .. MaxProcesses /\ (k + 1) - 1 = k
      BY <1>1, <1>11
    <2> DEFINE p == q[k + 1]
    <2>3. p \in Pids /\ f[k + 1] = RowOf(e, f[k], p) /\ g[k + 1] = LengthOf(e, g[k], p)
      BY <1>6, <1>10, <2>2
    <2> HIDE DEF p
    <2>4. e[1] = processes /\ e[2] = size
      OBVIOUS
    <2> HIDE DEF e
    <2>5. CASE processes[p].state = "unused"
      BY <2>1, <2>3, <2>4, <2>5 DEF RowOf, Row, LengthOf
    <2>6. CASE processes[p].state # "unused"
      <3> DEFINE n == Columns + processes[p].name
      <3>1. n \in Nat /\ g[k] + Columns + processes[p].name = g[k] + n
        BY <1>1, <1>7, <2>1, <2>3
      <3>2. f[k + 1] = Line(size, f[k], n) /\ g[k + 1] = g[k] + n
        BY <2>3, <2>4, <2>6, <3>1 DEF RowOf, Row, LengthOf
      <3> HIDE DEF n
      <3>3. g[k] + n \in Nat
        BY <2>1, <3>1
      <3>4. Tells(size, Line(size, f[k], n), g[k] + n)
        BY <2>1, <3>1, LineTells DEF Tells
      <3> QED
        BY <3>2, <3>3, <3>4
    <2> QED
      BY <2>5, <2>6
  <1>12. 0 \in S
    BY <1>3, <1>10
  <1>13. \A k \in Nat : k \in S => k + 1 \in S
    <2> SUFFICES ASSUME NEW k \in Nat, k \in S PROVE k + 1 \in S
      OBVIOUS
    <2>1. k + 1 <= MaxProcesses => g[k + 1] \in Nat /\ Tells(size, f[k + 1], g[k + 1])
      BY <1>11
    <2> QED
      BY <2>1
  <1>14. MaxProcesses \in S
    <2> HIDE DEF S
    <2> QED
      BY <1>1, <1>12, <1>13, Rows!SetInduction
  <1>15. t \in Nat /\ Tells(size, l, t)
    BY <1>1, <1>4, <1>5, <1>8, <1>9, <1>14
  <1>16. list' = [size |-> size, end |-> l.end, ret |-> l.pos, hung |-> l.hung]
    BY DEF proc_get_list, h0, h1, h2, q, l
  <1>17. IF t < size THEN list' = [size |-> size, end |-> t, ret |-> t, hung |-> FALSE]
         ELSE list'.hung /\ list'.end = size - 1
    BY <1>15, <1>16 DEF Tells
  <1> QED
    BY <1>17 DEF t

(* ps returns the text of the whole table, for a table of any size and any      *)
(* buffer that is longer; it fills a shorter one and never comes back, without a  *)
(* byte written past it.                                                        *)
THEOREM ListAlwaysFits == ProcSpec => ListFits
  <1>1. ProcInv /\ [ProcNext]_procVars => [ListDone]_procVars
    BY ListingTells DEF ProcInv
  <1> QED
    BY <1>1, ProcInitInv, ProcNextInv, PTL DEF ProcSpec, ListFits, ListDone

-----------------------------------------------------------------------------
(* The heap *)

\* The inductive invariant.
HeapInv == HeapTypeOK /\ Tiled /\ MagicIntact /\ CallersOwnBlocks /\ AllListed

\* align_up never returns less than it is given.
LEMMA AlignUpGrows ==
    ASSUME NEW n \in Requests
    PROVE  align_up(n) \in Nat /\ align_up(n) >= n
BY HeapAssumption DEF align_up

\* A block that kmalloc picks is listed, free and large enough.
LEMMA PickFits ==
    ASSUME HeapTypeOK, NEW s \in Nat, Pick(s) # NULL
    PROVE  Pick(s) \in DOMAIN heap /\ heap[Pick(s)].free /\ heap[Pick(s)].size >= s
<1>1. Fits(s) # {} /\ Pick(s) = Min(Fits(s))
  BY DEF Pick
<1>2. Fits(s) \in SUBSET Nat
  BY HeapAssumption DEF HeapTypeOK, Fits
<1>3. Min(Fits(s)) \in Fits(s)
  BY <1>1, <1>2, MinIsLeast
<1> QED BY <1>1, <1>3 DEF Fits

\* Taking a free block preserves the invariant.
LEMMA TakeInv ==
    ASSUME HeapInv,
           NEW b \in DOMAIN heap, heap[b].free,
           NEW n \in Requests, NEW s \in Nat, s >= n, heap[b].size >= s,
           heap' = Take(b, s),
           live' = [q \in DOMAIN live \cup {b + HeaderSize} |->
                      IF q = b + HeaderSize THEN n ELSE live[q]]
    PROVE  HeapInv'
<1> USE HeapAssumption
<1>a. /\ DOMAIN heap \subseteq Nat
      /\ \A x \in DOMAIN heap :
          /\ x \in Nat /\ Start <= x /\ x <= End
          /\ heap[x].size \in Nat /\ heap[x].next \in Nat
          /\ heap[x].free \in BOOLEAN /\ heap[x].magic
          /\ heap[x] = [size |-> heap[x].size, next |-> heap[x].next,
                        free |-> heap[x].free, magic |-> heap[x].magic]
  BY DEF HeapInv, HeapTypeOK, MagicIntact
<1>l. /\ DOMAIN live' = DOMAIN live \cup {b + 16}
      /\ live'[b + 16] = n
      /\ \A q \in DOMAIN live : q # b + 16 => live'[q] = live[q]
      /\ live' = [p \in DOMAIN live' |-> live'[p]]
  OBVIOUS
<1>m. \A p \in DOMAIN live : p # b + 16
  BY <1>a DEF HeapInv, CallersOwnBlocks, HeapTypeOK
<1>1. CASE heap[b].size >= s + HeaderSize + Alignment
  <2> DEFINE rest == b + 16 + s
  <2>1. /\ DOMAIN heap' = DOMAIN heap \cup {rest}
        /\ heap' = [x \in DOMAIN heap' |-> heap'[x]]
    BY <1>1 DEF Take
  <2>2. rest \notin DOMAIN heap /\ rest # b /\ rest \in Nat
    BY <1>1, <1>a DEF HeapInv, Tiled, Finish
  <2>3. /\ heap'[b] = Header(s, rest, FALSE)
        /\ heap'[rest] = Header(heap[b].size - s - 16, heap[b].next, TRUE)
        /\ \A x \in DOMAIN heap : x # b => heap'[x] = heap[x]
    BY <1>1, <2>2 DEF Take
  <2>4. /\ heap'[b].size = s /\ heap'[b].next = rest
        /\ heap'[b].free = FALSE /\ heap'[b].magic = TRUE
        /\ heap'[rest].size = heap[b].size - s - 16 /\ heap'[rest].next = heap[b].next
        /\ heap'[rest].free = TRUE /\ heap'[rest].magic = TRUE
    BY <2>3 DEF Header
  <2>5. b + 16 + heap[b].size <= End
    BY <1>a DEF HeapInv, Tiled, Finish
  <2>6. HeapTypeOK'
    <3>1. Start \in DOMAIN heap' /\ DOMAIN heap' \subseteq Start .. End
      BY <1>1, <1>a, <2>1, <2>5 DEF HeapInv, HeapTypeOK
    <3>2. ASSUME NEW x \in DOMAIN heap'
          PROVE  heap'[x] \in [size : Nat, next : Nat, free : BOOLEAN, magic : BOOLEAN]
      <4>1. CASE x = b
        BY <4>1, <2>2, <2>3 DEF Header
      <4>2. CASE x = rest
        BY <4>2, <2>3, <1>1, <1>a DEF Header
      <4>3. CASE x # b /\ x # rest
        BY <4>3, <2>1, <2>3 DEF HeapInv, HeapTypeOK
      <4> QED BY <4>1, <4>2, <4>3
    <3>3. \A p \in DOMAIN live' : p \in Nat /\ live'[p] \in Requests
      BY <1>l, <1>a DEF HeapInv, HeapTypeOK
    <3> QED BY <3>1, <3>2, <3>3, <2>1, <1>l DEF HeapTypeOK
  <2>7. Tiled'
    <3>f. /\ Finish(b)' = rest
          /\ Finish(rest)' = Finish(b)
          /\ \A x \in DOMAIN heap : x # b => Finish(x)' = Finish(x)
      <4>1. Finish(b)' = b + 16 + heap'[b].size /\ Finish(b) = b + 16 + heap[b].size
        BY DEF Finish
      <4>2. Finish(rest)' = rest + 16 + heap'[rest].size
        BY DEF Finish
      <4>3. \A x \in DOMAIN heap : x # b => Finish(x)' = Finish(x)
        BY <2>3 DEF Finish
      <4> QED BY <4>1, <4>2, <4>3, <2>4, <1>a
    <3>g. \A x \in DOMAIN heap : Finish(x) \in Nat /\ Finish(x) >= x + 16
      BY <1>a DEF Finish
    <3>1. ASSUME NEW x \in DOMAIN heap'
          PROVE  IF heap'[x].next = NULL THEN Finish(x)' = End
                 ELSE heap'[x].next \in DOMAIN heap' /\ heap'[x].next = Finish(x)'
      <4>1. CASE x = b
        BY <4>1, <2>1, <2>2, <2>4, <3>f, <1>a
      <4>2. CASE x = rest
        BY <4>2, <2>1, <2>4, <3>f DEF HeapInv, Tiled
      <4>3. CASE x # b /\ x # rest
        BY <4>3, <2>1, <2>3, <3>f DEF HeapInv, Tiled
      <4> QED BY <4>1, <4>2, <4>3
    <3>2. ASSUME NEW x \in DOMAIN heap', NEW y \in DOMAIN heap', x < y
          PROVE  Finish(x)' <= y
      <4>0. \A u, v \in DOMAIN heap : u < v => Finish(u) <= v
        BY DEF HeapInv, Tiled
      <4>b. rest > b /\ rest + 16 <= Finish(b)
        BY <1>1, <1>a DEF Finish
      <4>1. CASE x = b
        BY <4>1, <4>0, <4>b, <3>f, <3>2, <2>1, <2>2, <1>a, <3>g
      <4>2. CASE x = rest
        <5>1. y \in DOMAIN heap /\ y > b
          BY <4>2, <3>2, <2>1, <2>2, <4>b, <1>a
        <5> QED BY <5>1, <4>0, <4>2, <3>f
      <4>3. CASE x # b /\ x # rest /\ y = rest
        <5>1. x \in DOMAIN heap
          BY <4>3, <2>1
        <5>2. x < b
          <6>1. ~(b < x)
            BY <5>1, <4>0, <4>b, <4>3, <3>2, <1>a, <2>2, <3>g
          <6> QED BY <6>1, <5>1, <4>3, <1>a
        <5> QED BY <5>1, <5>2, <4>0, <4>b, <4>3, <3>f, <3>g, <1>a, <2>2
      <4>4. CASE x # b /\ x # rest /\ y # rest
        BY <4>4, <4>0, <3>f, <3>2, <2>1
      <4> QED BY <4>1, <4>2, <4>3, <4>4
    <3> QED BY <3>1, <3>2 DEF Tiled
  <2>8. MagicIntact'
    BY <2>1, <2>3, <2>4, <1>a DEF MagicIntact
  <2>9. CallersOwnBlocks'
    <3>1. ASSUME NEW p \in DOMAIN live'
          PROVE  /\ p - HeaderSize \in DOMAIN heap'
                 /\ ~heap'[p - HeaderSize].free
                 /\ heap'[p - HeaderSize].size >= live'[p]
      <4>1. CASE p = b + 16
        BY <4>1, <1>l, <1>a, <2>1, <2>4
      <4>2. CASE p # b + 16
        <5>1. p \in DOMAIN live /\ p - 16 \in DOMAIN heap /\ p - 16 # b
          BY <4>2, <1>l, <1>a DEF HeapInv, CallersOwnBlocks, HeapTypeOK
        <5> QED BY <5>1, <4>2, <1>l, <2>1, <2>3 DEF HeapInv, CallersOwnBlocks
      <4> QED BY <4>1, <4>2
    <3>2. ASSUME NEW x \in DOMAIN heap', ~heap'[x].free
          PROVE  x + HeaderSize \in DOMAIN live'
      BY <3>2, <1>l, <2>1, <2>3, <2>4 DEF HeapInv, CallersOwnBlocks
    <3> QED BY <3>1, <3>2 DEF CallersOwnBlocks
  <2>10. AllListed'
    <3> SUFFICES ASSUME NEW c \in DOMAIN heap' \ {Start}
                 PROVE  \E x \in DOMAIN heap' : heap'[x].next = c
      BY DEF AllListed
    <3>1. CASE c = rest
      BY <3>1, <2>1, <2>4
    <3>2. CASE c # rest
      <4>1. PICK x \in DOMAIN heap : heap[x].next = c
        BY <3>2, <2>1 DEF HeapInv, AllListed
      <4>2. CASE x = b
        BY <4>1, <4>2, <2>1, <2>4
      <4>3. CASE x # b
        BY <4>1, <4>3, <2>1, <2>3
      <4> QED BY <4>2, <4>3
    <3> QED BY <3>1, <3>2
  <2> QED BY <2>6, <2>7, <2>8, <2>9, <2>10 DEF HeapInv
<1>2. CASE ~(heap[b].size >= s + HeaderSize + Alignment)
  <2>1. heap' = [heap EXCEPT ![b].free = FALSE]
    BY <1>2 DEF Take
  <2>2. /\ DOMAIN heap' = DOMAIN heap
        /\ heap' = [x \in DOMAIN heap' |-> heap'[x]]
        /\ \A x \in DOMAIN heap : x # b => heap'[x] = heap[x]
        /\ heap'[b] = [heap[b] EXCEPT !.free = FALSE]
    BY <2>1 DEF HeapInv, HeapTypeOK
  <2>3. /\ \A x \in DOMAIN heap : /\ heap'[x].size = heap[x].size
                                  /\ heap'[x].next = heap[x].next
                                  /\ heap'[x].magic = heap[x].magic
        /\ heap'[b].free = FALSE
    BY <2>2, <1>a
  <2>4. HeapTypeOK'
    <3>1. \A x \in DOMAIN heap' :
            heap'[x] \in [size : Nat, next : Nat, free : BOOLEAN, magic : BOOLEAN]
      <4> SUFFICES ASSUME NEW x \in DOMAIN heap'
                   PROVE  heap'[x] \in [size : Nat, next : Nat, free : BOOLEAN,
                                        magic : BOOLEAN]
        OBVIOUS
      <4>1. CASE x # b
        BY <4>1, <2>2 DEF HeapInv, HeapTypeOK
      <4>2. CASE x = b
        <5>1. heap[b] \in [size : Nat, next : Nat, free : BOOLEAN, magic : BOOLEAN]
          BY DEF HeapInv, HeapTypeOK
        <5> QED BY <4>2, <5>1, <2>2
      <4> QED BY <4>1, <4>2
    <3>2. \A p \in DOMAIN live' : p \in Nat /\ live'[p] \in Requests
      BY <1>l, <1>a DEF HeapInv, HeapTypeOK
    <3> QED BY <3>1, <3>2, <2>2, <1>l DEF HeapInv, HeapTypeOK
  <2>5. Tiled'
    BY <2>2, <2>3 DEF HeapInv, Tiled, Finish
  <2>6. MagicIntact' /\ AllListed'
    BY <2>2, <2>3 DEF HeapInv, MagicIntact, AllListed
  <2>7. CallersOwnBlocks'
    <3>1. ASSUME NEW p \in DOMAIN live'
          PROVE  /\ p - HeaderSize \in DOMAIN heap'
                 /\ ~heap'[p - HeaderSize].free
                 /\ heap'[p - HeaderSize].size >= live'[p]
      <4>1. CASE p = b + 16
        BY <4>1, <1>l, <1>a, <2>2, <2>3
      <4>2. CASE p # b + 16
        <5>1. p \in DOMAIN live /\ p - 16 \in DOMAIN heap /\ p - 16 # b
          BY <4>2, <1>l, <1>a DEF HeapInv, CallersOwnBlocks, HeapTypeOK
        <5> QED BY <5>1, <4>2, <1>l, <2>2 DEF HeapInv, CallersOwnBlocks
      <4> QED BY <4>1, <4>2
    <3>2. ASSUME NEW x \in DOMAIN heap', ~heap'[x].free
          PROVE  x + HeaderSize \in DOMAIN live'
      BY <3>2, <1>l, <2>2 DEF HeapInv, CallersOwnBlocks
    <3> QED BY <3>1, <3>2 DEF CallersOwnBlocks
  <2> QED BY <2>4, <2>5, <2>6, <2>7 DEF HeapInv
<1> QED BY <1>1, <1>2

\* Releasing a block in use preserves the invariant.
LEMMA JoinInv ==
    ASSUME HeapInv,
           NEW p \in DOMAIN live,
           heap' = Join(p - HeaderSize),
           live' = [q \in DOMAIN live \ {p} |-> live[q]]
    PROVE  HeapInv'
<1> USE HeapAssumption
<1> DEFINE b == p - 16
<1>a. /\ DOMAIN heap \subseteq Nat
      /\ \A x \in DOMAIN heap :
          /\ x \in Nat /\ Start <= x /\ x <= End
          /\ heap[x].size \in Nat /\ heap[x].next \in Nat
          /\ heap[x].free \in BOOLEAN /\ heap[x].magic
  BY DEF HeapInv, HeapTypeOK, MagicIntact
<1>b. p \in Nat /\ b \in DOMAIN heap /\ p = b + 16 /\ ~heap[b].free
  BY <1>a DEF HeapInv, HeapTypeOK, CallersOwnBlocks
<1>l. /\ DOMAIN live' = DOMAIN live \ {p}
      /\ \A q \in DOMAIN live' : live'[q] = live[q]
      /\ live' = [q \in DOMAIN live' |-> live'[q]]
      /\ \A q \in DOMAIN live' : q \in Nat /\ live'[q] \in Requests
  BY DEF HeapInv, HeapTypeOK
<1>t. /\ \A x \in DOMAIN heap :
            IF heap[x].next = NULL THEN Finish(x) = End
            ELSE heap[x].next \in DOMAIN heap /\ heap[x].next = Finish(x)
      /\ \A x, y \in DOMAIN heap : x < y => Finish(x) <= y
      /\ \A x \in DOMAIN heap : Finish(x) = x + 16 + heap[x].size
  BY DEF HeapInv, Tiled, Finish
<1>o. \A q \in DOMAIN live' : /\ q \in DOMAIN live /\ q # p
                               /\ q - 16 \in DOMAIN heap /\ q - 16 # b
                               /\ ~heap[q - 16].free
                               /\ heap[q - 16].size >= live'[q]
  BY <1>l, <1>b DEF HeapInv, CallersOwnBlocks, HeapTypeOK
<1>u. \A x \in DOMAIN heap : ~heap[x].free /\ x # b => x + 16 \in DOMAIN live'
  BY <1>a, <1>b, <1>l DEF HeapInv, CallersOwnBlocks
<1> HIDE DEF b
<1>1. CASE heap[b].next # NULL /\ heap[heap[b].next].free
  <2> DEFINE c == heap[b].next
  <2>1. c \in DOMAIN heap /\ c = b + 16 + heap[b].size /\ c # b
    BY <1>1, <1>a, <1>b, <1>t
  <2>2. heap' = [x \in DOMAIN heap \ {c} |->
                   IF x = b
                   THEN [heap[b] EXCEPT !.size = @ + 16 + heap[c].size,
                                        !.next = heap[c].next, !.free = TRUE]
                   ELSE heap[x]]
    BY <1>1 DEF Join, b
  <2> HIDE DEF c
  <2>3. /\ DOMAIN heap' = DOMAIN heap \ {c}
        /\ heap' = [x \in DOMAIN heap' |-> heap'[x]]
        /\ \A x \in DOMAIN heap' : x # b => heap'[x] = heap[x]
        /\ heap'[b] = [heap[b] EXCEPT !.size = @ + 16 + heap[c].size,
                                     !.next = heap[c].next, !.free = TRUE]
    BY <2>1, <2>2, <1>b
  <2>h. heap[b] \in [size : Nat, next : Nat, free : BOOLEAN, magic : BOOLEAN]
    BY <1>b DEF HeapInv, HeapTypeOK
  <2>4. /\ heap'[b].size = heap[b].size + 16 + heap[c].size
        /\ heap'[b].next = heap[c].next
        /\ heap'[b].free = TRUE /\ heap'[b].magic = heap[b].magic
        /\ heap'[b] \in [size : Nat, next : Nat, free : BOOLEAN, magic : BOOLEAN]
    <3>1. heap[c].size \in Nat /\ heap[c].next \in Nat
      BY <2>1, <1>a
    <3> DEFINE h == heap[b]
               m == heap[c].size
               k == heap[c].next
    <3>2. heap'[b] = [h EXCEPT !.size = @ + 16 + m, !.next = k, !.free = TRUE]
      BY <2>3
    <3>3. h \in [size : Nat, next : Nat, free : BOOLEAN, magic : BOOLEAN]
      BY <2>h
    <3>4. m \in Nat /\ k \in Nat
      BY <3>1
    <3> HIDE DEF h, m, k
    <3>5. heap'[b] = [size |-> h.size + 16 + m, next |-> k, free |-> TRUE,
                      magic |-> h.magic]
      BY <3>2, <3>3
    <3>6. h.size \in Nat /\ h.magic \in BOOLEAN
      BY <3>3
    <3>7. /\ heap'[b].size = h.size + 16 + m /\ heap'[b].next = k
          /\ heap'[b].free = TRUE /\ heap'[b].magic = h.magic
      BY <3>5
    <3>8. h.size + 16 + m \in Nat
      BY <3>4, <3>6
    <3>9. ASSUME NEW z \in Nat, NEW g \in BOOLEAN
          PROVE  [size |-> z, next |-> k, free |-> TRUE, magic |-> g]
                   \in [size : Nat, next : Nat, free : BOOLEAN, magic : BOOLEAN]
      BY <3>4
    <3>10. heap'[b] \in [size : Nat, next : Nat, free : BOOLEAN, magic : BOOLEAN]
      BY <3>5, <3>6, <3>8, <3>9
    <3> QED BY <3>7, <3>10 DEF h, m, k
  <2>5. HeapTypeOK'
    <3>1. Start \in DOMAIN heap' /\ DOMAIN heap' \subseteq Start .. End
      BY <2>1, <2>3, <1>a, <1>b DEF HeapInv, HeapTypeOK
    <3>2. ASSUME NEW x \in DOMAIN heap'
          PROVE  heap'[x] \in [size : Nat, next : Nat, free : BOOLEAN, magic : BOOLEAN]
      BY <2>3, <2>4 DEF HeapInv, HeapTypeOK
    <3> QED BY <3>1, <3>2, <2>3, <1>l DEF HeapTypeOK
  <2>6. Tiled'
    <3>f. /\ Finish(b)' = Finish(c)
          /\ \A x \in DOMAIN heap' : x # b => Finish(x)' = Finish(x)
      <4>1. Finish(b)' = b + 16 + heap'[b].size
        BY DEF Finish
      <4>2. Finish(c) = c + 16 + heap[c].size
        BY DEF Finish
      <4>3. \A x \in DOMAIN heap' : x # b => Finish(x)' = Finish(x)
        BY <2>3 DEF Finish
      <4> QED BY <4>1, <4>2, <4>3, <2>1, <2>4, <1>a, <1>b
    <3>1. ASSUME NEW x \in DOMAIN heap'
          PROVE  IF heap'[x].next = NULL THEN Finish(x)' = End
                 ELSE heap'[x].next \in DOMAIN heap' /\ heap'[x].next = Finish(x)'
      <4>1. CASE x = b
        <5>1. heap[c].next # c
          BY <2>1, <1>a, <1>t
        <5> QED BY <4>1, <5>1, <2>1, <2>3, <2>4, <3>f, <1>t
      <4>2. CASE x # b
        <5>1. x \in DOMAIN heap /\ heap'[x] = heap[x]
          BY <4>2, <2>3
        <5>2. heap[x].next # c
          <6> SUFFICES ASSUME heap[x].next = c PROVE FALSE
            OBVIOUS
          <6>1. Finish(x) = Finish(b)
            BY <5>1, <1>t, <1>a, <1>b, <2>1
          <6>2. x + 16 <= Finish(x) /\ b + 16 <= Finish(b)
            BY <5>1, <1>t, <1>a, <1>b
          <6>3. x < b \/ b < x
            BY <4>2, <5>1, <1>a, <1>b
          <6> QED BY <6>1, <6>2, <6>3, <5>1, <1>t, <1>a, <1>b
        <5> QED BY <4>2, <5>1, <5>2, <3>f, <1>t, <2>3
      <4> QED BY <4>1, <4>2
    <3>2. ASSUME NEW x \in DOMAIN heap', NEW y \in DOMAIN heap', x < y
          PROVE  Finish(x)' <= y
      <4>0. x \in DOMAIN heap /\ y \in DOMAIN heap /\ y # c /\ x \in Nat /\ y \in Nat
        BY <2>3, <1>a
      <4>1. CASE x = b
        <5>1. y > c
          BY <4>0, <4>1, <3>2, <1>t, <1>b, <1>a, <2>1
        <5> QED BY <5>1, <4>0, <4>1, <3>f, <1>t, <2>1
      <4>2. CASE x # b
        BY <4>0, <4>2, <3>2, <3>f, <1>t
      <4> QED BY <4>1, <4>2
    <3> QED BY <3>1, <3>2 DEF Tiled
  <2>7. MagicIntact'
    BY <2>3, <2>4, <1>a, <1>b DEF MagicIntact
  <2>8. CallersOwnBlocks'
    <3>1. ASSUME NEW q \in DOMAIN live'
          PROVE  /\ q - HeaderSize \in DOMAIN heap'
                 /\ ~heap'[q - HeaderSize].free
                 /\ heap'[q - HeaderSize].size >= live'[q]
      <4>1. q - 16 # c
        BY <1>1, <1>o DEF c
      <4> QED BY <4>1, <1>o, <2>3
    <3>2. ASSUME NEW x \in DOMAIN heap', ~heap'[x].free
          PROVE  x + HeaderSize \in DOMAIN live'
      <4>1. x # b
        BY <3>2, <2>4
      <4> QED BY <3>2, <4>1, <2>3, <1>u
    <3> QED BY <3>1, <3>2 DEF CallersOwnBlocks
  <2>9. AllListed'
    <3> SUFFICES ASSUME NEW d \in DOMAIN heap' \ {Start}
                 PROVE  \E x \in DOMAIN heap' : heap'[x].next = d
      BY DEF AllListed
    <3>1. PICK x \in DOMAIN heap : heap[x].next = d
      BY <2>3 DEF HeapInv, AllListed
    <3>2. CASE x = c
      BY <3>1, <3>2, <2>1, <2>3, <2>4, <1>b
    <3>3. CASE x # c
      <4>1. x # b
        BY <3>1, <2>3 DEF c
      <4> QED BY <3>1, <3>3, <4>1, <2>3
    <3> QED BY <3>2, <3>3
  <2> QED BY <2>5, <2>6, <2>7, <2>8, <2>9 DEF HeapInv
<1>2. CASE ~(heap[b].next # NULL /\ heap[heap[b].next].free)
  <2>1. heap' = [heap EXCEPT ![b].free = TRUE]
    BY <1>2 DEF Join, b
  <2>h. heap[b] \in [size : Nat, next : Nat, free : BOOLEAN, magic : BOOLEAN]
    BY <1>b DEF HeapInv, HeapTypeOK
  <2>2. /\ DOMAIN heap' = DOMAIN heap
        /\ heap' = [x \in DOMAIN heap' |-> heap'[x]]
        /\ \A x \in DOMAIN heap : x # b => heap'[x] = heap[x]
        /\ heap'[b] = [heap[b] EXCEPT !.free = TRUE]
    BY <2>1, <1>b DEF HeapInv, HeapTypeOK
  <2>3. /\ heap'[b] \in [size : Nat, next : Nat, free : BOOLEAN, magic : BOOLEAN]
        /\ heap'[b].free = TRUE
        /\ heap'[b].size = heap[b].size /\ heap'[b].next = heap[b].next
        /\ heap'[b].magic = heap[b].magic
    BY <2>2, <2>h
  <2>4. HeapTypeOK'
    <3>1. ASSUME NEW x \in DOMAIN heap'
          PROVE  heap'[x] \in [size : Nat, next : Nat, free : BOOLEAN, magic : BOOLEAN]
      BY <2>2, <2>3 DEF HeapInv, HeapTypeOK
    <3> QED BY <3>1, <2>2, <1>l DEF HeapInv, HeapTypeOK
  <2>5. \A x \in DOMAIN heap : /\ heap'[x].size = heap[x].size
                                /\ heap'[x].next = heap[x].next
                                /\ heap'[x].magic = heap[x].magic
    BY <2>2, <2>3
  <2>6. Tiled'
    BY <2>2, <2>5 DEF HeapInv, Tiled, Finish
  <2>7. MagicIntact' /\ AllListed'
    BY <2>2, <2>5 DEF HeapInv, MagicIntact, AllListed
  <2>8. CallersOwnBlocks'
    BY <2>2, <2>3, <1>o, <1>u DEF CallersOwnBlocks
  <2> QED BY <2>4, <2>6, <2>7, <2>8 DEF HeapInv
<1> QED BY <1>1, <1>2

-----------------------------------------------------------------------------
\* The invariant of the list and of the pointers handed out.
THEOREM HeapInvariant == HeapSpec => []HeapInv
<1>1. HeapInit => HeapInv
  <2> SUFFICES ASSUME HeapInit PROVE HeapInv
    OBVIOUS
  <2>1. /\ DOMAIN heap = {Start} /\ heap = [b \in DOMAIN heap |-> heap[b]]
        /\ heap[Start] = Header(End - Start - 16, 0, TRUE)
        /\ live = <<>>
    BY DEF HeapInit, mem_init
  <2>2. DOMAIN live = {} /\ live = [p \in DOMAIN live |-> live[p]]
    BY <2>1
  <2>3. End - Start - 16 \in Nat
    BY HeapAssumption
  <2>4. HeapTypeOK
    <3>1. Start \in Start .. End
      BY HeapAssumption
    <3>2. Header(End - Start - 16, 0, TRUE)
            \in [size : Nat, next : Nat, free : BOOLEAN, magic : BOOLEAN]
      BY <2>3 DEF Header
    <3>3. \A b \in DOMAIN heap :
            heap[b] \in [size : Nat, next : Nat, free : BOOLEAN, magic : BOOLEAN]
      BY <2>1, <3>2
    <3> QED BY <2>1, <2>2, <3>1, <3>3 DEF HeapTypeOK
  <2>5. Tiled
    BY <2>1, <2>3, HeapAssumption DEF Tiled, Finish, Header
  <2>6. MagicIntact /\ CallersOwnBlocks /\ AllListed
    BY <2>1, <2>2 DEF MagicIntact, CallersOwnBlocks, AllListed, Header
  <2> QED BY <2>4, <2>5, <2>6 DEF HeapInv
<1>2. HeapInv /\ [HeapNext]_heapVars => HeapInv'
  <2> SUFFICES ASSUME HeapInv, [HeapNext]_heapVars PROVE HeapInv'
    OBVIOUS
  <2>1. ASSUME NEW n \in Requests, kmalloc(n) PROVE HeapInv'
    <3>1. align_up(n) \in Nat /\ align_up(n) >= n
      BY AlignUpGrows
    <3>2. Pick(align_up(n)) # NULL
      BY <2>1 DEF kmalloc
    <3>3. /\ Pick(align_up(n)) \in DOMAIN heap
          /\ heap[Pick(align_up(n))].free
          /\ heap[Pick(align_up(n))].size >= align_up(n)
      BY <3>1, <3>2, PickFits DEF HeapInv
    <3>4. /\ heap' = Take(Pick(align_up(n)), align_up(n))
          /\ live' = [q \in DOMAIN live \cup {Pick(align_up(n)) + HeaderSize} |->
                        IF q = Pick(align_up(n)) + HeaderSize THEN n ELSE live[q]]
      BY <2>1 DEF kmalloc
    <3> QED BY <3>1, <3>3, <3>4, TakeInv
  <2>2. ASSUME NEW p \in DOMAIN live, kfree(p) PROVE HeapInv'
    BY <2>2, JoinInv DEF kfree
  <2>3. CASE UNCHANGED heapVars
    BY <2>3 DEF heapVars, HeapInv, HeapTypeOK, Tiled, Finish, MagicIntact,
                CallersOwnBlocks, AllListed
  <2> QED BY <2>1, <2>2, <2>3 DEF HeapNext
<1> QED BY <1>1, <1>2, PTL DEF HeapSpec

\* Splitting in kmalloc and joining in kfree keep the blocks end to end and
\* listed, and the blocks in use are the ones callers hold, large enough for them.
THEOREM HeapStaysSound == HeapSpec => []HeapSound
<1>1. HeapInv => HeapSound
  BY DEF HeapInv, HeapSound
<1> QED BY <1>1, HeapInvariant, PTL

\* What the tiling means for callers: their bytes are theirs alone.
LEMMA OwnersDisjoint ==
    ASSUME HeapInv
    PROVE  AllocationsDisjoint
<1> USE HeapAssumption
<1>a. \A x \in DOMAIN heap :
        /\ x \in Nat /\ heap[x].size \in Nat
        /\ Finish(x) = x + 16 + heap[x].size /\ Finish(x) <= End
  BY DEF HeapInv, HeapTypeOK, Tiled, Finish
<1>b. \A x, y \in DOMAIN heap : x < y => Finish(x) <= y
  BY DEF HeapInv, Tiled
<1> SUFFICES ASSUME NEW p \in DOMAIN live
             PROVE  /\ p + live[p] <= End
                    /\ \A b \in DOMAIN heap :
                        b # p - HeaderSize => p + live[p] <= b \/ b + HeaderSize <= p
                    /\ \A q \in DOMAIN live : p < q => p + live[p] <= q
  BY DEF AllocationsDisjoint
<1>1. /\ p \in Nat /\ live[p] \in Nat /\ p - 16 \in DOMAIN heap
      /\ p + live[p] <= Finish(p - 16)
  BY <1>a DEF HeapInv, HeapTypeOK, CallersOwnBlocks
<1>2. p + live[p] <= End
  BY <1>1, <1>a
<1>3. ASSUME NEW b \in DOMAIN heap, b # p - 16
      PROVE  p + live[p] <= b \/ b + 16 <= p
  <2>1. CASE p - 16 < b
    BY <2>1, <1>1, <1>a, <1>b
  <2>2. CASE b < p - 16
    BY <2>2, <1>1, <1>a, <1>b
  <2> QED BY <2>1, <2>2, <1>3, <1>1, <1>a
<1>4. ASSUME NEW q \in DOMAIN live, p < q
      PROVE  p + live[p] <= q
  <2>1. q \in Nat /\ q - 16 \in DOMAIN heap
    BY DEF HeapInv, HeapTypeOK, CallersOwnBlocks
  <2>2. p - 16 < q - 16
    BY <1>4, <1>1, <2>1
  <2> QED BY <2>1, <2>2, <1>1, <1>a, <1>b
<1> QED BY <1>2, <1>3, <1>4

\* No two callers of kmalloc share a byte, and none has a byte of a header.
THEOREM CallersDisjoint == HeapSpec => []AllocationsDisjoint
<1>1. HeapInv => AllocationsDisjoint
  BY OwnersDisjoint
<1> QED BY <1>1, HeapInvariant, PTL

\* kmalloc and kfree implement the allocator: a step of the heap is an Alloc,
\* a Release or a stutter.
THEOREM HeapImplementsAllocator == HeapSpec => ImplementsAllocator
<1>1. HeapInit => A!AllocInit
  BY DEF HeapInit, A!AllocInit
<1>2. HeapInv /\ AllocationsDisjoint' /\ [HeapNext]_heapVars => [A!AllocNext]_live
  <2> SUFFICES ASSUME HeapInv, AllocationsDisjoint', [HeapNext]_heapVars
               PROVE  [A!AllocNext]_live
    OBVIOUS
  <2> USE HeapAssumption
  <2>1. ASSUME NEW n \in Requests, kmalloc(n) PROVE A!AllocNext
    <3> DEFINE b == Pick(align_up(n))
               p == b + 16
    <3>1. b \in DOMAIN heap /\ heap[b].free
      <4>1. align_up(n) \in Nat /\ b # NULL
        BY <2>1, AlignUpGrows DEF kmalloc
      <4> QED BY <4>1, PickFits DEF HeapInv
    <3>2. live' = [q \in DOMAIN live \cup {p} |-> IF q = p THEN n ELSE live[q]]
      BY <2>1 DEF kmalloc
    <3> HIDE DEF b
    <3>3. p \in Nat /\ n \in Nat /\ Start <= p
      BY <3>1 DEF HeapInv, HeapTypeOK
    <3>4. p \notin DOMAIN live
      BY <3>1, <3>3 DEF HeapInv, HeapTypeOK, CallersOwnBlocks
    <3>5. DOMAIN live' = DOMAIN live \cup {p} /\ live'[p] = n
          /\ \A q \in DOMAIN live : live'[q] = live[q]
      BY <3>2, <3>4
    <3> HIDE DEF p
    <3>6. /\ p + n <= End
          /\ \A q \in DOMAIN live' : p < q => p + n <= q
          /\ \A q \in DOMAIN live' : q < p => q + live'[q] <= p
      BY <3>5 DEF AllocationsDisjoint
    <3>7. \A q \in DOMAIN live : q \in Nat /\ live[q] \in Nat
      BY DEF HeapInv, HeapTypeOK
    <3>8. A!Vacant(p, n)
      BY <3>3, <3>4, <3>5, <3>6, <3>7 DEF A!Vacant
    <3>9. A!Alloc(p, n)
      BY <3>2, <3>3, <3>4, <3>6, <3>8 DEF A!Alloc
    <3>10. p \in Start .. End
      BY <3>3, <3>6
    <3> QED BY <3>9, <3>10 DEF A!AllocNext
  <2>2. ASSUME NEW p \in DOMAIN live, kfree(p) PROVE A!AllocNext
    BY <2>2 DEF kfree, A!AllocNext, A!Release
  <2>3. CASE UNCHANGED heapVars
    BY <2>3 DEF heapVars
  <2> QED BY <2>1, <2>2, <2>3 DEF HeapNext
<1> QED BY <1>1, <1>2, HeapInvariant, CallersDisjoint, PTL
        DEF HeapSpec, ImplementsAllocator, A!AllocSpec

-----------------------------------------------------------------------------
(* Accounts and the session *)

SetUp == {"root", "user", "group"}

\* The account table: typed, one root in slot 0, names in the slots in use; and
\* no slot but the first, in use or left behind by userdel, has ever held root.
AccountsInv ==
    /\ users \in [Slots -> [username : Accounts \cup {""},
                            is_root : BOOLEAN, in_sudo : BOOLEAN]]
    /\ user_count \in 0 .. MaxUsers
    /\ OneRoot
    /\ \A i \in Slots : users[i].is_root => i = 0
    /\ \A i \in Used : users[i].username \in Accounts

\* The stack: shell_run is at its bottom, unless the system is halted, and a
\* question of the set-up has the shell_init that asked it right below.
StackInv(s) ==
    /\ s \in Seq(Calls) /\ Len(s) > 0
    /\ s[1].at \in {"run", "halted"}
    /\ \A k \in 2 .. Len(s) : /\ s[k].at # "halted"
                              /\ s[k].at \in SetUp => s[k - 1].at = "init"

\* Some set-up, nested or not, has got past its first question.
PastRoot(s) == \E k \in 1 .. Len(s) : s[k].at \in {"user", "group"}

\* The types of what is neither the table nor the stack.
RestType ==
    /\ current_user \in -1 .. MaxUsers - 1
    /\ sudo_elevated \in BOOLEAN /\ first_boot \in BOOLEAN /\ logged_in \in BOOLEAN
    /\ current_tty \in Ttys
    /\ who \in Accounts \cup {"nobody"}
    /\ proved \in BOOLEAN /\ sudo_shell \in BOOLEAN

\* Whoever is logged in, and whoever set the system up, has an account: root's
\* was made before.
HasRoot == user_count > 0

RootBeforeUse == logged_in \/ PastRoot(stack) => HasRoot

\* Slot 0 is root's, and nobody is root without a proof.
RootProved == sudo_elevated \/ current_user = 0 => proved

\* The inductive invariant.
SessionInv ==
    /\ AccountsInv
    /\ StackInv(stack)
    /\ RestType
    /\ ShellNeverEnds
    /\ RootBeforeUse
    /\ RootProved

-----------------------------------------------------------------------------
\* Returning from a call uncovers the one below it.
LEMMA PopStack ==
    ASSUME NEW s, StackInv(s), Len(s) > 1
    PROVE  /\ StackInv(Front(s)) /\ Last(Front(s)) = s[Len(s) - 1]
           /\ PastRoot(Front(s)) => PastRoot(s)
<1>1. s \in Seq(Calls) /\ Len(s) \in Nat /\ \A k \in 1 .. Len(s) : s[k] \in Calls
  BY DEF StackInv
<1>2. /\ Front(s) \in Seq(Calls) /\ Len(Front(s)) = Len(s) - 1
      /\ \A k \in 1 .. Len(s) - 1 : Front(s)[k] = s[k]
  <2>1. \A k \in 1 .. Len(s) - 1 : s[k] \in Calls
    BY <1>1
  <2> QED BY <1>1, <2>1, SubSeqProperties, Z3 DEF Front
<1> QED BY <1>1, <1>2 DEF StackInv, PastRoot, Last

\* Calling: a call that is not a question of the set-up may be made by any.
LEMMA PushStack ==
    ASSUME NEW s, StackInv(s), NEW c \in Calls, c.at # "halted",
           c.at \in SetUp => Last(s).at = "init"
    PROVE  /\ StackInv(Append(s, c)) /\ Last(Append(s, c)) = c
           /\ PastRoot(Append(s, c)) => PastRoot(s) \/ c.at \in {"user", "group"}
<1>1. s \in Seq(Calls) /\ Len(s) \in Nat /\ \A k \in 1 .. Len(s) : s[k] \in Calls
  BY DEF StackInv
<1>2. /\ Append(s, c) \in Seq(Calls) /\ Len(Append(s, c)) = Len(s) + 1
      /\ \A k \in 1 .. Len(s) : Append(s, c)[k] = s[k]
      /\ Append(s, c)[Len(s) + 1] = c
  BY <1>1
<1> QED BY <1>1, <1>2 DEF StackInv, PastRoot, Last

\* Going on within a call: the one below it stays.
LEMMA SwapStack ==
    ASSUME NEW s, StackInv(s), Len(s) > 1, NEW c \in Calls, c.at # "halted",
           c.at \in SetUp => Last(s).at \in SetUp
    PROVE  /\ StackInv(Append(Front(s), c)) /\ Last(Append(Front(s), c)) = c
           /\ PastRoot(Append(Front(s), c)) => PastRoot(s) \/ c.at \in {"user", "group"}
<1>1. /\ StackInv(Front(s)) /\ Last(Front(s)) = s[Len(s) - 1]
      /\ PastRoot(Front(s)) => PastRoot(s)
  BY PopStack
<1>2. c.at \in SetUp => Last(Front(s)).at = "init"
  BY <1>1 DEF StackInv, Last
<1> QED BY <1>1, <1>2, PushStack

-----------------------------------------------------------------------------
\* user_add: the first account is root, every later one is not and has a name
\* of its own.
LEMMA AddAccount ==
    ASSUME AccountsInv, NEW name \in Accounts, NEW root \in BOOLEAN, NEW sudo \in BOOLEAN,
           CanAdd(name), user_add(name, root, sudo),
           root <=> user_count = 0, root => name = "root"
    PROVE  AccountsInv' /\ user_count' > 0
<1> DEFINE u == User(name, root, sudo)
<1>1. /\ user_count \in Slots /\ user_count \in Nat /\ user_count' = user_count + 1
      /\ MaxUsers \in Nat /\ user_count < MaxUsers
  <2>1. user_count \in 0 .. MaxUsers /\ user_count < MaxUsers /\ user_count' = user_count + 1
    BY DEF AccountsInv, CanAdd, user_add
  <2> QED BY <2>1, SessionAssumption DEF Slots
<1>2. /\ u \in [username : Accounts \cup {""}, is_root : BOOLEAN, in_sudo : BOOLEAN]
      /\ u.username = name /\ u.is_root = root
  BY DEF User
<1> HIDE DEF u
<1>3. users' = [users EXCEPT ![user_count] = u]
  BY DEF user_add, u
<1>4. users' \in [Slots -> [username : Accounts \cup {""}, is_root : BOOLEAN, in_sudo : BOOLEAN]]
  BY <1>1, <1>2, <1>3 DEF AccountsInv
<1>5. users'[user_count] = u /\ \A i \in Slots : i # user_count => users'[i] = users[i]
  BY <1>1, <1>3 DEF AccountsInv
<1>6. /\ Used = 0 .. user_count - 1 /\ Used' = Used \cup {user_count}
      /\ Used \subseteq Slots /\ user_count \notin Used
  BY <1>1 DEF Used, Slots
<1>7. \A i \in Used : users[i].username # name
  BY DEF CanAdd, Known
<1>8. OneRoot'
  <2>0. /\ \A k, l \in Used : users[k].username = users[l].username => k = l
        /\ user_count > 0 => users[0].username = "root"
    BY DEF AccountsInv, OneRoot
  <2>1. \A i \in Used' : users'[i].is_root <=> i = 0
    BY <1>1, <1>2, <1>5, <1>6 DEF AccountsInv, OneRoot
  <2>2. \A i, j \in Used' : users'[i].username = users'[j].username => i = j
    <3>1. u.username = name
      BY <1>2
    <3> QED BY <2>0, <3>1, <1>1, <1>5, <1>6, <1>7
  <2>3. users'[0].username = "root"
    <3>1. CASE user_count = 0
      BY <3>1, <1>2, <1>5
    <3>2. CASE user_count > 0
      <4>1. 0 \in Slots /\ 0 # user_count
        BY <3>2, <1>1 DEF Slots
      <4> QED BY <3>2, <4>1, <1>5 DEF AccountsInv, OneRoot
    <3> QED BY <3>1, <3>2, <1>1
  <2> QED BY <2>1, <2>2, <2>3 DEF OneRoot
<1>9. \A i \in Slots : users'[i].is_root => i = 0
  BY <1>1, <1>2, <1>5 DEF AccountsInv
<1>10. \A i \in Used' : users'[i].username \in Accounts
  BY <1>2, <1>5, <1>6 DEF AccountsInv
<1>11. user_count' \in 0 .. MaxUsers /\ user_count' > 0
  BY <1>1
<1> QED BY <1>4, <1>8, <1>9, <1>10, <1>11 DEF AccountsInv

\* A known name has a slot in use.
LEMMA SlotInUse ==
    ASSUME AccountsInv, NEW name, Known(name)
    PROVE  SlotOf(name) \in Used
<1>1. PICK k \in Used : users[k].username = name
  BY DEF Known
<1>2. \A j \in 0 .. k - 1 : users[j].username # name
  <2>1. user_count \in Nat
    <3>1. user_count \in 0 .. MaxUsers
      BY DEF AccountsInv
    <3> QED BY <3>1, SessionAssumption
  <2>2. \A j \in 0 .. k - 1 : j \in Used /\ j # k
    BY <1>1, <2>1 DEF Used
  <2> QED BY <1>1, <2>2 DEF AccountsInv, OneRoot
<1> QED BY <1>1, <1>2 DEF SlotOf

\* user_del: the accounts behind the removed one move down, root stays.
LEMMA DeleteAccount ==
    ASSUME AccountsInv, NEW name, user_del(name)
    PROVE  AccountsInv' /\ user_count' > 0
<1> DEFINE i == SlotOf(name)
           Moved(k) == IF k >= i /\ k < user_count - 1 THEN k + 1 ELSE k
<1>1. user_count \in Nat /\ MaxUsers \in Nat /\ user_count <= MaxUsers
  <2>1. user_count \in 0 .. MaxUsers
    BY DEF AccountsInv
  <2> QED BY <2>1, SessionAssumption
<1>2. i \in Used
  BY SlotInUse DEF user_del
<1>3. i # 0
  BY <1>2 DEF user_del, AccountsInv, OneRoot
<1> HIDE DEF i
<1>4. /\ user_count' = user_count - 1 /\ user_count' > 0 /\ i \in 1 .. user_count - 1
      /\ Used' = 0 .. user_count - 2 /\ Used = 0 .. user_count - 1 /\ Used \subseteq Slots
  <2>1. user_count' = user_count - 1
    BY DEF user_del
  <2> QED BY <1>1, <1>2, <1>3, <2>1 DEF Used, Slots
<1>5. \A k \in Slots : Moved(k) \in Slots /\ (k # 0 => Moved(k) # 0)
  BY <1>1, <1>4 DEF Slots
<1>6. users' = [k \in Slots |-> users[Moved(k)]]
  <2>1. users' = [k \in Slots |->
                    IF k >= i /\ k < user_count - 1 THEN users[k + 1] ELSE users[k]]
    BY DEF user_del, i
  <2> QED BY <2>1
<1>7. \A k \in Used' : Moved(k) \in Used /\ (Moved(k) = 0 <=> k = 0)
  BY <1>1, <1>4
<1>8. \A k, l \in Used' : Moved(k) = Moved(l) => k = l
  BY <1>1, <1>4
<1>9. 0 \in Used' /\ Moved(0) = 0 /\ Used' \subseteq Slots
  BY <1>1, <1>4 DEF Slots
<1> HIDE DEF Moved
<1>10. users' \in [Slots -> [username : Accounts \cup {""}, is_root : BOOLEAN, in_sudo : BOOLEAN]]
  BY <1>5, <1>6 DEF AccountsInv
<1>11. OneRoot'
  <2>0. /\ \A k, l \in Used : users[k].username = users[l].username => k = l
        /\ user_count > 0 => users[0].username = "root"
    BY DEF AccountsInv, OneRoot
  <2>1. \A k \in Used' : users'[k].is_root <=> k = 0
    BY <1>6, <1>7, <1>9 DEF AccountsInv, OneRoot
  <2>2. \A k, l \in Used' : users'[k].username = users'[l].username => k = l
    BY <2>0, <1>6, <1>7, <1>8, <1>9
  <2>3. users'[0].username = "root"
    BY <2>0, <1>1, <1>4, <1>6, <1>9
  <2> QED BY <2>1, <2>2, <2>3 DEF OneRoot
<1>12. \A k \in Slots : users'[k].is_root => k = 0
  BY <1>5, <1>6 DEF AccountsInv
<1>13. \A k \in Used' : users'[k].username \in Accounts
  BY <1>6, <1>7, <1>9 DEF AccountsInv
<1>14. user_count' \in 0 .. MaxUsers
  BY <1>1, <1>4
<1> QED BY <1>4, <1>10, <1>11, <1>12, <1>13, <1>14 DEF AccountsInv

\* user_add_sudo changes one flag of one account.
LEMMA GroupAccount ==
    ASSUME AccountsInv, NEW name, user_add_sudo(name)
    PROVE  AccountsInv' /\ user_count' = user_count
<1>1. user_count' = user_count /\ Used' = Used
  BY DEF user_add_sudo, Used
<1>2. CASE ~Known(name)
  BY <1>1, <1>2 DEF user_add_sudo, AccountsInv, OneRoot
<1>3. CASE Known(name)
  <2>1. users' = [users EXCEPT ![SlotOf(name)].in_sudo = TRUE]
    BY <1>3 DEF user_add_sudo
  <2>2. /\ users' \in [Slots -> [username : Accounts \cup {""}, is_root : BOOLEAN, in_sudo : BOOLEAN]]
        /\ \A i \in Slots : /\ users'[i].username = users[i].username
                            /\ users'[i].is_root = users[i].is_root
    <3> DEFINE U == [username : Accounts \cup {""}, is_root : BOOLEAN, in_sudo : BOOLEAN]
               s == SlotOf(name)
    <3>1. users \in [Slots -> U]
      BY DEF AccountsInv
    <3>2. \A u \in U : LET v == [u EXCEPT !.in_sudo = TRUE]
                       IN  v \in U /\ v.username = u.username /\ v.is_root = u.is_root
      OBVIOUS
    <3>3. users' = [users EXCEPT ![s] = [users[s] EXCEPT !.in_sudo = TRUE]]
      BY <2>1
    <3> HIDE DEF U, s
    <3>4. \A i \in Slots : /\ users'[i] \in U
                           /\ users'[i].username = users[i].username
                           /\ users'[i].is_root = users[i].is_root
      BY <3>1, <3>2, <3>3
    <3>5. users' = [i \in Slots |-> users'[i]]
      BY <3>1, <3>3
    <3> QED BY <3>4, <3>5 DEF U
  <2>3. Used \subseteq Slots /\ (user_count > 0 => 0 \in Slots)
    <3>1. user_count \in 0 .. MaxUsers
      BY DEF AccountsInv
    <3> QED BY <3>1, SessionAssumption DEF Used, Slots
  <2>4. OneRoot'
    <3>1. /\ \A k, l \in Used : users[k].username = users[l].username => k = l
          /\ user_count > 0 => users[0].username = "root"
      BY DEF AccountsInv, OneRoot
    <3>2. /\ \A k, l \in Used' : users'[k].username = users'[l].username => k = l
          /\ user_count' > 0 => users'[0].username = "root"
      <4>1. \A k \in Slots : users'[k].username = users[k].username
        BY <2>2
      <4> QED BY <1>1, <2>3, <3>1, <4>1
    <3>3. \A k \in Used' : users'[k].is_root <=> k = 0
      BY <1>1, <2>2, <2>3 DEF AccountsInv, OneRoot
    <3> QED BY <3>2, <3>3 DEF OneRoot
  <2> QED BY <1>1, <2>2, <2>3, <2>4 DEF AccountsInv
<1> QED BY <1>2, <1>3

\* Nothing but the table matters to its invariant.
LEMMA SameAccounts ==
    ASSUME AccountsInv, UNCHANGED accounts
    PROVE  AccountsInv' /\ (HasRoot' <=> HasRoot)
BY DEF AccountsInv, OneRoot, Used, accounts, HasRoot

-----------------------------------------------------------------------------
\* The calls as the stack holds them.
LEMMA PlainCall ==
    ASSUME NEW at \in Shells \cup {"init", "login", "root", "user", "group", "halted"}
    PROVE  Plain(at) \in Calls /\ Plain(at).at = at
BY SessionAssumption DEF Plain, Call, Calls

\* Only shell_run has nothing below it.
LEMMA BelowTop ==
    ASSUME StackInv(stack), Top.at \notin {"run", "halted"}
    PROVE  Len(stack) > 1
BY DEF StackInv, Top, Last

\* A command runs for a user who is logged in, and leaves its caller in a shell.
LEMMA CallerStack ==
    ASSUME SessionInv, Running
    PROVE  /\ logged_in /\ HasRoot
           /\ StackInv(Caller) /\ Last(Caller).at \in Shells
           /\ PastRoot(Caller) => PastRoot(stack)
<1>1. logged_in /\ HasRoot
  BY DEF SessionInv, Running, ShellNeverEnds, Shells, RootBeforeUse
<1>2. CASE Top.at = "sudo"
  <2>1. Len(stack) > 1
    BY <1>2, BelowTop DEF SessionInv
  <2>2. Plain("sudo_end") \in Calls /\ Plain("sudo_end").at = "sudo_end"
    BY PlainCall DEF Shells
  <2>3. Caller = Append(Front(stack), Plain("sudo_end"))
    BY <1>2 DEF Caller
  <2> QED BY <1>1, <2>1, <2>2, <2>3, SwapStack DEF SessionInv, SetUp, Shells
<1>3. CASE Top.at = "run"
  BY <1>1, <1>3 DEF SessionInv, Caller, Top, Shells
<1> QED BY <1>2, <1>3 DEF Running

\* shell_init puts itself, and the first question of a set-up, on the stack.
LEMMA ShellInitStack ==
    ASSUME NEW s, StackInv(s)
    PROVE  /\ StackInv(ShellInit(s)) /\ Last(ShellInit(s)).at \notin Shells
           /\ PastRoot(ShellInit(s)) => PastRoot(s)
<1> DEFINE a == Plain("init")
           b == Plain("root")
<1>1. a \in Calls /\ a.at = "init" /\ b \in Calls /\ b.at = "root"
  BY PlainCall
<1>2. /\ s \in Seq(Calls) /\ Len(s) \in Nat /\ Len(s) > 0
      /\ \A k \in 1 .. Len(s) : s[k] \in Calls
  BY DEF StackInv
<1>3. ShellInit(s) = s \o <<a, b>> \/ ShellInit(s) = s \o <<a>>
  BY DEF ShellInit
<1> HIDE DEF a, b
<1>4. CASE ShellInit(s) = s \o <<a>>
  <2>1. /\ s \o <<a>> \in Seq(Calls) /\ Len(s \o <<a>>) = Len(s) + 1
        /\ \A k \in 1 .. Len(s) : (s \o <<a>>)[k] = s[k]
        /\ (s \o <<a>>)[Len(s) + 1] = a
    BY <1>1, <1>2
  <2> QED BY <1>1, <1>2, <1>4, <2>1 DEF StackInv, PastRoot, Last, SetUp, Shells
<1>5. CASE ShellInit(s) = s \o <<a, b>>
  <2>1. /\ s \o <<a, b>> \in Seq(Calls) /\ Len(s \o <<a, b>>) = Len(s) + 2
        /\ \A k \in 1 .. Len(s) : (s \o <<a, b>>)[k] = s[k]
        /\ (s \o <<a, b>>)[Len(s) + 1] = a /\ (s \o <<a, b>>)[Len(s) + 2] = b
    BY <1>1, <1>2
  <2> DEFINE t == s \o <<a, b>>
  <2> HIDE DEF t
  <2>2. /\ t \in Seq(Calls) /\ Len(t) = Len(s) + 2 /\ \A k \in 1 .. Len(s) : t[k] = s[k]
        /\ t[Len(s) + 1] = a /\ t[Len(s) + 2] = b
    BY <2>1 DEF t
  <2>3. /\ \A k \in 2 .. Len(s) : s[k].at # "halted" /\ (s[k].at \in SetUp => s[k - 1].at = "init")
        /\ s[1].at \in {"run", "halted"}
    BY DEF StackInv
  <2>4. StackInv(t)
    BY <1>1, <1>2, <2>2, <2>3 DEF StackInv, SetUp
  <2>5. Last(t).at \notin Shells
    BY <1>1, <1>2, <2>2 DEF Last, Shells
  <2>6. PastRoot(t) => PastRoot(s)
    BY <1>1, <1>2, <2>2 DEF PastRoot
  <2> QED BY <1>5, <2>4, <2>5, <2>6 DEF t
<1> QED BY <1>3, <1>4, <1>5

\* The questions of first_boot_setup preserve the invariant, also when they are
\* asked by a set-up inside another.
LEMMA SetUpStep ==
    ASSUME SessionInv,
           \/ setup_root
           \/ \E name \in Accounts : setup_user(name)
           \/ \E yes \in BOOLEAN : setup_group(yes)
    PROVE  SessionInv'
<1>1. AccountsInv /\ StackInv(stack) /\ RestType /\ RootBeforeUse /\ RootProved
  BY DEF SessionInv
<1>2. UNCHANGED <<session, first_boot, current_tty>>
  BY DEF setup_root, setup_user, setup_group
<1>3. RestType' /\ RootProved' /\ logged_in' = logged_in
  BY <1>1, <1>2 DEF RestType, RootProved, session
<1>4. CASE setup_root
  <2>1. Len(stack) > 1 /\ Last(stack).at = "root"
    BY <1>1, <1>4, BelowTop DEF setup_root, Top
  <2>2. Plain("user") \in Calls /\ Plain("user").at = "user"
    BY PlainCall
  <2>3. /\ StackInv(stack') /\ Last(stack').at = "user"
    BY <1>1, <1>4, <2>1, <2>2, SwapStack DEF setup_root, Becomes, SetUp
  <2>4. AccountsInv' /\ HasRoot'
    <3>1. CASE CanAdd("root")
      <4>1. user_count = 0
        <5>1. user_count \in 0 .. MaxUsers
          BY <1>1 DEF AccountsInv
        <5>2. user_count > 0 => users[0].username = "root"
          BY <1>1 DEF AccountsInv, OneRoot
        <5> QED BY <3>1, <5>1, <5>2, SessionAssumption DEF CanAdd, Known, Used
      <4>2. user_add("root", TRUE, FALSE) /\ "root" \in Accounts
        BY <1>4, <3>1 DEF setup_root, Accounts
      <4> QED BY <1>1, <3>1, <4>1, <4>2, AddAccount DEF HasRoot
    <3>2. CASE ~CanAdd("root")
      <4>1. UNCHANGED accounts
        BY <1>4, <3>2 DEF setup_root
      <4>2. HasRoot
        <5>1. user_count \in 0 .. MaxUsers
          BY <1>1 DEF AccountsInv
        <5> QED BY <3>2, <5>1, SessionAssumption DEF CanAdd, Known, Used, HasRoot
      <4> QED BY <1>1, <4>1, <4>2, SameAccounts
    <3> QED BY <3>1, <3>2
  <2> QED BY <1>3, <2>3, <2>4
        DEF SessionInv, ShellNeverEnds, Top, Shells, RootBeforeUse
<1>5. ASSUME NEW name \in Accounts, setup_user(name) PROVE SessionInv'
  <2>1. Len(stack) > 1 /\ Last(stack).at = "user" /\ stack \in Seq(Calls)
    BY <1>1, <1>5, BelowTop DEF setup_user, Top, StackInv
  <2>2. Call("group", 0, name) \in Calls /\ Call("group", 0, name).at = "group"
    <3>1. 0 \in 0 .. MaxAttempts - 1
      BY SessionAssumption
    <3> QED BY <3>1 DEF Call, Calls
  <2>3. /\ StackInv(stack') /\ Last(stack').at = "group"
    BY <1>1, <1>5, <2>1, <2>2, SwapStack DEF setup_user, Becomes, SetUp
  <2>4. HasRoot
    BY <1>1, <2>1 DEF RootBeforeUse, PastRoot, Last
  <2>5. AccountsInv' /\ HasRoot'
    <3>1. CanAdd(name) /\ user_add(name, FALSE, FALSE)
      BY <1>5 DEF setup_user
    <3>2. FALSE <=> user_count = 0
      BY <2>4 DEF HasRoot
    <3> QED BY <1>1, <3>1, <3>2, AddAccount DEF HasRoot
  <2> QED BY <1>3, <2>3, <2>5
        DEF SessionInv, ShellNeverEnds, Top, Shells, RootBeforeUse
<1>6. ASSUME NEW yes \in BOOLEAN, setup_group(yes) PROVE SessionInv'
  <2>1. Len(stack) > 1 /\ Last(stack).at = "group" /\ stack \in Seq(Calls)
    BY <1>1, <1>6, BelowTop DEF setup_group, Top, StackInv
  <2>2. stack[Len(stack) - 1].at = "init"
    BY <1>1, <2>1 DEF StackInv, Last, SetUp
  <2>3. /\ StackInv(stack') /\ Last(stack').at = "init"
    BY <1>1, <1>6, <2>1, <2>2, PopStack DEF setup_group, Return
  <2>4. HasRoot
    BY <1>1, <2>1 DEF RootBeforeUse, PastRoot, Last
  <2>5. AccountsInv' /\ HasRoot'
    <3>1. UNCHANGED accounts \/ user_add_sudo(Top.name)
      BY <1>6 DEF setup_group
    <3> QED BY <1>1, <2>4, <3>1, SameAccounts, GroupAccount DEF HasRoot
  <2> QED BY <1>3, <2>3, <2>5
        DEF SessionInv, ShellNeverEnds, Top, Shells, RootBeforeUse
<1> QED BY <1>4, <1>5, <1>6

\* shell_init and login_prompt preserve the invariant, whatever they return to.
LEMMA LoginStep ==
    ASSUME SessionInv, shell_init \/ login_failed \/ \E i \in Slots : login_ok(i)
    PROVE  SessionInv'
<1>1. /\ AccountsInv /\ StackInv(stack) /\ RestType /\ ShellNeverEnds
      /\ RootBeforeUse /\ RootProved
  BY DEF SessionInv
<1>2. UNCHANGED accounts
  BY DEF shell_init, login_failed, login_ok
<1>3. AccountsInv' /\ (HasRoot' <=> HasRoot)
  BY <1>1, <1>2, SameAccounts
<1>4. CASE shell_init
  <2>1. RestType' /\ RootProved' /\ logged_in' = logged_in
    BY <1>1, <1>4 DEF shell_init, RestType, RootProved, session
  <2>2. Len(stack) > 1
    BY <1>1, <1>4, BelowTop DEF shell_init
  <2>3. CASE logged_in
    <3>1. StackInv(stack') /\ (PastRoot(stack') => PastRoot(stack))
      BY <1>1, <1>4, <2>2, <2>3, PopStack DEF shell_init, Return
    <3> QED BY <1>1, <1>3, <2>1, <2>3, <3>1 DEF SessionInv, ShellNeverEnds, RootBeforeUse
  <2>4. CASE ~logged_in
    <3>1. Plain("login") \in Calls /\ Plain("login").at = "login"
      BY PlainCall
    <3>2. /\ StackInv(stack') /\ Last(stack').at = "login"
          /\ PastRoot(stack') => PastRoot(stack)
      BY <1>1, <1>4, <2>4, <3>1, PushStack DEF shell_init, SetUp
    <3> QED BY <1>1, <1>3, <2>1, <3>2
          DEF SessionInv, ShellNeverEnds, Top, Shells, RootBeforeUse
  <2> QED BY <2>3, <2>4
<1>5. CASE login_failed
  <2>1. RestType' /\ RootProved' /\ logged_in' = logged_in
    BY <1>1, <1>5 DEF login_failed, RestType, RootProved, session
  <2>2. Len(stack) > 1 /\ Top.at = "login" /\ Top \in Calls
    BY <1>1, <1>5, BelowTop DEF login_failed, StackInv, Top, Last
  <2>3. CASE Top.n + 1 < MaxAttempts
    <3> DEFINE c == [Top EXCEPT !.n = @ + 1]
    <3>1. c \in Calls /\ c.at = "login"
      <4>1. Top.n + 1 \in 0 .. MaxAttempts - 1
        <5>1. Top.n \in 0 .. MaxAttempts - 1
          BY <2>2 DEF Calls
        <5> QED BY <2>3, <5>1, SessionAssumption
      <4> QED BY <2>2, <4>1 DEF Calls
    <3>2. stack' = Append(Front(stack), c)
      BY <1>5, <2>3 DEF login_failed, Becomes
    <3> HIDE DEF c
    <3>3. /\ StackInv(stack') /\ Last(stack').at = "login"
          /\ PastRoot(stack') => PastRoot(stack)
      BY <1>1, <2>2, <3>1, <3>2, SwapStack DEF SetUp
    <3> QED BY <1>1, <1>3, <2>1, <3>3
          DEF SessionInv, ShellNeverEnds, Top, Shells, RootBeforeUse
  <2>4. CASE ~(Top.n + 1 < MaxAttempts)
    <3>1. Plain("halted") \in Calls /\ Plain("halted").at = "halted"
      BY PlainCall
    <3>2. stack' = <<Plain("halted")>>
      BY <1>5, <2>4 DEF login_failed
    <3>3. StackInv(stack') /\ Last(stack').at = "halted" /\ ~PastRoot(stack')
      BY <3>1, <3>2 DEF StackInv, Last, PastRoot
    <3> QED BY <1>1, <1>3, <2>1, <3>3
          DEF SessionInv, ShellNeverEnds, Top, Shells, RootBeforeUse
  <2> QED BY <2>3, <2>4
<1>6. ASSUME NEW i \in Slots, login_ok(i) PROVE SessionInv'
  <2>1. /\ i \in Used /\ current_user' = i /\ sudo_elevated' = FALSE /\ logged_in' = TRUE
        /\ who' = users[i].username /\ proved' = users[i].is_root /\ sudo_shell' = FALSE
        /\ first_boot' = first_boot /\ current_tty' = current_tty
    BY <1>6 DEF login_ok, user_login
  <2>2. i \in -1 .. MaxUsers - 1
    BY SessionAssumption DEF Slots
  <2>3. RestType'
    <3>1. users[i].username \in Accounts /\ users[i].is_root \in BOOLEAN
      BY <1>1, <2>1 DEF AccountsInv
    <3> QED BY <1>1, <2>1, <2>2, <3>1 DEF RestType
  <2>4. RootProved'
    BY <1>1, <2>1 DEF AccountsInv, OneRoot, RootProved
  <2>5. Len(stack) > 1
    BY <1>1, <1>6, BelowTop DEF login_ok
  <2>6. StackInv(stack')
    BY <1>1, <1>6, <2>5, PopStack DEF login_ok, Return
  <2>7. HasRoot
    <3>1. user_count \in 0 .. MaxUsers
      BY <1>1 DEF AccountsInv
    <3> QED BY <2>1, <3>1, SessionAssumption DEF Used, HasRoot
  <2> QED BY <1>3, <2>1, <2>3, <2>4, <2>6, <2>7
        DEF SessionInv, ShellNeverEnds, RootBeforeUse
<1> QED BY <1>4, <1>5, <1>6

\* Whoever works as root has proved it: only slot 0 can hold root, also among the
\* slots that userdel has left behind and current_user may still point to.
LEMMA RootIsProved ==
    ASSUME AccountsInv, RestType, RootProved
    PROVE  ElevationProved
<1>1. current_user >= 0 => current_user \in Slots
  <2>1. current_user \in -1 .. MaxUsers - 1
    BY DEF RestType
  <2> QED BY <2>1, SessionAssumption DEF Slots
<1>2. \A i \in Slots : users[i].is_root => i = 0
  BY DEF AccountsInv
<1>3. current_user >= 0 /\ users[current_user].is_root => proved
  BY <1>1, <1>2 DEF RootProved
<1> QED BY <1>3 DEF ElevationProved, user_is_root, RootProved

\* Every command preserves the invariant, at the prompt, in a script or under
\* sudo; and so do the ends of scripts and of sudo.
LEMMA CommandStep ==
    ASSUME SessionInv,
           \/ \E name \in Accounts : cmd_userdel(name)
           \/ \E name \in Accounts, sudo \in BOOLEAN : cmd_useradd(name, sudo)
           \/ sudo_i \/ cmd_sudo \/ sudo_drop \/ OtherCommand
           \/ cmd_exec_script \/ script_end \/ cmd_exit
    PROVE  SessionInv'
<1>1. /\ AccountsInv /\ StackInv(stack) /\ RestType /\ ShellNeverEnds
      /\ RootBeforeUse /\ RootProved
  BY DEF SessionInv
<1>2. user_is_root => proved
  BY <1>1, RootIsProved DEF ElevationProved
<1>3. UNCHANGED accounts => AccountsInv' /\ (HasRoot' <=> HasRoot)
  BY <1>1, SameAccounts
<1>4. UNCHANGED <<session, first_boot, current_tty>> => RestType' /\ RootProved' /\ logged_in' = logged_in
  BY <1>1 DEF RestType, RootProved, session
<1>5. ASSUME NEW name \in Accounts, cmd_userdel(name) PROVE SessionInv'
  <2>1. Running /\ user_del(name) /\ stack' = Caller /\ UNCHANGED <<first_boot, current_tty>>
    BY <1>5 DEF cmd_userdel
  <2>2. AccountsInv' /\ HasRoot'
    BY <1>1, <2>1, DeleteAccount DEF HasRoot
  <2>3. logged_in' = logged_in /\ RestType' /\ RootProved'
    <3>1. CASE UNCHANGED session
      BY <1>4, <2>1, <3>1 DEF session
    <3>2. CASE user_logout /\ UNCHANGED logged_in
      <4>1. -1 \in -1 .. MaxUsers - 1 /\ -1 # 0
        BY SessionAssumption
      <4> QED BY <1>1, <2>1, <3>2, <4>1 DEF user_logout, RestType, RootProved
    <3> QED BY <2>1, <3>1, <3>2 DEF user_del
  <2> QED BY <2>1, <2>2, <2>3, CallerStack DEF SessionInv, ShellNeverEnds, RootBeforeUse
<1>6. ASSUME NEW name \in Accounts, NEW sudo \in BOOLEAN, cmd_useradd(name, sudo)
      PROVE  SessionInv'
  <2>1. /\ Running /\ CanAdd(name) /\ user_add(name, FALSE, sudo) /\ stack' = Caller
        /\ UNCHANGED <<session, first_boot, current_tty>>
    BY <1>6 DEF cmd_useradd
  <2>2. HasRoot /\ logged_in /\ StackInv(Caller)
    BY <2>1, CallerStack
  <2>3. AccountsInv' /\ HasRoot'
    <3>1. FALSE <=> user_count = 0
      BY <2>2 DEF HasRoot
    <3> QED BY <1>1, <2>1, <3>1, AddAccount DEF HasRoot
  <2> QED BY <1>4, <2>1, <2>2, <2>3 DEF SessionInv, ShellNeverEnds, RootBeforeUse
<1>7. CASE sudo_i \/ cmd_sudo
  <2>1. Running /\ Elevate /\ UNCHANGED <<accounts, first_boot, current_tty>>
    BY <1>7 DEF sudo_i, cmd_sudo
  <2>2. HasRoot /\ logged_in /\ StackInv(Caller)
    BY <2>1, CallerStack
  <2>3. StackInv(stack')
    <3>1. CASE stack' = Caller
      BY <2>2, <3>1
    <3>2. CASE stack' = Append(Caller, Plain("sudo"))
      <4>1. Plain("sudo") \in Calls /\ Plain("sudo").at = "sudo"
        BY PlainCall DEF Shells
      <4> QED BY <2>2, <3>2, <4>1, PushStack DEF SetUp
    <3> QED BY <1>7, <3>1, <3>2 DEF sudo_i, cmd_sudo
  <2>4. sudo_shell' \in BOOLEAN
    BY <1>1, <1>7 DEF sudo_i, cmd_sudo, RestType
  <2>5. /\ current_user' = current_user /\ logged_in' = logged_in /\ who' = who
        /\ first_boot' = first_boot /\ current_tty' = current_tty
        /\ sudo_elevated' = TRUE /\ proved' = TRUE
    BY <1>1, <1>2, <2>1 DEF Elevate, RestType
  <2>6. RestType' /\ RootProved'
    BY <1>1, <2>4, <2>5 DEF RestType, RootProved
  <2> QED BY <1>3, <2>1, <2>2, <2>3, <2>5, <2>6 DEF SessionInv, ShellNeverEnds, RootBeforeUse
<1>8. CASE sudo_drop
  <2>1. /\ Top.at = "sudo_end" /\ sudo_elevated' = FALSE /\ stack' = Front(stack)
        /\ sudo_shell' = FALSE
        /\ UNCHANGED <<accounts, current_user, logged_in, who, proved, first_boot, current_tty>>
    BY <1>8 DEF sudo_drop, Return
  <2>2. StackInv(stack')
    BY <1>1, <2>1, BelowTop, PopStack
  <2>3. logged_in /\ HasRoot
    BY <1>1, <2>1 DEF ShellNeverEnds, Shells, RootBeforeUse
  <2>4. RestType' /\ RootProved'
    BY <1>1, <2>1 DEF RestType, RootProved
  <2> QED BY <1>3, <2>1, <2>2, <2>3, <2>4 DEF SessionInv, ShellNeverEnds, RootBeforeUse
<1>9. CASE OtherCommand \/ cmd_exec_script
  <2>1. Running /\ UNCHANGED <<accounts, session, first_boot, current_tty>>
    BY <1>9 DEF OtherCommand, cmd_exec_script, Running
  <2>2. HasRoot /\ logged_in /\ StackInv(Caller)
    BY <2>1, CallerStack
  <2>3. StackInv(stack')
    <3>1. CASE stack' = Caller
      BY <2>2, <3>1
    <3>2. CASE stack' = Append(Caller, Plain("run"))
      <4>1. Plain("run") \in Calls /\ Plain("run").at = "run"
        BY PlainCall DEF Shells
      <4> QED BY <2>2, <3>2, <4>1, PushStack DEF SetUp
    <3> QED BY <1>9, <3>1, <3>2 DEF OtherCommand, cmd_exec_script
  <2> QED BY <1>3, <1>4, <2>1, <2>2, <2>3 DEF SessionInv, ShellNeverEnds, RootBeforeUse
<1>10. CASE script_end
  <2>1. /\ Top.at = "run" /\ Len(stack) > 1 /\ stack' = Front(stack)
        /\ UNCHANGED <<accounts, session, first_boot, current_tty>>
    BY <1>10 DEF script_end, Return
  <2>2. StackInv(stack')
    BY <1>1, <2>1, PopStack
  <2>3. logged_in /\ HasRoot
    BY <1>1, <2>1 DEF ShellNeverEnds, Shells, RootBeforeUse
  <2> QED BY <1>3, <1>4, <2>1, <2>2, <2>3 DEF SessionInv, ShellNeverEnds, RootBeforeUse
<1>11. CASE cmd_exit
  <2>1. Running /\ UNCHANGED <<accounts, first_boot, current_tty>>
    BY <1>11 DEF cmd_exit
  <2>2. HasRoot /\ logged_in /\ StackInv(Caller)
    BY <2>1, CallerStack
  <2>3. CASE user_is_root /\ ~users_real_is_root
    <3>1. /\ sudo_elevated' = FALSE /\ sudo_shell' = FALSE /\ stack' = Caller
          /\ UNCHANGED <<current_user, logged_in, who, proved>>
      BY <1>11, <2>3 DEF cmd_exit
    <3>2. RestType' /\ RootProved'
      BY <1>1, <2>1, <3>1 DEF RestType, RootProved
    <3> QED BY <1>3, <2>1, <2>2, <3>1, <3>2 DEF SessionInv, ShellNeverEnds, RootBeforeUse
  <2>4. CASE ~(user_is_root /\ ~users_real_is_root)
    <3>1. user_logout /\ logged_in' = FALSE /\ stack' = Append(Caller, Plain("login"))
      BY <1>11, <2>4 DEF cmd_exit
    <3>2. Plain("login") \in Calls /\ Plain("login").at = "login"
      BY PlainCall
    <3>3. StackInv(stack') /\ Last(stack').at = "login"
      BY <2>2, <3>1, <3>2, PushStack DEF SetUp
    <3>4. -1 \in -1 .. MaxUsers - 1 /\ -1 # 0
      BY SessionAssumption
    <3>5. RestType' /\ RootProved'
      BY <1>1, <2>1, <3>1, <3>4 DEF user_logout, RestType, RootProved
    <3> QED BY <1>3, <2>1, <2>2, <3>3, <3>5
          DEF SessionInv, ShellNeverEnds, Top, Shells, RootBeforeUse
  <2> QED BY <2>3, <2>4
<1> QED BY <1>5, <1>6, <1>7, <1>8, <1>9, <1>10, <1>11

\* Alt+F1 to Alt+F4 preserve the invariant in the middle of any dialogue.
LEMMA SwitchStep ==
    ASSUME SessionInv, NEW n \in Ttys, tty_switch(n)
    PROVE  SessionInv'
<1>1. /\ AccountsInv /\ StackInv(stack) /\ RestType /\ ShellNeverEnds
      /\ RootBeforeUse /\ RootProved
  BY DEF SessionInv
<1>2. AccountsInv' /\ (HasRoot' <=> HasRoot)
  BY <1>1, SameAccounts DEF tty_switch
<1>3. RestType' /\ RootProved' /\ logged_in' = logged_in
  BY <1>1 DEF tty_switch, RestType, RootProved, session
<1>4. CASE logged_in
  BY <1>1, <1>2, <1>3, <1>4 DEF tty_switch, SessionInv, ShellNeverEnds, RootBeforeUse
<1>5. CASE ~logged_in
  <2>1. stack' = ShellInit(stack)
    BY <1>5 DEF tty_switch
  <2>2. /\ StackInv(stack') /\ Last(stack').at \notin Shells
        /\ PastRoot(stack') => PastRoot(stack)
    BY <1>1, <2>1, ShellInitStack
  <2> QED BY <1>1, <1>2, <1>3, <2>2 DEF SessionInv, ShellNeverEnds, Top, RootBeforeUse
<1> QED BY <1>4, <1>5

\* kmain's call of shell_init: a disk without accounts, or with a table.
LEMMA StartInv == SessionInit => SessionInv
<1> SUFFICES ASSUME SessionInit PROVE SessionInv
  OBVIOUS
<1> DEFINE s == <<Plain("run")>>
<1>1. Plain("run") \in Calls /\ Plain("run").at = "run"
  BY PlainCall DEF Shells
<1>2. StackInv(s) /\ ~PastRoot(s)
  BY <1>1 DEF StackInv, PastRoot
<1>3. stack = ShellInit(s)
  BY DEF SessionInit
<1> HIDE DEF s
<1>4. StackInv(stack) /\ Top.at \notin Shells /\ ~PastRoot(stack)
  BY <1>2, <1>3, ShellInitStack DEF Top
<1>5. -1 \in -1 .. MaxUsers - 1 /\ -1 # 0
  BY SessionAssumption
<1>6. RestType
  BY <1>5, SessionAssumption DEF SessionInit, RestType
<1>7. RootProved
  BY <1>5 DEF SessionInit, RootProved
<1>8. AccountsInv
  <2>1. CASE user_count = 0 /\ users = [i \in Slots |-> NoUser]
    <3>1. NoUser \in [username : Accounts \cup {""}, is_root : BOOLEAN, in_sudo : BOOLEAN]
      BY DEF NoUser, User
    <3>2. NoUser.is_root = FALSE
      BY DEF NoUser, User
    <3>3. Used = {} /\ user_count \in 0 .. MaxUsers /\ ~(user_count > 0)
      BY <2>1, SessionAssumption DEF Used
    <3>4. users \in [Slots -> [username : Accounts \cup {""}, is_root : BOOLEAN, in_sudo : BOOLEAN]]
      BY <2>1, <3>1
    <3>5. \A i \in Slots : users[i].is_root = FALSE
      BY <2>1, <3>2
    <3> QED BY <3>3, <3>4, <3>5 DEF AccountsInv, OneRoot
  <2>2. ASSUME NEW name \in Names, NEW sudo \in BOOLEAN, user_count = 2,
               users = [i \in Slots |-> CASE i = 0 -> User("root", TRUE, FALSE)
                                          [] i = 1 -> User(name, FALSE, sudo)
                                          [] OTHER -> NoUser]
        PROVE  AccountsInv
    <3> DEFINE r == User("root", TRUE, FALSE)
               u == User(name, FALSE, sudo)
               R == [username : Accounts \cup {""}, is_root : BOOLEAN, in_sudo : BOOLEAN]
    <3>1. /\ r \in R /\ u \in R /\ NoUser \in R
          /\ r.is_root = TRUE /\ u.is_root = FALSE /\ NoUser.is_root = FALSE
          /\ r.username = "root" /\ u.username = name
      BY DEF User, NoUser, Accounts
    <3>2. /\ 0 \in Slots /\ 1 \in Slots /\ Used = {0, 1}
          /\ user_count \in 0 .. MaxUsers
      BY <2>2, SessionAssumption DEF Slots, Used
    <3>3. /\ DOMAIN users = Slots /\ users = [i \in Slots |-> users[i]]
          /\ users[0] = r /\ users[1] = u
          /\ \A i \in Slots : i # 0 /\ i # 1 => users[i] = NoUser
      BY <2>2, <3>2
    <3> HIDE DEF r, u
    <3>4. users \in [Slots -> R]
      BY <3>1, <3>3
    <3>5. \A i \in Slots : users[i].is_root <=> i = 0
      BY <3>1, <3>3
    <3>6. \A i, j \in Used : users[i].username = users[j].username => i = j
      <4>1. name # "root"
        BY SessionAssumption
      <4>2. users[0].username = "root" /\ users[1].username = name
        BY <3>1, <3>3
      <4> QED BY <3>2, <4>1, <4>2
    <3>7. OneRoot
      BY <3>1, <3>2, <3>3, <3>5, <3>6 DEF OneRoot
    <3>8. \A i \in Used : users[i].username \in Accounts
      BY <3>1, <3>2, <3>3 DEF Accounts
    <3> QED BY <3>2, <3>4, <3>5, <3>7, <3>8 DEF AccountsInv
  <2> QED BY <2>1, <2>2 DEF SessionInit
<1>9. ~logged_in
  BY DEF SessionInit
<1> QED BY <1>4, <1>6, <1>7, <1>8, <1>9 DEF SessionInv, ShellNeverEnds, RootBeforeUse

-----------------------------------------------------------------------------
\* The invariant holds however set-ups, logins, scripts and sudo are nested.
THEOREM SessionInvariant == SessionSpec => []SessionInv
<1>1. SessionInv /\ [SessionNext]_sessionVars => SessionInv'
  <2> SUFFICES ASSUME SessionInv, [SessionNext]_sessionVars PROVE SessionInv'
    OBVIOUS
  <2>1. CASE UNCHANGED sessionVars
    <3>1. UNCHANGED <<users, user_count, current_user, sudo_elevated, logged_in, who,
                      proved, sudo_shell, first_boot, current_tty, stack>>
      BY <2>1 DEF sessionVars, session, accounts
    <3>2. AccountsInv' /\ (HasRoot' <=> HasRoot)
      BY <3>1, SameAccounts DEF SessionInv, accounts
    <3>3. RestType' /\ RootProved' /\ StackInv(stack')
      BY <3>1 DEF SessionInv, RestType, RootProved
    <3> QED BY <3>1, <3>2, <3>3 DEF SessionInv, ShellNeverEnds, Top, RootBeforeUse
  <2>2. CASE SessionNext
    BY <2>2, SetUpStep, LoginStep, CommandStep, SwitchStep DEF SessionNext
  <2> QED BY <2>1, <2>2
<1> QED BY <1>1, StartInv, PTL DEF SessionSpec

\* The types of the table, the session and the call stack.
THEOREM SessionTypeCorrect == SessionSpec => []SessionTypeOK
<1>1. SessionInv => SessionTypeOK
  <2> SUFFICES ASSUME SessionInv PROVE SessionTypeOK
    OBVIOUS
  <2>1. stack \in Seq(Calls) /\ stack # <<>>
    BY DEF SessionInv, StackInv
  <2> QED BY <2>1 DEF SessionInv, AccountsInv, RestType, SessionTypeOK
<1> QED BY <1>1, SessionInvariant, PTL

\* "should never reach here" (kernel.c:82) is right: no command runs, and
\* shell_run does not return, while nobody is logged in, at any depth of nesting.
THEOREM ShellIsForever == SessionSpec => []ShellNeverEnds
<1>1. SessionInv => ShellNeverEnds
  BY DEF SessionInv
<1> QED BY <1>1, SessionInvariant, PTL

\* There is one root account, in slot 0, and no name is used twice.
THEOREM RootIsUnique == SessionSpec => []OneRoot
<1>1. SessionInv => OneRoot
  BY DEF SessionInv, AccountsInv
<1> QED BY <1>1, SessionInvariant, PTL

\* Nobody works as root without a login as root or a sudoer's password.
THEOREM NoUnprovedRoot == SessionSpec => []ElevationProved
<1>1. SessionInv => ElevationProved
  BY RootIsProved DEF SessionInv
<1> QED BY <1>1, SessionInvariant, PTL

\* Whose session it is depends on the session and the name in its slot.
LEMMA SameIdentity ==
    ASSUME Identity = who, current_user' = current_user, who' = who,
           current_user < 0 \/ users'[current_user].username = users[current_user].username
    PROVE  Identity' = who'
BY DEF Identity

\* An account that is added or put in the sudo group leaves the names in other slots.
LEMMA NamesStay ==
    ASSUME SessionInv, current_user >= 0, NEW name, NEW root, NEW sudo,
           \/ CanAdd(name) /\ user_add(name, root, sudo) /\ current_user # user_count
           \/ user_add_sudo(name)
    PROVE  users'[current_user].username = users[current_user].username
<1> DEFINE U == [username : Accounts \cup {""}, is_root : BOOLEAN, in_sudo : BOOLEAN]
<1>0. /\ users \in [Slots -> U]
      /\ user_count \in Nat /\ current_user \in Nat /\ current_user \in Slots
  <2>1. user_count \in 0 .. MaxUsers /\ current_user \in -1 .. MaxUsers - 1
    BY DEF SessionInv, AccountsInv, RestType
  <2>2. users \in [Slots -> U]
    BY DEF SessionInv, AccountsInv
  <2> HIDE DEF U
  <2>3. user_count \in Nat /\ current_user \in 0 .. MaxUsers - 1 /\ current_user \in Nat
    BY <2>1, SessionAssumption
  <2> QED BY <2>2, <2>3 DEF Slots
<1>1. CASE user_add(name, root, sudo) /\ current_user # user_count
  <2>1. current_user # user_count
    BY <1>1
  <2>2. users' = [users EXCEPT ![user_count] = User(name, root, sudo)]
    BY <1>1 DEF user_add
  <2> QED BY <1>0, <2>1, <2>2
<1>2. CASE user_add_sudo(name)
  <2>1. CASE Known(name)
    <3> DEFINE s == SlotOf(name)
    <3>1. \A u \in U : [u EXCEPT !.in_sudo = TRUE].username = u.username
      OBVIOUS
    <3>2. users' = [users EXCEPT ![s] = [users[s] EXCEPT !.in_sudo = TRUE]]
      BY <1>2, <2>1 DEF user_add_sudo
    <3> HIDE DEF s, U
    <3>3. users[current_user] \in U
      BY <1>0
    <3>4. CASE s = current_user
      BY <1>0, <3>1, <3>2, <3>3, <3>4
    <3>5. CASE s # current_user
      BY <1>0, <3>2, <3>5
    <3> QED BY <3>4, <3>5
  <2> QED BY <1>2, <2>1 DEF user_add_sudo
<1> QED BY <1>1, <1>2

\* Where the accounts are after a userdel of another account: the slots before its own,
\* the last slot and those past the table hold what they held.
LEMMA OthersMoveDown ==
    ASSUME SessionInv, NEW name, user_del(name), current_user >= 0,
           SlotOf(name) # current_user,
           current_user < SlotOf(name) \/ current_user >= user_count - 1
    PROVE  users'[current_user] = users[current_user]
<1> DEFINE i == SlotOf(name)
<1>1. /\ user_count \in Nat /\ current_user \in Slots /\ current_user \in Nat
  <2>1. user_count \in 0 .. MaxUsers /\ current_user \in -1 .. MaxUsers - 1
    BY DEF SessionInv, AccountsInv, RestType
  <2> QED BY <2>1, SessionAssumption DEF Slots
<1>2. users' = [k \in Slots |->
                   IF k >= i /\ k < user_count - 1 THEN users[k + 1] ELSE users[k]]
  BY DEF user_del
<1>3. i \in Nat
  <2>1. i \in Used
    BY SlotInUse DEF user_del, SessionInv
  <2> QED BY <1>1, <2>1 DEF Used
<1> HIDE DEF i
<1>4. ~(current_user >= i /\ current_user < user_count - 1)
  BY <1>1, <1>3 DEF i
<1> QED BY <1>1, <1>2, <1>4

\* The session is the user's who logged in, until a userdel moves the account out of its
\* slot or a new account takes it: no other step, in whatever dialogue, gives it away.
THEOREM SessionStaysOwn == SessionSpec => OnlySlotMovesSession
<1> DEFINE Kept == Identity = who =>
               \/ Identity' = who'
               \/ \E name \in Accounts : /\ cmd_userdel(name)
                                         /\ SlotOf(name) < current_user
                                         /\ current_user < user_count - 1
               \/ user_count' = user_count + 1 /\ current_user = user_count
<1>1. SessionInv /\ [SessionNext]_sessionVars => [Kept]_sessionVars
  <2> SUFFICES ASSUME SessionInv, SessionNext, Identity = who,
                      ~(user_count' = user_count + 1 /\ current_user = user_count),
                      ~\E name \in Accounts : /\ cmd_userdel(name)
                                              /\ SlotOf(name) < current_user
                                              /\ current_user < user_count - 1
               PROVE  Identity' = who'
    OBVIOUS
  <2>0. /\ user_count \in Nat /\ current_user \in Int
        /\ (current_user < 0 \/ current_user >= 0)
    <3>1. user_count \in 0 .. MaxUsers /\ current_user \in -1 .. MaxUsers - 1
      BY DEF SessionInv, AccountsInv, RestType
    <3> QED BY <3>1, SessionAssumption
  <2>1. ASSUME UNCHANGED <<current_user, who>>, UNCHANGED accounts PROVE Identity' = who'
    BY <2>1, SameIdentity DEF accounts
  <2>2. ASSUME UNCHANGED session, NEW name, NEW root, NEW sudo,
               (CanAdd(name) /\ user_add(name, root, sudo)) \/ user_add_sudo(name)
        PROVE  Identity' = who'
    <3>1. current_user' = current_user /\ who' = who
      BY <2>2 DEF session
    <3>2. CanAdd(name) /\ user_add(name, root, sudo) => current_user # user_count
      <4>1. user_add(name, root, sudo) => user_count' = user_count + 1
        BY DEF user_add
      <4> QED BY <4>1
    <3>3. current_user < 0 \/ users'[current_user].username = users[current_user].username
      BY <2>0, <2>2, <3>2, NamesStay
    <3> QED BY <3>1, <3>3, SameIdentity
  <2>3. CASE setup_root
    <3>1. CASE CanAdd("root")
      BY <2>2, <2>3, <3>1 DEF setup_root
    <3>2. CASE ~CanAdd("root")
      BY <2>1, <2>3, <3>2 DEF setup_root, session
    <3> QED BY <3>1, <3>2
  <2>4. ASSUME NEW name \in Accounts, setup_user(name) PROVE Identity' = who'
    BY <2>2, <2>4 DEF setup_user
  <2>5. ASSUME NEW yes \in BOOLEAN, setup_group(yes) PROVE Identity' = who'
    <3>1. CASE yes
      BY <2>2, <2>5, <3>1 DEF setup_group
    <3>2. CASE ~yes
      BY <2>1, <2>5, <3>2 DEF setup_group, session
    <3> QED BY <3>1, <3>2
  <2>6. ASSUME NEW name \in Accounts, cmd_userdel(name) PROVE Identity' = who'
    <3>1. user_del(name)
      BY <2>6 DEF cmd_userdel
    <3>2. CASE SlotOf(name) = current_user
      BY <3>1, <3>2 DEF user_del, user_logout, Identity
    <3>3. CASE SlotOf(name) # current_user
      <4>1. UNCHANGED session
        BY <3>1, <3>3 DEF user_del
      <4>2. current_user' = current_user /\ who' = who
        BY <4>1 DEF session
      <4>3. ~(SlotOf(name) < current_user /\ current_user < user_count - 1)
        BY <2>6
      <4>4. SlotOf(name) \in Nat
        <5>1. SlotOf(name) \in Used
          BY <3>1, SlotInUse DEF user_del, SessionInv
        <5> QED BY <2>0, <5>1 DEF Used
      <4>5. current_user < SlotOf(name) \/ current_user >= user_count - 1
        BY <2>0, <3>3, <4>3, <4>4
      <4>6. current_user < 0 \/ users'[current_user] = users[current_user]
        BY <2>0, <3>1, <3>3, <4>5, OthersMoveDown
      <4> QED BY <4>2, <4>6, SameIdentity
    <3> QED BY <3>2, <3>3
  <2>7. ASSUME NEW name \in Accounts, NEW sudo \in BOOLEAN, cmd_useradd(name, sudo)
        PROVE  Identity' = who'
    BY <2>2, <2>7 DEF cmd_useradd
  <2>8. ASSUME NEW i \in Slots, login_ok(i) PROVE Identity' = who'
    <3>1. i \in Nat /\ ~(i < 0)
      BY SessionAssumption DEF Slots
    <3> QED BY <2>8, <3>1 DEF login_ok, user_login, Identity, accounts
  <2>9. CASE shell_init \/ login_failed \/ OtherCommand \/ cmd_exec_script \/ script_end
             \/ \E n \in Ttys : tty_switch(n)
    BY <2>1, <2>9 DEF shell_init, login_failed, OtherCommand, cmd_exec_script, script_end,
                      tty_switch, session
  <2>10. CASE sudo_i \/ cmd_sudo \/ sudo_drop
    BY <2>1, <2>10 DEF sudo_i, cmd_sudo, sudo_drop, Elevate
  <2>11. CASE cmd_exit
    <3>1. CASE user_is_root /\ ~users_real_is_root
      BY <2>1, <2>11, <3>1 DEF cmd_exit
    <3>2. CASE ~(user_is_root /\ ~users_real_is_root)
      BY <2>11, <3>2 DEF cmd_exit, user_logout, Identity
    <3> QED BY <3>1, <3>2
  <2> QED BY <2>3, <2>4, <2>5, <2>6, <2>7, <2>8, <2>9, <2>10, <2>11 DEF SessionNext
<1> QED BY <1>1, SessionInvariant, PTL DEF SessionSpec, OnlySlotMovesSession

-----------------------------------------------------------------------------
(* The end of an elevation *)

InSudo(s) == \E k \in 1 .. Len(s) : s[k].at \in {"sudo", "sudo_end"}

\* A shell is called by a shell, and not from a dialogue.
ShellsBelow(s) == \A k \in 2 .. Len(s) : s[k].at \in Shells => s[k - 1].at \in Shells

\* The inductive invariant: dialogues are never elevated.
SudoInv ==
    /\ sudo_elevated => sudo_shell \/ InSudo(stack)
    /\ sudo_elevated => Top.at \in Shells
    /\ ShellsBelow(stack)

\* A return from a call that is not a sudo keeps the sudo below it.
LEMMA SudoPop ==
    ASSUME NEW s, StackInv(s), Len(s) > 1, ShellsBelow(s)
    PROVE  /\ ShellsBelow(Front(s))
           /\ Last(s).at \in Shells => Last(Front(s)).at \in Shells
           /\ Last(s).at \notin {"sudo", "sudo_end"} /\ InSudo(s) => InSudo(Front(s))
<1>1. s \in Seq(Calls) /\ Len(s) \in Nat
  BY DEF StackInv
<1>2. /\ Len(Front(s)) = Len(s) - 1
      /\ \A k \in 1 .. Len(s) - 1 : Front(s)[k] = s[k]
  <2>1. \A k \in 1 .. Len(s) - 1 : s[k] \in Calls
    BY <1>1
  <2> QED BY <1>1, <2>1, SubSeqProperties, Z3 DEF Front
<1>3. Last(Front(s)) = s[Len(s) - 1]
  BY PopStack
<1>4. ShellsBelow(Front(s))
  BY <1>1, <1>2 DEF ShellsBelow
<1>5. Last(s).at \in Shells => Last(Front(s)).at \in Shells
  <2>1. Len(s) \in 2 .. Len(s)
    BY <1>1
  <2> QED BY <2>1, <1>3 DEF ShellsBelow, Last
<1>6. Last(s).at \notin {"sudo", "sudo_end"} /\ InSudo(s) => InSudo(Front(s))
  BY <1>1, <1>2 DEF InSudo, Last
<1> QED BY <1>4, <1>5, <1>6

\* A call keeps the sudo below it.
LEMMA SudoPush ==
    ASSUME NEW s, StackInv(s), ShellsBelow(s), NEW c, c.at \in Shells => Last(s).at \in Shells
    PROVE  /\ ShellsBelow(Append(s, c)) /\ Last(Append(s, c)) = c
           /\ InSudo(s) \/ c.at \in {"sudo", "sudo_end"} => InSudo(Append(s, c))
<1>1. s \in Seq(Calls) /\ Len(s) \in Nat /\ Len(s) > 0
  BY DEF StackInv
<1>2. /\ Len(Append(s, c)) = Len(s) + 1
      /\ \A k \in 1 .. Len(s) : Append(s, c)[k] = s[k]
      /\ Append(s, c)[Len(s) + 1] = c
  BY <1>1
<1>3. ShellsBelow(Append(s, c))
  BY <1>1, <1>2 DEF ShellsBelow, Last
<1> QED BY <1>1, <1>2, <1>3 DEF InSudo, Last

\* shell_init starts dialogues.
LEMMA SudoShellInit ==
    ASSUME NEW s, StackInv(s), ShellsBelow(s)
    PROVE  ShellsBelow(ShellInit(s))
<1> DEFINE a == Plain("init")
           b == Plain("root")
<1>1. /\ a \in Calls /\ a.at = "init" /\ b \in Calls /\ b.at = "root"
      /\ a.at \notin Shells /\ b.at \notin Shells
  BY PlainCall DEF Shells
<1> HIDE DEF a, b
<1>2. s \in Seq(Calls) /\ Len(s) \in Nat /\ Len(s) > 0
  BY DEF StackInv
<1>3. ShellInit(s) = s \o <<a, b>> \/ ShellInit(s) = s \o <<a>>
  BY DEF ShellInit, a, b
<1>4. ASSUME NEW t \in {<<a, b>>, <<a>>}
      PROVE  ShellsBelow(s \o t)
  <2>1. /\ t \in Seq(Calls) /\ Len(t) \in 1 .. 2
        /\ \A k \in 1 .. Len(t) : t[k].at \notin Shells
    <3>1. CASE t = <<a, b>>
      BY <1>1, <3>1
    <3>2. CASE t = <<a>>
      BY <1>1, <3>2
    <3> QED BY <1>4, <3>1, <3>2
  <2>2. /\ Len(s \o t) = Len(s) + Len(t)
        /\ \A k \in 1 .. Len(s) : (s \o t)[k] = s[k]
        /\ \A k \in Len(s) + 1 .. Len(s) + Len(t) : (s \o t)[k] = t[k - Len(s)]
    BY <1>2, <2>1
  <2>3. \A k \in Len(s) + 1 .. Len(s) + Len(t) : (s \o t)[k].at \notin Shells
    <3> SUFFICES ASSUME NEW k \in Len(s) + 1 .. Len(s) + Len(t)
                 PROVE  (s \o t)[k].at \notin Shells
      OBVIOUS
    <3>1. k - Len(s) \in 1 .. Len(t)
      BY <1>2, <2>1
    <3> QED BY <2>1, <2>2, <3>1
  <2> QED BY <1>2, <2>1, <2>2, <2>3 DEF ShellsBelow
<1> QED BY <1>3, <1>4

\* A step of a dialogue: nobody is elevated before or after it.
LEMMA SudoDialogue ==
    ASSUME SessionInv, SudoInv, Top.at \notin Shells, UNCHANGED sudo_elevated \/ ~sudo_elevated',
           ShellsBelow(stack')
    PROVE  SudoInv'
BY DEF SudoInv

\* The set-up.
LEMMA SudoSetUp ==
    ASSUME SessionInv, SudoInv,
           \/ setup_root
           \/ \E name \in Accounts : setup_user(name)
           \/ \E yes \in BOOLEAN : setup_group(yes)
    PROVE  SudoInv'
<1>1. Top.at \in SetUp /\ sudo_elevated' = sudo_elevated
  BY DEF setup_root, setup_user, setup_group, session, SetUp
<1>2. StackInv(stack) /\ Len(stack) > 1
  BY <1>1, BelowTop DEF SessionInv, SetUp
<1>3. StackInv(Front(stack)) /\ ShellsBelow(Front(stack))
  BY <1>2, PopStack, SudoPop DEF SudoInv
<1>4. \/ stack' = Front(stack)
      \/ \E c : stack' = Append(Front(stack), c) /\ c.at \notin Shells
  <2>1. /\ Plain("user").at \notin Shells
        /\ \A name : Call("group", 0, name).at \notin Shells
    BY DEF Plain, Call, Shells
  <2> QED BY <2>1, Zenon DEF setup_root, setup_user, setup_group, Return, Becomes
<1>5. ShellsBelow(stack')
  BY <1>3, <1>4, SudoPush
<1> QED BY <1>1, <1>5, SudoDialogue DEF SetUp, Shells

\* The login.
LEMMA SudoLogin ==
    ASSUME SessionInv, SudoInv, shell_init \/ login_failed \/ \E i \in Slots : login_ok(i)
    PROVE  SudoInv'
<1>1. Top.at \in {"init", "login"} /\ (UNCHANGED sudo_elevated \/ ~sudo_elevated')
  BY DEF shell_init, login_failed, login_ok, user_login, session
<1>2. StackInv(stack) /\ Len(stack) > 1 /\ ShellsBelow(stack)
  BY <1>1, BelowTop DEF SessionInv, SudoInv
<1>3. StackInv(Front(stack)) /\ ShellsBelow(Front(stack))
  BY <1>2, PopStack, SudoPop
<1>4. \/ stack' = Front(stack)
      \/ \E c : stack' = Append(Front(stack), c) /\ c.at \notin Shells
      \/ \E c : stack' = Append(stack, c) /\ c.at \notin Shells
      \/ stack' = <<Plain("halted")>>
  <2>1. Plain("login").at \notin Shells
    BY DEF Plain, Call, Shells
  <2>2. Top.at = "login" => [Top EXCEPT !.n = @ + 1].at \notin Shells
    <3>1. Top \in Calls
      BY <1>2 DEF StackInv, Top, Last
    <3> QED BY <3>1 DEF Calls, Shells
  <2> QED BY <2>1, <2>2, Zenon DEF shell_init, login_failed, login_ok, Return, Becomes
<1>5. ShellsBelow(<<Plain("halted")>>)
  BY DEF ShellsBelow
<1>6. ShellsBelow(stack')
  BY <1>2, <1>3, <1>4, <1>5, SudoPush
<1> QED BY <1>1, <1>6, SudoDialogue DEF Shells

\* A terminal switch.
LEMMA SudoSwitch ==
    ASSUME SessionInv, SudoInv, NEW n \in Ttys, tty_switch(n)
    PROVE  SudoInv'
<1>1. sudo_elevated' = sudo_elevated /\ sudo_shell' = sudo_shell
  BY DEF tty_switch, session
<1>2. CASE stack' = stack
  BY <1>1, <1>2 DEF SudoInv, Top, Last, InSudo, ShellsBelow
<1>3. CASE stack' = ShellInit(stack) /\ ~logged_in
  <2>1. Top.at \notin Shells
    BY <1>3 DEF SessionInv, ShellNeverEnds
  <2>2. ShellsBelow(stack')
    BY <1>3, SudoShellInit DEF SessionInv, SudoInv
  <2> QED BY <1>1, <2>1, <2>2, SudoDialogue
<1> QED BY <1>2, <1>3 DEF tty_switch

\* The commands: sudo itself, and all that can run in it.
LEMMA SudoCommand ==
    ASSUME SessionInv, SudoInv,
           \/ \E name \in Accounts : cmd_userdel(name)
           \/ \E name \in Accounts, sudo \in BOOLEAN : cmd_useradd(name, sudo)
           \/ sudo_i \/ cmd_sudo \/ sudo_drop \/ OtherCommand
           \/ cmd_exec_script \/ script_end \/ cmd_exit
    PROVE  SudoInv'
<1>0. StackInv(stack) /\ ShellsBelow(stack) /\ stack \in Seq(Calls) /\ Len(stack) \in Nat
  BY DEF SessionInv, SudoInv, StackInv
<1>1. ASSUME Running
      PROVE  /\ StackInv(Caller) /\ ShellsBelow(Caller) /\ Last(Caller).at \in Shells
             /\ InSudo(stack) => InSudo(Caller)
  <2>1. StackInv(Caller) /\ Last(Caller).at \in Shells
    BY <1>1, CallerStack
  <2>2. CASE Top.at = "sudo"
    <3>1. Len(stack) > 1
      BY <1>0, <2>2, BelowTop
    <3>2. /\ StackInv(Front(stack)) /\ ShellsBelow(Front(stack))
          /\ Last(Front(stack)).at \in Shells
      BY <1>0, <2>2, <3>1, PopStack, SudoPop DEF Top, Shells
    <3>3. Plain("sudo_end").at = "sudo_end"
      BY DEF Plain, Call
    <3>4. /\ ShellsBelow(Append(Front(stack), Plain("sudo_end")))
          /\ InSudo(Append(Front(stack), Plain("sudo_end")))
      BY <3>2, <3>3, SudoPush
    <3> QED BY <2>1, <2>2, <3>4 DEF Caller
  <2>3. CASE Top.at # "sudo"
    BY <1>0, <2>1, <2>3 DEF Caller
  <2> QED BY <2>2, <2>3, <2>1
<1>2. ASSUME Running, stack' = Caller,
             sudo_elevated' => sudo_shell' \/ (sudo_elevated /\ (sudo_shell => sudo_shell'))
      PROVE  SudoInv'
  BY <1>1, <1>2 DEF SudoInv, Top
<1>3. ASSUME NEW c, Running, stack' = Append(Caller, c), c.at \in Shells \/ ~sudo_elevated',
             c.at \in Shells \cup {"login"},
             sudo_elevated' => c.at = "sudo" \/ (sudo_elevated /\ (sudo_shell => sudo_shell'))
      PROVE  SudoInv'
  <2>1. /\ ShellsBelow(Append(Caller, c)) /\ Last(Append(Caller, c)) = c
        /\ InSudo(Caller) \/ c.at \in {"sudo", "sudo_end"} => InSudo(Append(Caller, c))
    BY <1>1, <1>3, SudoPush
  <2> QED BY <1>1, <1>3, <2>1 DEF SudoInv, Top
<1>4. ASSUME NEW name \in Accounts, cmd_userdel(name) PROVE SudoInv'
  BY <1>2, <1>4 DEF cmd_userdel, user_del, user_logout, session
<1>5. ASSUME NEW name \in Accounts, NEW sudo \in BOOLEAN, cmd_useradd(name, sudo)
      PROVE  SudoInv'
  BY <1>2, <1>5 DEF cmd_useradd, session
<1>6. CASE sudo_i
  BY <1>2, <1>6 DEF sudo_i
<1>7. CASE cmd_sudo
  <2>1. Plain("sudo").at = "sudo" /\ "sudo" \in Shells
    BY DEF Plain, Call, Shells
  <2> QED BY <1>3, <1>7, <2>1 DEF cmd_sudo
<1>8. CASE sudo_drop
  <2>1. Top.at = "sudo_end" /\ sudo_elevated' = FALSE /\ stack' = Front(stack)
    BY <1>8 DEF sudo_drop, Return
  <2>2. ShellsBelow(stack')
    BY <1>0, <2>1, BelowTop, SudoPop
  <2> QED BY <2>1, <2>2 DEF SudoInv
<1>9. CASE OtherCommand
  BY <1>2, <1>9 DEF OtherCommand, Running, session
<1>10. CASE cmd_exec_script
  <2>1. Plain("run").at = "run" /\ "run" \in Shells
    BY DEF Plain, Call, Shells
  <2> QED BY <1>3, <1>10, <2>1 DEF cmd_exec_script, session
<1>11. CASE script_end
  <2>1. /\ Top.at = "run" /\ Len(stack) > 1 /\ stack' = Front(stack)
        /\ sudo_elevated' = sudo_elevated /\ sudo_shell' = sudo_shell
    BY <1>11 DEF script_end, Return, session
  <2>2. /\ ShellsBelow(stack') /\ Last(stack').at \in Shells
        /\ InSudo(stack) => InSudo(stack')
    BY <1>0, <2>1, SudoPop DEF Top, Shells
  <2> QED BY <2>1, <2>2 DEF SudoInv, Top
<1>12. CASE cmd_exit
  <2>1. Running /\ ~sudo_elevated'
    BY <1>12 DEF cmd_exit, user_logout
  <2>2. Plain("login").at = "login"
    BY DEF Plain, Call
  <2>3. stack' = Caller \/ stack' = Append(Caller, Plain("login"))
    BY <1>12 DEF cmd_exit
  <2> QED BY <1>2, <1>3, <2>1, <2>2, <2>3
<1> QED BY <1>4, <1>5, <1>6, <1>7, <1>8, <1>9, <1>10, <1>11, <1>12

\* The elevation of a sudo command ends with the command (cmd_sudo), at every
\* depth of scripts, sudo and logins inside each other.
THEOREM SudoAlwaysEnds == SessionSpec => []SudoEnds
<1>1. SessionInit => SudoInv
  <2> SUFFICES ASSUME SessionInit PROVE SudoInv
    OBVIOUS
  <2>1. StackInv(<<Plain("run")>>) /\ ShellsBelow(<<Plain("run")>>)
    <3>1. Plain("run") \in Calls /\ Plain("run").at = "run"
      BY PlainCall DEF Shells
    <3> QED BY <3>1 DEF StackInv, ShellsBelow
  <2>2. ShellsBelow(stack)
    BY <2>1, SudoShellInit DEF SessionInit
  <2> QED BY <2>2 DEF SudoInv, SessionInit
<1>2. SessionInv /\ SudoInv /\ [SessionNext]_sessionVars => SudoInv'
  <2> SUFFICES ASSUME SessionInv, SudoInv, [SessionNext]_sessionVars PROVE SudoInv'
    OBVIOUS
  <2>1. CASE UNCHANGED sessionVars
    BY <2>1 DEF sessionVars, session, SudoInv, Top, Last, InSudo, ShellsBelow
  <2>2. CASE SessionNext
    BY <2>2, SudoSetUp, SudoLogin, SudoCommand, SudoSwitch DEF SessionNext
  <2> QED BY <2>1, <2>2
<1>3. SessionInv /\ SudoInv => SudoEnds
  BY DEF SudoInv, SudoEnds, InSudo, SessionInv, StackInv
<1> QED BY <1>1, <1>2, <1>3, SessionInvariant, PTL DEF SessionSpec

-----------------------------------------------------------------------------
(* Lines of the shell *)

\* A line is a sequence of characters that is not too long.
LEMMA LineIsSeq ==
    ASSUME NEW s
    PROVE  s \in Lines <=> s \in Seq(Chars) /\ Len(s) <= MaxWidth
<1>0. MaxWidth \in Nat
  BY HistoryAssumption
<1>1. ASSUME s \in Lines PROVE s \in Seq(Chars) /\ Len(s) <= MaxWidth
  <2>1. PICK n \in 0 .. MaxWidth : s \in [1 .. n -> Chars]
    BY <1>1 DEF Lines
  <2>2. s \in Seq(Chars) /\ Len(s) = n
    BY <1>0, <2>1
  <2> QED BY <1>0, <2>1, <2>2
<1>2. ASSUME s \in Seq(Chars), Len(s) <= MaxWidth PROVE s \in Lines
  <2>1. Len(s) \in 0 .. MaxWidth /\ s \in [1 .. Len(s) -> Chars]
    BY <1>0, <1>2
  <2> QED BY <2>1 DEF Lines
<1> QED BY <1>1, <1>2

\* The empty line is one.
LEMMA EmptyLine == <<>> \in Lines
<1>1. <<>> \in Seq(Chars)
  BY EmptySeq
<1>2. Len(<<>>) <= MaxWidth
  BY HistoryAssumption
<1> QED BY <1>1, <1>2, LineIsSeq, Zenon

\* A part of a line is a line.
LEMMA PartIsLine ==
    ASSUME NEW s \in Lines, NEW a \in 1 .. Len(s) + 1, NEW b \in a - 1 .. Len(s)
    PROVE  /\ SubSeq(s, a, b) \in Lines /\ SubSeq(s, a, b) \in Seq(Chars)
           /\ Len(SubSeq(s, a, b)) = b - a + 1
<1>1. s \in Seq(Chars) /\ Len(s) \in Nat /\ Len(s) <= MaxWidth /\ MaxWidth \in Nat
  <2>1. s \in Seq(Chars) /\ Len(s) <= MaxWidth
    BY LineIsSeq
  <2>2. MaxWidth \in Nat
    BY HistoryAssumption
  <2> QED BY <2>1, <2>2
<1>2. a \in Nat /\ b \in Nat
  BY <1>1
<1>3. /\ SubSeq(s, a, b) \in Seq(Chars)
      /\ Len(SubSeq(s, a, b)) = b - a + 1
  <2>1. \A i \in a .. b : s[i] \in Chars
    BY <1>1, <1>2
  <2> QED BY <1>1, <1>2, <2>1, SubSeqProperties, Z3
<1>4. b - a + 1 <= MaxWidth
  BY <1>1, <1>2
<1> QED BY <1>3, <1>4, LineIsSeq

\* What is shown of a command fits the row.
LEMMA FittingFits ==
    ASSUME NEW cmd \in Lines, max_len \in Widths
    PROVE  /\ Fitting(cmd) \in Lines /\ Len(Fitting(cmd)) \in Nat
           /\ Len(Fitting(cmd)) <= max_len
<1>1. cmd \in Seq(Chars) /\ Len(cmd) \in Nat /\ max_len \in Nat /\ max_len > 0
  BY LineIsSeq, HistoryAssumption
<1> DEFINE n == IF Len(cmd) < max_len THEN Len(cmd) ELSE max_len
<1>2. n \in Nat /\ n <= Len(cmd) /\ n <= max_len
  BY <1>1
<1> HIDE DEF n
<1>3. 1 \in 1 .. Len(cmd) + 1 /\ n \in 1 - 1 .. Len(cmd)
  BY <1>1, <1>2
<1>4. SubSeq(cmd, 1, n) \in Lines /\ Len(SubSeq(cmd, 1, n)) = n - 1 + 1
  BY <1>3, PartIsLine
<1>5. Fitting(cmd) = SubSeq(cmd, 1, n)
  BY DEF Fitting, n
<1> QED BY <1>2, <1>4, <1>5

\* Skipping the blanks leaves a line.
LEMMA StrippedIsLine ==
    ASSUME NEW s \in Lines
    PROVE  Stripped(s) \in Lines
<1> DEFINE ks == {k \in 1 .. Len(s) : s[k] # " "}
<1>1. s \in Seq(Chars) /\ Len(s) \in Nat
  BY LineIsSeq
<1>2. CASE ks = {}
  BY <1>2, EmptyLine DEF Stripped
<1>3. CASE ks # {}
  <2>1. ks \in SUBSET Nat
    <3>1. ks \subseteq 1 .. Len(s)
      BY Zenon
    <3>2. 1 .. Len(s) \subseteq Nat
      BY <1>1
    <3> QED BY <3>1, <3>2, Zenon
  <2>2. Min(ks) \in ks
    BY <1>3, <2>1, MinIsLeast
  <2>3. Min(ks) \in 1 .. Len(s)
    BY <2>2
  <2>4. Stripped(s) = SubSeq(s, Min(ks), Len(s))
    BY <1>3 DEF Stripped
  <2> HIDE DEF ks
  <2>5. Min(ks) \in 1 .. Len(s) + 1 /\ Len(s) \in Min(ks) - 1 .. Len(s)
    BY <1>1, <2>3
  <2>6. SubSeq(s, Min(ks), Len(s)) \in Lines
    BY <2>5, PartIsLine
  <2> QED BY <2>4, <2>6
<1> QED BY <1>2, <1>3

-----------------------------------------------------------------------------
(* The ring *)

\* A ring as history_add takes and returns it.
RingOK(r) ==
    /\ r.slots \in [0 .. Size - 1 -> Lines]
    /\ r.count \in 0 .. Size /\ r.index \in 0 .. Size - 1
    /\ r.current \in -1 .. r.count - 1

\* Indexes of the ring are slots.
LEMMA ModuloIsSlot ==
    ASSUME NEW x \in Int
    PROVE  x % Size \in 0 .. Size - 1
BY HistoryAssumption

\* history_add keeps the ring sound; and what it adds resets the cursor.
LEMMA AddKeepsRing ==
    ASSUME NEW r, RingOK(r), NEW cmd \in Lines
    PROVE  /\ RingOK(history_add(r, cmd))
           /\ history_add(r, cmd) = r \/ history_add(r, cmd).current = -1
<1> DEFINE new == [slots |-> [r.slots EXCEPT ![r.index] = cmd],
                   count |-> IF r.count < Size THEN r.count + 1 ELSE r.count,
                   index |-> (r.index + 1) % Size,
                   current |-> -1]
<1>1. Size \in Nat /\ Size > 0
  BY HistoryAssumption
<1>2. history_add(r, cmd) = r \/ history_add(r, cmd) = new
  BY DEF history_add
<1>3. (r.index + 1) % Size \in 0 .. Size - 1
  <2>1. r.index + 1 \in Int
    BY <1>1 DEF RingOK
  <2> QED BY <2>1, ModuloIsSlot, Zenon
<1>4. (IF r.count < Size THEN r.count + 1 ELSE r.count) \in 0 .. Size
  BY <1>1 DEF RingOK
<1>5. [r.slots EXCEPT ![r.index] = cmd] \in [0 .. Size - 1 -> Lines]
  BY DEF RingOK
<1>6. -1 \in -1 .. new.count - 1
  BY <1>1, <1>4
<1>7. RingOK(new) /\ new.current = -1
  BY <1>3, <1>4, <1>5, <1>6 DEF RingOK
<1> QED BY <1>2, <1>7

\* The same for a command and what it is an alias of.
LEMMA RememberKeepsRing ==
    ASSUME NEW r, RingOK(r), NEW cmd \in Lines
    PROVE  /\ RingOK(Remembered(r, cmd))
           /\ Remembered(r, cmd) = r \/ Remembered(r, cmd).current = -1
<1>1. /\ RingOK(history_add(r, cmd))
      /\ history_add(r, cmd) = r \/ history_add(r, cmd).current = -1
  BY AddKeepsRing
<1>2. CASE cmd \in DOMAIN Aliases
  <2>1. Aliases[cmd] \in Lines
    BY <1>2, HistoryAssumption
  <2> DEFINE one == history_add(r, cmd)
  <2>2. /\ RingOK(history_add(one, Aliases[cmd]))
        /\ history_add(one, Aliases[cmd]) = one \/ history_add(one, Aliases[cmd]).current = -1
    <3> HIDE DEF one
    <3>1. RingOK(one)
      BY <1>1 DEF one
    <3> QED BY <2>1, <3>1, AddKeepsRing
  <2> QED BY <1>1, <1>2, <2>2 DEF Remembered
<1>3. CASE cmd \notin DOMAIN Aliases
  BY <1>1, <1>3 DEF Remembered
<1> QED BY <1>2, <1>3

\* The variables are a sound ring.
LEMMA RingOfVariables ==
    ASSUME EditorTypeOK
    PROVE  /\ RingOK(Ring) /\ Ring.slots = history /\ Ring.count = history_count
           /\ Ring.index = history_index /\ Ring.current = history_current
BY DEF EditorTypeOK, RingOK, Ring

\* The i-th oldest entry is a line.
LEMMA EntryIsLine ==
    ASSUME EditorTypeOK, NEW k \in Int
    PROVE  history[Slot(k)] \in Lines
<1>1. history_index \in Int /\ history_count \in Int
  BY HistoryAssumption DEF EditorTypeOK
<1>2. Slot(k) \in 0 .. Size - 1
  BY <1>1, ModuloIsSlot DEF Slot
<1> QED BY <1>2 DEF EditorTypeOK

-----------------------------------------------------------------------------
(* The keys *)

\* A key that shows s, which fits the row, and moves the cursor of the history.
LEMMA ShowStep ==
    ASSUME EditorTypeOK, NEW s \in Lines, Len(s) <= max_len, Show(s),
           history_current' \in -1 .. history_count - 1, UNCHANGED <<ring, max_len>>
    PROVE  EditorTypeOK'
<1>1. Len(s) \in Nat /\ Len(s) \in 0 .. Len(s)
  BY LineIsSeq
<1> QED BY <1>1 DEF EditorTypeOK, Show, ring

\* Up and Down.
LEMMA ArrowStep ==
    ASSUME EditorTypeOK, KeyUp \/ KeyDown
    PROVE  EditorTypeOK'
<1>0. /\ history_count \in Nat /\ history_current \in Int /\ history_current >= -1
      /\ history_current <= history_count - 1 /\ max_len \in Widths /\ max_len \in Nat
      /\ history_current \in -1 .. history_count - 1
  BY HistoryAssumption DEF EditorTypeOK
<1>1. UNCHANGED <<ring, max_len>>
  BY DEF KeyUp, KeyDown
<1>2. ASSUME NEW k \in 0 .. history_count - 1, history_current' = k, Show(Fitting(history[Slot(k)]))
      PROVE  EditorTypeOK'
  <2>1. k \in Int /\ k \in -1 .. history_count - 1
    BY <1>0
  <2>2. history[Slot(k)] \in Lines
    BY <2>1, EntryIsLine
  <2>3. /\ Fitting(history[Slot(k)]) \in Lines
        /\ Len(Fitting(history[Slot(k)])) <= max_len
    BY <1>0, <2>2, FittingFits
  <2> QED BY <1>1, <1>2, <2>1, <2>3, ShowStep
<1>3. ASSUME NEW s \in Garbage, Show(s), history_current' = history_current
      PROVE  EditorTypeOK'
  BY <1>0, <1>1, <1>3, ShowStep DEF Garbage
<1>4. CASE UNCHANGED <<history_current, line, pos>>
  BY <1>1, <1>4 DEF EditorTypeOK, ring
<1>5. CASE history_current' = -1 /\ Show(<<>>)
  <2>1. <<>> \in Lines /\ Len(<<>>) <= max_len
    <3>1. Len(<<>>) <= max_len
      BY <1>0
    <3> QED BY <3>1, EmptyLine
  <2>2. -1 \in -1 .. history_count - 1
    BY <1>0
  <2> QED BY <1>1, <1>5, <2>1, <2>2, ShowStep
<1>6. CASE KeyUp
  <2>1. CASE history_count = 0
    BY <1>3, <1>4, <1>6, <2>1, Zenon DEF KeyUp
  <2>2. CASE history_count # 0
    <3> DEFINE k == IF history_current = -1 THEN history_count - 1
                    ELSE IF history_current > 0 THEN history_current - 1
                    ELSE history_current
    <3>1. history_current' = k /\ Show(Fitting(history[Slot(history_current')]))
      BY <1>6, <2>2 DEF KeyUp
    <3>2. k \in 0 .. history_count - 1
      BY <1>0, <2>2
    <3> HIDE DEF k
    <3>3. Show(Fitting(history[Slot(k)]))
      BY <3>1
    <3> QED BY <1>2, <3>1, <3>2, <3>3
  <2> QED BY <2>1, <2>2
<1>7. CASE KeyDown
  <2>1. CASE history_current = -1
    BY <1>3, <1>7, <2>1 DEF KeyDown
  <2>2. CASE history_current # -1 /\ history_current < history_count - 1
    <3> DEFINE k == history_current + 1
    <3>1. history_current' = k /\ Show(Fitting(history[Slot(history_current')]))
      BY <1>7, <2>2 DEF KeyDown
    <3>2. k \in 0 .. history_count - 1
      BY <1>0, <2>2
    <3> HIDE DEF k
    <3>3. Show(Fitting(history[Slot(k)]))
      BY <3>1
    <3> QED BY <1>2, <3>1, <3>2, <3>3
  <2>3. CASE history_current # -1 /\ ~(history_current < history_count - 1)
    BY <1>5, <1>7, <2>3 DEF KeyDown
  <2> QED BY <2>1, <2>2, <2>3
<1> QED BY <1>6, <1>7

\* Typing, erasing and moving about.
LEMMA EditStep ==
    ASSUME EditorTypeOK, (\E c \in Chars : Insert(c)) \/ Backspace \/ Delete \/ Move
    PROVE  EditorTypeOK'
<1>0. /\ line \in Lines /\ line \in Seq(Chars) /\ Len(line) \in Nat /\ pos \in 0 .. Len(line)
      /\ max_len \in Nat /\ Len(line) <= max_len /\ max_len <= MaxWidth /\ MaxWidth \in Nat
  BY LineIsSeq, HistoryAssumption DEF EditorTypeOK
<1>1. UNCHANGED <<ring, history_current, max_len>>
  BY DEF Insert, Backspace, Delete, Move
<1>2. ASSUME line' \in Seq(Chars), Len(line') <= max_len, pos' \in 0 .. Len(line')
      PROVE  EditorTypeOK'
  <2>1. line' \in Lines
    <3>1. Len(line') \in Nat
      BY <1>2
    <3>2. Len(line') <= MaxWidth
      BY <1>0, <1>2, <3>1
    <3> QED BY <1>2, <3>2, LineIsSeq
  <2> QED BY <1>1, <1>2, <2>1 DEF EditorTypeOK, ring
<1>3. ASSUME NEW k \in 0 .. Len(line)
      PROVE  /\ SubSeq(line, 1, k) \in Seq(Chars) /\ Len(SubSeq(line, 1, k)) = k
             /\ SubSeq(line, k + 1, Len(line)) \in Seq(Chars)
             /\ Len(SubSeq(line, k + 1, Len(line))) = Len(line) - k
  <2>1. /\ 1 \in 1 .. Len(line) + 1 /\ k \in 1 - 1 .. Len(line)
        /\ k + 1 \in 1 .. Len(line) + 1 /\ Len(line) \in (k + 1) - 1 .. Len(line)
    BY <1>0
  <2>2. SubSeq(line, 1, k) \in Seq(Chars) /\ Len(SubSeq(line, 1, k)) = k - 1 + 1
    BY <1>0, <2>1, PartIsLine
  <2>3. /\ SubSeq(line, k + 1, Len(line)) \in Seq(Chars)
        /\ Len(SubSeq(line, k + 1, Len(line))) = Len(line) - (k + 1) + 1
    BY <1>0, <2>1, PartIsLine
  <2> QED BY <1>0, <2>2, <2>3
<1>4. ASSUME NEW c \in Chars, Insert(c) PROVE EditorTypeOK'
  <2> DEFINE a == SubSeq(line, 1, pos)
             b == SubSeq(line, pos + 1, Len(line))
  <2>1. /\ a \in Seq(Chars) /\ Len(a) = pos /\ b \in Seq(Chars) /\ Len(b) = Len(line) - pos
    BY <1>0, <1>3
  <2>2. line' = a \o <<c>> \o b /\ pos' = pos + 1 /\ Len(line) < max_len
    <3>1. (pos + 1) - 1 = pos
      BY <1>0
    <3> QED BY <1>4, <3>1 DEF Insert, InsertAt
  <2> HIDE DEF a, b
  <2>3. line' \in Seq(Chars) /\ Len(line') = pos + 1 + (Len(line) - pos)
    <3> DEFINE d == a \o <<c>>
    <3>1. d \in Seq(Chars) /\ Len(d) = pos + 1
      BY <1>0, <2>1
    <3>2. line' = d \o b
      BY <2>2
    <3> HIDE DEF d
    <3>3. d \o b \in Seq(Chars) /\ Len(d \o b) = Len(d) + Len(b)
      BY <2>1, <3>1, ConcatProperties
    <3> QED BY <1>0, <2>1, <3>1, <3>2, <3>3
  <2>4. Len(line') <= max_len /\ pos' \in 0 .. Len(line')
    BY <1>0, <2>2, <2>3
  <2> QED BY <1>2, <2>3, <2>4
<1>5. ASSUME NEW k \in 1 .. Len(line), line' = RemoveAt(line, k), pos' \in 0 .. Len(line) - 1
      PROVE  EditorTypeOK'
  <2> DEFINE a == SubSeq(line, 1, k - 1)
             b == SubSeq(line, k + 1, Len(line))
  <2>1. a \in Seq(Chars) /\ Len(a) = k - 1
    <3>1. k - 1 \in 0 .. Len(line)
      BY <1>0
    <3> QED BY <1>3, <3>1
  <2>2. b \in Seq(Chars) /\ Len(b) = Len(line) - k
    <3>1. k \in 0 .. Len(line)
      BY <1>0
    <3> QED BY <1>3, <3>1
  <2>3. line' = a \o b
    BY <1>5 DEF RemoveAt
  <2> HIDE DEF a, b
  <2>4. line' \in Seq(Chars) /\ Len(line') = (k - 1) + (Len(line) - k)
    <3>1. a \o b \in Seq(Chars) /\ Len(a \o b) = Len(a) + Len(b)
      BY <2>1, <2>2, ConcatProperties
    <3> QED BY <1>0, <2>1, <2>2, <2>3, <3>1
  <2>5. Len(line') = Len(line) - 1
    BY <1>0, <2>4
  <2> QED BY <1>0, <1>2, <1>5, <2>4, <2>5
<1>6. CASE Backspace
  <2>1. pos \in 1 .. Len(line) /\ line' = RemoveAt(line, pos) /\ pos' \in 0 .. Len(line) - 1
    BY <1>0, <1>6 DEF Backspace
  <2> QED BY <1>5, <2>1
<1>7. CASE Delete
  <2>1. /\ pos + 1 \in 1 .. Len(line) /\ line' = RemoveAt(line, pos + 1)
        /\ pos' \in 0 .. Len(line) - 1
    BY <1>0, <1>7 DEF Delete
  <2> QED BY <1>5, <2>1
<1>8. CASE Move
  <2>1. line' = line /\ pos' \in 0 .. Len(line)
    BY <1>0, <1>8 DEF Move
  <2> QED BY <1>0, <1>2, <2>1
<1> QED BY <1>4, <1>6, <1>7, <1>8

\* Enter and Ctrl+C.
LEMMA PromptStep ==
    ASSUME EditorTypeOK, Enter \/ Cancel
    PROVE  EditorTypeOK'
<1>1. line' = <<>> /\ pos' = 0 /\ max_len' \in Widths
  <2>1. Len(<<>>) = 0
    OBVIOUS
  <2> QED BY <2>1 DEF Enter, Cancel, Prompt, Show
<1>2. line' \in Lines /\ Len(line') <= max_len' /\ pos' \in 0 .. Len(line')
  <2>1. max_len' \in Nat
    BY <1>1, HistoryAssumption
  <2>2. Len(line') = 0
    BY <1>1
  <2> QED BY <1>1, <2>1, <2>2, EmptyLine
<1>3. CASE Cancel
  BY <1>1, <1>2, <1>3 DEF Cancel, EditorTypeOK, ring
<1>4. CASE Enter
  <2> DEFINE r == Remembered(Ring, Stripped(line))
  <2>1. RingOK(r)
    <3>1. Stripped(line) \in Lines
      BY StrippedIsLine DEF EditorTypeOK
    <3> QED BY <3>1, RingOfVariables, RememberKeepsRing
  <2>2. /\ history' = r.slots /\ history_count' = r.count
        /\ history_index' = r.index /\ history_current' = r.current
    BY <1>4 DEF Enter
  <2> HIDE DEF r
  <2> QED BY <1>1, <1>2, <2>1, <2>2 DEF RingOK, EditorTypeOK
<1> QED BY <1>3, <1>4

-----------------------------------------------------------------------------
(* The log that the ring stands for *)

\* The commands of a ring, oldest first.
RingLog(r) == [i \in 1 .. r.count |-> r.slots[(r.index - r.count + (i - 1)) % Size]]

\* The slot of the i-th command of a ring with n of them that is filled next at x.
At(x, n, i) == IF x - n + (i - 1) >= 0 THEN x - n + (i - 1) ELSE x - n + (i - 1) + Size

\* Remainders of numbers that are near.
LEMMA NearRemainder ==
    ASSUME NEW b \in Nat \ {0}, NEW i \in 0 .. b - 1
    PROVE  i % b = i /\ (i + b) % b = i /\ (i - b) % b = i
OBVIOUS

\* The slots are numbered modulo their number.
LEMMA SlotIsAt ==
    ASSUME NEW x \in 0 .. Size - 1, NEW n \in 0 .. Size, NEW i \in 1 .. n
    PROVE  (x - n + (i - 1)) % Size = At(x, n, i) /\ At(x, n, i) \in 0 .. Size - 1
<1>0. Size \in Nat \ {0} /\ i \in Int /\ n \in Int /\ x \in Int
  BY HistoryAssumption
<1> DEFINE k == x - n + (i - 1)
<1>1. CASE k >= 0
  <2>1. k \in 0 .. Size - 1
    BY <1>0, <1>1
  <2>2. k % Size = k
    <3> HIDE DEF k
    <3> QED BY <1>0, <2>1, NearRemainder
  <2> QED BY <1>1, <2>1, <2>2 DEF At
<1>2. CASE k < 0
  <2> DEFINE j == k + Size
  <2>1. j \in 0 .. Size - 1 /\ j - Size = k /\ ~(k >= 0)
    BY <1>0, <1>2
  <2>2. (j - Size) % Size = j
    <3> HIDE DEF j
    <3> QED BY <1>0, <2>1, NearRemainder
  <2> QED BY <2>1, <2>2 DEF At
<1> QED BY <1>0, <1>1, <1>2

\* The slot that is filled next is the one behind the newest.
LEMMA NextSlot ==
    ASSUME NEW x \in 0 .. Size - 1
    PROVE  /\ (x + 1) % Size = IF x + 1 < Size THEN x + 1 ELSE 0
           /\ (x - 1 + Size) % Size = IF x > 0 THEN x - 1 ELSE Size - 1
<1>0. Size \in Nat \ {0}
  BY HistoryAssumption
<1>1. (x + 1) % Size = IF x + 1 < Size THEN x + 1 ELSE 0
  <2>1. CASE x + 1 < Size
    <3>1. x + 1 \in 0 .. Size - 1
      BY <1>0, <2>1
    <3> QED BY <1>0, <2>1, <3>1, NearRemainder
  <2>2. CASE ~(x + 1 < Size)
    <3>1. x + 1 = 0 + Size /\ 0 \in 0 .. Size - 1
      BY <1>0, <2>2
    <3>2. (0 + Size) % Size = 0
      BY <1>0, <3>1, NearRemainder
    <3> QED BY <2>2, <3>1, <3>2
  <2> QED BY <2>1, <2>2
<1>2. (x - 1 + Size) % Size = IF x > 0 THEN x - 1 ELSE Size - 1
  <2>1. CASE x > 0
    <3>1. x - 1 \in 0 .. Size - 1
      BY <1>0, <2>1
    <3> QED BY <1>0, <2>1, <3>1, NearRemainder
  <2>2. CASE ~(x > 0)
    <3>1. x - 1 + Size = Size - 1 /\ Size - 1 \in 0 .. Size - 1
      BY <1>0, <2>2
    <3> QED BY <1>0, <2>2, <3>1, NearRemainder
  <2> QED BY <2>1, <2>2
<1> QED BY <1>1, <1>2

\* The commands of a ring are lines.
LEMMA LogIsSeq ==
    ASSUME NEW r, RingOK(r)
    PROVE  /\ RingLog(r) = [i \in 1 .. r.count |-> r.slots[At(r.index, r.count, i)]]
           /\ RingLog(r) \in Seq(Lines) /\ Len(RingLog(r)) = r.count
<1>0. Size \in Nat \ {0} /\ r.count \in Nat /\ r.count \in 0 .. Size /\ r.index \in 0 .. Size - 1
  BY HistoryAssumption DEF RingOK
<1>1. ASSUME NEW i \in 1 .. r.count
      PROVE  /\ (r.index - r.count + (i - 1)) % Size = At(r.index, r.count, i)
             /\ At(r.index, r.count, i) \in 0 .. Size - 1
  BY <1>0, <1>1, SlotIsAt
<1>2. RingLog(r) = [i \in 1 .. r.count |-> r.slots[At(r.index, r.count, i)]]
  BY <1>1 DEF RingLog
<1>3. RingLog(r) \in [1 .. r.count -> Lines]
  BY <1>1, <1>2 DEF RingOK
<1> QED BY <1>0, <1>2, <1>3

\* What is kept when a command is appended: all of it, or all but the oldest.
LEMMA NewestIs ==
    ASSUME NEW s \in Seq(Lines), Len(s) <= Size, NEW cmd \in Lines
    PROVE  L!Newest(Append(s, cmd)) =
               IF Len(s) < Size THEN Append(s, cmd)
               ELSE [i \in 1 .. Size |-> IF i < Size THEN s[i + 1] ELSE cmd]
<1> DEFINE a == Append(s, cmd)
<1>0. Size \in Nat \ {0} /\ Len(s) \in Nat
  BY HistoryAssumption
<1>1. a \in Seq(Lines) /\ Len(a) = Len(s) + 1
      /\ a[Len(s) + 1] = cmd /\ \A i \in 1 .. Len(s) : a[i] = s[i]
  BY <1>0
<1> HIDE DEF a
<1>2. CASE Len(s) < Size
  <2>1. ~(Len(a) > Size)
    BY <1>0, <1>1, <1>2
  <2>2. SubSeq(a, 1, Len(a)) = a
    BY <1>1, SubSeqFull
  <2> QED BY <1>2, <2>1, <2>2 DEF L!Newest, a
<1>3. CASE Len(s) = Size
  <2>1. Len(a) > Size /\ Len(a) - Size + 1 = 2 /\ Len(a) = Size + 1 /\ ~(Len(s) < Size)
    BY <1>0, <1>1, <1>3
  <2> DEFINE b == SubSeq(a, 2, Size + 1)
             c == [i \in 1 .. Size |-> IF i < Size THEN s[i + 1] ELSE cmd]
  <2>2. L!Newest(a) = b
    BY <2>1 DEF L!Newest
  <2>3. /\ b \in Seq(Lines) /\ Len(b) = Size
        /\ \A i \in 1 .. Size : b[i] = a[i + 1]
    <3>1. \A i \in 2 .. Size + 1 : a[i] \in Lines
      BY <1>0, <1>1, <2>1
    <3>2. /\ b \in Seq(Lines)
          /\ Len(b) = IF 2 <= Size + 1 THEN (Size + 1) - 2 + 1 ELSE 0
          /\ \A i \in 1 .. (Size + 1) - 2 + 1 : b[i] = a[2 + i - 1]
      BY <1>0, <3>1, SubSeqProperties, Z3
    <3>3. (Size + 1) - 2 + 1 = Size /\ 2 <= Size + 1
      BY <1>0
    <3> HIDE DEF b
    <3>4. \A i \in 1 .. Size : b[i] = a[i + 1]
      <4> TAKE i \in 1 .. Size
      <4>1. 2 + i - 1 = i + 1
        BY <1>0
      <4> QED BY <3>2, <3>3, <4>1
    <3> QED BY <3>2, <3>3, <3>4
  <2> HIDE DEF b
  <2>4. b = [i \in 1 .. Size |-> b[i]]
    BY <1>0, <2>3
  <2>5. ASSUME NEW i \in 1 .. Size PROVE b[i] = IF i < Size THEN s[i + 1] ELSE cmd
    <3>1. CASE i < Size
      <4>1. i + 1 \in 1 .. Len(s)
        BY <1>0, <1>3, <3>1
      <4> QED BY <1>1, <2>3, <3>1, <4>1
    <3>2. CASE ~(i < Size)
      <4>1. i = Size
        BY <1>0, <3>2
      <4> QED BY <1>1, <1>3, <2>3, <3>2, <4>1
    <3> QED BY <3>1, <3>2
  <2>6. b = c
    BY <2>4, <2>5
  <2> QED BY <2>1, <2>2, <2>6 DEF a
<1> QED BY <1>0, <1>2, <1>3

\* history_add does to the ring what Remember does to the log.
LEMMA AddRemembers ==
    ASSUME NEW r, RingOK(r), NEW cmd \in Lines
    PROVE  LET q == history_add(r, cmd)
           IN  L!Remember([log |-> RingLog(r), cursor |-> r.current + 1], cmd)
                 = [log |-> RingLog(q), cursor |-> q.current + 1]
<1> DEFINE q == history_add(r, cmd)
           s == RingLog(r)
           n == r.count
           x == r.index
           rec == [log |-> s, cursor |-> r.current + 1]
<1>0. Size \in Nat \ {0} /\ n \in 0 .. Size /\ n \in Nat /\ x \in 0 .. Size - 1 /\ x \in Nat
      /\ r.slots \in [0 .. Size - 1 -> Lines]
  BY HistoryAssumption DEF RingOK
<1>1. /\ s = [i \in 1 .. n |-> r.slots[At(x, n, i)]]
      /\ s \in Seq(Lines) /\ Len(s) = n
  BY LogIsSeq
<1>2. RingOK(q)
  BY AddKeepsRing
<1>3. /\ RingLog(q) = [i \in 1 .. q.count |-> q.slots[At(q.index, q.count, i)]]
      /\ RingLog(q) \in Seq(Lines) /\ Len(RingLog(q)) = q.count
  BY <1>2, LogIsSeq
<1>4. (x - 1 + Size) % Size = IF x > 0 THEN x - 1 ELSE Size - 1
  BY <1>0, NextSlot
<1>5. ASSUME n > 0
      PROVE  L!Last(s) = r.slots[(x - 1 + Size) % Size] /\ s # <<>>
  <2>1. n \in 1 .. n
    BY <1>0, <1>5
  <2>2. At(x, n, n) = IF x > 0 THEN x - 1 ELSE Size - 1
    <3>1. x - n + (n - 1) = x - 1
      BY <1>0
    <3> QED BY <1>0, <3>1 DEF At
  <2>3. s[n] = r.slots[At(x, n, n)]
    BY <1>1, <2>1
  <2>4. L!Last(s) = s[Len(s)]
    BY DEF L!Last
  <2> HIDE DEF s, n
  <2>5. s # <<>>
    BY <1>0, <1>1, <1>5
  <2> QED BY <1>1, <1>4, <2>2, <2>3, <2>4, <2>5
<1>6. CASE n > 0 /\ r.slots[(x - 1 + Size) % Size] = cmd
  <2>1. q = r
    BY <1>6 DEF history_add
  <2>2. rec.log # <<>> /\ L!Last(rec.log) = cmd
    BY <1>5, <1>6
  <2>3. L!Remember(rec, cmd) = rec
    <3> HIDE DEF rec
    <3> QED BY <2>2 DEF L!Remember
  <2> QED BY <2>1, <2>3
<1>7. CASE ~(n > 0 /\ r.slots[(x - 1 + Size) % Size] = cmd)
  <2>1. q = [slots |-> [r.slots EXCEPT ![x] = cmd],
             count |-> IF n < Size THEN n + 1 ELSE n,
             index |-> (x + 1) % Size,
             current |-> -1]
    BY <1>7 DEF history_add
  <2> HIDE DEF q
  <2>2. /\ q.slots = [r.slots EXCEPT ![x] = cmd] /\ q.current = -1
        /\ q.count = IF n < Size THEN n + 1 ELSE n
        /\ q.index = (x + 1) % Size
    BY <2>1
  <2>3. q.index = IF x + 1 < Size THEN x + 1 ELSE 0
    BY <1>0, <2>2, NextSlot
  <2>4. L!Remember(rec, cmd) = [log |-> L!Newest(Append(s, cmd)), cursor |-> 0]
    <3>1. ~(rec.log # <<>> /\ L!Last(rec.log) = cmd)
      <4>1. CASE n > 0
        BY <1>5, <1>7, <4>1
      <4>2. CASE n = 0
        <5>1. s = <<>>
          BY <1>1, <4>2
        <5> QED BY <5>1
      <4> QED BY <1>0, <4>1, <4>2
    <3>2. rec.log = s
      OBVIOUS
    <3> HIDE DEF rec
    <3> QED BY <3>1, <3>2 DEF L!Remember
  <2> DEFINE w == L!Newest(Append(s, cmd))
  <2>5. w = IF n < Size THEN Append(s, cmd)
            ELSE [i \in 1 .. Size |-> IF i < Size THEN s[i + 1] ELSE cmd]
    <3>1. Len(s) <= Size
      BY <1>0, <1>1
    <3> QED BY <1>1, <3>1, NewestIs
  <2> HIDE DEF w
  <2>6. RingLog(q) = w
    <3>1. CASE n < Size
      <4>1. q.count = n + 1
        BY <2>2, <3>1
      <4>2. ASSUME NEW i \in 1 .. n
            PROVE  /\ At(q.index, n + 1, i) = At(x, n, i)
                   /\ At(x, n, i) \in 0 .. Size - 1 /\ At(x, n, i) # x
        <5> HIDE DEF x, n
        <5>1. x + 1 < Size \/ x + 1 = Size
          BY <1>0
        <5>2. CASE x + 1 < Size
          <6>1. q.index = x + 1
            BY <2>3, <5>2
          <6>2. x + 1 - (n + 1) + (i - 1) = x - n + (i - 1)
            BY <1>0
          <6>3. At(x + 1, n + 1, i) = At(x, n, i)
            BY <1>0, <6>2 DEF At
          <6>4. At(x, n, i) \in 0 .. Size - 1 /\ At(x, n, i) # x
            BY <1>0, <3>1 DEF At
          <6> QED BY <6>1, <6>3, <6>4
        <5>3. CASE x + 1 = Size
          BY <1>0, <2>3, <3>1, <5>3 DEF At
        <5> QED BY <5>1, <5>2, <5>3
      <4>3. At(q.index, n + 1, n + 1) = x
        BY <1>0, <2>3 DEF At
      <4>4. Append(s, cmd) = [i \in 1 .. n + 1 |-> IF i = n + 1 THEN cmd ELSE s[i]]
        BY <1>0, <1>1
      <4>5. ASSUME NEW i \in 1 .. n + 1
            PROVE  q.slots[At(q.index, n + 1, i)] = IF i = n + 1 THEN cmd ELSE s[i]
        <5>1. CASE i = n + 1
          BY <1>0, <2>2, <4>3, <5>1
        <5>2. CASE i # n + 1
          <6>1. i \in 1 .. n
            BY <1>0, <5>2
          <6>2. q.slots[At(x, n, i)] = r.slots[At(x, n, i)]
            BY <1>0, <2>2, <4>2, <6>1
          <6> QED BY <1>1, <4>2, <5>2, <6>1, <6>2
        <5> QED BY <5>1, <5>2
      <4> QED BY <1>3, <2>5, <3>1, <4>1, <4>4, <4>5
    <3>2. CASE n = Size
      <4>1. q.count = Size
        BY <1>0, <2>2, <3>2
      <4>2. ASSUME NEW i \in 1 .. Size, i < Size
            PROVE  At(x, Size, i + 1) \in 0 .. Size - 1 /\ At(x, Size, i + 1) # x
        <5> HIDE DEF x
        <5> QED BY <1>0, <4>2 DEF At
      <4>3. ASSUME NEW i \in 1 .. Size, i < Size
            PROVE  /\ At(q.index, Size, i) = At(x, Size, i + 1)
                   /\ At(x, Size, i + 1) \in 0 .. Size - 1 /\ At(x, Size, i + 1) # x
        <5> HIDE DEF x
        <5>1. x + 1 < Size \/ x + 1 = Size
          BY <1>0
        <5>2. CASE x + 1 < Size
          <6>1. q.index = x + 1
            BY <2>3, <5>2
          <6>2. x + 1 - Size + (i - 1) = x - Size + ((i + 1) - 1)
            BY <1>0
          <6>3. At(x + 1, Size, i) = At(x, Size, i + 1)
            BY <1>0, <6>2 DEF At
          <6> QED BY <6>1, <6>3, <4>2, <4>3
        <5>3. CASE x + 1 = Size
          <6>1. q.index = 0
            BY <1>0, <2>3, <5>3
          <6>2. At(0, Size, i) = At(x, Size, i + 1)
            <7>1. At(0, Size, i) = i - 1
              BY <1>0 DEF At
            <7>2. At(x, Size, i + 1) = i - 1
              BY <1>0, <5>3 DEF At
            <7> QED BY <7>1, <7>2
          <6> QED BY <6>1, <6>2, <4>2, <4>3
        <5> QED BY <5>1, <5>2, <5>3
      <4>4. At(q.index, Size, Size) = x
        BY <1>0, <2>3 DEF At
      <4>5. ASSUME NEW i \in 1 .. Size
            PROVE  q.slots[At(q.index, Size, i)] = IF i < Size THEN s[i + 1] ELSE cmd
        <5>1. CASE i < Size
          <6>1. i + 1 \in 1 .. n
            BY <1>0, <3>2, <5>1
          <6>2. q.slots[At(x, Size, i + 1)] = r.slots[At(x, Size, i + 1)]
            BY <1>0, <2>2, <4>3, <5>1
          <6> QED BY <1>1, <3>2, <4>3, <5>1, <6>1, <6>2
        <5>2. CASE ~(i < Size)
          <6>1. i = Size
            BY <1>0, <5>2
          <6> QED BY <1>0, <2>2, <4>4, <5>2, <6>1
        <5> QED BY <5>1, <5>2
      <4>6. ~(n < Size)
        BY <1>0, <3>2
      <4> QED BY <1>3, <2>5, <4>1, <4>5, <4>6
    <3> QED BY <1>0, <3>1, <3>2
  <2>7. q.current + 1 = 0
    BY <2>2
  <2> QED BY <2>4, <2>6, <2>7 DEF w, q
<1> QED BY <1>6, <1>7

-----------------------------------------------------------------------------

\* The line never outgrows its row nor the cursor the line, and the indexes of the
\* ring stay in it, whatever is typed, recalled and given.
THEOREM EditorTypeCorrect == EditorSpec => []EditorTypeOK
<1>1. EditorInit => EditorTypeOK
  <2> SUFFICES ASSUME EditorInit PROVE EditorTypeOK
    OBVIOUS
  <2>1. Size \in Nat /\ Size > 0 /\ max_len \in Widths /\ max_len \in Nat
    BY HistoryAssumption DEF EditorInit
  <2>2. history \in [0 .. Size - 1 -> Lines]
    BY EmptyLine DEF EditorInit
  <2>3. /\ history_count \in 0 .. Size /\ history_index \in 0 .. Size - 1
        /\ history_current \in -1 .. history_count - 1
    BY <2>1 DEF EditorInit
  <2>4. line \in Lines /\ Len(line) = 0 /\ pos = 0
    BY EmptyLine DEF EditorInit
  <2> QED BY <2>1, <2>2, <2>3, <2>4 DEF EditorTypeOK
<1>2. EditorTypeOK /\ [EditorNext]_editorVars => EditorTypeOK'
  <2> SUFFICES ASSUME EditorTypeOK, [EditorNext]_editorVars PROVE EditorTypeOK'
    OBVIOUS
  <2>1. CASE UNCHANGED editorVars
    BY <2>1 DEF editorVars, ring, EditorTypeOK
  <2>2. CASE EditorNext
    BY <2>2, EditStep, ArrowStep, PromptStep DEF EditorNext
  <2> QED BY <2>1, <2>2
<1> QED BY <1>1, <1>2, PTL DEF EditorSpec

\* While a command is recalled its slot is not filled with another: history_add
\* returns early or forgets the recall.
THEOREM RecalledEntryStays == EditorSpec => CursorOnEntry
<1>1. EditorTypeOK /\ [EditorNext]_editorVars =>
        [history_current # -1 /\ history_current' = history_current =>
            Entry(history_current)' = Entry(history_current)]_editorVars
  <2> SUFFICES ASSUME EditorTypeOK, EditorNext, history_current # -1,
                      history_current' = history_current
               PROVE  Entry(history_current)' = Entry(history_current)
    OBVIOUS
  <2>1. UNCHANGED ring
    <3>1. CASE Enter
      <4> DEFINE r == Remembered(Ring, Stripped(line))
      <4>1. r = Ring \/ r.current = -1
        <5>1. Stripped(line) \in Lines
          BY StrippedIsLine DEF EditorTypeOK
        <5> QED BY <5>1, RingOfVariables, RememberKeepsRing
      <4>2. /\ history' = r.slots /\ history_count' = r.count
            /\ history_index' = r.index /\ history_current' = r.current
        BY <3>1 DEF Enter
      <4> HIDE DEF r
      <4>3. r = Ring
        BY <4>1, <4>2
      <4> QED BY <4>2, <4>3, RingOfVariables DEF ring
    <3>2. CASE ~Enter
      BY <3>2 DEF EditorNext, Insert, Backspace, Delete, Move, KeyUp, KeyDown, Cancel
    <3> QED BY <3>1, <3>2
  <2> QED BY <2>1 DEF ring, Entry, Slot
<1> QED BY <1>1, EditorTypeCorrect, PTL DEF EditorSpec, CursorOnEntry

\* What Enter and an alias add is remembered in the log.
LEMMA RememberedIs ==
    ASSUME NEW r, RingOK(r), NEW cmd \in Lines
    PROVE  LET s == [log |-> RingLog(r), cursor |-> r.current + 1]
               one == L!Remember(s, cmd)
               q == Remembered(r, cmd)
           IN  [log |-> RingLog(q), cursor |-> q.current + 1]
                 = IF cmd \in DOMAIN Aliases THEN L!Remember(one, Aliases[cmd]) ELSE one
<1> DEFINE View(q) == [log |-> RingLog(q), cursor |-> q.current + 1]
           one == history_add(r, cmd)
<1>1. L!Remember(View(r), cmd) = View(one) /\ RingOK(one)
  BY AddRemembers, AddKeepsRing
<1>2. CASE cmd \in DOMAIN Aliases
  <2>1. Aliases[cmd] \in Lines
    BY <1>2, HistoryAssumption
  <2>2. Remembered(r, cmd) = history_add(one, Aliases[cmd])
    BY <1>2 DEF Remembered
  <2> HIDE DEF one
  <2>3. L!Remember(View(one), Aliases[cmd]) = View(history_add(one, Aliases[cmd]))
    BY <1>1, <2>1, AddRemembers
  <2> HIDE DEF View
  <2>4. View(Remembered(r, cmd)) = L!Remember(L!Remember(View(r), cmd), Aliases[cmd])
    BY <1>1, <2>2, <2>3
  <2> QED BY <1>2, <2>4 DEF View
<1>3. CASE cmd \notin DOMAIN Aliases
  BY <1>1, <1>3 DEF Remembered
<1> QED BY <1>2, <1>3

-----------------------------------------------------------------------------
(* Every key is a step of the log *)

\* The log in a state.
LEMMA LogOfRing ==
    ASSUME EditorTypeOK
    PROVE  /\ Log = RingLog(Ring) /\ Log \in Seq(Lines) /\ Len(Log) = history_count
           /\ \A i \in 1 .. history_count : Log[i] = history[Slot(i - 1)]
<1>1. RingOK(Ring) /\ Ring.count = history_count
  BY RingOfVariables
<1>2. Log = RingLog(Ring)
  BY RingOfVariables DEF Log, RingLog, Entry, Slot
<1>3. RingLog(Ring) \in Seq(Lines) /\ Len(RingLog(Ring)) = history_count
  BY <1>1, LogIsSeq
<1> QED BY <1>2, <1>3 DEF Log, Entry

\* Where the log and the width stay as they are, the keys only change the line.
LEMMA TypingStep ==
    ASSUME EditorTypeOK, EditorTypeOK', UNCHANGED <<ring, history_current, max_len>>
    PROVE  L!Type
<1>1. Log' = Log
  BY DEF Log, Entry, Slot, ring
<1>2. line' \in Lines /\ Len(line') <= max_len
  BY DEF EditorTypeOK
<1> QED BY <1>1, <1>2 DEF L!Type

\* Up and Down show what the log has.
LEMMA RecallStep ==
    ASSUME EditorTypeOK, EditorTypeOK', KeyUp \/ KeyDown
    PROVE  L!Type \/ L!Up \/ L!Down
<1>0. /\ history_count \in Nat /\ history_current \in Int /\ history_current >= -1
      /\ history_current <= history_count - 1 /\ history_current' \in Int
  BY HistoryAssumption DEF EditorTypeOK
<1>1. UNCHANGED <<ring, max_len>>
  BY DEF KeyUp, KeyDown
<1>2. Log' = Log
  BY <1>1 DEF Log, Entry, Slot, ring
<1>3. /\ Log \in Seq(Lines) /\ Len(Log) = history_count
      /\ \A i \in 1 .. history_count : Log[i] = history[Slot(i - 1)]
  BY LogOfRing
<1>4. ASSUME NEW k \in 0 .. history_count - 1, Show(Fitting(history[Slot(k)]))
      PROVE  line' = L!Cut(Log[k + 1])
  <2>1. k + 1 \in 1 .. history_count /\ (k + 1) - 1 = k
    BY <1>0
  <2>2. Log[k + 1] = history[Slot(k)]
    BY <1>3, <2>1
  <2> QED BY <1>4, <2>2 DEF Show, Fitting, L!Cut
<1>5. CASE UNCHANGED history_current
  BY <1>1, <1>5, TypingStep
<1>6. CASE history_current' # history_current /\ KeyUp
  <2> DEFINE k == IF history_current = -1 THEN history_count - 1
                  ELSE IF history_current > 0 THEN history_current - 1
                  ELSE history_current
  <2>1. history_count # 0 /\ history_current' = k /\ Show(Fitting(history[Slot(history_current')]))
    BY <1>6 DEF KeyUp
  <2>2. k \in 0 .. history_count - 1
    BY <1>0, <2>1
  <2>3. k + 1 = IF history_current + 1 = 0 THEN Len(Log)
                ELSE IF history_current + 1 > 1 THEN (history_current + 1) - 1 ELSE 1
    BY <1>0, <1>3
  <2> HIDE DEF k
  <2>4. line' = L!Cut(Log[k + 1])
    BY <1>4, <2>1, <2>2
  <2>5. Log # <<>>
    BY <1>0, <1>3, <2>1
  <2>6. L!Up
    BY <1>1, <1>2, <2>1, <2>3, <2>4, <2>5 DEF L!Up
  <2> QED BY <2>6
<1>7. CASE history_current' # history_current /\ KeyDown
  <2>1. history_current # -1
    BY <1>7 DEF KeyDown
  <2>2. CASE history_current < history_count - 1
    <3> DEFINE k == history_current + 1
    <3>1. history_current' = k /\ Show(Fitting(history[Slot(history_current')]))
      BY <1>7, <2>1, <2>2 DEF KeyDown
    <3>2. k \in 0 .. history_count - 1 /\ k < Len(Log) /\ k # 0
      BY <1>0, <1>3, <2>1, <2>2
    <3>3. line' = L!Cut(Log[k + 1])
      <4> HIDE DEF k
      <4> QED BY <1>4, <3>1, <3>2
    <3>4. L!Down
      BY <1>1, <1>2, <3>1, <3>2, <3>3 DEF L!Down
    <3> QED BY <3>4
  <2>3. CASE ~(history_current < history_count - 1)
    <3>1. history_current' = -1 /\ Show(<<>>)
      BY <1>7, <2>1, <2>3 DEF KeyDown
    <3>2. ~(history_current + 1 < Len(Log)) /\ history_current + 1 # 0
          /\ history_current' + 1 = 0
      BY <1>0, <1>3, <2>1, <2>3, <3>1
    <3>3. L!Down
      BY <1>1, <1>2, <3>1, <3>2 DEF L!Down, Show
    <3> QED BY <3>3
  <2> QED BY <2>2, <2>3
<1> QED BY <1>5, <1>6, <1>7

\* Enter gives the line, Ctrl+C drops it.
LEMMA GivenStep ==
    ASSUME EditorTypeOK, EditorTypeOK', Enter \/ Cancel
    PROVE  L!Give \/ L!Drop
<1>1. line' = <<>> /\ max_len' \in Widths
  BY DEF Enter, Cancel, Prompt, Show
<1>2. CASE Cancel
  <2>1. Log' = Log
    BY <1>2 DEF Cancel, Log, Entry, Slot, ring
  <2> QED BY <1>1, <1>2, <2>1 DEF Cancel, L!Drop
<1>3. CASE Enter
  <2> DEFINE cmd == Stripped(line)
             r == Remembered(Ring, cmd)
             s == [log |-> RingLog(Ring), cursor |-> Ring.current + 1]
             one == L!Remember(s, cmd)
  <2>1. cmd \in Lines /\ cmd # <<>>
    BY <1>3, StrippedIsLine DEF EditorTypeOK, Enter
  <2>2. /\ history' = r.slots /\ history_count' = r.count
        /\ history_index' = r.index /\ history_current' = r.current
    BY <1>3 DEF Enter
  <2>3. [log |-> RingLog(r), cursor |-> r.current + 1]
          = IF cmd \in DOMAIN Aliases THEN L!Remember(one, Aliases[cmd]) ELSE one
    <3>1. RingOK(Ring)
      BY RingOfVariables
    <3> HIDE DEF cmd
    <3> QED BY <2>1, <3>1, RememberedIs
  <2>4. s = [log |-> Log, cursor |-> history_current + 1]
    BY LogOfRing, RingOfVariables
  <2> HIDE DEF r
  <2>5. Log' = RingLog(r)
    BY <2>2 DEF Log, Entry, Slot, RingLog
  <2> HIDE DEF cmd, s
  <2>6. [log |-> Log', cursor |-> (history_current + 1)']
          = IF cmd \in DOMAIN Aliases THEN L!Remember(one, Aliases[cmd]) ELSE one
    BY <2>2, <2>3, <2>5
  <2>7. L!Give
    BY <1>1, <2>1, <2>4, <2>6 DEF L!Give, cmd
  <2> QED BY <2>7
<1> QED BY <1>2, <1>3

\* The ring with its wrapping indexes, its early return and its cursor is the plain
\* log of the last Size commands, for the editor and for every alias.
THEOREM RingImplementsLog == EditorSpec => ImplementsLog
<1>1. EditorInit => L!LogInit
  <2> SUFFICES ASSUME EditorInit PROVE L!LogInit
    OBVIOUS
  <2>1. Log = <<>>
    BY DEF EditorInit, Log
  <2>2. history_current + 1 = 0
    BY DEF EditorInit
  <2> QED BY <2>1, <2>2 DEF EditorInit, L!LogInit
<1>2. EditorTypeOK /\ EditorTypeOK' /\ [EditorNext]_editorVars =>
          [L!Type \/ L!Give \/ L!Drop \/ L!Up \/ L!Down]_(L!logVars)
  <2> SUFFICES ASSUME EditorTypeOK, EditorTypeOK', [EditorNext]_editorVars
               PROVE  [L!Type \/ L!Give \/ L!Drop \/ L!Up \/ L!Down]_(L!logVars)
    OBVIOUS
  <2>1. CASE UNCHANGED editorVars
    BY <2>1 DEF editorVars, ring, L!logVars, Log, Entry, Slot
  <2>2. CASE (\E c \in Chars : Insert(c)) \/ Backspace \/ Delete \/ Move
    <3>1. UNCHANGED <<ring, history_current, max_len>>
      BY <2>2 DEF Insert, Backspace, Delete, Move
    <3> QED BY <3>1, TypingStep
  <2> QED BY <2>1, <2>2, RecallStep, GivenStep DEF EditorNext
<1> QED BY <1>1, <1>2, EditorTypeCorrect, PTL DEF EditorSpec, ImplementsLog, L!LogSpec
=============================================================================
