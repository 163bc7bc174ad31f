----------------------------- MODULE ShellProofs -----------------------------
(***************************************************************************)
(* Proofs about module Shell, for any aliases, files, lines and sizes of     *)
(* stack frames that the assumptions allow: what it takes to overflow the     *)
(* stack, and what an alias stands for.                                      *)
(***************************************************************************)
EXTENDS Shell, FiniteSetTheorems, SequenceTheorems, TLAPS

\* The two folds of module Shell: the words of a line, and the aliases that
\* shell_init puts in again.
AddWord(e, ws, w) == IF w = Blank THEN ws ELSE Append(ws, w)

IsArgs(e, args) == args \in Seq(Words)

W == INSTANCE Induction WITH Op <- AddWord, Good <- IsArgs

\* The names that the table can keep.
Short == {Cut[w] : w \in Words}

Entries == [name : Short, value : Lines]

AddAgain(e, t, a) == add_alias(t, a.name, a.value)

IsTable(e, t) == t \in Seq(Entries)

G == INSTANCE Induction WITH Op <- AddAgain, Good <- IsTable

LEMMA AgainFolds ==
    ASSUME NEW t, NEW s
    PROVE  FoldLeft(LAMBDA u, a : add_alias(u, a.name, a.value), t, s) = G!Fold(0, t, s)
BY DEF G!Fold, FoldLeft, MapThenFoldSet, Max,
       G!FoldLeft, G!MapThenFoldSet, G!Max, AddAgain

LEMMA MinIsLeast ==
    ASSUME NEW S \in SUBSET Nat, S # {}
    PROVE  /\ Min(S) \in S
           /\ \A x \in S : Min(S) <= x
BY W!MinIsLeast DEF Min, W!Min

LEMMA MaxIsThere ==
    ASSUME NEW n \in Nat, NEW S \in SUBSET (1 .. n), S # {}
    PROVE  Max(S) \in S
<1> DEFINE B == {b \in Nat : \A x \in S : x <= b}
           m == Min(B)
<1>1. n \in B /\ B \in SUBSET Nat
  OBVIOUS
<1>2. m \in B /\ \A b \in B : m <= b
  BY <1>1, MinIsLeast
<1> HIDE DEF m
<1>3. m \in S
  <2> SUFFICES ASSUME m \notin S PROVE FALSE
    OBVIOUS
  <2>1. \A x \in S : x <= m - 1 /\ x >= 1
    BY <1>2
  <2>2. m - 1 \in B
    <3>1. PICK x \in S : TRUE
      OBVIOUS
    <3>2. m - 1 \in Nat
      BY <1>2, <2>1, <3>1
    <3> QED BY <2>1, <3>2
  <2> QED BY <1>2, <2>2
<1>4. \A x \in S : m >= x
  BY <1>2
<1> QED BY <1>3, <1>4 DEF Max

-----------------------------------------------------------------------------
(* Lines *)

\* A piece of a line is a line.
LEMMA PieceIsLine ==
    ASSUME NEW l \in Lines, NEW a \in Nat \ {0}, NEW b \in 0 .. Len(l)
    PROVE  SubSeq(l, a, b) \in Lines
BY DEF Lines

\* The first and the last word of a line are in it.
LEMMA InkIsThere ==
    ASSUME NEW l \in Lines, Inked(l) # {}
    PROVE  Min(Inked(l)) \in Nat \ {0} /\ Max(Inked(l)) \in 0 .. Len(l)
<1>1. Len(l) \in Nat /\ Inked(l) \subseteq 1 .. Len(l)
  BY DEF Inked, Lines
<1>2. Inked(l) \in SUBSET Nat
  BY <1>1
<1>3. Min(Inked(l)) \in Inked(l)
  BY <1>2, MinIsLeast
<1>4. Max(Inked(l)) \in Inked(l)
  BY <1>1, MaxIsThere
<1> QED BY <1>1, <1>3, <1>4

\* A line without its first blanks is a line.
LEMMA TrimmedIsLine ==
    ASSUME NEW l \in Lines
    PROVE  Trimmed(l) \in Lines
<1>1. CASE Inked(l) = {}
  BY <1>1, EmptySeq DEF Trimmed, Lines
<1>2. CASE Inked(l) # {}
  <2>1. Len(l) \in 0 .. Len(l)
    BY DEF Lines
  <2> QED BY <1>2, <2>1, InkIsThere, PieceIsLine DEF Trimmed
<1> QED BY <1>1, <1>2

LEMMA TrimmedBothIsLine ==
    ASSUME NEW l \in Lines
    PROVE  TrimmedBoth(l) \in Lines
<1>1. CASE Inked(l) = {}
  BY <1>1, EmptySeq DEF TrimmedBoth, Lines
<1>2. CASE Inked(l) # {}
  BY <1>2, InkIsThere, PieceIsLine DEF TrimmedBoth
<1> QED BY <1>1, <1>2

\* The arguments are words.
LEMMA ArgsAreWords ==
    ASSUME NEW l \in Lines
    PROVE  parse_command(l) \in Seq(Words)
<1>1. Len(l) \in Nat /\ DOMAIN l = 1 .. Len(l)
  BY DEF Lines
<1>2. ASSUME NEW k \in 1 .. Len(l), NEW x, IsArgs(0, x)
      PROVE  IsArgs(0, AddWord(0, x, l[k]))
  <2>1. l[k] \in Words \cup {Blank}
    BY DEF Lines
  <2> QED BY <1>2, <2>1 DEF IsArgs, AddWord
<1>3. IsArgs(0, <<>>)
  BY EmptySeq DEF IsArgs
<1>4. IsArgs(0, W!Fold(0, <<>>, l))
  BY <1>1, <1>2, <1>3, W!FoldGood
<1> DEFINE ws == W!Fold(0, <<>>, l)
<1>5. parse_command(l) = IF Len(ws) < MaxArgs THEN ws ELSE SubSeq(ws, 1, MaxArgs - 1)
  BY DEF parse_command, W!Fold, FoldLeft, MapThenFoldSet, Max,
         W!FoldLeft, W!MapThenFoldSet, W!Max, AddWord
<1>6. ws \in Seq(Words)
  BY <1>4 DEF IsArgs
<1> HIDE DEF ws
<1>7. CASE Len(ws) < MaxArgs
  BY <1>5, <1>6, <1>7
<1>8. CASE ~(Len(ws) < MaxArgs)
  <2>1. MaxArgs - 1 \in Nat /\ MaxArgs - 1 <= Len(ws)
    BY <1>6, <1>8, ShellAssumption
  <2>2. SubSeq(ws, 1, MaxArgs - 1) \in Seq(Words)
    BY <1>6, <2>1
  <2> QED BY <1>5, <1>8, <2>2
<1> QED BY <1>7, <1>8

\* The line of a command that is run through sudo is a line.
LEMMA JoinedIsLine ==
    ASSUME NEW ws \in Seq(Words)
    PROVE  Joined(ws) \in Lines
<1> DEFINE n == Len(ws)
           f == [k \in 1 .. 2 * n - 1 |-> IF k % 2 = 1 THEN ws[(k + 1) \div 2] ELSE Blank]
<1>1. n \in Nat
  OBVIOUS
<1>2. ASSUME NEW k \in 1 .. 2 * n - 1
      PROVE  f[k] \in Words \cup {Blank}
  <2>1. f[k] = IF k % 2 = 1 THEN ws[(k + 1) \div 2] ELSE Blank
    BY <1>2
  <2>2. (k + 1) \div 2 \in 1 .. n
    <3> HIDE DEF f, n
    <3> QED BY <1>1
  <2>3. ws[(k + 1) \div 2] \in Words
    BY <2>2
  <2> HIDE DEF f
  <2> QED BY <2>1, <2>3
<1>3. CASE n = 0
  <2>1. 1 .. 2 * n - 1 = 1 .. 0
    BY <1>3
  <2>2. f \in Seq(Words \cup {Blank})
    BY <1>2, <2>1
  <2> QED BY <2>2 DEF Joined, Lines
<1>4. CASE n > 0
  <2>1. 2 * n - 1 \in Nat
    BY <1>1, <1>4
  <2>2. f \in [1 .. 2 * n - 1 -> Words \cup {Blank}]
    BY <1>2
  <2> HIDE DEF f
  <2>3. f \in Seq(Words \cup {Blank})
    BY <2>1, <2>2
  <2> QED BY <2>3 DEF Joined, Lines, f
<1> QED BY <1>1, <1>3, <1>4

-----------------------------------------------------------------------------
(* The calls *)

Frames == [at : {"exec", "return", "script", "sudo", "login", "again"},
           line : Lines, lines : Seq(Lines)]

\* The kinds of calls that belong to execute_command, those that it makes and waits
\* for, and those of login_prompt.
X == {"exec", "return"}

Y == {"script", "sudo", "login"}

L == {"login", "again"}

\* What execute_command calls is called by one that waits; what login_prompt calls
\* is another login_prompt.
Nest(s) ==
    /\ \A k \in DOMAIN s : s[k].at \in Y => k > 1 /\ s[k - 1].at = "return"
    /\ \A k \in DOMAIN s : s[k].at = "again" => k > 1 /\ s[k - 1].at \in L
    /\ \A j, k \in DOMAIN s : j < k /\ s[j].at \in L => s[k].at = "again"

IsStack(s) == s \in Seq(Frames) /\ Nest(s)

\* The places of these calls.
Places(s, kinds) == {k \in DOMAIN s : s[k].at \in kinds}

LEMMA CountIsNat ==
    ASSUME NEW s \in Seq(Frames), NEW kinds
    PROVE  /\ Places(s, kinds) \in SUBSET (1 .. Len(s))
           /\ IsFiniteSet(Places(s, kinds))
           /\ Count(s, kinds) = Cardinality(Places(s, kinds))
           /\ Count(s, kinds) \in Nat
<1>1. Len(s) \in Nat /\ DOMAIN s = 1 .. Len(s)
  OBVIOUS
<1>2. IsFiniteSet(1 .. Len(s))
  BY <1>1, FS_Interval
<1>3. Places(s, kinds) \in SUBSET (1 .. Len(s))
  BY <1>1 DEF Places
<1>4. IsFiniteSet(Places(s, kinds))
  BY <1>2, <1>3, FS_Subset
<1> QED BY <1>3, <1>4, FS_CardinalityType DEF Count, Places

\* A login prompt is only waited for by those that it called, and there is one that
\* is not inside another.
LEMMA LoginIsLast ==
    ASSUME NEW s, IsStack(s), s # <<>>
    PROVE  /\ Last(s).at \notin L => Count(s, {"login"}) = 0 /\ Count(s, {"again"}) = 0
           /\ Last(s).at \in L => Count(s, {"login"}) = 1
<1> DEFINE n == Len(s)
<1>1. s \in Seq(Frames) /\ n \in Nat /\ n > 0 /\ DOMAIN s = 1 .. n /\ Last(s) = s[n]
  BY EmptySeq DEF IsStack, Last
<1>2. \A j, k \in DOMAIN s : j < k /\ s[j].at \in L => s[k].at = "again"
  BY DEF IsStack, Nest
<1>3. ASSUME Last(s).at \notin L
      PROVE  Count(s, {"login"}) = 0 /\ Count(s, {"again"}) = 0
  <2>1. ASSUME NEW k \in DOMAIN s PROVE s[k].at \notin L
    <3>1. k = n \/ k < n
      BY <1>1
    <3>2. CASE k < n
      <4>1. n \in DOMAIN s
        BY <1>1
      <4> QED BY <1>1, <1>2, <1>3, <3>2, <4>1 DEF L
    <3> QED BY <1>1, <1>3, <3>1, <3>2
  <2>2. Places(s, {"login"}) = {} /\ Places(s, {"again"}) = {}
    BY <2>1 DEF Places, L
  <2> QED BY <1>1, <2>2, CountIsNat, FS_EmptySet
<1>4. ASSUME Last(s).at \in L
      PROVE  Count(s, {"login"}) = 1
  <2>1. n \in Places(s, L) /\ Places(s, L) \in SUBSET Nat
    BY <1>1, <1>4 DEF Places
  <2> DEFINE m == Min(Places(s, L))
  <2>2. m \in Places(s, L) /\ \A k \in Places(s, L) : m <= k
    BY <2>1, MinIsLeast
  <2> HIDE DEF m
  <2>3. m \in DOMAIN s /\ s[m].at \in L
    BY <2>2 DEF Places
  <2>4. s[m].at = "login"
    <3> SUFFICES ASSUME s[m].at = "again" PROVE FALSE
      BY <2>3 DEF L
    <3>1. m > 1 /\ s[m - 1].at \in L
      BY <2>3 DEF IsStack, Nest
    <3>2. m - 1 \in DOMAIN s
      BY <1>1, <2>3, <3>1
    <3>3. m - 1 \in Places(s, L)
      BY <3>1, <3>2 DEF Places
    <3>4. m <= m - 1
      BY <2>2, <3>3
    <3> QED BY <1>1, <2>3, <3>4
  <2>5. ASSUME NEW k \in DOMAIN s, s[k].at = "login" PROVE k = m
    <3>1. k \in Places(s, L)
      BY <2>5 DEF Places, L
    <3>2. m <= k
      BY <2>2, <3>1
    <3>3. ~(m < k)
      BY <1>2, <2>3, <2>5
    <3> QED BY <1>1, <2>3, <3>2, <3>3
  <2>6. Places(s, {"login"}) = {m}
    BY <2>3, <2>4, <2>5 DEF Places
  <2> QED BY <1>1, <2>6, CountIsNat, FS_Singleton
<1> QED BY <1>3, <1>4

LEMMA OneMore ==
    ASSUME NEW a \in Nat, NEW b \in Nat
    PROVE  a * (b + 1) = a * b + a /\ a * b \in Nat /\ a * 0 = 0
OBVIOUS

LEMMA Product ==
    ASSUME NEW a \in Nat, NEW b \in Nat, NEW c \in Nat, b <= c
    PROVE  a * b <= a * c /\ a * b \in Nat /\ a * c \in Nat
OBVIOUS

LEMMA SizesAre ==
    /\ ExecSize \in Nat /\ ScriptSize \in Nat /\ SudoSize \in Nat /\ LoginSize \in Nat
    /\ AgainSize \in Nat /\ ReadSize \in Nat /\ AskSize \in Nat /\ LoginNeed \in Nat
    /\ StackSize \in Nat /\ Switches \in Nat
BY ShellAssumption DEF Sizes

\* Below every call that execute_command waits for there is one of execute_command,
\* which is not the running one.
LEMMA NestCounts ==
    ASSUME NEW s, IsStack(s), s # <<>>
    PROVE  /\ Count(s, {"script"}) + Count(s, {"sudo"}) + Count(s, {"login"}) <= Count(s, X)
           /\ Last(s).at \in X =>
                 Count(s, {"script"}) + Count(s, {"sudo"}) + 1 <= Count(s, X)
<1> DEFINE n == Len(s)
           A == Places(s, Y)
           B == Places(s, X)
           C == Places(s, {"script"})
           D == Places(s, {"sudo"})
           E == Places(s, {"login"})
           f == [k \in A |-> k - 1]
<1>1. n \in Nat /\ n > 0 /\ DOMAIN s = 1 .. n /\ s \in Seq(Frames)
  BY EmptySeq DEF IsStack
<1>2. IsFiniteSet(A) /\ IsFiniteSet(B) /\ IsFiniteSet(C) /\ IsFiniteSet(D) /\ IsFiniteSet(E)
  BY <1>1, CountIsNat
<1>3. Cardinality(A) = Cardinality(C) + Cardinality(D) + Cardinality(E)
  <2>1. A = (C \cup D) \cup E /\ C \cap D = {} /\ (C \cup D) \cap E = {}
    BY DEF Places, Y
  <2> HIDE DEF A, C, D, E
  <2>2. IsFiniteSet(C \cup D)
        /\ Cardinality(C \cup D) = Cardinality(C) + Cardinality(D) - Cardinality(C \cap D)
    BY <1>2, FS_Union
  <2>3. Cardinality((C \cup D) \cup E)
            = Cardinality(C \cup D) + Cardinality(E) - Cardinality((C \cup D) \cap E)
    BY <1>2, <2>2, FS_Union
  <2>4. Cardinality(C) \in Nat /\ Cardinality(D) \in Nat /\ Cardinality(E) \in Nat
        /\ Cardinality({}) = 0
    BY <1>2, FS_CardinalityType, FS_EmptySet
  <2>5. Cardinality(C \cap D) = 0 /\ Cardinality((C \cup D) \cap E) = 0
    BY <2>1, <2>4
  <2>6. Cardinality(A) = Cardinality((C \cup D) \cup E)
    BY <2>1
  <2> QED BY <2>2, <2>3, <2>4, <2>5, <2>6
<1>4. ASSUME NEW k \in A PROVE k - 1 \in B \ {n}
  <2>1. k \in 1 .. n /\ s[k].at \in Y
    BY <1>1 DEF Places
  <2>2. k > 1 /\ s[k - 1].at = "return"
    BY <1>1, <2>1 DEF IsStack, Nest
  <2> QED BY <1>1, <2>1, <2>2 DEF Places, X
<1> HIDE DEF A, B, C, D, E
<1>5. f \in Injection(A, B \ {n})
  <2>1. f \in [A -> B \ {n}]
    BY <1>4
  <2>2. \A a, b \in A : f[a] = f[b] => a = b
    <3>1. \A a \in A : a \in Nat
      BY <1>1 DEF A, Places
    <3> QED BY <3>1
  <2> QED BY <2>1, <2>2 DEF Injection, IsInjective
<1>6. IsFiniteSet(B \ {n}) /\ Cardinality(B \ {n}) = IF n \in B THEN Cardinality(B) - 1
                                                     ELSE Cardinality(B)
  BY <1>2, FS_RemoveElement
<1>7. Cardinality(A) <= Cardinality(B \ {n})
  BY <1>5, <1>6, FS_Injection
<1>8. Last(s).at \in X => n \in B
  BY <1>1 DEF Last, B, Places
<1>9. Cardinality(A) \in Nat /\ Cardinality(B) \in Nat
  BY <1>2, FS_CardinalityType
<1>10. /\ Count(s, {"script"}) = Cardinality(C) /\ Count(s, {"sudo"}) = Cardinality(D)
       /\ Count(s, {"login"}) = Cardinality(E) /\ Count(s, X) = Cardinality(B)
       /\ Cardinality(C) \in Nat /\ Cardinality(D) \in Nat /\ Cardinality(E) \in Nat
  BY <1>1, CountIsNat DEF B, C, D, E
<1> HIDE DEF f, n
<1>11. CASE n \in B
  BY <1>3, <1>6, <1>7, <1>9, <1>10, <1>11
<1>12. CASE n \notin B
  BY <1>3, <1>6, <1>7, <1>8, <1>9, <1>10, <1>12
<1> QED BY <1>11, <1>12

\* What it takes to overflow the stack.
TooMuch(s) ==
    \/ Count(s, {"script"}) > 1
    \/ Count(s, {"script"}) = 1 /\ Count(s, X) >= 4
    \/ Count(s, X) >= 6
    \/ Count(s, {"again"}) > Switches

\* What the last call may need for its own, beside its frame.
Needs(at) ==
    IF at \in L THEN {LoginNeed}
    ELSE IF at = "script" THEN {0, ReadSize}
    ELSE {0, AskSize} \cup {Need[c] : c \in DOMAIN Need}

\* A chain of login prompts is what exit needs.
LEMMA ChainNeeds ==
    ASSUME NEW a \in Nat, a <= Switches
    PROVE  /\ LoginSize + Switches * AgainSize + LoginNeed \in Nat
           /\ LoginSize + AgainSize * a + LoginNeed
                  <= LoginSize + Switches * AgainSize + LoginNeed
           /\ AgainSize * a \in Nat
<1>1. AgainSize * a <= AgainSize * Switches /\ AgainSize * a \in Nat
      /\ AgainSize * Switches \in Nat
  BY SizesAre, Product
<1>2. AgainSize * Switches = Switches * AgainSize
  BY SizesAre
<1> DEFINE p == AgainSize * a
           q == AgainSize * Switches
           r == Switches * AgainSize
<1>3. p <= q /\ p \in Nat /\ q \in Nat /\ q = r
  BY <1>1, <1>2
<1> HIDE DEF p, q, r
<1>4. LoginSize + r + LoginNeed \in Nat /\ LoginSize + p + LoginNeed <= LoginSize + r + LoginNeed
  BY <1>3, SizesAre
<1> QED BY <1>3, <1>4 DEF p, r

\* With less than that, there is room for what any command, a login prompt, and
\* reading a script need.
LEMMA StackHasRoom ==
    ASSUME NEW s, IsStack(s), s # <<>>, Last(s).at # "sudo", NEW own \in Needs(Last(s).at),
           Used(s) + own > StackSize
    PROVE  TooMuch(s)
<1> DEFINE x == Count(s, X)
           c == Count(s, {"script"})
           u == Count(s, {"sudo"})
           l == Count(s, {"login"})
           g == Count(s, {"again"})
           at == Last(s).at
<1>1. Len(s) \in Nat /\ s \in Seq(Frames)
  BY DEF IsStack
<1>2. x \in Nat /\ c \in Nat /\ u \in Nat /\ l \in Nat /\ g \in Nat
  BY <1>1, CountIsNat
<1>3. Used(s) = ExecSize * x + ScriptSize * c + SudoSize * u + LoginSize * l + AgainSize * g
  BY DEF Used, X
<1>4. c + u + l <= x /\ (at \in X => c + u + 1 <= x)
  BY NestCounts
<1>5. at = "script" => c >= 1
  <2> SUFFICES ASSUME at = "script" PROVE c >= 1
    OBVIOUS
  <2>1. Len(s) \in Places(s, {"script"})
    BY <1>1, EmptySeq DEF Places, Last
  <2>2. Places(s, {"script"}) # {} /\ IsFiniteSet(Places(s, {"script"}))
    BY <1>1, <2>1, CountIsNat
  <2>3. c # 0
    BY <1>1, <2>2, CountIsNat, FS_EmptySet
  <2> QED BY <1>2, <2>3
<1>6. (at \notin L => l = 0 /\ g = 0) /\ (at \in L => l = 1)
  BY LoginIsLast
<1>7. /\ \A o \in OwnNeeds : /\ o \in Nat
                             /\ 5 * ExecSize + 4 * SudoSize + o <= StackSize
                             /\ 3 * ExecSize + SudoSize + ScriptSize + o <= StackSize
      /\ 3 * ExecSize + 2 * SudoSize + ScriptSize + ReadSize <= StackSize
  BY StackAssumption
<1>8. at \in X \/ at = "script" \/ at \in L
  <2>1. s[Len(s)] \in Frames
    BY <1>1, EmptySeq
  <2>2. at \in {"exec", "return", "script", "sudo", "login", "again"}
    BY <2>1 DEF Frames, Last
  <2> QED BY <2>2 DEF X, L
<1> SUFFICES ASSUME c <= 1, c = 1 => x <= 3, x <= 5, g <= Switches
             PROVE  FALSE
  BY <1>2, SizesAre DEF TooMuch
\* The login prompts and what the last call needs come to something that is
\* allowed for.
<1>9. CASE at # "script"
  <2>1. PICK o \in OwnNeeds : LoginSize * l + AgainSize * g + own <= o
    <3>1. CASE at \in L
      <4>1. own = LoginNeed /\ l = 1
        BY <1>6, <3>1 DEF Needs
      <4>2. LoginSize * l = LoginSize
        BY <4>1, SizesAre
      <4>3. LoginSize + AgainSize * g + LoginNeed
                <= LoginSize + Switches * AgainSize + LoginNeed
        BY <1>2, ChainNeeds
      <4>4. LoginSize + Switches * AgainSize + LoginNeed \in OwnNeeds
        BY DEF OwnNeeds
      <4> QED BY <4>1, <4>2, <4>3, <4>4
    <3>2. CASE at \notin L
      <4>1. own \in OwnNeeds /\ l = 0 /\ g = 0
        BY <1>6, <1>9, <3>2 DEF Needs, OwnNeeds
      <4>2. LoginSize * l = 0 /\ AgainSize * g = 0
        BY <4>1, SizesAre, OneMore
      <4>3. own \in Nat
        BY <1>7, <4>1
      <4>4. LoginSize * l + AgainSize * g + own <= own
        BY <4>2, <4>3
      <4> QED BY <4>1, <4>4
    <3> QED BY <3>1, <3>2
  <2>2. /\ o \in Nat /\ 5 * ExecSize + 4 * SudoSize + o <= StackSize
        /\ 3 * ExecSize + SudoSize + ScriptSize + o <= StackSize
    BY <1>7
  <2>3. c + u + 1 <= x
    <3>1. at \in X \/ at \in L
      BY <1>8, <1>9
    <3> QED BY <1>2, <1>4, <1>6, <3>1
  <2>4. LoginSize * l \in Nat /\ AgainSize * g \in Nat
    BY <1>2, SizesAre, OneMore
  <2>5. own \in Nat
    <3>1. CASE at \in L
      BY <3>1, SizesAre DEF Needs
    <3>2. CASE at \notin L
      BY <1>7, <1>9, <3>2 DEF Needs, OwnNeeds
    <3> QED BY <3>1, <3>2
  <2> DEFINE p == LoginSize * l
             q == AgainSize * g
             v == ExecSize * x
             w == ScriptSize * c
             y == SudoSize * u
  <2>6. p \in Nat /\ q \in Nat /\ p + q + own <= o
    BY <2>1, <2>4
  <2>7. v + w + y + p + q + own > StackSize
    BY <1>3
  <2>8. CASE c = 0
    <3>1. u <= 4
      BY <1>2, <2>3, <2>8
    <3>2. /\ ExecSize * x <= ExecSize * 5 /\ SudoSize * u <= SudoSize * 4
          /\ ExecSize * x \in Nat /\ SudoSize * u \in Nat /\ ScriptSize * c = 0
      BY <1>2, <2>8, <3>1, SizesAre, Product, OneMore
    <3>3. v <= 5 * ExecSize /\ y <= 4 * SudoSize /\ v \in Nat /\ y \in Nat /\ w = 0
      BY <3>2, SizesAre
    <3> HIDE DEF p, q, v, w, y
    <3> QED BY <2>2, <2>5, <2>6, <2>7, <3>3, SizesAre
  <2>9. CASE c = 1
    <3>1. u <= 1 /\ x <= 3
      BY <1>2, <2>3, <2>9
    <3>2. /\ ExecSize * x <= ExecSize * 3 /\ SudoSize * u <= SudoSize * 1
          /\ ExecSize * x \in Nat /\ SudoSize * u \in Nat /\ ScriptSize * c = ScriptSize
      BY <1>2, <2>9, <3>1, SizesAre, Product
    <3>3. v <= 3 * ExecSize /\ y <= SudoSize /\ v \in Nat /\ y \in Nat /\ w = ScriptSize
      BY <3>2, SizesAre
    <3> HIDE DEF p, q, v, w, y
    <3> QED BY <2>2, <2>5, <2>6, <2>7, <3>3, SizesAre
  <2> QED BY <1>2, <2>8, <2>9
<1>10. CASE at = "script"
  <2>1. l = 0 /\ g = 0 /\ own \in {0, ReadSize} /\ c = 1
    BY <1>2, <1>5, <1>6, <1>10 DEF Needs, L
  <2>2. x <= 3 /\ u <= 2
    BY <1>2, <1>4, <2>1
  <2>3. /\ ExecSize * x <= ExecSize * 3 /\ SudoSize * u <= SudoSize * 2
        /\ ExecSize * x \in Nat /\ SudoSize * u \in Nat /\ ScriptSize * c = ScriptSize
        /\ LoginSize * l = 0 /\ AgainSize * g = 0
    BY <1>2, <2>1, <2>2, SizesAre, Product, OneMore
  <2>4. own \in Nat /\ own <= ReadSize
    BY <2>1, SizesAre
  <2> DEFINE p == ExecSize * x
             q == SudoSize * u
  <2>5. p \in Nat /\ p <= 3 * ExecSize /\ q \in Nat /\ q <= 2 * SudoSize
    BY <2>3, SizesAre
  <2>6. p + ScriptSize + q + own > StackSize
    BY <1>3, <2>3, <2>4, <2>5, SizesAre
  <2> HIDE DEF p, q
  <2> QED BY <1>7, <2>4, <2>5, <2>6, SizesAre
<1> QED BY <1>9, <1>10

\* Returning, calling, and going on within a call.
LEMMA FrontIs ==
    ASSUME NEW T, NEW s \in Seq(T), s # <<>>
    PROVE  /\ Len(s) \in Nat \ {0}
           /\ Front(s) \in Seq(T)
           /\ Len(Front(s)) = Len(s) - 1
           /\ \A k \in 1 .. Len(s) - 1 : Front(s)[k] = s[k]
<1>1. Len(s) \in Nat \ {0}
  BY EmptySeq
<1>2. Front(s) = SubSeq(s, 1, Len(s) - 1)
  BY DEF Front
<1> DEFINE n == Len(s) - 1
<1>3. n \in Nat /\ n <= Len(s)
  BY <1>1
<1> HIDE DEF n
<1>4. /\ SubSeq(s, 1, n) \in Seq(T) /\ Len(SubSeq(s, 1, n)) = n
      /\ \A k \in 1 .. n : SubSeq(s, 1, n)[k] = s[k]
  BY <1>3
<1> QED BY <1>1, <1>2, <1>4 DEF n

LEMMA PopStack ==
    ASSUME NEW s, IsStack(s), s # <<>>
    PROVE  IsStack(Front(s))
<1> DEFINE f == Front(s)
<1>1. /\ Len(s) \in Nat \ {0} /\ f \in Seq(Frames) /\ Len(f) = Len(s) - 1
      /\ \A k \in 1 .. Len(s) - 1 : f[k] = s[k]
  BY FrontIs DEF IsStack
<1>2. DOMAIN s = 1 .. Len(s) /\ DOMAIN f = 1 .. Len(s) - 1
  BY <1>1 DEF IsStack
<1> HIDE DEF f
<1>3. \A k \in DOMAIN f : k \in DOMAIN s /\ f[k] = s[k] /\ k \in Nat
      /\ (k > 1 => k - 1 \in DOMAIN f /\ f[k - 1] = s[k - 1])
  BY <1>1, <1>2
<1>4. ASSUME NEW k \in DOMAIN f, f[k].at \in Y PROVE k > 1 /\ f[k - 1].at = "return"
  <2>1. k > 1 /\ s[k - 1].at = "return"
    BY <1>3, <1>4 DEF IsStack, Nest
  <2> QED BY <1>3, <2>1
<1>5. ASSUME NEW k \in DOMAIN f, f[k].at = "again" PROVE k > 1 /\ f[k - 1].at \in L
  <2>1. k > 1 /\ s[k - 1].at \in L
    BY <1>3, <1>5 DEF IsStack, Nest
  <2> QED BY <1>3, <2>1
<1>6. ASSUME NEW j \in DOMAIN f, NEW k \in DOMAIN f, j < k, f[j].at \in L
      PROVE  f[k].at = "again"
  <2>1. s[k].at = "again"
    BY <1>3, <1>6 DEF IsStack, Nest
  <2> QED BY <1>3, <2>1
<1>7. IsStack(f)
  BY <1>1, <1>4, <1>5, <1>6 DEF IsStack, Nest
<1> QED BY <1>7 DEF f

\* What a call may call.
May(s, f) ==
    \/ f.at \in X /\ (s # <<>> => Last(s).at \notin L)
    \/ f.at \in Y /\ s # <<>> /\ Last(s).at = "return"
    \/ f.at = "again" /\ s # <<>> /\ Last(s).at \in L

LEMMA PushStack ==
    ASSUME NEW s, IsStack(s), NEW f \in Frames, May(s, f)
    PROVE  /\ IsStack(Append(s, f)) /\ Append(s, f) # <<>>
           /\ Last(Append(s, f)) = f /\ Front(Append(s, f)) = s
<1> DEFINE t == Append(s, f)
           n == Len(s)
<1>1. n \in Nat /\ s \in Seq(Frames) /\ DOMAIN s = 1 .. n
  BY DEF IsStack
<1>2. /\ t \in Seq(Frames) /\ Len(t) = n + 1 /\ t[n + 1] = f
      /\ DOMAIN t = 1 .. n + 1 /\ \A k \in 1 .. n : t[k] = s[k]
  BY <1>1
<1> HIDE DEF t
<1>3. s # <<>> => n # 0 /\ n \in 1 .. n /\ t[n] = Last(s)
  BY <1>1, <1>2, EmptySeq DEF Last
<1>4. ASSUME NEW k \in DOMAIN t, k # n + 1
      PROVE  /\ k \in DOMAIN s /\ t[k] = s[k] /\ k \in Nat /\ n # 0
             /\ k > 1 => t[k - 1] = s[k - 1]
  <2>1. k \in 1 .. n
    BY <1>1, <1>2, <1>4
  <2>2. k > 1 => k - 1 \in 1 .. n
    BY <1>1, <2>1
  <2> QED BY <1>1, <1>2, <2>1, <2>2
<1>5. ASSUME NEW k \in DOMAIN t, t[k].at \in Y PROVE k > 1 /\ t[k - 1].at = "return"
  <2>1. CASE k = n + 1
    <3>1. s # <<>> /\ Last(s).at = "return"
      BY <1>2, <1>5, <2>1 DEF May, X, Y
    <3>2. k - 1 = n /\ k > 1
      BY <1>1, <1>3, <2>1, <3>1
    <3> QED BY <1>3, <3>1, <3>2
  <2>2. CASE k # n + 1
    <3>1. k > 1 /\ s[k - 1].at = "return"
      BY <1>4, <1>5, <2>2 DEF IsStack, Nest
    <3> QED BY <1>4, <2>2, <3>1
  <2> QED BY <2>1, <2>2
<1>6. ASSUME NEW k \in DOMAIN t, t[k].at = "again" PROVE k > 1 /\ t[k - 1].at \in L
  <2>1. CASE k = n + 1
    <3>1. s # <<>> /\ Last(s).at \in L
      BY <1>2, <1>6, <2>1 DEF May, X, Y
    <3>2. k - 1 = n /\ k > 1
      BY <1>1, <1>3, <2>1, <3>1
    <3> QED BY <1>3, <3>1, <3>2
  <2>2. CASE k # n + 1
    <3>1. k > 1 /\ s[k - 1].at \in L
      BY <1>4, <1>6, <2>2 DEF IsStack, Nest
    <3> QED BY <1>4, <2>2, <3>1
  <2> QED BY <2>1, <2>2
<1>7. ASSUME NEW j \in DOMAIN t, NEW k \in DOMAIN t, j < k, t[j].at \in L
      PROVE  t[k].at = "again"
  <2>1. j # n + 1 /\ j \in 1 .. n
    BY <1>1, <1>2, <1>7
  <2>2. j \in DOMAIN s /\ s[j].at \in L
    BY <1>1, <1>4, <1>7, <2>1
  <2>3. CASE k = n + 1
    <3>1. s # <<>>
      BY <1>1, <2>1, EmptySeq
    <3>2. Last(s).at \in L
      <4>1. CASE j = n
        BY <2>2, <4>1 DEF Last
      <4>2. CASE j # n
        <5>1. j < n /\ n \in DOMAIN s
          BY <1>1, <2>1, <4>2
        <5>2. s[n].at = "again"
          BY <2>2, <5>1 DEF IsStack, Nest
        <5> QED BY <5>2 DEF Last, L
      <4> QED BY <4>1, <4>2
    <3>3. f.at = "again"
      BY <3>1, <3>2 DEF May, L
    <3> QED BY <1>2, <2>3, <3>3
  <2>4. CASE k # n + 1
    <3>1. k \in DOMAIN s /\ t[k] = s[k]
      BY <1>4, <2>4
    <3>2. s[k].at = "again"
      BY <1>7, <2>2, <3>1 DEF IsStack, Nest
    <3> QED BY <3>1, <3>2
  <2> QED BY <2>3, <2>4
<1>8. t # <<>> /\ Last(t) = f
  BY <1>1, <1>2, EmptySeq DEF Last
<1>9. Front(t) = s
  <2>1. Front(t) \in Seq(Frames) /\ Len(Front(t)) = n
        /\ \A k \in 1 .. n : Front(t)[k] = s[k]
    BY <1>1, <1>2, <1>8, FrontIs
  <2> QED BY <1>1, <2>1, SeqEqual
<1>10. IsStack(t)
  BY <1>2, <1>5, <1>6, <1>7 DEF IsStack, Nest
<1> QED BY <1>8, <1>9, <1>10 DEF t

LEMMA SwapTop ==
    ASSUME NEW s, IsStack(s), s # <<>>, NEW f \in Frames,
           \/ f.at \in X /\ Last(s).at \in X
           \/ f.at = "script" /\ Last(s).at = "script"
    PROVE  /\ IsStack(Append(Front(s), f)) /\ Append(Front(s), f) # <<>>
           /\ Last(Append(Front(s), f)) = f
<1> DEFINE p == Front(s)
<1>1. IsStack(p)
  BY PopStack
<1>2. /\ Len(s) \in Nat \ {0} /\ p \in Seq(Frames) /\ Len(p) = Len(s) - 1
      /\ \A k \in 1 .. Len(s) - 1 : p[k] = s[k]
  BY FrontIs DEF IsStack
<1> HIDE DEF p
<1>3. Len(s) \in DOMAIN s /\ s[Len(s)] = Last(s)
  BY <1>2 DEF IsStack, Last
<1>4. May(p, f)
  <2>1. CASE f.at \in X /\ Last(s).at \in X
    <3>1. ASSUME p # <<>>, Last(p).at \in L PROVE FALSE
      <4>1. Len(p) # 0
        BY <1>2, <3>1, EmptySeq
      <4> DEFINE k == Len(s) - 1
      <4>2. k \in 1 .. Len(s) - 1 /\ k < Len(s) /\ k \in DOMAIN s /\ Last(p) = p[k]
        BY <1>2, <4>1 DEF IsStack, Last
      <4> HIDE DEF k
      <4>3. s[k].at \in L
        BY <1>2, <3>1, <4>2
      <4>4. s[Len(s)].at = "again"
        BY <1>3, <4>2, <4>3 DEF IsStack, Nest
      <4> QED BY <1>3, <2>1, <4>4 DEF X
    <3> QED BY <2>1, <3>1 DEF May
  <2>2. CASE f.at = "script" /\ Last(s).at = "script"
    <3>1. Len(s) > 1 /\ s[Len(s) - 1].at = "return"
      BY <1>3, <2>2 DEF IsStack, Nest, Y
    <3>2. Len(p) # 0 /\ Len(p) \in 1 .. Len(s) - 1
      BY <1>2, <3>1
    <3>3. Last(p).at = "return"
      BY <1>2, <3>1, <3>2 DEF Last
    <3>4. p # <<>>
      BY <3>2, EmptySeq
    <3> QED BY <2>2, <3>3, <3>4 DEF May, Y
  <2> QED BY <2>1, <2>2
<1>5. /\ IsStack(Append(p, f)) /\ Append(p, f) # <<>> /\ Last(Append(p, f)) = f
  BY <1>1, <1>4, PushStack
<1> QED BY <1>5 DEF p

LEMMA FramesAre ==
    ASSUME NEW l \in Lines, NEW ls \in Seq(Lines)
    PROVE  /\ Exec(l) \in Frames /\ Exec(l).at = "exec"
           /\ Script(ls) \in Frames /\ Script(ls).at = "script"
           /\ \A at \in {"return", "sudo", "login", "again"} :
                 Wait(at) \in Frames /\ Wait(at).at = at
<1>1. <<>> \in Lines /\ <<>> \in Seq(Lines)
  BY EmptySeq DEF Lines
<1> QED BY <1>1 DEF Exec, Script, Wait, Frames

\* The calls, and that an overflow took too much.
StackGood == IsStack(stack) /\ (dead = "overflow" => TooMuch(stack))

LEMMA CallsGood ==
    ASSUME NEW s, IsStack(s), s # <<>>, Last(s).at # "sudo", NEW own \in Needs(Last(s).at),
           NEW end \in {"", "hang"}, Calls(s, own, end)
    PROVE  StackGood'
<1>1. stack' = s /\ dead' = IF Used(s) + own > StackSize THEN "overflow" ELSE end
  BY DEF Calls
<1>2. dead' = "overflow" => TooMuch(s)
  BY <1>1, StackHasRoom
<1>3. IsStack(stack') /\ (TooMuch(stack') <=> TooMuch(s))
  BY <1>1
<1> QED BY <1>2, <1>3 DEF StackGood

LEMMA ReturnsGood ==
    ASSUME StackGood, Running, Returns
    PROVE  StackGood'
<1>1. IsStack(Front(stack))
  BY PopStack DEF StackGood, Running
<1>2. stack' = Front(stack) /\ dead' = ""
  BY DEF Returns, Running
<1> QED BY <1>1, <1>2 DEF StackGood

\* A sequence behind another is put there element by element.
LEMMA OneBehind ==
    ASSUME NEW T, NEW s \in Seq(T), NEW a \in T
    PROVE  s \o <<a>> = Append(s, a)
OBVIOUS

LEMMA NoneBehind ==
    ASSUME NEW T, NEW s \in Seq(T)
    PROVE  s \o <<>> = s
OBVIOUS

LEMMA TwoBehind ==
    ASSUME NEW T, NEW s \in Seq(T), NEW a \in T, NEW b \in T
    PROVE  s \o <<a, b>> = Append(Append(s, a), b)
OBVIOUS

\* execute_command waits for a call.
LEMMA WaitsGood ==
    ASSUME StackGood, Running, Top.at = "exec"
    PROVE  LET r == Append(Front(stack), Wait("return"))
           IN  /\ IsStack(r) /\ r # <<>> /\ Last(r).at = "return" /\ r \in Seq(Frames)
               /\ Front(stack) \o <<Wait("return")>> = r
<1> DEFINE r == Append(Front(stack), Wait("return"))
<1>1. IsStack(stack) /\ stack # <<>>
  BY DEF StackGood, Running
<1>2. <<>> \in Lines /\ <<>> \in Seq(Lines)
  BY EmptySeq DEF Lines
<1>3. Wait("return") \in Frames /\ Wait("return").at = "return"
  BY <1>2, FramesAre
<1>4. IsStack(r) /\ r # <<>> /\ Last(r) = Wait("return")
  BY <1>1, <1>3, SwapTop DEF X, Top
<1>5. Front(stack) \in Seq(Frames)
  BY <1>1, FrontIs DEF IsStack
<1>6. Front(stack) \o <<Wait("return")>> = r
  BY <1>3, <1>5, OneBehind
<1> HIDE DEF r
<1>7. r \in Seq(Frames) /\ Last(r).at = "return"
  BY <1>3, <1>4 DEF IsStack
<1> QED BY <1>4, <1>6, <1>7 DEF r

\* The calls that execute_command makes.
LEMMA IntoGood ==
    ASSUME StackGood, Running, Top.at = "exec", NEW cs, NEW own, Into(cs, own),
           \/ cs = <<>> /\ own \in Needs("return")
           \/ \E l \in Lines : cs = <<Exec(l)>> /\ own = 0
           \/ \E l \in Lines : cs = <<Wait("sudo"), Exec(l)>> /\ own = AskSize
           \/ \E ls \in Seq(Lines) : cs = <<Script(ls)>> /\ own = ReadSize
           \/ cs = <<Wait("login")>> /\ own = LoginNeed
    PROVE  StackGood'
<1> DEFINE r == Append(Front(stack), Wait("return"))
<1>1. <<>> \in Lines /\ <<>> \in Seq(Lines)
  BY EmptySeq DEF Lines
<1>2. /\ IsStack(r) /\ r # <<>> /\ Last(r).at = "return" /\ r \in Seq(Frames)
      /\ Front(stack) \o <<Wait("return")>> = r
  BY WaitsGood
<1>3. Calls(r \o cs, own, "")
  BY <1>2 DEF Into
<1> HIDE DEF r
\* One more call, after which StackGood holds if it needs no more than it may.
<1>4. ASSUME NEW f \in Frames, cs = <<f>>, f.at \in X \cup Y, f.at # "sudo",
             own \in Needs(f.at)
      PROVE  StackGood'
  <2>1. Calls(Append(r, f), own, "")
    BY <1>2, <1>3, <1>4, OneBehind
  <2>2. May(r, f)
    BY <1>2, <1>4 DEF May, L
  <2>3. IsStack(Append(r, f)) /\ Append(r, f) # <<>> /\ Last(Append(r, f)) = f
    BY <1>2, <2>2, PushStack
  <2> QED BY <1>4, <2>1, <2>3, CallsGood
<1>5. CASE cs = <<>> /\ own \in Needs("return")
  <2>1. Calls(r, own, "")
    BY <1>2, <1>3, <1>5, NoneBehind
  <2> QED BY <1>2, <1>5, <2>1, CallsGood
<1>6. ASSUME NEW l \in Lines, cs = <<Exec(l)>>, own = 0 PROVE StackGood'
  <2>1. Exec(l) \in Frames /\ Exec(l).at = "exec"
    BY <1>1, FramesAre
  <2>2. own \in Needs("exec")
    BY <1>6 DEF Needs, L
  <2> QED BY <1>4, <1>6, <2>1, <2>2 DEF X
<1>7. ASSUME NEW l \in Lines, cs = <<Wait("sudo"), Exec(l)>>, own = AskSize PROVE StackGood'
  <2> DEFINE q == Append(r, Wait("sudo"))
             e == Exec(l)
  <2>1. e \in Frames /\ e.at = "exec" /\ Wait("sudo") \in Frames /\ Wait("sudo").at = "sudo"
    BY <1>1, FramesAre
  <2> HIDE DEF e
  <2>2. Calls(Append(q, e), own, "")
    <3>1. r \o <<Wait("sudo"), e>> = Append(Append(r, Wait("sudo")), e)
      BY <1>2, <2>1, TwoBehind
    <3> QED BY <1>3, <1>7, <3>1 DEF e
  <2>3. May(r, Wait("sudo"))
    BY <1>2, <2>1 DEF May, Y
  <2>4. IsStack(q) /\ Last(q) = Wait("sudo")
    BY <1>2, <2>1, <2>3, PushStack
  <2> HIDE DEF q
  <2>5. May(q, e)
    BY <2>1, <2>4 DEF May, X, L
  <2>6. IsStack(Append(q, e)) /\ Append(q, e) # <<>> /\ Last(Append(q, e)) = e
    BY <2>1, <2>4, <2>5, PushStack
  <2>7. own \in Needs("exec")
    BY <1>7 DEF Needs, L
  <2> QED BY <2>1, <2>2, <2>6, <2>7, CallsGood
<1>8. ASSUME NEW ls \in Seq(Lines), cs = <<Script(ls)>>, own = ReadSize PROVE StackGood'
  <2>1. Script(ls) \in Frames /\ Script(ls).at = "script"
    BY <1>1, FramesAre
  <2>2. own \in Needs("script")
    BY <1>8 DEF Needs, L
  <2> QED BY <1>4, <1>8, <2>1, <2>2 DEF Y
<1>9. CASE cs = <<Wait("login")>> /\ own = LoginNeed
  <2>1. Wait("login") \in Frames /\ Wait("login").at = "login"
    BY <1>1, FramesAre
  <2>2. own \in Needs("login")
    BY <1>9 DEF Needs, L
  <2> QED BY <1>4, <1>9, <2>1, <2>2 DEF Y
<1> QED BY <1>5, <1>6, <1>7, <1>8, <1>9

\* A command that is done with its own, or that does not return.
LEMMA DoesGood ==
    ASSUME StackGood, Running, Top.at = "exec", NEW c \in DOMAIN Need, NEW ws, Does(c, ws)
    PROVE  StackGood'
<1>1. Need[c] \in Needs("return")
  BY DEF Needs, L
<1>2. CASE ws \cap TooLong = {}
  <2>1. Into(<<>>, Need[c])
    BY <1>2 DEF Does
  <2> QED BY <1>1, <2>1, IntoGood
<1>3. CASE ws \cap TooLong # {}
  <2> DEFINE r == Append(Front(stack), Wait("return"))
  <2>1. IsStack(r) /\ r # <<>> /\ Last(r).at = "return"
    BY WaitsGood
  <2>2. Calls(r, Need[c], "hang")
    BY <1>3 DEF Does, Hangs
  <2> HIDE DEF r
  <2> QED BY <1>1, <2>1, <2>2, CallsGood
<1> QED BY <1>2, <1>3

-----------------------------------------------------------------------------
(* The aliases *)

LEMMA ShortIs ==
    ASSUME NEW n \in Short
    PROVE  n \in Words /\ Cut[n] = n
<1>1. PICK w \in Words : n = Cut[w]
  BY DEF Short
<1>2. Cut[w] \in Words /\ Cut[Cut[w]] = Cut[w]
  BY <1>1, ShellAssumption
<1> QED BY <1>1, <1>2

\* k is the place of the first alias with this name.
First(t, w, k) ==
    /\ k \in 1 .. Len(t) /\ t[k].name = w
    /\ \A j \in 1 .. Len(t) : t[j].name = w => k <= j

LEMMA FindIs ==
    ASSUME NEW t \in Seq(Entries), NEW w
    PROVE  /\ Find(t, w) = 0 <=> \A j \in 1 .. Len(t) : t[j].name # w
           /\ Find(t, w) # 0 => First(t, w, Find(t, w))
<1> DEFINE I == {i \in 1 .. Len(t) : t[i].name = w}
<1>1. Find(t, w) = IF I # {} THEN Min(I) ELSE 0
  BY DEF Find, SelectInSeq
<1>2. I \in SUBSET Nat
  OBVIOUS
<1>3. CASE I = {}
  BY <1>1, <1>3
<1>4. CASE I # {}
  <2>1. Min(I) \in I /\ \A x \in I : Min(I) <= x
    BY <1>2, <1>4, MinIsLeast
  <2>2. Find(t, w) = Min(I)
    BY <1>1, <1>4
  <2>3. Find(t, w) \in 1 .. Len(t) /\ t[Find(t, w)].name = w
    BY <2>1, <2>2
  <2>4. \A j \in 1 .. Len(t) : t[j].name = w => Find(t, w) <= j
    BY <2>1, <2>2
  <2>5. Find(t, w) # 0
    BY <2>3
  <2> HIDE DEF I
  <2> QED BY <2>3, <2>4, <2>5 DEF First
<1> QED BY <1>3, <1>4

\* What a line stands for that is one word: nothing, or the value of the first
\* alias with this name.
LEMMA ValueNone ==
    ASSUME NEW t \in Seq(Entries), NEW w, \A j \in 1 .. Len(t) : t[j].name # w
    PROVE  Value(t, w) = <<>>
<1>1. Find(t, w) = 0
  BY FindIs
<1>2. <<w>>[1] = w
  OBVIOUS
<1> QED BY <1>1, <1>2 DEF Value, expand_alias

LEMMA ValueFirst ==
    ASSUME NEW t \in Seq(Entries), NEW w, NEW k, First(t, w, k)
    PROVE  Value(t, w) = t[k].value
<1>1. k \in 1 .. Len(t) /\ t[k].name = w /\ \A j \in 1 .. Len(t) : t[j].name = w => k <= j
  BY DEF First
<1>2. Find(t, w) # 0
  BY <1>1, FindIs
<1>3. Find(t, w) \in 1 .. Len(t) /\ t[Find(t, w)].name = w
      /\ \A j \in 1 .. Len(t) : t[j].name = w => Find(t, w) <= j
  BY <1>2, FindIs DEF First
<1>4. Find(t, w) = k
  <2> DEFINE f == Find(t, w)
  <2>1. f <= k /\ k <= f /\ f \in Nat /\ k \in Nat
    BY <1>1, <1>3
  <2> HIDE DEF f
  <2>2. f = k
    BY <2>1
  <2> QED BY <2>2 DEF f
<1>5. <<w>>[1] = w /\ Len(<<w>>) = 1
  OBVIOUS
<1> QED BY <1>2, <1>4, <1>5 DEF Value, expand_alias

\* An alias stands for a line.
LEMMA ExpandsToLine ==
    ASSUME NEW t \in Seq(Entries), NEW l
    PROVE  expand_alias(t, l) \in Lines
<1>1. <<>> \in Lines
  BY EmptySeq DEF Lines
<1>2. ASSUME Find(t, l[1]) # 0 PROVE t[Find(t, l[1])].value \in Lines
  <2>1. Find(t, l[1]) \in 1 .. Len(t)
    BY <1>2, FindIs DEF First
  <2>2. t[Find(t, l[1])] \in Entries
    BY <2>1
  <2> QED BY <2>2 DEF Entries
<1> QED BY <1>1, <1>2 DEF expand_alias

\* A table with another value at i.
LEMMA ChangedEntry ==
    ASSUME NEW t \in Seq(Entries), NEW i \in 1 .. Len(t), NEW v \in Lines
    PROVE  LET u == [t EXCEPT ![i].value = v]
           IN  /\ u \in Seq(Entries) /\ Len(u) = Len(t)
               /\ \A k \in 1 .. Len(t) :
                     u[k].name = t[k].name /\ u[k].value = IF k = i THEN v ELSE t[k].value
<1> DEFINE e == [t[i] EXCEPT !.value = v]
           u == [t EXCEPT ![i] = e]
<1>1. t[i] \in Entries
  OBVIOUS
<1>2. e \in Entries /\ e.name = t[i].name /\ e.value = v
  BY <1>1 DEF Entries
<1> HIDE DEF e
<1>3. u \in Seq(Entries) /\ Len(u) = Len(t)
      /\ \A k \in 1 .. Len(t) : u[k] = IF k = i THEN e ELSE t[k]
  BY <1>2
<1>4. [t EXCEPT ![i].value = v] = u
  BY DEF e
<1> HIDE DEF u
<1>5. ASSUME NEW k \in 1 .. Len(t)
      PROVE  u[k].name = t[k].name /\ u[k].value = IF k = i THEN v ELSE t[k].value
  <2>1. CASE k = i
    BY <1>2, <1>3, <2>1
  <2>2. CASE k # i
    BY <1>3, <2>2
  <2> QED BY <2>1, <2>2
<1> QED BY <1>3, <1>4, <1>5

\* A table without the alias at i.
LEMMA RemovedEntry ==
    ASSUME NEW t \in Seq(Entries), NEW i \in 1 .. Len(t)
    PROVE  /\ RemoveAt(t, i) \in Seq(Entries)
           /\ Len(RemoveAt(t, i)) = Len(t) - 1
           /\ \A k \in 1 .. Len(t) - 1 :
                 RemoveAt(t, i)[k] = IF k < i THEN t[k] ELSE t[k + 1]
<1> DEFINE n == Len(t)
           a == SubSeq(t, 1, i - 1)
           b == SubSeq(t, i + 1, n)
<1>1. n \in Nat /\ i \in Nat /\ i >= 1 /\ i <= n
  OBVIOUS
<1>2. a \in Seq(Entries) /\ Len(a) = i - 1 /\ \A k \in 1 .. i - 1 : a[k] = t[k]
  OBVIOUS
<1>3. b \in Seq(Entries) /\ Len(b) = n - i /\ \A k \in 1 .. n - i : b[k] = t[k + i]
  OBVIOUS
<1> HIDE DEF a, b, n
<1>4. /\ a \o b \in Seq(Entries) /\ Len(a \o b) = Len(a) + Len(b)
      /\ \A k \in 1 .. Len(a) + Len(b) :
            (a \o b)[k] = IF k <= Len(a) THEN a[k] ELSE b[k - Len(a)]
  <2>1. a \in Seq(Entries) /\ b \in Seq(Entries)
    BY <1>2, <1>3
  <2> QED BY <2>1, ConcatProperties
<1> DEFINE c == a \o b
<1>5. c = RemoveAt(t, i)
  BY DEF RemoveAt, a, b, n
<1> HIDE DEF c
<1>6. c \in Seq(Entries) /\ Len(c) = n - 1
      /\ \A k \in 1 .. n - 1 : c[k] = IF k <= i - 1 THEN a[k] ELSE b[k - (i - 1)]
  BY <1>1, <1>2, <1>3, <1>4 DEF c
<1>7. ASSUME NEW k \in 1 .. n - 1 PROVE c[k] = IF k < i THEN t[k] ELSE t[k + 1]
  <2>1. CASE k < i
    <3>1. k \in 1 .. i - 1 /\ k <= i - 1
      BY <1>1, <2>1
    <3> QED BY <1>2, <1>6, <2>1, <3>1
  <2>2. CASE ~(k < i)
    <3> DEFINE j == k - (i - 1)
    <3>1. j \in 1 .. n - i /\ ~(k <= i - 1) /\ j + i = k + 1
      BY <1>1, <2>2
    <3>2. c[k] = b[j]
      BY <1>6, <3>1
    <3> HIDE DEF j
    <3> QED BY <1>3, <2>2, <3>1, <3>2
  <2> QED BY <2>1, <2>2
<1> QED BY <1>5, <1>6, <1>7 DEF n

\* What the properties rest on: every name in the table is one that it can keep.
ShellInv == StackGood /\ aliases \in Seq(Entries)

\* The line that the running call looks at, and its words.
LEMMA LineIsLine ==
    ASSUME StackGood, Running, Top.at = "exec"
    PROVE  Line \in Lines /\ Args \in Seq(Words)
<1>1. stack \in Seq(Frames) /\ stack # <<>>
  BY DEF StackGood, IsStack, Running
<1>2. Len(stack) \in DOMAIN stack
  BY <1>1, EmptySeq
<1>3. Top \in Frames
  BY <1>1, <1>2 DEF Top, Last
<1>4. Top.line \in Lines
  BY <1>3 DEF Frames
<1>5. Line \in Lines
  BY <1>4, TrimmedIsLine DEF Line
<1> QED BY <1>4, <1>5, ArgsAreWords DEF Args

\* alias.
LEMMA AddKeepsTable ==
    ASSUME NEW t \in Seq(Entries), NEW name \in Words, NEW v \in Lines
    PROVE  add_alias(t, name, v) \in Seq(Entries)
<1>1. CASE Len(t) >= MaxAliases
  BY <1>1 DEF add_alias
<1>2. CASE ~(Len(t) >= MaxAliases) /\ Find(t, name) # 0
  <2>1. Find(t, name) \in 1 .. Len(t)
    BY <1>2, FindIs DEF First
  <2> QED BY <1>2, <2>1, ChangedEntry DEF add_alias
<1>3. CASE ~(Len(t) >= MaxAliases) /\ ~(Find(t, name) # 0)
  <2>1. [name |-> Cut[name], value |-> v] \in Entries
    BY DEF Entries, Short
  <2> QED BY <1>3, <2>1 DEF add_alias
<1> QED BY <1>1, <1>2, <1>3

LEMMA AddTakesEffect ==
    ASSUME NEW t \in Seq(Entries), NEW name \in Words, NEW v \in Lines
    PROVE  LET u == add_alias(t, name, v)
           IN  /\ Len(t) < MaxAliases /\ Cut[name] = name => Value(u, name) = v
               /\ \A w \in Words \ {Cut[name]} : Value(u, w) = Value(t, w)
<1> DEFINE u == add_alias(t, name, v)
           n == Len(t)
<1>0. n \in Nat /\ MaxAliases \in Nat /\ u \in Seq(Entries)
  BY ShellAssumption, AddKeepsTable
<1>1. CASE n >= MaxAliases
  <2>1. u = t /\ ~(n < MaxAliases)
    BY <1>0, <1>1 DEF add_alias
  <2> HIDE DEF u
  <2> QED BY <2>1 DEF u, n
<1>2. CASE ~(n >= MaxAliases) /\ Find(t, name) # 0
  <2> DEFINE i == Find(t, name)
  <2>1. First(t, name, i)
    BY <1>2, FindIs
  <2>2. i \in 1 .. n /\ t[i].name = name
    BY <2>1 DEF First
  <2>3. Cut[name] = name
    <3>1. t[i] \in Entries
      BY <2>2
    <3>2. name \in Short
      BY <2>2, <3>1 DEF Entries
    <3> QED BY <3>2, ShortIs
  <2>4. u = [t EXCEPT ![i].value = v]
    BY <1>2 DEF add_alias
  <2> HIDE DEF i, u
  <2>5. /\ Len(u) = n
        /\ \A k \in 1 .. n :
              u[k].name = t[k].name /\ u[k].value = IF k = i THEN v ELSE t[k].value
    BY <2>2, <2>4, ChangedEntry
  <2>6. \A w, k : First(u, w, k) <=> First(t, w, k)
    BY <2>5 DEF First, n
  <2>7. Value(u, name) = v
    <3>1. First(u, name, i)
      BY <2>1, <2>6
    <3>2. Value(u, name) = u[i].value
      BY <1>0, <3>1, ValueFirst
    <3> QED BY <2>2, <2>5, <3>2
  <2>8. ASSUME NEW w \in Words \ {name} PROVE Value(u, w) = Value(t, w)
    <3>1. CASE \E k : First(t, w, k)
      <4>1. PICK k : First(t, w, k)
        BY <3>1
      <4>2. Value(t, w) = t[k].value
        BY <4>1, ValueFirst
      <4>3. Value(u, w) = u[k].value
        <5>1. First(u, w, k)
          BY <2>6, <4>1
        <5> QED BY <1>0, <5>1, ValueFirst
      <4>4. k \in 1 .. n /\ k # i
        BY <2>2, <2>8, <4>1 DEF First
      <4> QED BY <2>5, <4>2, <4>3, <4>4
    <3>2. CASE ~ \E k : First(t, w, k)
      <4>1. \A j \in 1 .. Len(t) : t[j].name # w
        BY <3>2, FindIs
      <4>2. \A j \in 1 .. Len(u) : u[j].name # w
        BY <2>5, <4>1
      <4>3. Value(t, w) = <<>>
        BY <4>1, ValueNone
      <4>4. Value(u, w) = <<>>
        BY <1>0, <4>2, ValueNone
      <4> QED BY <4>3, <4>4
    <3> QED BY <3>1, <3>2
  <2> QED BY <2>3, <2>7, <2>8 DEF u
<1>3. CASE ~(n >= MaxAliases) /\ ~(Find(t, name) # 0)
  <2> DEFINE e == [name |-> Cut[name], value |-> v]
  <2>1. u = Append(t, e)
    BY <1>3 DEF add_alias
  <2>2. e.name = Cut[name] /\ e.value = v
    OBVIOUS
  <2>3. \A j \in 1 .. n : t[j].name # name
    BY <1>3, FindIs
  <2> HIDE DEF u, e
  <2>4. Len(u) = n + 1 /\ u[n + 1] = e /\ \A k \in 1 .. n : u[k] = t[k]
    BY <2>1
  <2>5. ASSUME Cut[name] = name PROVE Value(u, name) = v
    <3>1. u[n + 1].name = name
      BY <2>2, <2>4, <2>5
    <3>2. ASSUME NEW j \in 1 .. n + 1, u[j].name = name PROVE n + 1 <= j
      <4>1. j \notin 1 .. n
        BY <2>3, <2>4, <3>2
      <4> QED BY <1>0, <3>2, <4>1
    <3>3. First(u, name, n + 1)
      BY <1>0, <2>4, <3>1, <3>2 DEF First
    <3>4. Value(u, name) = u[n + 1].value
      BY <1>0, <3>3, ValueFirst
    <3> QED BY <2>2, <2>4, <3>4
  <2>6. ASSUME NEW w \in Words \ {Cut[name]} PROVE Value(u, w) = Value(t, w)
    <3>1. CASE \E k : First(t, w, k)
      <4>1. PICK k : First(t, w, k)
        BY <3>1
      <4>2. Value(t, w) = t[k].value
        BY <4>1, ValueFirst
      <4>3. k \in 1 .. n /\ t[k].name = w /\ \A j \in 1 .. n : t[j].name = w => k <= j
        BY <4>1 DEF First
      <4>4. u[k] = t[k] /\ k \in 1 .. n + 1
        BY <1>0, <2>4, <4>3
      <4>5. ASSUME NEW j \in 1 .. n + 1, u[j].name = w PROVE k <= j
        <5>1. CASE j \in 1 .. n
          BY <2>4, <4>3, <4>5, <5>1
        <5>2. CASE j \notin 1 .. n
          BY <1>0, <4>3, <5>2
        <5> QED BY <5>1, <5>2
      <4>6. First(u, w, k)
        BY <2>4, <4>3, <4>4, <4>5 DEF First
      <4>7. Value(u, w) = u[k].value
        BY <1>0, <4>6, ValueFirst
      <4> QED BY <4>2, <4>4, <4>7
    <3>2. CASE ~ \E k : First(t, w, k)
      <4>1. \A j \in 1 .. n : t[j].name # w
        BY <3>2, FindIs
      <4>2. \A j \in 1 .. n + 1 : u[j].name # w
        <5> TAKE j \in 1 .. n + 1
        <5>1. CASE j \in 1 .. n
          BY <2>4, <4>1, <5>1
        <5>2. CASE j \notin 1 .. n
          <6>1. j = n + 1
            BY <1>0, <5>2
          <6> QED BY <2>2, <2>4, <2>6, <6>1
        <5> QED BY <5>1, <5>2
      <4>3. Value(t, w) = <<>>
        BY <4>1, ValueNone
      <4>4. Value(u, w) = <<>>
        BY <1>0, <2>4, <4>2, ValueNone
      <4> QED BY <4>3, <4>4
    <3> QED BY <3>1, <3>2
  <2> QED BY <2>5, <2>6 DEF u
<1> QED BY <1>1, <1>2, <1>3

\* unalias.
LEMMA RemoveKeepsTable ==
    ASSUME NEW t \in Seq(Entries), NEW name
    PROVE  unalias(t, name) \in Seq(Entries)
<1>1. CASE Find(t, name) = 0
  BY <1>1 DEF unalias
<1>2. CASE Find(t, name) # 0
  <2>1. Find(t, name) \in 1 .. Len(t)
    BY <1>2, FindIs DEF First
  <2> QED BY <1>2, <2>1, RemovedEntry DEF unalias
<1> QED BY <1>1, <1>2

LEMMA RemoveTakesEffect ==
    ASSUME NEW t \in Seq(Entries), NEW name, NEW w, w # name
    PROVE  Value(unalias(t, name), w) = Value(t, w)
<1> DEFINE u == unalias(t, name)
           i == Find(t, name)
           n == Len(t)
<1>1. CASE i = 0
  BY <1>1 DEF unalias
<1>2. CASE i # 0
  <2>1. i \in 1 .. n /\ t[i].name = name /\ n \in Nat
    BY <1>2, FindIs DEF First
  <2>2. u = RemoveAt(t, i)
    BY <1>2 DEF unalias
  <2>3. /\ u \in Seq(Entries) /\ Len(u) = n - 1
        /\ \A k \in 1 .. n - 1 : u[k] = IF k < i THEN t[k] ELSE t[k + 1]
    BY <2>1, <2>2, RemovedEntry
  <2> HIDE DEF u, i, n
  <2>4. CASE \E k : First(t, w, k)
    <3>1. PICK k : First(t, w, k)
      BY <2>4
    <3>2. Value(t, w) = t[k].value
      BY <3>1, ValueFirst
    <3>3. k \in 1 .. n /\ t[k].name = w /\ \A j \in 1 .. n : t[j].name = w => k <= j
      BY <3>1 DEF First, n
    <3> DEFINE m == IF k < i THEN k ELSE k - 1
    <3>4. k # i
      BY <2>1, <3>3
    <3>5. m \in 1 .. n - 1 /\ u[m] = t[k]
      <4>1. CASE k < i
        BY <2>1, <2>3, <3>3, <4>1
      <4>2. CASE ~(k < i)
        <5>1. m = k - 1 /\ k > i
          BY <2>1, <3>3, <3>4, <4>2
        <5>2. m \in 1 .. n - 1 /\ ~(m < i) /\ m + 1 = k
          BY <2>1, <3>3, <5>1
        <5> HIDE DEF m
        <5> QED BY <2>3, <5>2
      <4> QED BY <4>1, <4>2
    <3>6. ASSUME NEW j \in 1 .. n - 1, u[j].name = w PROVE m <= j
      <4>1. CASE j < i
        <5>1. j \in 1 .. n /\ t[j].name = w
          BY <2>1, <2>3, <3>6, <4>1
        <5>2. k <= j
          BY <3>3, <5>1
        <5> QED BY <2>1, <3>3, <5>2
      <4>2. CASE ~(j < i)
        <5>1. j + 1 \in 1 .. n /\ t[j + 1].name = w
          BY <2>1, <2>3, <3>6, <4>2
        <5>2. k <= j + 1
          BY <3>3, <5>1
        <5> QED BY <2>1, <3>3, <4>2, <5>2
      <4> QED BY <4>1, <4>2
    <3> HIDE DEF m
    <3>7. First(u, w, m)
      BY <2>3, <3>3, <3>5, <3>6 DEF First
    <3>8. Value(u, w) = u[m].value
      BY <2>3, <3>7, ValueFirst
    <3> QED BY <3>2, <3>5, <3>8 DEF u
  <2>5. CASE ~ \E k : First(t, w, k)
    <3>1. \A j \in 1 .. Len(t) : t[j].name # w
      BY <2>5, FindIs
    <3>2. \A j \in 1 .. n - 1 : u[j].name # w
      <4> TAKE j \in 1 .. n - 1
      <4>1. j \in 1 .. n /\ j + 1 \in 1 .. n
        BY <2>1
      <4> QED BY <2>3, <3>1, <4>1 DEF n
    <3>3. Value(t, w) = <<>>
      BY <3>1, ValueNone
    <3>4. Value(u, w) = <<>>
      BY <2>3, <3>2, ValueNone
    <3> QED BY <3>3, <3>4 DEF u
  <2> QED BY <2>4, <2>5
<1> QED BY <1>1, <1>2

\* The aliases of shell_init, put in again.
LEMMA AgainKeepsTable ==
    ASSUME NEW t \in Seq(Entries), NEW s \in Seq(Entries)
    PROVE  FoldLeft(LAMBDA u, a : add_alias(u, a.name, a.value), t, s) \in Seq(Entries)
<1>1. Len(s) \in Nat /\ DOMAIN s = 1 .. Len(s)
  OBVIOUS
<1>2. ASSUME NEW k \in 1 .. Len(s), NEW u, IsTable(0, u)
      PROVE  IsTable(0, AddAgain(0, u, s[k]))
  <2>1. s[k].name \in Words /\ s[k].value \in Lines
    <3>1. s[k] \in Entries
      BY <1>2
    <3> QED BY <3>1, ShortIs DEF Entries
  <2> QED BY <1>2, <2>1, AddKeepsTable DEF IsTable, AddAgain
<1>3. IsTable(0, t)
  BY DEF IsTable
<1>4. IsTable(0, G!Fold(0, t, s))
  BY <1>1, <1>2, <1>3, G!FoldGood
<1> QED BY <1>4, AgainFolds DEF IsTable

-----------------------------------------------------------------------------
(* Every step keeps the invariant *)

LEMMA KnownNeeds ==
    /\ "alias" \in DOMAIN Need /\ "unalias" \in DOMAIN Need /\ "sudo" \in DOMAIN Need
    /\ "sh" \in DOMAIN Need /\ "exit" \in DOMAIN Need /\ "" \in DOMAIN Need
    /\ Commands \subseteq DOMAIN Need
BY ShellAssumption DEF Own, Commands

LEMMA ScriptGood ==
    ASSUME ShellInv, Running, Top.at = "exec", NEW name, RunScript(name)
    PROVE  StackGood'
<1>1. CASE name \in DOMAIN Files
  <2>1. Into(<<Script(Files[name])>>, ReadSize)
    BY <1>1 DEF RunScript
  <2>2. Files[name] \in Seq(Lines)
    BY <1>1, ShellAssumption
  <2>3. \E ls \in Seq(Lines) : <<Script(Files[name])>> = <<Script(ls)>> /\ ReadSize = ReadSize
    BY <2>2
  <2> QED BY <2>1, <2>3, IntoGood DEF ShellInv
<1>2. CASE name \notin DOMAIN Files
  BY <1>2, KnownNeeds, DoesGood DEF RunScript, ShellInv
<1> QED BY <1>1, <1>2

\* cmd_exec_script comes to its next line.
LEMMA ScriptLineGood ==
    ASSUME ShellInv, ScriptLine
    PROVE  StackGood'
<1> DEFINE l == TrimmedBoth(Head(Top.lines))
           s == Append(Front(stack), Script(Tail(Top.lines)))
<1>1. Running /\ Top.at = "script" /\ StackGood
  BY DEF ScriptLine, ShellInv
<1>2. CASE Top.lines = <<>>
  BY <1>1, <1>2, ReturnsGood DEF ScriptLine
<1>3. CASE Top.lines # <<>>
  <2>1. IsStack(stack) /\ stack # <<>> /\ stack \in Seq(Frames)
    BY <1>1 DEF StackGood, IsStack, Running
  <2>2. Top \in Frames
    <3>1. Len(stack) \in DOMAIN stack
      BY <2>1, EmptySeq
    <3> QED BY <2>1, <3>1 DEF Top, Last
  <2>3. Top.lines \in Seq(Lines)
    BY <2>2 DEF Frames
  <2>4. Head(Top.lines) \in Lines /\ Tail(Top.lines) \in Seq(Lines)
    BY <1>3, <2>3
  <2>5. l \in Lines
    BY <2>4, TrimmedBothIsLine
  <2>6. /\ Exec(l) \in Frames /\ Exec(l).at = "exec"
        /\ Script(Tail(Top.lines)) \in Frames /\ Script(Tail(Top.lines)).at = "script"
    BY <2>4, <2>5, FramesAre
  <2>7. IsStack(s) /\ s # <<>> /\ Last(s) = Script(Tail(Top.lines))
    BY <1>1, <2>1, <2>6, SwapTop DEF Top
  <2>8. 0 \in Needs("script") /\ 0 \in Needs("exec")
    BY DEF Needs, L
  <2>9. Calls(IF l = <<>> \/ l[1] = "#" THEN s ELSE Append(s, Exec(l)), 0, "")
    BY <1>3 DEF ScriptLine
  <2> HIDE DEF l, s
  <2>10. CASE l = <<>> \/ l[1] = "#"
    <3>1. Calls(s, 0, "")
      BY <2>9, <2>10
    <3> QED BY <2>6, <2>7, <2>8, <3>1, CallsGood
  <2>11. CASE ~(l = <<>> \/ l[1] = "#")
    <3>1. May(s, Exec(l))
      BY <2>6, <2>7 DEF May, X, L
    <3>2. /\ IsStack(Append(s, Exec(l))) /\ Append(s, Exec(l)) # <<>>
          /\ Last(Append(s, Exec(l))) = Exec(l)
      BY <2>6, <2>7, <3>1, PushStack
    <3>3. Calls(Append(s, Exec(l)), 0, "")
      BY <2>9, <2>11
    <3> QED BY <2>6, <2>8, <3>2, <3>3, CallsGood
  <2> QED BY <2>10, <2>11
<1> QED BY <1>2, <1>3

LEMMA ShellStep ==
    ASSUME ShellInv, [ShellNext]_shellVars
    PROVE  ShellInv'
<1> USE DEF ShellInv
<1>1. ASSUME NEW l \in Typed, Enter(l) PROVE ShellInv'
  <2>1. l \in Lines /\ <<>> \in Seq(Lines)
    BY <1>1, ShellAssumption, EmptySeq
  <2>2. Exec(l) \in Frames /\ Exec(l).at = "exec"
    BY <2>1, FramesAre
  <2>3. IsStack(stack) /\ stack = <<>> /\ stack \in Seq(Frames)
    BY <1>1 DEF Enter, StackGood, IsStack
  <2>4. <<Exec(l)>> = Append(stack, Exec(l)) /\ May(stack, Exec(l))
    BY <2>2, <2>3 DEF May, X
  <2>5. /\ IsStack(<<Exec(l)>>) /\ <<Exec(l)>> # <<>> /\ Last(<<Exec(l)>>) = Exec(l)
    BY <2>2, <2>3, <2>4, PushStack
  <2>6. 0 \in Needs("exec") /\ Calls(<<Exec(l)>>, 0, "")
    BY <1>1 DEF Enter, Needs, L
  <2>7. StackGood'
    BY <2>2, <2>5, <2>6, CallsGood
  <2> QED BY <1>1, <2>7 DEF Enter
<1>2. CASE NoLine
  BY <1>2, ReturnsGood DEF NoLine
<1>3. CASE Expand
  <2>1. expand_alias(aliases, Line) \in Lines
    BY ExpandsToLine
  <2>2. Running /\ Top.at = "exec" /\ Into(<<Exec(expand_alias(aliases, Line))>>, 0)
    BY <1>3 DEF Expand
  <2>3. \E l \in Lines : <<Exec(expand_alias(aliases, Line))>> = <<Exec(l)>> /\ 0 = 0
    BY <2>1
  <2>4. StackGood'
    BY <2>2, <2>3, IntoGood
  <2> QED BY <1>3, <2>4 DEF Expand
<1>4. CASE Alias
  <2>1. /\ Running /\ Top.at = "exec"
        /\ Does("alias", IF Len(Args) = 1 THEN Listed ELSE {})
    BY <1>4 DEF Alias, Runs
  <2>2. StackGood'
    BY <2>1, KnownNeeds, DoesGood
  <2>3. Args \in Seq(Words)
    BY <2>1, LineIsLine
  <2>4. CASE Len(Args) >= 3
    <3>1. Args[2] \in Words /\ Args[3] \in Words
      BY <2>3, <2>4
    <3>2. <<Args[3]>> \in Lines
      BY <3>1 DEF Lines
    <3>3. aliases' = add_alias(aliases, Args[2], <<Args[3]>>)
      BY <1>4, <2>4 DEF Alias
    <3> QED BY <2>2, <3>1, <3>2, <3>3, AddKeepsTable
  <2>5. CASE ~(Len(Args) >= 3)
    BY <1>4, <2>2, <2>5 DEF Alias
  <2> QED BY <2>4, <2>5
<1>5. CASE Unalias
  <2>1. StackGood'
    BY <1>5, KnownNeeds, DoesGood DEF Unalias, Runs
  <2>2. aliases' \in Seq(Entries)
    BY <1>5, RemoveKeepsTable DEF Unalias
  <2> QED BY <2>1, <2>2
<1>6. CASE Sudo
  <2>1. Running /\ Top.at = "exec" /\ aliases' = aliases
    BY <1>6 DEF Sudo, Runs
  <2>2. CASE Does("sudo", {})
    BY <2>1, <2>2, KnownNeeds, DoesGood
  <2>3. CASE Len(Args) >= 2 /\ Into(<<Wait("sudo"), Exec(Joined(Tail(Args)))>>, AskSize)
    <3>1. Args \in Seq(Words)
      BY <2>1, LineIsLine
    <3>2. Tail(Args) \in Seq(Words)
      BY <2>3, <3>1
    <3>3. Joined(Tail(Args)) \in Lines
      BY <3>2, JoinedIsLine
    <3>4. \E l \in Lines : <<Wait("sudo"), Exec(Joined(Tail(Args)))>> = <<Wait("sudo"), Exec(l)>>
                           /\ AskSize = AskSize
      BY <3>3
    <3>5. StackGood'
      BY <2>1, <2>3, <3>4, IntoGood
    <3> QED BY <2>1, <3>5
  <2> QED BY <1>6, <2>2, <2>3 DEF Sudo
<1>7. CASE Sh
  <2>1. Running /\ Top.at = "exec" /\ aliases' = aliases
    BY <1>7 DEF Sh, Runs
  <2>2. Does("sh", {}) \/ RunScript(Args[2])
    BY <1>7 DEF Sh
  <2>3. StackGood'
    BY <2>1, <2>2, KnownNeeds, DoesGood, ScriptGood
  <2> QED BY <2>1, <2>3
<1>8. CASE Exit
  <2>1. Running /\ Top.at = "exec" /\ aliases' = aliases
    BY <1>8 DEF Exit, Runs
  <2>2. Does("exit", {}) \/ Into(<<Wait("login")>>, LoginNeed)
    BY <1>8 DEF Exit
  <2>3. StackGood'
    BY <2>1, <2>2, KnownNeeds, DoesGood, IntoGood
  <2> QED BY <2>1, <2>3
<1>9. CASE Command
  <2>1. /\ Running /\ Top.at = "exec" /\ aliases' = aliases
        /\ Args[1] \in DOMAIN Need
    BY <1>9, KnownNeeds DEF Command, Runs
  <2>2. Does(Args[1], {}) \/ Does(Args[1], ToSet(Tail(Args)))
    BY <1>9 DEF Command
  <2>3. StackGood'
    BY <2>1, <2>2, DoesGood
  <2> QED BY <2>1, <2>3
<1>10. CASE Other
  <2>1. Running /\ Top.at = "exec" /\ aliases' = aliases
    BY <1>10 DEF Other, Runs
  <2>2. Does("", {Args[1]}) \/ RunScript(Args[1])
    BY <1>10 DEF Other
  <2>3. StackGood'
    BY <2>1, <2>2, KnownNeeds, DoesGood, ScriptGood
  <2> QED BY <2>1, <2>3
<1>11. CASE Return
  BY <1>11, ReturnsGood DEF Return
<1>12. CASE ScriptLine
  BY <1>12, ScriptLineGood DEF ScriptLine
<1>13. CASE LoginOk
  BY <1>13, ReturnsGood DEF LoginOk, AtLogin
<1>14. CASE LoginFailed
  BY <1>14 DEF LoginFailed, StackGood
<1>15. CASE LoginSwitch
  <2>1. IsStack(stack) /\ stack # <<>> /\ Last(stack).at \in L
    BY <1>15 DEF LoginSwitch, AtLogin, Running, StackGood, Top, L
  <2>2. Wait("again") \in Frames /\ Wait("again").at = "again"
    <3>1. <<>> \in Lines /\ <<>> \in Seq(Lines)
      BY EmptySeq DEF Lines
    <3> QED BY <3>1, FramesAre
  <2>3. May(stack, Wait("again"))
    BY <2>1, <2>2 DEF May
  <2> DEFINE s == Append(stack, Wait("again"))
  <2>4. IsStack(s) /\ s # <<>> /\ Last(s) = Wait("again")
    BY <2>1, <2>2, <2>3, PushStack
  <2>5. LoginNeed \in Needs("again") /\ Calls(s, LoginNeed, "")
    BY <1>15 DEF LoginSwitch, Needs, L
  <2> HIDE DEF s
  <2>6. StackGood'
    BY <2>2, <2>4, <2>5, CallsGood
  <2>7. InitialAliases \in Seq(Entries)
    BY ShellAssumption DEF Entries, Short
  <2>8. aliases' \in Seq(Entries)
    BY <1>15, <2>7, AgainKeepsTable DEF LoginSwitch
  <2> QED BY <2>6, <2>8
<1>16. CASE Dead \/ UNCHANGED shellVars
  BY <1>16 DEF Dead, shellVars, StackGood
<1> QED BY <1>1, <1>2, <1>3, <1>4, <1>5, <1>6, <1>7, <1>8, <1>9, <1>10, <1>11, <1>12,
           <1>13, <1>14, <1>15, <1>16
        DEF ShellNext, Interpreter, Login

LEMMA ShellStart == ShellInit => ShellInv
<1> SUFFICES ASSUME ShellInit PROVE ShellInv
  OBVIOUS
<1>1. stack = <<>> /\ dead = "" /\ aliases = InitialAliases
  BY DEF ShellInit
<1>2. IsStack(stack)
  <2>1. stack \in Seq(Frames)
    BY <1>1, EmptySeq
  <2>2. DOMAIN stack = 1 .. 0
    <3>1. DOMAIN stack = 1 .. Len(stack)
      BY <2>1
    <3>2. Len(stack) = 0
      BY <1>1
    <3> QED BY <3>1, <3>2
  <2> QED BY <2>1, <2>2 DEF IsStack, Nest
<1>3. aliases \in Seq(Entries)
  BY <1>1, ShellAssumption DEF Entries, Short
<1> QED BY <1>1, <1>2, <1>3 DEF ShellInv, StackGood

LEMMA ShellInvariant == ShellSpec => []ShellInv
BY ShellStart, ShellStep, PTL DEF ShellSpec

\* What it takes to overflow the kernel's stack: a script that is run by a script,
\* an alias around a script (the fourth execute_command), six calls of
\* execute_command, or more than Switches switches of the terminal while a login
\* prompt waits, whatever the aliases, the files and the lines are.
THEOREM OneScriptAlwaysFits == ShellSpec => []OneScriptFits
<1>1. ASSUME ShellInv PROVE OneScriptFits
  BY <1>1 DEF OneScriptFits, ShellInv, StackGood, TooMuch, X
<1> QED BY <1>1, ShellInvariant, PTL

\* After alias and unalias a line stands for what was last said of it, and all
\* others for what they did.
THEOREM AliasesTakeEffect == ShellSpec => AliasTakesEffect
<1>1. ASSUME ShellInv, Alias, Len(Args) >= 3
      PROVE  /\ Len(aliases) < MaxAliases /\ Cut[Args[2]] = Args[2] =>
                   Value(aliases', Args[2]) = <<Args[3]>>
             /\ \A w \in Words \ {Cut[Args[2]]} : Value(aliases', w) = Value(aliases, w)
  <2>1. Args \in Seq(Words)
    BY <1>1, LineIsLine DEF Alias, Runs, ShellInv
  <2>2. Args[2] \in Words /\ Args[3] \in Words
    BY <1>1, <2>1
  <2>3. <<Args[3]>> \in Lines
    BY <2>2 DEF Lines
  <2>4. aliases' = add_alias(aliases, Args[2], <<Args[3]>>) /\ aliases \in Seq(Entries)
    BY <1>1 DEF Alias, ShellInv
  <2> QED BY <2>2, <2>3, <2>4, AddTakesEffect
<1>2. ASSUME ShellInv, Unalias, Len(Args) >= 2
      PROVE  \A w \in Words \ {Args[2]} : Value(aliases', w) = Value(aliases, w)
  <2>1. aliases' = unalias(aliases, Args[2]) /\ aliases \in Seq(Entries)
    BY <1>2 DEF Unalias, ShellInv
  <2> QED BY <2>1, RemoveTakesEffect
<1> DEFINE A == /\ Alias /\ Len(Args) >= 3 =>
                      /\ Len(aliases) < MaxAliases /\ Cut[Args[2]] = Args[2] =>
                            Value(aliases', Args[2]) = <<Args[3]>>
                      /\ \A w \in Words \ {Cut[Args[2]]} : Value(aliases', w) = Value(aliases, w)
                /\ Unalias /\ Len(Args) >= 2 =>
                      \A w \in Words \ {Args[2]} : Value(aliases', w) = Value(aliases, w)
<1>3. ASSUME ShellInv PROVE [A]_shellVars
  BY <1>1, <1>2, <1>3
<1>4. ShellSpec => [][A]_shellVars
  <2> HIDE DEF A
  <2> QED BY <1>3, ShellInvariant, PTL
<1> QED BY <1>4 DEF AliasTakesEffect
=============================================================================
