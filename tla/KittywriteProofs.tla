-------------------------- MODULE KittywriteProofs --------------------------
(***************************************************************************)
(* Proofs about the editor of module Kittywrite, for an array, a window and  *)
(* a file of any size and for all the files there may be: its invariants,    *)
(* and that it implements module PlainText.                                  *)
(***************************************************************************)
EXTENDS Kittywrite, FiniteSetTheorems, SequenceTheorems, TLAPS

\* The step of Saved's fold: a line and its newline are put behind x.
PutLine(e, x, l) == Append(x \o l, NL)

Always(e, x) == TRUE

W == INSTANCE Induction WITH Op <- PutLine, Good <- Always

\* What a line is made of.
Lines == Seq(Letters \ {NL})

-----------------------------------------------------------------------------
(* Parts of sequences *)

\* A part of a sequence.
LEMMA PartOf ==
    ASSUME NEW S, NEW s \in Seq(S), NEW a \in 1 .. Len(s) + 1, NEW b \in a - 1 .. Len(s)
    PROVE  /\ SubSeq(s, a, b) \in Seq(S)
           /\ Len(SubSeq(s, a, b)) = b - a + 1
           /\ \A i \in 1 .. b - a + 1 : SubSeq(s, a, b)[i] = s[a + i - 1]
<1>1. a \in Int /\ b \in Int /\ Len(s) \in Nat
  OBVIOUS
<1>2. \A i \in a .. b : s[i] \in S
  OBVIOUS
<1>3. /\ SubSeq(s, a, b) \in Seq(S)
      /\ Len(SubSeq(s, a, b)) = IF a <= b THEN b - a + 1 ELSE 0
      /\ \A i \in 1 .. b - a + 1 : SubSeq(s, a, b)[i] = s[a + i - 1]
  BY <1>1, <1>2, SubSeqProperties, Z3
<1>4. (IF a <= b THEN b - a + 1 ELSE 0) = b - a + 1
  BY <1>1
<1> QED BY <1>3, <1>4

\* A line with a character more.
LEMMA Inserted ==
    ASSUME NEW S, NEW s \in Seq(S), NEW c \in S, NEW p \in 0 .. Len(s)
    PROVE  InsertAt(s, p + 1, c) \in Seq(S) /\ Len(InsertAt(s, p + 1, c)) = Len(s) + 1
<1> DEFINE a == SubSeq(s, 1, p)
           b == SubSeq(s, p + 1, Len(s))
<1>0. p \in Int /\ Len(s) \in Nat /\ (p + 1) - 1 = p
  OBVIOUS
<1>1. a \in Seq(S) /\ Len(a) = p
  <2>1. 1 \in 1 .. Len(s) + 1 /\ p \in 1 - 1 .. Len(s) /\ p - 1 + 1 = p
    BY <1>0
  <2> QED BY <2>1, PartOf
<1>2. b \in Seq(S) /\ Len(b) = Len(s) - p
  <2>1. p + 1 \in 1 .. Len(s) + 1 /\ Len(s) \in (p + 1) - 1 .. Len(s)
        /\ Len(s) - (p + 1) + 1 = Len(s) - p
    BY <1>0
  <2> QED BY <2>1, PartOf
<1>3. InsertAt(s, p + 1, c) = (a \o <<c>>) \o b
  BY <1>0 DEF InsertAt
<1> HIDE DEF a, b
<1>4. a \o <<c>> \in Seq(S) /\ Len(a \o <<c>>) = p + 1
  BY <1>0, <1>1
<1>5. (a \o <<c>>) \o b \in Seq(S) /\ Len((a \o <<c>>) \o b) = Len(a \o <<c>>) + Len(b)
  BY <1>2, <1>4, ConcatProperties
<1>6. Len(a \o <<c>>) + Len(b) = Len(s) + 1
  BY <1>0, <1>2, <1>4
<1> QED BY <1>3, <1>5, <1>6

\* A line with a character less.
LEMMA Removed ==
    ASSUME NEW S, NEW s \in Seq(S), NEW p \in 1 .. Len(s)
    PROVE  RemoveAt(s, p) \in Seq(S) /\ Len(RemoveAt(s, p)) = Len(s) - 1
<1> DEFINE a == SubSeq(s, 1, p - 1)
           b == SubSeq(s, p + 1, Len(s))
<1>0. p \in Int /\ Len(s) \in Nat
  OBVIOUS
<1>1. a \in Seq(S) /\ Len(a) = p - 1
  <2>1. 1 \in 1 .. Len(s) + 1 /\ p - 1 \in 1 - 1 .. Len(s) /\ (p - 1) - 1 + 1 = p - 1
    BY <1>0
  <2> QED BY <2>1, PartOf
<1>2. b \in Seq(S) /\ Len(b) = Len(s) - p
  <2>1. p + 1 \in 1 .. Len(s) + 1 /\ Len(s) \in (p + 1) - 1 .. Len(s)
        /\ Len(s) - (p + 1) + 1 = Len(s) - p
    BY <1>0
  <2> QED BY <2>1, PartOf
<1>3. RemoveAt(s, p) = a \o b
  BY DEF RemoveAt
<1> HIDE DEF a, b
<1>4. a \o b \in Seq(S) /\ Len(a \o b) = Len(a) + Len(b)
  BY <1>1, <1>2, ConcatProperties
<1> QED BY <1>0, <1>1, <1>2, <1>3, <1>4

\* The beginning of a sequence; one that is short enough is kept.
LEMMA CutIs ==
    ASSUME NEW S, NEW s \in Seq(S), NEW n \in Nat
    PROVE  /\ Cut(s, n) \in Seq(S) /\ Len(Cut(s, n)) <= n
           /\ Len(Cut(s, n)) = IF Len(s) < n THEN Len(s) ELSE n
           /\ \A i \in 1 .. Len(Cut(s, n)) : Cut(s, n)[i] = s[i]
           /\ Len(s) <= n => Cut(s, n) = s
<1> DEFINE m == IF Len(s) < n THEN Len(s) ELSE n
<1>0. Len(s) \in Nat /\ m \in Nat /\ m <= n /\ m <= Len(s)
  OBVIOUS
<1>1. Cut(s, n) = SubSeq(s, 1, m)
  BY DEF Cut
<1>2. Len(s) <= n => m = Len(s)
  BY <1>0
<1> HIDE DEF m
<1>3. 1 \in 1 .. Len(s) + 1 /\ m \in 1 - 1 .. Len(s) /\ m - 1 + 1 = m
  BY <1>0
<1>4. /\ SubSeq(s, 1, m) \in Seq(S) /\ Len(SubSeq(s, 1, m)) = m
      /\ \A i \in 1 .. m : SubSeq(s, 1, m)[i] = s[1 + i - 1]
  BY <1>3, PartOf
<1>5. \A i \in 1 .. m : 1 + i - 1 = i
  BY <1>0
<1>6. SubSeq(s, 1, Len(s)) = s
  BY SubSeqFull
<1>7. /\ Cut(s, n) \in Seq(S) /\ Len(Cut(s, n)) = m
      /\ \A i \in 1 .. m : Cut(s, n)[i] = s[i]
  BY <1>1, <1>4, <1>5
<1>8. Len(s) <= n => Cut(s, n) = s
  BY <1>1, <1>2, <1>6
<1> QED BY <1>0, <1>7, <1>8 DEF m

-----------------------------------------------------------------------------
(* The numbering of a set of positions *)

\* The positions up to e.
Upto(T, e) == {i \in T : i <= e}

\* The n-th position.
Nth(T, n) == CHOOSE e \in T : Cardinality(Upto(T, e)) = n

\* A nonempty set of positions has a last one.
LEMMA HasLast ==
    ASSUME NEW m \in Nat, NEW T \in SUBSET (1 .. m), T # {}
    PROVE  \E i \in T : \A j \in T : j <= i
<1> DEFINE B == {k \in Nat : \A j \in T : j <= k}
           k == W!Min(B)
<1>1. B \in SUBSET Nat /\ B # {}
  <2>1. m \in B
    OBVIOUS
  <2> QED BY <2>1
<1>2. k \in B /\ \A x \in B : k <= x
  <2> HIDE DEF B
  <2> QED BY <1>1, W!MinIsLeast
<1> HIDE DEF k
<1>3. k \in Nat /\ \A j \in T : j <= k
  BY <1>2
<1>4. PICK t \in T : t \in 1 .. m
  OBVIOUS
<1>5. k \in T
  <2> SUFFICES ASSUME k \notin T PROVE FALSE
    OBVIOUS
  <2>1. \A j \in T : j \in Int /\ j <= k - 1
    BY <1>3
  <2>2. k - 1 \in Nat
    BY <1>3, <1>4, <2>1
  <2>3. k - 1 \in B
    BY <2>1, <2>2
  <2> QED BY <1>2, <1>3, <2>3
<1> QED BY <1>3, <1>5

\* The positions are finitely many.
LEMMA PositionsFinite ==
    ASSUME NEW m \in Nat, NEW T \in SUBSET (1 .. m)
    PROVE  IsFiniteSet(T) /\ Cardinality(T) \in Nat
<1>1. IsFiniteSet(1 .. m)
  BY FS_Interval
<1>2. IsFiniteSet(T)
  BY <1>1, FS_Subset
<1> QED BY <1>2, FS_CardinalityType

\* Every number has a position.
LEMMA RankExists ==
    \A m \in Nat : \A T \in SUBSET (1 .. m) : \A n \in 1 .. Cardinality(T) :
        \E e \in T : Cardinality(Upto(T, e)) = n
<1> DEFINE R(T) == \A n \in 1 .. Cardinality(T) : \E e \in T : Cardinality(Upto(T, e)) = n
           S == {m \in Nat : \A T \in SUBSET (1 .. m) : R(T)}
<1>1. 0 \in S
  <2>1. ASSUME NEW T \in SUBSET (1 .. 0) PROVE R(T)
    <3>1. T = {}
      OBVIOUS
    <3>2. Cardinality(T) = 0
      BY <3>1, FS_EmptySet
    <3> QED BY <3>2
  <2> QED BY <2>1
<1>2. ASSUME NEW m \in Nat, m \in S PROVE m + 1 \in S
  <2>1. ASSUME NEW T \in SUBSET (1 .. m + 1) PROVE R(T)
    <3>0. m + 1 \in Nat
      OBVIOUS
    <3>1. CASE m + 1 \notin T
      <4>1. T \in SUBSET (1 .. m)
        BY <3>1
      <4> QED BY <1>2, <4>1
    <3>2. CASE m + 1 \in T
      <4> DEFINE U == T \ {m + 1}
      <4>1. U \in SUBSET (1 .. m)
        OBVIOUS
      <4>2. R(U)
        <5> HIDE DEF U, R
        <5> QED BY <1>2, <4>1
      <4>3. IsFiniteSet(T) /\ Cardinality(T) \in Nat
        BY <3>0, PositionsFinite
      <4>4. Cardinality(U) = Cardinality(T) - 1
        BY <3>2, <4>3, FS_RemoveElement
      <4>5. ASSUME NEW n \in 1 .. Cardinality(T)
            PROVE  \E e \in T : Cardinality(Upto(T, e)) = n
        <5>1. CASE n = Cardinality(T)
          <6>1. Upto(T, m + 1) = T
            <7>1. \A i \in T : i <= m + 1
              OBVIOUS
            <7>2. {i \in T : i <= m + 1} = T
              BY <7>1, Zenon
            <7> QED BY <7>2 DEF Upto
          <6> QED BY <3>2, <5>1, <6>1
        <5>2. CASE n # Cardinality(T)
          <6>1. n \in 1 .. Cardinality(U)
            BY <4>3, <4>4, <5>2
          <6>2. PICK e \in U : Cardinality(Upto(U, e)) = n
            BY <4>2, <6>1
          <6>3. e \in 1 .. m /\ ~(m + 1 <= e)
            BY <4>1, <6>2
          <6>4. Upto(T, e) = Upto(U, e) /\ e \in T
            <7>1. \A i : i \in T /\ i <= e <=> i \in U /\ i <= e
              BY <6>3
            <7>2. {i \in T : i <= e} = {i \in U : i <= e}
              <8> HIDE DEF U
              <8> QED BY <7>1, Zenon
            <7> QED BY <6>2, <7>2 DEF Upto
          <6> QED BY <6>2, <6>4
        <5> QED BY <5>1, <5>2
      <4> QED BY <4>5
    <3> QED BY <3>1, <3>2
  <2> HIDE DEF R
  <2> QED BY <2>1
<1>3. Nat \subseteq S
  <2> HIDE DEF S
  <2> QED BY <1>1, <1>2, W!SetInduction
<1> QED BY <1>3

\* And only one.
LEMMA RankOne ==
    ASSUME NEW m \in Nat, NEW T \in SUBSET (1 .. m), NEW d \in T, NEW e \in T, d < e
    PROVE  Cardinality(Upto(T, d)) < Cardinality(Upto(T, e))
<1>1. Upto(T, d) \in SUBSET Upto(T, e) /\ Upto(T, d) # Upto(T, e)
  <2>1. d \in Int /\ e \in Int /\ ~(e <= d) /\ e <= e
    OBVIOUS
  <2>2. e \in Upto(T, e) /\ e \notin Upto(T, d)
    BY <2>1 DEF Upto
  <2>3. ASSUME NEW i \in Upto(T, d) PROVE i \in Upto(T, e)
    <3>1. i \in T /\ i \in Int /\ i <= d
      BY DEF Upto
    <3> QED BY <2>1, <3>1 DEF Upto
  <2> QED BY <2>2, <2>3
<1>2. IsFiniteSet(Upto(T, e)) /\ Upto(T, e) \in SUBSET (1 .. m) /\ Upto(T, d) \in SUBSET (1 .. m)
  <2>1. Upto(T, e) \in SUBSET (1 .. m) /\ Upto(T, d) \in SUBSET (1 .. m)
    BY DEF Upto
  <2> QED BY <2>1, PositionsFinite
<1>3. Cardinality(Upto(T, d)) \in Nat /\ Cardinality(Upto(T, e)) \in Nat
  BY <1>2, PositionsFinite
<1>4. /\ Cardinality(Upto(T, d)) <= Cardinality(Upto(T, e))
      /\ Cardinality(Upto(T, d)) # Cardinality(Upto(T, e))
  BY <1>1, <1>2, FS_Subset
<1> QED BY <1>3, <1>4

\* The n-th position is the one that has the number n.
LEMMA NthIs ==
    ASSUME NEW m \in Nat, NEW T \in SUBSET (1 .. m), NEW n \in 1 .. Cardinality(T)
    PROVE  /\ Nth(T, n) \in T /\ Cardinality(Upto(T, Nth(T, n))) = n
           /\ \A e \in T : Cardinality(Upto(T, e)) = n => e = Nth(T, n)
<1>1. \E e \in T : Cardinality(Upto(T, e)) = n
  BY RankExists
<1> DEFINE k == Nth(T, n)
<1>2. k \in T /\ Cardinality(Upto(T, k)) = n
  BY <1>1 DEF Nth
<1> HIDE DEF k
<1>3. ASSUME NEW e \in T, Cardinality(Upto(T, e)) = n
      PROVE  e = k
  <2>1. e \in Int /\ k \in Int
    BY <1>2
  <2>2. ~(e < k)
    <3> SUFFICES ASSUME e < k PROVE FALSE
      OBVIOUS
    <3>1. Cardinality(Upto(T, e)) < Cardinality(Upto(T, k))
      BY <1>2, RankOne
    <3> QED BY <1>2, <1>3, <3>1
  <2>3. ~(k < e)
    <3> SUFFICES ASSUME k < e PROVE FALSE
      OBVIOUS
    <3>1. Cardinality(Upto(T, k)) < Cardinality(Upto(T, e))
      BY <1>2, RankOne
    <3> QED BY <1>2, <1>3, <3>1
  <2> QED BY <2>1, <2>2, <2>3
<1> QED BY <1>2, <1>3 DEF k

-----------------------------------------------------------------------------
(* Splitting a file into its lines *)

\* The places of the newlines of a file, and the one before place e.
Ends(f) == {i \in 1 .. Len(f) : f[i] = NL}

Before(f, e) ==
    LET b == {i \in Ends(f) : i < e}
    IN  IF b = {} THEN 0 ELSE CHOOSE i \in b : \A j \in b : j <= i

\* Where lines end.
Stops(f) == IF f # <<>> /\ Last(f) # NL THEN Ends(f) \cup {Len(f) + 1} ELSE Ends(f)

LineTo(f, e) == SubSeq(f, Before(f, e) + 1, e - 1)

LEMMA SplitIs ==
    ASSUME NEW f
    PROVE  Split(f) = [n \in 1 .. Cardinality(Stops(f)) |-> LineTo(f, Nth(Stops(f), n))]
BY DEF Split, Stops, Ends, LineTo, Before, Nth, Upto

\* The newline before a place.
LEMMA BeforeIs ==
    ASSUME NEW f \in Seq(Letters), NEW e \in Int
    PROVE  /\ Before(f, e) = 0 \/ (Before(f, e) \in Ends(f) /\ Before(f, e) < e)
           /\ \A i \in Ends(f) : i < e => i <= Before(f, e)
<1> DEFINE b == {i \in Ends(f) : i < e}
<1>1. CASE b = {}
  <2>1. Before(f, e) = 0
    BY <1>1 DEF Before
  <2>2. \A i \in Ends(f) : ~(i < e)
    BY <1>1
  <2> QED BY <2>1, <2>2
<1>2. CASE b # {}
  <2>1. b \in SUBSET (1 .. Len(f)) /\ Len(f) \in Nat
    BY DEF Ends
  <2>2. \E i \in b : \A j \in b : j <= i
    <3> HIDE DEF b
    <3> QED BY <1>2, <2>1, HasLast
  <2>3. Before(f, e) = CHOOSE i \in b : \A j \in b : j <= i
    BY <1>2 DEF Before
  <2> HIDE DEF b
  <2>4. Before(f, e) \in b /\ \A j \in b : j <= Before(f, e)
    BY <2>2, <2>3
  <2> QED BY <2>4 DEF b
<1> QED BY <1>1, <1>2

\* The stops are places of the file or the one behind it.
LEMMA StopsAre ==
    ASSUME NEW f \in Seq(Letters)
    PROVE  /\ Stops(f) \in SUBSET (1 .. Len(f) + 1) /\ Len(f) + 1 \in Nat
           /\ Ends(f) \subseteq 1 .. Len(f) /\ Len(f) \in Nat
           /\ Cardinality(Stops(f)) \in Nat
<1>1. Len(f) \in Nat /\ Ends(f) \subseteq 1 .. Len(f)
  BY DEF Ends
<1>2. Stops(f) \in SUBSET (1 .. Len(f) + 1)
  BY <1>1 DEF Stops
<1>3. Len(f) + 1 \in Nat
  BY <1>1
<1>4. Cardinality(Stops(f)) \in Nat
  BY <1>2, <1>3, PositionsFinite
<1> QED BY <1>1, <1>2, <1>3, <1>4

\* Between a stop and the newline before it there is none.
LEMMA LineToIs ==
    ASSUME NEW f \in Seq(Letters), NEW e \in Stops(f)
    PROVE  /\ LineTo(f, e) \in Lines
           /\ e \in 1 .. Len(f) + 1 /\ Before(f, e) \in 0 .. e - 1
<1>0. e \in 1 .. Len(f) + 1 /\ Len(f) \in Nat /\ Ends(f) \subseteq 1 .. Len(f)
  BY StopsAre
<1> DEFINE a == Before(f, e)
<1>1. /\ a = 0 \/ (a \in Ends(f) /\ a < e)
      /\ \A i \in Ends(f) : i < e => i <= a
  BY <1>0, BeforeIs
<1> HIDE DEF a
<1>2. a \in 0 .. e - 1
  BY <1>0, <1>1
<1>3. ASSUME NEW i \in a + 1 .. e - 1 PROVE f[i] \in Letters \ {NL}
  <2>1. i \in 1 .. Len(f) /\ i < e /\ ~(i <= a)
    BY <1>0, <1>2
  <2>2. f[i] \in Letters
    BY <2>1
  <2>3. i \notin Ends(f)
    BY <1>1, <2>1
  <2> QED BY <2>1, <2>2, <2>3 DEF Ends
<1>4. SubSeq(f, a + 1, e - 1) \in Seq(Letters \ {NL})
  <2>1. a + 1 \in Int /\ e - 1 \in Int
    BY <1>0, <1>2
  <2> QED BY <1>3, <2>1, SubSeqProperties
<1> QED BY <1>0, <1>2, <1>4 DEF LineTo, Lines, a

\* A file is split into lines.
LEMMA SplitTyped ==
    ASSUME NEW f \in Seq(Letters)
    PROVE  Split(f) \in Seq(Lines) /\ Len(Split(f)) = Cardinality(Stops(f))
<1>1. Stops(f) \in SUBSET (1 .. Len(f) + 1) /\ Len(f) + 1 \in Nat /\ Cardinality(Stops(f)) \in Nat
  BY StopsAre
<1>2. ASSUME NEW n \in 1 .. Cardinality(Stops(f))
      PROVE  LineTo(f, Nth(Stops(f), n)) \in Lines
  <2>1. Nth(Stops(f), n) \in Stops(f)
    BY <1>1, NthIs
  <2> QED BY <2>1, LineToIs
<1>3. Split(f) \in [1 .. Cardinality(Stops(f)) -> Lines]
  BY <1>2, SplitIs
<1> QED BY <1>1, <1>3

\* What is loaded fits the array, and every line its row of it.
LEMMA LoadedTyped ==
    ASSUME NEW f \in Seq(Letters)
    PROVE  /\ Loaded(f) \in Seq(Lines) /\ Len(Loaded(f)) \in 1 .. MaxLines
           /\ \A i \in 1 .. Len(Loaded(f)) : Len(Loaded(f)[i]) < Width
<1> DEFINE ls == Cut(Split(f), MaxLines)
<1>0. MaxLines \in Nat \ {0} /\ Width \in Nat \ {0, 1} /\ Width - 1 \in Nat
  BY KittywriteAssumption
<1>1. ls \in Seq(Lines) /\ Len(ls) <= MaxLines /\ Len(ls) \in Nat
  <2>1. Split(f) \in Seq(Lines)
    BY SplitTyped
  <2> QED BY <1>0, <2>1, CutIs
<1>2. CASE ls = <<>>
  <2>1. Loaded(f) = <<<<>>>>
    BY <1>2 DEF Loaded
  <2>2. <<>> \in Lines
    BY DEF Lines
  <2>3. Loaded(f) \in Seq(Lines) /\ Len(Loaded(f)) = 1 /\ Loaded(f)[1] = <<>>
    BY <2>1, <2>2
  <2>4. Len(<<>>) < Width
    BY <1>0
  <2> QED BY <1>0, <2>3, <2>4
<1>3. CASE ls # <<>>
  <2> HIDE DEF ls
  <2>1. Loaded(f) = [i \in 1 .. Len(ls) |-> Cut(ls[i], Width - 1)]
    BY <1>3 DEF Loaded, ls
  <2>2. ASSUME NEW i \in 1 .. Len(ls)
        PROVE  Cut(ls[i], Width - 1) \in Lines /\ Len(Cut(ls[i], Width - 1)) < Width
    <3>1. ls[i] \in Seq(Letters \ {NL})
      BY <1>1 DEF Lines
    <3>2. Cut(ls[i], Width - 1) \in Seq(Letters \ {NL}) /\ Len(Cut(ls[i], Width - 1)) <= Width - 1
      BY <1>0, <3>1, CutIs
    <3>3. Len(Cut(ls[i], Width - 1)) \in Nat
      BY <3>2
    <3> QED BY <1>0, <3>2, <3>3 DEF Lines
  <2>3. Loaded(f) \in [1 .. Len(ls) -> Lines]
    BY <2>1, <2>2
  <2>4. Loaded(f) \in Seq(Lines) /\ Len(Loaded(f)) = Len(ls)
    BY <1>1, <2>3
  <2>5. Len(ls) >= 1
    BY <1>1, <1>3
  <2>6. \A i \in 1 .. Len(ls) : Len(Loaded(f)[i]) < Width
    BY <2>1, <2>2
  <2> QED BY <1>0, <1>1, <2>4, <2>5, <2>6
<1> QED BY <1>2, <1>3

-----------------------------------------------------------------------------
(* What is saved is loaded again *)

\* A file that is empty or ends with a newline, and a line put behind it.
LEMMA PutIs ==
    ASSUME NEW g \in Seq(Letters), NEW l \in Lines
    PROVE  LET f == PutLine(0, g, l)
               a == Len(g)
               m == a + Len(l) + 1
           IN  /\ f \in Seq(Letters) /\ Len(f) = m /\ a \in Nat /\ m \in Nat /\ a < m
               /\ \A i \in 1 .. a : f[i] = g[i]
               /\ \A i \in a + 1 .. m - 1 : f[i] = l[i - a] /\ f[i] # NL
               /\ f[m] = NL /\ f # <<>> /\ Last(f) = NL
<1> DEFINE f == PutLine(0, g, l)
           a == Len(g)
           m == a + Len(l) + 1
           h == g \o l
<1>1. l \in Seq(Letters) /\ l \in Seq(Letters \ {NL}) /\ NL \in Letters /\ Len(l) \in Nat
  BY DEF Lines, Letters
<1>2. h \in Seq(Letters) /\ Len(h) = a + Len(l) /\ a \in Nat
      /\ \A i \in 1 .. Len(h) : h[i] = IF i <= a THEN g[i] ELSE l[i - a]
  BY <1>1
<1> HIDE DEF h
<1>3. f = Append(h, NL)
  BY DEF PutLine, h
<1>4. /\ f \in Seq(Letters) /\ Len(f) = Len(h) + 1
      /\ \A i \in 1 .. Len(h) : f[i] = h[i]
      /\ f[Len(h) + 1] = NL
  <2> HIDE DEF f
  <2> QED BY <1>1, <1>2, <1>3
<1> HIDE DEF f
<1>5. Len(f) = m /\ m \in Nat /\ a < m /\ f[m] = NL
  BY <1>1, <1>2, <1>4
<1>6. ASSUME NEW i \in 1 .. a PROVE f[i] = g[i]
  <2>1. i \in 1 .. Len(h) /\ i <= a
    BY <1>1, <1>2
  <2> QED BY <1>2, <1>4, <2>1
<1>7. ASSUME NEW i \in a + 1 .. m - 1 PROVE f[i] = l[i - a] /\ f[i] # NL
  <2>1. i \in 1 .. Len(h) /\ ~(i <= a) /\ i - a \in 1 .. Len(l)
    BY <1>1, <1>2
  <2>2. f[i] = l[i - a]
    BY <1>2, <1>4, <2>1
  <2>3. l[i - a] \in Letters \ {NL}
    BY <1>1, <2>1
  <2> QED BY <2>2, <2>3
<1>8. f # <<>>
  BY <1>2, <1>5
<1>9. Last(f) = NL
  BY <1>5 DEF Last
<1> HIDE DEF m, a
<1>10. f \in Seq(Letters)
  BY <1>4
<1> QED BY <1>2, <1>5, <1>6, <1>7, <1>8, <1>9, <1>10 DEF f, m, a

\* A line put behind such a file is one line more of it.
LEMMA SplitPut ==
    ASSUME NEW g \in Seq(Letters), g = <<>> \/ Last(g) = NL, NEW l \in Lines
    PROVE  Split(PutLine(0, g, l)) = Append(Split(g), l)
<1> DEFINE f == PutLine(0, g, l)
           a == Len(g)
           m == a + Len(l) + 1
           T == Ends(g)
           U == Stops(f)
           c == Cardinality(T)
<1>1. /\ f \in Seq(Letters) /\ Len(f) = m /\ a \in Nat /\ m \in Nat /\ a < m
      /\ \A i \in 1 .. a : f[i] = g[i]
      /\ \A i \in a + 1 .. m - 1 : f[i] = l[i - a] /\ f[i] # NL
      /\ f[m] = NL /\ f # <<>> /\ Last(f) = NL
  BY PutIs
<1>0. m = a + Len(l) + 1 /\ Len(g) = a
  OBVIOUS
<1> HIDE DEF f, m
<1>2. U = Ends(f) /\ Stops(g) = T
  BY <1>1 DEF Stops
<1>3. T \in SUBSET (1 .. a) /\ U \in SUBSET (1 .. m)
  BY <1>1, <1>2 DEF Ends
<1>4. ASSUME NEW i PROVE i \in U <=> i \in T \/ i = m
  <2>1. CASE i \in 1 .. a
    <3>1. i \in 1 .. m /\ i # m
      BY <1>1, <2>1
    <3> QED BY <1>1, <1>2, <2>1, <3>1 DEF Ends
  <2>2. CASE i \in a + 1 .. m - 1
    <3>1. i \notin 1 .. a /\ i # m
      BY <1>1, <2>2
    <3> QED BY <1>1, <1>2, <1>3, <2>2, <3>1 DEF Ends
  <2>3. CASE i = m
    <3>1. i \in 1 .. m
      BY <1>1, <2>3
    <3> QED BY <1>1, <1>2, <2>3, <3>1 DEF Ends
  <2>4. CASE i \notin 1 .. m
    <3>1. i # m /\ i \notin 1 .. a
      BY <1>1, <2>4
    <3> QED BY <1>3, <2>4, <3>1
  <2>5. i \in 1 .. m => i \in 1 .. a \/ i \in a + 1 .. m - 1 \/ i = m
    BY <1>1
  <2> QED BY <2>1, <2>2, <2>3, <2>4, <2>5
<1>5. U = T \cup {m} /\ m \notin T
  BY <1>1, <1>3, <1>4
<1> HIDE DEF T, U
<1>6. IsFiniteSet(T) /\ c \in Nat /\ Cardinality(U) = c + 1
  <2>1. IsFiniteSet(T) /\ Cardinality(T) \in Nat
    BY <1>1, <1>3, PositionsFinite
  <2> QED BY <1>5, <2>1, FS_AddElement
<1> HIDE DEF c
<1>7. ASSUME NEW n \in 1 .. c
      PROVE  LineTo(f, Nth(U, n)) = LineTo(g, Nth(T, n)) /\ LineTo(g, Nth(T, n)) \in Lines
  <2> DEFINE e == Nth(T, n)
  <2>1. e \in T /\ Cardinality(Upto(T, e)) = n
    BY <1>1, <1>3, NthIs DEF c
  <2> HIDE DEF e
  <2>2. e \in 1 .. a /\ e \in U /\ ~(m <= e) /\ ~(m < e)
    BY <1>1, <1>3, <1>4, <2>1
  <2>3. Upto(U, e) = Upto(T, e)
    BY <1>5, <2>2 DEF Upto
  <2>4. e = Nth(U, n)
    <3>1. n \in 1 .. Cardinality(U)
      BY <1>6
    <3> QED BY <1>1, <1>3, <2>1, <2>2, <2>3, <3>1, NthIs
  <2>5. Before(f, e) = Before(g, e)
    <3>1. {i \in U : i < e} = {i \in T : i < e}
      <4>1. \A i : i \in U /\ i < e <=> i \in T /\ i < e
        BY <1>5, <2>2
      <4> QED BY <4>1
    <3>2. {i \in Ends(f) : i < e} = {i \in Ends(g) : i < e}
      BY <1>2, <3>1 DEF T
    <3> DEFINE Top(b) == IF b = {} THEN 0 ELSE CHOOSE i \in b : \A j \in b : j <= i
    <3>3. /\ Before(f, e) = Top({i \in Ends(f) : i < e})
          /\ Before(g, e) = Top({i \in Ends(g) : i < e})
      BY DEF Before
    <3> HIDE DEF Top
    <3> QED BY <3>2, <3>3
  <2>6. LineTo(g, e) \in Lines /\ Before(g, e) \in 0 .. e - 1
    BY <1>2, <2>1, LineToIs
  <2>7. SubSeq(f, Before(g, e) + 1, e - 1) = SubSeq(g, Before(g, e) + 1, e - 1)
    <3> DEFINE b == Before(g, e)
    <3>1. /\ b + 1 \in 1 .. a + 1 /\ e - 1 \in (b + 1) - 1 .. a
          /\ b + 1 \in 1 .. Len(f) + 1 /\ e - 1 \in (b + 1) - 1 .. Len(f)
      BY <1>1, <2>2, <2>6
    <3> HIDE DEF b
    <3> DEFINE s == SubSeq(f, b + 1, e - 1)
               r == SubSeq(g, b + 1, e - 1)
               k == (e - 1) - (b + 1) + 1
    <3>2. /\ s \in Seq(Letters) /\ Len(s) = k
          /\ \A i \in 1 .. k : s[i] = f[(b + 1) + i - 1]
      <4>1. f \in Seq(Letters) /\ b + 1 \in 1 .. Len(f) + 1 /\ e - 1 \in (b + 1) - 1 .. Len(f)
        BY <1>1, <3>1
      <4> QED BY <4>1, PartOf, Zenon
    <3>3. /\ r \in Seq(Letters) /\ Len(r) = k
          /\ \A i \in 1 .. k : r[i] = g[(b + 1) + i - 1]
      BY <3>1, PartOf
    <3>4. \A i \in 1 .. k : (b + 1) + i - 1 \in 1 .. a
      BY <1>1, <2>2, <3>1
    <3> HIDE DEF s, r, k
    <3>5. \A i \in 1 .. Len(s) : s[i] = r[i]
      BY <1>1, <3>2, <3>3, <3>4
    <3>6. s = r
      BY <3>2, <3>3, <3>5, SeqEqual
    <3> QED BY <3>6 DEF s, r, b
  <2>8. LineTo(f, e) = LineTo(g, e)
    BY <2>5, <2>7 DEF LineTo
  <2> QED BY <2>4, <2>6, <2>8 DEF e
<1>8. LineTo(f, Nth(U, c + 1)) = l
  <2>1. m \in U /\ Upto(U, m) = U
    <3>1. m \in U
      BY <1>5
    <3>2. \A i \in U : i <= m
      BY <1>1, <1>3
    <3>3. {i \in U : i <= m} = U
      BY <3>2, Zenon
    <3> QED BY <3>1, <3>3 DEF Upto
  <2>2. Nth(U, c + 1) = m
    <3>1. c + 1 \in 1 .. Cardinality(U)
      BY <1>6
    <3>2. \A d \in U : Cardinality(Upto(U, d)) = c + 1 => d = Nth(U, c + 1)
      BY <1>1, <1>3, <3>1, NthIs
    <3>3. m \in U /\ Cardinality(Upto(U, m)) = c + 1
      BY <1>6, <2>1
    <3> QED BY <3>2, <3>3
  <2>3. Before(f, m) = a
    <3>1. /\ Before(f, m) = 0 \/ (Before(f, m) \in U /\ Before(f, m) < m)
          /\ \A i \in U : i < m => i <= Before(f, m)
      <4>1. m \in Int
        BY <1>1
      <4> QED BY <1>1, <1>2, <4>1, BeforeIs
    <3>2. Before(f, m) = 0 \/ Before(f, m) \in T
      BY <1>1, <1>5, <3>1
    <3>3. Before(f, m) \in 0 .. a
      <4>1. T \subseteq 0 .. a /\ 0 \in 0 .. a
        BY <1>1, <1>3
      <4> QED BY <3>2, <4>1
    <3>4. CASE g = <<>>
      <4>1. a = 0
        BY <3>4
      <4> QED BY <3>3, <4>1
    <3>5. CASE g # <<>>
      <4>1. a \in 1 .. a /\ g[a] = NL
        BY <3>5 DEF Last
      <4>2. a \in T
        BY <4>1 DEF T, Ends
      <4>3. a <= Before(f, m)
        BY <1>1, <1>5, <3>1, <4>2
      <4> QED BY <1>1, <3>3, <4>3
    <3> QED BY <3>4, <3>5
  <2>4. SubSeq(f, a + 1, m - 1) = l
    <3> DEFINE s == SubSeq(f, a + 1, m - 1)
    <3>0. l \in Seq(Letters) /\ Len(l) \in Nat
      BY DEF Lines
    <3>1. /\ a + 1 \in 1 .. Len(f) + 1 /\ m - 1 \in (a + 1) - 1 .. Len(f)
          /\ (m - 1) - (a + 1) + 1 = Len(l)
      BY <1>0, <1>1, <3>0
    <3>2. /\ s \in Seq(Letters) /\ Len(s) = Len(l)
          /\ \A i \in 1 .. Len(l) : s[i] = f[(a + 1) + i - 1]
      BY <1>1, <3>1, PartOf
    <3> HIDE DEF s
    <3>3. ASSUME NEW i \in 1 .. Len(s) PROVE s[i] = l[i]
      <4>1. (a + 1) + i - 1 \in a + 1 .. m - 1 /\ ((a + 1) + i - 1) - a = i
        BY <1>0, <1>1, <3>0, <3>2
      <4> QED BY <1>1, <3>2, <4>1
    <3>4. s = l
      BY <3>0, <3>2, <3>3, SeqEqual
    <3> QED BY <3>4 DEF s
  <2> QED BY <2>2, <2>3, <2>4 DEF LineTo
<1>9. Split(g) = [n \in 1 .. c |-> LineTo(g, Nth(T, n))]
  BY <1>2, SplitIs DEF c
<1>10. Split(g) \in Seq(Lines) /\ Len(Split(g)) = c
  BY <1>2, SplitTyped DEF c
<1>11. Split(f) = [n \in 1 .. c + 1 |-> LineTo(f, Nth(U, n))]
  BY <1>6, SplitIs DEF U
<1>12. Append(Split(g), l) = [n \in 1 .. c + 1 |-> Append(Split(g), l)[n]]
  <2> DEFINE w == Append(Split(g), l)
  <2>1. w \in Seq(Lines)
    BY <1>10
  <2>2. Len(w) = c + 1 /\ c + 1 \in Nat
    BY <1>6, <1>10
  <2> HIDE DEF w
  <2>3. w = [n \in 1 .. c + 1 |-> w[n]]
    BY <2>1, <2>2
  <2> QED BY <2>3 DEF w
<1>13. ASSUME NEW n \in 1 .. c + 1
       PROVE  LineTo(f, Nth(U, n)) = Append(Split(g), l)[n]
  <2>1. CASE n = c + 1
    <3>1. Append(Split(g), l)[c + 1] = l
      BY <1>10
    <3> QED BY <1>8, <2>1, <3>1
  <2>2. CASE n # c + 1
    <3>1. n \in 1 .. c
      BY <1>6, <2>2
    <3>2. Append(Split(g), l)[n] = Split(g)[n]
      BY <1>10, <3>1
    <3> QED BY <1>7, <1>9, <3>1, <3>2
  <2> QED BY <2>1, <2>2
<1>14. Split(f) = Append(Split(g), l)
  BY <1>11, <1>12, <1>13
<1> QED BY <1>14 DEF f

\* What the fold of Saved makes of lines is split into them.
LEMMA SplitSaved ==
    ASSUME NEW t \in Seq(Lines)
    PROVE  W!Fold(0, <<>>, t) \in Seq(Letters) /\ Split(W!Fold(0, <<>>, t)) = t
<1> DEFINE F(s) == W!Fold(0, <<>>, s)
           Good(s) == F(s) \in Seq(Letters) /\ (F(s) = <<>> \/ Last(F(s)) = NL) /\ Split(F(s)) = s
           S == {n \in Nat : \A s \in Seq(Lines) : Len(s) = n => Good(s)}
<1>1. 0 \in S
  <2>1. ASSUME NEW s \in Seq(Lines), Len(s) = 0 PROVE Good(s)
    <3>1. s = <<>>
      BY <2>1
    <3>2. F(s) = <<>>
      BY <3>1, W!FoldEmpty
    <3>3. <<>> \in Seq(Letters)
      OBVIOUS
    <3>4. Stops(<<>>) = {}
      BY DEF Stops, Ends
    <3>5. Split(<<>>) \in Seq(Lines) /\ Len(Split(<<>>)) = 0
      BY <3>3, <3>4, SplitTyped, FS_EmptySet
    <3>6. Split(<<>>) = <<>>
      BY <3>5
    <3> QED BY <3>1, <3>2, <3>3, <3>6
  <2> HIDE DEF Good
  <2> QED BY <2>1
<1>2. ASSUME NEW n \in Nat, n \in S PROVE n + 1 \in S
  <2>1. ASSUME NEW s \in Seq(Lines), Len(s) = n + 1 PROVE Good(s)
    <3> DEFINE p == [k \in 1 .. n |-> s[k]]
               l == s[n + 1]
               g == F(p)
    <3>1. /\ p \in Seq(Lines) /\ Len(p) = n /\ l \in Lines
          /\ DOMAIN p = 1 .. n /\ DOMAIN s = 1 .. n + 1
      BY <2>1
    <3>2. s = Append(p, l)
      BY <2>1
    <3>3. F(s) = PutLine(0, F(p), l)
      <4>1. \A k \in 1 .. n : p[k] = s[k]
        OBVIOUS
      <4> HIDE DEF p
      <4> QED BY <3>1, <4>1, W!FoldLast
    <3> HIDE DEF p, l
    <3>4. Good(p)
      <4> HIDE DEF Good
      <4> QED BY <1>2, <3>1
    <3>5. g \in Seq(Letters) /\ (g = <<>> \/ Last(g) = NL) /\ Split(g) = p
      BY <3>4
    <3> HIDE DEF g
    <3>6. Split(PutLine(0, g, l)) = Append(p, l)
      BY <3>1, <3>5, SplitPut
    <3>7. PutLine(0, g, l) \in Seq(Letters) /\ Last(PutLine(0, g, l)) = NL
      BY <3>1, <3>5, PutIs
    <3>8. F(s) = PutLine(0, g, l)
      BY <3>3 DEF g
    <3> HIDE DEF F
    <3> QED BY <3>2, <3>6, <3>7, <3>8
  <2> HIDE DEF Good
  <2> QED BY <2>1
<1>3. Nat \subseteq S
  <2> HIDE DEF S
  <2> QED BY <1>1, <1>2, W!SetInduction
<1>4. Len(t) \in S
  BY <1>3
<1>5. Good(t)
  <2> HIDE DEF Good
  <2> QED BY <1>4
<1> QED BY <1>5

\* The lines of the array.
Slots == [0 .. MaxLines - 1 -> Lines]

LEMMA TextIs ==
    ASSUME NEW ls \in Slots, NEW n \in 0 .. MaxLines
    PROVE  Text(ls, n) \in Seq(Lines) /\ Len(Text(ls, n)) = n
<1>1. n \in Nat /\ MaxLines \in Nat
  BY KittywriteAssumption
<1>2. \A i \in 1 .. n : i - 1 \in 0 .. MaxLines - 1
  BY <1>1
<1>3. Text(ls, n) \in [1 .. n -> Lines]
  BY <1>2 DEF Text, Slots
<1> QED BY <1>1, <1>3

\* A text of lines that fit is saved, and loaded again as it was.
LEMMA SavedIsLoaded ==
    ASSUME NEW ls \in Slots, NEW n \in 1 .. MaxLines,
           \A k \in 0 .. MaxLines - 1 : Len(ls[k]) < Width
    PROVE  /\ Saved(ls, n) \in Seq(Letters)
           /\ Loaded(Saved(ls, n)) = Text(ls, n)
<1> DEFINE t == Text(ls, n)
           f == Saved(ls, n)
<1>0. MaxLines \in Nat \ {0} /\ Width \in Nat \ {0, 1} /\ n \in Nat /\ n \in 0 .. MaxLines
  BY KittywriteAssumption
<1>1. t \in Seq(Lines) /\ Len(t) = n
  BY <1>0, TextIs
<1>2. f = W!Fold(0, <<>>, t)
  BY DEF Saved, W!Fold, FoldLeft, MapThenFoldSet, Max, W!FoldLeft, W!MapThenFoldSet, W!Max, PutLine
<1> HIDE DEF f
<1>3. f \in Seq(Letters) /\ Split(f) = t
  <2> HIDE DEF t
  <2> QED BY <1>1, <1>2, SplitSaved
<1>4. Cut(t, MaxLines) = t
  <2> HIDE DEF t
  <2> QED BY <1>0, <1>1, CutIs
<1>5. ASSUME NEW i \in 1 .. n PROVE Cut(t[i], Width - 1) = t[i]
  <2>1. t[i] = ls[i - 1] /\ i - 1 \in 0 .. MaxLines - 1
    BY <1>0 DEF Text
  <2>2. t[i] \in Seq(Letters \ {NL}) /\ Len(t[i]) < Width
    BY <2>1 DEF Slots, Lines
  <2>3. Len(t[i]) <= Width - 1 /\ Width - 1 \in Nat
    BY <1>0, <2>2
  <2> HIDE DEF t
  <2> QED BY <2>2, <2>3, CutIs
<1>6. t # <<>>
  <2> HIDE DEF t
  <2> QED BY <1>1
<1>7. Loaded(f) = [i \in 1 .. Len(t) |-> Cut(t[i], Width - 1)]
  <2> HIDE DEF t
  <2> QED BY <1>3, <1>4, <1>6 DEF Loaded
<1> HIDE DEF t
<1>8. t = [i \in 1 .. n |-> t[i]]
  BY <1>1
<1>9. Loaded(f) = t
  BY <1>1, <1>5, <1>7, <1>8
<1> QED BY <1>3, <1>9 DEF t, f

-----------------------------------------------------------------------------
(* The invariant *)

\* Every line of the array leaves room for its zero.
Short(ls) == \A k \in 0 .. MaxLines - 1 : Len(ls[k]) < Width

\* The cursor (l, col) is in the n lines of ls, and the window w shows it.
InText(ls, n, l, col, w) ==
    /\ n \in 1 .. MaxLines
    /\ l \in 0 .. n - 1 /\ col \in 0 .. Len(ls[l])
    /\ w \in Nat /\ l \in w .. w + Rows - 1

\* What a row may show: a line, or another terminal.
Sights == Lines \cup {Foreign}

\* Behind the last line, no row shows one: it is empty or another terminal's.
BlankBelow(r, n, w) == \A y \in 0 .. Rows - 1 : w + y >= n => r[y] \in {<<>>, Foreign}

\* The inductive invariant. That the rows behind the text show none of it is what makes
\* it enough to draw one row more than there are lines when two were joined.
KwInv ==
    /\ kw_lines \in Slots /\ Short(kw_lines)
    /\ kw_num_lines \in 0 .. MaxLines
    /\ file \in Seq(Letters)
    /\ rows \in [0 .. Rows - 1 -> Sights]
    /\ open => /\ InText(kw_lines, kw_num_lines, kw_cur_line, kw_cur_col, kw_scroll)
               /\ BlankBelow(rows, kw_num_lines, kw_scroll)
    /\ CleanIsOnDisk

\* After an edit the row of the cursor shows its line; after two lines were joined
\* every row does, or another terminal from the second row behind the text on.
Seen ==
    \A y \in 0 .. Rows - 1 :
        LET i == kw_scroll' + y
        IN  i = kw_cur_line' \/ kw_num_lines' < kw_num_lines =>
                \/ rows'[y] = Shown(kw_lines', kw_num_lines', i)
                \/ i > kw_num_lines' /\ rows'[y] = Foreign

\* The bounds of the array, the window and the file.
LEMMA Sizes ==
    /\ MaxLines \in Nat /\ MaxLines > 0 /\ Width \in Nat /\ Width > 1
    /\ Rows \in Nat /\ Rows > 0 /\ FileMax \in Nat
BY KittywriteAssumption

\* What the running editor knows.
LEMMA Running ==
    ASSUME KwInv, open
    PROVE  /\ kw_lines \in Slots /\ Short(kw_lines)
           /\ kw_num_lines \in 1 .. MaxLines /\ kw_num_lines \in Nat
           /\ kw_cur_line \in 0 .. kw_num_lines - 1 /\ kw_cur_line \in Nat
           /\ kw_cur_line \in 0 .. MaxLines - 1
           /\ cur \in Seq(Letters \ {NL}) /\ Len(cur) \in Nat /\ Len(cur) < Width
           /\ kw_cur_col \in 0 .. Len(cur) /\ kw_cur_col \in Nat
           /\ kw_scroll \in Nat /\ kw_cur_line >= kw_scroll /\ kw_cur_line < kw_scroll + Rows
<1>1. InText(kw_lines, kw_num_lines, kw_cur_line, kw_cur_col, kw_scroll)
      /\ kw_lines \in Slots /\ Short(kw_lines)
  BY DEF KwInv
<1>2. /\ kw_num_lines \in 1 .. MaxLines /\ kw_cur_line \in 0 .. kw_num_lines - 1
      /\ kw_cur_col \in 0 .. Len(cur) /\ kw_scroll \in Nat
      /\ kw_cur_line \in kw_scroll .. kw_scroll + Rows - 1
  BY <1>1 DEF InText, cur
<1>3. /\ kw_num_lines \in Nat /\ kw_cur_line \in Nat /\ kw_cur_line \in 0 .. MaxLines - 1
      /\ kw_cur_line >= kw_scroll /\ kw_cur_line < kw_scroll + Rows
  BY <1>2, Sizes
<1>4. cur \in Seq(Letters \ {NL}) /\ Len(cur) < Width
  BY <1>1, <1>3 DEF Slots, Lines, Short, cur
<1>5. Len(cur) \in Nat /\ kw_cur_col \in Nat
  BY <1>2, <1>4
<1> QED BY <1>1, <1>2, <1>3, <1>4, <1>5

\* The window is moved just enough to show line l.
LEMMA WindowShows ==
    ASSUME NEW l \in Nat, kw_scroll \in Nat
    PROVE  /\ Window(l) \in Nat /\ l \in Window(l) .. Window(l) + Rows - 1
           /\ Window(l) <= kw_scroll \/ Window(l) + Rows - 1 = l
           /\ l <= kw_scroll + Rows - 1 => Window(l) <= kw_scroll
<1>1. CASE l < kw_scroll
  BY <1>1, Sizes DEF Window
<1>2. CASE ~(l < kw_scroll) /\ l >= kw_scroll + Rows
  BY <1>2, Sizes DEF Window
<1>3. CASE ~(l < kw_scroll) /\ ~(l >= kw_scroll + Rows)
  BY <1>3, Sizes DEF Window
<1> QED BY <1>1, <1>2, <1>3

\* Rows that are drawn show their lines, the others stay as they are.
LEMMA DrawIs ==
    ASSUME NEW r, NEW is, NEW ls, NEW n, NEW w, NEW y \in 0 .. Rows - 1
    PROVE  Draw(r, is, ls, n, w)[y] = IF w + y \in is THEN Shown(ls, n, w + y) ELSE r[y]
BY DEF Draw

LEMMA DrawTyped ==
    ASSUME NEW r \in [0 .. Rows - 1 -> Sights], NEW is, NEW ls \in Slots,
           NEW n \in 0 .. MaxLines, NEW w \in Nat
    PROVE  Draw(r, is, ls, n, w) \in [0 .. Rows - 1 -> Sights]
<1>1. ASSUME NEW y \in 0 .. Rows - 1 PROVE Shown(ls, n, w + y) \in Lines
  <2>1. CASE w + y < n
    <3>1. w + y \in 0 .. MaxLines - 1
      BY <2>1, Sizes
    <3> QED BY <2>1, <3>1 DEF Shown, Slots
  <2>2. CASE ~(w + y < n)
    BY <2>2 DEF Shown, Lines
  <2> QED BY <2>1, <2>2
<1> QED BY <1>1 DEF Draw, Sights

\* Behind the text no row shows a line if none does that is not drawn.
LEMMA DrawBlank ==
    ASSUME NEW r, NEW is, NEW ls, NEW n \in Nat, NEW w \in Nat,
           \A y \in 0 .. Rows - 1 : w + y >= n /\ w + y \notin is => r[y] \in {<<>>, Foreign}
    PROVE  BlankBelow(Draw(r, is, ls, n, w), n, w)
<1> SUFFICES ASSUME NEW y \in 0 .. Rows - 1, w + y >= n
             PROVE  Draw(r, is, ls, n, w)[y] \in {<<>>, Foreign}
  BY DEF BlankBelow
<1>1. ~(w + y < n)
  BY Sizes
<1> QED BY <1>1, DrawIs DEF Shown

-----------------------------------------------------------------------------
(* The keys *)

\* The cursor moves to a place of the text.
LEMMA GoToStep ==
    ASSUME KwInv, open, NEW l \in 0 .. kw_num_lines - 1, NEW col \in 0 .. Len(kw_lines[l]),
           GoTo(l, col)
    PROVE  KwInv'
<1> DEFINE w == Window(l)
           drawn == IF w = kw_scroll THEN rows
                    ELSE Draw(rows, All(kw_num_lines), kw_lines, kw_num_lines, w)
<1>0. kw_num_lines \in 1 .. MaxLines /\ kw_num_lines \in Nat /\ l \in Nat /\ kw_scroll \in Nat
  BY Running
<1>1. /\ kw_cur_line' = l /\ kw_cur_col' = col /\ kw_scroll' = w /\ rows' = drawn
      /\ UNCHANGED <<kw_lines, kw_num_lines, kw_modified, file, open>>
  BY DEF GoTo, text
<1>2. w \in Nat /\ l \in w .. w + Rows - 1 /\ (w <= kw_scroll \/ w + Rows - 1 = l)
  BY <1>0, WindowShows
<1> HIDE DEF w
<1>3. InText(kw_lines, kw_num_lines, l, col, w)
  BY <1>0, <1>2 DEF InText
<1>4. BlankBelow(drawn, kw_num_lines, w) /\ drawn \in [0 .. Rows - 1 -> Sights]
  <2>0. /\ BlankBelow(rows, kw_num_lines, kw_scroll) /\ rows \in [0 .. Rows - 1 -> Sights]
        /\ kw_lines \in Slots /\ kw_num_lines \in 0 .. MaxLines
    BY DEF KwInv
  <2>1. CASE w = kw_scroll
    BY <2>0, <2>1
  <2>2. CASE w # kw_scroll
    <3>1. ASSUME NEW y \in 0 .. Rows - 1, w + y >= kw_num_lines,
                 w + y \notin All(kw_num_lines)
          PROVE  rows[y] \in {<<>>, Foreign}
      <4>1. w <= kw_scroll
        BY <1>0, <1>2, <3>1, Sizes
      <4>2. kw_scroll + y >= kw_num_lines
        BY <1>0, <1>2, <3>1, <4>1, Sizes
      <4> QED BY <2>0, <4>2 DEF BlankBelow
    <3>2. BlankBelow(Draw(rows, All(kw_num_lines), kw_lines, kw_num_lines, w), kw_num_lines, w)
      BY <1>0, <1>2, <3>1, DrawBlank
    <3>3. Draw(rows, All(kw_num_lines), kw_lines, kw_num_lines, w) \in [0 .. Rows - 1 -> Sights]
      BY <1>2, <2>0, DrawTyped
    <3> QED BY <2>2, <3>2, <3>3
  <2> QED BY <2>1, <2>2
<1> HIDE DEF drawn
<1>5. CleanIsOnDisk'
  BY <1>1 DEF KwInv, CleanIsOnDisk
<1>6. InText(kw_lines, kw_num_lines, kw_cur_line, kw_cur_col, kw_scroll)'
  BY <1>1, <1>3 DEF InText
<1>7. BlankBelow(rows, kw_num_lines, kw_scroll)'
  BY <1>1, <1>4 DEF BlankBelow
<1>8. (kw_lines \in Slots /\ Short(kw_lines))'
  BY <1>1 DEF KwInv, Slots, Short
<1>9. (kw_num_lines \in 0 .. MaxLines /\ file \in Seq(Letters) /\ rows \in [0 .. Rows - 1 -> Sights])'
  BY <1>1, <1>4 DEF KwInv
<1> QED BY <1>5, <1>6, <1>7, <1>8, <1>9 DEF KwInv

\* The text is edited.
LEMMA ChangeStep ==
    ASSUME KwInv, open, NEW ls \in Slots, Short(ls), NEW n, NEW l, NEW col, NEW w, NEW drawn,
           InText(ls, n, l, col, w),
           \A y \in 0 .. Rows - 1 : w + y >= n /\ w + y \notin drawn => rows[y] \in {<<>>, Foreign},
           l \in drawn, n < kw_num_lines => drawn = All(n),
           Change(ls, n, l, col, w, drawn)
    PROVE  KwInv' /\ Seen
<1>1. /\ kw_lines' = ls /\ kw_num_lines' = n /\ kw_cur_line' = l /\ kw_cur_col' = col
      /\ kw_scroll' = w /\ kw_modified' = TRUE /\ rows' = Draw(rows, drawn, ls, n, w)
      /\ UNCHANGED <<file, open>>
  BY DEF Change
<1>2. n \in 0 .. MaxLines /\ n \in Nat /\ w \in Nat
  BY Sizes DEF InText
<1>3. BlankBelow(Draw(rows, drawn, ls, n, w), n, w)
  BY <1>2, DrawBlank
<1>4. Draw(rows, drawn, ls, n, w) \in [0 .. Rows - 1 -> Sights]
  BY <1>2, DrawTyped DEF KwInv
<1>5. CleanIsOnDisk'
  BY <1>1 DEF CleanIsOnDisk
<1>6. InText(kw_lines, kw_num_lines, kw_cur_line, kw_cur_col, kw_scroll)'
  BY <1>1 DEF InText
<1>7. BlankBelow(rows, kw_num_lines, kw_scroll)'
  BY <1>1, <1>3 DEF BlankBelow
<1>8. (kw_lines \in Slots /\ Short(kw_lines))'
  BY <1>1 DEF Slots, Short
<1>9. (kw_num_lines \in 0 .. MaxLines /\ file \in Seq(Letters) /\ rows \in [0 .. Rows - 1 -> Sights])'
  BY <1>1, <1>2, <1>4 DEF KwInv
<1>10. KwInv'
  BY <1>5, <1>6, <1>7, <1>8, <1>9 DEF KwInv
<1>11. l \in Nat
  BY <1>2 DEF InText
<1>12. ASSUME NEW y \in 0 .. Rows - 1, w + y = l \/ n < kw_num_lines
       PROVE  \/ Draw(rows, drawn, ls, n, w)[y] = Shown(ls, n, w + y)
              \/ w + y > n /\ Draw(rows, drawn, ls, n, w)[y] = Foreign
  <2>1. CASE w + y \in drawn
    BY <2>1, DrawIs
  <2>2. CASE w + y \notin drawn
    <3>1. w + y # l
      BY <2>2
    <3>2. w + y \notin All(n) /\ w + y \in Nat
      BY <1>2, <1>12, <2>2, <3>1, Sizes
    <3>3. w + y > n /\ w + y >= n /\ ~(w + y < n)
      BY <1>2, <3>2 DEF All
    <3>4. rows[y] \in {<<>>, Foreign}
      BY <2>2, <3>3
    <3> QED BY <2>2, <3>3, <3>4, DrawIs DEF Shown
  <2> QED BY <2>1, <2>2
<1>13. Seen
  BY <1>1, <1>12 DEF Seen
<1> QED BY <1>10, <1>13

\* A slot gets another line that fits.
LEMMA SlotSet ==
    ASSUME NEW ls \in Slots, Short(ls), NEW k \in 0 .. MaxLines - 1,
           NEW s \in Lines, Len(s) < Width
    PROVE  [ls EXCEPT ![k] = s] \in Slots /\ Short([ls EXCEPT ![k] = s])
           /\ [ls EXCEPT ![k] = s][k] = s
           /\ \A j \in 0 .. MaxLines - 1 : j # k => [ls EXCEPT ![k] = s][j] = ls[j]
BY DEF Slots, Short

\* Moving slots leaves them lines that fit.
LEMMA Shifted ==
    ASSUME NEW ls \in Slots, Short(ls), NEW i \in 1 .. kw_num_lines, kw_num_lines \in 0 .. MaxLines
    PROVE  /\ kw_num_lines < MaxLines => ShiftUp(ls, i) \in Slots /\ Short(ShiftUp(ls, i))
           /\ ShiftDown(ls, i) \in Slots /\ Short(ShiftDown(ls, i))
<1>0. DOMAIN ls = 0 .. MaxLines - 1 /\ i \in Nat /\ kw_num_lines \in Nat /\ MaxLines \in Nat
  BY Sizes DEF Slots
<1>1. ASSUME NEW k \in 0 .. MaxLines - 1
      PROVE  ls[k] \in Lines /\ Len(ls[k]) < Width
  BY DEF Slots, Short
<1>2. ASSUME kw_num_lines < MaxLines
      PROVE  ShiftUp(ls, i) \in Slots /\ Short(ShiftUp(ls, i))
  <2>1. ASSUME NEW k \in 0 .. MaxLines - 1
        PROVE  ShiftUp(ls, i)[k] \in Lines /\ Len(ShiftUp(ls, i)[k]) < Width
    <3>1. ShiftUp(ls, i)[k] = IF k > i /\ k <= kw_num_lines THEN ls[k - 1] ELSE ls[k]
      BY <1>0 DEF ShiftUp
    <3>2. k > i => k - 1 \in 0 .. MaxLines - 1
      BY <1>0
    <3> QED BY <1>1, <3>1, <3>2
  <2>2. ShiftUp(ls, i) = [k \in 0 .. MaxLines - 1 |-> ShiftUp(ls, i)[k]]
    BY <1>0 DEF ShiftUp
  <2>3. ShiftUp(ls, i) \in Slots
    BY <2>1, <2>2 DEF Slots
  <2> QED BY <2>1, <2>3 DEF Short
<1>3. ShiftDown(ls, i) \in Slots /\ Short(ShiftDown(ls, i))
  <2>1. ASSUME NEW k \in 0 .. MaxLines - 1
        PROVE  ShiftDown(ls, i)[k] \in Lines /\ Len(ShiftDown(ls, i)[k]) < Width
    <3>1. ShiftDown(ls, i)[k] = IF k >= i /\ k < kw_num_lines - 1 THEN ls[k + 1] ELSE ls[k]
      BY <1>0 DEF ShiftDown
    <3>2. k < kw_num_lines - 1 => k + 1 \in 0 .. MaxLines - 1
      BY <1>0
    <3> QED BY <1>1, <3>1, <3>2
  <2>2. ShiftDown(ls, i) = [k \in 0 .. MaxLines - 1 |-> ShiftDown(ls, i)[k]]
    BY <1>0 DEF ShiftDown
  <2>3. ShiftDown(ls, i) \in Slots
    BY <2>1, <2>2 DEF Slots
  <2> QED BY <2>1, <2>3 DEF Short
<1> QED BY <1>2, <1>3

\* The keys that only move the cursor.
LEMMA MoveStep ==
    ASSUME KwInv, open,
           KeyLeft \/ KeyRight \/ Vertical(kw_cur_line - 1) \/ Vertical(kw_cur_line + 1) \/ HomeEnd
    PROVE  \E l \in 0 .. kw_num_lines - 1 : \E col \in 0 .. Len(kw_lines[l]) : GoTo(l, col)
<1>0. /\ kw_num_lines \in 1 .. MaxLines /\ kw_num_lines \in Nat /\ cur = kw_lines[kw_cur_line]
      /\ kw_cur_line \in 0 .. kw_num_lines - 1 /\ kw_cur_line \in Nat
      /\ Len(cur) \in Nat /\ kw_cur_col \in 0 .. Len(cur) /\ kw_cur_col \in Nat
      /\ kw_lines \in Slots
  BY Running DEF cur
<1>1. ASSUME NEW l \in 0 .. kw_num_lines - 1
      PROVE  Len(kw_lines[l]) \in Nat
  <2>1. l \in 0 .. MaxLines - 1
    BY <1>0, Sizes
  <2> QED BY <1>0, <2>1 DEF Slots, Lines
<1>2. CASE KeyLeft
  <2>1. CASE kw_cur_col > 0 /\ GoTo(kw_cur_line, kw_cur_col - 1)
    <3>1. kw_cur_col - 1 \in 0 .. Len(kw_lines[kw_cur_line])
      BY <1>0, <2>1
    <3> QED BY <1>0, <2>1, <3>1
  <2>2. CASE kw_cur_line > 0 /\ GoTo(kw_cur_line - 1, Len(kw_lines[kw_cur_line - 1]))
    <3>1. kw_cur_line - 1 \in 0 .. kw_num_lines - 1
      BY <1>0, <2>2
    <3>2. Len(kw_lines[kw_cur_line - 1]) \in 0 .. Len(kw_lines[kw_cur_line - 1])
      BY <1>1, <3>1
    <3> QED BY <2>2, <3>1, <3>2
  <2> QED BY <1>2, <2>1, <2>2 DEF KeyLeft
<1>3. CASE KeyRight
  <2>1. CASE kw_cur_col < Len(cur) /\ GoTo(kw_cur_line, kw_cur_col + 1)
    <3>1. kw_cur_col + 1 \in 0 .. Len(kw_lines[kw_cur_line])
      BY <1>0, <2>1
    <3> QED BY <1>0, <2>1, <3>1
  <2>2. CASE kw_cur_line < kw_num_lines - 1 /\ GoTo(kw_cur_line + 1, 0)
    <3>1. kw_cur_line + 1 \in 0 .. kw_num_lines - 1
      BY <1>0, <2>2
    <3>2. 0 \in 0 .. Len(kw_lines[kw_cur_line + 1])
      BY <1>1, <3>1
    <3> QED BY <2>2, <3>1, <3>2
  <2> QED BY <1>3, <2>1, <2>2 DEF KeyRight
<1>4. ASSUME NEW l, Vertical(l)
      PROVE  \E k \in 0 .. kw_num_lines - 1 : \E col \in 0 .. Len(kw_lines[k]) : GoTo(k, col)
  <2> DEFINE col == IF kw_cur_col > Len(kw_lines[l]) THEN Len(kw_lines[l]) ELSE kw_cur_col
  <2>1. l \in 0 .. kw_num_lines - 1 /\ GoTo(l, col)
    BY <1>4 DEF Vertical
  <2>2. Len(kw_lines[l]) \in Nat
    BY <1>1, <2>1
  <2>3. col \in 0 .. Len(kw_lines[l])
    BY <1>0, <2>2
  <2> HIDE DEF col
  <2> QED BY <2>1, <2>3
<1>5. CASE HomeEnd
  <2>1. PICK col \in {0, Len(cur)} : GoTo(kw_cur_line, col)
    BY <1>5 DEF HomeEnd
  <2>2. col \in 0 .. Len(kw_lines[kw_cur_line])
    BY <1>0, <2>1
  <2> QED BY <1>0, <2>1, <2>2
<1> QED BY <1>2, <1>3, <1>4, <1>5

\* What the two halves of the line are.
LEMMA Halves ==
    ASSUME KwInv, open
    PROVE  LET a == SubSeq(cur, 1, kw_cur_col)
               b == SubSeq(cur, kw_cur_col + 1, Len(cur))
           IN  a \in Lines /\ Len(a) < Width /\ b \in Lines /\ Len(b) < Width
<1>0. /\ cur \in Seq(Letters \ {NL}) /\ Len(cur) \in Nat /\ Len(cur) < Width
      /\ kw_cur_col \in 0 .. Len(cur) /\ kw_cur_col \in Nat
  BY Running
<1>1. /\ 1 \in 1 .. Len(cur) + 1 /\ kw_cur_col \in 1 - 1 .. Len(cur)
      /\ kw_cur_col + 1 \in 1 .. Len(cur) + 1 /\ Len(cur) \in (kw_cur_col + 1) - 1 .. Len(cur)
  BY <1>0
<1> DEFINE a == SubSeq(cur, 1, kw_cur_col)
           b == SubSeq(cur, kw_cur_col + 1, Len(cur))
<1>2. a \in Lines /\ Len(a) = kw_cur_col - 1 + 1
  BY <1>0, <1>1, PartOf DEF Lines
<1>3. b \in Lines /\ Len(b) = Len(cur) - (kw_cur_col + 1) + 1
  BY <1>0, <1>1, PartOf DEF Lines
<1> HIDE DEF a, b
<1>4. Len(a) < Width /\ Len(b) < Width
  BY <1>0, <1>2, <1>3, Sizes
<1> QED BY <1>2, <1>3, <1>4 DEF a, b

\* Enter.
LEMMA EnterStep ==
    ASSUME KwInv, open, Enter
    PROVE  KwInv' /\ Seen
<1> DEFINE l == kw_cur_line + 1
           a == SubSeq(cur, 1, kw_cur_col)
           b == SubSeq(cur, kw_cur_col + 1, Len(cur))
           up == ShiftUp(kw_lines, l)
           one == [up EXCEPT ![l] = b]
           ls == [one EXCEPT ![kw_cur_line] = a]
           n == kw_num_lines + 1
           w == Window(l)
           drawn == IF w = kw_scroll THEN {kw_cur_line, l} ELSE All(n)
<1>0. /\ kw_num_lines \in 1 .. MaxLines /\ kw_num_lines \in Nat
      /\ kw_cur_line \in 0 .. kw_num_lines - 1 /\ kw_cur_line \in Nat
      /\ kw_cur_line \in 0 .. MaxLines - 1 /\ kw_lines \in Slots /\ Short(kw_lines)
      /\ kw_scroll \in Nat /\ kw_cur_line >= kw_scroll
  BY Running
<1>1. kw_num_lines < MaxLines /\ Change(ls, n, l, 0, w, drawn)
  BY DEF Enter
<1>2. a \in Lines /\ Len(a) < Width /\ b \in Lines /\ Len(b) < Width
  BY Halves
<1>3. l \in 1 .. kw_num_lines /\ l \in 0 .. MaxLines - 1 /\ l \in Nat
      /\ n \in 1 .. MaxLines /\ n \in Nat /\ l \in 0 .. n - 1
  BY <1>0, <1>1, Sizes
<1>4. up \in Slots /\ Short(up)
  <2>1. kw_num_lines \in 0 .. MaxLines
    BY <1>0
  <2> QED BY <1>0, <1>1, <1>3, <2>1, Shifted
<1> HIDE DEF a, b, up
<1>5. one \in Slots /\ Short(one)
  BY <1>2, <1>3, <1>4, SlotSet
<1> HIDE DEF one
<1>6. ls \in Slots /\ Short(ls)
  BY <1>0, <1>2, <1>5, SlotSet
<1>7. w \in Nat /\ l \in w .. w + Rows - 1 /\ (w <= kw_scroll \/ w + Rows - 1 = l)
  BY <1>0, <1>3, WindowShows
<1>8. Len(ls[l]) \in Nat
  BY <1>3, <1>6 DEF Slots, Lines
<1> HIDE DEF ls, w
<1>9. InText(ls, n, l, 0, w)
  <2>1. 0 \in 0 .. Len(ls[l])
    BY <1>8
  <2> HIDE DEF l, n
  <2> QED BY <1>3, <1>7, <2>1 DEF InText
<1>10. ASSUME NEW y \in 0 .. Rows - 1, w + y >= n, w + y \notin drawn
       PROVE  rows[y] \in {<<>>, Foreign}
  <2>1. w <= kw_scroll
    BY <1>0, <1>3, <1>7, <1>10, Sizes
  <2>2. kw_scroll + y >= kw_num_lines
    BY <1>0, <1>3, <1>7, <1>10, <2>1, Sizes
  <2> QED BY <2>2 DEF KwInv, BlankBelow
<1>11. l \in drawn /\ ~(n < kw_num_lines)
  BY <1>0, <1>3 DEF All
<1> HIDE DEF l, n, drawn
<1> QED BY <1>1, <1>6, <1>9, <1>10, <1>11, ChangeStep

\* Two lines become one.
LEMMA JoinStep ==
    ASSUME KwInv, open, NEW i \in 0 .. kw_num_lines - 2, NEW col \in 0 .. Len(kw_lines[i]),
           NEW w \in Nat, w <= kw_scroll, i \in w .. w + Rows - 1, JoinWith(i, i, col, w)
    PROVE  KwInv' /\ Seen
<1> DEFINE s == kw_lines[i] \o kw_lines[i + 1]
           one == [kw_lines EXCEPT ![i] = s]
           ls == ShiftDown(one, i + 1)
           n == kw_num_lines - 1
<1>0. /\ kw_num_lines \in 1 .. MaxLines /\ kw_num_lines \in 0 .. MaxLines /\ kw_num_lines \in Nat
      /\ kw_lines \in Slots /\ Short(kw_lines) /\ kw_scroll \in Nat
  BY Running
<1>1. Len(kw_lines[i]) + Len(kw_lines[i + 1]) < KW_MAX_COL /\ Change(ls, n, i, col, w, All(n))
  BY DEF JoinWith
<1>2. /\ i \in Nat /\ i \in 0 .. MaxLines - 1 /\ i + 1 \in 0 .. MaxLines - 1
      /\ i + 1 \in 1 .. kw_num_lines
      /\ n \in 1 .. MaxLines /\ n \in Nat /\ i \in 0 .. n - 1
  BY <1>0, Sizes
<1>3. kw_lines[i] \in Seq(Letters \ {NL}) /\ kw_lines[i + 1] \in Seq(Letters \ {NL})
  BY <1>0, <1>2 DEF Slots, Lines
<1> DEFINE p == Len(kw_lines[i])
           q == Len(kw_lines[i + 1])
<1>4. s \in Lines /\ Len(s) = p + q /\ p \in Nat /\ q \in Nat
  BY <1>3 DEF Lines
<1>5. Len(s) < Width /\ p <= Len(s) /\ col \in 0 .. p
  <2>1. p + q < Width - 1 /\ col \in 0 .. p
    BY <1>1 DEF KW_MAX_COL
  <2> HIDE DEF s, p, q
  <2> QED BY <1>4, <2>1, Sizes
<1> HIDE DEF s, p, q
<1>6. one \in Slots /\ Short(one) /\ one[i] = s
  <2>1. i \in 0 .. MaxLines - 1 /\ s \in Lines /\ kw_lines \in Slots /\ Short(kw_lines)
    BY <1>0, <1>2, <1>4
  <2> QED BY <1>5, <2>1, SlotSet
<1> HIDE DEF one
<1>7. ls \in Slots /\ Short(ls)
  BY <1>0, <1>2, <1>6, Shifted
<1>8. ls[i] = s
  <2>1. DOMAIN one = 0 .. MaxLines - 1 /\ ~(i >= i + 1)
    BY <1>2, <1>6 DEF Slots
  <2> QED BY <1>2, <1>6, <2>1 DEF ShiftDown
<1> HIDE DEF ls
<1>9. InText(ls, n, i, col, w)
  <2>1. col \in 0 .. Len(ls[i])
    <3>1. col \in 0 .. Len(s)
      BY <1>4, <1>5
    <3> QED BY <1>8, <3>1
  <2> HIDE DEF n
  <2> QED BY <1>2, <2>1 DEF InText
<1>10. ASSUME NEW y \in 0 .. Rows - 1, w + y >= n, w + y \notin All(n)
       PROVE  rows[y] \in {<<>>, Foreign}
  <2>1. w + y >= kw_num_lines
    BY <1>0, <1>2, <1>10, Sizes DEF All
  <2>2. kw_scroll + y >= kw_num_lines
    BY <1>0, <2>1, Sizes
  <2> QED BY <2>2 DEF KwInv, BlankBelow
<1>11. i \in All(n)
  BY <1>2 DEF All
<1> HIDE DEF n
<1> QED BY <1>1, <1>7, <1>9, <1>10, <1>11, ChangeStep

\* The line of the cursor becomes another, and the cursor is in it.
LEMMA LineStep ==
    ASSUME KwInv, open, NEW s \in Lines, Len(s) < Width, NEW col \in 0 .. Len(s),
           Change([kw_lines EXCEPT ![kw_cur_line] = s], kw_num_lines,
                  kw_cur_line, col, kw_scroll, {kw_cur_line})
    PROVE  KwInv' /\ Seen
<1> DEFINE ls == [kw_lines EXCEPT ![kw_cur_line] = s]
<1>0. /\ kw_num_lines \in 1 .. MaxLines /\ kw_num_lines \in Nat
      /\ kw_cur_line \in 0 .. kw_num_lines - 1 /\ kw_cur_line \in Nat
      /\ kw_cur_line \in 0 .. MaxLines - 1 /\ kw_lines \in Slots /\ Short(kw_lines)
      /\ kw_scroll \in Nat /\ kw_cur_line >= kw_scroll /\ kw_cur_line < kw_scroll + Rows
  BY Running
<1>1. ls \in Slots /\ Short(ls) /\ ls[kw_cur_line] = s
  BY <1>0, SlotSet
<1> HIDE DEF ls
<1>2. InText(ls, kw_num_lines, kw_cur_line, col, kw_scroll)
  <2>1. kw_cur_line \in kw_scroll .. kw_scroll + Rows - 1
    BY <1>0, Sizes
  <2> QED BY <1>0, <1>1, <2>1 DEF InText
<1>3. \A y \in 0 .. Rows - 1 :
          kw_scroll + y >= kw_num_lines /\ kw_scroll + y \notin {kw_cur_line} => rows[y] \in {<<>>, Foreign}
  BY DEF KwInv, BlankBelow
<1>4. Change(ls, kw_num_lines, kw_cur_line, col, kw_scroll, {kw_cur_line})
  BY DEF ls
<1>5. kw_cur_line \in {kw_cur_line} /\ ~(kw_num_lines < kw_num_lines)
  BY <1>0
<1> QED BY <1>1, <1>2, <1>3, <1>4, <1>5, ChangeStep

\* Backspace, Delete, and typing.
LEMMA EditStep ==
    ASSUME KwInv, open, Backspace \/ Delete \/ \E c \in Chars : Insert(c)
    PROVE  KwInv' /\ Seen
<1>0. /\ kw_num_lines \in 1 .. MaxLines /\ kw_num_lines \in Nat /\ cur = kw_lines[kw_cur_line]
      /\ kw_cur_line \in 0 .. kw_num_lines - 1 /\ kw_cur_line \in Nat /\ kw_lines \in Slots
      /\ cur \in Seq(Letters \ {NL}) /\ Len(cur) \in Nat /\ Len(cur) < Width
      /\ kw_cur_col \in 0 .. Len(cur) /\ kw_cur_col \in Nat
      /\ kw_scroll \in Nat /\ kw_cur_line >= kw_scroll /\ kw_cur_line < kw_scroll + Rows
  BY Running DEF cur
<1>1. ASSUME NEW k \in 1 .. Len(cur), NEW col \in 0 .. Len(cur) - 1,
             Change([kw_lines EXCEPT ![kw_cur_line] = RemoveAt(@, k)], kw_num_lines,
                    kw_cur_line, col, kw_scroll, {kw_cur_line})
      PROVE  KwInv' /\ Seen
  <2>1. RemoveAt(cur, k) \in Lines /\ Len(RemoveAt(cur, k)) = Len(cur) - 1
    BY <1>0, Removed DEF Lines
  <2>2. Len(RemoveAt(cur, k)) < Width /\ col \in 0 .. Len(RemoveAt(cur, k))
    BY <1>0, <2>1, Sizes
  <2>3. Change([kw_lines EXCEPT ![kw_cur_line] = RemoveAt(cur, k)], kw_num_lines,
               kw_cur_line, col, kw_scroll, {kw_cur_line})
    BY <1>1 DEF cur
  <2> QED BY <2>1, <2>2, <2>3, LineStep
<1>2. CASE kw_cur_col > 0 /\ Backspace
  <2>1. Change([kw_lines EXCEPT ![kw_cur_line] = RemoveAt(@, kw_cur_col)], kw_num_lines,
               kw_cur_line, kw_cur_col - 1, kw_scroll, {kw_cur_line})
    BY <1>2 DEF Backspace
  <2>2. kw_cur_col \in 1 .. Len(cur) /\ kw_cur_col - 1 \in 0 .. Len(cur) - 1
    BY <1>0, <1>2
  <2> QED BY <1>1, <2>1, <2>2
<1>3. CASE ~(kw_cur_col > 0) /\ Backspace
  <2> DEFINE i == kw_cur_line - 1
  <2>1. kw_cur_line > 0 /\ JoinWith(i, i, Len(kw_lines[i]), Window(i))
    BY <1>3 DEF Backspace
  <2>2. i \in 0 .. kw_num_lines - 2 /\ i \in Nat /\ i \in 0 .. MaxLines - 1
    BY <1>0, <2>1, Sizes
  <2>3. Len(kw_lines[i]) \in 0 .. Len(kw_lines[i])
    BY <1>0, <2>2 DEF Slots, Lines
  <2>4. Window(i) \in Nat /\ i \in Window(i) .. Window(i) + Rows - 1 /\ Window(i) <= kw_scroll
    <3>1. i <= kw_scroll + Rows - 1
      BY <1>0, Sizes
    <3> HIDE DEF i
    <3> QED BY <1>0, <2>2, <3>1, WindowShows
  <2> HIDE DEF i
  <2> QED BY <2>1, <2>2, <2>3, <2>4, JoinStep
<1>4. CASE kw_cur_col < Len(cur) /\ Delete
  <2>1. Change([kw_lines EXCEPT ![kw_cur_line] = RemoveAt(@, kw_cur_col + 1)], kw_num_lines,
               kw_cur_line, kw_cur_col, kw_scroll, {kw_cur_line})
    BY <1>0, <1>4 DEF Delete
  <2>2. kw_cur_col + 1 \in 1 .. Len(cur) /\ kw_cur_col \in 0 .. Len(cur) - 1
    BY <1>0, <1>4
  <2> QED BY <1>1, <2>1, <2>2
<1>5. CASE ~(kw_cur_col < Len(cur)) /\ Delete
  <2>1. kw_cur_line < kw_num_lines - 1 /\ JoinWith(kw_cur_line, kw_cur_line, kw_cur_col, kw_scroll)
    BY <1>5 DEF Delete
  <2>2. kw_cur_line \in 0 .. kw_num_lines - 2 /\ kw_cur_col \in 0 .. Len(kw_lines[kw_cur_line])
        /\ kw_scroll <= kw_scroll /\ kw_cur_line \in kw_scroll .. kw_scroll + Rows - 1
    BY <1>0, <2>1, Sizes
  <2> QED BY <1>0, <2>1, <2>2, JoinStep
<1>6. ASSUME NEW c \in Chars, Insert(c) PROVE KwInv' /\ Seen
  <2> DEFINE s == InsertAt(cur, kw_cur_col + 1, c)
  <2>1. /\ Len(cur) < KW_MAX_COL - 1
        /\ Change([kw_lines EXCEPT ![kw_cur_line] = s], kw_num_lines,
                  kw_cur_line, kw_cur_col + 1, kw_scroll, {kw_cur_line})
    BY <1>6 DEF Insert, cur
  <2>2. c \in Letters \ {NL}
    BY KittywriteAssumption DEF Letters
  <2>3. s \in Lines /\ Len(s) = Len(cur) + 1
    <3>1. InsertAt(cur, kw_cur_col + 1, c) \in Seq(Letters \ {NL})
          /\ Len(InsertAt(cur, kw_cur_col + 1, c)) = Len(cur) + 1
      <4>1. cur \in Seq(Letters \ {NL}) /\ kw_cur_col \in 0 .. Len(cur)
        BY <1>0
      <4> HIDE DEF cur
      <4> QED BY <2>2, <4>1, Inserted
    <3> QED BY <3>1 DEF Lines
  <2> HIDE DEF s
  <2>4. Len(s) < Width /\ kw_cur_col + 1 \in 0 .. Len(s)
    BY <1>0, <2>1, <2>3, Sizes DEF KW_MAX_COL
  <2> QED BY <2>1, <2>3, <2>4, LineStep
<1> QED BY <1>2, <1>3, <1>4, <1>5, <1>6

-----------------------------------------------------------------------------
(* The file *)

\* Ctrl+S. Only here is it needed that what is saved is loaded as it was.
LEMMA SaveStep ==
    ASSUME KwInv, open, Save
    PROVE  KwInv'
<1> DEFINE f == Saved(kw_lines, kw_num_lines)
<1>0. kw_num_lines \in 1 .. MaxLines /\ kw_lines \in Slots /\ Short(kw_lines)
  BY Running
<1>1. f \in Seq(Letters) /\ Loaded(f) = Text(kw_lines, kw_num_lines)
  BY <1>0, SavedIsLoaded DEF Short
<1> HIDE DEF f
<1>2. Cut(f, FileMax) \in Seq(Letters) /\ (Len(f) <= FileMax => Cut(f, FileMax) = f)
  BY <1>1, Sizes, CutIs
<1>3. /\ \/ file' = Cut(f, FileMax) /\ kw_modified' = FALSE
         \/ UNCHANGED <<file, kw_modified>>
      /\ UNCHANGED <<kw_lines, kw_num_lines, kw_cur_line, kw_cur_col, kw_scroll, rows, open>>
  BY DEF Save, text, f
<1>4. file' \in Seq(Letters)
  BY <1>2, <1>3 DEF KwInv
<1>5. CleanIsOnDisk'
  <2>1. CASE file' = Cut(f, FileMax)
    <3>1. Saved(kw_lines, kw_num_lines)' = f /\ Text(kw_lines, kw_num_lines)' = Text(kw_lines, kw_num_lines)
      BY <1>3 DEF f
    <3>2. Len(f) <= FileMax => Loaded(file') = Text(kw_lines, kw_num_lines)
      BY <1>1, <1>2, <2>1
    <3> QED BY <3>1, <3>2 DEF CleanIsOnDisk
  <2>2. CASE UNCHANGED <<file, kw_modified>>
    BY <1>3, <2>2 DEF KwInv, CleanIsOnDisk
  <2> QED BY <1>3, <2>1, <2>2
<1>6. InText(kw_lines, kw_num_lines, kw_cur_line, kw_cur_col, kw_scroll)'
  BY <1>3 DEF KwInv, InText
<1>7. BlankBelow(rows, kw_num_lines, kw_scroll)'
  BY <1>3 DEF KwInv, BlankBelow
<1>8. (kw_lines \in Slots /\ Short(kw_lines))'
  BY <1>3 DEF KwInv, Slots, Short
<1>9. (kw_num_lines \in 0 .. MaxLines /\ rows \in [0 .. Rows - 1 -> Sights])'
  BY <1>3 DEF KwInv
<1> QED BY <1>4, <1>5, <1>6, <1>7, <1>8, <1>9 DEF KwInv

\* Ctrl+Q.
LEMMA QuitStep ==
    ASSUME KwInv, open, Quit
    PROVE  KwInv'
<1> DEFINE f == Saved(kw_lines, kw_num_lines)
<1>0. kw_num_lines \in 1 .. MaxLines /\ kw_lines \in Slots /\ Short(kw_lines)
  BY Running
<1>1. f \in Seq(Letters)
  BY <1>0, SavedIsLoaded DEF Short
<1> HIDE DEF f
<1>2. Cut(f, FileMax) \in Seq(Letters)
  BY <1>1, Sizes, CutIs
<1>3. /\ open' = FALSE /\ rows' = [y \in 0 .. Rows - 1 |-> <<>>]
      /\ file' = file \/ file' = Cut(f, FileMax)
      /\ UNCHANGED <<kw_lines, kw_num_lines>>
  BY DEF Quit, text, f
<1>4. file' \in Seq(Letters)
  BY <1>2, <1>3 DEF KwInv
<1>5. rows' \in [0 .. Rows - 1 -> Sights]
  BY <1>3 DEF Lines, Sights
<1>6. (kw_lines \in Slots /\ Short(kw_lines) /\ kw_num_lines \in 0 .. MaxLines)'
  BY <1>3 DEF KwInv, Slots, Short
<1>7. CleanIsOnDisk'
  BY <1>3 DEF CleanIsOnDisk
<1> QED BY <1>3, <1>4, <1>5, <1>6, <1>7 DEF KwInv

\* Alt+F1 to Alt+F4.
LEMMA SwitchStep ==
    ASSUME KwInv, open, Switch
    PROVE  KwInv'
<1>1. /\ rows' = [y \in 0 .. Rows - 1 |-> Foreign]
      /\ UNCHANGED <<kw_lines, kw_num_lines, kw_cur_line, kw_cur_col, kw_scroll, kw_modified,
                     file, open>>
  BY DEF Switch, text
<1>2. rows' \in [0 .. Rows - 1 -> Sights] /\ BlankBelow(rows, kw_num_lines, kw_scroll)'
  BY <1>1 DEF Sights, BlankBelow
<1>3. InText(kw_lines, kw_num_lines, kw_cur_line, kw_cur_col, kw_scroll)'
  BY <1>1 DEF KwInv, InText
<1>4. (kw_lines \in Slots /\ Short(kw_lines) /\ CleanIsOnDisk)'
  BY <1>1 DEF KwInv, Slots, Short, CleanIsOnDisk
<1>5. (kw_num_lines \in 0 .. MaxLines /\ file \in Seq(Letters))'
  BY <1>1 DEF KwInv
<1> QED BY <1>2, <1>3, <1>4, <1>5 DEF KwInv

\* The array when a file was loaded over it.
LEMMA LoadedOver ==
    ASSUME KwInv, Open
    PROVE  /\ kw_lines' \in Slots /\ Short(kw_lines')
           /\ kw_num_lines' \in 1 .. MaxLines
           /\ Text(kw_lines', kw_num_lines') = Loaded(file)
<1> DEFINE ls == Loaded(file)
           n == Len(ls)
<1>0. kw_lines \in Slots /\ Short(kw_lines) /\ file \in Seq(Letters)
      /\ DOMAIN kw_lines = 0 .. MaxLines - 1
  BY DEF KwInv, Slots
<1>1. ls \in Seq(Lines) /\ n \in 1 .. MaxLines /\ \A i \in 1 .. n : Len(ls[i]) < Width
  BY <1>0, LoadedTyped
<1>2. kw_lines' = [k \in 0 .. MaxLines - 1 |-> IF k < n THEN ls[k + 1] ELSE kw_lines[k]]
      /\ kw_num_lines' = n
  BY <1>0 DEF Open
<1> HIDE DEF ls
<1>3. ASSUME NEW k \in 0 .. MaxLines - 1 PROVE kw_lines'[k] \in Lines /\ Len(kw_lines'[k]) < Width
  <2>1. CASE k < n
    <3>1. k + 1 \in 1 .. n
      BY <1>1, <2>1, Sizes
    <3> QED BY <1>1, <1>2, <2>1, <3>1
  <2>2. CASE ~(k < n)
    BY <1>0, <1>2, <2>2 DEF Slots, Short
  <2> QED BY <2>1, <2>2
<1>4. kw_lines' \in Slots /\ Short(kw_lines')
  BY <1>2, <1>3 DEF Slots, Short
<1>5. ASSUME NEW i \in 1 .. n PROVE kw_lines'[i - 1] = ls[i]
  <2>1. i - 1 \in 0 .. MaxLines - 1 /\ i - 1 < n /\ (i - 1) + 1 = i
    BY <1>1, Sizes
  <2> QED BY <1>2, <2>1
<1>6. ls = [i \in 1 .. n |-> ls[i]]
  BY <1>1
<1>7. Text(kw_lines', n) = ls
  BY <1>5, <1>6 DEF Text
<1> QED BY <1>1, <1>2, <1>4, <1>7 DEF ls

\* Whatever has a length has a first element.
LEMMA FirstOf == \A n \in Nat : n >= 1 => 0 \in 0 .. n - 1
OBVIOUS

\* kittywrite.
LEMMA OpenStep ==
    ASSUME KwInv, Open
    PROVE  KwInv'
<1>1. /\ kw_lines' \in Slots /\ Short(kw_lines') /\ kw_num_lines' \in 1 .. MaxLines
      /\ Text(kw_lines', kw_num_lines') = Loaded(file)
  BY LoadedOver
<1>2. /\ kw_cur_line' = 0 /\ kw_cur_col' = 0 /\ kw_scroll' = 0 /\ file' = file
      /\ rows' = [y \in 0 .. Rows - 1 |-> Shown(kw_lines', kw_num_lines', y)]
  BY DEF Open
<1>3. InText(kw_lines, kw_num_lines, kw_cur_line, kw_cur_col, kw_scroll)'
  <2>1. kw_lines'[0] \in Seq(Letters \ {NL})
    <3>1. 0 \in 0 .. MaxLines - 1
      BY Sizes
    <3> QED BY <1>1, <3>1 DEF Slots, Lines
  <2>2. 0 \in 0 .. Len(kw_lines'[0])
    BY <2>1
  <2>3. 0 \in 0 .. kw_num_lines' - 1 /\ 0 \in 0 .. 0 + Rows - 1
    <3>1. kw_num_lines' \in Nat /\ kw_num_lines' >= 1
      BY <1>1, Sizes
    <3>2. 0 \in 0 .. kw_num_lines' - 1
      BY <3>1, FirstOf
    <3>3. 0 \in 0 .. 0 + Rows - 1
      BY Sizes
    <3> QED BY <3>2, <3>3
  <2>4. InText(kw_lines', kw_num_lines', 0, 0, 0)
    BY <1>1, <2>2, <2>3 DEF InText
  <2> QED BY <1>2, <2>4 DEF InText
<1>4. ASSUME NEW y \in 0 .. Rows - 1 PROVE Shown(kw_lines', kw_num_lines', y) \in Lines
  <2>1. CASE y < kw_num_lines'
    <3>1. y \in 0 .. MaxLines - 1
      BY <1>1, <2>1, Sizes
    <3> QED BY <1>1, <2>1, <3>1 DEF Shown, Slots
  <2>2. CASE ~(y < kw_num_lines')
    BY <2>2 DEF Shown, Lines
  <2> QED BY <2>1, <2>2
<1>5. rows' \in [0 .. Rows - 1 -> Sights]
  BY <1>2, <1>4 DEF Sights
<1>6. BlankBelow(rows, kw_num_lines, kw_scroll)'
  <2>1. ASSUME NEW y \in 0 .. Rows - 1, 0 + y >= kw_num_lines' PROVE rows'[y] \in {<<>>, Foreign}
    <3>1. ~(y < kw_num_lines')
      BY <1>1, <2>1, Sizes
    <3> QED BY <1>2, <3>1 DEF Shown
  <2> QED BY <1>2, <2>1 DEF BlankBelow
<1>7. CleanIsOnDisk'
  BY <1>1, <1>2 DEF CleanIsOnDisk
<1>8. kw_num_lines' \in 0 .. MaxLines /\ file' \in Seq(Letters)
  BY <1>1, <1>2, Sizes DEF KwInv
<1> QED BY <1>1, <1>3, <1>5, <1>6, <1>7, <1>8 DEF KwInv, Slots, Short

-----------------------------------------------------------------------------

\* The invariant holds from the start, of every file, and every key keeps it.
LEMMA InvStarts ==
    ASSUME KwInit
    PROVE  KwInv
<1>1. <<>> \in Lines /\ Len(<<>>) = 0
  BY DEF Lines
<1>2. kw_lines \in Slots
  BY <1>1 DEF KwInit, Slots
<1>3. Short(kw_lines)
  BY <1>1, Sizes DEF KwInit, Short
<1>4. kw_num_lines \in 0 .. MaxLines
  BY Sizes DEF KwInit
<1>5. file \in Seq(Letters)
  BY KittywriteAssumption DEF KwInit
<1>6. rows \in [0 .. Rows - 1 -> Sights]
  BY <1>1 DEF KwInit, Sights
<1>7. ~open
  BY DEF KwInit
<1> QED BY <1>2, <1>3, <1>4, <1>5, <1>6, <1>7 DEF KwInv, CleanIsOnDisk

LEMMA InvStep ==
    ASSUME KwInv, [KwNext]_kwVars
    PROVE  KwInv'
<1>1. CASE UNCHANGED kwVars
  BY <1>1 DEF kwVars, text, KwInv, Slots, Short, InText, BlankBelow, CleanIsOnDisk
<1>2. CASE Open
  BY <1>2, OpenStep
<1>3. ASSUME open, KeyLeft \/ KeyRight \/ Vertical(kw_cur_line - 1) \/ Vertical(kw_cur_line + 1) \/ HomeEnd
      PROVE  KwInv'
  BY <1>3, MoveStep, GoToStep
<1> QED BY <1>1, <1>2, <1>3, EnterStep, EditStep, SaveStep, QuitStep, SwitchStep DEF KwNext

\* Every key of the editor, and loading and saving, keep the invariant.
THEOREM KwInvariant == KwSpec => []KwInv
<1>1. KwInit => KwInv
  BY InvStarts
<1>2. KwInv /\ [KwNext]_kwVars => KwInv'
  BY InvStep
<1> QED BY <1>1, <1>2, PTL DEF KwSpec

\* No key writes outside kw_lines, leaves the cursor outside the text or moves it out
\* of the window, for every size of the three.
THEOREM CursorStaysInText == KwSpec => []CursorInText
<1>1. KwInv => CursorInText
  <2> SUFFICES ASSUME KwInv, open PROVE CursorInText
    BY DEF CursorInText
  <2>1. /\ kw_num_lines \in 1 .. MaxLines /\ kw_cur_line \in 0 .. kw_num_lines - 1
        /\ kw_cur_col \in 0 .. Len(cur) /\ kw_scroll \in Nat /\ Short(kw_lines)
    BY Running
  <2>2. kw_cur_line \in kw_scroll .. kw_scroll + Rows - 1
    BY DEF KwInv, InText
  <2>3. kw_scroll >= 0
    BY <2>1
  <2> QED BY <2>1, <2>2, <2>3 DEF CursorInText, Short
<1> QED BY <1>1, KwInvariant, PTL

\* While the title shows no change, closing the editor loses nothing: for every text
\* that a file can hold, saving and loading are inverse.
THEOREM CleanStaysOnDisk == KwSpec => []CleanIsOnDisk
<1>1. KwInv => CleanIsOnDisk
  BY DEF KwInv
<1> QED BY <1>1, KwInvariant, PTL

\* After an edit the window shows the text where it changed: Enter draws two rows only,
\* and a join draws no row behind the first empty one, so that another terminal's rows,
\* after a switch, stay behind that one and nowhere else.
THEOREM EditsAreSeen == KwSpec => EditIsSeen
<1>1. KwInv /\ [KwNext]_kwVars => [open /\ text' # text => Seen]_kwVars
  <2> SUFFICES ASSUME KwInv, KwNext, open, text' # text PROVE Seen
    OBVIOUS
  <2>1. ~Open
    BY DEF Open
  <2>2. ~(\E l \in 0 .. kw_num_lines - 1 : \E col \in 0 .. Len(kw_lines[l]) : GoTo(l, col))
    BY DEF GoTo
  <2>3. ~Save /\ ~Quit /\ ~Switch
    BY DEF Save, Quit, Switch
  <2>4. ~(KeyLeft \/ KeyRight \/ Vertical(kw_cur_line - 1) \/ Vertical(kw_cur_line + 1) \/ HomeEnd)
    BY <2>2, MoveStep
  <2> QED BY <2>1, <2>3, <2>4, EnterStep, EditStep DEF KwNext
<1> QED BY <1>1, KwInvariant, PTL DEF KwSpec, EditIsSeen, Seen

-----------------------------------------------------------------------------
(* The text that the array stands for *)

\* A text with what replaces the lines i to j.
Put(t, i, j, new) == SubSeq(t, 1, i - 1) \o new \o SubSeq(t, j + 1, Len(t))

\* What such a text is, line by line.
LEMMA PutLines ==
    ASSUME NEW t \in Seq(Lines), NEW i \in 1 .. Len(t), NEW j \in i .. Len(t),
           NEW new \in Seq(Lines), NEW r \in Seq(Lines),
           Len(r) = Len(t) - (j - i + 1) + Len(new),
           \A k \in 1 .. i - 1 : r[k] = t[k],
           \A k \in 1 .. Len(new) : r[i - 1 + k] = new[k],
           \A k \in j + 1 .. Len(t) : r[k - (j - i + 1) + Len(new)] = t[k]
    PROVE  r = Put(t, i, j, new)
<1> DEFINE a == SubSeq(t, 1, i - 1)
           b == SubSeq(t, j + 1, Len(t))
           ab == a \o new
           s == ab \o b
<1>0. i \in Nat /\ j \in Nat /\ Len(t) \in Nat /\ Len(new) \in Nat /\ Len(r) \in Nat
      /\ i >= 1 /\ i <= j /\ j <= Len(t)
  OBVIOUS
<1>1. /\ a \in Seq(Lines) /\ Len(a) = i - 1
      /\ \A k \in 1 .. i - 1 : a[k] = t[k]
  <2>1. 1 \in 1 .. Len(t) + 1 /\ i - 1 \in 1 - 1 .. Len(t) /\ (i - 1) - 1 + 1 = i - 1
        /\ \A k \in 1 .. i - 1 : 1 + k - 1 = k
    BY <1>0
  <2>2. /\ a \in Seq(Lines) /\ Len(a) = (i - 1) - 1 + 1
        /\ \A k \in 1 .. (i - 1) - 1 + 1 : a[k] = t[1 + k - 1]
    BY <2>1, PartOf
  <2> QED BY <2>1, <2>2
<1>2. /\ b \in Seq(Lines) /\ Len(b) = Len(t) - j
      /\ \A k \in 1 .. Len(t) - j : b[k] = t[j + k]
  <2>1. j + 1 \in 1 .. Len(t) + 1 /\ Len(t) \in (j + 1) - 1 .. Len(t)
        /\ Len(t) - (j + 1) + 1 = Len(t) - j
        /\ \A k \in 1 .. Len(t) - j : (j + 1) + k - 1 = j + k
    BY <1>0
  <2>2. /\ b \in Seq(Lines) /\ Len(b) = Len(t) - (j + 1) + 1
        /\ \A k \in 1 .. Len(t) - (j + 1) + 1 : b[k] = t[(j + 1) + k - 1]
    <3> DEFINE m == j + 1
    <3>1. t \in Seq(Lines) /\ m \in 1 .. Len(t) + 1 /\ Len(t) \in m - 1 .. Len(t)
      BY <2>1
    <3> HIDE DEF m
    <3>2. /\ SubSeq(t, m, Len(t)) \in Seq(Lines) /\ Len(SubSeq(t, m, Len(t))) = Len(t) - m + 1
          /\ \A k \in 1 .. Len(t) - m + 1 : SubSeq(t, m, Len(t))[k] = t[m + k - 1]
      BY <3>1, PartOf, Zenon
    <3> QED BY <3>2 DEF m
  <2> QED BY <2>1, <2>2
<1>3. Put(t, i, j, new) = s
  BY DEF Put
<1> HIDE DEF a, b
<1>4. /\ ab \in Seq(Lines) /\ Len(ab) = (i - 1) + Len(new)
      /\ \A k \in 1 .. Len(ab) : ab[k] = IF k <= i - 1 THEN a[k] ELSE new[k - (i - 1)]
  <2>1. /\ ab \in Seq(Lines) /\ Len(ab) = Len(a) + Len(new)
        /\ \A k \in 1 .. Len(a) + Len(new) :
              ab[k] = IF k <= Len(a) THEN a[k] ELSE new[k - Len(a)]
    BY <1>1, ConcatProperties
  <2> HIDE DEF ab
  <2> QED BY <1>1, <2>1
<1> HIDE DEF ab
<1>5. /\ s \in Seq(Lines) /\ Len(s) = Len(ab) + Len(b)
      /\ \A k \in 1 .. Len(s) : s[k] = IF k <= Len(ab) THEN ab[k] ELSE b[k - Len(ab)]
  <2>1. /\ s \in Seq(Lines) /\ Len(s) = Len(ab) + Len(b)
        /\ \A k \in 1 .. Len(ab) + Len(b) :
              s[k] = IF k <= Len(ab) THEN ab[k] ELSE b[k - Len(ab)]
    <3>1. ab \in Seq(Lines) /\ b \in Seq(Lines)
      BY <1>2, <1>4
    <3> QED BY <3>1, ConcatProperties
  <2> HIDE DEF s
  <2> QED BY <2>1
<1> HIDE DEF s
<1>6. Len(s) = Len(r)
  BY <1>0, <1>2, <1>4, <1>5
<1>7. ASSUME NEW k \in 1 .. Len(r) PROVE r[k] = s[k]
  <2>1. CASE k <= i - 1
    <3>1. k \in 1 .. i - 1 /\ k <= Len(ab) /\ k \in 1 .. Len(ab) /\ k \in 1 .. Len(s)
      BY <1>0, <1>4, <1>6, <2>1
    <3> QED BY <1>1, <1>4, <1>5, <2>1, <3>1
  <2>2. CASE k > i - 1 /\ k <= i - 1 + Len(new)
    <3> DEFINE m == k - (i - 1)
    <3>1. m \in 1 .. Len(new) /\ i - 1 + m = k /\ ~(k <= i - 1) /\ k <= Len(ab)
          /\ k \in 1 .. Len(ab) /\ k \in 1 .. Len(s)
      BY <1>0, <1>4, <1>6, <2>2
    <3>2. s[k] = new[m]
      BY <1>4, <1>5, <3>1
    <3> HIDE DEF m
    <3> QED BY <3>1, <3>2
  <2>3. CASE k > i - 1 + Len(new)
    <3> DEFINE m == k - Len(ab)
               h == j + m
    <3> DEFINE p == Len(t)
               q == Len(new)
    <3>0. p \in Nat /\ q \in Nat /\ Len(ab) = (i - 1) + q /\ Len(r) = p - (j - i + 1) + q
          /\ Len(s) = Len(r) /\ j <= p
      BY <1>0, <1>4, <1>6
    <3> HIDE DEF p, q
    <3>6. m \in 1 .. p - j /\ ~(k <= Len(ab)) /\ k \in 1 .. Len(s)
      BY <1>0, <2>3, <3>0 DEF q
    <3>7. h \in j + 1 .. p /\ h - (j - i + 1) + q = k
      BY <1>0, <2>3, <3>0, <3>6
    <3>1. /\ m \in 1 .. Len(t) - j /\ ~(k <= Len(ab)) /\ k \in 1 .. Len(s)
          /\ h \in j + 1 .. Len(t) /\ h - (j - i + 1) + Len(new) = k
      BY <3>6, <3>7 DEF p, q
    <3>2. s[k] = b[m]
      BY <1>5, <3>1
    <3> HIDE DEF m
    <3>3. s[k] = t[h]
      BY <1>2, <3>1, <3>2
    <3> HIDE DEF h
    <3>4. r[k] = t[h]
      BY <3>1
    <3> QED BY <3>3, <3>4
  <2> QED BY <1>0, <2>1, <2>2, <2>3
<1>8. r = s
  BY <1>5, <1>6, <1>7, SeqEqual
<1> QED BY <1>3, <1>8

\* The text of an array.
LEMMA TextLines ==
    ASSUME NEW ls \in Slots, NEW n \in 1 .. MaxLines
    PROVE  /\ Text(ls, n) \in Seq(Lines) /\ Len(Text(ls, n)) = n /\ n \in Nat
           /\ \A k \in 1 .. n : Text(ls, n)[k] = ls[k - 1]
<1>1. n \in 0 .. MaxLines /\ n \in Nat
  BY Sizes
<1>2. Text(ls, n) \in Seq(Lines) /\ Len(Text(ls, n)) = n
  BY <1>1, TextIs
<1> QED BY <1>1, <1>2 DEF Text

\* One line is another.
LEMMA TextOfLine ==
    ASSUME NEW ls \in Slots, Short(ls), NEW n \in 1 .. MaxLines, NEW l \in 0 .. n - 1,
           NEW s \in Lines, Len(s) < Width
    PROVE  Text([ls EXCEPT ![l] = s], n) = Put(Text(ls, n), l + 1, l + 1, <<s>>)
<1> DEFINE t == Text(ls, n)
           ms == [ls EXCEPT ![l] = s]
           r == Text(ms, n)
           new == <<s>>
<1>0. n \in Nat /\ l \in Nat /\ l \in 0 .. MaxLines - 1
  BY Sizes
<1>1. ms \in Slots /\ ms[l] = s /\ \A j \in 0 .. MaxLines - 1 : j # l => ms[j] = ls[j]
  BY <1>0, SlotSet
<1> HIDE DEF ms
<1>2. /\ t \in Seq(Lines) /\ Len(t) = n /\ \A k \in 1 .. n : t[k] = ls[k - 1]
      /\ r \in Seq(Lines) /\ Len(r) = n /\ \A k \in 1 .. n : r[k] = ms[k - 1]
  BY <1>1, TextLines
<1>3. ASSUME NEW k \in 1 .. n, k # l + 1 PROVE r[k] = t[k]
  <2>1. k - 1 \in 0 .. MaxLines - 1 /\ k - 1 # l
    BY <1>0, <1>3, Sizes
  <2> QED BY <1>1, <1>2, <2>1
<1>4. r[l + 1] = s
  <2>1. l + 1 \in 1 .. n /\ (l + 1) - 1 = l
    BY <1>0
  <2> QED BY <1>1, <1>2, <2>1
<1> HIDE DEF t, r
<1>5. new \in Seq(Lines) /\ Len(new) = 1 /\ new[1] = s
  OBVIOUS
<1> HIDE DEF new
<1>6. l + 1 \in 1 .. Len(t) /\ l + 1 \in l + 1 .. Len(t)
      /\ Len(r) = Len(t) - ((l + 1) - (l + 1) + 1) + Len(new)
  BY <1>0, <1>2, <1>5
<1>7. /\ \A k \in 1 .. (l + 1) - 1 : r[k] = t[k]
      /\ \A k \in 1 .. Len(new) : r[(l + 1) - 1 + k] = new[k]
      /\ \A k \in (l + 1) + 1 .. Len(t) : r[k - ((l + 1) - (l + 1) + 1) + Len(new)] = t[k]
  <2>1. \A k \in 1 .. (l + 1) - 1 : r[k] = t[k]
    <3>1. \A k \in 1 .. (l + 1) - 1 : k \in 1 .. n /\ k # l + 1
      BY <1>0
    <3> QED BY <1>3, <3>1
  <2>2. \A k \in 1 .. Len(new) : r[(l + 1) - 1 + k] = new[k]
    <3>1. \A k \in 1 .. Len(new) : k = 1 /\ (l + 1) - 1 + 1 = l + 1
      BY <1>0, <1>5
    <3> QED BY <1>4, <1>5, <3>1
  <2>3. \A k \in (l + 1) + 1 .. Len(t) : r[k - ((l + 1) - (l + 1) + 1) + Len(new)] = t[k]
    <3>1. \A k \in (l + 1) + 1 .. Len(t) : k \in 1 .. n /\ k # l + 1
                                    /\ k - ((l + 1) - (l + 1) + 1) + Len(new) = k
      BY <1>0, <1>2, <1>5
    <3> QED BY <1>3, <3>1
  <2> QED BY <2>1, <2>2, <2>3
<1>8. r = Put(t, l + 1, l + 1, new)
  BY <1>2, <1>5, <1>6, <1>7, PutLines
<1> QED BY <1>8 DEF t, r, ms, new

\* Line l becomes the two lines a and b.
LEMMA TextSplit ==
    ASSUME KwInv, open, kw_num_lines < MaxLines, NEW l \in 0 .. kw_num_lines - 1,
           NEW a \in Lines, Len(a) < Width, NEW b \in Lines, Len(b) < Width
    PROVE  Text([[ShiftUp(kw_lines, l + 1) EXCEPT ![l + 1] = b] EXCEPT ![l] = a],
                kw_num_lines + 1) =
             Put(Text(kw_lines, kw_num_lines), l + 1, l + 1, <<a, b>>)
<1> DEFINE n == kw_num_lines
           t == Text(kw_lines, n)
           up == ShiftUp(kw_lines, l + 1)
           one == [up EXCEPT ![l + 1] = b]
           ls == [one EXCEPT ![l] = a]
           r == Text(ls, n + 1)
           new == <<a, b>>
<1>0. /\ n \in 1 .. MaxLines /\ n \in Nat /\ l \in Nat /\ kw_lines \in Slots /\ Short(kw_lines)
      /\ n \in 0 .. MaxLines /\ l + 1 \in 1 .. n /\ l \in 0 .. MaxLines - 1
      /\ l + 1 \in 0 .. MaxLines - 1 /\ n + 1 \in 1 .. MaxLines /\ MaxLines \in Nat
  BY Running, Sizes
<1>1. up \in Slots /\ Short(up)
  BY <1>0, Shifted
<1>2. ASSUME NEW k \in 0 .. MaxLines - 1
      PROVE  up[k] = IF k > l + 1 /\ k <= n THEN kw_lines[k - 1] ELSE kw_lines[k]
  BY <1>0 DEF ShiftUp, Slots
<1> HIDE DEF up
<1>3. one \in Slots /\ Short(one) /\ one[l + 1] = b
      /\ \A k \in 0 .. MaxLines - 1 : k # l + 1 => one[k] = up[k]
  BY <1>0, <1>1, SlotSet
<1> HIDE DEF one
<1>4. ls \in Slots /\ ls[l] = a /\ \A k \in 0 .. MaxLines - 1 : k # l => ls[k] = one[k]
  BY <1>0, <1>3, SlotSet
<1> HIDE DEF ls
<1>5. /\ t \in Seq(Lines) /\ Len(t) = n /\ \A k \in 1 .. n : t[k] = kw_lines[k - 1]
      /\ r \in Seq(Lines) /\ Len(r) = n + 1 /\ \A k \in 1 .. n + 1 : r[k] = ls[k - 1]
  BY <1>0, <1>4, TextLines
<1> HIDE DEF t, r, n
<1>6. new \in Seq(Lines) /\ Len(new) = 2 /\ new[1] = a /\ new[2] = b
  OBVIOUS
<1> HIDE DEF new
<1>7. ASSUME NEW k \in 1 .. l PROVE r[k] = t[k]
  <2> DEFINE m == k - 1
  <2>1. /\ k \in 1 .. n /\ k \in 1 .. n + 1 /\ m \in 0 .. MaxLines - 1
        /\ m # l /\ m # l + 1 /\ ~(m > l + 1)
    BY <1>0
  <2>2. r[k] = ls[m] /\ t[k] = kw_lines[m]
    BY <1>5, <2>1
  <2> HIDE DEF m
  <2>3. ls[m] = one[m] /\ one[m] = up[m] /\ up[m] = kw_lines[m]
    BY <1>2, <1>3, <1>4, <2>1
  <2> QED BY <2>2, <2>3
<1>8. r[l + 1] = a /\ r[l + 2] = b
  <2>1. /\ l + 1 \in 1 .. n + 1 /\ (l + 1) - 1 = l /\ l + 2 \in 1 .. n + 1
        /\ (l + 2) - 1 = l + 1 /\ l + 1 # l
    BY <1>0
  <2> QED BY <1>0, <1>3, <1>4, <1>5, <2>1
<1>9. ASSUME NEW k \in l + 2 .. n PROVE r[k + 1] = t[k]
  <2>1. /\ k \in 1 .. n /\ k + 1 \in 1 .. n + 1 /\ (k + 1) - 1 = k /\ k \in 0 .. MaxLines - 1
        /\ k # l /\ k # l + 1 /\ k > l + 1 /\ k <= n
    BY <1>0
  <2> QED BY <1>2, <1>3, <1>4, <1>5, <2>1
<1>10. l + 1 \in 1 .. Len(t) /\ l + 1 \in l + 1 .. Len(t)
       /\ Len(r) = Len(t) - ((l + 1) - (l + 1) + 1) + Len(new)
  BY <1>0, <1>5, <1>6
<1>11. \A k \in 1 .. (l + 1) - 1 : r[k] = t[k]
  BY <1>0, <1>7
<1>12. \A k \in 1 .. Len(new) : r[(l + 1) - 1 + k] = new[k]
  <2>1. \A k \in 1 .. Len(new) : k = 1 \/ k = 2
    BY <1>6
  <2>2. (l + 1) - 1 + 1 = l + 1 /\ (l + 1) - 1 + 2 = l + 2
    BY <1>0
  <2> QED BY <1>6, <1>8, <2>1, <2>2
<1>13. \A k \in (l + 1) + 1 .. Len(t) : r[k - ((l + 1) - (l + 1) + 1) + Len(new)] = t[k]
  <2>1. \A k \in (l + 1) + 1 .. Len(t) : k \in l + 2 .. n
                                 /\ k - ((l + 1) - (l + 1) + 1) + Len(new) = k + 1
    BY <1>0, <1>5, <1>6
  <2> QED BY <1>9, <2>1
<1>14. r = Put(t, l + 1, l + 1, new)
  BY <1>5, <1>6, <1>10, <1>11, <1>12, <1>13, PutLines
<1> QED BY <1>14 DEF t, r, n, ls, one, up, new

\* Lines i and i + 1 become the line s.
LEMMA TextJoined ==
    ASSUME KwInv, open, NEW i \in 0 .. kw_num_lines - 2, NEW s \in Lines, Len(s) < Width
    PROVE  Text(ShiftDown([kw_lines EXCEPT ![i] = s], i + 1), kw_num_lines - 1) =
             Put(Text(kw_lines, kw_num_lines), i + 1, i + 2, <<s>>)
<1> DEFINE n == kw_num_lines
           t == Text(kw_lines, n)
           one == [kw_lines EXCEPT ![i] = s]
           ls == ShiftDown(one, i + 1)
           r == Text(ls, n - 1)
           new == <<s>>
<1>0. /\ n \in 1 .. MaxLines /\ n \in Nat /\ i \in Nat /\ kw_lines \in Slots /\ Short(kw_lines)
      /\ n \in 0 .. MaxLines /\ i + 1 \in 1 .. n /\ i \in 0 .. MaxLines - 1
      /\ n - 1 \in 1 .. MaxLines /\ MaxLines \in Nat
  BY Running, Sizes
<1>1. one \in Slots /\ Short(one) /\ one[i] = s
      /\ \A k \in 0 .. MaxLines - 1 : k # i => one[k] = kw_lines[k]
  BY <1>0, SlotSet
<1> HIDE DEF one
<1>2. ls \in Slots
  BY <1>0, <1>1, Shifted
<1>3. ASSUME NEW k \in 0 .. MaxLines - 1
      PROVE  ls[k] = IF k >= i + 1 /\ k < n - 1 THEN one[k + 1] ELSE one[k]
  BY <1>1 DEF ShiftDown, Slots
<1> HIDE DEF ls
<1>4. /\ t \in Seq(Lines) /\ Len(t) = n /\ \A k \in 1 .. n : t[k] = kw_lines[k - 1]
      /\ r \in Seq(Lines) /\ Len(r) = n - 1 /\ \A k \in 1 .. n - 1 : r[k] = ls[k - 1]
  BY <1>0, <1>2, TextLines
<1> HIDE DEF t, r, n
<1>5. new \in Seq(Lines) /\ Len(new) = 1 /\ new[1] = s
  OBVIOUS
<1> HIDE DEF new
<1>6. i \in 0 .. n - 2
  BY DEF n
<1>7. ASSUME NEW k \in 1 .. i PROVE r[k] = t[k]
  <2>1. /\ k \in 1 .. n /\ k \in 1 .. n - 1 /\ k - 1 \in 0 .. MaxLines - 1
        /\ k - 1 # i /\ ~(k - 1 >= i + 1)
    BY <1>0, <1>6
  <2> QED BY <1>1, <1>3, <1>4, <2>1
<1>8. r[i + 1] = s
  <2>1. i + 1 \in 1 .. n - 1 /\ (i + 1) - 1 = i /\ ~(i >= i + 1)
    BY <1>0, <1>6
  <2> QED BY <1>0, <1>1, <1>3, <1>4, <2>1
<1>9. ASSUME NEW k \in i + 3 .. n PROVE r[k - 1] = t[k]
  <2> DEFINE m == k - 2
  <2>1. /\ k \in 1 .. n /\ k - 1 \in 1 .. n - 1 /\ (k - 1) - 1 = m /\ m \in 0 .. MaxLines - 1
        /\ m >= i + 1 /\ m < n - 1 /\ m + 1 = k - 1 /\ k - 1 # i /\ k - 1 \in 0 .. MaxLines - 1
    BY <1>0, <1>6
  <2> HIDE DEF m
  <2>2. r[k - 1] = ls[m] /\ t[k] = kw_lines[k - 1]
    BY <1>4, <2>1
  <2>3. ls[m] = one[k - 1]
    BY <1>3, <2>1
  <2> QED BY <1>1, <2>1, <2>2, <2>3
<1>10. i + 1 \in 1 .. Len(t) /\ i + 2 \in i + 1 .. Len(t)
       /\ Len(r) = Len(t) - ((i + 2) - (i + 1) + 1) + Len(new)
  BY <1>0, <1>4, <1>5, <1>6
<1>11. \A k \in 1 .. (i + 1) - 1 : r[k] = t[k]
  BY <1>0, <1>7
<1>12. \A k \in 1 .. Len(new) : r[(i + 1) - 1 + k] = new[k]
  <2>1. \A k \in 1 .. Len(new) : k = 1
    BY <1>5
  <2>2. (i + 1) - 1 + 1 = i + 1
    BY <1>0
  <2> QED BY <1>5, <1>8, <2>1, <2>2
<1>13. \A k \in (i + 2) + 1 .. Len(t) : r[k - ((i + 2) - (i + 1) + 1) + Len(new)] = t[k]
  <2>1. \A k \in (i + 2) + 1 .. Len(t) : k \in i + 3 .. n
                                 /\ k - ((i + 2) - (i + 1) + 1) + Len(new) = k - 1
    BY <1>0, <1>4, <1>5
  <2> QED BY <1>9, <2>1
<1>14. r = Put(t, i + 1, i + 2, new)
  BY <1>4, <1>5, <1>10, <1>11, <1>12, <1>13, PutLines
<1> QED BY <1>14 DEF t, r, n, ls, one, new

-----------------------------------------------------------------------------
(* The editor is a plain text *)

Now == Text(kw_lines, kw_num_lines)

\* What the text of the running editor is.
LEMMA TextNow ==
    ASSUME KwInv, open
    PROVE  /\ Now \in Seq(Lines) /\ Len(Now) = kw_num_lines /\ Now # <<>>
           /\ DOMAIN Now = 1 .. kw_num_lines
           /\ Now[kw_cur_line + 1] = cur
           /\ \A l \in 0 .. kw_num_lines - 1 : l + 1 \in DOMAIN Now /\ Now[l + 1] = kw_lines[l]
<1>0. /\ kw_num_lines \in 1 .. MaxLines /\ kw_num_lines \in Nat /\ kw_lines \in Slots
      /\ kw_cur_line \in 0 .. kw_num_lines - 1 /\ kw_cur_line \in Nat
  BY Running
<1>1. /\ Now \in Seq(Lines) /\ Len(Now) = kw_num_lines
      /\ \A k \in 1 .. kw_num_lines : Now[k] = kw_lines[k - 1]
  BY <1>0, TextLines DEF Now
<1> HIDE DEF Now
<1>2. Now # <<>> /\ DOMAIN Now = 1 .. kw_num_lines
  BY <1>0, <1>1
<1>3. ASSUME NEW l \in 0 .. kw_num_lines - 1
      PROVE  l + 1 \in DOMAIN Now /\ Now[l + 1] = kw_lines[l]
  <2>1. l + 1 \in 1 .. kw_num_lines /\ (l + 1) - 1 = l
    BY <1>0
  <2> QED BY <1>1, <1>2, <2>1
<1> QED BY <1>0, <1>1, <1>2, <1>3 DEF cur

\* While the editor runs the abstract text is the text.
LEMMA Mapped ==
    ASSUME open
    PROVE  \A i, j, new : P!Replaced(i, j, new) = Put(Now, i, j, new)
BY DEF P!Replaced, Put, Now

\* The helpers of the abstract text are those of the editor.
LEMMA SameHelpers ==
    /\ \A s, i, e : P!InsertAt(s, i, e) = InsertAt(s, i, e)
    /\ \A s, i : P!RemoveAt(s, i) = RemoveAt(s, i)
BY DEF P!InsertAt, InsertAt, P!RemoveAt, RemoveAt

\* The cursor moves.
LEMMA MoveIsMove ==
    ASSUME KwInv, open, NEW l \in 0 .. kw_num_lines - 1, NEW col \in 0 .. Len(kw_lines[l]),
           GoTo(l, col)
    PROVE  P!TextNext
<1>1. /\ kw_cur_line' = l /\ kw_cur_col' = col /\ open' = open
      /\ kw_lines' = kw_lines /\ kw_num_lines' = kw_num_lines
  BY DEF GoTo, text
<1>2. Now # <<>> /\ l + 1 \in DOMAIN Now /\ Now[l + 1] = kw_lines[l]
  BY TextNow
<1>3. Now' = Now
  BY <1>1 DEF Now
<1>4. P!Move
  BY <1>1, <1>2, <1>3 DEF P!Move, Now
<1> QED BY <1>2, <1>4 DEF P!TextNext, Now

\* The line of the cursor becomes another.
LEMMA LineNow ==
    ASSUME KwInv, open, NEW s \in Lines, Len(s) < Width, NEW col,
           Change([kw_lines EXCEPT ![kw_cur_line] = s], kw_num_lines,
                  kw_cur_line, col, kw_scroll, {kw_cur_line})
    PROVE  /\ Now' = Put(Now, kw_cur_line + 1, kw_cur_line + 1, <<s>>)
           /\ kw_cur_line' = kw_cur_line /\ kw_cur_col' = col /\ open'
<1>0. /\ kw_num_lines \in 1 .. MaxLines /\ kw_cur_line \in 0 .. kw_num_lines - 1
      /\ kw_lines \in Slots /\ Short(kw_lines)
  BY Running
<1> DEFINE ls == [kw_lines EXCEPT ![kw_cur_line] = s]
<1>1. /\ kw_lines' = ls /\ kw_num_lines' = kw_num_lines
      /\ kw_cur_line' = kw_cur_line /\ kw_cur_col' = col /\ open'
  BY DEF Change
<1>2. Text(ls, kw_num_lines) = Put(Now, kw_cur_line + 1, kw_cur_line + 1, <<s>>)
  BY <1>0, TextOfLine DEF Now
<1> HIDE DEF ls
<1>3. Now' = Text(ls, kw_num_lines)
  BY <1>1 DEF Now
<1> QED BY <1>1, <1>2, <1>3

\* Typing.
LEMMA InsertIsType ==
    ASSUME KwInv, open, NEW c \in Chars, Insert(c)
    PROVE  P!TextNext
<1>0. /\ cur \in Seq(Letters \ {NL}) /\ Len(cur) \in Nat /\ Len(cur) < Width
      /\ kw_cur_col \in 0 .. Len(cur) /\ kw_cur_col \in Nat
  BY Running
<1> DEFINE s == InsertAt(cur, kw_cur_col + 1, c)
           row == kw_cur_line + 1
<1>1. /\ Len(cur) < KW_MAX_COL - 1
      /\ Change([kw_lines EXCEPT ![kw_cur_line] = s], kw_num_lines,
                kw_cur_line, kw_cur_col + 1, kw_scroll, {kw_cur_line})
  BY DEF Insert, cur
<1>2. s \in Lines /\ Len(s) = Len(cur) + 1
  <2>1. c \in Letters \ {NL}
    BY KittywriteAssumption DEF Letters
  <2>2. cur \in Seq(Letters \ {NL}) /\ kw_cur_col \in 0 .. Len(cur)
    BY <1>0
  <2> HIDE DEF cur
  <2>3. InsertAt(cur, kw_cur_col + 1, c) \in Seq(Letters \ {NL})
        /\ Len(InsertAt(cur, kw_cur_col + 1, c)) = Len(cur) + 1
    <3> DEFINE S == Letters \ {NL}
    <3>1. cur \in Seq(S) /\ kw_cur_col \in 0 .. Len(cur) /\ c \in S
      BY <2>1, <2>2
    <3> HIDE DEF S
    <3>2. InsertAt(cur, kw_cur_col + 1, c) \in Seq(S)
          /\ Len(InsertAt(cur, kw_cur_col + 1, c)) = Len(cur) + 1
      BY <3>1, Inserted, Zenon
    <3> QED BY <3>2 DEF S
  <2> QED BY <2>3 DEF Lines
<1>3. s = InsertAt(Now[row], kw_cur_col + 1, c)
  BY TextNow
<1> HIDE DEF s
<1>4. Len(s) < Width
  BY <1>0, <1>1, <1>2, Sizes DEF KW_MAX_COL
<1>5. /\ Now' = Put(Now, row, row, <<s>>) /\ kw_cur_line' = kw_cur_line
      /\ kw_cur_col' = kw_cur_col + 1 /\ open'
  BY <1>1, <1>2, <1>4, LineNow
<1>6. Now' = P!Replaced(row, row, <<InsertAt(Now[row], kw_cur_col + 1, c)>>)
  BY <1>3, <1>5, Mapped
<1>7. P!Type(c)
  <2> DEFINE t == IF open THEN Text(kw_lines, kw_num_lines) ELSE <<>>
             x == IF open THEN kw_cur_line + 1 ELSE 0
             y == IF open THEN kw_cur_col ELSE 0
  <2>1. t = Now /\ t' = Now' /\ x = row /\ x' = row /\ y = kw_cur_col /\ y' = kw_cur_col + 1
    BY <1>5 DEF Now
  <2> HIDE DEF t, x, y, row
  <2>2. t' = P!Replaced(x, x, <<P!InsertAt(t[x], y + 1, c)>>) /\ x' = x /\ y' = y + 1
    BY <1>6, <2>1, SameHelpers
  <2> QED BY <2>2 DEF P!Type, t, x, y
<1>8. Now # <<>>
  BY TextNow
<1> QED BY <1>7, <1>8 DEF P!TextNext, Now

\* Backspace and Delete inside of a line.
LEMMA RemoveIsErase ==
    ASSUME KwInv, open, NEW k \in 1 .. Len(cur),
           Change([kw_lines EXCEPT ![kw_cur_line] = RemoveAt(@, k)], kw_num_lines,
                  kw_cur_line, k - 1, kw_scroll, {kw_cur_line})
    PROVE  P!Erase(k) /\ Now # <<>>
<1>0. cur \in Seq(Letters \ {NL}) /\ Len(cur) \in Nat /\ Len(cur) < Width
  BY Running
<1> DEFINE s == RemoveAt(cur, k)
           row == kw_cur_line + 1
<1>1. Change([kw_lines EXCEPT ![kw_cur_line] = s], kw_num_lines,
             kw_cur_line, k - 1, kw_scroll, {kw_cur_line})
  BY DEF cur
<1>2. s \in Lines /\ Len(s) = Len(cur) - 1
  BY <1>0, Removed DEF Lines
<1>3. s = RemoveAt(Now[row], k) /\ Now # <<>> /\ k \in DOMAIN Now[row]
  BY <1>0, TextNow
<1> HIDE DEF s
<1>4. Len(s) < Width
  BY <1>0, <1>2, Sizes
<1>5. /\ Now' = Put(Now, row, row, <<s>>) /\ kw_cur_line' = kw_cur_line
      /\ kw_cur_col' = k - 1 /\ open'
  BY <1>1, <1>2, <1>4, LineNow
<1>6. Now' = P!Replaced(row, row, <<RemoveAt(Now[row], k)>>)
  BY <1>3, <1>5, Mapped
<1>7. P!Erase(k)
  <2> DEFINE t == IF open THEN Text(kw_lines, kw_num_lines) ELSE <<>>
             x == IF open THEN kw_cur_line + 1 ELSE 0
             y == IF open THEN kw_cur_col ELSE 0
  <2>1. t = Now /\ t' = Now' /\ x = row /\ x' = row /\ y' = k - 1
    BY <1>5 DEF Now
  <2> HIDE DEF t, x, y, row
  <2>2. k \in DOMAIN t[x] /\ t' = P!Replaced(x, x, <<P!RemoveAt(t[x], k)>>) /\ x' = x /\ y' = k - 1
    BY <1>3, <1>6, <2>1, SameHelpers
  <2> QED BY <2>2 DEF P!Erase, t, x, y
<1> QED BY <1>3, <1>7

\* Two lines become one.
LEMMA JoinIsJoin ==
    ASSUME KwInv, open, NEW i \in 0 .. kw_num_lines - 2, NEW w,
           JoinWith(i, i, Len(kw_lines[i]), w)
    PROVE  P!JoinLines(i + 1) /\ Now # <<>>
<1> DEFINE s == kw_lines[i] \o kw_lines[i + 1]
           p == Len(kw_lines[i])
           q == Len(kw_lines[i + 1])
           ls == ShiftDown([kw_lines EXCEPT ![i] = s], i + 1)
<1>0. kw_num_lines \in 1 .. MaxLines /\ kw_num_lines \in Nat /\ kw_lines \in Slots
  BY Running
<1>1. /\ p + q < Width - 1
      /\ kw_lines' = ls /\ kw_num_lines' = kw_num_lines - 1
      /\ kw_cur_line' = i /\ kw_cur_col' = p /\ open'
  BY DEF JoinWith, Change, KW_MAX_COL
<1>2. /\ i \in 0 .. MaxLines - 1 /\ i + 1 \in 0 .. MaxLines - 1 /\ i \in 0 .. kw_num_lines - 1
      /\ i + 1 \in 0 .. kw_num_lines - 1 /\ (i + 1) + 1 = i + 2 /\ i + 1 \in 1 .. kw_num_lines - 1
  BY <1>0, Sizes
<1>3. kw_lines[i] \in Seq(Letters \ {NL}) /\ kw_lines[i + 1] \in Seq(Letters \ {NL})
  BY <1>0, <1>2 DEF Slots, Lines
<1>4. s \in Lines /\ Len(s) = p + q /\ p \in Nat /\ q \in Nat
  BY <1>3 DEF Lines
<1>5. Len(s) < Width
  <2> HIDE DEF s, p, q
  <2> QED BY <1>1, <1>4, Sizes
<1>6. /\ s = Now[i + 1] \o Now[(i + 1) + 1] /\ p = Len(Now[i + 1])
      /\ i + 1 \in 1 .. Len(Now) - 1 /\ Now # <<>>
  BY <1>2, TextNow
<1> HIDE DEF s, p, q
<1>7. Text(ls, kw_num_lines - 1) = Put(Now, i + 1, i + 2, <<s>>)
  BY <1>4, <1>5, TextJoined DEF Now
<1> HIDE DEF ls
<1>8. Now' = Text(ls, kw_num_lines - 1)
  BY <1>1 DEF Now
<1>9. Now' = P!Replaced(i + 1, (i + 1) + 1, <<Now[i + 1] \o Now[(i + 1) + 1]>>)
  BY <1>2, <1>6, <1>7, <1>8, Mapped
<1>10. P!JoinLines(i + 1)
  BY <1>1, <1>6, <1>9 DEF P!JoinLines, Now
<1> QED BY <1>6, <1>10

\* Backspace and Delete.
LEMMA RemovingIsPlain ==
    ASSUME KwInv, open, Backspace \/ Delete
    PROVE  P!TextNext
<1>0. /\ kw_num_lines \in 1 .. MaxLines /\ kw_num_lines \in Nat /\ cur = kw_lines[kw_cur_line]
      /\ kw_cur_line \in 0 .. kw_num_lines - 1 /\ kw_cur_line \in Nat
      /\ Len(cur) \in Nat /\ kw_cur_col \in 0 .. Len(cur) /\ kw_cur_col \in Nat
  BY Running DEF cur
<1>1. CASE kw_cur_col > 0 /\ Backspace
  <2>1. Change([kw_lines EXCEPT ![kw_cur_line] = RemoveAt(@, kw_cur_col)], kw_num_lines,
               kw_cur_line, kw_cur_col - 1, kw_scroll, {kw_cur_line})
    BY <1>1 DEF Backspace
  <2>2. kw_cur_col \in 1 .. Len(cur)
    BY <1>0, <1>1
  <2>3. P!Erase(kw_cur_col) /\ Now # <<>>
    BY <2>1, <2>2, RemoveIsErase
  <2> QED BY <2>3 DEF P!TextNext, Now
<1>2. CASE ~(kw_cur_col > 0) /\ Backspace
  <2> DEFINE i == kw_cur_line - 1
  <2>1. kw_cur_line > 0 /\ JoinWith(i, i, Len(kw_lines[i]), Window(i))
    BY <1>2 DEF Backspace
  <2>2. i \in 0 .. kw_num_lines - 2 /\ i + 1 = (kw_cur_line + 1) - 1
    BY <1>0, <2>1
  <2> HIDE DEF i
  <2>3. P!JoinLines(i + 1) /\ Now # <<>>
    BY <2>1, <2>2, JoinIsJoin
  <2>4. P!JoinLines((kw_cur_line + 1) - 1)
    BY <2>2, <2>3
  <2> QED BY <2>3, <2>4 DEF P!TextNext, Now
<1>3. CASE kw_cur_col < Len(cur) /\ Delete
  <2> DEFINE k == kw_cur_col + 1
  <2>1. Change([kw_lines EXCEPT ![kw_cur_line] = RemoveAt(@, k)], kw_num_lines,
               kw_cur_line, kw_cur_col, kw_scroll, {kw_cur_line})
    BY <1>0, <1>3 DEF Delete
  <2>2. k \in 1 .. Len(cur) /\ k - 1 = kw_cur_col
    BY <1>0, <1>3
  <2> HIDE DEF k
  <2>3. P!Erase(k) /\ Now # <<>>
    BY <2>1, <2>2, RemoveIsErase
  <2> QED BY <2>3 DEF P!TextNext, Now, k
<1>4. CASE ~(kw_cur_col < Len(cur)) /\ Delete
  <2>1. kw_cur_line < kw_num_lines - 1 /\ JoinWith(kw_cur_line, kw_cur_line, kw_cur_col, kw_scroll)
    BY <1>4 DEF Delete
  <2>2. kw_cur_line \in 0 .. kw_num_lines - 2 /\ kw_cur_col = Len(kw_lines[kw_cur_line])
    BY <1>0, <1>4, <2>1
  <2>3. JoinWith(kw_cur_line, kw_cur_line, Len(kw_lines[kw_cur_line]), kw_scroll)
    BY <2>1, <2>2
  <2>4. P!JoinLines(kw_cur_line + 1) /\ Now # <<>>
    BY <2>2, <2>3, JoinIsJoin
  <2> QED BY <2>4 DEF P!TextNext, Now
<1> QED BY <1>1, <1>2, <1>3, <1>4

\* Enter.
LEMMA EnterIsSplit ==
    ASSUME KwInv, open, Enter
    PROVE  P!TextNext
<1> DEFINE l == kw_cur_line
           a == SubSeq(cur, 1, kw_cur_col)
           b == SubSeq(cur, kw_cur_col + 1, Len(cur))
           ls == [[ShiftUp(kw_lines, l + 1) EXCEPT ![l + 1] = b] EXCEPT ![l] = a]
<1>0. l \in 0 .. kw_num_lines - 1 /\ a \in Lines /\ Len(a) < Width /\ b \in Lines /\ Len(b) < Width
  BY Running, Halves
<1>1. /\ kw_num_lines < MaxLines /\ kw_lines' = ls /\ kw_num_lines' = kw_num_lines + 1
      /\ kw_cur_line' = l + 1 /\ kw_cur_col' = 0 /\ open'
  BY DEF Enter, Change
<1>2. /\ a = SubSeq(Now[l + 1], 1, kw_cur_col) /\ Now # <<>>
      /\ b = SubSeq(Now[l + 1], kw_cur_col + 1, Len(Now[l + 1]))
  BY TextNow
<1> HIDE DEF a, b
<1>3. Text(ls, kw_num_lines + 1) = Put(Now, l + 1, l + 1, <<a, b>>)
  BY <1>0, <1>1, TextSplit DEF Now
<1> HIDE DEF ls
<1>4. Now' = Text(ls, kw_num_lines + 1)
  BY <1>1 DEF Now
<1>5. Now' = P!Replaced(l + 1, l + 1,
                        <<SubSeq(Now[l + 1], 1, kw_cur_col),
                          SubSeq(Now[l + 1], kw_cur_col + 1, Len(Now[l + 1]))>>)
  BY <1>2, <1>3, <1>4, Mapped
<1>6. P!SplitLine
  BY <1>1, <1>5 DEF P!SplitLine, Now
<1> QED BY <1>2, <1>6 DEF P!TextNext, Now

\* kittywrite and Ctrl+Q.
LEMMA OpenIsStart ==
    ASSUME KwInv, Open
    PROVE  P!TextNext
<1> DEFINE t == Text(kw_lines', kw_num_lines')
<1>1. /\ kw_lines' \in Slots /\ Short(kw_lines') /\ kw_num_lines' \in 1 .. MaxLines
      /\ t = Loaded(file)
  BY LoadedOver
<1>2. ~open /\ open' /\ kw_cur_line' = 0 /\ kw_cur_col' = 0
  BY DEF Open
<1>3. /\ t \in Seq(Lines) /\ Len(t) = kw_num_lines' /\ kw_num_lines' \in Nat
      /\ \A k \in 1 .. kw_num_lines' : t[k] = kw_lines'[k - 1]
  BY <1>1, TextLines
<1> HIDE DEF t
<1>4. t # <<>>
  BY <1>1, <1>3
<1>5. ASSUME NEW k \in DOMAIN t PROVE Len(t[k]) < Width
  <2>1. k \in 1 .. kw_num_lines' /\ k - 1 \in 0 .. MaxLines - 1
    BY <1>1, <1>3, Sizes
  <2> QED BY <1>1, <1>3, <2>1 DEF Short
<1>6. P!Start
  BY <1>2, <1>4, <1>5 DEF P!Start, t
<1> QED BY <1>6 DEF P!TextNext

LEMMA QuitIsClose ==
    ASSUME Quit
    PROVE  P!TextNext
<1>1. P!Close
  BY DEF Quit, P!Close
<1> QED BY <1>1 DEF P!TextNext

\* Every key is a step of the plain text, or none.
LEMMA KeyIsPlain ==
    ASSUME KwInv, [KwNext]_kwVars
    PROVE  [P!TextNext]_P!textVars
<1>1. CASE UNCHANGED kwVars
  BY <1>1 DEF kwVars, text, P!textVars
<1>2. CASE Open
  BY <1>2, OpenIsStart
<1>3. ASSUME open, KeyLeft \/ KeyRight \/ Vertical(kw_cur_line - 1) \/ Vertical(kw_cur_line + 1) \/ HomeEnd
      PROVE  P!TextNext
  BY <1>3, MoveStep, MoveIsMove
<1>4. CASE Save \/ Switch
  BY <1>4 DEF Save, Switch, text, P!textVars
<1> QED BY <1>1, <1>2, <1>3, <1>4, InsertIsType, RemovingIsPlain, EnterIsSplit, QuitIsClose DEF KwNext

\* The editor, with its array that is shifted and the slots left over behind the text,
\* does to the text what a plain text does: at the cursor a key inserts, removes, splits
\* or joins, and nothing else of the text changes.
THEOREM EditorRefinesText == KwSpec => ImplementsPlainText
<1>1. KwInit => P!TextInit
  BY DEF KwInit, P!TextInit
<1>2. KwInv /\ [KwNext]_kwVars => [P!TextNext]_P!textVars
  BY KeyIsPlain
<1> QED BY <1>1, <1>2, KwInvariant, PTL DEF KwSpec, P!TextSpec, ImplementsPlainText
=============================================================================
