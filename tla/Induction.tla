----------------------------- MODULE Induction ------------------------------
(***************************************************************************)
(* What the proofs need of recursion: the least element of a set of natural *)
(* numbers, and what FoldLeft computes.                                     *)
(*                                                                         *)
(* The operator that is folded is a parameter of the module, and not of its *)
(* lemmas, so that an INSTANCE gives lemmas the provers can use: Op(e, x, y) *)
(* is the step from x over the element y, and Good(e, x) a property of the   *)
(* results; e is what the operator depends on besides.                       *)
(***************************************************************************)
EXTENDS Integers, SequencesExt, WellFoundedInduction, TLAPS

CONSTANTS Op(_, _, _), Good(_, _)

\* Min of a nonempty set of natural numbers is its least element.
LEMMA MinIsLeast ==
    ASSUME NEW S \in SUBSET Nat, S # {}
    PROVE  /\ Min(S) \in S
           /\ \A x \in S : Min(S) <= x
<1> DEFINE R == {ss \in Nat \X Nat : ss[1] < ss[2]}
<1>1. IsWellFoundedOn(R, Nat)
  BY NatLessThanWellFounded DEF OpToRel
<1>2. PICK x \in S : \A y \in S : ~ (<<y, x>> \in R)
  <2> HIDE DEF R
  <2> QED BY <1>1, WFMin
<1>3. \A y \in S : x <= y
  <2> SUFFICES ASSUME NEW y \in S, y < x
               PROVE  FALSE
    OBVIOUS
  <2>1. /\ <<y, x>> \in Nat \X Nat
        /\ <<y, x>>[1] = y /\ <<y, x>>[2] = x
    BY <1>2
  <2>2. <<y, x>> \in R
    BY <2>1
  <2> QED BY <1>2, <2>2
<1> QED BY <1>2, <1>3 DEF Min

\* A set of natural numbers that has 0, and with a number the next one, has all.
LEMMA SetInduction ==
    ASSUME NEW S, 0 \in S, \A n \in Nat : n \in S => n + 1 \in S
    PROVE  Nat \subseteq S
<1> SUFFICES ASSUME Nat \ S # {}
             PROVE  FALSE
  OBVIOUS
<1> DEFINE T == Nat \ S
           m == Min(T)
<1>1. m \in T /\ \A x \in T : m <= x
  BY MinIsLeast
<1> HIDE DEF m
<1>2. m \in Nat /\ m # 0 /\ m - 1 \in Nat
  BY <1>1
<1>3. m - 1 \in S
  <2>1. m - 1 \notin T
    BY <1>1, <1>2
  <2> QED BY <1>2, <2>1
<1>4. (m - 1) + 1 \in S
  BY <1>2, <1>3
<1>5. (m - 1) + 1 = m
  BY <1>2
<1> QED BY <1>1, <1>4, <1>5

-----------------------------------------------------------------------------

\* The greatest element of a set of numbers up to n + 1 that has n + 1.
LEMMA MaxOfSet ==
    ASSUME NEW n \in Nat, NEW s \in SUBSET (1 .. n), n \in s
    PROVE  Max(s) = n
<1>1. \A y \in s : n >= y
  OBVIOUS
<1>2. \A x \in s : (\A y \in s : x >= y) => x = n
  OBVIOUS
<1> QED BY <1>1, <1>2 DEF Max

\* The fold of a sequence from b.
Fold(e, b, q) == FoldLeft(LAMBDA x, y : Op(e, x, y), b, q)

\* The equation by which FoldLeft is defined.
Iterates(e, b, q, n, h) ==
    h = [s \in SUBSET (1 .. n) |->
            IF s = {} THEN b ELSE Op(e, h[s \ {Max(s)}], q[Max(s)])]

\* It has a solution, for sequences of every length.
LEMMA FoldExists ==
    ASSUME NEW e, NEW b, NEW q, NEW n \in Nat
    PROVE  \E h : Iterates(e, b, q, n, h)
<1> DEFINE S == {k \in Nat : \E h : Iterates(e, b, q, k, h)}
<1>1. 0 \in S
  <2> DEFINE h == [s \in SUBSET (1 .. 0) |-> b]
  <2>1. SUBSET (1 .. 0) = {{}}
    OBVIOUS
  <2>2. h = [s \in SUBSET (1 .. 0) |->
                IF s = {} THEN b ELSE Op(e, h[s \ {Max(s)}], q[Max(s)])]
    BY <2>1
  <2> QED BY <2>2 DEF Iterates
<1>2. ASSUME NEW k \in Nat, k \in S PROVE k + 1 \in S
  <2>1. PICK g : Iterates(e, b, q, k, g)
    BY <1>2
  <2> DEFINE h == [s \in SUBSET (1 .. k + 1) |->
                      IF k + 1 \in s THEN Op(e, g[s \ {k + 1}], q[k + 1]) ELSE g[s]]
  <2>2. ASSUME NEW s \in SUBSET (1 .. k + 1)
        PROVE  h[s] = IF s = {} THEN b ELSE Op(e, h[s \ {Max(s)}], q[Max(s)])
    <3>1. CASE k + 1 \in s
      <4>1. Max(s) = k + 1
        BY <3>1, MaxOfSet
      <4>2. s \ {k + 1} \in SUBSET (1 .. k + 1) /\ k + 1 \notin s \ {k + 1}
        OBVIOUS
      <4>3. h[s \ {k + 1}] = g[s \ {k + 1}]
        BY <4>2
      <4>4. h[s] = Op(e, g[s \ {k + 1}], q[k + 1])
        BY <3>1
      <4> HIDE DEF h
      <4> QED BY <3>1, <4>1, <4>3, <4>4
    <3>2. CASE k + 1 \notin s
      <4>1. s \in SUBSET (1 .. k)
        BY <3>2
      <4>2. h[s] = g[s]
        BY <3>2
      <4>3. g[s] = IF s = {} THEN b ELSE Op(e, g[s \ {Max(s)}], q[Max(s)])
        BY <2>1, <4>1 DEF Iterates
      <4>4. h[s \ {Max(s)}] = g[s \ {Max(s)}]
        <5>1. s \ {Max(s)} \in SUBSET (1 .. k + 1) /\ k + 1 \notin s \ {Max(s)}
          BY <3>2
        <5> QED BY <5>1
      <4> HIDE DEF h
      <4> QED BY <4>2, <4>3, <4>4
    <3> QED BY <3>1, <3>2
  <2>3. Iterates(e, b, q, k + 1, h)
    <3>1. h = [s \in SUBSET (1 .. k + 1) |-> h[s]]
      OBVIOUS
    <3> HIDE DEF h
    <3> QED BY <2>2, <3>1 DEF Iterates
  <2> QED BY <2>3
<1> HIDE DEF S
<1>3. n \in S
  BY <1>1, <1>2, SetInduction
<1> QED BY <1>3 DEF S

\* So FoldLeft is the last of its values.
LEMMA FoldIterates ==
    ASSUME NEW e, NEW b, NEW q, NEW n \in Nat, DOMAIN q = 1 .. n
    PROVE  \E h : /\ Iterates(e, b, q, n, h)
                  /\ Fold(e, b, q) = h[1 .. n]
<1> DEFINE h == CHOOSE h : Iterates(e, b, q, n, h)
<1>1. Iterates(e, b, q, n, h)
  BY FoldExists
<1>2. Fold(e, b, q) = h[1 .. n]
  BY DEF Fold, FoldLeft, MapThenFoldSet, Iterates
<1> QED BY <1>1, <1>2

\* The values of a fold along the first n elements of the sequence.
Values(e, b, q, n, f) ==
    f[0] = b /\ \A k \in 1 .. n : f[k] = Op(e, f[k - 1], q[k])

\* The values of a fold along the sequence: the first is b, and every other comes
\* from the one before it.
LEMMA FoldSteps ==
    ASSUME NEW e, NEW b, NEW q, NEW n \in Nat, DOMAIN q = 1 .. n
    PROVE  \E f : Values(e, b, q, n, f) /\ Fold(e, b, q) = f[n]
<1>1. PICK h : /\ Iterates(e, b, q, n, h)
               /\ Fold(e, b, q) = h[1 .. n]
  BY FoldIterates
<1> DEFINE f == [k \in 0 .. n |-> h[1 .. k]]
<1>2. f[0] = b
  <2>1. 1 .. 0 = {} /\ {} \in SUBSET (1 .. n)
    OBVIOUS
  <2>2. h[{}] = b
    BY <1>1, <2>1 DEF Iterates
  <2> QED BY <2>1, <2>2
<1>3. ASSUME NEW k \in 1 .. n PROVE f[k] = Op(e, f[k - 1], q[k])
  <2>1. 1 .. k \in SUBSET (1 .. n) /\ 1 .. k # {}
    <3>1. 1 .. k \subseteq 1 .. n /\ 1 \in 1 .. k
      OBVIOUS
    <3> QED BY <3>1
  <2>2. Max(1 .. k) = k
    BY MaxOfSet
  <2>3. (1 .. k) \ {k} = 1 .. k - 1
    OBVIOUS
  <2>4. h[1 .. k] = Op(e, h[1 .. k - 1], q[k])
    BY <1>1, <2>1, <2>2, <2>3 DEF Iterates
  <2> QED BY <2>4
<1>4. f[n] = h[1 .. n]
  OBVIOUS
<1> HIDE DEF f
<1> QED BY <1>1, <1>2, <1>3, <1>4 DEF Values

\* Nothing is folded over the empty sequence.
LEMMA FoldEmpty ==
    ASSUME NEW e, NEW b
    PROVE  Fold(e, b, <<>>) = b
<1>1. DOMAIN <<>> = 1 .. 0 /\ 0 \in Nat
  OBVIOUS
<1> QED BY <1>1, FoldSteps DEF Values

\* A property of the first value that every step keeps is one of the last.
LEMMA FoldGood ==
    ASSUME NEW e, NEW b, NEW q, NEW n \in Nat, DOMAIN q = 1 .. n,
           Good(e, b),
           \A k \in 1 .. n : \A x : Good(e, x) => Good(e, Op(e, x, q[k]))
    PROVE  Good(e, Fold(e, b, q))
<1>1. PICK f : Values(e, b, q, n, f) /\ Fold(e, b, q) = f[n]
  BY FoldSteps
<1> DEFINE S == {k \in Nat : k <= n => Good(e, f[k])}
<1>2. 0 \in S
  BY <1>1 DEF Values
<1>3. ASSUME NEW k \in Nat, k \in S PROVE k + 1 \in S
  <2> SUFFICES ASSUME k + 1 <= n PROVE Good(e, f[k + 1])
    OBVIOUS
  <2>1. k + 1 \in 1 .. n /\ (k + 1) - 1 = k /\ k <= n
    OBVIOUS
  <2>2. f[k + 1] = Op(e, f[k], q[k + 1])
    BY <1>1, <2>1 DEF Values
  <2>3. Good(e, f[k])
    BY <1>3, <2>1
  <2> QED BY <2>1, <2>2, <2>3
<1> HIDE DEF S
<1>4. n \in S
  BY <1>2, <1>3, SetInduction
<1> QED BY <1>1, <1>4 DEF S

\* A fold over a sequence with one element more is a step from the fold over the
\* sequence without it.
LEMMA FoldLast ==
    ASSUME NEW e, NEW b, NEW q, NEW n \in Nat, DOMAIN q = 1 .. n + 1,
           NEW p, DOMAIN p = 1 .. n, \A k \in 1 .. n : p[k] = q[k]
    PROVE  Fold(e, b, q) = Op(e, Fold(e, b, p), q[n + 1])
<1>1. PICK f : Values(e, b, q, n + 1, f) /\ Fold(e, b, q) = f[n + 1]
  <2>1. n + 1 \in Nat
    OBVIOUS
  <2> QED BY <2>1, FoldSteps
<1>2. PICK g : Values(e, b, p, n, g) /\ Fold(e, b, p) = g[n]
  BY FoldSteps
<1> DEFINE S == {k \in Nat : k <= n => f[k] = g[k]}
<1>3. 0 \in S
  BY <1>1, <1>2 DEF Values
<1>4. ASSUME NEW k \in Nat, k \in S PROVE k + 1 \in S
  <2> SUFFICES ASSUME k + 1 <= n PROVE f[k + 1] = g[k + 1]
    OBVIOUS
  <2>1. k + 1 \in 1 .. n /\ k + 1 \in 1 .. n + 1 /\ (k + 1) - 1 = k /\ k <= n
    OBVIOUS
  <2>2. f[k + 1] = Op(e, f[k], q[k + 1]) /\ g[k + 1] = Op(e, g[k], p[k + 1])
    BY <1>1, <1>2, <2>1 DEF Values
  <2>3. f[k] = g[k]
    BY <1>4, <2>1
  <2> QED BY <2>1, <2>2, <2>3
<1> HIDE DEF S
<1>5. n \in S
  BY <1>3, <1>4, SetInduction
<1>6. f[n] = g[n]
  BY <1>5 DEF S
<1>7. f[n + 1] = Op(e, f[n], q[n + 1])
  <2>1. n + 1 \in 1 .. n + 1 /\ (n + 1) - 1 = n
    OBVIOUS
  <2> QED BY <1>1, <2>1 DEF Values
<1> QED BY <1>1, <1>2, <1>6, <1>7
\* Whatever satisfies the equations of the values of a fold ends in the fold.
LEMMA FoldUnique ==
    ASSUME NEW e, NEW b, NEW q, NEW n \in Nat, DOMAIN q = 1 .. n,
           NEW f, Values(e, b, q, n, f)
    PROVE  Fold(e, b, q) = f[n]
<1>1. PICK g : Values(e, b, q, n, g) /\ Fold(e, b, q) = g[n]
  BY FoldSteps
<1> DEFINE S == {k \in Nat : k <= n => f[k] = g[k]}
<1>2. 0 \in S
  BY <1>1 DEF Values
<1>3. ASSUME NEW k \in Nat, k \in S PROVE k + 1 \in S
  <2> SUFFICES ASSUME k + 1 <= n PROVE f[k + 1] = g[k + 1]
    OBVIOUS
  <2>1. k + 1 \in 1 .. n /\ (k + 1) - 1 = k /\ k <= n
    OBVIOUS
  <2>2. f[k + 1] = Op(e, f[k], q[k + 1]) /\ g[k + 1] = Op(e, g[k], q[k + 1])
    BY <1>1, <2>1 DEF Values
  <2>3. f[k] = g[k]
    BY <1>3, <2>1
  <2> QED BY <2>2, <2>3
<1> HIDE DEF S
<1>4. n \in S
  BY <1>2, <1>3, SetInduction
<1> QED BY <1>1, <1>4 DEF S

\* The fold of a concatenation goes on from the fold of its first part.
LEMMA FoldConcat ==
    ASSUME NEW e, NEW b, NEW p, NEW q, NEW r, NEW m \in Nat, NEW n \in Nat,
           DOMAIN p = 1 .. m, DOMAIN q = 1 .. n, DOMAIN r = 1 .. m + n,
           \A k \in 1 .. m : r[k] = p[k],
           \A k \in 1 .. n : r[m + k] = q[k]
    PROVE  Fold(e, b, r) = Fold(e, Fold(e, b, p), q)
<1>1. PICK f : Values(e, b, p, m, f) /\ Fold(e, b, p) = f[m]
  <2>1. m \in Nat /\ DOMAIN p = 1 .. m
    OBVIOUS
  <2> QED BY ONLY <2>1, FoldSteps
<1> DEFINE c == f[m]
<1> HIDE DEF c
<1>2. PICK g : Values(e, c, q, n, g) /\ Fold(e, c, q) = g[n]
  <2>1. n \in Nat /\ DOMAIN q = 1 .. n
    OBVIOUS
  <2> QED BY ONLY <2>1, FoldSteps
<1> DEFINE h == [k \in 0 .. m + n |-> IF k <= m THEN f[k] ELSE g[k - m]]
<1>3. /\ \A k \in 0 .. m + n : k <= m => h[k] = f[k]
      /\ \A k \in 0 .. m + n : k >= m => h[k] = g[k - m]
  <2>1. g[0] = f[m] /\ m - m = 0
    BY <1>2 DEF Values, c
  <2> QED BY <2>1
<1> HIDE DEF h
<1>4. h[0] = b
  BY <1>1, <1>3 DEF Values
<1>5. ASSUME NEW k \in 1 .. m + n PROVE h[k] = Op(e, h[k - 1], r[k])
  <2>1. CASE k <= m
    <3>1. k \in 1 .. m /\ k \in 0 .. m + n /\ k - 1 \in 0 .. m + n /\ k - 1 <= m
      BY <2>1
    <3>2. f[k] = Op(e, f[k - 1], p[k])
      BY <1>1, <3>1 DEF Values
    <3>3. h[k] = f[k] /\ h[k - 1] = f[k - 1] /\ r[k] = p[k]
      BY <1>3, <2>1, <3>1
    <3> QED BY <3>2, <3>3
  <2>2. CASE ~(k <= m)
    <3> DEFINE l == k - m
    <3>1. /\ l \in 1 .. n /\ m + l = k /\ (k - 1) - m = l - 1
          /\ k \in 0 .. m + n /\ k - 1 \in 0 .. m + n /\ k >= m /\ k - 1 >= m
      BY <2>2
    <3>2. h[k] = g[l] /\ h[k - 1] = g[l - 1]
      BY <1>3, <3>1
    <3> HIDE DEF l
    <3>3. g[l] = Op(e, g[l - 1], q[l]) /\ r[k] = q[l]
      BY <1>2, <3>1 DEF Values
    <3> QED BY <3>2, <3>3
  <2> QED BY <2>1, <2>2
<1>6. Values(e, b, r, m + n, h) /\ m + n \in Nat
  BY <1>4, <1>5 DEF Values
<1>7. Fold(e, b, r) = h[m + n]
  BY <1>6, FoldUnique
<1>8. h[m + n] = g[n]
  <2>1. m + n \in 0 .. m + n /\ m + n >= m /\ (m + n) - m = n
    OBVIOUS
  <2> QED BY <1>3, <2>1
<1> QED BY <1>1, <1>2, <1>7, <1>8 DEF c
=============================================================================
