------------------------------ MODULE Induction ------------------------------
(* Induction over numbers and finite sets, with the recursions and the sums  *)
(* that rest on it: what the proofs about the folds of the model cite.       *)
(*                                                                           *)
(* The principles are stated for sets, as \A n : n \in S, so that a proof    *)
(* can give S as {n \in Nat : ...}.                                          *)
EXTENDS Integers, FiniteSetsExt, Functions, FiniteSetTheorems,
        WellFoundedInduction, TLAPS

-----------------------------------------------------------------------------
(* Numbers                                                                   *)

\* A set of numbers that has an element has a least one.
LEMMA LeastNatural ==
    ASSUME NEW T \in SUBSET Nat, T # {}
    PROVE  \E x \in T : \A y \in T : x <= y
<1> DEFINE P == {0..t : t \in T}
           R == StrictSubsetOrdering(Nat)
           F == FiniteSubsetsOf(Nat)
<1>1. IsWellFoundedOn(R, F)  BY FS_StrictSubsetOrderingWellFounded
<1>2. P \subseteq F
  <2>1. ASSUME NEW t \in T PROVE 0..t \in F  BY FS_Interval DEF FiniteSubsetsOf
  <2> QED BY <2>1
<1>3. P # {}
  OBVIOUS
<1>4. PICK p \in P : \A q \in P : ~ (<<q, p>> \in R)
  <2> HIDE DEF P, R, F
  <2> QED BY <1>1, <1>2, <1>3, WFMin
<1>5. PICK x \in T : p = 0..x
  OBVIOUS
<1>6. ASSUME NEW y \in T PROVE x <= y
  <2>1. SUFFICES ASSUME y < x PROVE FALSE
    OBVIOUS
  <2>2. 0..y \subseteq 0..x /\ x \in 0..x /\ x \notin 0..y  BY <2>1
  <2>3. 0..y \in SUBSET Nat /\ 0..x \in SUBSET Nat
    OBVIOUS
  <2>4. <<0..y, 0..x>> \in R  BY <2>2, <2>3 DEF StrictSubsetOrdering
  <2> QED BY <2>4, <1>4, <1>5
<1> QED BY <1>6

\* Induction over the numbers.
LEMMA SetInduction ==
    ASSUME NEW S, 0 \in S, \A n \in Nat : n \in S => n + 1 \in S
    PROVE  \A n \in Nat : n \in S
<1>1. SUFFICES ASSUME Nat \ S # {} PROVE FALSE
  OBVIOUS
<1>2. PICK x \in Nat \ S : \A y \in Nat \ S : x <= y  BY <1>1, LeastNatural
<1>3. x # 0 /\ x - 1 \in Nat  BY <1>2
<1>4. x - 1 \in S  BY <1>2, <1>3
<1>5. (x - 1) + 1 \in S  BY <1>3, <1>4
<1> QED BY <1>2, <1>5

\* The minimum and the maximum of a set are what they are called.
LEMMA MinIsLeast ==
    ASSUME NEW T \in SUBSET Nat, T # {}
    PROVE  Min(T) \in T /\ \A y \in T : Min(T) <= y
  BY LeastNatural DEF Min

LEMMA MaxIsGreatest ==
    ASSUME NEW T \in SUBSET Nat, T # {}, NEW b \in Nat, \A y \in T : y <= b
    PROVE  Max(T) \in T /\ \A y \in T : y <= Max(T)
<1> DEFINE U == {n \in Nat : \A y \in T : y <= n}
<1>1. U \in SUBSET Nat /\ U # {}
  OBVIOUS
<1>2. PICK x \in U : \A n \in U : x <= n  BY <1>1, LeastNatural
<1>3. x \in T
  <2>1. SUFFICES ASSUME x \notin T PROVE FALSE
    OBVIOUS
  <2>2. \A y \in T : y <= x - 1  BY <2>1, <1>2
  <2>3. x - 1 \in Nat
    <3>1. PICK y \in T : TRUE
      OBVIOUS
    <3> QED BY <3>1, <2>2
  <2> QED BY <2>2, <2>3, <1>2
<1> QED BY <1>2, <1>3 DEF Max

\* A function defined by recursion over 0..n: D says what step k makes of the
\* value before it.
Recurs(n, V, base, D) ==
    \E f \in [0..n -> V] : f[0] = base /\ \A k \in 1..n : f[k] = D[k][f[k - 1]]

\* There is such a function.
LEMMA RecursionExists ==
    ASSUME NEW n \in Nat, NEW V, NEW base \in V, NEW D,
           \A k \in 1..n, v \in V : D[k][v] \in V
    PROVE  Recurs(n, V, base, D)
<1> DEFINE C == {m \in Nat : m <= n => Recurs(m, V, base, D)}
<1>1. 0 \in C
  <2> DEFINE f == [k \in 0..0 |-> base]
  <2>1. f \in [0..0 -> V] /\ f[0] = base /\ \A k \in 1..0 : f[k] = D[k][f[k - 1]]
    OBVIOUS
  <2>2. Recurs(0, V, base, D)  BY <2>1 DEF Recurs
  <2> QED BY <2>2
<1>2. ASSUME NEW m \in Nat, m \in C PROVE m + 1 \in C
  <2> SUFFICES ASSUME m + 1 <= n PROVE Recurs(m + 1, V, base, D)
    OBVIOUS
  <2>1. Recurs(m, V, base, D)  BY <1>2
  <2>2. PICK f \in [0..m -> V] :
           f[0] = base /\ \A k \in 1..m : f[k] = D[k][f[k - 1]]
    BY <2>1 DEF Recurs
  <2> DEFINE g == [k \in 0..(m + 1) |-> IF k <= m THEN f[k] ELSE D[k][f[m]]]
  <2>3. D[m + 1][f[m]] \in V
    <3>1. m + 1 \in 1..n /\ f[m] \in V  BY <2>2
    <3> QED BY <3>1
  <2>4. g \in [0..(m + 1) -> V]  BY <2>2, <2>3
  <2>5. g[0] = base  BY <2>2
  <2>6. ASSUME NEW k \in 1..(m + 1) PROVE g[k] = D[k][g[k - 1]]
    <3>1. CASE k <= m
      <4>1. k \in 1..m /\ g[k] = f[k] /\ g[k - 1] = f[k - 1]  BY <3>1
      <4> QED BY <2>2, <4>1
    <3>2. CASE k = m + 1
      <4>1. g[k] = D[k][f[m]] /\ k - 1 = m /\ g[m] = f[m]  BY <3>2
      <4> QED BY <4>1
    <3> QED BY <3>1, <3>2
  <2> HIDE DEF g
  <2> QED BY <2>4, <2>5, <2>6 DEF Recurs
<1>3. \A m \in Nat : m \in C
  <2> HIDE DEF C
  <2> QED BY <1>1, <1>2, SetInduction
<1> QED BY <1>3

\* What every step keeps is so after the last one.
LEMMA LeftFoldStays ==
    ASSUME NEW n \in Nat, NEW g, NEW F, g[0] \in F[0],
           \A k \in 1 .. n : g[k - 1] \in F[k - 1] => g[k] \in F[k]
    PROVE  g[n] \in F[n]
<1> DEFINE I == {k \in Nat : k <= n => g[k] \in F[k]}
<1>1. 0 \in I
  OBVIOUS
<1>2. \A k \in I : k + 1 \in I
  <2> TAKE k \in I
  <2>1. k + 1 <= n => k + 1 \in 1 .. n /\ (k + 1) - 1 = k /\ k <= n
    OBVIOUS
  <2> QED BY <2>1
<1>3. n \in I
  <2> HIDE DEF I
  <2> QED BY <1>1, <1>2, SetInduction
<1> QED BY <1>3

\* A fold from the left over n steps has a value after each of them.
LeftFolds(n, F, base, D) ==
    \E g : /\ g = [i \in 0 .. n |-> IF i = 0 THEN base ELSE D[i][g[i - 1]]]
           /\ \A i \in 0 .. n : g[i] \in F[i]

LEMMA LeftFoldExists ==
    ASSUME NEW n \in Nat, NEW F, NEW base \in F[0], NEW D,
           \A k \in 1 .. n : \A v \in F[k - 1] : D[k][v] \in F[k]
    PROVE  LeftFolds(n, F, base, D)
<1> DEFINE V == UNION {F[i] : i \in 0 .. n}
           C == [k \in 1 .. n |-> [v \in V |-> IF D[k][v] \in V THEN D[k][v] ELSE base]]
<1>1. base \in V /\ \A k \in 1 .. n, v \in V : C[k][v] \in V
  OBVIOUS
<1>2. Recurs(n, V, base, C)
  <2> HIDE DEF C, V
  <2> QED BY <1>1, RecursionExists
<1>3. PICK g \in [0 .. n -> V] : g[0] = base /\ \A k \in 1 .. n : g[k] = C[k][g[k - 1]]
  BY <1>2 DEF Recurs
<1>4. \A k \in 1 .. n : g[k - 1] \in F[k - 1] => g[k] = D[k][g[k - 1]] /\ g[k] \in F[k]
  <2> TAKE k \in 1 .. n
  <2> HAVE g[k - 1] \in F[k - 1]
  <2>1. k - 1 \in 0 .. n /\ k \in 0 .. n
    OBVIOUS
  <2>2. D[k][g[k - 1]] \in F[k]
    OBVIOUS
  <2>3. D[k][g[k - 1]] \in V /\ g[k - 1] \in V  BY <2>1, <2>2
  <2>4. C[k][g[k - 1]] = D[k][g[k - 1]]  BY <2>3
  <2> QED BY <1>3, <2>2, <2>4
<1>5. \A m \in 0 .. n : g[m] \in F[m]
  <2> TAKE m \in 0 .. n
  <2>1. m \in Nat /\ \A k \in 1 .. m : g[k - 1] \in F[k - 1] => g[k] \in F[k]  BY <1>4
  <2> HIDE DEF C, V
  <2> QED BY <2>1, <1>3, LeftFoldStays
<1>6. \A i \in 0 .. n : g[i] = IF i = 0 THEN base ELSE D[i][g[i - 1]]
  <2> TAKE i \in 0 .. n
  <2>1. i # 0 => i \in 1 .. n /\ i - 1 \in 0 .. n
    OBVIOUS
  <2> QED BY <2>1, <1>3, <1>4, <1>5
<1>7. g = [i \in 0 .. n |-> g[i]]  BY <1>3
<1>8. g = [i \in 0 .. n |-> IF i = 0 THEN base ELSE D[i][g[i - 1]]]
  <2> HIDE DEF C, V
  <2> QED BY <1>6, <1>7
<1> QED BY <1>5, <1>8 DEF LeftFolds

-----------------------------------------------------------------------------
(* Finite sets                                                               *)

\* Induction over the subsets of a finite set, by their size.
LEMMA SubsetInduction ==
    ASSUME NEW S, IsFiniteSet(S), NEW I,
           \A T \in SUBSET S : (\A U \in SUBSET T : U # T => U \in I) => T \in I
    PROVE  \A T \in SUBSET S : T \in I
<1> DEFINE C == {n \in Nat : \A T \in SUBSET S : Cardinality(T) <= n => T \in I}
<1>1. \A T \in SUBSET S : IsFiniteSet(T) /\ Cardinality(T) \in Nat
  BY FS_Subset, FS_CardinalityType
<1>2. \A T \in SUBSET S : \A U \in SUBSET T :
         U # T => Cardinality(U) < Cardinality(T) /\ U \in SUBSET S
  <2> TAKE T \in SUBSET S
  <2> TAKE U \in SUBSET T
  <2>1. IsFiniteSet(T) /\ Cardinality(T) \in Nat /\ Cardinality(U) \in Nat  BY <1>1
  <2>2. /\ Cardinality(U) <= Cardinality(T)
        /\ Cardinality(T) = Cardinality(U) => T = U
    BY <2>1, FS_Subset
  <2> QED BY <2>1, <2>2
<1>3. 0 \in C
  <2>1. ASSUME NEW T \in SUBSET S, Cardinality(T) <= 0 PROVE T \in I
    <3>1. \A U \in SUBSET T : U = T  BY <2>1, <1>1, <1>2
    <3> QED BY <3>1
  <2> QED BY <2>1
<1>4. \A n \in Nat : n \in C => n + 1 \in C
  <2> TAKE n \in Nat
  <2> HAVE n \in C
  <2>1. ASSUME NEW T \in SUBSET S, Cardinality(T) <= n + 1 PROVE T \in I
    <3>1. \A U \in SUBSET T : U # T => U \in I  BY <2>1, <1>1, <1>2
    <3> QED BY <3>1
  <2> QED BY <2>1
<1>5. \A n \in Nat : n \in C
  <2> HIDE DEF C
  <2> QED BY <1>3, <1>4, SetInduction
<1> TAKE T \in SUBSET S
<1>6. Cardinality(T) \in Nat /\ Cardinality(T) \in C  BY <1>1, <1>5
<1> QED BY <1>6

\* A finite set of numbers has a bound.
LEMMA FiniteIsBounded ==
    ASSUME NEW S \in SUBSET Nat, IsFiniteSet(S)
    PROVE  \E b \in Nat : \A y \in S : y <= b
<1> DEFINE I == {T \in SUBSET S : \E b \in Nat : \A y \in T : y <= b}
<1>1. ASSUME NEW T \in SUBSET S, \A U \in SUBSET T : U # T => U \in I
      PROVE  T \in I
  <2>1. CASE T = {}  BY <2>1
  <2>2. CASE T # {}
    <3>1. PICK x \in T : TRUE  BY <2>2
    <3>2. PICK b \in Nat : \A y \in T \ {x} : y <= b
      <4>1. T \ {x} \in SUBSET T /\ T \ {x} # T  BY <3>1
      <4>2. T \ {x} \in I  BY <1>1, <4>1
      <4> QED BY <4>2
    <3>3. b + x \in Nat /\ \A y \in T : y <= b + x  BY <3>1, <3>2
    <3> QED BY <3>3
  <2> QED BY <2>1, <2>2
<1>2. \A T \in SUBSET S : T \in I
  <2> HIDE DEF I
  <2> QED BY <1>1, SubsetInduction
<1> QED BY <1>2

\* Taking the elements of a finite set away one by one, in the order of pick,
\* reaches every subset.
LEMMA PickInduction ==
    ASSUME NEW S, IsFiniteSet(S), NEW pick, NEW I, {} \in I,
           \A T \in SUBSET S : T # {} => pick[T] \in T,
           \A T \in SUBSET S : T # {} /\ T \ {pick[T]} \in I => T \in I
    PROVE  \A T \in SUBSET S : T \in I
<1>1. ASSUME NEW T \in SUBSET S, \A U \in SUBSET T : U # T => U \in I
      PROVE  T \in I
  <2>1. CASE T = {}  BY <2>1
  <2>2. CASE T # {}  BY <1>1, <2>2
  <2> QED BY <2>1, <2>2
<1> QED BY <1>1, SubsetInduction

\* A function defined by recursion over the subsets of S: pick is taken out of
\* a subset, and D says what it adds to the value of the rest.
Folds(S, pick, V, base, D) ==
    \E g \in [SUBSET S -> V] :
      \A s \in SUBSET S :
        g[s] = IF s = {} THEN base ELSE D[pick[s]][g[s \ {pick[s]}]]

\* There is such a function, on a finite set.
LEMMA FoldExists ==
    ASSUME NEW S, IsFiniteSet(S), NEW pick,
           \A T \in SUBSET S : T # {} => pick[T] \in T,
           NEW V, NEW base \in V, NEW D,
           \A x \in S, v \in V : D[x][v] \in V
    PROVE  Folds(S, pick, V, base, D)
<1> DEFINE Upto(n) == {s \in SUBSET S : Cardinality(s) <= n}
           Rec(g, n) == \A s \in Upto(n) :
             g[s] = IF s = {} THEN base ELSE D[pick[s]][g[s \ {pick[s]}]]
           C == {n \in Nat : \E g \in [Upto(n) -> V] : Rec(g, n)}
<1>1. \A T \in SUBSET S : IsFiniteSet(T) /\ Cardinality(T) \in Nat
  BY FS_Subset, FS_CardinalityType
<1>2. ASSUME NEW s \in SUBSET S, s # {}
      PROVE  /\ s \ {pick[s]} \in SUBSET S /\ pick[s] \in S
             /\ Cardinality(s \ {pick[s]}) = Cardinality(s) - 1
  <2>1. IsFiniteSet(s) /\ pick[s] \in s  BY <1>1, <1>2
  <2> QED BY <2>1, FS_RemoveElement
<1>3. \A s \in SUBSET S : Cardinality(s) <= 0 => s = {}  BY <1>1, FS_EmptySet
<1>4. 0 \in C
  <2> DEFINE g == [s \in Upto(0) |-> base]
  <2>1. g \in [Upto(0) -> V] /\ Rec(g, 0)  BY <1>3
  <2> QED BY <2>1
<1>5. \A n \in Nat : n \in C => n + 1 \in C
  <2> SUFFICES ASSUME NEW n \in Nat, NEW g \in [Upto(n) -> V], Rec(g, n)
               PROVE  n + 1 \in C
    OBVIOUS
  <2> DEFINE h == [s \in Upto(n + 1) |->
               IF s = {} THEN base ELSE D[pick[s]][g[s \ {pick[s]}]]]
  <2>1. ASSUME NEW s \in Upto(n + 1), s # {}
        PROVE  s \ {pick[s]} \in Upto(n) /\ pick[s] \in S
    BY <2>1, <1>1, <1>2
  <2>2. ASSUME NEW s \in Upto(n) PROVE s \in Upto(n + 1) /\ h[s] = g[s]
    <3>1. Cardinality(s) \in Nat  BY <1>1
    <3>2. s \in Upto(n + 1)  BY <3>1
    <3>3. g[s] = IF s = {} THEN base ELSE D[pick[s]][g[s \ {pick[s]}]]
      OBVIOUS
    <3> QED BY <3>2, <3>3
  <2>3. h \in [Upto(n + 1) -> V]
    <3>1. ASSUME NEW s \in Upto(n + 1), s # {}
          PROVE  D[pick[s]][g[s \ {pick[s]}]] \in V
      BY <2>1, <3>1
    <3> QED BY <3>1
  <2>4. Rec(h, n + 1)
    <3>1. ASSUME NEW s \in Upto(n + 1), s # {}
          PROVE  h[s] = D[pick[s]][h[s \ {pick[s]}]]
      <4>1. h[s] = D[pick[s]][g[s \ {pick[s]}]]  BY <3>1
      <4>2. h[s \ {pick[s]}] = g[s \ {pick[s]}]  BY <2>1, <2>2, <3>1
      <4> QED BY <4>1, <4>2
    <3> QED BY <3>1
  <2>5. \E k \in [Upto(n + 1) -> V] : Rec(k, n + 1)
    <3> HIDE DEF h, Upto, Rec
    <3> QED BY <2>3, <2>4
  <2> HIDE DEF Upto, Rec
  <2> QED BY <2>5
<1>6. \A n \in Nat : n \in C
  <2> HIDE DEF C
  <2> QED BY <1>4, <1>5, SetInduction
<1>7. Cardinality(S) \in Nat /\ \A s \in SUBSET S : Cardinality(s) <= Cardinality(S)
  BY <1>1, FS_Subset, FS_CardinalityType
<1>8. Upto(Cardinality(S)) = SUBSET S  BY <1>7
<1>9. PICK g \in [Upto(Cardinality(S)) -> V] : Rec(g, Cardinality(S))  BY <1>6, <1>7
<1> QED BY <1>8, <1>9 DEF Folds

\* What such a recursion gives for a subset stays in the set that belongs to
\* the subset, when its steps do.
LEMMA FoldStays ==
    ASSUME NEW S, IsFiniteSet(S), NEW pick,
           \A T \in SUBSET S : T # {} => pick[T] \in T,
           NEW g, NEW F, g[{}] \in F[{}],
           \A T \in SUBSET S :
             T # {} /\ g[T \ {pick[T]}] \in F[T \ {pick[T]}] => g[T] \in F[T]
    PROVE  \A T \in SUBSET S : g[T] \in F[T]
<1> DEFINE I == {T \in SUBSET S : g[T] \in F[T]}
<1>1. {} \in I
  OBVIOUS
<1>2. \A T \in SUBSET S : T # {} /\ T \ {pick[T]} \in I => T \in I
  OBVIOUS
<1>3. \A T \in SUBSET S : T \in I
  <2> HIDE DEF I
  <2> QED BY <1>1, <1>2, PickInduction
<1> QED BY <1>3

\* There is such a recursion even when D is only known for the values that the
\* subset before can have.
FoldsWithin(S, pick, F, base, D) ==
    \E g :
      /\ g = [s \in SUBSET S |-> IF s = {} THEN base ELSE D[pick[s]][g[s \ {pick[s]}]]]
      /\ \A s \in SUBSET S : g[s] \in F[s]

LEMMA FoldWithinExists ==
    ASSUME NEW S, IsFiniteSet(S), NEW pick,
           \A T \in SUBSET S : T # {} => pick[T] \in T,
           NEW F, NEW base \in F[{}], NEW D,
           \A T \in SUBSET S :
             T # {} => \A v \in F[T \ {pick[T]}] : D[pick[T]][v] \in F[T]
    PROVE  FoldsWithin(S, pick, F, base, D)
<1> DEFINE V == UNION {F[T] : T \in SUBSET S}
           C == [x \in S |-> [v \in V |-> IF D[x][v] \in V THEN D[x][v] ELSE base]]
<1>1. base \in V /\ \A x \in S, v \in V : C[x][v] \in V
  OBVIOUS
<1>2. Folds(S, pick, V, base, C)
  <2> HIDE DEF C, V
  <2> QED BY <1>1, FoldExists
<1>3. PICK g \in [SUBSET S -> V] :
        \A s \in SUBSET S :
          g[s] = IF s = {} THEN base ELSE C[pick[s]][g[s \ {pick[s]}]]
  BY <1>2 DEF Folds
<1>4. ASSUME NEW T \in SUBSET S, T # {}, g[T \ {pick[T]}] \in F[T \ {pick[T]}]
      PROVE  g[T] \in F[T] /\ g[T] = D[pick[T]][g[T \ {pick[T]}]]
  <2>1. pick[T] \in S /\ T \ {pick[T]} \in SUBSET S  BY <1>4
  <2>2. D[pick[T]][g[T \ {pick[T]}]] \in F[T]  BY <1>4
  <2>3. D[pick[T]][g[T \ {pick[T]}]] \in V  BY <2>2
  <2>5. g[T \ {pick[T]}] \in V  BY <1>4, <2>1
  <2>4. C[pick[T]][g[T \ {pick[T]}]] = D[pick[T]][g[T \ {pick[T]}]]  BY <2>1, <2>3, <2>5
  <2> QED BY <2>2, <2>4, <1>3, <1>4
<1>5. g[{}] \in F[{}]  BY <1>3
<1>6. \A T \in SUBSET S : g[T] \in F[T]
  <2> HIDE DEF C, V
  <2> QED BY <1>4, <1>5, FoldStays
<1>7. \A T \in SUBSET S :
        g[T] = IF T = {} THEN base ELSE D[pick[T]][g[T \ {pick[T]}]]
  <2>1. \A T \in SUBSET S : T \ {pick[T]} \in SUBSET S
    OBVIOUS
  <2> QED BY <2>1, <1>3, <1>4, <1>6
<1>8. g = [T \in SUBSET S |-> g[T]]  BY <1>3
<1>9. g = [T \in SUBSET S |->
             IF T = {} THEN base ELSE D[pick[T]][g[T \ {pick[T]}]]]
  <2> HIDE DEF C, V
  <2> QED BY <1>7, <1>8
<1> QED BY <1>6, <1>9 DEF FoldsWithin

-----------------------------------------------------------------------------
(* Sums                                                                      *)

\* The recursion that SumFunctionOnSet chooses its function by.
SumsTo(iter, f, S) ==
    iter = [s \in SUBSET S |->
              IF s = {} THEN 0
              ELSE f[CHOOSE x \in s : TRUE] + iter[s \ {CHOOSE x \in s : TRUE}]]

LEMMA SumUnfolds ==
    ASSUME NEW f, NEW S
    PROVE  SumFunctionOnSet(f, S) = (CHOOSE iter : SumsTo(iter, f, S))[S]
  BY DEF SumFunctionOnSet, FoldFunctionOnSet, MapThenFoldSet, SumsTo

LEMMA SumRecursion ==
    ASSUME NEW S, IsFiniteSet(S), NEW f, \A x \in S : f[x] \in Int
    PROVE  \E iter \in [SUBSET S -> Int] : SumsTo(iter, f, S)
<1> DEFINE pick == [s \in SUBSET S |-> CHOOSE x \in s : TRUE]
           V == Int
           D == [x \in S |-> [v \in V |-> f[x] + v]]
<1>1. \A T \in SUBSET S : T # {} => pick[T] \in T
  OBVIOUS
<1>2. 0 \in V /\ \A x \in S, v \in V : D[x][v] \in V
  OBVIOUS
<1>3. PICK g \in [SUBSET S -> Int] :
        \A s \in SUBSET S :
          g[s] = IF s = {} THEN 0 ELSE D[pick[s]][g[s \ {pick[s]}]]
  <2>1. Folds(S, pick, V, 0, D)
    <3> HIDE DEF D, pick, V
    <3> QED BY <1>1, <1>2, FoldExists
  <2> QED BY <2>1 DEF Folds
<1>4. ASSUME NEW s \in SUBSET S
      PROVE  g[s] = IF s = {} THEN 0
                    ELSE f[CHOOSE x \in s : TRUE] + g[s \ {CHOOSE x \in s : TRUE}]
  <2>1. CASE s = {}  BY <1>3, <2>1
  <2>2. CASE s # {}
    <3>1. pick[s] = (CHOOSE x \in s : TRUE) /\ pick[s] \in S  BY <1>1, <2>2
    <3>2. g[s \ {pick[s]}] \in Int  BY <1>3
    <3>3. g[s] = D[pick[s]][g[s \ {pick[s]}]]  BY <1>3, <2>2
    <3>4. g[s] = f[pick[s]] + g[s \ {pick[s]}]  BY <3>1, <3>2, <3>3
    <3> QED BY <3>1, <3>4, <2>2
  <2> QED BY <2>1, <2>2
<1>5. g = [s \in SUBSET S |->
            IF s = {} THEN 0
            ELSE f[CHOOSE x \in s : TRUE] + g[s \ {CHOOSE x \in s : TRUE}]]
  BY <1>4
<1>6. SumsTo(g, f, S)  BY <1>5 DEF SumsTo
<1> QED BY <1>6

\* Whatever function satisfies the recursion, it takes any element out of a
\* set, not only the chosen one.
LEMMA SumTakes ==
    ASSUME NEW S, IsFiniteSet(S), NEW f, \A x \in S : f[x] \in Int,
           NEW iter, SumsTo(iter, f, S)
    PROVE  \A T \in SUBSET S :
             /\ iter[T] \in Int
             /\ \A x \in T : iter[T] = f[x] + iter[T \ {x}]
<1> DEFINE I == {T \in SUBSET S : /\ iter[T] \in Int
                                  /\ \A x \in T : iter[T] = f[x] + iter[T \ {x}]}
<1>1. /\ iter[{}] = 0
      /\ \A T \in SUBSET S : T # {} =>
           iter[T] = f[CHOOSE x \in T : TRUE] + iter[T \ {CHOOSE x \in T : TRUE}]
  BY DEF SumsTo
<1>2. ASSUME NEW T \in SUBSET S, \A U \in SUBSET T : U # T => U \in I
      PROVE  T \in I
  <2>1. CASE T = {}  BY <1>1, <2>1
  <2>2. CASE T # {}
    <3> DEFINE p == CHOOSE x \in T : TRUE
    <3>1. p \in T /\ f[p] \in Int /\ iter[T] = f[p] + iter[T \ {p}]  BY <1>1, <2>2
    <3>2. T \ {p} \in I  BY <1>2, <3>1
    <3> HIDE DEF p
    <3>3. iter[T] \in Int  BY <3>1, <3>2
    <3>4. ASSUME NEW x \in T PROVE iter[T] = f[x] + iter[T \ {x}]
      <4>1. CASE x = p  BY <4>1, <3>1
      <4>2. CASE x # p
        <5>1. T \ {x} \in I /\ p \in T \ {x} /\ x \in T \ {p}  BY <1>2, <3>1, <4>2
        <5>2. (T \ {p}) \ {x} = (T \ {x}) \ {p}
          OBVIOUS
        <5>3. iter[T \ {p}] = f[x] + iter[(T \ {x}) \ {p}]  BY <3>2, <5>1, <5>2
        <5>4. iter[T \ {x}] = f[p] + iter[(T \ {x}) \ {p}]  BY <5>1
        <5>5. (T \ {x}) \ {p} \in I  BY <1>2, <5>1
        <5>6. iter[(T \ {x}) \ {p}] \in Int /\ f[x] \in Int  BY <5>5
        <5> HIDE DEF I
        <5> QED BY <3>1, <5>3, <5>4, <5>6
      <4> QED BY <4>1, <4>2
    <3> QED BY <3>3, <3>4
  <2> QED BY <2>1, <2>2
<1>3. \A T \in SUBSET S : T \in I
  <2> HIDE DEF I
  <2> QED BY <1>2, SubsetInduction
<1> QED BY <1>3

\* Any two such functions agree where both are defined.
LEMMA SumUnique ==
    ASSUME NEW S, IsFiniteSet(S), NEW R \in SUBSET S, NEW f, NEW h,
           \A x \in R : f[x] = h[x],
           NEW iter, SumsTo(iter, f, S), NEW other, SumsTo(other, h, R)
    PROVE  iter[R] = other[R]
<1> DEFINE I == {T \in SUBSET R : iter[T] = other[T]}
           pick == [T \in SUBSET R |-> CHOOSE x \in T : TRUE]
<1>1. {} \in I  BY DEF SumsTo
<1>2. \A T \in SUBSET R : T # {} => pick[T] \in T
  OBVIOUS
<1>3. \A T \in SUBSET R : T # {} /\ T \ {pick[T]} \in I => T \in I
  <2> SUFFICES ASSUME NEW T \in SUBSET R, T # {}, T \ {pick[T]} \in I
               PROVE  iter[T] = other[T]
    OBVIOUS
  <2>1. pick[T] = (CHOOSE x \in T : TRUE) /\ pick[T] \in R  BY <1>2
  <2>2. T \in SUBSET S
    OBVIOUS
  <2>3. iter[T] = f[pick[T]] + iter[T \ {pick[T]}]
    <3> HIDE DEF pick
    <3> QED BY <2>1, <2>2 DEF SumsTo
  <2>4. other[T] = h[pick[T]] + other[T \ {pick[T]}]  BY <2>1 DEF SumsTo
  <2> QED BY <2>1, <2>3, <2>4
<1>4. IsFiniteSet(R)  BY FS_Subset
<1>5. \A T \in SUBSET R : T \in I
  <2> HIDE DEF I, pick
  <2> QED BY <1>1, <1>2, <1>3, <1>4, PickInduction
<1> QED BY <1>5

\* A sum over any part of S is the value of one function.
LEMMA SumIsValue ==
    ASSUME NEW S, IsFiniteSet(S), NEW f, \A x \in S : f[x] \in Int,
           NEW R \in SUBSET S, NEW iter, SumsTo(iter, f, S)
    PROVE  SumFunctionOnSet(f, R) = iter[R]
<1>1. IsFiniteSet(R) /\ \A x \in R : f[x] \in Int  BY FS_Subset
<1>2. \E other : SumsTo(other, f, R)  BY <1>1, SumRecursion
<1> DEFINE other == CHOOSE k : SumsTo(k, f, R)
<1>3. SumsTo(other, f, R)  BY <1>2
<1>4. SumFunctionOnSet(f, R) = other[R]  BY SumUnfolds
<1> HIDE DEF other
<1>5. iter[R] = other[R]  BY <1>3, SumUnique
<1> QED BY <1>4, <1>5

\* A sum is a number, and any of its terms can be taken out.
LEMMA SumSplits ==
    ASSUME NEW S, IsFiniteSet(S), NEW f, \A x \in S : f[x] \in Int
    PROVE  /\ SumFunctionOnSet(f, S) \in Int
           /\ \A x \in S :
                SumFunctionOnSet(f, S) = f[x] + SumFunctionOnSet(f, S \ {x})
<1>1. PICK iter \in [SUBSET S -> Int] : SumsTo(iter, f, S)  BY SumRecursion
<1>2. \A R \in SUBSET S : SumFunctionOnSet(f, R) = iter[R]  BY <1>1, SumIsValue
<1>3. /\ iter[S] \in Int
      /\ \A x \in S : iter[S] = f[x] + iter[S \ {x}]
  BY <1>1, SumTakes
<1> QED BY <1>2, <1>3

LEMMA SumOfNone == \A f : SumFunctionOnSet(f, {}) = 0
<1> TAKE f
<1>1. IsFiniteSet({}) /\ \A x \in {} : f[x] \in Int  BY FS_EmptySet
<1>2. PICK iter : SumsTo(iter, f, {})  BY <1>1, SumRecursion
<1>3. SumFunctionOnSet(f, {}) = iter[{}]  BY <1>1, <1>2, SumIsValue
<1> QED BY <1>2, <1>3 DEF SumsTo

\* One more element adds its term.
LEMMA SumAdds ==
    ASSUME NEW S, IsFiniteSet(S), NEW x, x \notin S,
           NEW f, \A y \in S \cup {x} : f[y] \in Int
    PROVE  SumFunctionOnSet(f, S \cup {x}) = f[x] + SumFunctionOnSet(f, S)
<1>1. IsFiniteSet(S \cup {x})  BY FS_AddElement
<1>2. SumFunctionOnSet(f, S \cup {x})
        = f[x] + SumFunctionOnSet(f, (S \cup {x}) \ {x})
  BY <1>1, SumSplits
<1>3. (S \cup {x}) \ {x} = S
  OBVIOUS
<1> QED BY <1>2, <1>3

\* Only the terms matter.
LEMMA SumAgrees ==
    ASSUME NEW S, IsFiniteSet(S), NEW f, NEW h,
           \A x \in S : f[x] \in Int /\ h[x] = f[x]
    PROVE  SumFunctionOnSet(h, S) = SumFunctionOnSet(f, S)
<1>1. PICK iter : SumsTo(iter, f, S)  BY SumRecursion
<1>2. PICK other : SumsTo(other, h, S)  BY SumRecursion
<1>3. SumFunctionOnSet(f, S) = iter[S] /\ SumFunctionOnSet(h, S) = other[S]
  BY <1>1, <1>2, SumIsValue
<1>4. iter[S] = other[S]  BY <1>1, <1>2, SumUnique
<1> QED BY <1>3, <1>4

\* A sum in which one term changed.
LEMMA SumChanges ==
    ASSUME NEW S, IsFiniteSet(S), NEW f, NEW h, NEW x \in S, h[x] \in Int,
           \A y \in S : f[y] \in Int, \A y \in S \ {x} : h[y] = f[y]
    PROVE  SumFunctionOnSet(h, S) = SumFunctionOnSet(f, S) - f[x] + h[x]
<1>1. IsFiniteSet(S \ {x})  BY FS_Subset
<1>2. \A y \in S : h[y] \in Int
  OBVIOUS
<1>3. SumFunctionOnSet(h, S) = h[x] + SumFunctionOnSet(h, S \ {x})  BY <1>2, SumSplits
<1>4. SumFunctionOnSet(f, S) = f[x] + SumFunctionOnSet(f, S \ {x})  BY SumSplits
<1>5. SumFunctionOnSet(h, S \ {x}) = SumFunctionOnSet(f, S \ {x})  BY <1>1, SumAgrees
<1>6. SumFunctionOnSet(f, S \ {x}) \in Int  BY <1>1, SumSplits
<1> QED BY <1>3, <1>4, <1>5, <1>6

\* A sum of natural numbers is one, and no part of it exceeds it.
LEMMA SumGrows ==
    ASSUME NEW S, IsFiniteSet(S), NEW f, \A x \in S : f[x] \in Nat
    PROVE  \A T \in SUBSET S :
             /\ SumFunctionOnSet(f, T) \in Nat
             /\ SumFunctionOnSet(f, S \ T) + SumFunctionOnSet(f, T)
                  = SumFunctionOnSet(f, S)
<1> DEFINE Sum(T) == SumFunctionOnSet(f, T)
           I == {T \in SUBSET S : /\ Sum(T) \in Nat
                                  /\ Sum(S \ T) + Sum(T) = Sum(S)}
           pick == [T \in SUBSET S |-> CHOOSE x \in T : TRUE]
<1>1. \A T \in SUBSET S :
        /\ IsFiniteSet(T) /\ Sum(T) \in Int
        /\ \A x \in T : f[x] \in Nat /\ Sum(T) = f[x] + Sum(T \ {x})
  <2> TAKE T \in SUBSET S
  <2>1. IsFiniteSet(T) /\ \A x \in T : f[x] \in Int  BY FS_Subset
  <2> QED BY <2>1, SumSplits
<1>2. {} \in I
  <2>1. S \ {} = S /\ Sum({}) = 0  BY SumOfNone
  <2>2. Sum(S) \in Int  BY <1>1
  <2> QED BY <2>1, <2>2
<1>3. \A T \in SUBSET S : T # {} => pick[T] \in T
  OBVIOUS
<1>4. \A T \in SUBSET S : T # {} /\ T \ {pick[T]} \in I => T \in I
  <2> SUFFICES ASSUME NEW T \in SUBSET S, T # {}, T \ {pick[T]} \in I
               PROVE  T \in I
    OBVIOUS
  <2>1. pick[T] \in T  BY <1>3
  <2> HIDE DEF pick
  <2>2. f[pick[T]] \in Nat /\ Sum(T) = f[pick[T]] + Sum(T \ {pick[T]})  BY <2>1, <1>1
  <2>3. (S \ (T \ {pick[T]})) \ {pick[T]} = S \ T  BY <2>1
  <2>4. Sum(S \ (T \ {pick[T]})) = f[pick[T]] + Sum(S \ T)  BY <2>1, <2>3, <1>1
  <2>5. Sum(S \ T) \in Int  BY <1>1
  <2>6. /\ Sum(T \ {pick[T]}) \in Nat
        /\ Sum(S \ (T \ {pick[T]})) + Sum(T \ {pick[T]}) = Sum(S)
    OBVIOUS
  <2> HIDE DEF Sum
  <2> QED BY <2>2, <2>4, <2>5, <2>6
<1>5. \A T \in SUBSET S : T \in I
  <2> HIDE DEF I, pick
  <2> QED BY <1>2, <1>3, <1>4, PickInduction
<1> QED BY <1>5

LEMMA SumOfZeros ==
    ASSUME NEW S, IsFiniteSet(S), NEW f, \A x \in S : f[x] = 0
    PROVE  SumFunctionOnSet(f, S) = 0
<1> DEFINE Sum(T) == SumFunctionOnSet(f, T)
           I == {T \in SUBSET S : Sum(T) = 0}
           pick == [T \in SUBSET S |-> CHOOSE x \in T : TRUE]
<1>1. {} \in I  BY SumOfNone
<1>2. \A T \in SUBSET S : T # {} => pick[T] \in T
  OBVIOUS
<1>3. \A T \in SUBSET S : T # {} /\ T \ {pick[T]} \in I => T \in I
  <2> SUFFICES ASSUME NEW T \in SUBSET S, T # {}, T \ {pick[T]} \in I
               PROVE  T \in I
    OBVIOUS
  <2>1. pick[T] \in T /\ Sum(T \ {pick[T]}) = 0  BY <1>2
  <2> HIDE DEF pick
  <2>2. IsFiniteSet(T) /\ (\A x \in T : f[x] \in Int) /\ f[pick[T]] = 0
    BY <2>1, FS_Subset
  <2>3. Sum(T) = f[pick[T]] + Sum(T \ {pick[T]})  BY <2>1, <2>2, SumSplits
  <2>4. Sum(T) = 0  BY <2>1, <2>2, <2>3
  <2> QED BY <2>4
<1>4. \A T \in SUBSET S : T \in I
  <2> HIDE DEF I, pick
  <2> QED BY <1>1, <1>2, <1>3, PickInduction
<1> QED BY <1>4
=============================================================================
