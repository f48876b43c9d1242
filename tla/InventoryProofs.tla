-------------------------- MODULE InventoryProofs ---------------------------
(* What Inventory promises, for every grid, catalogue and set of rewards.     *)
(*                                                                           *)
(* InventoryInv ties three things together: the rows of the bags (typed, in  *)
(* the grid, one weapon in a hand), the rows on the ground, and the history  *)
(* kept about both.  The history is what a property of the stock alone       *)
(* misses: Matches says that the last event of every row names its count,    *)
(* Aged that the history never runs ahead of a revision, Balanced that what  *)
(* was minted is held, on the ground or burned.                              *)
(*                                                                           *)
(* A grant is a fold over the stacks of a bag.  Grants(n, v, c, d, m) is the *)
(* set of states its transaction may pass through: n - left of v have been   *)
(* placed, and the books are short of exactly that when the goods come from  *)
(* a drop.  Every step of the fold stays in the set, so its result does too. *)
EXTENDS Inventory, Induction

-----------------------------------------------------------------------------
(* Tables: rows by id.                                                       *)

Tables(K, R) == UNION {[T -> R] : T \in SUBSET K}

LEMMA TableRows ==
    ASSUME NEW K, NEW R, NEW t \in Tables(K, R)
    PROVE  /\ DOMAIN t \subseteq K /\ t = [x \in DOMAIN t |-> t[x]]
           /\ \A x \in DOMAIN t : t[x] \in R
  BY DEF Tables

LEMMA WithDomain ==
    ASSUME NEW t, NEW id, NEW row
    PROVE  DOMAIN With(t, id, row) = DOMAIN t \cup {id}
  BY DEF With

LEMMA WithRow ==
    ASSUME NEW t, NEW id, NEW row
    PROVE  With(t, id, row)[id] = row
  BY DEF With

LEMMA WithOthers ==
    ASSUME NEW t, NEW id, NEW row, NEW x \in DOMAIN t \ {id}
    PROVE  With(t, id, row)[x] = t[x]
  BY DEF With

LEMMA TableWith ==
    ASSUME NEW K, NEW R, NEW t \in Tables(K, R), NEW id \in K, NEW row \in R
    PROVE  With(t, id, row) \in Tables(K, R)
<1>1. DOMAIN t \subseteq K /\ \A x \in DOMAIN t : t[x] \in R  BY TableRows
<1>2. With(t, id, row) \in [DOMAIN t \cup {id} -> R]  BY <1>1 DEF With
<1> QED BY <1>1, <1>2 DEF Tables

LEMMA TableWithout ==
    ASSUME NEW K, NEW R, NEW t \in Tables(K, R), NEW S
    PROVE  /\ Without(t, S) \in Tables(K, R)
           /\ DOMAIN Without(t, S) = DOMAIN t \ S
           /\ \A x \in DOMAIN t \ S : Without(t, S)[x] = t[x]
<1>1. DOMAIN t \subseteq K /\ \A x \in DOMAIN t : t[x] \in R  BY TableRows
<1>2. Without(t, S) = [x \in DOMAIN t \ S |-> t[x]]  BY DEF Without, Restrict
<1>3. Without(t, S) \in [DOMAIN t \ S -> R]  BY <1>1, <1>2
<1>4. Without(t, S) \in Tables(K, R)  BY <1>1, <1>3 DEF Tables
<1> QED BY <1>2, <1>4

\* A row of a table written over.
LEMMA TableExcept ==
    ASSUME NEW K, NEW R, NEW t \in Tables(K, R), NEW id \in DOMAIN t, NEW row \in R
    PROVE  /\ [t EXCEPT ![id] = row] \in Tables(K, R)
           /\ DOMAIN [t EXCEPT ![id] = row] = DOMAIN t
           /\ [t EXCEPT ![id] = row][id] = row
           /\ \A x \in DOMAIN t \ {id} : [t EXCEPT ![id] = row][x] = t[x]
<1>1. DOMAIN t \subseteq K /\ t \in [DOMAIN t -> R]  BY TableRows
<1>2. [t EXCEPT ![id] = row] \in [DOMAIN t -> R]  BY <1>1
<1>3. [t EXCEPT ![id] = row] \in Tables(K, R)  BY <1>1, <1>2 DEF Tables
<1> QED BY <1>1, <1>3

-----------------------------------------------------------------------------
(* The folds: each stays in the set that its steps stay in.                  *)

LEMMA FilledStays ==
    ASSUME NEW w, NEW S, IsFiniteSet(S), NEW cause, NEW drop,
           \A T \in SUBSET S : T # {} => Hindmost(w.items, T) \in T,
           NEW F, w \in F[{}],
           \A T \in SUBSET S : T # {} =>
             \A u \in F[T \ {Hindmost(w.items, T)}] :
               Topped(u, Hindmost(w.items, T), cause, drop) \in F[T]
    PROVE  Filled(w, S, cause, drop) \in F[S]
<1> DEFINE last(T) == Hindmost(w.items, T)
           pick == [T \in SUBSET S |-> last(T)]
           U == UNION {F[T] : T \in SUBSET S}
           D == [i \in S |-> [u \in U |-> Topped(u, i, cause, drop)]]
           Rec(g) == g = [T \in SUBSET S |-> IF T = {} THEN w
                            ELSE Topped(g[T \ {last(T)}], last(T), cause, drop)]
           iter == CHOOSE g : Rec(g)
<1>1. Filled(w, S, cause, drop) = iter[S]  BY DEF Filled, MapThenFoldSet
<1>2. \A T \in SUBSET S : T # {} => last(T) \in T /\ pick[T] = last(T)
  OBVIOUS
<1>3. ASSUME NEW T \in SUBSET S, T # {}, NEW u \in F[T \ {last(T)}]
      PROVE  /\ D[last(T)][u] = Topped(u, last(T), cause, drop)
             /\ D[last(T)][u] \in F[T]
  <2>1. last(T) \in S /\ T \ {last(T)} \in SUBSET S  BY <1>2, <1>3
  <2>2. u \in U  BY <1>3, <2>1
  <2>3. D[last(T)][u] = Topped(u, last(T), cause, drop)  BY <2>1, <2>2
  <2> QED BY <2>3, <1>3
<1>4. FoldsWithin(S, pick, F, w, D)
  <2>1. \A T \in SUBSET S :
          T # {} => \A u \in F[T \ {pick[T]}] : D[pick[T]][u] \in F[T]
    BY <1>2, <1>3
  <2> HIDE DEF pick, D
  <2> QED BY <1>2, <2>1, FoldWithinExists
<1>5. \E g : Rec(g)
  <2>1. PICK g : /\ g = [T \in SUBSET S |-> IF T = {} THEN w
                                            ELSE D[pick[T]][g[T \ {pick[T]}]]]
                 /\ \A T \in SUBSET S : g[T] \in F[T]
    BY <1>4 DEF FoldsWithin
  <2>2. ASSUME NEW T \in SUBSET S, T # {}
        PROVE  D[pick[T]][g[T \ {pick[T]}]]
                 = Topped(g[T \ {last(T)}], last(T), cause, drop)
    <3>1. T \ {last(T)} \in SUBSET S
      OBVIOUS
    <3>2. g[T \ {last(T)}] \in F[T \ {last(T)}]  BY <2>1, <3>1
    <3> QED BY <1>2, <1>3, <2>2, <3>2
  <2>3. Rec(g)
    <3> HIDE DEF D, pick, last
    <3> QED BY <2>1, <2>2
  <2> QED BY <2>3
<1>6. Rec(iter)  BY <1>5
<1>7. iter[{}] \in F[{}]  BY <1>6
<1>8. ASSUME NEW T \in SUBSET S, T # {}, iter[T \ {pick[T]}] \in F[T \ {pick[T]}]
      PROVE  iter[T] \in F[T]
  <2>1. iter[T] = Topped(iter[T \ {last(T)}], last(T), cause, drop)  BY <1>6, <1>8
  <2> HIDE DEF iter
  <2> QED BY <2>1, <1>2, <1>3, <1>8
<1>9. \A T \in SUBSET S : iter[T] \in F[T]
  <2>1. \A T \in SUBSET S : T # {} => pick[T] \in T  BY <1>2
  <2>2. \A T \in SUBSET S :
          T # {} /\ iter[T \ {pick[T]}] \in F[T \ {pick[T]}] => iter[T] \in F[T]
    BY <1>8
  <2> HIDE DEF iter, pick
  <2> QED BY <2>1, <2>2, <1>7, FoldStays
<1> QED BY <1>1, <1>9

LEMMA TakenAllStays ==
    ASSUME NEW n, NEW S, IsFiniteSet(S),
           \A T \in SUBSET S : T # {} => Hindmost(items, T) \in T,
           NEW F, Work(n) \in F[{}],
           \A T \in SUBSET S : T # {} =>
             \A u \in F[T \ {Hindmost(items, T)}] : Taken(u, Hindmost(items, T)) \in F[T]
    PROVE  TakenAll(n, S) \in F[S]
<1> DEFINE last(T) == Hindmost(items, T)
           pick == [T \in SUBSET S |-> last(T)]
           U == UNION {F[T] : T \in SUBSET S}
           D == [i \in S |-> [u \in U |-> Taken(u, i)]]
           Rec(g) == g = [T \in SUBSET S |-> IF T = {} THEN Work(n)
                            ELSE Taken(g[T \ {last(T)}], last(T))]
           iter == CHOOSE g : Rec(g)
<1>1. TakenAll(n, S) = iter[S]  BY DEF TakenAll, MapThenFoldSet
<1>2. \A T \in SUBSET S : T # {} => last(T) \in T /\ pick[T] = last(T)
  OBVIOUS
<1>3. ASSUME NEW T \in SUBSET S, T # {}, NEW u \in F[T \ {last(T)}]
      PROVE  /\ D[last(T)][u] = Taken(u, last(T))
             /\ D[last(T)][u] \in F[T]
  <2>1. last(T) \in S /\ T \ {last(T)} \in SUBSET S  BY <1>2, <1>3
  <2>2. u \in U  BY <1>3, <2>1
  <2>3. D[last(T)][u] = Taken(u, last(T))  BY <2>1, <2>2
  <2> QED BY <2>3, <1>3
<1>4. FoldsWithin(S, pick, F, Work(n), D)
  <2>1. \A T \in SUBSET S :
          T # {} => \A u \in F[T \ {pick[T]}] : D[pick[T]][u] \in F[T]
    BY <1>2, <1>3
  <2> HIDE DEF pick, D
  <2> QED BY <1>2, <2>1, FoldWithinExists
<1>5. \E g : Rec(g)
  <2>1. PICK g : /\ g = [T \in SUBSET S |-> IF T = {} THEN Work(n)
                                            ELSE D[pick[T]][g[T \ {pick[T]}]]]
                 /\ \A T \in SUBSET S : g[T] \in F[T]
    BY <1>4 DEF FoldsWithin
  <2>2. ASSUME NEW T \in SUBSET S, T # {}
        PROVE  D[pick[T]][g[T \ {pick[T]}]]
                 = Taken(g[T \ {last(T)}], last(T))
    <3>1. T \ {last(T)} \in SUBSET S
      OBVIOUS
    <3>2. g[T \ {last(T)}] \in F[T \ {last(T)}]  BY <2>1, <3>1
    <3> QED BY <1>2, <1>3, <2>2, <3>2
  <2>3. Rec(g)
    <3> HIDE DEF D, pick, last
    <3> QED BY <2>1, <2>2
  <2> QED BY <2>3
<1>6. Rec(iter)  BY <1>5
<1>7. iter[{}] \in F[{}]  BY <1>6
<1>8. ASSUME NEW T \in SUBSET S, T # {}, iter[T \ {pick[T]}] \in F[T \ {pick[T]}]
      PROVE  iter[T] \in F[T]
  <2>1. iter[T] = Taken(iter[T \ {last(T)}], last(T))  BY <1>6, <1>8
  <2> HIDE DEF iter
  <2> QED BY <2>1, <1>2, <1>3, <1>8
<1>9. \A T \in SUBSET S : iter[T] \in F[T]
  <2>1. \A T \in SUBSET S : T # {} => pick[T] \in T  BY <1>2
  <2>2. \A T \in SUBSET S :
          T # {} /\ iter[T \ {pick[T]}] \in F[T \ {pick[T]}] => iter[T] \in F[T]
    BY <1>8
  <2> HIDE DEF iter, pick
  <2> QED BY <2>1, <2>2, <1>7, FoldStays
<1> QED BY <1>1, <1>9

LEMMA SweptStays ==
    ASSUME NEW S, IsFiniteSet(S),
           NEW F, audit \in F[{}],
           \A T \in SUBSET S : \A d \in T : \A a \in F[T \ {d}] : Expired(a, d) \in F[T]
    PROVE  Swept(S) \in F[S]
<1> DEFINE last(T) == CHOOSE x \in T : TRUE
           pick == [T \in SUBSET S |-> last(T)]
           U == UNION {F[T] : T \in SUBSET S}
           D == [i \in S |-> [u \in U |-> Expired(u, i)]]
           Rec(g) == g = [T \in SUBSET S |-> IF T = {} THEN audit
                            ELSE Expired(g[T \ {last(T)}], last(T))]
           iter == CHOOSE g : Rec(g)
<1>1. Swept(S) = iter[S]  BY DEF Swept, FoldSet, MapThenFoldSet
<1>2. \A T \in SUBSET S : T # {} => last(T) \in T /\ pick[T] = last(T)
  OBVIOUS
<1>3. ASSUME NEW T \in SUBSET S, T # {}, NEW u \in F[T \ {last(T)}]
      PROVE  /\ D[last(T)][u] = Expired(u, last(T))
             /\ D[last(T)][u] \in F[T]
  <2>1. last(T) \in S /\ T \ {last(T)} \in SUBSET S  BY <1>2, <1>3
  <2>2. u \in U  BY <1>3, <2>1
  <2>3. D[last(T)][u] = Expired(u, last(T))  BY <2>1, <2>2
  <2> QED BY <2>3, <1>3
<1>4. FoldsWithin(S, pick, F, audit, D)
  <2>1. \A T \in SUBSET S :
          T # {} => \A u \in F[T \ {pick[T]}] : D[pick[T]][u] \in F[T]
    BY <1>2, <1>3
  <2> HIDE DEF pick, D
  <2> QED BY <1>2, <2>1, FoldWithinExists
<1>5. \E g : Rec(g)
  <2>1. PICK g : /\ g = [T \in SUBSET S |-> IF T = {} THEN audit
                                            ELSE D[pick[T]][g[T \ {pick[T]}]]]
                 /\ \A T \in SUBSET S : g[T] \in F[T]
    BY <1>4 DEF FoldsWithin
  <2>2. ASSUME NEW T \in SUBSET S, T # {}
        PROVE  D[pick[T]][g[T \ {pick[T]}]]
                 = Expired(g[T \ {last(T)}], last(T))
    <3>1. T \ {last(T)} \in SUBSET S
      OBVIOUS
    <3>2. g[T \ {last(T)}] \in F[T \ {last(T)}]  BY <2>1, <3>1
    <3>3. pick[T] = last(T)  BY <1>2, <2>2
    <3> HIDE DEF D, pick, last
    <3> QED BY <1>3, <2>2, <3>2, <3>3
  <2>3. Rec(g)
    <3> HIDE DEF D, pick, last
    <3> QED BY <2>1, <2>2
  <2> QED BY <2>3
<1>6. Rec(iter)  BY <1>5
<1>7. iter[{}] \in F[{}]  BY <1>6
<1>8. ASSUME NEW T \in SUBSET S, T # {}, iter[T \ {pick[T]}] \in F[T \ {pick[T]}]
      PROVE  iter[T] \in F[T]
  <2>1. iter[T] = Expired(iter[T \ {last(T)}], last(T))  BY <1>6, <1>8
  <2>2. pick[T] = last(T)  BY <1>2, <1>8
  <2> HIDE DEF iter, pick, last
  <2> QED BY <2>1, <2>2, <1>3, <1>8
<1>9. \A T \in SUBSET S : iter[T] \in F[T]
  <2>1. \A T \in SUBSET S : T # {} => pick[T] \in T  BY <1>2
  <2>2. \A T \in SUBSET S :
          T # {} /\ iter[T \ {pick[T]}] \in F[T \ {pick[T]}] => iter[T] \in F[T]
    BY <1>8
  <2> HIDE DEF iter, pick
  <2> QED BY <2>1, <2>2, <1>7, FoldStays
<1> QED BY <1>1, <1>9

LEMMA OpenedStays ==
    ASSUME NEW w, NEW p, NEW v, NEW cause, NEW drop, NEW S, S = 1..w.left, IsFiniteSet(S),
           NEW V, w \in V, \A u \in V : Inserted(u, p, v, cause, drop) \in V
    PROVE  Opened(w, p, v, cause, drop) \in V
<1> DEFINE F == [T \in SUBSET S |-> V]
<1> DEFINE last(T) == CHOOSE x \in T : TRUE
           pick == [T \in SUBSET S |-> last(T)]
           U == UNION {F[T] : T \in SUBSET S}
           D == [i \in S |-> [u \in U |-> Inserted(u, p, v, cause, drop)]]
           Rec(g) == g = [T \in SUBSET S |-> IF T = {} THEN w
                            ELSE Inserted(g[T \ {last(T)}], p, v, cause, drop)]
           iter == CHOOSE g : Rec(g)
<1>1. Opened(w, p, v, cause, drop) = iter[S]  BY DEF Opened, FoldSet, MapThenFoldSet
<1>2. \A T \in SUBSET S : T # {} => last(T) \in T /\ pick[T] = last(T)
  OBVIOUS
<1>3. ASSUME NEW T \in SUBSET S, T # {}, NEW u \in F[T \ {last(T)}]
      PROVE  /\ D[last(T)][u] = Inserted(u, p, v, cause, drop)
             /\ D[last(T)][u] \in F[T]
  <2>1. last(T) \in S /\ T \ {last(T)} \in SUBSET S  BY <1>2, <1>3
  <2>2. u \in U  BY <1>3, <2>1
  <2>3. D[last(T)][u] = Inserted(u, p, v, cause, drop)  BY <2>1, <2>2
  <2> QED BY <2>3, <1>3
<1>4. FoldsWithin(S, pick, F, w, D)
  <2>1. \A T \in SUBSET S :
          T # {} => \A u \in F[T \ {pick[T]}] : D[pick[T]][u] \in F[T]
    BY <1>2, <1>3
  <2> HIDE DEF pick, D
  <2> QED BY <1>2, <2>1, FoldWithinExists
<1>5. \E g : Rec(g)
  <2>1. PICK g : /\ g = [T \in SUBSET S |-> IF T = {} THEN w
                                            ELSE D[pick[T]][g[T \ {pick[T]}]]]
                 /\ \A T \in SUBSET S : g[T] \in F[T]
    BY <1>4 DEF FoldsWithin
  <2>2. ASSUME NEW T \in SUBSET S, T # {}
        PROVE  D[pick[T]][g[T \ {pick[T]}]]
                 = Inserted(g[T \ {last(T)}], p, v, cause, drop)
    <3>1. T \ {last(T)} \in SUBSET S
      OBVIOUS
    <3>2. g[T \ {last(T)}] \in F[T \ {last(T)}]  BY <2>1, <3>1
    <3>3. pick[T] = last(T)  BY <1>2, <2>2
    <3> HIDE DEF D, pick, last, F, U
    <3> QED BY <1>3, <2>2, <3>2, <3>3
  <2>3. Rec(g)
    <3> HIDE DEF D, pick, last
    <3> QED BY <2>1, <2>2
  <2> QED BY <2>3
<1>6. Rec(iter)  BY <1>5
<1>7. iter[{}] \in F[{}]
  <2>1. {} \in SUBSET S /\ F[{}] = V
    OBVIOUS
  <2> HIDE DEF F
  <2> QED BY <1>6, <2>1
<1>8. ASSUME NEW T \in SUBSET S, T # {}, iter[T \ {pick[T]}] \in F[T \ {pick[T]}]
      PROVE  iter[T] \in F[T]
  <2>1. iter[T] = Inserted(iter[T \ {last(T)}], p, v, cause, drop)  BY <1>6, <1>8
  <2>2. pick[T] = last(T)  BY <1>2, <1>8
  <2> HIDE DEF iter, pick, last
  <2> QED BY <2>1, <2>2, <1>3, <1>8
<1>9. \A T \in SUBSET S : iter[T] \in F[T]
  <2>1. \A T \in SUBSET S : T # {} => pick[T] \in T  BY <1>2
  <2>2. \A T \in SUBSET S :
          T # {} /\ iter[T \ {pick[T]}] \in F[T \ {pick[T]}] => iter[T] \in F[T]
    BY <1>8
  <2> HIDE DEF iter, pick
  <2> QED BY <2>1, <2>2, <1>7, FoldStays
<1> QED BY <1>1, <1>9

LEMMA OverflowStays ==
    ASSUME NEW w, NEW p, NEW v, NEW S, S = 1..w.left, IsFiniteSet(S),
           NEW V, Ground(w) \in V, \A u \in V : Grounded(u, p, v, "progression") \in V
    PROVE  Overflow(w, p, v) \in V
<1> DEFINE F == [T \in SUBSET S |-> V]
<1> DEFINE last(T) == CHOOSE x \in T : TRUE
           pick == [T \in SUBSET S |-> last(T)]
           U == UNION {F[T] : T \in SUBSET S}
           D == [i \in S |-> [u \in U |-> Grounded(u, p, v, "progression")]]
           Rec(g) == g = [T \in SUBSET S |-> IF T = {} THEN Ground(w)
                            ELSE Grounded(g[T \ {last(T)}], p, v, "progression")]
           iter == CHOOSE g : Rec(g)
<1>1. Overflow(w, p, v) = iter[S]  BY DEF Overflow, FoldSet, MapThenFoldSet
<1>2. \A T \in SUBSET S : T # {} => last(T) \in T /\ pick[T] = last(T)
  OBVIOUS
<1>3. ASSUME NEW T \in SUBSET S, T # {}, NEW u \in F[T \ {last(T)}]
      PROVE  /\ D[last(T)][u] = Grounded(u, p, v, "progression")
             /\ D[last(T)][u] \in F[T]
  <2>1. last(T) \in S /\ T \ {last(T)} \in SUBSET S  BY <1>2, <1>3
  <2>2. u \in U  BY <1>3, <2>1
  <2>3. D[last(T)][u] = Grounded(u, p, v, "progression")  BY <2>1, <2>2
  <2> QED BY <2>3, <1>3
<1>4. FoldsWithin(S, pick, F, Ground(w), D)
  <2>1. \A T \in SUBSET S :
          T # {} => \A u \in F[T \ {pick[T]}] : D[pick[T]][u] \in F[T]
    BY <1>2, <1>3
  <2> HIDE DEF pick, D
  <2> QED BY <1>2, <2>1, FoldWithinExists
<1>5. \E g : Rec(g)
  <2>1. PICK g : /\ g = [T \in SUBSET S |-> IF T = {} THEN Ground(w)
                                            ELSE D[pick[T]][g[T \ {pick[T]}]]]
                 /\ \A T \in SUBSET S : g[T] \in F[T]
    BY <1>4 DEF FoldsWithin
  <2>2. ASSUME NEW T \in SUBSET S, T # {}
        PROVE  D[pick[T]][g[T \ {pick[T]}]]
                 = Grounded(g[T \ {last(T)}], p, v, "progression")
    <3>1. T \ {last(T)} \in SUBSET S
      OBVIOUS
    <3>2. g[T \ {last(T)}] \in F[T \ {last(T)}]  BY <2>1, <3>1
    <3>3. pick[T] = last(T)  BY <1>2, <2>2
    <3> HIDE DEF D, pick, last
    <3> QED BY <1>3, <2>2, <3>2, <3>3
  <2>3. Rec(g)
    <3> HIDE DEF D, pick, last
    <3> QED BY <2>1, <2>2
  <2> QED BY <2>3
<1>6. Rec(iter)  BY <1>5
<1>7. iter[{}] \in F[{}]
  <2>1. {} \in SUBSET S /\ F[{}] = V
    OBVIOUS
  <2> HIDE DEF F
  <2> QED BY <1>6, <2>1
<1>8. ASSUME NEW T \in SUBSET S, T # {}, iter[T \ {pick[T]}] \in F[T \ {pick[T]}]
      PROVE  iter[T] \in F[T]
  <2>1. iter[T] = Grounded(iter[T \ {last(T)}], p, v, "progression")  BY <1>6, <1>8
  <2>2. pick[T] = last(T)  BY <1>2, <1>8
  <2> HIDE DEF iter, pick, last
  <2> QED BY <2>1, <2>2, <1>3, <1>8
<1>9. \A T \in SUBSET S : iter[T] \in F[T]
  <2>1. \A T \in SUBSET S : T # {} => pick[T] \in T  BY <1>2
  <2>2. \A T \in SUBSET S :
          T # {} /\ iter[T \ {pick[T]}] \in F[T \ {pick[T]}] => iter[T] \in F[T]
    BY <1>8
  <2> HIDE DEF iter, pick
  <2> QED BY <2>1, <2>2, <1>7, FoldStays
<1> QED BY <1>1, <1>9

-----------------------------------------------------------------------------
(* Stocks.                                                                   *)

Amount(row, x) == IF row.vnum = x THEN row.count ELSE 0

Counted(t) == IsFiniteSet(DOMAIN t) /\ \A i \in DOMAIN t : t[i].count \in Nat

SameGoods(t, s, S) ==
    \A i \in S : t[i].vnum = s[i].vnum /\ t[i].count = s[i].count

LEMMA StockIsSum ==
    ASSUME NEW t, NEW x
    PROVE  Stock(t, x) = SumFunctionOnSet([i \in DOMAIN t |-> Amount(t[i], x)], DOMAIN t)
  BY DEF Stock, Amount

LEMMA StockType ==
    ASSUME NEW t, Counted(t), NEW x
    PROVE  Stock(t, x) \in Int
<1> DEFINE f == [i \in DOMAIN t |-> Amount(t[i], x)]
<1>1. \A i \in DOMAIN t : f[i] \in Int  BY DEF Amount, Counted
<1>2. IsFiniteSet(DOMAIN t)  BY DEF Counted
<1>3. SumFunctionOnSet(f, DOMAIN t) \in Int
  <2> HIDE DEF f
  <2> QED BY <1>1, <1>2, SumSplits
<1> QED BY <1>3, StockIsSum

LEMMA StockOfNone ==
    ASSUME NEW t, DOMAIN t = {}, NEW x
    PROVE  Stock(t, x) = 0
<1>1. Stock(t, x) = SumFunctionOnSet([i \in DOMAIN t |-> Amount(t[i], x)], {})
  BY StockIsSum
<1> QED BY <1>1, SumOfNone

\* Rows that moved, or got a new revision, count for what they did.
LEMMA StockSame ==
    ASSUME NEW t, NEW s, Counted(t), DOMAIN s = DOMAIN t, SameGoods(t, s, DOMAIN t), NEW x
    PROVE  Stock(s, x) = Stock(t, x)
<1> DEFINE f == [i \in DOMAIN t |-> Amount(t[i], x)]
           h == [i \in DOMAIN s |-> Amount(s[i], x)]
<1>1. \A i \in DOMAIN t : f[i] \in Int /\ h[i] = f[i]  BY DEF Amount, Counted, SameGoods
<1>2. SumFunctionOnSet(h, DOMAIN t) = SumFunctionOnSet(f, DOMAIN t)
  <2>1. IsFiniteSet(DOMAIN t)  BY DEF Counted
  <2> HIDE DEF f, h
  <2> QED BY <1>1, <2>1, SumAgrees
<1> QED BY <1>2, StockIsSum

LEMMA StockChanges ==
    ASSUME NEW t, NEW s, Counted(t), Counted(s), DOMAIN s = DOMAIN t,
           NEW id \in DOMAIN t, SameGoods(t, s, DOMAIN t \ {id}), NEW x
    PROVE  Stock(s, x) = Stock(t, x) - Amount(t[id], x) + Amount(s[id], x)
<1> DEFINE f == [i \in DOMAIN t |-> Amount(t[i], x)]
           h == [i \in DOMAIN s |-> Amount(s[i], x)]
<1>1. /\ \A i \in DOMAIN t : f[i] \in Int
      /\ \A i \in DOMAIN t \ {id} : h[i] = f[i]
      /\ h[id] \in Int /\ h[id] = Amount(s[id], x) /\ f[id] = Amount(t[id], x)
  BY DEF Amount, Counted, SameGoods
<1>2. SumFunctionOnSet(h, DOMAIN t) = SumFunctionOnSet(f, DOMAIN t) - f[id] + h[id]
  <2>1. IsFiniteSet(DOMAIN t)  BY DEF Counted
  <2> HIDE DEF f, h
  <2> QED BY <1>1, <2>1, SumChanges
<1> QED BY <1>1, <1>2, StockIsSum

LEMMA StockAdds ==
    ASSUME NEW t, NEW s, Counted(t), Counted(s), NEW id, id \notin DOMAIN t,
           DOMAIN s = DOMAIN t \cup {id}, SameGoods(t, s, DOMAIN t), NEW x
    PROVE  Stock(s, x) = Stock(t, x) + Amount(s[id], x)
<1> DEFINE f == [i \in DOMAIN t |-> Amount(t[i], x)]
           h == [i \in DOMAIN s |-> Amount(s[i], x)]
<1>1. /\ \A i \in DOMAIN t : f[i] \in Int /\ h[i] = f[i]
      /\ \A i \in DOMAIN t \cup {id} : h[i] \in Int
      /\ h[id] = Amount(s[id], x) /\ h[id] \in Int
  BY DEF Amount, Counted, SameGoods
<1>2. /\ SumFunctionOnSet(h, DOMAIN t \cup {id}) = h[id] + SumFunctionOnSet(h, DOMAIN t)
      /\ SumFunctionOnSet(h, DOMAIN t) = SumFunctionOnSet(f, DOMAIN t)
      /\ SumFunctionOnSet(f, DOMAIN t) \in Int
  <2>1. IsFiniteSet(DOMAIN t)  BY DEF Counted
  <2> HIDE DEF f, h
  <2> QED BY <1>1, <2>1, SumAdds, SumAgrees, SumSplits
<1>3. /\ Stock(s, x) = SumFunctionOnSet(h, DOMAIN t \cup {id})
      /\ Stock(t, x) = SumFunctionOnSet(f, DOMAIN t)
  BY StockIsSum
<1> HIDE DEF f, h
<1> QED BY <1>1, <1>2, <1>3

-----------------------------------------------------------------------------
(* The history: what one event does.                                         *)

Causes == {"starter", "progression", "monster", "quest", "consume", "expiry", "pickup"}

Events ==
    [item : Nat, drop : Nat, vnum : Vnum, before : Nat, after : Nat, revision : Nat,
     cause : Causes]

Entities == {"inventory", "drops"} \X Nat
Traces == [count : Nat, revision : Nat]

Audits ==
    [last : Tables(Entities, Traces), minted : [Vnum -> Nat], burned : [Vnum -> Nat],
     balance : [0..MaxDrop -> Int], sound : BOOLEAN, quests : BOOLEAN]

LEMMA AuditFields ==
    ASSUME NEW a \in Audits
    PROVE  /\ a.last \in Tables(Entities, Traces) /\ a.minted \in [Vnum -> Nat]
           /\ a.burned \in [Vnum -> Nat] /\ a.balance \in [0..MaxDrop -> Int]
           /\ a.sound \in BOOLEAN /\ a.quests \in BOOLEAN
  BY DEF Audits

LEMMA EventFields ==
    ASSUME NEW e \in Events
    PROVE  /\ e.item \in Nat /\ e.drop \in Nat /\ e.vnum \in Vnum /\ e.before \in Nat
           /\ e.after \in Nat /\ e.revision \in Nat /\ e.cause \in Causes
           /\ Gain(e) \in Nat /\ Loss(e) \in Nat /\ Owed(e) \in Int
           /\ Entity(e) \in Entities
<1>1. /\ e.item \in Nat /\ e.drop \in Nat /\ e.vnum \in Vnum /\ e.before \in Nat
      /\ e.after \in Nat /\ e.revision \in Nat /\ e.cause \in Causes
  BY DEF Events
<1>2. Gain(e) \in Nat /\ Loss(e) \in Nat /\ Owed(e) \in Int
  BY <1>1 DEF Gain, Loss, Owed
<1>3. Entity(e) \in Entities  BY <1>1 DEF Entity, Entities
<1> QED BY <1>1, <1>2, <1>3

LEMMA RaisedIs ==
    ASSUME NEW S, NEW f \in [S -> Nat], NEW x, NEW k \in Nat
    PROVE  /\ [f EXCEPT ![x] = @ + k] \in [S -> Nat]
           /\ \A y \in S : [f EXCEPT ![x] = @ + k][y] = f[y] + IF y = x THEN k ELSE 0
<1>1. \A y \in S : f[y] \in Nat /\ f[y] + k \in Nat /\ f[y] + 0 = f[y]
  <2>1. \A m \in Nat, n \in Nat : m + n \in Nat /\ m + 0 = m
    OBVIOUS
  <2> QED BY <2>1
<1>2. [f EXCEPT ![x] = @ + k] = [y \in S |-> IF y = x THEN f[x] + k ELSE f[y]]
  OBVIOUS
<1> QED BY <1>1, <1>2

LEMMA RaisedIntIs ==
    ASSUME NEW S, NEW f \in [S -> Int], NEW x, NEW k \in Int
    PROVE  /\ [f EXCEPT ![x] = @ + k] \in [S -> Int]
           /\ \A y \in S : [f EXCEPT ![x] = @ + k][y] = f[y] + IF y = x THEN k ELSE 0
<1>1. \A y \in S : f[y] \in Int /\ f[y] + k \in Int /\ f[y] + 0 = f[y]
  <2>1. \A m \in Int, n \in Int : m + n \in Int /\ m + 0 = m
    OBVIOUS
  <2> QED BY <2>1
<1>2. [f EXCEPT ![x] = @ + k] = [y \in S |-> IF y = x THEN f[x] + k ELSE f[y]]
  OBVIOUS
<1> QED BY <1>1, <1>2

\* The table of the last events after one more, and the three sums.
LEMMA RecordedIs ==
    ASSUME NEW a \in Audits, NEW e \in Events
    PROVE  /\ Recorded(a, e) \in Audits
           /\ Recorded(a, e).last
                = With(a.last, Entity(e), [count |-> e.after, revision |-> e.revision])
           /\ \A x \in Vnum : Recorded(a, e).minted[x]
                = a.minted[x] + IF x = e.vnum THEN Gain(e) ELSE 0
           /\ \A x \in Vnum : Recorded(a, e).burned[x]
                = a.burned[x] + IF x = e.vnum THEN Loss(e) ELSE 0
           /\ \A d \in 0..MaxDrop : Recorded(a, e).balance[d]
                = a.balance[d] + IF d = e.drop THEN Owed(e) ELSE 0
           /\ Recorded(a, e).sound <=> a.sound /\ Continues(a, e) /\ CauseFits(a, e)
           /\ Recorded(a, e).quests <=> a.quests \/ e.cause = "quest"
<1> DEFINE r == Recorded(a, e)
           trace == [count |-> e.after, revision |-> e.revision]
<1>1. /\ a.last \in Tables(Entities, Traces) /\ a.minted \in [Vnum -> Nat]
      /\ a.burned \in [Vnum -> Nat] /\ a.balance \in [0..MaxDrop -> Int]
      /\ a.sound \in BOOLEAN /\ a.quests \in BOOLEAN
  BY AuditFields
<1>2. /\ e.item \in Nat /\ e.drop \in Nat /\ e.vnum \in Vnum /\ e.before \in Nat
      /\ e.after \in Nat /\ e.revision \in Nat /\ e.cause \in Causes
      /\ Gain(e) \in Nat /\ Loss(e) \in Nat /\ Owed(e) \in Int
      /\ Entity(e) \in Entities
  BY EventFields
<1>3. trace \in Traces  BY <1>2 DEF Traces
<1>4. With(a.last, Entity(e), trace) \in Tables(Entities, Traces)
  BY <1>1, <1>2, <1>3, TableWith
<1>5. /\ r.last = With(a.last, Entity(e), trace)
      /\ r.minted = [a.minted EXCEPT ![e.vnum] = @ + Gain(e)]
      /\ r.burned = [a.burned EXCEPT ![e.vnum] = @ + Loss(e)]
      /\ r.balance = [a.balance EXCEPT ![e.drop] = @ + Owed(e)]
      /\ r.sound = (a.sound /\ Continues(a, e) /\ CauseFits(a, e))
      /\ r.quests = (a.quests \/ e.cause = "quest")
  BY DEF Recorded
<1>6. /\ r.minted \in [Vnum -> Nat]
      /\ \A x \in Vnum : r.minted[x] = a.minted[x] + IF x = e.vnum THEN Gain(e) ELSE 0
  <2>1. /\ [a.minted EXCEPT ![e.vnum] = @ + Gain(e)] \in [Vnum -> Nat]
        /\ \A x \in Vnum : [a.minted EXCEPT ![e.vnum] = @ + Gain(e)][x]
              = a.minted[x] + IF x = e.vnum THEN Gain(e) ELSE 0
    BY <1>1, <1>2, RaisedIs
  <2> HIDE DEF r
  <2> QED BY <2>1, <1>5, Zenon
<1>7. /\ r.balance \in [0..MaxDrop -> Int]
      /\ \A d \in 0..MaxDrop :
           r.balance[d] = a.balance[d] + IF d = e.drop THEN Owed(e) ELSE 0
  <2>1. /\ [a.balance EXCEPT ![e.drop] = @ + Owed(e)] \in [0..MaxDrop -> Int]
        /\ \A x \in 0..MaxDrop : [a.balance EXCEPT ![e.drop] = @ + Owed(e)][x]
              = a.balance[x] + IF x = e.drop THEN Owed(e) ELSE 0
    <3> DEFINE S == 0..MaxDrop
               k == Owed(e)
    <3>1. a.balance \in [S -> Int] /\ k \in Int  BY <1>1, <1>2
    <3>2. /\ [a.balance EXCEPT ![e.drop] = @ + k] \in [S -> Int]
          /\ \A x \in S : [a.balance EXCEPT ![e.drop] = @ + k][x]
              = a.balance[x] + IF x = e.drop THEN k ELSE 0
      <4> HIDE DEF S, k
      <4> QED BY <3>1, RaisedIntIs
    <3> QED BY <3>2
  <2> HIDE DEF r
  <2> QED BY <2>1, <1>5, Zenon
<1>8. /\ r.burned \in [Vnum -> Nat]
      /\ \A x \in Vnum : r.burned[x] = a.burned[x] + IF x = e.vnum THEN Loss(e) ELSE 0
  <2>1. /\ [a.burned EXCEPT ![e.vnum] = @ + Loss(e)] \in [Vnum -> Nat]
        /\ \A x \in Vnum : [a.burned EXCEPT ![e.vnum] = @ + Loss(e)][x]
              = a.burned[x] + IF x = e.vnum THEN Loss(e) ELSE 0
    BY <1>1, <1>2, RaisedIs
  <2> HIDE DEF r
  <2> QED BY <2>1, <1>5, Zenon
<1>10. r.sound \in BOOLEAN /\ r.quests \in BOOLEAN
  <2> HIDE DEF r
  <2> QED BY <1>5
<1>11. r \in Audits
  <2>1. r = [last |-> r.last, minted |-> r.minted, burned |-> r.burned,
             balance |-> r.balance, sound |-> r.sound, quests |-> r.quests]
    BY DEF Recorded
  <2>2. r.last \in Tables(Entities, Traces)  BY <1>4, <1>5
  <2> HIDE DEF r
  <2> QED BY <2>1, <2>2, <1>6, <1>7, <1>8, <1>10 DEF Audits
<1>12. r.sound <=> a.sound /\ Continues(a, e) /\ CauseFits(a, e)  BY <1>1, <1>5, Zenon
<1>13. r.quests <=> a.quests \/ e.cause = "quest"  BY <1>1, <1>5, Zenon
<1>14. r.last = With(a.last, Entity(e), trace)  BY <1>5
<1> QED BY <1>6, <1>7, <1>8, <1>11, <1>12, <1>13, <1>14, Zenon

-----------------------------------------------------------------------------
(* The last events of a kind of entity and the rows there are.               *)

Matches(last, kind, table, next) ==
    /\ \A i \in Nat : <<kind, i>> \in DOMAIN last =>
           i \in 1..(next - 1) /\ (i \notin DOMAIN table => last[<<kind, i>>].count = 0)
    /\ \A i \in DOMAIN table :
           <<kind, i>> \in DOMAIN last /\ last[<<kind, i>>].count = table[i].count

LEMMA EntityPairs ==
    ASSUME NEW kind \in {"inventory", "drops"}, NEW id \in Nat
    PROVE  /\ <<kind, id>> \in Entities
           /\ \A k \in {"inventory", "drops"}, i \in Nat :
                <<kind, id>> = <<k, i>> <=> kind = k /\ id = i
  BY DEF Entities

\* An event of one row, written with what it makes of the row.
LEMMA MatchesAfter ==
    ASSUME NEW last \in Tables(Entities, Traces), NEW trace \in Traces,
           NEW kind \in {"inventory", "drops"}, NEW id \in Nat \ {0},
           NEW table, NEW after, DOMAIN table \subseteq Nat, DOMAIN after \subseteq Nat,
           NEW next \in Nat, NEW later \in Nat, next <= later, id < later,
           Matches(last, kind, table, next),
           DOMAIN after \ {id} = DOMAIN table \ {id},
           \A i \in DOMAIN table \ {id} : after[i].count = table[i].count,
           id \in DOMAIN after => after[id].count = trace.count,
           id \notin DOMAIN after => trace.count = 0
    PROVE  Matches(With(last, <<kind, id>>, trace), kind, after, later)
<1> DEFINE e == <<kind, id>>
           l == With(last, e, trace)
<1>1. e \in Entities /\ \A i \in Nat : <<kind, i>> = e <=> i = id  BY EntityPairs
<1>2. /\ DOMAIN l = DOMAIN last \cup {e} /\ l[e] = trace
      /\ \A x \in DOMAIN last \ {e} : l[x] = last[x]
  <2>1. DOMAIN l = DOMAIN last \cup {e}  BY WithDomain
  <2>2. l[e] = trace  BY WithRow
  <2>3. \A x \in DOMAIN last \ {e} : l[x] = last[x]  BY WithOthers
  <2> HIDE DEF l, e
  <2> QED BY <2>1, <2>2, <2>3
<1>3. ASSUME NEW i \in Nat, <<kind, i>> \in DOMAIN l
      PROVE  i \in 1..(later - 1) /\ (i \notin DOMAIN after => l[<<kind, i>>].count = 0)
  <2>1. CASE i = id  BY <2>1, <1>2
  <2>2. CASE i # id
    <3>1. <<kind, i>> \in DOMAIN last /\ l[<<kind, i>>] = last[<<kind, i>>]
      BY <2>2, <1>1, <1>2, <1>3
    <3>2. i \in 1..(next - 1) /\ (i \notin DOMAIN table => last[<<kind, i>>].count = 0)
      BY <3>1 DEF Matches
    <3> HIDE DEF l, e
    <3> QED BY <2>2, <3>1, <3>2
  <2> QED BY <2>1, <2>2
<1>4. ASSUME NEW i \in DOMAIN after
      PROVE  <<kind, i>> \in DOMAIN l /\ l[<<kind, i>>].count = after[i].count
  <2>1. CASE i = id
    <3> HIDE DEF l
    <3> QED BY <2>1, <1>2
  <2>2. CASE i # id
    <3>1. i \in Nat /\ i \in DOMAIN table /\ after[i].count = table[i].count  BY <2>2
    <3>2. <<kind, i>> \in DOMAIN last /\ last[<<kind, i>>].count = table[i].count
      BY <3>1 DEF Matches
    <3>3. <<kind, i>> # e  BY <2>2, <3>1, <1>1
    <3> HIDE DEF l, e
    <3> QED BY <3>1, <3>2, <3>3, <1>2
  <2> QED BY <2>1, <2>2
<1>5. Matches(l, kind, after, later)
  <2> HIDE DEF l
  <2> QED BY <1>3, <1>4 DEF Matches
<1> QED BY <1>5

\* An event of the other kind.
LEMMA MatchesBeside ==
    ASSUME NEW last \in Tables(Entities, Traces), NEW trace \in Traces,
           NEW kind \in {"inventory", "drops"}, NEW other \in {"inventory", "drops"},
           kind # other, NEW id \in Nat,
           NEW table, DOMAIN table \subseteq Nat, NEW next,
           Matches(last, kind, table, next)
    PROVE  Matches(With(last, <<other, id>>, trace), kind, table, next)
<1> DEFINE e == <<other, id>>
           l == With(last, e, trace)
<1>1. e \in Entities /\ \A i \in Nat : <<kind, i>> # e  BY EntityPairs
<1>2. /\ DOMAIN l = DOMAIN last \cup {e}
      /\ \A x \in DOMAIN last \ {e} : l[x] = last[x]
  <2>1. DOMAIN l = DOMAIN last \cup {e}  BY WithDomain
  <2>2. l[e] = trace  BY WithRow
  <2>3. \A x \in DOMAIN last \ {e} : l[x] = last[x]  BY WithOthers
  <2> HIDE DEF l, e
  <2> QED BY <2>1, <2>2, <2>3
<1>3. \A i \in Nat : /\ <<kind, i>> \in DOMAIN l <=> <<kind, i>> \in DOMAIN last
                     /\ <<kind, i>> \in DOMAIN last => l[<<kind, i>>] = last[<<kind, i>>]
  <2> HIDE DEF l, e
  <2> QED BY <1>1, <1>2
<1>4. Matches(l, kind, table, next)
  <2> HIDE DEF l
  <2> QED BY <1>3 DEF Matches
<1> QED BY <1>4

-----------------------------------------------------------------------------
(* The books: what ties the history to the stock.  k of the goods v are on   *)
(* their way from the ground into a bag.                                     *)

AnyRow ==
    [owner : Character, vnum : Vnum, count : Nat, revision : Nat \ {0},
     cell : Cells \cup {EquippedCell}, equipped : BOOLEAN]

Ids == Nat \ {0}
Bags == Tables(Ids, AnyRow)
Grounds == Tables(Ids, GroundRow)

Aged(last, its) == \A i \in DOMAIN its : last[<<"inventory", i>>].revision <= its[i].revision

Balanced(its, ds, a, v, k) ==
    \A x \in Vnum : a.minted[x] + (IF x = v THEN k ELSE 0)
                      = Stock(its, x) + Stock(ds, x) + a.burned[x]

Books(its, next, ds, dnext, a, v, k) ==
    ~a.quests =>
        /\ a.sound
        /\ Matches(a.last, "inventory", its, next) /\ Aged(a.last, its)
        /\ Matches(a.last, "drops", ds, dnext)
        /\ Balanced(its, ds, a, v, k)

LEMMA BagRows ==
    ASSUME NEW its \in Bags
    PROVE  /\ DOMAIN its \subseteq Nat \ {0}
           /\ its = [i \in DOMAIN its |-> its[i]]
           /\ \A i \in DOMAIN its :
                /\ its[i] \in AnyRow
                /\ its[i].owner \in Character /\ its[i].vnum \in Vnum /\ its[i].count \in Nat
                /\ its[i].revision \in Nat \ {0} /\ its[i].cell \in Cells \cup {EquippedCell}
                /\ its[i].equipped \in BOOLEAN
<1>1. /\ DOMAIN its \subseteq Nat \ {0} /\ its = [i \in DOMAIN its |-> its[i]]
      /\ \A i \in DOMAIN its : its[i] \in AnyRow
  BY TableRows DEF Bags, Ids
<1>2. \A row \in AnyRow :
        /\ row.owner \in Character /\ row.vnum \in Vnum /\ row.count \in Nat
        /\ row.revision \in Nat \ {0} /\ row.cell \in Cells \cup {EquippedCell}
        /\ row.equipped \in BOOLEAN
  BY DEF AnyRow
<1> QED BY <1>1, <1>2

LEMMA GroundRows ==
    ASSUME NEW ds \in Grounds
    PROVE  /\ DOMAIN ds \subseteq Nat \ {0}
           /\ \A d \in DOMAIN ds :
                /\ ds[d] \in GroundRow
                /\ ds[d].vnum \in Vnum /\ ds[d].count \in Nat \ {0}
<1>1. DOMAIN ds \subseteq Nat \ {0} /\ \A i \in DOMAIN ds : ds[i] \in GroundRow
  BY TableRows DEF Grounds, Ids
<1>2. \A row \in GroundRow : row.vnum \in Vnum /\ row.count \in Nat \ {0}
  BY DEF GroundRow
<1> QED BY <1>1, <1>2

LEMMA BagWith ==
    ASSUME NEW s \in Bags, NEW id \in Nat \ {0}, NEW row \in AnyRow
    PROVE  With(s, id, row) \in Bags
<1>1. s \in Tables(Ids, AnyRow) /\ id \in Ids  BY DEF Bags, Ids
<1> QED BY <1>1, TableWith DEF Bags

LEMMA BagExcept ==
    ASSUME NEW s \in Bags, NEW id \in DOMAIN s, NEW row \in AnyRow
    PROVE  /\ [s EXCEPT ![id] = row] \in Bags
           /\ DOMAIN [s EXCEPT ![id] = row] = DOMAIN s
           /\ [s EXCEPT ![id] = row][id] = row
           /\ \A x \in DOMAIN s \ {id} : [s EXCEPT ![id] = row][x] = s[x]
  BY TableExcept DEF Bags

LEMMA BagWithout ==
    ASSUME NEW s \in Bags, NEW S
    PROVE  /\ Without(s, S) \in Bags
           /\ DOMAIN Without(s, S) = DOMAIN s \ S
           /\ \A x \in DOMAIN s \ S : Without(s, S)[x] = s[x]
<1>1. s \in Tables(Ids, AnyRow)  BY DEF Bags
<1>2. /\ Without(s, S) \in Tables(Ids, AnyRow)
      /\ DOMAIN Without(s, S) = DOMAIN s \ S
      /\ \A x \in DOMAIN s \ S : Without(s, S)[x] = s[x]
  BY <1>1, TableWithout
<1> QED BY <1>2 DEF Bags

LEMMA GroundWithout ==
    ASSUME NEW s \in Grounds, NEW S
    PROVE  /\ Without(s, S) \in Grounds
           /\ DOMAIN Without(s, S) = DOMAIN s \ S
           /\ \A x \in DOMAIN s \ S : Without(s, S)[x] = s[x]
<1>1. s \in Tables(Ids, GroundRow)  BY DEF Grounds
<1>2. /\ Without(s, S) \in Tables(Ids, GroundRow)
      /\ DOMAIN Without(s, S) = DOMAIN s \ S
      /\ \A x \in DOMAIN s \ S : Without(s, S)[x] = s[x]
  BY <1>1, TableWithout
<1> QED BY <1>2 DEF Grounds

\* The ids of rows that there are lie below the next one, so they are finitely
\* many.
LEMMA BagIsCounted ==
    ASSUME NEW its \in Bags, NEW n \in Nat, DOMAIN its \subseteq 1..(n - 1)
    PROVE  Counted(its)
<1>1. IsFiniteSet(1..(n - 1))  BY FS_Interval
<1>2. IsFiniteSet(DOMAIN its)  BY <1>1, FS_Subset
<1> QED BY <1>2, BagRows DEF Counted

LEMMA GroundIsCounted ==
    ASSUME NEW ds \in Grounds, NEW n \in Nat, DOMAIN ds \subseteq 1..(n - 1)
    PROVE  Counted(ds)
<1>1. IsFiniteSet(1..(n - 1))  BY FS_Interval
<1>2. IsFiniteSet(DOMAIN ds)  BY <1>1, FS_Subset
<1> QED BY <1>2, GroundRows DEF Counted

-----------------------------------------------------------------------------
(* The grid.                                                                 *)

SameSpot(r, q) ==
    r.owner = q.owner /\ r.vnum = q.vnum /\ r.cell = q.cell /\ r.equipped = q.equipped

Apart(r, q) == Footprint(r.vnum, r.cell) \cap Footprint(q.vnum, q.cell) = {}

\* Items share no cell inside the pages; InventoryIsSound says it of items.
BagsAreSound(s) ==
    \A p \in Character : \A i, j \in Bag(s, p) :
        Fits(s[i].vnum, s[i].cell) /\ (i # j => Apart(s[i], s[j]))

HandsAreSound(s) ==
    \A i, j \in DOMAIN s :
        s[i].equipped => /\ s[i].vnum \in Weapon
                         /\ s[j].equipped /\ s[i].owner = s[j].owner => i = j

RowsAreSound(s) ==
    \A i \in DOMAIN s : /\ s[i].count \in 1..Limit[s[i].vnum]
                        /\ s[i].equipped <=> s[i].cell = EquippedCell

GridIsSound(s) == RowsAreSound(s) /\ BagsAreSound(s) /\ HandsAreSound(s)

LEMMA CellsAreNumbers ==
    /\ Cells \subseteq Nat /\ EquippedCell \notin Cells /\ PageCells \in Nat
    /\ EquippedCell \in Nat /\ \A c \in Cells : c <= EquippedCell
<1>1. PageCells \in Nat  BY InventoryAssumption DEF PageCells
<1>2. Pages * PageCells \in Nat /\ Pages * PageCells <= 255
  BY InventoryAssumption, <1>1 DEF PageCells, EquippedCell
<1>3. /\ Cells \subseteq Nat /\ EquippedCell \notin Cells
      /\ EquippedCell \in Nat /\ \A c \in Cells : c <= EquippedCell
  <2> DEFINE n == Pages * PageCells
  <2>1. n \in Nat /\ n <= 255  BY <1>2
  <2>2. Cells = 0..(n - 1)  BY DEF Cells
  <2> HIDE DEF n
  <2> QED BY <2>1, <2>2 DEF EquippedCell
<1> QED BY <1>1, <1>3

\* The row of a bag, one of them or a new one, comes to lie where can_place
\* lets it; the others stay.
LEMMA PlacingKeeps ==
    ASSUME NEW s \in Bags, NEW t \in Bags, GridIsSound(s),
           NEW id \in DOMAIN t, DOMAIN t = DOMAIN s \cup {id},
           \A i \in DOMAIN s \ {id} : t[i] = s[i],
           ~t[id].equipped, t[id].count \in 1..Limit[t[id].vnum],
           CanPlace(s, t[id].owner, t[id].vnum, t[id].cell, {id})
    PROVE  GridIsSound(t)
<1> DEFINE row == t[id]
<1>1. /\ row.owner \in Character /\ row.vnum \in Vnum /\ row.equipped = FALSE
      /\ Fits(row.vnum, row.cell) /\ row.cell \in Cells /\ row.cell # EquippedCell
  BY BagRows, CellsAreNumbers DEF CanPlace, Fits
<1>2. RowsAreSound(t)
  <2> SUFFICES ASSUME NEW i \in DOMAIN t
               PROVE  /\ t[i].count \in 1..Limit[t[i].vnum]
                      /\ t[i].equipped <=> t[i].cell = EquippedCell
    BY DEF RowsAreSound
  <2>1. CASE i = id  BY <2>1, <1>1
  <2>2. CASE i # id  BY <2>2 DEF GridIsSound, RowsAreSound
  <2> QED BY <2>1, <2>2
<1>3. HandsAreSound(t)
  <2> SUFFICES ASSUME NEW i \in DOMAIN t, NEW j \in DOMAIN t, t[i].equipped
               PROVE  /\ t[i].vnum \in Weapon
                      /\ t[j].equipped /\ t[i].owner = t[j].owner => i = j
    BY DEF HandsAreSound
  <2>1. i # id /\ i \in DOMAIN s /\ t[i] = s[i]  BY <1>1
  <2>2. CASE j = id  BY <2>1, <2>2, <1>1 DEF GridIsSound, HandsAreSound
  <2>3. CASE j # id  BY <2>1, <2>3 DEF GridIsSound, HandsAreSound
  <2> QED BY <2>2, <2>3
<1>4. ASSUME NEW p \in Character, NEW i \in Bag(t, p), i # id
      PROVE  i \in Bag(s, p) /\ t[i] = s[i]
  BY <1>4 DEF Bag, Owned
<1>5. ASSUME NEW p \in Character, NEW i \in Bag(t, p), i # id, id \in Bag(t, p)
      PROVE  Apart(t[i], row) /\ Apart(row, t[i])
  <2>1. p = row.owner  BY <1>5 DEF Bag, Owned
  <2>2. i \in Bag(s, row.owner) \ {id} /\ t[i] = s[i]  BY <2>1, <1>4, <1>5
  <2>3. Footprint(s[i].vnum, s[i].cell) \cap Footprint(row.vnum, row.cell) = {}
    BY <2>2 DEF CanPlace
  <2> QED BY <2>2, <2>3 DEF Apart
<1>6. BagsAreSound(t)
  <2> SUFFICES ASSUME NEW p \in Character, NEW i \in Bag(t, p), NEW j \in Bag(t, p)
               PROVE  Fits(t[i].vnum, t[i].cell) /\ (i # j => Apart(t[i], t[j]))
    BY DEF BagsAreSound
  <2>1. CASE i = id  BY <2>1, <1>1, <1>5
  <2>2. CASE i # id /\ j = id  BY <2>2, <1>4, <1>5 DEF GridIsSound, BagsAreSound
  <2>3. CASE i # id /\ j # id  BY <2>3, <1>4 DEF GridIsSound, BagsAreSound
  <2> QED BY <2>1, <2>2, <2>3
<1> QED BY <1>2, <1>3, <1>6 DEF GridIsSound

\* Rows gone, or with another count within the limit, leave the grid sound.
LEMMA ThinningKeeps ==
    ASSUME NEW s \in Bags, NEW t \in Bags, GridIsSound(s), DOMAIN t \subseteq DOMAIN s,
           \A i \in DOMAIN t : SameSpot(t[i], s[i]),
           \A i \in DOMAIN t : t[i].count \in 1..Limit[t[i].vnum]
    PROVE  GridIsSound(t)
<1>1. RowsAreSound(t)  BY DEF GridIsSound, RowsAreSound, SameSpot
<1>2. HandsAreSound(t)
  <2> SUFFICES ASSUME NEW i \in DOMAIN t, NEW j \in DOMAIN t, t[i].equipped
               PROVE  /\ t[i].vnum \in Weapon
                      /\ t[j].equipped /\ t[i].owner = t[j].owner => i = j
    BY DEF HandsAreSound
  <2>1. SameSpot(t[i], s[i]) /\ SameSpot(t[j], s[j]) /\ i \in DOMAIN s /\ j \in DOMAIN s
    OBVIOUS
  <2> QED BY <2>1 DEF GridIsSound, HandsAreSound, SameSpot
<1>3. BagsAreSound(t)
  <2> SUFFICES ASSUME NEW p \in Character, NEW i \in Bag(t, p), NEW j \in Bag(t, p)
               PROVE  Fits(t[i].vnum, t[i].cell) /\ (i # j => Apart(t[i], t[j]))
    BY DEF BagsAreSound
  <2>1. i \in Bag(s, p) /\ j \in Bag(s, p)  BY DEF Bag, Owned, SameSpot
  <2>2. Fits(s[i].vnum, s[i].cell) /\ (i # j => Apart(s[i], s[j]))
    BY <2>1 DEF GridIsSound, BagsAreSound
  <2>3. SameSpot(t[i], s[i]) /\ SameSpot(t[j], s[j])  BY DEF Bag, Owned
  <2> QED BY <2>2, <2>3 DEF SameSpot, Apart
<1> QED BY <1>1, <1>2, <1>3 DEF GridIsSound

\* A weapon is taken in a hand that is empty.
LEMMA ArmingKeeps ==
    ASSUME NEW s \in Bags, NEW t \in Bags, GridIsSound(s),
           NEW id, id \notin DOMAIN s, DOMAIN t = DOMAIN s \cup {id},
           \A i \in DOMAIN s : t[i] = s[i],
           t[id].equipped, t[id].cell = EquippedCell, t[id].vnum \in Weapon,
           t[id].count \in 1..Limit[t[id].vnum],
           \A i \in DOMAIN s : s[i].owner = t[id].owner => ~s[i].equipped
    PROVE  GridIsSound(t)
<1>1. RowsAreSound(t)
  <2> SUFFICES ASSUME NEW i \in DOMAIN t
               PROVE  /\ t[i].count \in 1..Limit[t[i].vnum]
                      /\ t[i].equipped <=> t[i].cell = EquippedCell
    BY DEF RowsAreSound
  <2> QED BY DEF GridIsSound, RowsAreSound
<1>2. HandsAreSound(t)
  <2> SUFFICES ASSUME NEW i \in DOMAIN t, NEW j \in DOMAIN t, t[i].equipped
               PROVE  /\ t[i].vnum \in Weapon
                      /\ t[j].equipped /\ t[i].owner = t[j].owner => i = j
    BY DEF HandsAreSound
  <2> QED BY DEF GridIsSound, HandsAreSound
<1>3. BagsAreSound(t)
  <2> SUFFICES ASSUME NEW p \in Character, NEW i \in Bag(t, p), NEW j \in Bag(t, p)
               PROVE  Fits(t[i].vnum, t[i].cell) /\ (i # j => Apart(t[i], t[j]))
    BY DEF BagsAreSound
  <2>1. /\ i \in Bag(s, p) /\ j \in Bag(s, p)
        /\ t[i] = s[i] /\ t[j] = s[j]
    BY DEF Bag, Owned
  <2> QED BY <2>1 DEF GridIsSound, BagsAreSound
<1> QED BY <1>1, <1>2, <1>3 DEF GridIsSound

\* There is a last stack in grid order.
LEMMA HindmostIsOne ==
    ASSUME NEW s \in Bags, NEW n \in Nat, DOMAIN s \subseteq 1..n,
           NEW T \in SUBSET DOMAIN s, T # {}
    PROVE  Hindmost(s, T) \in T
<1> DEFINE C == {s[i].cell : i \in T}
           c == Max(C)
           L == {i \in T : s[i].cell = c}
           m == Max(L)
<1>1. \A i \in T : s[i].cell \in Nat /\ s[i].cell <= EquippedCell /\ i \in Nat /\ i <= n
  BY BagRows, CellsAreNumbers
<1>2. C \in SUBSET Nat /\ C # {} /\ EquippedCell \in Nat /\ \A y \in C : y <= EquippedCell
  BY <1>1, CellsAreNumbers
<1>3. c \in C /\ \A y \in C : y <= c
  <2> HIDE DEF C
  <2> QED BY <1>2, MaxIsGreatest
<1>4. L \in SUBSET Nat /\ L # {} /\ \A y \in L : y <= n
  <2> HIDE DEF c
  <2> QED BY <1>1, <1>3
<1>5. m \in L /\ \A y \in L : y <= m
  <2> HIDE DEF L
  <2> QED BY <1>4, MaxIsGreatest
<1>6. m \in T /\ s[m].cell = c
  <2> HIDE DEF m, c
  <2> QED BY <1>5
<1>7. ASSUME NEW j \in T \ {m}
      PROVE  Before(s, j, m)
  <2> HIDE DEF m, c
  <2>1. s[j].cell \in C /\ s[j].cell \in Nat /\ j \in Nat /\ m \in Nat /\ s[m].cell \in Nat
    BY <1>1, <1>6
  <2>2. s[j].cell <= s[m].cell  BY <2>1, <1>3, <1>6
  <2>3. CASE s[j].cell < s[m].cell  BY <2>3 DEF Before
  <2>4. CASE s[j].cell = s[m].cell
    <3>1. j \in L  BY <2>4, <1>6
    <3>2. j <= m /\ j # m  BY <3>1, <1>5
    <3> QED BY <2>1, <2>4, <3>2 DEF Before
  <2> QED BY <2>1, <2>2, <2>3, <2>4
<1>8. \E i \in T : \A j \in T \ {i} : Before(s, j, i)
  <2> HIDE DEF m
  <2> QED BY <1>6, <1>7
<1> QED BY <1>8 DEF Hindmost

\* The cell that Min takes from the free ones is free.
LEMMA FreeCellIsFree ==
    ASSUME NEW s, NEW p, NEW v, NEW except, FreeCells(s, p, v, except) # {}
    PROVE  CanPlace(s, p, v, Min(FreeCells(s, p, v, except)), except)
<1>1. FreeCells(s, p, v, except) \in SUBSET Nat  BY CellsAreNumbers DEF FreeCells
<1>2. Min(FreeCells(s, p, v, except)) \in FreeCells(s, p, v, except)
  BY <1>1, MinIsLeast
<1> QED BY <1>2 DEF FreeCells

-----------------------------------------------------------------------------
(* A grant: what has been placed so far and what it did to the books.        *)

Standing(s, n) ==
    /\ s \in Bags /\ n \in Nat \ {0} /\ DOMAIN s \subseteq 1..(n - 1)
    /\ GridIsSound(s) /\ \A i \in DOMAIN s : s[i].revision <= MaxRevision

Lying(ds, n) ==
    ds \in Grounds /\ n \in 1..(MaxDrop + 1) /\ DOMAIN ds \subseteq 1..(n - 1)

Works ==
    [items : Bags, next : Nat \ {0}, audit : Audits, left : Nat, ok : BOOLEAN]

\* The bag of the transaction; rows that are new or changed since its start
\* carry new ids or higher revisions.
Shaped(u) ==
    /\ DOMAIN u.items \subseteq 1..(u.next - 1) /\ GridIsSound(u.items)
    /\ u.ok => \A i \in DOMAIN u.items : u.items[i].revision <= MaxRevision
    /\ nextItem <= u.next
    /\ \A i \in DOMAIN items \cap DOMAIN u.items :
           u.items[i] # items[i] => u.items[i].revision > items[i].revision
    /\ \A i \in DOMAIN u.items \ DOMAIN items : i >= nextItem

GrantFits(n, v, c, d) ==
    /\ n \in Nat /\ v \in Vnum /\ c \in {"starter", "progression", "quest", "pickup"}
    /\ d \in 0..MaxDrop /\ (c = "pickup" => d \in DOMAIN drops)

Minted(m, v, c, k, x) == m[x] + (IF x = v /\ c # "pickup" THEN k ELSE 0)
Carried(d, c, k, e) == IF e = d /\ c = "pickup" THEN k ELSE 0

\* n of v are granted for c (out of drop d); m was minted before.
Paid(u, n, v, c, d, m) ==
    /\ u.left <= n
    /\ \A x \in Vnum : u.audit.minted[x] = Minted(m, v, c, n - u.left, x)
    /\ \A e \in 0..MaxDrop : u.audit.balance[e] = Carried(d, c, n - u.left, e)
    /\ Books(u.items, u.next, drops, nextDrop, u.audit, v, Carried(d, c, n - u.left, d))

LEMMA WorkFields ==
    ASSUME NEW u \in Works
    PROVE  /\ u.items \in Bags /\ u.next \in Nat \ {0} /\ u.audit \in Audits
           /\ u.left \in Nat /\ u.ok \in BOOLEAN
  BY DEF Works

\* What the updates of the record make of it, written out.
Rewritten(u, its, a, left, ok) == [u EXCEPT !.items = its, !.left = left, !.ok = ok, !.audit = a]

LEMMA RewrittenIs ==
    ASSUME NEW u \in Works, NEW its, NEW a, NEW left, NEW ok
    PROVE  Rewritten(u, its, a, left, ok)
             = [items |-> its, next |-> u.next, audit |-> a, left |-> left, ok |-> ok]
<1> DEFINE w == Rewritten(u, its, a, left, ok)
<1>1. DOMAIN w = {"items", "next", "audit", "left", "ok"}  BY DEF Works, Rewritten
<1>2. w.items = its /\ w.next = u.next /\ w.audit = a /\ w.left = left /\ w.ok = ok
  BY DEF Works, Rewritten
<1>3. w = [x \in DOMAIN w |-> w[x]]  BY DEF Rewritten
<1>4. w = [items |-> w.items, next |-> w.next, audit |-> w.audit, left |-> w.left, ok |-> w.ok]
  <2> HIDE DEF w
  <2> QED BY <1>1, <1>3
<1>5. w = [items |-> its, next |-> u.next, audit |-> a, left |-> left, ok |-> ok]
  <2> HIDE DEF w
  <2> QED BY <1>2, <1>4
<1> QED BY <1>5

Extended(u, its, next, a, left) == [u EXCEPT !.items = its, !.next = next, !.left = left, !.audit = a]

LEMMA ExtendedIs ==
    ASSUME NEW u \in Works, NEW its, NEW next, NEW a, NEW left
    PROVE  Extended(u, its, next, a, left)
             = [items |-> its, next |-> next, audit |-> a, left |-> left, ok |-> u.ok]
<1> DEFINE w == Extended(u, its, next, a, left)
<1>1. DOMAIN w = {"items", "next", "audit", "left", "ok"}  BY DEF Works, Extended
<1>2. w.items = its /\ w.next = next /\ w.audit = a /\ w.left = left /\ w.ok = u.ok
  BY DEF Works, Extended
<1>3. w = [x \in DOMAIN w |-> w[x]]  BY DEF Extended
<1>4. w = [items |-> w.items, next |-> w.next, audit |-> w.audit, left |-> w.left, ok |-> w.ok]
  <2> HIDE DEF w
  <2> QED BY <1>1, <1>3
<1>5. w = [items |-> its, next |-> next, audit |-> a, left |-> left, ok |-> u.ok]
  <2> HIDE DEF w
  <2> QED BY <1>2, <1>4
<1> QED BY <1>5

Refilled(u, left) == [u EXCEPT !.left = left]

LEMMA RefilledIs ==
    ASSUME NEW u \in Works, NEW left
    PROVE  Refilled(u, left)
             = [items |-> u.items, next |-> u.next, audit |-> u.audit, left |-> left, ok |-> u.ok]
<1> DEFINE w == Refilled(u, left)
<1>1. DOMAIN w = {"items", "next", "audit", "left", "ok"}  BY DEF Works, Refilled
<1>2. w.items = u.items /\ w.next = u.next /\ w.audit = u.audit /\ w.left = left /\ w.ok = u.ok
  BY DEF Works, Refilled
<1>3. w = [x \in DOMAIN w |-> w[x]]  BY DEF Refilled
<1>4. w = [items |-> w.items, next |-> w.next, audit |-> w.audit, left |-> w.left, ok |-> w.ok]
  <2> HIDE DEF w
  <2> QED BY <1>1, <1>3
<1>5. w = [items |-> u.items, next |-> u.next, audit |-> u.audit, left |-> left, ok |-> u.ok]
  <2> HIDE DEF w
  <2> QED BY <1>2, <1>4
<1> QED BY <1>5

\* g of v come to row i, in an event that continues its history.
Credits(u, w, v, c, d, i, row, before, g, rev) ==
    /\ u \in Works /\ w \in Works
    /\ DOMAIN u.items \subseteq 1..(u.next - 1) /\ DOMAIN w.items \subseteq 1..(w.next - 1)
    /\ i \in Nat \ {0} /\ before \in Nat /\ g \in 1..u.left /\ rev \in Nat \ {0}
    /\ row.vnum = v /\ w.left = u.left - g /\ u.next <= w.next /\ i < w.next
    /\ w.audit = Recorded(u.audit, Event(i, d, row, before, before + g, rev, c))
    /\ DOMAIN w.items = DOMAIN u.items \cup {i}
    /\ \A j \in DOMAIN u.items \ {i} : w.items[j] = u.items[j]
    /\ w.items[i].vnum = v /\ w.items[i].count = before + g /\ w.items[i].revision = rev
    /\ \/ /\ i \in DOMAIN u.items /\ before # 0
          /\ u.items[i].vnum = v /\ u.items[i].count = before
          /\ u.items[i].revision < rev
       \/ i \notin DOMAIN u.items /\ i = u.next /\ before = 0 /\ rev = 1

LEMMA CreditKeeps ==
    ASSUME Lying(drops, nextDrop), NEW n, NEW v, NEW c, NEW d, GrantFits(n, v, c, d),
           NEW m \in [Vnum -> Nat], NEW u, NEW w, Paid(u, n, v, c, d, m),
           NEW i, NEW row, NEW before, NEW g, NEW rev,
           Credits(u, w, v, c, d, i, row, before, g, rev)
    PROVE  Paid(w, n, v, c, d, m)
<1> DEFINE e == Event(i, d, row, before, before + g, rev, c)
           a == u.audit
           k == n - u.left
<1> USE DEF Credits
<1>1. /\ n \in Nat /\ v \in Vnum /\ d \in Nat /\ d \in 0..MaxDrop /\ g \in Nat \ {0}
      /\ c \in {"starter", "progression", "quest", "pickup"}
      /\ u.left \in Nat /\ u.next \in Nat /\ w.next \in Nat /\ a \in Audits
      /\ u.items \in Bags /\ w.items \in Bags
      /\ u.left <= n /\ k \in Nat /\ g <= u.left /\ n - w.left = k + g
  BY WorkFields, InventoryAssumption DEF GrantFits, Paid
<1>2. /\ e.item = i /\ e.drop = d /\ e.vnum = v /\ e.before = before
      /\ e.after = before + g /\ e.revision = rev /\ e.cause = c
  BY DEF Event
<1>3. e \in Events
  <2>1. e = [item |-> i, drop |-> d, vnum |-> v, before |-> before,
             after |-> before + g, revision |-> rev, cause |-> c]
    BY DEF Event
  <2>2. c \in Causes /\ before + g \in Nat  BY <1>1 DEF Causes
  <2> HIDE DEF e
  <2> QED BY <1>1, <2>1, <2>2 DEF Events
<1>4. /\ Gain(e) = (IF c # "pickup" THEN g ELSE 0) /\ Loss(e) = 0
      /\ Owed(e) = (IF c = "pickup" THEN g ELSE 0) /\ Entity(e) = <<"inventory", i>>
  <2> HIDE DEF e
  <2> QED BY <1>1, <1>2 DEF Gain, Loss, Owed, Entity
<1>5. /\ w.audit \in Audits
      /\ w.audit.last = With(a.last, <<"inventory", i>>, [count |-> before + g, revision |-> rev])
      /\ \A x \in Vnum : w.audit.minted[x] = a.minted[x] + IF x = v THEN Gain(e) ELSE 0
      /\ \A x \in Vnum : w.audit.burned[x] = a.burned[x] + IF x = v THEN 0 ELSE 0
      /\ \A f \in 0..MaxDrop : w.audit.balance[f] = a.balance[f] + IF f = d THEN Owed(e) ELSE 0
      /\ w.audit.sound <=> a.sound /\ Continues(a, e) /\ CauseFits(a, e)
      /\ w.audit.quests <=> a.quests \/ c = "quest"
  <2>1. w.audit = Recorded(a, e)
    OBVIOUS
  <2> HIDE DEF e, a
  <2> QED BY <2>1, <1>1, <1>2, <1>3, <1>4, RecordedIs
<1>6. \A x \in Vnum : w.audit.minted[x] = Minted(m, v, c, n - w.left, x)
  <2> SUFFICES ASSUME NEW x \in Vnum
               PROVE  w.audit.minted[x] = Minted(m, v, c, n - w.left, x)
    OBVIOUS
  <2>1. a.minted[x] = Minted(m, v, c, k, x) /\ m[x] \in Nat  BY DEF Paid
  <2>2. w.audit.minted[x] = a.minted[x] + IF x = v THEN Gain(e) ELSE 0  BY <1>5
  <2> HIDE DEF a, e, k
  <2> QED BY <2>1, <2>2, <1>1, <1>4 DEF Minted
<1>7. \A f \in 0..MaxDrop : w.audit.balance[f] = Carried(d, c, n - w.left, f)
  <2> SUFFICES ASSUME NEW f \in 0..MaxDrop
               PROVE  w.audit.balance[f] = Carried(d, c, n - w.left, f)
    OBVIOUS
  <2>1. a.balance[f] = Carried(d, c, k, f)  BY DEF Paid
  <2>2. w.audit.balance[f] = a.balance[f] + IF f = d THEN Owed(e) ELSE 0  BY <1>5
  <2> HIDE DEF a, e, k
  <2> QED BY <2>1, <2>2, <1>1, <1>4 DEF Carried
<1>8. ASSUME ~w.audit.quests
      PROVE  /\ w.audit.sound
             /\ Matches(w.audit.last, "inventory", w.items, w.next)
             /\ Aged(w.audit.last, w.items)
             /\ Matches(w.audit.last, "drops", drops, nextDrop)
             /\ Balanced(w.items, drops, w.audit, v, Carried(d, c, n - w.left, d))
  <2> DEFINE entity == <<"inventory", i>>
             trace == [count |-> before + g, revision |-> rev]
  <2>1. /\ a.sound /\ Matches(a.last, "inventory", u.items, u.next) /\ Aged(a.last, u.items)
        /\ Matches(a.last, "drops", drops, nextDrop) /\ c # "quest"
        /\ Balanced(u.items, drops, a, v, Carried(d, c, k, d))
    BY <1>5, <1>8 DEF Paid, Books
  <2>2. /\ a.last \in Tables(Entities, Traces) /\ trace \in Traces /\ entity \in Entities
        /\ DOMAIN u.items \subseteq Nat \ {0} /\ DOMAIN w.items \subseteq Nat
        /\ drops \in Grounds /\ DOMAIN drops \subseteq Nat
    <3>1. a.last \in Tables(Entities, Traces)  BY <1>1, AuditFields
    <3>2. trace \in Traces /\ entity \in Entities  BY <1>1 DEF Traces, Entities
    <3>3. DOMAIN u.items \subseteq Nat \ {0} /\ DOMAIN w.items \subseteq Nat
      BY <1>1, BagRows
    <3>4. drops \in Grounds /\ DOMAIN drops \subseteq Nat  BY GroundRows DEF Lying
    <3> QED BY <3>1, <3>2, <3>3, <3>4
  <2>3. Continues(a, e)
    <3>1. CASE i \in DOMAIN u.items
      <4>1. entity \in DOMAIN a.last /\ a.last[entity].count = before
        BY <2>1, <3>1 DEF Matches
      <4>2. a.last[entity].revision <= u.items[i].revision  BY <2>1, <3>1 DEF Aged
      <4>3. a.last[entity].revision \in Nat /\ u.items[i].revision \in Nat
            /\ u.items[i].revision < rev /\ before # 0
        <5>1. a.last[entity] \in Traces
          <6> HIDE DEF a, entity
          <6> QED BY <2>2, <4>1, TableRows
        <5>2. u.items[i].revision \in Nat  BY <3>1, <1>1, BagRows
        <5>3. a.last[entity].revision \in Nat
          <6> HIDE DEF a, entity
          <6> QED BY <5>1 DEF Traces
        <5> QED BY <3>1, <5>2, <5>3
      <4> HIDE DEF e, a, entity
      <4> QED BY <4>1, <4>2, <4>3, <1>2, <1>4 DEF Continues, entity
    <3>2. CASE i \notin DOMAIN u.items
      <4>1. i = u.next /\ before = 0 /\ rev = 1  BY <3>2
      <4>2. entity \notin DOMAIN a.last  BY <2>1, <4>1, <1>1 DEF Matches
      <4> HIDE DEF e, a, entity
      <4> QED BY <4>1, <4>2, <1>1, <1>2, <1>4 DEF Continues, entity
    <3> QED BY <3>1, <3>2
  <2>4. CauseFits(a, e)
    <3>1. CASE c = "pickup"
      <4>1. d \in DOMAIN drops  BY <3>1 DEF GrantFits
      <4>2. drops[d].count \in Nat \ {0}  BY <4>1, <2>2, GroundRows
      <4>3. <<"drops", d>> \in DOMAIN a.last /\ a.last[<<"drops", d>>].count # 0
        BY <4>1, <4>2, <2>1 DEF Matches
      <4> HIDE DEF e, a
      <4> QED BY <4>3, <3>1, <1>1, <1>2 DEF CauseFits
    <3>2. CASE c \in {"starter", "progression"}
      <4>1. e.cause \in {"starter", "progression", "monster"} /\ e.after > e.before
        <5> HIDE DEF e
        <5> QED BY <3>2, <1>1, <1>2
      <4>2. /\ e.cause # "quest" /\ e.cause # "consume" /\ e.cause # "expiry"
            /\ e.cause # "pickup"
        <5> HIDE DEF e
        <5> QED BY <4>1
      <4> HIDE DEF e, a
      <4> QED BY <4>1, <4>2 DEF CauseFits
    <3> QED BY <3>1, <3>2, <2>1, <1>1
  <2>5. Matches(w.audit.last, "inventory", w.items, w.next)
    <3>1. /\ DOMAIN w.items \ {i} = DOMAIN u.items \ {i} /\ i \in DOMAIN w.items
          /\ \A j \in DOMAIN u.items \ {i} : w.items[j].count = u.items[j].count
          /\ w.items[i].count = trace.count
      OBVIOUS
    <3>2. w.audit.last = With(a.last, entity, trace)  BY <1>5
    <3>3. Matches(With(a.last, entity, trace), "inventory", w.items, w.next)
      <4>1. trace.count = before + g
        OBVIOUS
      <4> HIDE DEF a, trace
      <4> QED BY <3>1, <2>1, <2>2, <1>1, MatchesAfter
    <3> QED BY <3>2, <3>3
  <2>6. Matches(w.audit.last, "drops", drops, nextDrop)
    <3> HIDE DEF a, trace
    <3> QED BY <2>1, <2>2, <1>5, MatchesBeside DEF trace
  <2>7. Aged(w.audit.last, w.items)
    <3> SUFFICES ASSUME NEW j \in DOMAIN w.items
                 PROVE  w.audit.last[<<"inventory", j>>].revision <= w.items[j].revision
      BY DEF Aged
    <3>1. CASE j = i
      <4>1. w.audit.last[entity] = trace  BY <1>5, <2>2 DEF With
      <4> QED BY <3>1, <4>1
    <3>2. CASE j # i
      <4>1. j \in DOMAIN u.items /\ w.items[j] = u.items[j] /\ <<"inventory", j>> # entity
        BY <3>2
      <4>2. <<"inventory", j>> \in DOMAIN a.last  BY <4>1, <2>1 DEF Matches
      <4>3. w.audit.last[<<"inventory", j>>] = a.last[<<"inventory", j>>]
        <5> HIDE DEF a, entity
        <5> QED BY <4>1, <4>2, <1>5 DEF With, entity
      <4> QED BY <4>1, <4>3, <2>1 DEF Aged
    <3> QED BY <3>1, <3>2
  <2>8. Balanced(w.items, drops, w.audit, v, Carried(d, c, n - w.left, d))
    <3> SUFFICES ASSUME NEW x \in Vnum
                 PROVE  w.audit.minted[x] + (IF x = v THEN Carried(d, c, n - w.left, d) ELSE 0)
                          = Stock(w.items, x) + Stock(drops, x) + w.audit.burned[x]
      BY DEF Balanced
    <3>1. Counted(u.items) /\ Counted(w.items) /\ Counted(drops)
      BY <1>1, BagIsCounted, GroundIsCounted DEF Lying
    <3>2. /\ Stock(u.items, x) \in Int /\ Stock(w.items, x) \in Int /\ Stock(drops, x) \in Int
          /\ a.minted[x] \in Nat /\ a.burned[x] \in Nat
      BY <3>1, <1>1, StockType, AuditFields
    <3>3. Stock(w.items, x) = Stock(u.items, x) + (IF x = v THEN g ELSE 0)
      <4>1. CASE i \in DOMAIN u.items
        <5>1. /\ DOMAIN w.items = DOMAIN u.items
              /\ SameGoods(u.items, w.items, DOMAIN u.items \ {i})
          BY <4>1 DEF SameGoods
        <5>2. Stock(w.items, x)
                = Stock(u.items, x) - Amount(u.items[i], x) + Amount(w.items[i], x)
          BY <5>1, <4>1, <3>1, StockChanges
        <5>3. u.items[i].vnum = v /\ u.items[i].count = before  BY <4>1
        <5> QED BY <5>2, <5>3, <3>2, <1>1 DEF Amount
      <4>2. CASE i \notin DOMAIN u.items
        <5>1. SameGoods(u.items, w.items, DOMAIN u.items) /\ before = 0
          BY <4>2 DEF SameGoods
        <5>2. Stock(w.items, x) = Stock(u.items, x) + Amount(w.items[i], x)
          BY <5>1, <4>2, <3>1, StockAdds
        <5> QED BY <5>1, <5>2, <3>2, <1>1 DEF Amount
      <4> QED BY <4>1, <4>2
    <3>4. a.minted[x] + (IF x = v THEN Carried(d, c, k, d) ELSE 0)
            = Stock(u.items, x) + Stock(drops, x) + a.burned[x]
      BY <2>1 DEF Balanced
    <3>5. /\ w.audit.minted[x] = a.minted[x] + (IF x = v THEN Gain(e) ELSE 0)
          /\ w.audit.burned[x] = a.burned[x] + 0
      BY <1>5
    <3> HIDE DEF a, e, k
    <3> QED BY <3>2, <3>3, <3>4, <3>5, <1>1, <1>4 DEF Carried
  <2>9. w.audit.sound  BY <1>5, <2>1, <2>3, <2>4
  <2> QED BY <2>1, <2>5, <2>6, <2>7, <2>8, <2>9
<1>9. Books(w.items, w.next, drops, nextDrop, w.audit, v, Carried(d, c, n - w.left, d))
  BY <1>8 DEF Books
<1>10. w.left <= n  BY <1>1
<1> QED BY <1>6, <1>7, <1>9, <1>10 DEF Paid

Grants(n, v, c, d, m) == {u \in Works : Shaped(u) /\ Paid(u, n, v, c, d, m)}

LEMMA ToppedKeeps ==
    ASSUME Standing(items, nextItem), Lying(drops, nextDrop),
           NEW n, NEW v, NEW c, NEW d, GrantFits(n, v, c, d), NEW m \in [Vnum -> Nat],
           NEW u \in Grants(n, v, c, d, m), NEW i \in DOMAIN u.items,
           u.items[i].vnum = v, u.items[i].count < Limit[v]
    PROVE  /\ Topped(u, i, c, d) \in Grants(n, v, c, d, m)
           /\ DOMAIN Topped(u, i, c, d).items = DOMAIN u.items
           /\ \A j \in DOMAIN u.items \ {i} : Topped(u, i, c, d).items[j] = u.items[j]
<1> DEFINE row == u.items[i]
           g == Lesser(u.left, Limit[row.vnum] - row.count)
           e == Event(i, d, row, row.count, row.count + g, row.revision + 1, c)
           new == [row EXCEPT !.count = @ + g, !.revision = @ + 1]
           its == [u.items EXCEPT ![i] = new]
           w == [items |-> its, next |-> u.next, audit |-> Recorded(u.audit, e),
                 left |-> u.left - g, ok |-> u.ok /\ row.revision < MaxRevision]
<1>1. /\ u \in Works /\ Shaped(u) /\ Paid(u, n, v, c, d, m)
      /\ u.items \in Bags /\ u.next \in Nat \ {0} /\ u.audit \in Audits
      /\ u.left \in Nat /\ u.ok \in BOOLEAN
  BY WorkFields DEF Grants
<1>2. CASE u.left = 0
  <2>1. Topped(u, i, c, d) = u  BY <1>2 DEF Topped
  <2> QED BY <2>1
<1>3. CASE u.left # 0
  <2>1. /\ row \in AnyRow /\ row.owner \in Character /\ row.vnum = v /\ row.count \in Nat
        /\ row.revision \in Nat \ {0} /\ i \in Nat \ {0} /\ v \in Vnum /\ n \in Nat
        /\ row.count \in 1..Limit[row.vnum] /\ Limit[v] \in Nat
        /\ c \in Causes /\ d \in Nat
    <3>1. row \in AnyRow /\ row.count \in Nat /\ row.revision \in Nat \ {0}
          /\ row.owner \in Character /\ i \in Nat \ {0}
      BY <1>1, BagRows
    <3>2. row.count \in 1..Limit[row.vnum]
      BY <1>1 DEF Shaped, GridIsSound, RowsAreSound
    <3>3. v \in Vnum /\ n \in Nat /\ c \in Causes /\ d \in Nat
      BY InventoryAssumption DEF GrantFits, Causes
    <3>4. Limit[v] \in Nat  BY <3>3, InventoryAssumption
    <3> QED BY <3>1, <3>2, <3>3, <3>4
  <2>2. g \in 1..u.left /\ row.count + g \in 1..Limit[v] /\ row.count + g \in Nat
    <3> HIDE DEF row
    <3> QED BY <2>1, <1>1, <1>3 DEF Lesser, row
  <2>3. new \in AnyRow
    <3>1. row.count + g \in Nat /\ row.revision + 1 \in Nat \ {0}  BY <2>1, <2>2
    <3> HIDE DEF row, g
    <3> QED BY <2>1, <3>1 DEF AnyRow
  <2>4. /\ new.count = row.count + g /\ new.revision = row.revision + 1
        /\ SameSpot(new, row)
    <3> HIDE DEF g
    <3> QED BY <2>1 DEF AnyRow, SameSpot
  <2>5. /\ its \in Bags /\ DOMAIN its = DOMAIN u.items /\ its[i] = new
        /\ \A j \in DOMAIN u.items \ {i} : its[j] = u.items[j]
    <3> HIDE DEF new
    <3> QED BY <2>3, <1>1, TableExcept DEF Bags
  <2>6. Topped(u, i, c, d) = w
    <3>1. [u EXCEPT !.items = [@ EXCEPT ![i] = new],
                    !.left = @ - g, !.ok = @ /\ row.revision < MaxRevision,
                    !.audit = Recorded(@, e)] = w
      <4> DEFINE o == u.ok /\ row.revision < MaxRevision
                 l == u.left - g
                 b == Recorded(u.audit, e)
      <4>1. Rewritten(u, its, b, l, o) = w
        <5>1. Rewritten(u, its, b, l, o)
                = [items |-> its, next |-> u.next, audit |-> b, left |-> l, ok |-> o]
          <6> HIDE DEF its, o, l, b
          <6> QED BY <1>1, RewrittenIs
        <5> QED BY <5>1
      <4>2. [u EXCEPT !.items = [@ EXCEPT ![i] = new], !.left = @ - g,
                      !.ok = @ /\ row.revision < MaxRevision,
                      !.audit = Recorded(@, e)] = Rewritten(u, its, b, l, o)
        BY DEF Rewritten
      <4> HIDE DEF e, g, row, new, its, o, l, b, w
      <4> QED BY <4>1, <4>2
    <3> QED BY <3>1, <1>3 DEF Topped
  <2>7. e \in Events
    <3>1. e = [item |-> i, drop |-> d, vnum |-> row.vnum, before |-> row.count,
               after |-> row.count + g, revision |-> row.revision + 1, cause |-> c]
      BY DEF Event
    <3>2. row.revision + 1 \in Nat  BY <2>1
    <3> HIDE DEF e, row, g
    <3> QED BY <2>1, <2>2, <3>1, <3>2 DEF Events
  <2>8. w \in Works
    <3>1. Recorded(u.audit, e) \in Audits
      <4> HIDE DEF e
      <4> QED BY <2>7, <1>1, RecordedIs
    <3>2. u.left - g \in Nat  BY <2>2, <1>1
    <3> HIDE DEF its, e, g, row
    <3> QED BY <3>1, <3>2, <1>1, <2>5 DEF Works
  <2>9. /\ w.items = its /\ w.next = u.next /\ w.audit = Recorded(u.audit, e)
        /\ w.left = u.left - g /\ (w.ok => u.ok /\ row.revision < MaxRevision)
    OBVIOUS
  <2>10. Shaped(w)
    <3>1. GridIsSound(its)
      <4>1. \A j \in DOMAIN its : /\ SameSpot(its[j], u.items[j])
                                  /\ its[j].count \in 1..Limit[its[j].vnum]
        <5> SUFFICES ASSUME NEW j \in DOMAIN its
                     PROVE  /\ SameSpot(its[j], u.items[j])
                            /\ its[j].count \in 1..Limit[its[j].vnum]
          OBVIOUS
        <5>1. CASE j = i
          <6>1. its[j] = new /\ new.vnum = v  BY <5>1, <2>1, <2>4, <2>5 DEF SameSpot
          <6> HIDE DEF its, new
          <6> QED BY <5>1, <6>1, <2>2, <2>4
        <5>2. CASE j # i
          <6>1. its[j] = u.items[j] /\ j \in DOMAIN u.items  BY <5>2, <2>5
          <6> HIDE DEF its
          <6> QED BY <6>1, <1>1 DEF Shaped, GridIsSound, RowsAreSound, SameSpot
        <5> QED BY <5>1, <5>2
      <4>2. GridIsSound(u.items)  BY <1>1 DEF Shaped
      <4> HIDE DEF its
      <4> QED BY <4>1, <4>2, <2>5, <1>1, ThinningKeeps
    <3>2. w.ok => \A j \in DOMAIN its : its[j].revision <= MaxRevision
      <4> SUFFICES ASSUME w.ok, NEW j \in DOMAIN its
                   PROVE  its[j].revision <= MaxRevision
        OBVIOUS
      <4>1. CASE j = i
        <5>1. row.revision < MaxRevision /\ MaxRevision \in Nat
          BY <2>9, InventoryAssumption
        <5> HIDE DEF its, new, w, row
        <5> QED BY <4>1, <5>1, <2>1, <2>4, <2>5
      <4>2. CASE j # i
        <5> HIDE DEF its, w
        <5> QED BY <4>2, <2>5, <2>9, <1>1 DEF Shaped
      <4> QED BY <4>1, <4>2
    <3>3. ASSUME NEW j \in DOMAIN items \cap DOMAIN its, its[j] # items[j]
          PROVE  its[j].revision > items[j].revision
      <4>1. j \in DOMAIN u.items /\ items[j].revision \in Nat /\ items \in Bags
        BY <2>5, BagRows DEF Standing
      <4>2. u.items[j] # items[j] => u.items[j].revision > items[j].revision
        BY <4>1, <1>1 DEF Shaped
      <4>3. CASE j = i
        <5>1. its[j].revision = row.revision + 1  BY <4>3, <2>4, <2>5
        <5> HIDE DEF its
        <5> QED BY <4>1, <4>2, <4>3, <5>1, <2>1
      <4>4. CASE j # i
        <5>1. its[j] = u.items[j]  BY <4>1, <4>4, <2>5
        <5> HIDE DEF its
        <5> QED BY <5>1, <4>2, <3>3
      <4> QED BY <4>3, <4>4
    <3>4. \A j \in DOMAIN its \ DOMAIN items : j >= nextItem  BY <2>5, <1>1 DEF Shaped
    <3>5. DOMAIN its \subseteq 1..(u.next - 1) /\ nextItem <= u.next
      BY <2>5, <1>1 DEF Shaped
    <3> HIDE DEF its, w
    <3> QED BY <3>1, <3>2, <3>3, <3>4, <3>5, <2>9 DEF Shaped
  <2>11. Paid(w, n, v, c, d, m)
    <3> DEFINE before == row.count
               rev == row.revision + 1
    <3>1. /\ DOMAIN u.items \subseteq 1..(u.next - 1) /\ DOMAIN w.items \subseteq 1..(w.next - 1)
          /\ u.next <= w.next /\ i < w.next /\ i \in 1..(u.next - 1)
      BY <1>1, <2>5, <2>9 DEF Shaped
    <3>2. /\ before \in Nat /\ before # 0 /\ rev \in Nat \ {0} /\ row.revision < rev
          /\ row.vnum = v
      BY <2>1
    <3>3. /\ w.audit = Recorded(u.audit, Event(i, d, row, before, before + g, rev, c))
          /\ w.left = u.left - g
      BY <2>9
    <3>4. /\ DOMAIN w.items = DOMAIN u.items \cup {i}
          /\ \A j \in DOMAIN u.items \ {i} : w.items[j] = u.items[j]
          /\ w.items[i].vnum = v /\ w.items[i].count = before + g
          /\ w.items[i].revision = rev
      <4>1. new.vnum = v  BY <2>1, <2>4 DEF SameSpot
      <4> HIDE DEF its, w, new
      <4> QED BY <4>1, <2>4, <2>5, <2>9
    <3>5. u.items[i].vnum = v /\ u.items[i].count = before /\ u.items[i].revision < rev
      BY <3>2
    <3>6. w \in Works /\ u \in Works /\ i \in Nat \ {0} /\ g \in 1..u.left
      BY <2>1, <2>2, <2>8, <1>1
    <3>7. \/ /\ i \in DOMAIN u.items /\ before # 0
             /\ u.items[i].vnum = v /\ u.items[i].count = before
             /\ u.items[i].revision < rev
          \/ i \notin DOMAIN u.items /\ i = u.next /\ before = 0 /\ rev = 1
      BY <3>2, <3>5
    <3>8. Paid(u, n, v, c, d, m)  BY <1>1
    <3>9. Credits(u, w, v, c, d, i, row, before, g, rev)
      <4> HIDE DEF w, row, g, before, rev
      <4> QED BY <3>1, <3>2, <3>3, <3>4, <3>6, <3>7 DEF Credits
    <3> HIDE DEF w, row, g, before, rev
    <3> QED BY <3>8, <3>9, CreditKeeps
  <2> HIDE DEF w, its
  <2> QED BY <2>5, <2>6, <2>8, <2>9, <2>10, <2>11 DEF Grants
<1> QED BY <1>2, <1>3

LEMMA InsertedKeeps ==
    ASSUME Standing(items, nextItem), Lying(drops, nextDrop),
           NEW n, NEW v, NEW c, NEW d, GrantFits(n, v, c, d), NEW m \in [Vnum -> Nat],
           NEW u \in Grants(n, v, c, d, m), NEW p \in Character
    PROVE  Inserted(u, p, v, c, d) \in Grants(n, v, c, d, m)
<1> DEFINE free == FreeCells(u.items, p, v, {})
           g == Lesser(u.left, Limit[v])
           row == [owner |-> p, vnum |-> v, count |-> g, revision |-> 1,
                   cell |-> Min(free), equipped |-> FALSE]
           e == Event(u.next, d, row, 0, g, 1, c)
           its == With(u.items, u.next, row)
           w == [items |-> its, next |-> u.next + 1, audit |-> Recorded(u.audit, e),
                 left |-> u.left - g, ok |-> u.ok]
<1>1. /\ u \in Works /\ Shaped(u) /\ Paid(u, n, v, c, d, m)
      /\ u.items \in Bags /\ u.next \in Nat \ {0} /\ u.audit \in Audits
      /\ u.left \in Nat /\ u.ok \in BOOLEAN
  BY WorkFields DEF Grants
<1>2. CASE u.left = 0 \/ free = {}
  <2>1. Inserted(u, p, v, c, d) = u  BY <1>2 DEF Inserted
  <2> QED BY <2>1
<1>3. CASE ~(u.left = 0 \/ free = {})
  <2>1. /\ v \in Vnum /\ n \in Nat /\ c \in Causes /\ d \in Nat /\ Limit[v] \in Nat \ {0}
        /\ MaxRevision \in Nat \ {0}
    BY InventoryAssumption DEF GrantFits, Causes
  <2>2. g \in 1..u.left /\ g \in 1..Limit[v] /\ g \in Nat
    BY <2>1, <1>1, <1>3 DEF Lesser
  <2>3. CanPlace(u.items, p, v, Min(free), {}) /\ Min(free) \in Cells
    <3>1. CanPlace(u.items, p, v, Min(free), {})  BY <1>3, FreeCellIsFree
    <3> QED BY <3>1 DEF CanPlace, Fits
  <2>4. row \in AnyRow
    <3> HIDE DEF g, free
    <3> QED BY <2>1, <2>2, <2>3 DEF AnyRow
  <2>5. /\ its \in Bags /\ DOMAIN its = DOMAIN u.items \cup {u.next} /\ its[u.next] = row
        /\ \A j \in DOMAIN u.items \ {u.next} : its[j] = u.items[j]
    <3> DEFINE s == u.items
               id == u.next
    <3>1. /\ With(s, id, row) \in Bags /\ DOMAIN With(s, id, row) = DOMAIN s \cup {id}
          /\ With(s, id, row)[id] = row
          /\ \A j \in DOMAIN s \ {id} : With(s, id, row)[j] = s[j]
      <4>1. s \in Bags /\ id \in Nat \ {0}  BY <1>1
      <4> HIDE DEF row, s, id
      <4>2. With(s, id, row) \in Bags  BY <4>1, <2>4, BagWith
      <4>3. DOMAIN With(s, id, row) = DOMAIN s \cup {id}  BY WithDomain
      <4>4. With(s, id, row)[id] = row  BY WithRow
      <4>5. \A j \in DOMAIN s \ {id} : With(s, id, row)[j] = s[j]  BY WithOthers
      <4> QED BY <4>2, <4>3, <4>4, <4>5
    <3> QED BY <3>1
  <2>6. /\ DOMAIN u.items \subseteq 1..(u.next - 1) /\ u.next \notin DOMAIN u.items
        /\ GridIsSound(u.items)
    BY <1>1 DEF Shaped
  <2>7. Inserted(u, p, v, c, d) = w
    <3> DEFINE b == Recorded(u.audit, e)
               l == u.left - g
               next == u.next + 1
    <3>1. Extended(u, its, next, b, l) = w
      <4>1. Extended(u, its, next, b, l)
              = [items |-> its, next |-> next, audit |-> b, left |-> l, ok |-> u.ok]
        <5> HIDE DEF its, next, b, l
        <5> QED BY <1>1, ExtendedIs
      <4> QED BY <4>1
    <3>2. [u EXCEPT !.items = With(@, u.next, row), !.next = @ + 1, !.left = @ - g,
                    !.audit = Recorded(@, e)] = Extended(u, its, next, b, l)
      BY DEF Extended
    <3>3. Inserted(u, p, v, c, d)
            = [u EXCEPT !.items = With(@, u.next, row), !.next = @ + 1, !.left = @ - g,
                        !.audit = Recorded(@, e)]
      BY <1>3 DEF Inserted
    <3> HIDE DEF w, its, next, b, l, e, g, row
    <3> QED BY <3>1, <3>2, <3>3
  <2>8. e \in Events
    <3>1. e = [item |-> u.next, drop |-> d, vnum |-> v, before |-> 0,
               after |-> g, revision |-> 1, cause |-> c]
      BY DEF Event
    <3> HIDE DEF e, g
    <3> QED BY <2>1, <2>2, <3>1, <1>1 DEF Events
  <2>9. w \in Works
    <3>1. Recorded(u.audit, e) \in Audits
      <4> HIDE DEF e
      <4> QED BY <2>8, <1>1, RecordedIs
    <3>2. u.left - g \in Nat /\ u.next + 1 \in Nat \ {0}  BY <2>2, <1>1
    <3> HIDE DEF its, e, g, row
    <3> QED BY <3>1, <3>2, <1>1, <2>5 DEF Works
  <2>10. /\ w.items = its /\ w.next = u.next + 1 /\ w.audit = Recorded(u.audit, e)
         /\ w.left = u.left - g /\ (w.ok => u.ok)
    OBVIOUS
  <2>11. row.vnum = v /\ row.count = g /\ row.revision = 1 /\ row.owner = p
         /\ row.cell = Min(free) /\ ~row.equipped
    OBVIOUS
  <2>12. DOMAIN its \subseteq 1..u.next /\ \A j \in DOMAIN u.items : its[j] = u.items[j]
    <3> HIDE DEF its
    <3> QED BY <2>5, <2>6, <1>1
  <2>13. Shaped(w)
    <3>1. GridIsSound(its)
      <4>1. CanPlace(u.items, its[u.next].owner, its[u.next].vnum, its[u.next].cell, {u.next})
        <5>1. CanPlace(u.items, p, v, Min(free), {u.next})  BY <2>3 DEF CanPlace
        <5> HIDE DEF its, row, free
        <5> QED BY <5>1, <2>5, <2>11
      <4>2. ~its[u.next].equipped /\ its[u.next].count \in 1..Limit[its[u.next].vnum]
        <5> HIDE DEF its, row, g
        <5> QED BY <2>2, <2>5, <2>11
      <4>3. u.next \in DOMAIN its /\ \A i \in DOMAIN u.items \ {u.next} : its[i] = u.items[i]
        <5> HIDE DEF its
        <5> QED BY <2>5
      <4> HIDE DEF its
      <4> QED BY <4>1, <4>2, <4>3, <2>5, <2>6, <1>1, PlacingKeeps
    <3>2. w.ok => \A j \in DOMAIN its : its[j].revision <= MaxRevision
      <4> SUFFICES ASSUME w.ok, NEW j \in DOMAIN its
                   PROVE  its[j].revision <= MaxRevision
        OBVIOUS
      <4>1. CASE j = u.next
        <5> HIDE DEF its, row, w
        <5> QED BY <4>1, <2>1, <2>5, <2>11
      <4>2. CASE j # u.next
        <5> HIDE DEF its, w, row
        <5> QED BY <4>2, <2>5, <2>10, <1>1 DEF Shaped
      <4> QED BY <4>1, <4>2
    <3>3. nextItem <= u.next /\ nextItem \in Nat /\ DOMAIN items \subseteq 1..(nextItem - 1)
      BY <1>1 DEF Shaped, Standing
    <3>4. ASSUME NEW j \in DOMAIN items \cap DOMAIN its, its[j] # items[j]
          PROVE  its[j].revision > items[j].revision
      <4>1. j # u.next  BY <3>3, <1>1
      <4>2. j \in DOMAIN u.items /\ its[j] = u.items[j]
        <5> HIDE DEF its
        <5> QED BY <4>1, <2>5
      <4> HIDE DEF its
      <4> QED BY <4>2, <3>4, <1>1 DEF Shaped
    <3>5. ASSUME NEW j \in DOMAIN its \ DOMAIN items
          PROVE  j >= nextItem
      <4>1. j = u.next \/ j \in DOMAIN u.items \ DOMAIN items
        <5> HIDE DEF its
        <5> QED BY <2>5
      <4>2. u.next >= nextItem  BY <3>3, <1>1
      <4> QED BY <4>1, <4>2, <1>1 DEF Shaped
    <3>6. DOMAIN its \subseteq 1..((u.next + 1) - 1) /\ nextItem <= u.next + 1
      <4>1. (u.next + 1) - 1 = u.next /\ nextItem <= u.next + 1  BY <3>3, <1>1
      <4> HIDE DEF its
      <4> QED BY <2>12, <4>1
    <3> HIDE DEF its, w
    <3> QED BY <3>1, <3>2, <3>4, <3>5, <3>6, <2>10 DEF Shaped
  <2>14. Paid(w, n, v, c, d, m)
    <3>1. /\ DOMAIN u.items \subseteq 1..(u.next - 1) /\ DOMAIN w.items \subseteq 1..(w.next - 1)
          /\ u.next <= w.next /\ u.next < w.next
      <4>1. w.next = u.next + 1 /\ w.next - 1 = u.next  BY <2>10, <1>1
      <4>2. DOMAIN w.items \subseteq 1..(w.next - 1)
        <5> HIDE DEF w, its
        <5> QED BY <4>1, <2>10, <2>12
      <4> HIDE DEF w
      <4> QED BY <4>1, <4>2, <2>6, <1>1
    <3>2. /\ w.audit = Recorded(u.audit, Event(u.next, d, row, 0, 0 + g, 1, c))
          /\ w.left = u.left - g /\ 0 + g = g
      BY <2>10, <2>2
    <3>3. /\ DOMAIN w.items = DOMAIN u.items \cup {u.next}
          /\ \A j \in DOMAIN u.items \ {u.next} : w.items[j] = u.items[j]
          /\ w.items[u.next].vnum = v /\ w.items[u.next].count = 0 + g
          /\ w.items[u.next].revision = 1
      <4> HIDE DEF its, w, row, g
      <4> QED BY <2>5, <2>10, <2>11, <3>2
    <3>4. Credits(u, w, v, c, d, u.next, row, 0, g, 1)
      <4> HIDE DEF w, row, g
      <4> QED BY <3>1, <3>2, <3>3, <1>1, <2>2, <2>6, <2>9, <2>11 DEF Credits
    <3> HIDE DEF w, row, g
    <3> QED BY <3>4, <1>1, CreditKeeps
  <2> HIDE DEF w
  <2> QED BY <2>7, <2>9, <2>13, <2>14 DEF Grants
<1> QED BY <1>2, <1>3

\* A grant, begun anywhere, into the bag of p.
LEMMA BaggedKeeps ==
    ASSUME Standing(items, nextItem), Lying(drops, nextDrop),
           NEW n, NEW v, NEW c, NEW d, GrantFits(n, v, c, d), NEW m \in [Vnum -> Nat],
           NEW w \in Grants(n, v, c, d, m), NEW p \in Character
    PROVE  Bagged(w, p, v, c, d) \in Grants(n, v, c, d, m)
<1> DEFINE V == Grants(n, v, c, d, m)
           S == {i \in Bag(w.items, p) :
                    w.items[i].vnum = v /\ w.items[i].count < Limit[v]}
           Untouched(u, T) == \A i \in S \ T : i \in DOMAIN u.items /\ u.items[i] = w.items[i]
           F == [T \in SUBSET S |-> {u \in V : Untouched(u, T)}]
           last(T) == Hindmost(w.items, T)
           topped == Filled(w, S, c, d)
<1>1. /\ w \in Works /\ w.items \in Bags /\ w.next \in Nat
      /\ DOMAIN w.items \subseteq 1..(w.next - 1) /\ w.next - 1 \in Nat
  BY WorkFields DEF Grants, Shaped
<1>2. S \in SUBSET DOMAIN w.items /\ IsFiniteSet(S)
  <2>1. S \in SUBSET DOMAIN w.items  BY DEF Bag, Owned
  <2>2. IsFiniteSet(1..(w.next - 1))
    <3>1. 1 \in Int /\ w.next - 1 \in Int  BY <1>1
    <3> QED BY <3>1, FS_Interval
  <2>3. S \subseteq 1..(w.next - 1)  BY <2>1, <1>1
  <2>4. IsFiniteSet(S)
    <3> HIDE DEF S
    <3> QED BY <2>2, <2>3, FS_Subset
  <2> QED BY <2>1, <2>4
<1>3. \A T \in SUBSET S : T # {} => last(T) \in T
  <2> SUFFICES ASSUME NEW T \in SUBSET S, T # {}
               PROVE  Hindmost(w.items, T) \in T
    OBVIOUS
  <2>1. T \in SUBSET DOMAIN w.items  BY <1>2
  <2> QED BY <2>1, <1>1, HindmostIsOne
<1>4. topped \in V
  <2>1. w \in F[{}]
    <3>1. {} \in SUBSET S /\ Untouched(w, {}) /\ w \in V  BY <1>2
    <3> HIDE DEF Untouched, V, S
    <3> QED BY <3>1
  <2>2. ASSUME NEW T \in SUBSET S, T # {}, NEW u \in F[T \ {last(T)}]
        PROVE  Topped(u, last(T), c, d) \in F[T]
    <3> DEFINE i == last(T)
               t == Topped(u, i, c, d)
    <3>1. i \in T /\ i \in S /\ T \ {i} \in SUBSET S  BY <1>3, <2>2
    <3>2. u \in V /\ Untouched(u, T \ {i})
      <4> HIDE DEF Untouched, V, S, last
      <4> QED BY <3>1
    <3>3. \A j \in S \ (T \ {i}) : j \in DOMAIN u.items /\ u.items[j] = w.items[j]
      BY <3>2
    <3>4. i \in DOMAIN u.items /\ u.items[i] = w.items[i]
      <4> HIDE DEF S, i
      <4> QED BY <3>1, <3>3
    <3>5. u.items[i].vnum = v /\ u.items[i].count < Limit[v]
      <4>1. w.items[i].vnum = v /\ w.items[i].count < Limit[v]
        <5> HIDE DEF i
        <5> QED BY <3>1
      <4> HIDE DEF i
      <4> QED BY <3>4, <4>1
    <3>6. /\ t \in V /\ DOMAIN t.items = DOMAIN u.items
          /\ \A j \in DOMAIN u.items \ {i} : t.items[j] = u.items[j]
      <4> HIDE DEF i
      <4> QED BY <3>2, <3>4, <3>5, ToppedKeeps
    <3>7. Untouched(t, T)
      <4> SUFFICES ASSUME NEW j \in S \ T
                   PROVE  j \in DOMAIN t.items /\ t.items[j] = w.items[j]
        OBVIOUS
      <4>1. j # i /\ j \in S \ (T \ {i})
        <5> HIDE DEF i, S
        <5> QED BY <3>1
      <4>2. j \in DOMAIN u.items /\ u.items[j] = w.items[j]
        <5> HIDE DEF i, S
        <5> QED BY <4>1, <3>3
      <4> HIDE DEF t, i, S
      <4> QED BY <4>1, <4>2, <3>6
    <3> HIDE DEF Untouched, V, S, t
    <3>8. t \in F[T]  BY <3>6, <3>7
    <3> QED BY <3>8 DEF t
  <2>3. \A T \in SUBSET S : T # {} => Hindmost(w.items, T) \in T  BY <1>3
  <2>4. \A T \in SUBSET S : T # {} =>
          \A u \in F[T \ {Hindmost(w.items, T)}] :
            Topped(u, Hindmost(w.items, T), c, d) \in F[T]
    <3> HIDE DEF F, S
    <3> QED BY <2>2
  <2>5. topped \in F[S]
    <3> HIDE DEF F, S
    <3> QED BY <1>2, <2>1, <2>3, <2>4, FilledStays
  <2>6. S \in SUBSET S
    OBVIOUS
  <2> HIDE DEF Untouched, V, S, topped
  <2> QED BY <2>5, <2>6
<1>5. Opened(topped, p, v, c, d) \in V
  <2> DEFINE N == 1..topped.left
  <2>1. topped.left \in Nat
    <3> HIDE DEF topped
    <3> QED BY <1>4, WorkFields DEF Grants
  <2>2. IsFiniteSet(N)
    <3> HIDE DEF topped
    <3> QED BY <2>1, FS_Interval
  <2>3. \A u \in V : Inserted(u, p, v, c, d) \in V  BY InsertedKeeps
  <2>4. N = 1..topped.left
    OBVIOUS
  <2> HIDE DEF topped, V, N
  <2> QED BY <1>4, <2>2, <2>3, <2>4, OpenedStays
<1>6. Bagged(w, p, v, c, d) = Opened(topped, p, v, c, d)  BY DEF Bagged
<1> HIDE DEF topped
<1> QED BY <1>5, <1>6

-----------------------------------------------------------------------------
(* The inductive invariant.                                                  *)

\* The bags, the ground and the books, between two reducers.
Kept(its, next, ds, dnext, a, given) ==
    /\ Standing(its, next) /\ Lying(ds, dnext)
    /\ a \in Audits /\ given \in [Vnum -> Nat] /\ a.minted = given
    /\ \A e \in 0..MaxDrop : a.balance[e] = 0
    /\ Books(its, next, ds, dnext, a, Potion, 0)

Residents == now \in 0..MaxTime /\ active \subseteq started /\ started \subseteq Character

InventoryInv == Residents /\ Kept(items, nextItem, drops, nextDrop, audit, awarded)

\* What RevisionAdvances says of a step.
Revised ==
    /\ \A i \in DOMAIN items \cap DOMAIN items' :
           items'[i] # items[i] => items'[i].revision > items[i].revision
    /\ \A i \in DOMAIN items' \ DOMAIN items : i >= nextItem

LEMMA BooksOfNone ==
    ASSUME NEW its, NEW next, NEW ds, NEW dnext, NEW a, NEW v, NEW x,
           Books(its, next, ds, dnext, a, v, 0)
    PROVE  Books(its, next, ds, dnext, a, x, 0)
  BY DEF Books, Balanced

LEMMA BooksType ==
    ASSUME NEW its, NEW next, NEW ds, NEW dnext, NEW a \in Audits, NEW v, NEW k,
           ~a.quests, Books(its, next, ds, dnext, a, v, k)
    PROVE  /\ a.sound
           /\ Matches(a.last, "inventory", its, next) /\ Aged(a.last, its)
           /\ Matches(a.last, "drops", ds, dnext)
           /\ Balanced(its, ds, a, v, k)
  BY DEF Books

\* A transaction begins with a grant of n.
LEMMA GrantBegins ==
    ASSUME Kept(items, nextItem, drops, nextDrop, audit, awarded),
           NEW n, NEW v, NEW c, NEW d, GrantFits(n, v, c, d)
    PROVE  Work(n) \in Grants(n, v, c, d, awarded)
<1> DEFINE w == Work(n)
<1>1. /\ w.items = items /\ w.next = nextItem /\ w.audit = audit /\ w.left = n /\ w.ok = TRUE
      /\ n \in Nat /\ n - n = 0 /\ n <= n
  BY DEF Work, GrantFits
<1>2. w \in Works  BY <1>1 DEF Work, Works, Kept, Standing
<1>3. Shaped(w)
  <2>1. nextItem \in Nat  BY DEF Kept, Standing
  <2> HIDE DEF w
  <2> QED BY <1>1, <2>1 DEF Shaped, Kept, Standing
<1>4. Paid(w, n, v, c, d, awarded)
  <2>1. \A e : Carried(d, c, 0, e) = 0  BY DEF Carried
  <2>2. \A x \in Vnum : audit.minted[x] = Minted(awarded, v, c, 0, x)
    <3>1. \A x \in Vnum : awarded[x] \in Nat /\ audit.minted = awarded  BY DEF Kept
    <3> QED BY <3>1 DEF Minted
  <2>3. Books(items, nextItem, drops, nextDrop, audit, v, 0)  BY BooksOfNone DEF Kept
  <2>4. \A e \in 0..MaxDrop : audit.balance[e] = 0  BY DEF Kept
  <2> HIDE DEF w
  <2> QED BY <1>1, <2>1, <2>2, <2>3, <2>4 DEF Paid
<1> HIDE DEF w
<1>5. w \in Grants(n, v, c, d, awarded)  BY <1>2, <1>3, <1>4 DEF Grants
<1> QED BY <1>5 DEF w

\* A second grant in the same transaction.
LEMMA GrantGoesOn ==
    ASSUME NEW n, NEW v, NEW c, NEW m, NEW w \in Grants(n, v, c, 0, m), w.left = 0,
           c # "pickup", NEW k, NEW x, GrantFits(k, x, c, 0), n \in Nat
    PROVE  [w EXCEPT !.left = k] \in Grants(k, x, c, 0, w.audit.minted)
<1> DEFINE u == [items |-> w.items, next |-> w.next, audit |-> w.audit, left |-> k,
                 ok |-> w.ok]
<1>1. /\ w \in Works /\ Shaped(w) /\ Paid(w, n, v, c, 0, m)
      /\ w.items \in Bags /\ w.next \in Nat \ {0} /\ w.audit \in Audits /\ w.ok \in BOOLEAN
  BY WorkFields DEF Grants
<1>2. [w EXCEPT !.left = k] = u
  <2>1. Refilled(w, k) = u  BY <1>1, RefilledIs
  <2> HIDE DEF u
  <2> QED BY <2>1 DEF Refilled
<1>3. k \in Nat /\ k - k = 0 /\ k <= k  BY DEF GrantFits
<1>4. u \in Works  BY <1>1, <1>3 DEF Works
<1>5. /\ u.items = w.items /\ u.next = w.next /\ u.audit = w.audit /\ u.left = k
      /\ u.ok = w.ok
  OBVIOUS
<1>6. Shaped(u)
  <2> HIDE DEF u
  <2> QED BY <1>1, <1>5 DEF Shaped
<1>7. Paid(u, k, x, c, 0, w.audit.minted)
  <2>1. \A e, j : Carried(0, c, j, e) = 0  BY DEF Carried
  <2>2. \A y \in Vnum : w.audit.minted[y] = Minted(w.audit.minted, x, c, 0, y)
    <3>1. \A y \in Vnum : w.audit.minted[y] \in Nat  BY <1>1, AuditFields
    <3> QED BY <3>1 DEF Minted
  <2>3. /\ Books(w.items, w.next, drops, nextDrop, w.audit, v, 0)
        /\ \A e \in 0..MaxDrop : w.audit.balance[e] = 0
    BY <1>1, <2>1 DEF Paid
  <2>4. Books(w.items, w.next, drops, nextDrop, w.audit, x, 0)  BY <2>3, BooksOfNone
  <2> HIDE DEF u
  <2> QED BY <1>3, <1>5, <2>1, <2>2, <2>3, <2>4 DEF Paid
<1> HIDE DEF u
<1>8. u \in Grants(k, x, c, 0, w.audit.minted)  BY <1>4, <1>6, <1>7 DEF Grants
<1> QED BY <1>2, <1>8

\* What a transaction that commits leaves.
LEMMA GrantStands ==
    ASSUME NEW n, NEW v, NEW c, NEW d, NEW m, NEW w \in Grants(n, v, c, d, m), w.ok
    PROVE  /\ Standing(w.items, w.next) /\ nextItem <= w.next
           /\ \A i \in DOMAIN items \cap DOMAIN w.items :
                w.items[i] # items[i] => w.items[i].revision > items[i].revision
           /\ \A i \in DOMAIN w.items \ DOMAIN items : i >= nextItem
  BY WorkFields DEF Grants, Shaped, Standing

\* The books after n of v were granted in full for a reward.
LEMMA GrantPaid ==
    ASSUME NEW n \in Nat, NEW v, NEW c, NEW m, NEW w \in Grants(n, v, c, 0, m), c # "pickup",
           m \in [Vnum -> Nat]
    PROVE  /\ w.audit \in Audits
           /\ w.left \in 0..n
           /\ \A x \in Vnum :
                w.audit.minted[x] = m[x] + IF x = v THEN n - w.left ELSE 0
           /\ \A e \in 0..MaxDrop : w.audit.balance[e] = 0
           /\ Books(w.items, w.next, drops, nextDrop, w.audit, Potion, 0)
<1>1. /\ w \in Works /\ Paid(w, n, v, c, 0, m) /\ w.audit \in Audits /\ w.left \in Nat
  BY WorkFields DEF Grants
<1>2. \A e, j : Carried(0, c, j, e) = 0  BY DEF Carried
<1>3. Books(w.items, w.next, drops, nextDrop, w.audit, v, 0)  BY <1>1, <1>2 DEF Paid
<1>4. Books(w.items, w.next, drops, nextDrop, w.audit, Potion, 0)  BY <1>3, BooksOfNone
<1>5. \A x \in Vnum : w.audit.minted[x] = m[x] + IF x = v THEN n - w.left ELSE 0
  BY <1>1 DEF Paid, Minted
<1>6. \A e \in 0..MaxDrop : w.audit.balance[e] = 0  BY <1>1, <1>2 DEF Paid
<1>7. w.left \in 0..n  BY <1>1 DEF Paid
<1> QED BY <1>1, <1>4, <1>5, <1>6, <1>7

-----------------------------------------------------------------------------
(* The reducers of the panel.                                                *)

LEMMA BooksMoved ==
    ASSUME NEW s \in Bags, NEW t \in Bags, NEW n \in Nat, DOMAIN s \subseteq 1..(n - 1),
           DOMAIN t = DOMAIN s, SameGoods(s, t, DOMAIN s),
           \A i \in DOMAIN s : s[i].revision <= t[i].revision,
           NEW ds, NEW dnext, NEW a \in Audits, NEW v, NEW k,
           Books(s, n, ds, dnext, a, v, k)
    PROVE  Books(t, n, ds, dnext, a, v, k)
<1> SUFFICES ASSUME ~a.quests
             PROVE  /\ Matches(a.last, "inventory", t, n) /\ Aged(a.last, t)
                    /\ Balanced(t, ds, a, v, k)
  BY DEF Books
<1>1. /\ Matches(a.last, "inventory", s, n) /\ Aged(a.last, s)
      /\ Balanced(s, ds, a, v, k)
  BY BooksType
<1>2. Matches(a.last, "inventory", t, n)  BY <1>1 DEF Matches, SameGoods
<1>3. Aged(a.last, t)
  <2> SUFFICES ASSUME NEW i \in DOMAIN t
               PROVE  a.last[<<"inventory", i>>].revision <= t[i].revision
    BY DEF Aged
  <2>1. <<"inventory", i>> \in DOMAIN a.last  BY <1>1 DEF Matches
  <2>2. a.last[<<"inventory", i>>] \in Traces  BY <2>1, AuditFields, TableRows
  <2>3. /\ a.last[<<"inventory", i>>].revision \in Nat
        /\ s[i].revision \in Nat /\ t[i].revision \in Nat
    BY <2>2, BagRows DEF Traces
  <2>4. /\ a.last[<<"inventory", i>>].revision <= s[i].revision
        /\ s[i].revision <= t[i].revision
    BY <1>1 DEF Aged
  <2> QED BY <2>3, <2>4
<1>4. Balanced(t, ds, a, v, k)
  <2>1. Counted(s)  BY BagIsCounted
  <2>2. \A x : Stock(t, x) = Stock(s, x)  BY <2>1, StockSame
  <2> QED BY <1>1, <2>2 DEF Balanced
<1> QED BY <1>2, <1>3, <1>4

\* The row of an item that is moved, or put into the hand or back.
Shifted(row, cell) == [row EXCEPT !.cell = cell, !.revision = @ + 1]

LEMMA ShiftedIs ==
    ASSUME NEW row \in AnyRow, NEW cell \in Cells \cup {EquippedCell}
    PROVE  /\ Shifted(row, cell) \in AnyRow
           /\ Shifted(row, cell).owner = row.owner
           /\ Shifted(row, cell).vnum = row.vnum
           /\ Shifted(row, cell).count = row.count
           /\ Shifted(row, cell).revision = row.revision + 1
           /\ Shifted(row, cell).cell = cell
           /\ Shifted(row, cell).equipped = row.equipped
<1> DEFINE new == Shifted(row, cell)
<1>1. /\ row.owner \in Character /\ row.vnum \in Vnum /\ row.count \in Nat
      /\ row.revision + 1 \in Nat \ {0} /\ row.equipped \in BOOLEAN
  BY DEF AnyRow
<1>2. DOMAIN new = {"owner", "vnum", "count", "revision", "cell", "equipped"}
  BY DEF AnyRow, Shifted
<1>3. /\ new.owner = row.owner /\ new.vnum = row.vnum /\ new.count = row.count
      /\ new.revision = row.revision + 1 /\ new.cell = cell
  BY DEF AnyRow, Shifted
<1>4. new.equipped = row.equipped  BY DEF AnyRow, Shifted
<1>5. new = [x \in DOMAIN new |-> new[x]]  BY DEF Shifted
<1>6. new = [owner |-> new.owner, vnum |-> new.vnum, count |-> new.count,
             revision |-> new.revision, cell |-> new.cell, equipped |-> new.equipped]
  <2> HIDE DEF new
  <2> QED BY <1>2, <1>5
<1>7. new \in AnyRow
  <2> HIDE DEF new
  <2> QED BY <1>1, <1>3, <1>4, <1>6 DEF AnyRow
<1> QED BY <1>3, <1>4, <1>7

Handed(row, cell, equipped) == [row EXCEPT !.equipped = equipped, !.cell = cell, !.revision = @ + 1]

LEMMA HandedIs ==
    ASSUME NEW row \in AnyRow, NEW cell \in Cells \cup {EquippedCell}, NEW equipped \in BOOLEAN
    PROVE  /\ Handed(row, cell, equipped) \in AnyRow
           /\ Handed(row, cell, equipped).owner = row.owner
           /\ Handed(row, cell, equipped).vnum = row.vnum
           /\ Handed(row, cell, equipped).count = row.count
           /\ Handed(row, cell, equipped).revision = row.revision + 1
           /\ Handed(row, cell, equipped).cell = cell
           /\ Handed(row, cell, equipped).equipped = equipped
<1> DEFINE new == Handed(row, cell, equipped)
<1>1. /\ row.owner \in Character /\ row.vnum \in Vnum /\ row.count \in Nat
      /\ row.revision + 1 \in Nat \ {0} /\ row.equipped \in BOOLEAN
  BY DEF AnyRow
<1>2. DOMAIN new = {"owner", "vnum", "count", "revision", "cell", "equipped"}
  BY DEF AnyRow, Handed
<1>3. /\ new.owner = row.owner /\ new.vnum = row.vnum /\ new.count = row.count
      /\ new.revision = row.revision + 1 /\ new.cell = cell
  BY DEF AnyRow, Handed
<1>4. new.equipped = equipped  BY DEF AnyRow, Handed
<1>5. new = [x \in DOMAIN new |-> new[x]]  BY DEF Handed
<1>6. new = [owner |-> new.owner, vnum |-> new.vnum, count |-> new.count,
             revision |-> new.revision, cell |-> new.cell, equipped |-> new.equipped]
  <2> HIDE DEF new
  <2> QED BY <1>2, <1>5
<1>7. new \in AnyRow
  <2> HIDE DEF new
  <2> QED BY <1>1, <1>3, <1>4, <1>6 DEF AnyRow
<1> QED BY <1>3, <1>4, <1>7

\* A step that only moves rows about, each with its next revision.
Moved ==
    /\ items' \in Bags /\ DOMAIN items' = DOMAIN items /\ GridIsSound(items')
    /\ \A i \in DOMAIN items :
         items'[i] # items[i] => /\ items'[i].vnum = items[i].vnum
                                 /\ items'[i].count = items[i].count
                                 /\ items'[i].revision = items[i].revision + 1
                                 /\ items[i].revision < MaxRevision
    /\ UNCHANGED nextItem /\ Unmoved

LEMMA MovedKeeps ==
    ASSUME InventoryInv, Moved
    PROVE  InventoryInv' /\ Revised
<1>1. /\ items \in Bags /\ nextItem \in Nat \ {0} /\ DOMAIN items \subseteq 1..(nextItem - 1)
      /\ \A i \in DOMAIN items : items[i].revision <= MaxRevision
      /\ \A i \in DOMAIN items : items[i].revision \in Nat
      /\ audit \in Audits /\ MaxRevision \in Nat
  BY BagRows, InventoryAssumption DEF InventoryInv, Kept, Standing
<1>2. /\ items' \in Bags /\ DOMAIN items' = DOMAIN items /\ GridIsSound(items')
      /\ nextItem' = nextItem /\ now' = now /\ active' = active /\ started' = started
      /\ drops' = drops /\ nextDrop' = nextDrop /\ audit' = audit /\ awarded' = awarded
  BY DEF Moved, Unmoved
<1>3. \A i \in DOMAIN items :
        /\ items'[i].vnum = items[i].vnum /\ items'[i].count = items[i].count
        /\ items[i].revision <= items'[i].revision
        /\ items'[i].revision <= MaxRevision
        /\ items'[i] # items[i] => items'[i].revision > items[i].revision
  <2> SUFFICES ASSUME NEW i \in DOMAIN items
               PROVE  /\ items'[i].vnum = items[i].vnum /\ items'[i].count = items[i].count
                      /\ items[i].revision <= items'[i].revision
                      /\ items'[i].revision <= MaxRevision
                      /\ items'[i] # items[i] => items'[i].revision > items[i].revision
    OBVIOUS
  <2>1. CASE items'[i] = items[i]  BY <2>1, <1>1
  <2>2. CASE items'[i] # items[i]  BY <2>2, <1>1 DEF Moved
  <2> QED BY <2>1, <2>2
<1>4. Standing(items', nextItem')  BY <1>1, <1>2, <1>3 DEF Standing
<1>5. Books(items', nextItem, drops, nextDrop, audit, Potion, 0)
  <2>1. SameGoods(items, items', DOMAIN items)  BY <1>3 DEF SameGoods
  <2>2. Books(items, nextItem, drops, nextDrop, audit, Potion, 0)
    BY DEF InventoryInv, Kept
  <2>3. \A i \in DOMAIN items : items[i].revision <= items'[i].revision  BY <1>3
  <2> QED BY <2>1, <2>2, <2>3, <1>1, <1>2, BooksMoved
<1>6. Kept(items', nextItem', drops', nextDrop', audit', awarded')
  BY <1>2, <1>4, <1>5 DEF InventoryInv, Kept
<1>7. InventoryInv'  BY <1>2, <1>6 DEF InventoryInv, Residents
<1>8. Revised  BY <1>2, <1>3 DEF Revised
<1> QED BY <1>7, <1>8

LEMMA MoveItemKeeps ==
    ASSUME InventoryInv, NEW p, NEW i, NEW cell, NEW revision,
           MoveItem(p, i, cell, revision)
    PROVE  InventoryInv' /\ Revised
<1> DEFINE row == items[i]
           new == Shifted(row, cell)
<1>1. /\ items \in Bags /\ GridIsSound(items)
      /\ i \in DOMAIN items /\ row.owner = p /\ row.revision < MaxRevision
      /\ ~row.equipped /\ CanPlace(items, p, row.vnum, cell, {i})
      /\ items' = [items EXCEPT ![i].cell = cell, ![i].revision = @ + 1]
  BY DEF InventoryInv, Kept, Standing, MoveItem, Addresses, Owned
<1>2. row \in AnyRow /\ row.revision \in Nat \ {0} /\ cell \in Cells
  BY <1>1, BagRows DEF CanPlace, Fits
<1>3. /\ new \in AnyRow /\ new.owner = p /\ new.vnum = row.vnum /\ new.count = row.count
      /\ new.revision = row.revision + 1 /\ new.cell = cell /\ ~new.equipped
  <2> HIDE DEF row
  <2> QED BY <1>1, <1>2, ShiftedIs
<1>4. items' = [items EXCEPT ![i] = new]  BY <1>1 DEF Shifted
<1>5. /\ items' \in Bags /\ DOMAIN items' = DOMAIN items /\ items'[i] = new
      /\ \A j \in DOMAIN items \ {i} : items'[j] = items[j]
  <2> DEFINE t == [items EXCEPT ![i] = new]
  <2>1. /\ t \in Bags /\ DOMAIN t = DOMAIN items /\ t[i] = new
        /\ \A j \in DOMAIN items \ {i} : t[j] = items[j]
    <3> HIDE DEF new
    <3> QED BY <1>1, <1>3, BagExcept
  <2> HIDE DEF t, new
  <2> QED BY <2>1, <1>4 DEF t
<1>6. GridIsSound(items')
  <2>1. row.count \in 1..Limit[row.vnum]  BY <1>1 DEF GridIsSound, RowsAreSound
  <2>2. /\ ~items'[i].equipped /\ items'[i].count \in 1..Limit[items'[i].vnum]
        /\ CanPlace(items, items'[i].owner, items'[i].vnum, items'[i].cell, {i})
        /\ i \in DOMAIN items' /\ DOMAIN items' = DOMAIN items \cup {i}
    <3> HIDE DEF new, row
    <3> QED BY <2>1, <1>1, <1>3, <1>5
  <2> QED BY <2>2, <1>1, <1>5, PlacingKeeps
<1>7. Moved
  <2>1. UNCHANGED nextItem /\ Unmoved  BY DEF MoveItem
  <2> HIDE DEF new
  <2> QED BY <2>1, <1>1, <1>3, <1>5, <1>6 DEF Moved
<1> QED BY <1>7, MovedKeeps

LEMMA UnequipItemKeeps ==
    ASSUME InventoryInv, NEW p, NEW i, NEW cell, NEW revision,
           UnequipItem(p, i, cell, revision)
    PROVE  InventoryInv' /\ Revised
<1> DEFINE row == items[i]
           new == Handed(row, cell, FALSE)
<1>1. /\ items \in Bags /\ GridIsSound(items)
      /\ i \in DOMAIN items /\ row.owner = p /\ row.revision < MaxRevision
      /\ CanPlace(items, p, row.vnum, cell, {i})
      /\ items' = [items EXCEPT ![i].equipped = FALSE, ![i].cell = cell,
                                ![i].revision = @ + 1]
  BY DEF InventoryInv, Kept, Standing, UnequipItem, Addresses, Owned
<1>2. row \in AnyRow /\ row.revision \in Nat \ {0} /\ cell \in Cells
  BY <1>1, BagRows DEF CanPlace, Fits
<1>3. /\ new \in AnyRow /\ new.owner = p /\ new.vnum = row.vnum /\ new.count = row.count
      /\ new.revision = row.revision + 1 /\ new.cell = cell /\ ~new.equipped
  <2> HIDE DEF row
  <2>1. FALSE \in BOOLEAN /\ cell \in Cells \cup {EquippedCell}  BY <1>2
  <2>2. new = Handed(row, cell, FALSE)
    OBVIOUS
  <2> HIDE DEF new
  <2> QED BY <1>1, <1>2, <2>1, <2>2, HandedIs
<1>4. items' = [items EXCEPT ![i] = new]  BY <1>1 DEF Handed
<1>5. /\ items' \in Bags /\ DOMAIN items' = DOMAIN items /\ items'[i] = new
      /\ \A j \in DOMAIN items \ {i} : items'[j] = items[j]
  <2> DEFINE t == [items EXCEPT ![i] = new]
  <2>1. /\ t \in Bags /\ DOMAIN t = DOMAIN items /\ t[i] = new
        /\ \A j \in DOMAIN items \ {i} : t[j] = items[j]
    <3> HIDE DEF new
    <3> QED BY <1>1, <1>3, BagExcept
  <2> HIDE DEF t, new
  <2> QED BY <2>1, <1>4 DEF t
<1>6. GridIsSound(items')
  <2>1. row.count \in 1..Limit[row.vnum]  BY <1>1 DEF GridIsSound, RowsAreSound
  <2>2. /\ ~items'[i].equipped /\ items'[i].count \in 1..Limit[items'[i].vnum]
        /\ CanPlace(items, items'[i].owner, items'[i].vnum, items'[i].cell, {i})
        /\ i \in DOMAIN items' /\ DOMAIN items' = DOMAIN items \cup {i}
    <3> HIDE DEF new, row
    <3> QED BY <2>1, <1>1, <1>3, <1>5
  <2> QED BY <2>2, <1>1, <1>5, PlacingKeeps
<1>7. Moved
  <2>1. UNCHANGED nextItem /\ Unmoved  BY DEF UnequipItem
  <2> HIDE DEF new
  <2> QED BY <2>1, <1>1, <1>3, <1>5, <1>6 DEF Moved
<1> QED BY <1>7, MovedKeeps

\* What a weapon that goes back to the bag, if there is one, leaves besides i.
Swapped(bag, p, i) ==
    /\ bag \in Bags /\ DOMAIN bag = DOMAIN items /\ bag[i] = items[i]
    /\ GridIsSound(Without(bag, {i}))
    /\ \A j \in DOMAIN items \ {i} : bag[j].owner = p => ~bag[j].equipped
    /\ \A j \in DOMAIN items :
         bag[j] # items[j] => /\ bag[j].vnum = items[j].vnum
                              /\ bag[j].count = items[j].count
                              /\ bag[j].revision = items[j].revision + 1
                              /\ items[j].revision < MaxRevision

LEMMA RestIsSound ==
    ASSUME NEW s \in Bags, GridIsSound(s), NEW i
    PROVE  /\ Without(s, {i}) \in Bags /\ GridIsSound(Without(s, {i}))
           /\ DOMAIN Without(s, {i}) = DOMAIN s \ {i}
           /\ \A j \in DOMAIN s \ {i} : Without(s, {i})[j] = s[j]
<1> DEFINE t == Without(s, {i})
<1>1. t \in Bags /\ DOMAIN t = DOMAIN s \ {i} /\ \A j \in DOMAIN s \ {i} : t[j] = s[j]
  BY BagWithout
<1> HIDE DEF t
<1>2. \A j \in DOMAIN t : SameSpot(t[j], s[j]) /\ t[j].count \in 1..Limit[t[j].vnum]
  BY <1>1 DEF SameSpot, GridIsSound, RowsAreSound
<1>3. GridIsSound(t)  BY <1>1, <1>2, ThinningKeeps
<1> QED BY <1>1, <1>3 DEF t

LEMMA DisplacedSwaps ==
    ASSUME items \in Bags, GridIsSound(items), NEW p, NEW i \in DOMAIN items,
           NEW w \in DOMAIN items, items[w].owner = p, items[w].equipped, w # i,
           items[w].revision < MaxRevision,
           FreeCells(items, p, items[w].vnum, {w, i}) # {}
    PROVE  Swapped(Displaced(p, i, w), p, i)
<1> DEFINE row == items[w]
           cell == Min(FreeCells(items, p, row.vnum, {w, i}))
           back == Handed(row, cell, FALSE)
           s == Without(items, {i})
           bag == [items EXCEPT ![w] = back]
           t == Without(bag, {i})
<1>1. CanPlace(items, p, row.vnum, cell, {w, i}) /\ cell \in Cells \cup {EquippedCell}
  <2>1. CanPlace(items, p, row.vnum, cell, {w, i})  BY FreeCellIsFree
  <2> HIDE DEF cell, row
  <2> QED BY <2>1 DEF CanPlace, Fits
<1>2. row \in AnyRow /\ row.count \in 1..Limit[row.vnum]
  BY BagRows DEF GridIsSound, RowsAreSound
<1>3. /\ back \in AnyRow /\ back.owner = p /\ back.vnum = row.vnum /\ back.count = row.count
      /\ back.revision = row.revision + 1 /\ back.cell = cell /\ ~back.equipped
  <2>1. FALSE \in BOOLEAN /\ back = Handed(row, cell, FALSE) /\ row.owner = p
    OBVIOUS
  <2> HIDE DEF row, cell, back
  <2> QED BY <1>1, <1>2, <2>1, HandedIs
<1>4. Displaced(p, i, w) = bag  BY DEF Displaced, Handed
<1>5. /\ bag \in Bags /\ DOMAIN bag = DOMAIN items /\ bag[w] = back
      /\ \A j \in DOMAIN items \ {w} : bag[j] = items[j]
  <2> HIDE DEF back
  <2> QED BY <1>3, BagExcept
<1>6. /\ s \in Bags /\ GridIsSound(s) /\ DOMAIN s = DOMAIN items \ {i}
      /\ \A j \in DOMAIN items \ {i} : s[j] = items[j]
  BY RestIsSound
<1>7. /\ t \in Bags /\ DOMAIN t = DOMAIN bag \ {i}
      /\ \A j \in DOMAIN bag \ {i} : t[j] = bag[j]
  <2> HIDE DEF bag
  <2> QED BY <1>5, BagWithout
<1>8. CanPlace(s, p, row.vnum, cell, {w})
  <2>1. Fits(row.vnum, cell)  BY <1>1 DEF CanPlace
  <2>2. ASSUME NEW j \in Bag(s, p) \ {w}
        PROVE  Footprint(s[j].vnum, s[j].cell) \cap Footprint(row.vnum, cell) = {}
    <3>1. j \in Bag(items, p) \ {w, i} /\ s[j] = items[j]
      <4> HIDE DEF s
      <4> QED BY <1>6 DEF Bag, Owned
    <3> HIDE DEF s, cell, row
    <3> QED BY <3>1, <1>1 DEF CanPlace
  <2> HIDE DEF s, cell, row
  <2> QED BY <2>1, <2>2 DEF CanPlace
<1>9. GridIsSound(t)
  <2>1. /\ w \in DOMAIN t /\ DOMAIN t = DOMAIN s \cup {w} /\ t[w] = back
        /\ \A j \in DOMAIN s \ {w} : t[j] = s[j]
    <3> HIDE DEF s, t, bag, back
    <3> QED BY <1>5, <1>6, <1>7
  <2>2. /\ ~t[w].equipped /\ t[w].count \in 1..Limit[t[w].vnum]
        /\ CanPlace(s, t[w].owner, t[w].vnum, t[w].cell, {w})
    <3> HIDE DEF s, t, back, row, cell
    <3> QED BY <2>1, <1>2, <1>3, <1>8
  <2> HIDE DEF s, t
  <2> QED BY <2>1, <2>2, <1>6, <1>7, PlacingKeeps
<1>10. ASSUME NEW j \in DOMAIN items \ {i}, bag[j].owner = p
       PROVE  ~bag[j].equipped
  <2>1. CASE j = w
    <3> HIDE DEF bag, back
    <3> QED BY <2>1, <1>3, <1>5
  <2>2. CASE j # w
    <3>1. bag[j] = items[j]
      <4> HIDE DEF bag
      <4> QED BY <2>2, <1>5
    <3> HIDE DEF bag
    <3> QED BY <3>1, <2>2, <1>10 DEF GridIsSound, HandsAreSound
  <2> QED BY <2>1, <2>2
<1>11. \A j \in DOMAIN items :
       bag[j] # items[j] => /\ bag[j].vnum = items[j].vnum
                            /\ bag[j].count = items[j].count
                            /\ bag[j].revision = items[j].revision + 1
                            /\ items[j].revision < MaxRevision
  <2> HIDE DEF bag, back
  <2> QED BY <1>3, <1>5
<1>12. bag[i] = items[i]
  <2> HIDE DEF bag
  <2> QED BY <1>5
<1>13. Swapped(bag, p, i)
  <2> HIDE DEF bag
  <2> QED BY <1>5, <1>9, <1>10, <1>11, <1>12 DEF Swapped
<1> QED BY <1>4, <1>13

LEMMA EquipItemKeeps ==
    ASSUME InventoryInv, NEW p, NEW i, NEW revision, EquipItem(p, i, revision)
    PROVE  InventoryInv' /\ Revised
<1> DEFINE row == items[i]
           held == {w \in Owned(items, p) : items[w].equipped}
           w == CHOOSE x \in held : TRUE
           bag == IF held = {} THEN items ELSE Displaced(p, i, w)
           new == Handed(row, EquippedCell, TRUE)
           rest == Without(bag, {i})
<1>1. /\ items \in Bags /\ GridIsSound(items)
      /\ i \in DOMAIN items /\ row.owner = p /\ row.revision < MaxRevision
      /\ ~row.equipped /\ row.vnum \in Weapon /\ row.count = 1
      /\ \A x \in held : /\ items[x].revision < MaxRevision
                         /\ FreeCells(items, p, items[x].vnum, {x, i}) # {}
      /\ items' = [bag EXCEPT ![i].equipped = TRUE, ![i].cell = EquippedCell,
                              ![i].revision = @ + 1]
  BY DEF InventoryInv, Kept, Standing, EquipItem, Addresses, Owned
<1>2. Swapped(bag, p, i)
  <2>1. CASE held = {}
    <3>1. bag = items  BY <2>1
    <3>2. \A j \in DOMAIN items \ {i} : items[j].owner = p => ~items[j].equipped
      BY <2>1 DEF Owned
    <3>3. GridIsSound(Without(items, {i}))  BY <1>1, RestIsSound
    <3>4. Swapped(items, p, i)  BY <1>1, <3>2, <3>3 DEF Swapped
    <3> QED BY <3>1, <3>4
  <2>2. CASE held # {}
    <3>1. w \in held  BY <2>2
    <3>2. /\ w \in DOMAIN items /\ items[w].owner = p /\ items[w].equipped /\ w # i
          /\ items[w].revision < MaxRevision
          /\ FreeCells(items, p, items[w].vnum, {w, i}) # {}
      <4>1. w \in DOMAIN items /\ items[w].owner = p /\ items[w].equipped
        <5> HIDE DEF w
        <5> QED BY <3>1 DEF Owned
      <4> HIDE DEF held, w
      <4> QED BY <3>1, <4>1, <1>1
    <3>3. bag = Displaced(p, i, w)  BY <2>2
    <3> HIDE DEF w, bag
    <3> QED BY <3>2, <3>3, <1>1, DisplacedSwaps
  <2> QED BY <2>1, <2>2
<1>3. row \in AnyRow /\ row.revision \in Nat \ {0} /\ row.count \in 1..Limit[row.vnum]
  BY <1>1, BagRows DEF GridIsSound, RowsAreSound
<1>4. /\ new \in AnyRow /\ new.owner = p /\ new.vnum = row.vnum /\ new.count = row.count
      /\ new.revision = row.revision + 1 /\ new.cell = EquippedCell /\ new.equipped
  <2>1. TRUE \in BOOLEAN /\ EquippedCell \in Cells \cup {EquippedCell}
    OBVIOUS
  <2>2. new = Handed(row, EquippedCell, TRUE)
    OBVIOUS
  <2> HIDE DEF new, row
  <2> QED BY <1>1, <1>3, <2>1, <2>2, HandedIs
<1>5. items' = [bag EXCEPT ![i] = new]
  <2>1. bag[i] = row
    <3> HIDE DEF bag
    <3> QED BY <1>2 DEF Swapped
  <2> HIDE DEF bag
  <2> QED BY <1>1, <2>1 DEF Handed
<1>6. /\ items' \in Bags /\ DOMAIN items' = DOMAIN items /\ items'[i] = new
      /\ \A j \in DOMAIN items \ {i} : items'[j] = bag[j]
  <2> DEFINE t == [bag EXCEPT ![i] = new]
  <2>1. /\ t \in Bags /\ DOMAIN t = DOMAIN bag /\ t[i] = new
        /\ \A j \in DOMAIN bag \ {i} : t[j] = bag[j]
    <3> HIDE DEF new, bag
    <3> QED BY <1>1, <1>2, <1>4, BagExcept DEF Swapped
  <2> HIDE DEF t, new, bag
  <2> QED BY <2>1, <1>2, <1>5 DEF t, Swapped
<1>7. /\ rest \in Bags /\ GridIsSound(rest) /\ DOMAIN rest = DOMAIN items \ {i}
      /\ \A j \in DOMAIN items \ {i} : rest[j] = bag[j]
  <2>1. /\ rest \in Bags /\ DOMAIN rest = DOMAIN bag \ {i}
        /\ \A j \in DOMAIN bag \ {i} : rest[j] = bag[j]
    <3> HIDE DEF bag
    <3> QED BY <1>2, BagWithout DEF Swapped
  <2> HIDE DEF bag
  <2> QED BY <2>1, <1>2 DEF Swapped
<1>8. GridIsSound(items')
  <2>1. /\ i \notin DOMAIN rest /\ DOMAIN items' = DOMAIN rest \cup {i}
        /\ \A j \in DOMAIN rest : items'[j] = rest[j]
    <3> HIDE DEF rest, bag
    <3> QED BY <1>1, <1>6, <1>7
  <2>2. /\ items'[i].equipped /\ items'[i].cell = EquippedCell /\ items'[i].vnum \in Weapon
        /\ items'[i].count \in 1..Limit[items'[i].vnum] /\ items'[i].owner = p
    <3> HIDE DEF new, row
    <3> QED BY <1>1, <1>3, <1>4, <1>6
  <2>3. \A j \in DOMAIN rest : rest[j].owner = p => ~rest[j].equipped
    <3> HIDE DEF rest, bag
    <3> QED BY <1>2, <1>7 DEF Swapped
  <2> HIDE DEF rest
  <2> QED BY <2>1, <2>2, <2>3, <1>6, <1>7, ArmingKeeps
<1>9. Moved
  <2>1. UNCHANGED nextItem /\ Unmoved  BY DEF EquipItem
  <2>2. \A j \in DOMAIN items :
       items'[j] # items[j] => /\ items'[j].vnum = items[j].vnum
                               /\ items'[j].count = items[j].count
                               /\ items'[j].revision = items[j].revision + 1
                               /\ items[j].revision < MaxRevision
    <3> SUFFICES ASSUME NEW j \in DOMAIN items, items'[j] # items[j]
                 PROVE  /\ items'[j].vnum = items[j].vnum
                        /\ items'[j].count = items[j].count
                        /\ items'[j].revision = items[j].revision + 1
                        /\ items[j].revision < MaxRevision
      OBVIOUS
    <3>1. CASE j = i
      <4> HIDE DEF new
      <4> QED BY <3>1, <1>1, <1>4, <1>6
    <3>2. CASE j # i
      <4> HIDE DEF bag
      <4> QED BY <3>2, <1>2, <1>6 DEF Swapped
    <3> QED BY <3>1, <3>2
  <2> QED BY <2>1, <2>2, <1>6, <1>8 DEF Moved
<1> QED BY <1>9, MovedKeeps

-----------------------------------------------------------------------------
(* Single events: a unit used up, a stack on the ground that comes or goes.  *)

EventFits(item, drop, row, before, after, revision, cause) ==
    /\ item \in Nat /\ drop \in Nat /\ row.vnum \in Vnum /\ before \in Nat /\ after \in Nat
    /\ revision \in Nat /\ cause \in Causes

LEMMA EventIs ==
    ASSUME NEW item, NEW drop, NEW row, NEW before, NEW after, NEW revision, NEW cause,
           EventFits(item, drop, row, before, after, revision, cause)
    PROVE  /\ Event(item, drop, row, before, after, revision, cause) \in Events
           /\ Event(item, drop, row, before, after, revision, cause).item = item
           /\ Event(item, drop, row, before, after, revision, cause).drop = drop
           /\ Event(item, drop, row, before, after, revision, cause).vnum = row.vnum
           /\ Event(item, drop, row, before, after, revision, cause).before = before
           /\ Event(item, drop, row, before, after, revision, cause).after = after
           /\ Event(item, drop, row, before, after, revision, cause).revision = revision
           /\ Event(item, drop, row, before, after, revision, cause).cause = cause
  BY DEF Event, Events, EventFits

LEMMA KeptAudit ==
    ASSUME NEW a \in Audits, NEW x \in Vnum
    PROVE  a.minted[x] \in Nat /\ a.burned[x] \in Nat
  BY AuditFields

\* One unit of row i is used up.
UsesUp(its, next, t, i) ==
    /\ its \in Bags /\ t \in Bags /\ next \in Nat \ {0} /\ DOMAIN its \subseteq 1..(next - 1)
    /\ i \in DOMAIN its /\ its[i].count \in Nat \ {0} /\ its[i].vnum \in Vnum
    /\ DOMAIN t \subseteq DOMAIN its /\ DOMAIN its \ {i} = DOMAIN t \ {i}
    /\ \A j \in DOMAIN its \ {i} : t[j] = its[j]
    /\ i \in DOMAIN t => /\ t[i].vnum = its[i].vnum /\ t[i].count = its[i].count - 1
                         /\ t[i].revision = its[i].revision + 1
    /\ i \notin DOMAIN t => its[i].count = 1

Used(a, row, i) ==
    Recorded(a, Event(i, 0, row, row.count, row.count - 1, row.revision + 1, "consume"))

LEMMA UsedKeeps ==
    ASSUME NEW its, NEW next, NEW t, NEW i, UsesUp(its, next, t, i),
           NEW ds, NEW dnext, Lying(ds, dnext), NEW a \in Audits,
           Books(its, next, ds, dnext, a, Potion, 0)
    PROVE  /\ Used(a, its[i], i) \in Audits
           /\ \A x \in Vnum : Used(a, its[i], i).minted[x] = a.minted[x]
           /\ \A e \in 0..MaxDrop : Used(a, its[i], i).balance[e] = a.balance[e]
           /\ Books(t, next, ds, dnext, Used(a, its[i], i), Potion, 0)
<1> DEFINE row == its[i]
           n == row.count
           rev == row.revision + 1
           e == Event(i, 0, row, n, n - 1, rev, "consume")
           b == Used(a, row, i)
           entity == <<"inventory", i>>
           trace == [count |-> n - 1, revision |-> rev]
<1>1. /\ i \in Nat \ {0} /\ n \in Nat \ {0} /\ n - 1 \in Nat /\ row.vnum \in Vnum
      /\ row.revision \in Nat \ {0} /\ rev \in Nat
      /\ its \in Bags /\ t \in Bags /\ next \in Nat
      /\ DOMAIN its \subseteq Nat \ {0} /\ DOMAIN t \subseteq Nat
      /\ ds \in Grounds /\ DOMAIN ds \subseteq Nat
  <2>1. i \in Nat \ {0} /\ row.revision \in Nat \ {0} /\ DOMAIN its \subseteq Nat \ {0}
    BY BagRows DEF UsesUp
  <2>2. n \in Nat \ {0} /\ row.vnum \in Vnum /\ next \in Nat /\ its \in Bags /\ t \in Bags
    BY DEF UsesUp
  <2>3. DOMAIN t \subseteq Nat  BY <2>2, BagRows
  <2>4. ds \in Grounds /\ DOMAIN ds \subseteq Nat  BY GroundRows DEF Lying
  <2> HIDE DEF row
  <2> QED BY <2>1, <2>2, <2>3, <2>4
<1>2. /\ e \in Events /\ e.item = i /\ e.drop = 0 /\ e.vnum = row.vnum /\ e.before = n
      /\ e.after = n - 1 /\ e.revision = rev /\ e.cause = "consume"
  <2>1. "consume" \in Causes /\ 0 \in Nat  BY DEF Causes
  <2> DEFINE m == n - 1
             f == Event(i, 0, row, n, m, rev, "consume")
  <2>2. /\ f \in Events /\ f.item = i /\ f.drop = 0 /\ f.vnum = row.vnum /\ f.before = n
        /\ f.after = m /\ f.revision = rev /\ f.cause = "consume"
    <3>1. i \in Nat /\ m \in Nat  BY <1>1
    <3> HIDE DEF row, n, rev, m
    <3>2. EventFits(i, 0, row, n, m, rev, "consume")  BY <2>1, <3>1, <1>1 DEF EventFits
    <3> QED BY <3>2, EventIs
  <2> QED BY <2>2
<1>3. Gain(e) = 0 /\ Loss(e) = 1 /\ Owed(e) = 0 /\ Entity(e) = entity
  <2> HIDE DEF e, n
  <2> QED BY <1>1, <1>2 DEF Gain, Loss, Owed, Entity
<1>4. /\ b \in Audits /\ b.last = With(a.last, entity, trace)
      /\ \A x \in Vnum : b.minted[x] = a.minted[x] + IF x = row.vnum THEN 0 ELSE 0
      /\ \A x \in Vnum : b.burned[x] = a.burned[x] + IF x = row.vnum THEN 1 ELSE 0
      /\ \A f \in 0..MaxDrop : b.balance[f] = a.balance[f] + IF f = 0 THEN 0 ELSE 0
      /\ b.sound <=> a.sound /\ Continues(a, e) /\ CauseFits(a, e)
      /\ b.quests <=> a.quests
  <2>1. b = Recorded(a, e)  BY DEF Used
  <2> HIDE DEF e, row, b, n, rev, entity
  <2> QED BY <2>1, <1>1, <1>2, <1>3, RecordedIs
<1>5. /\ \A x \in Vnum : b.minted[x] = a.minted[x]
      /\ \A f \in 0..MaxDrop : b.balance[f] = a.balance[f]
  <2>1. \A x \in Vnum : a.minted[x] \in Nat  BY KeptAudit
  <2>2. \A f \in 0..MaxDrop : a.balance[f] \in Int  BY AuditFields
  <2> HIDE DEF b
  <2> QED BY <1>4, <2>1, <2>2
<1>6. ASSUME ~b.quests
      PROVE  /\ b.sound /\ Matches(b.last, "inventory", t, next) /\ Aged(b.last, t)
             /\ Matches(b.last, "drops", ds, dnext) /\ Balanced(t, ds, b, Potion, 0)
  <2>1. /\ a.sound /\ Matches(a.last, "inventory", its, next) /\ Aged(a.last, its)
        /\ Matches(a.last, "drops", ds, dnext) /\ Balanced(its, ds, a, Potion, 0)
    <3> HIDE DEF b
    <3> QED BY <1>4, <1>6 DEF Books
  <2>2. a.last \in Tables(Entities, Traces) /\ trace \in Traces /\ entity \in Entities
    <3>1. a.last \in Tables(Entities, Traces)  BY AuditFields
    <3> HIDE DEF n, rev
    <3> QED BY <3>1, <1>1 DEF Traces, Entities
  <2>3. Continues(a, e)
    <3>1. entity \in DOMAIN a.last /\ a.last[entity].count = n
      BY <2>1 DEF Matches, UsesUp
    <3>2. a.last[entity].revision <= row.revision  BY <2>1 DEF Aged, UsesUp
    <3>3. a.last[entity].revision \in Nat
      <4>1. a.last[entity] \in Traces
        <5> HIDE DEF entity
        <5> QED BY <2>2, <3>1, TableRows
      <4> HIDE DEF entity
      <4> QED BY <4>1 DEF Traces
    <3>4. rev > a.last[entity].revision
      <4> HIDE DEF row, entity
      <4> QED BY <3>2, <3>3, <1>1
    <3> HIDE DEF e, entity, n, rev
    <3> QED BY <3>1, <3>4, <1>1, <1>2, <1>3 DEF Continues
  <2>4. CauseFits(a, e)
    <3>1. e.item # 0 /\ e.after = e.before - 1
      <4> HIDE DEF e, n
      <4> QED BY <1>1, <1>2
    <3> HIDE DEF e
    <3> QED BY <3>1, <1>2 DEF CauseFits
  <2>5. Matches(b.last, "inventory", t, next)
    <3>1. /\ DOMAIN t \ {i} = DOMAIN its \ {i}
          /\ \A j \in DOMAIN its \ {i} : t[j].count = its[j].count
          /\ i \in DOMAIN t => t[i].count = n - 1
          /\ i \notin DOMAIN t => n - 1 = 0
          /\ i < next
      BY <1>1 DEF UsesUp
    <3>2. trace.count = n - 1 /\ "inventory" \in {"inventory", "drops"} /\ next <= next
      BY <1>1
    <3>3. Matches(With(a.last, <<"inventory", i>>, trace), "inventory", t, next)
      <4>1. /\ i \in DOMAIN t => t[i].count = trace.count
            /\ i \notin DOMAIN t => trace.count = 0
        BY <3>1, <3>2
      <4> HIDE DEF trace, n
      <4> QED BY <3>1, <3>2, <4>1, <2>1, <2>2, <1>1, MatchesAfter
    <3> HIDE DEF b, trace
    <3> QED BY <3>3, <1>4
  <2>6. Matches(b.last, "drops", ds, dnext)
    <3>1. /\ "inventory" \in {"inventory", "drops"} /\ "drops" \in {"inventory", "drops"}
          /\ "drops" # "inventory" /\ i \in Nat
      BY <1>1
    <3>2. Matches(With(a.last, <<"inventory", i>>, trace), "drops", ds, dnext)
      <4> HIDE DEF trace
      <4> QED BY <3>1, <2>1, <2>2, <1>1, MatchesBeside
    <3> HIDE DEF b, trace
    <3> QED BY <3>2, <1>4
  <2>7. Aged(b.last, t)
    <3> SUFFICES ASSUME NEW j \in DOMAIN t
                 PROVE  b.last[<<"inventory", j>>].revision <= t[j].revision
      BY DEF Aged
    <3>1. CASE j = i
      <4>1. b.last[entity] = trace
        <5> HIDE DEF b, trace
        <5> QED BY <1>4, WithRow
      <4>2. t[i].revision = rev  BY <3>1 DEF UsesUp
      <4>3. b.last[entity].revision = rev  BY <4>1
      <4> HIDE DEF b, rev
      <4> QED BY <3>1, <4>2, <4>3, <1>1
    <3>2. CASE j # i
      <4>1. j \in DOMAIN its /\ t[j] = its[j]  BY <3>2 DEF UsesUp
      <4>2. <<"inventory", j>> \in DOMAIN a.last \ {entity}
        BY <3>2, <4>1, <2>1 DEF Matches
      <4>3. b.last[<<"inventory", j>>] = a.last[<<"inventory", j>>]
        <5> HIDE DEF b, entity, trace
        <5> QED BY <4>2, <1>4, WithOthers
      <4> HIDE DEF b
      <4> QED BY <4>1, <4>3, <2>1 DEF Aged
    <3> QED BY <3>1, <3>2
  <2>8. Balanced(t, ds, b, Potion, 0)
    <3> SUFFICES ASSUME NEW x \in Vnum
                 PROVE  b.minted[x] + (IF x = Potion THEN 0 ELSE 0)
                          = Stock(t, x) + Stock(ds, x) + b.burned[x]
      BY DEF Balanced
    <3>1. Counted(its) /\ Counted(t) /\ Counted(ds)
      <4>1. DOMAIN its \subseteq 1..(next - 1) /\ DOMAIN t \subseteq 1..(next - 1)
        BY DEF UsesUp
      <4> QED BY <1>1, <4>1, BagIsCounted, GroundIsCounted DEF Lying
    <3>2. /\ Stock(its, x) \in Int /\ Stock(t, x) \in Int /\ Stock(ds, x) \in Int
          /\ a.minted[x] \in Nat /\ a.burned[x] \in Nat
      BY <3>1, StockType, KeptAudit
    <3>3. Stock(t, x) = Stock(its, x) - (IF x = row.vnum THEN 1 ELSE 0)
      <4>1. CASE i \in DOMAIN t
        <5>1. DOMAIN t = DOMAIN its /\ SameGoods(its, t, DOMAIN its \ {i})
          BY <4>1 DEF UsesUp, SameGoods
        <5>2. Stock(t, x) = Stock(its, x) - Amount(row, x) + Amount(t[i], x)
          BY <5>1, <3>1, StockChanges DEF UsesUp
        <5>3. t[i].vnum = row.vnum /\ t[i].count = row.count - 1  BY <4>1 DEF UsesUp
        <5> HIDE DEF row
        <5> QED BY <5>2, <5>3, <3>2, <1>1 DEF Amount
      <4>2. CASE i \notin DOMAIN t
        <5>1. /\ DOMAIN its = DOMAIN t \cup {i} /\ SameGoods(t, its, DOMAIN t)
              /\ row.count = 1
          BY <4>2 DEF UsesUp, SameGoods
        <5>2. Stock(its, x) = Stock(t, x) + Amount(row, x)
          BY <5>1, <4>2, <3>1, StockAdds
        <5> HIDE DEF row
        <5> QED BY <5>1, <5>2, <3>2, <1>1 DEF Amount
      <4> QED BY <4>1, <4>2
    <3>4. a.minted[x] + (IF x = Potion THEN 0 ELSE 0)
            = Stock(its, x) + Stock(ds, x) + a.burned[x]
      BY <2>1 DEF Balanced
    <3>5. /\ b.minted[x] = a.minted[x]
          /\ b.burned[x] = a.burned[x] + (IF x = row.vnum THEN 1 ELSE 0)
      <4> HIDE DEF b, row
      <4> QED BY <1>4, <1>5
    <3> HIDE DEF b, row
    <3> QED BY <3>2, <3>3, <3>4, <3>5
  <2>9. b.sound
    <3> HIDE DEF b, e
    <3> QED BY <1>4, <2>1, <2>3, <2>4
  <2> QED BY <2>1, <2>5, <2>6, <2>7, <2>8, <2>9
<1>7. Books(t, next, ds, dnext, b, Potion, 0)
  <2> HIDE DEF b
  <2> QED BY <1>6 DEF Books
<1> QED BY <1>4, <1>5, <1>7

LEMMA MintedIs ==
    ASSUME NEW a \in Audits, NEW given \in [Vnum -> Nat],
           \A x \in Vnum : a.minted[x] = given[x]
    PROVE  a.minted = given
<1>1. a.minted \in [Vnum -> Nat]  BY AuditFields
<1> QED BY <1>1

\* The row of a stack that n units leave.
Lessened(row, n) == [row EXCEPT !.count = @ - n, !.revision = @ + 1]

LEMMA LessenedIs ==
    ASSUME NEW row \in AnyRow, NEW n \in Nat, n <= row.count
    PROVE  /\ Lessened(row, n) \in AnyRow
           /\ Lessened(row, n).owner = row.owner
           /\ Lessened(row, n).vnum = row.vnum
           /\ Lessened(row, n).count = row.count - n
           /\ Lessened(row, n).revision = row.revision + 1
           /\ Lessened(row, n).cell = row.cell
           /\ Lessened(row, n).equipped = row.equipped
<1> DEFINE new == Lessened(row, n)
<1>1. /\ row.owner \in Character /\ row.vnum \in Vnum /\ row.count - n \in Nat
      /\ row.revision + 1 \in Nat \ {0} /\ row.equipped \in BOOLEAN
      /\ row.cell \in Cells \cup {EquippedCell}
  BY DEF AnyRow
<1>2. DOMAIN new = {"owner", "vnum", "count", "revision", "cell", "equipped"}
  BY DEF AnyRow, Lessened
<1>3. /\ new.owner = row.owner /\ new.vnum = row.vnum /\ new.count = row.count - n
      /\ new.revision = row.revision + 1 /\ new.cell = row.cell
  BY DEF AnyRow, Lessened
<1>4. new.equipped = row.equipped  BY DEF AnyRow, Lessened
<1>5. new = [x \in DOMAIN new |-> new[x]]  BY DEF Lessened
<1>6. new = [owner |-> new.owner, vnum |-> new.vnum, count |-> new.count,
             revision |-> new.revision, cell |-> new.cell, equipped |-> new.equipped]
  <2> HIDE DEF new
  <2> QED BY <1>2, <1>5
<1>7. new \in AnyRow
  <2> HIDE DEF new
  <2> QED BY <1>1, <1>3, <1>4, <1>6 DEF AnyRow
<1> QED BY <1>3, <1>4, <1>7

\* What is left when one unit, or the whole row, goes.
LEMMA ThinnedStands ==
    ASSUME NEW s, NEW n, Standing(s, n), NEW i \in DOMAIN s, NEW t \in Bags,
           DOMAIN t \subseteq DOMAIN s, \A j \in DOMAIN t \ {i} : t[j] = s[j],
           i \in DOMAIN t => /\ SameSpot(t[i], s[i]) /\ t[i].count \in 1..Limit[s[i].vnum]
                             /\ t[i].revision = s[i].revision + 1,
           s[i].revision < MaxRevision
    PROVE  Standing(t, n)
<1>1. /\ s \in Bags /\ GridIsSound(s) /\ \A j \in DOMAIN s : s[j].revision <= MaxRevision
      /\ s[i].revision \in Nat /\ MaxRevision \in Nat
  BY BagRows, InventoryAssumption DEF Standing
<1>2. \A j \in DOMAIN t : SameSpot(t[j], s[j]) /\ t[j].count \in 1..Limit[t[j].vnum]
  <2> SUFFICES ASSUME NEW j \in DOMAIN t
               PROVE  SameSpot(t[j], s[j]) /\ t[j].count \in 1..Limit[t[j].vnum]
    OBVIOUS
  <2>1. CASE j = i  BY <2>1 DEF SameSpot
  <2>2. CASE j # i  BY <2>2, <1>1 DEF SameSpot, GridIsSound, RowsAreSound
  <2> QED BY <2>1, <2>2
<1>3. GridIsSound(t)  BY <1>1, <1>2, ThinningKeeps
<1>4. \A j \in DOMAIN t : t[j].revision <= MaxRevision  BY <1>1
<1> QED BY <1>3, <1>4 DEF Standing

LEMMA UseItemKeeps ==
    ASSUME InventoryInv, NEW p, NEW i, NEW revision, UseItem(p, i, revision)
    PROVE  InventoryInv' /\ Revised
<1> DEFINE row == items[i]
           new == Lessened(row, 1)
           left == Without(items, {i})
           less == [items EXCEPT ![i] = new]
<1>1. /\ items \in Bags /\ nextItem \in Nat \ {0} /\ DOMAIN items \subseteq 1..(nextItem - 1)
      /\ Standing(items, nextItem) /\ Lying(drops, nextDrop) /\ audit \in Audits
      /\ i \in DOMAIN items /\ row.revision < MaxRevision
      /\ Books(items, nextItem, drops, nextDrop, audit, Potion, 0)
  BY DEF InventoryInv, Kept, Standing, UseItem, Addresses, Owned
<1>2. /\ row \in AnyRow /\ row.count \in Nat \ {0} /\ row.count \in 1..Limit[row.vnum]
      /\ row.vnum \in Vnum /\ row.revision \in Nat \ {0} /\ Limit[row.vnum] \in Nat
  <2>1. row \in AnyRow /\ row.vnum \in Vnum /\ row.count \in Nat /\ row.revision \in Nat \ {0}
    BY <1>1, BagRows
  <2>2. row.count \in 1..Limit[row.vnum]
    BY <1>1 DEF Standing, GridIsSound, RowsAreSound
  <2>3. Limit[row.vnum] \in Nat  BY <2>1, InventoryAssumption
  <2> HIDE DEF row
  <2> QED BY <2>1, <2>2, <2>3
<1>3. /\ items' = IF row.count = 1 THEN left ELSE less
      /\ audit' = Used(audit, row, i)
      /\ UNCHANGED <<now, active, started, nextItem, drops, nextDrop, awarded>>
  BY DEF UseItem, Consumed, Lessened, Used
<1>4. /\ new \in AnyRow /\ new.owner = row.owner /\ new.vnum = row.vnum
      /\ new.count = row.count - 1 /\ new.revision = row.revision + 1
      /\ new.cell = row.cell /\ new.equipped = row.equipped
  <2>1. 1 \in Nat /\ 1 <= row.count /\ new = Lessened(row, 1)  BY <1>2
  <2> HIDE DEF row, new
  <2> QED BY <1>2, <2>1, LessenedIs
<1>5. /\ left \in Bags /\ DOMAIN left = DOMAIN items \ {i}
      /\ \A j \in DOMAIN items \ {i} : left[j] = items[j]
  BY <1>1, BagWithout
<1>6. /\ less \in Bags /\ DOMAIN less = DOMAIN items /\ less[i] = new
      /\ \A j \in DOMAIN items \ {i} : less[j] = items[j]
  <2> HIDE DEF new
  <2> QED BY <1>1, <1>4, BagExcept
<1>7. /\ items' \in Bags /\ DOMAIN items' \subseteq DOMAIN items
      /\ DOMAIN items \ {i} = DOMAIN items' \ {i}
      /\ \A j \in DOMAIN items \ {i} : items'[j] = items[j]
      /\ i \in DOMAIN items' => items'[i] = new /\ row.count # 1
      /\ i \notin DOMAIN items' => row.count = 1
  <2> HIDE DEF left, less, new, row
  <2>1. CASE row.count = 1  BY <2>1, <1>3, <1>5
  <2>2. CASE row.count # 1  BY <2>2, <1>1, <1>3, <1>6
  <2> QED BY <2>1, <2>2
<1>8. Standing(items', nextItem)
  <2>1. i \in DOMAIN items' => /\ SameSpot(items'[i], items[i])
                               /\ items'[i].count \in 1..Limit[items[i].vnum]
                               /\ items'[i].revision = items[i].revision + 1
    <3> SUFFICES ASSUME i \in DOMAIN items'
                 PROVE  /\ SameSpot(items'[i], row)
                        /\ items'[i].count \in 1..Limit[row.vnum]
                        /\ items'[i].revision = row.revision + 1
      OBVIOUS
    <3> HIDE DEF new, row
    <3> QED BY <1>2, <1>4, <1>7 DEF SameSpot
  <2>2. \A j \in DOMAIN items' \ {i} : items'[j] = items[j]  BY <1>7
  <2> QED BY <2>1, <2>2, <1>1, <1>7, ThinnedStands
<1>9. UsesUp(items, nextItem, items', i)
  <2>1. i \in DOMAIN items' => /\ items'[i].vnum = items[i].vnum
                               /\ items'[i].count = items[i].count - 1
                               /\ items'[i].revision = items[i].revision + 1
    <3> HIDE DEF new
    <3> QED BY <1>4, <1>7
  <2> QED BY <2>1, <1>1, <1>2, <1>7 DEF UsesUp
<1>10. /\ audit' \in Audits
       /\ \A x \in Vnum : audit'.minted[x] = audit.minted[x]
       /\ \A e \in 0..MaxDrop : audit'.balance[e] = audit.balance[e]
       /\ Books(items', nextItem, drops, nextDrop, audit', Potion, 0)
  <2>1. /\ Used(audit, items[i], i) \in Audits
        /\ \A x \in Vnum : Used(audit, items[i], i).minted[x] = audit.minted[x]
        /\ \A e \in 0..MaxDrop : Used(audit, items[i], i).balance[e] = audit.balance[e]
        /\ Books(items', nextItem, drops, nextDrop, Used(audit, items[i], i), Potion, 0)
    BY <1>1, <1>9, UsedKeeps
  <2> QED BY <2>1, <1>3
<1>11. Kept(items', nextItem', drops', nextDrop', audit', awarded')
  <2>1. /\ awarded \in [Vnum -> Nat] /\ audit.minted = awarded
        /\ \A e \in 0..MaxDrop : audit.balance[e] = 0
    BY DEF InventoryInv, Kept
  <2>2. audit'.minted = awarded  BY <2>1, <1>10, MintedIs
  <2>3. /\ nextItem' = nextItem /\ drops' = drops /\ nextDrop' = nextDrop
        /\ awarded' = awarded
    BY <1>3
  <2>4. \A e \in 0..MaxDrop : audit'.balance[e] = 0  BY <2>1, <1>10
  <2> QED BY <2>1, <2>2, <2>3, <2>4, <1>1, <1>8, <1>10 DEF Kept
<1>12. InventoryInv'  BY <1>3, <1>11 DEF InventoryInv, Residents
<1>13. Revised
  <2>1. ASSUME NEW j \in DOMAIN items \cap DOMAIN items', items'[j] # items[j]
        PROVE  items'[j].revision > items[j].revision
    <3>1. j = i /\ items'[i] = new
      <4> HIDE DEF new
      <4> QED BY <2>1, <1>7
    <3> HIDE DEF new
    <3> QED BY <3>1, <1>2, <1>4
  <2> QED BY <2>1, <1>7 DEF Revised
<1> QED BY <1>12, <1>13

-----------------------------------------------------------------------------
(* Stacks on the ground.                                                     *)

Comes(ds, n, row, c, a, t, b) ==
    /\ Lying(ds, n) /\ n <= MaxDrop /\ row \in GroundRow /\ c \in {"progression", "monster"}
    /\ a \in Audits /\ t = With(ds, n, row)
    /\ b = Recorded(a, Event(0, n, row, 0, row.count, 0, c))

LEMMA ComesKeeps ==
    ASSUME NEW its, NEW next, Standing(its, next), NEW ds, NEW n, NEW row, NEW c, NEW a,
           NEW t, NEW b, Comes(ds, n, row, c, a, t, b), Books(its, next, ds, n, a, Potion, 0)
    PROVE  /\ Lying(t, n + 1) /\ b \in Audits
           /\ \A x \in Vnum : b.minted[x] = a.minted[x] + IF x = row.vnum THEN row.count ELSE 0
           /\ \A f \in 0..MaxDrop : b.balance[f] = a.balance[f]
           /\ Books(its, next, t, n + 1, b, Potion, 0)
<1> DEFINE k == row.count
           e == Event(0, n, row, 0, k, 0, c)
           entity == <<"drops", n>>
           trace == [count |-> k, revision |-> 0]
<1>1. /\ n \in Nat \ {0} /\ n \in 0..MaxDrop /\ n <= MaxDrop /\ MaxDrop \in Nat
      /\ n + 1 \in 1..(MaxDrop + 1)
      /\ k \in Nat \ {0} /\ row.vnum \in Vnum /\ row \in GroundRow /\ a \in Audits
      /\ ds \in Grounds /\ DOMAIN ds \subseteq 1..(n - 1) /\ DOMAIN ds \subseteq Nat
      /\ its \in Bags /\ next \in Nat /\ DOMAIN its \subseteq Nat
      /\ DOMAIN its \subseteq 1..(next - 1)
  <2>1. row \in GroundRow /\ k \in Nat \ {0} /\ row.vnum \in Vnum
    BY DEF Comes, GroundRow
  <2>2. n \in 1..(MaxDrop + 1) /\ n <= MaxDrop /\ MaxDrop \in Nat
    BY InventoryAssumption DEF Comes, Lying
  <2>3. n \in Nat \ {0} /\ n \in 0..MaxDrop /\ n + 1 \in 1..(MaxDrop + 1)  BY <2>2
  <2>4. /\ ds \in Grounds /\ DOMAIN ds \subseteq 1..(n - 1) /\ DOMAIN ds \subseteq Nat
        /\ a \in Audits
    BY GroundRows DEF Comes, Lying
  <2>5. /\ its \in Bags /\ next \in Nat /\ DOMAIN its \subseteq Nat
        /\ DOMAIN its \subseteq 1..(next - 1)
    BY BagRows DEF Standing
  <2> HIDE DEF k
  <2> QED BY <2>1, <2>2, <2>3, <2>4, <2>5
<1>2. t = With(ds, n, row) /\ b = Recorded(a, e) /\ c \in {"progression", "monster"}
  BY DEF Comes
<1>3. /\ e \in Events /\ e.item = 0 /\ e.drop = n /\ e.vnum = row.vnum /\ e.before = 0
      /\ e.after = k /\ e.revision = 0 /\ e.cause = c
  <2>1. c \in Causes  BY <1>2 DEF Causes
  <2> HIDE DEF k
  <2>2. EventFits(0, n, row, 0, k, 0, c)  BY <2>1, <1>1 DEF EventFits
  <2> QED BY <2>2, EventIs
<1>4. /\ c # "pickup" /\ c # "quest" /\ c # "consume" /\ c # "expiry"
      /\ c \in {"starter", "progression", "monster"}
  BY <1>2
<1>5. Gain(e) = k /\ Loss(e) = 0 /\ Owed(e) = 0 /\ Entity(e) = entity
  <2> HIDE DEF e, k
  <2> QED BY <1>1, <1>3, <1>4 DEF Gain, Loss, Owed, Entity
<1>6. /\ b \in Audits /\ b.last = With(a.last, entity, trace)
      /\ \A x \in Vnum : b.minted[x] = a.minted[x] + IF x = row.vnum THEN k ELSE 0
      /\ \A x \in Vnum : b.burned[x] = a.burned[x] + IF x = row.vnum THEN 0 ELSE 0
      /\ \A f \in 0..MaxDrop : b.balance[f] = a.balance[f] + IF f = n THEN 0 ELSE 0
      /\ b.sound <=> a.sound /\ Continues(a, e) /\ CauseFits(a, e)
      /\ b.quests <=> a.quests
  <2> HIDE DEF e, k, entity
  <2> QED BY <1>1, <1>2, <1>3, <1>4, <1>5, RecordedIs
<1>7. /\ \A x \in Vnum : b.burned[x] = a.burned[x]
      /\ \A f \in 0..MaxDrop : b.balance[f] = a.balance[f]
  <2>1. \A x \in Vnum : a.burned[x] \in Nat  BY <1>1, KeptAudit
  <2>2. \A f \in 0..MaxDrop : a.balance[f] \in Int  BY <1>1, AuditFields
  <2> QED BY <1>6, <2>1, <2>2
<1>8. /\ DOMAIN t = DOMAIN ds \cup {n} /\ t[n] = row
      /\ \A d \in DOMAIN ds : t[d] = ds[d]
      /\ n \notin DOMAIN ds
  <2>1. DOMAIN t = DOMAIN ds \cup {n}  BY <1>2, WithDomain
  <2>2. t[n] = row  BY <1>2, WithRow
  <2>3. \A d \in DOMAIN ds \ {n} : t[d] = ds[d]  BY <1>2, WithOthers
  <2>4. n \notin DOMAIN ds  BY <1>1
  <2> QED BY <2>1, <2>2, <2>3, <2>4
<1>9. Lying(t, n + 1)
  <2>1. t \in Grounds
    <3>1. ds \in Tables(Ids, GroundRow) /\ n \in Ids  BY <1>1 DEF Grounds, Ids
    <3> QED BY <3>1, <1>1, <1>2, TableWith DEF Grounds
  <2>2. DOMAIN t \subseteq 1..((n + 1) - 1)  BY <1>1, <1>8
  <2> QED BY <2>1, <2>2, <1>1 DEF Lying
<1>10. ASSUME ~b.quests
       PROVE  /\ b.sound /\ Matches(b.last, "inventory", its, next) /\ Aged(b.last, its)
              /\ Matches(b.last, "drops", t, n + 1) /\ Balanced(its, t, b, Potion, 0)
  <2>1. /\ a.sound /\ Matches(a.last, "inventory", its, next) /\ Aged(a.last, its)
        /\ Matches(a.last, "drops", ds, n) /\ Balanced(its, ds, a, Potion, 0)
    BY <1>6, <1>10 DEF Books
  <2>2. a.last \in Tables(Entities, Traces) /\ trace \in Traces /\ entity \in Entities
    <3>1. a.last \in Tables(Entities, Traces)  BY <1>1, AuditFields
    <3> HIDE DEF k
    <3> QED BY <3>1, <1>1 DEF Traces, Entities
  <2>3. Continues(a, e)
    <3>1. entity \notin DOMAIN a.last  BY <2>1, <1>1 DEF Matches
    <3> HIDE DEF e, entity, k
    <3> QED BY <3>1, <1>1, <1>3, <1>5 DEF Continues
  <2>4. CauseFits(a, e)
    <3>1. e.after > e.before
      <4> HIDE DEF e, k
      <4> QED BY <1>1, <1>3
    <3> HIDE DEF e
    <3> QED BY <3>1, <1>3, <1>4 DEF CauseFits
  <2>5. Matches(b.last, "drops", t, n + 1)
    <3>1. /\ DOMAIN t \ {n} = DOMAIN ds \ {n}
          /\ \A d \in DOMAIN ds \ {n} : t[d].count = ds[d].count
          /\ n \in DOMAIN t => t[n].count = trace.count
          /\ n \notin DOMAIN t => trace.count = 0
          /\ n < n + 1 /\ n <= n + 1 /\ n + 1 \in Nat
          /\ DOMAIN t \subseteq Nat
      BY <1>1, <1>8
    <3>2. "drops" \in {"inventory", "drops"}
      OBVIOUS
    <3>3. Matches(With(a.last, <<"drops", n>>, trace), "drops", t, n + 1)
      <4> DEFINE later == n + 1
      <4>1. n < later /\ n <= later /\ later \in Nat  BY <1>1
      <4>2. Matches(With(a.last, <<"drops", n>>, trace), "drops", t, later)
        <5> HIDE DEF trace, later
        <5> QED BY <3>1, <3>2, <4>1, <2>1, <2>2, <1>1, MatchesAfter
      <4> QED BY <4>2
    <3> HIDE DEF trace
    <3> QED BY <3>3, <1>6
  <2>6. Matches(b.last, "inventory", its, next)
    <3>1. /\ "inventory" \in {"inventory", "drops"} /\ "drops" \in {"inventory", "drops"}
          /\ "inventory" # "drops" /\ n \in Nat
      BY <1>1
    <3>2. Matches(With(a.last, <<"drops", n>>, trace), "inventory", its, next)
      <4> HIDE DEF trace
      <4> QED BY <3>1, <2>1, <2>2, <1>1, MatchesBeside
    <3> HIDE DEF trace
    <3> QED BY <3>2, <1>6
  <2>7. Aged(b.last, its)
    <3> SUFFICES ASSUME NEW j \in DOMAIN its
                 PROVE  b.last[<<"inventory", j>>].revision <= its[j].revision
      BY DEF Aged
    <3>1. <<"inventory", j>> \in DOMAIN a.last \ {entity}  BY <2>1 DEF Matches
    <3>2. b.last[<<"inventory", j>>] = a.last[<<"inventory", j>>]
      <4> HIDE DEF entity, trace
      <4> QED BY <3>1, <1>6, WithOthers
    <3> QED BY <3>2, <2>1 DEF Aged
  <2>8. Balanced(its, t, b, Potion, 0)
    <3> SUFFICES ASSUME NEW x \in Vnum
                 PROVE  b.minted[x] + (IF x = Potion THEN 0 ELSE 0)
                          = Stock(its, x) + Stock(t, x) + b.burned[x]
      BY DEF Balanced
    <3>1. Counted(its) /\ Counted(t) /\ Counted(ds)
      <4>1. Counted(its) /\ Counted(ds)  BY <1>1, BagIsCounted, GroundIsCounted
      <4>2. n + 1 \in Nat /\ t \in Grounds /\ DOMAIN t \subseteq 1..((n + 1) - 1)
        BY <1>1, <1>9 DEF Lying
      <4> QED BY <4>1, <4>2, GroundIsCounted
    <3>2. /\ Stock(its, x) \in Int /\ Stock(t, x) \in Int /\ Stock(ds, x) \in Int
          /\ a.minted[x] \in Nat /\ a.burned[x] \in Nat
      BY <1>1, <3>1, StockType, KeptAudit
    <3>3. Stock(t, x) = Stock(ds, x) + (IF x = row.vnum THEN k ELSE 0)
      <4>1. SameGoods(ds, t, DOMAIN ds)  BY <1>8 DEF SameGoods
      <4>2. Stock(t, x) = Stock(ds, x) + Amount(t[n], x)  BY <4>1, <1>8, <3>1, StockAdds
      <4> QED BY <4>2, <1>8, <3>2 DEF Amount
    <3>4. a.minted[x] + (IF x = Potion THEN 0 ELSE 0)
            = Stock(its, x) + Stock(ds, x) + a.burned[x]
      BY <2>1 DEF Balanced
    <3>5. /\ b.minted[x] = a.minted[x] + (IF x = row.vnum THEN k ELSE 0)
          /\ b.burned[x] = a.burned[x]
      BY <1>6, <1>7
    <3> HIDE DEF k
    <3> QED BY <3>2, <3>3, <3>4, <3>5, <1>1
  <2>9. b.sound
    <3> HIDE DEF e
    <3> QED BY <1>6, <2>1, <2>3, <2>4
  <2> QED BY <2>5, <2>6, <2>7, <2>8, <2>9
<1>11. Books(its, next, t, n + 1, b, Potion, 0)  BY <1>10 DEF Books
<1> QED BY <1>6, <1>7, <1>9, <1>11

Goes(ds, n, d, c, a, t, b) ==
    /\ Lying(ds, n) /\ d \in DOMAIN ds /\ c \in {"expiry", "pickup"} /\ a \in Audits
    /\ t \in Grounds /\ DOMAIN t = DOMAIN ds \ {d} /\ \A x \in DOMAIN t : t[x] = ds[x]
    /\ b = Recorded(a, Event(0, d, ds[d], ds[d].count, 0, 0, c))

Parting(c, k) == IF c = "pickup" THEN k ELSE 0

LEMMA GoesKeeps ==
    ASSUME NEW its, NEW next, Standing(its, next), NEW ds, NEW n, NEW d, NEW c, NEW a,
           NEW t, NEW b, Goes(ds, n, d, c, a, t, b),
           Books(its, next, ds, n, a, ds[d].vnum, Parting(c, ds[d].count))
    PROVE  /\ Lying(t, n) /\ b \in Audits
           /\ \A x \in Vnum : b.minted[x] = a.minted[x]
           /\ \A f \in 0..MaxDrop :
                b.balance[f] = a.balance[f] - IF f = d THEN Parting(c, ds[d].count) ELSE 0
           /\ Books(its, next, t, n, b, Potion, 0)
<1> DEFINE row == ds[d]
           k == row.count
           e == Event(0, d, row, k, 0, 0, c)
           entity == <<"drops", d>>
           trace == [count |-> 0, revision |-> 0]
<1>1. /\ n \in Nat /\ d \in Nat \ {0} /\ d < n /\ d \in 0..MaxDrop
      /\ k \in Nat \ {0} /\ row.vnum \in Vnum /\ a \in Audits
      /\ ds \in Grounds /\ DOMAIN ds \subseteq 1..(n - 1) /\ DOMAIN ds \subseteq Nat
      /\ t \in Grounds /\ DOMAIN t \subseteq 1..(n - 1) /\ DOMAIN t \subseteq Nat
      /\ its \in Bags /\ next \in Nat /\ DOMAIN its \subseteq Nat
      /\ DOMAIN its \subseteq 1..(next - 1)
  <2>1. n \in 1..(MaxDrop + 1) /\ MaxDrop \in Nat /\ d \in 1..(n - 1)
    BY InventoryAssumption DEF Goes, Lying
  <2>2. n \in Nat /\ d \in Nat \ {0} /\ d < n /\ d \in 0..MaxDrop  BY <2>1
  <2>3. /\ ds \in Grounds /\ DOMAIN ds \subseteq 1..(n - 1) /\ DOMAIN ds \subseteq Nat
        /\ a \in Audits /\ d \in DOMAIN ds
    BY GroundRows DEF Goes, Lying
  <2>4. k \in Nat \ {0} /\ row.vnum \in Vnum  BY <2>3, GroundRows
  <2>5. t \in Grounds /\ DOMAIN t \subseteq DOMAIN ds  BY DEF Goes
  <2>6. /\ its \in Bags /\ next \in Nat /\ DOMAIN its \subseteq Nat
        /\ DOMAIN its \subseteq 1..(next - 1)
    BY BagRows DEF Standing
  <2> HIDE DEF k, row
  <2> QED BY <2>2, <2>3, <2>4, <2>5, <2>6
<1>2. b = Recorded(a, e) /\ c \in {"expiry", "pickup"}  BY DEF Goes
<1>3. /\ e \in Events /\ e.item = 0 /\ e.drop = d /\ e.vnum = row.vnum /\ e.before = k
      /\ e.after = 0 /\ e.revision = 0 /\ e.cause = c
  <2>1. c \in Causes  BY <1>2 DEF Causes
  <2> HIDE DEF row, k
  <2>2. EventFits(0, d, row, k, 0, 0, c)  BY <2>1, <1>1 DEF EventFits
  <2> QED BY <2>2, EventIs
<1>4. /\ c # "starter" /\ c # "progression" /\ c # "monster" /\ c # "quest"
      /\ c # "consume"
  BY <1>2
<1>5. /\ Gain(e) = 0 /\ Loss(e) = k - Parting(c, k) /\ Owed(e) = 0 - Parting(c, k)
      /\ Entity(e) = entity
  <2>1. CASE c = "pickup"
    <3> HIDE DEF e, k
    <3> QED BY <2>1, <1>1, <1>3 DEF Gain, Loss, Owed, Entity, Parting
  <2>2. CASE c # "pickup"
    <3> HIDE DEF e, k
    <3>1. Parting(c, k) = 0 /\ k - 0 = k /\ 0 - 0 = 0 /\ e.cause # "pickup" /\ 0 < k
      BY <2>2, <1>1, <1>3 DEF Parting
    <3>2. Gain(e) = 0 /\ Owed(e) = 0 /\ Entity(e) = entity
      BY <3>1, <1>1, <1>3 DEF Gain, Owed, Entity
    <3>3. Loss(e) = k  BY <3>1, <1>1, <1>3 DEF Loss
    <3> QED BY <3>1, <3>2, <3>3
  <2> QED BY <2>1, <2>2
<1>6. /\ b \in Audits /\ b.last = With(a.last, entity, trace)
      /\ \A x \in Vnum : b.minted[x] = a.minted[x] + IF x = row.vnum THEN 0 ELSE 0
      /\ \A x \in Vnum : b.burned[x] = a.burned[x] + IF x = row.vnum THEN Loss(e) ELSE 0
      /\ \A f \in 0..MaxDrop : b.balance[f] = a.balance[f] + IF f = d THEN Owed(e) ELSE 0
      /\ b.sound <=> a.sound /\ Continues(a, e) /\ CauseFits(a, e)
      /\ b.quests <=> a.quests
  <2> HIDE DEF e, k, entity, row
  <2> QED BY <1>1, <1>2, <1>3, <1>4, <1>5, RecordedIs
<1>7. /\ \A x \in Vnum : b.minted[x] = a.minted[x]
      /\ \A f \in 0..MaxDrop :
           b.balance[f] = a.balance[f] - IF f = d THEN Parting(c, k) ELSE 0
  <2>1. \A x \in Vnum : a.minted[x] \in Nat  BY <1>1, KeptAudit
  <2>2. \A f \in 0..MaxDrop : a.balance[f] \in Int  BY <1>1, AuditFields
  <2>3. Parting(c, k) \in Nat /\ Owed(e) = 0 - Parting(c, k)
    <3> HIDE DEF k, e
    <3> QED BY <1>1, <1>5 DEF Parting
  <2> HIDE DEF k, e
  <2> QED BY <1>6, <2>1, <2>2, <2>3
<1>8. Lying(t, n)  BY <1>1 DEF Goes, Lying
<1>9. ASSUME ~b.quests
      PROVE  /\ b.sound /\ Matches(b.last, "inventory", its, next) /\ Aged(b.last, its)
             /\ Matches(b.last, "drops", t, n) /\ Balanced(its, t, b, Potion, 0)
  <2>1. /\ a.sound /\ Matches(a.last, "inventory", its, next) /\ Aged(a.last, its)
        /\ Matches(a.last, "drops", ds, n)
        /\ Balanced(its, ds, a, row.vnum, Parting(c, k))
    BY <1>6, <1>9 DEF Books
  <2>2. a.last \in Tables(Entities, Traces) /\ trace \in Traces /\ entity \in Entities
    <3>1. a.last \in Tables(Entities, Traces)  BY <1>1, AuditFields
    <3> QED BY <3>1, <1>1 DEF Traces, Entities
  <2>3. Continues(a, e)
    <3>1. entity \in DOMAIN a.last /\ a.last[entity].count = k
      BY <2>1 DEF Matches, Goes
    <3> HIDE DEF e, entity, k
    <3> QED BY <3>1, <1>1, <1>3, <1>5 DEF Continues
  <2>4. CauseFits(a, e)
    <3>1. e.item = 0 /\ e.after = 0 /\ e.before # 0
      <4> HIDE DEF e, k
      <4> QED BY <1>1, <1>3
    <3>2. CASE c = "pickup"
      <4> HIDE DEF e
      <4> QED BY <3>1, <3>2, <1>3, <1>4 DEF CauseFits
    <3>3. CASE c = "expiry"
      <4> HIDE DEF e
      <4> QED BY <3>1, <3>3, <1>3, <1>4 DEF CauseFits
    <3> QED BY <3>2, <3>3, <1>2
  <2>5. Matches(b.last, "drops", t, n)
    <3>1. /\ DOMAIN t \ {d} = DOMAIN ds \ {d}
          /\ \A x \in DOMAIN ds \ {d} : t[x].count = ds[x].count
          /\ d \notin DOMAIN t
      BY DEF Goes
    <3>2. "drops" \in {"inventory", "drops"} /\ trace.count = 0 /\ n <= n  BY <1>1
    <3>3. Matches(With(a.last, <<"drops", d>>, trace), "drops", t, n)
      <4>1. /\ d \in DOMAIN t => t[d].count = trace.count
            /\ d \notin DOMAIN t => trace.count = 0
        BY <3>1, <3>2
      <4> HIDE DEF trace
      <4> QED BY <3>1, <3>2, <4>1, <2>1, <2>2, <1>1, MatchesAfter
    <3> HIDE DEF trace
    <3> QED BY <3>3, <1>6
  <2>6. Matches(b.last, "inventory", its, next)
    <3>1. /\ "inventory" \in {"inventory", "drops"} /\ "drops" \in {"inventory", "drops"}
          /\ "inventory" # "drops" /\ d \in Nat
      BY <1>1
    <3>2. Matches(With(a.last, <<"drops", d>>, trace), "inventory", its, next)
      <4> HIDE DEF trace
      <4> QED BY <3>1, <2>1, <2>2, <1>1, MatchesBeside
    <3> HIDE DEF trace
    <3> QED BY <3>2, <1>6
  <2>7. Aged(b.last, its)
    <3> SUFFICES ASSUME NEW j \in DOMAIN its
                 PROVE  b.last[<<"inventory", j>>].revision <= its[j].revision
      BY DEF Aged
    <3>1. <<"inventory", j>> \in DOMAIN a.last \ {entity}  BY <2>1 DEF Matches
    <3>2. b.last[<<"inventory", j>>] = a.last[<<"inventory", j>>]
      <4> HIDE DEF entity, trace
      <4> QED BY <3>1, <1>6, WithOthers
    <3> QED BY <3>2, <2>1 DEF Aged
  <2>8. Balanced(its, t, b, Potion, 0)
    <3> SUFFICES ASSUME NEW x \in Vnum
                 PROVE  b.minted[x] + (IF x = Potion THEN 0 ELSE 0)
                          = Stock(its, x) + Stock(t, x) + b.burned[x]
      BY DEF Balanced
    <3>1. Counted(its) /\ Counted(t) /\ Counted(ds)
      BY <1>1, BagIsCounted, GroundIsCounted
    <3>2. /\ Stock(its, x) \in Int /\ Stock(t, x) \in Int /\ Stock(ds, x) \in Int
          /\ a.minted[x] \in Nat /\ a.burned[x] \in Nat
      BY <1>1, <3>1, StockType, KeptAudit
    <3>3. Stock(ds, x) = Stock(t, x) + (IF x = row.vnum THEN k ELSE 0)
      <4>1. SameGoods(t, ds, DOMAIN t) /\ d \notin DOMAIN t /\ DOMAIN ds = DOMAIN t \cup {d}
        BY DEF SameGoods, Goes
      <4>2. Stock(ds, x) = Stock(t, x) + Amount(row, x)  BY <4>1, <3>1, StockAdds
      <4> QED BY <4>2, <3>2 DEF Amount
    <3>4. a.minted[x] + (IF x = row.vnum THEN Parting(c, k) ELSE 0)
            = Stock(its, x) + Stock(ds, x) + a.burned[x]
      BY <2>1 DEF Balanced
    <3>5. /\ b.minted[x] = a.minted[x]
          /\ b.burned[x] = a.burned[x] + (IF x = row.vnum THEN Loss(e) ELSE 0)
      BY <1>6, <1>7
    <3>6. Loss(e) = k - Parting(c, k) /\ Parting(c, k) \in Nat
      <4> HIDE DEF k, e
      <4> QED BY <1>1, <1>5 DEF Parting
    <3> HIDE DEF k, row, e
    <3> QED BY <3>2, <3>3, <3>4, <3>5, <3>6, <1>1
  <2>9. b.sound
    <3> HIDE DEF e
    <3> QED BY <1>6, <2>1, <2>3, <2>4
  <2> QED BY <2>5, <2>6, <2>7, <2>8, <2>9
<1>10. Books(its, next, t, n, b, Potion, 0)  BY <1>9 DEF Books
<1> QED BY <1>6, <1>7, <1>8, <1>10

-----------------------------------------------------------------------------
(* Rewards.                                                                  *)

LEMMA KeptIs ==
    ASSUME NEW its, NEW next, Standing(its, next), NEW ds, NEW n, Lying(ds, n),
           NEW a \in Audits, NEW given \in [Vnum -> Nat],
           \A x \in Vnum : a.minted[x] = given[x], \A e \in 0..MaxDrop : a.balance[e] = 0,
           Books(its, next, ds, n, a, Potion, 0)
    PROVE  Kept(its, next, ds, n, a, given)
  BY MintedIs DEF Kept

LEMMA KeptFacts ==
    ASSUME InventoryInv
    PROVE  /\ Standing(items, nextItem) /\ Lying(drops, nextDrop) /\ audit \in Audits
           /\ awarded \in [Vnum -> Nat] /\ \A x \in Vnum : audit.minted[x] = awarded[x]
           /\ \A e \in 0..MaxDrop : audit.balance[e] = 0
           /\ Books(items, nextItem, drops, nextDrop, audit, Potion, 0)
           /\ now \in Nat /\ active \subseteq started /\ started \subseteq Character
<1>1. now \in Nat  BY InventoryAssumption DEF InventoryInv, Residents
<1> QED BY <1>1 DEF InventoryInv, Kept, Residents

LEMMA AwardIs ==
    ASSUME NEW v \in Vnum, NEW n \in Nat, awarded \in [Vnum -> Nat], Award(v, n)
    PROVE  /\ awarded' \in [Vnum -> Nat]
           /\ \A x \in Vnum : awarded'[x] = awarded[x] + IF x = v THEN n ELSE 0
<1>1. awarded' = [awarded EXCEPT ![v] = @ + n]  BY DEF Award
<1>2. /\ [awarded EXCEPT ![v] = @ + n] \in [Vnum -> Nat]
      /\ \A x \in Vnum : [awarded EXCEPT ![v] = @ + n][x] = awarded[x] + IF x = v THEN n ELSE 0
  BY RaisedIs
<1> QED BY <1>1, <1>2

LEMMA DropRowIs ==
    ASSUME now \in Nat, NEW p \in Character, NEW v \in Vnum, NEW n \in Nat \ {0}
    PROVE  /\ DropRow(p, v, n) \in GroundRow
           /\ DropRow(p, v, n).vnum = v /\ DropRow(p, v, n).count = n
<1>1. now + Reserved \in Nat /\ now + Expires \in Nat  BY InventoryAssumption
<1>2. DropRow(p, v, n) \in GroundRow  BY <1>1 DEF DropRow, GroundRow
<1> QED BY <1>2 DEF DropRow

LEMMA DropItemsKeeps ==
    ASSUME InventoryInv, NEW p, NEW v \in Vnum, NEW n \in Nat \ {0}, DropItems(p, v, n)
    PROVE  InventoryInv' /\ Revised
<1> DEFINE row == DropRow(p, v, n)
<1>1. /\ Standing(items, nextItem) /\ Lying(drops, nextDrop) /\ audit \in Audits
      /\ awarded \in [Vnum -> Nat] /\ \A x \in Vnum : audit.minted[x] = awarded[x]
      /\ \A e \in 0..MaxDrop : audit.balance[e] = 0
      /\ Books(items, nextItem, drops, nextDrop, audit, Potion, 0)
      /\ now \in Nat /\ started \subseteq Character
  BY KeptFacts
<1>2. /\ p \in started /\ nextDrop <= MaxDrop
      /\ drops' = With(drops, nextDrop, row) /\ nextDrop' = nextDrop + 1
      /\ audit' = Recorded(audit, Event(0, nextDrop, row, 0, n, 0, "monster"))
      /\ Award(v, n)
      /\ UNCHANGED <<now, active, started, items, nextItem>>
  BY DEF DropItems
<1>3. row \in GroundRow /\ row.vnum = v /\ row.count = n  BY <1>1, <1>2, DropRowIs
<1>4. Comes(drops, nextDrop, row, "monster", audit, drops', audit')
  <2> HIDE DEF row
  <2> QED BY <1>1, <1>2, <1>3 DEF Comes
<1>5. /\ Lying(drops', nextDrop + 1) /\ audit' \in Audits
      /\ \A x \in Vnum : audit'.minted[x] = audit.minted[x] + IF x = v THEN n ELSE 0
      /\ \A f \in 0..MaxDrop : audit'.balance[f] = audit.balance[f]
      /\ Books(items, nextItem, drops', nextDrop + 1, audit', Potion, 0)
  <2> HIDE DEF row
  <2> QED BY <1>1, <1>3, <1>4, ComesKeeps
<1>6. /\ awarded' \in [Vnum -> Nat]
      /\ \A x \in Vnum : awarded'[x] = awarded[x] + IF x = v THEN n ELSE 0
  BY <1>1, <1>2, AwardIs
<1>7. Kept(items', nextItem', drops', nextDrop', audit', awarded')
  <2>1. items' = items /\ nextItem' = nextItem /\ nextDrop' = nextDrop + 1  BY <1>2
  <2>2. \A x \in Vnum : audit'.minted[x] = awarded'[x]  BY <1>1, <1>5, <1>6
  <2>3. \A e \in 0..MaxDrop : audit'.balance[e] = 0  BY <1>1, <1>5
  <2> QED BY <2>1, <2>2, <2>3, <1>1, <1>5, <1>6, KeptIs
<1>8. InventoryInv'  BY <1>2, <1>7 DEF InventoryInv, Residents
<1> QED BY <1>2, <1>8 DEF Revised

\* The whole of a grant that commits, with nothing left over.
LEMMA GrantKept ==
    ASSUME InventoryInv, NEW p \in Character, NEW v \in Vnum, NEW n \in Nat, NEW c,
           c \in {"starter", "progression", "quest"},
           NEW w, w = Bagged(Work(n), p, v, c, 0), w.ok
    PROVE  /\ w \in Grants(n, v, c, 0, awarded)
           /\ Standing(w.items, w.next) /\ nextItem <= w.next
           /\ \A i \in DOMAIN items \cap DOMAIN w.items :
                w.items[i] # items[i] => w.items[i].revision > items[i].revision
           /\ \A i \in DOMAIN w.items \ DOMAIN items : i >= nextItem
           /\ w.audit \in Audits /\ w.left \in 0..n
           /\ \A x \in Vnum :
                w.audit.minted[x] = awarded[x] + IF x = v THEN n - w.left ELSE 0
           /\ \A e \in 0..MaxDrop : w.audit.balance[e] = 0
           /\ Books(w.items, w.next, drops, nextDrop, w.audit, Potion, 0)
<1>1. GrantFits(n, v, c, 0)
  <2>1. 0 \in 0..MaxDrop /\ c # "pickup"  BY InventoryAssumption
  <2> QED BY <2>1 DEF GrantFits
<1>2. /\ Kept(items, nextItem, drops, nextDrop, audit, awarded)
      /\ Standing(items, nextItem) /\ Lying(drops, nextDrop)
      /\ awarded \in [Vnum -> Nat] /\ c # "pickup"
  BY KeptFacts DEF InventoryInv
<1>3. Work(n) \in Grants(n, v, c, 0, awarded)  BY <1>1, <1>2, GrantBegins
<1>4. w \in Grants(n, v, c, 0, awarded)  BY <1>1, <1>2, <1>3, BaggedKeeps
<1>5. /\ Standing(w.items, w.next) /\ nextItem <= w.next
      /\ \A i \in DOMAIN items \cap DOMAIN w.items :
           w.items[i] # items[i] => w.items[i].revision > items[i].revision
      /\ \A i \in DOMAIN w.items \ DOMAIN items : i >= nextItem
  BY <1>4, GrantStands
<1>6. /\ w.audit \in Audits /\ w.left \in 0..n
      /\ \A x \in Vnum :
           w.audit.minted[x] = awarded[x] + IF x = v THEN n - w.left ELSE 0
      /\ \A e \in 0..MaxDrop : w.audit.balance[e] = 0
      /\ Books(w.items, w.next, drops, nextDrop, w.audit, Potion, 0)
  BY <1>2, <1>4, GrantPaid
<1> QED BY <1>4, <1>5, <1>6

LEMMA QuestGrantKeeps ==
    ASSUME InventoryInv, NEW p, NEW v \in Vnum, NEW n \in Nat, QuestGrant(p, v, n)
    PROVE  InventoryInv' /\ Revised
<1> DEFINE w == Bagged(Work(n), p, v, "quest", 0)
<1>1. /\ Lying(drops, nextDrop) /\ awarded \in [Vnum -> Nat]
      /\ active \subseteq started /\ started \subseteq Character
  BY KeptFacts
<1>2. /\ p \in active /\ w.ok /\ w.left = 0
      /\ items' = w.items /\ nextItem' = w.next /\ audit' = w.audit /\ Award(v, n)
      /\ UNCHANGED <<now, active, started, drops, nextDrop>>
  BY DEF QuestGrant, Placed, Commit
<1>3. /\ Standing(w.items, w.next)
      /\ \A i \in DOMAIN items \cap DOMAIN w.items :
           w.items[i] # items[i] => w.items[i].revision > items[i].revision
      /\ \A i \in DOMAIN w.items \ DOMAIN items : i >= nextItem
      /\ w.audit \in Audits
      /\ \A x \in Vnum : w.audit.minted[x] = awarded[x] + IF x = v THEN n - w.left ELSE 0
      /\ \A e \in 0..MaxDrop : w.audit.balance[e] = 0
      /\ Books(w.items, w.next, drops, nextDrop, w.audit, Potion, 0)
  <2>1. p \in Character /\ "quest" \in {"starter", "progression", "quest"}
    BY <1>1, <1>2
  <2>2. w = Bagged(Work(n), p, v, "quest", 0)
    OBVIOUS
  <2> HIDE DEF w
  <2> QED BY <2>1, <2>2, <1>2, GrantKept
<1>4. /\ awarded' \in [Vnum -> Nat]
      /\ \A x \in Vnum : awarded'[x] = awarded[x] + IF x = v THEN n ELSE 0
  BY <1>1, <1>2, AwardIs
<1> HIDE DEF w
<1>5. Kept(items', nextItem', drops', nextDrop', audit', awarded')
  <2>1. /\ items' = w.items /\ nextItem' = w.next /\ audit' = w.audit
        /\ drops' = drops /\ nextDrop' = nextDrop
    BY <1>2
  <2>2. \A x \in Vnum : audit'.minted[x] = awarded'[x]  BY <2>1, <1>2, <1>3, <1>4
  <2> QED BY <2>1, <2>2, <1>1, <1>3, <1>4, KeptIs
<1>6. InventoryInv'  BY <1>2, <1>5 DEF InventoryInv, Residents
<1> QED BY <1>2, <1>3, <1>6 DEF Revised

LEMMA TickKeeps ==
    ASSUME InventoryInv, Tick
    PROVE  InventoryInv' /\ Revised
<1>1. /\ now < MaxTime /\ now' = now + 1
      /\ UNCHANGED <<active, started, items, nextItem, drops, nextDrop, audit, awarded>>
  BY DEF Tick
<1>2. now' \in 0..MaxTime  BY <1>1, InventoryAssumption DEF InventoryInv, Residents
<1> QED BY <1>1, <1>2 DEF InventoryInv, Residents, Revised

LEMMA LeaveKeeps ==
    ASSUME InventoryInv, NEW p, Leave(p)
    PROVE  InventoryInv' /\ Revised
<1>1. /\ active' = active \ {p}
      /\ UNCHANGED <<now, started, items, nextItem, drops, nextDrop, audit, awarded>>
  BY DEF Leave
<1> QED BY <1>1 DEF InventoryInv, Residents, Revised

\* The kit of a new character: a weapon, then the potions.
LEMMA KitKept ==
    ASSUME InventoryInv, NEW p \in Character,
           NEW weapon, weapon = Bagged(Work(1), p, StarterWeapon, "starter", 0), weapon.left = 0,
           NEW kit, kit = Bagged([weapon EXCEPT !.left = StarterPotions], p, Potion, "starter", 0),
           kit.ok, kit.left = 0
    PROVE  /\ Standing(kit.items, kit.next) /\ nextItem <= kit.next
           /\ \A i \in DOMAIN items \cap DOMAIN kit.items :
                kit.items[i] # items[i] => kit.items[i].revision > items[i].revision
           /\ \A i \in DOMAIN kit.items \ DOMAIN items : i >= nextItem
           /\ kit.audit \in Audits
           /\ \A x \in Vnum :
                kit.audit.minted[x] = awarded[x] + (IF x = StarterWeapon THEN 1 ELSE 0)
                                        + IF x = Potion THEN StarterPotions ELSE 0
           /\ \A e \in 0..MaxDrop : kit.audit.balance[e] = 0
           /\ Books(kit.items, kit.next, drops, nextDrop, kit.audit, Potion, 0)
<1> DEFINE more == [weapon EXCEPT !.left = StarterPotions]
           m == weapon.audit.minted
<1>1. /\ Kept(items, nextItem, drops, nextDrop, audit, awarded)
      /\ Standing(items, nextItem) /\ Lying(drops, nextDrop)
      /\ awarded \in [Vnum -> Nat]
  BY KeptFacts DEF InventoryInv
<1>2. /\ GrantFits(1, StarterWeapon, "starter", 0)
      /\ GrantFits(StarterPotions, Potion, "starter", 0)
      /\ "starter" # "pickup" /\ StarterPotions \in Nat
  <2>1. 0 \in 0..MaxDrop /\ StarterWeapon \in Vnum /\ Potion \in Vnum /\ StarterPotions \in Nat
    BY InventoryAssumption
  <2> QED BY <2>1 DEF GrantFits
<1>3. Work(1) \in Grants(1, StarterWeapon, "starter", 0, awarded)
  BY <1>1, <1>2, GrantBegins
<1>4. weapon \in Grants(1, StarterWeapon, "starter", 0, awarded)
  BY <1>1, <1>2, <1>3, BaggedKeeps
<1>5. more \in Grants(StarterPotions, Potion, "starter", 0, m)
  BY <1>2, <1>4, GrantGoesOn
<1>6. /\ weapon.audit \in Audits /\ weapon.left \in 0..1
      /\ \A x \in Vnum : m[x] = awarded[x] + IF x = StarterWeapon THEN 1 - weapon.left ELSE 0
  <2> DEFINE n == 1
  <2>1. n \in Nat /\ weapon \in Grants(n, StarterWeapon, "starter", 0, awarded)  BY <1>4
  <2> HIDE DEF n
  <2>2. /\ weapon.audit \in Audits /\ weapon.left \in 0..n
        /\ \A x \in Vnum : weapon.audit.minted[x]
              = awarded[x] + IF x = StarterWeapon THEN n - weapon.left ELSE 0
    BY <1>1, <1>2, <2>1, GrantPaid
  <2> QED BY <2>2 DEF n
<1>7. m \in [Vnum -> Nat]  BY <1>6, AuditFields
<1> HIDE DEF more, m
<1>8. kit \in Grants(StarterPotions, Potion, "starter", 0, m)
  <2>1. kit = Bagged(more, p, Potion, "starter", 0)  BY DEF more
  <2> QED BY <2>1, <1>1, <1>2, <1>5, <1>7, BaggedKeeps
<1>9. /\ Standing(kit.items, kit.next) /\ nextItem <= kit.next
      /\ \A i \in DOMAIN items \cap DOMAIN kit.items :
           kit.items[i] # items[i] => kit.items[i].revision > items[i].revision
      /\ \A i \in DOMAIN kit.items \ DOMAIN items : i >= nextItem
  BY <1>8, GrantStands
<1>10. /\ kit.audit \in Audits
       /\ \A x \in Vnum :
            kit.audit.minted[x] = m[x] + IF x = Potion THEN StarterPotions - kit.left ELSE 0
       /\ \A e \in 0..MaxDrop : kit.audit.balance[e] = 0
       /\ Books(kit.items, kit.next, drops, nextDrop, kit.audit, Potion, 0)
  BY <1>2, <1>7, <1>8, GrantPaid
<1>11. ASSUME NEW x \in Vnum
       PROVE  kit.audit.minted[x] = awarded[x] + (IF x = StarterWeapon THEN 1 ELSE 0)
                                      + IF x = Potion THEN StarterPotions ELSE 0
  <2>1. kit.audit.minted[x] = m[x] + IF x = Potion THEN StarterPotions - kit.left ELSE 0
    BY <1>10
  <2>2. m[x] = awarded[x] + IF x = StarterWeapon THEN 1 - weapon.left ELSE 0  BY <1>6
  <2>3. awarded[x] \in Nat  BY <1>1
  <2> QED BY <2>1, <2>2, <2>3, <1>2
<1> QED BY <1>9, <1>10, <1>11

LEMMA EnterKeeps ==
    ASSUME InventoryInv, NEW p \in Character, Enter(p)
    PROVE  InventoryInv' /\ Revised
<1> DEFINE weapon == Bagged(Work(1), p, StarterWeapon, "starter", 0)
           kit == Bagged([weapon EXCEPT !.left = StarterPotions], p, Potion, "starter", 0)
<1>1. /\ Lying(drops, nextDrop) /\ awarded \in [Vnum -> Nat]
      /\ active \subseteq started /\ started \subseteq Character
  BY KeptFacts
<1>2. /\ active' = active \cup {p} /\ UNCHANGED <<now, drops, nextDrop>>
      /\ IF p \in started THEN UNCHANGED <<started, items, nextItem, audit, awarded>>
         ELSE /\ weapon.left = 0 /\ kit.ok /\ kit.left = 0
              /\ items' = kit.items /\ nextItem' = kit.next
              /\ started' = started \cup {p} /\ audit' = kit.audit
              /\ awarded' = [awarded EXCEPT ![StarterWeapon] = @ + 1,
                                            ![Potion] = @ + StarterPotions]
  BY DEF Enter, Placed, Commit
<1>3. CASE p \in started  BY <1>1, <1>2, <1>3 DEF InventoryInv, Residents, Revised
<1>4. CASE p \notin started
  <2>1. /\ weapon.left = 0 /\ kit.ok /\ kit.left = 0
        /\ items' = kit.items /\ nextItem' = kit.next
        /\ started' = started \cup {p} /\ audit' = kit.audit
        /\ awarded' = [awarded EXCEPT ![StarterWeapon] = @ + 1,
                                      ![Potion] = @ + StarterPotions]
    BY <1>2, <1>4
  <2>2. /\ Standing(kit.items, kit.next)
        /\ \A i \in DOMAIN items \cap DOMAIN kit.items :
             kit.items[i] # items[i] => kit.items[i].revision > items[i].revision
        /\ \A i \in DOMAIN kit.items \ DOMAIN items : i >= nextItem
        /\ kit.audit \in Audits
        /\ \A x \in Vnum :
             kit.audit.minted[x] = awarded[x] + (IF x = StarterWeapon THEN 1 ELSE 0)
                                     + IF x = Potion THEN StarterPotions ELSE 0
        /\ \A e \in 0..MaxDrop : kit.audit.balance[e] = 0
        /\ Books(kit.items, kit.next, drops, nextDrop, kit.audit, Potion, 0)
    <3> DEFINE first == weapon
               all == kit
    <3>1. /\ first = Bagged(Work(1), p, StarterWeapon, "starter", 0) /\ first.left = 0
          /\ all = Bagged([first EXCEPT !.left = StarterPotions], p, Potion, "starter", 0)
          /\ all.ok /\ all.left = 0
      BY <2>1
    <3> HIDE DEF first, all
    <3>2. /\ Standing(all.items, all.next)
          /\ \A i \in DOMAIN items \cap DOMAIN all.items :
               all.items[i] # items[i] => all.items[i].revision > items[i].revision
          /\ \A i \in DOMAIN all.items \ DOMAIN items : i >= nextItem
          /\ all.audit \in Audits
          /\ \A x \in Vnum :
               all.audit.minted[x] = awarded[x] + (IF x = StarterWeapon THEN 1 ELSE 0)
                                       + IF x = Potion THEN StarterPotions ELSE 0
          /\ \A e \in 0..MaxDrop : all.audit.balance[e] = 0
          /\ Books(all.items, all.next, drops, nextDrop, all.audit, Potion, 0)
      BY <3>1, KitKept
    <3> QED BY <3>2 DEF first, all
  <2> HIDE DEF weapon, kit
  <2>3. /\ awarded' \in [Vnum -> Nat]
        /\ \A x \in Vnum :
             awarded'[x] = awarded[x] + (IF x = StarterWeapon THEN 1 ELSE 0)
                             + IF x = Potion THEN StarterPotions ELSE 0
    <3> DEFINE one == [awarded EXCEPT ![StarterWeapon] = @ + 1]
    <3>1. StarterPotions \in Nat /\ 1 \in Nat  BY InventoryAssumption
    <3>2. /\ one \in [Vnum -> Nat]
          /\ \A x \in Vnum : one[x] = awarded[x] + IF x = StarterWeapon THEN 1 ELSE 0
      BY <1>1, <3>1, RaisedIs
    <3>3. awarded' = [one EXCEPT ![Potion] = @ + StarterPotions]
      BY <1>1, <2>1, InventoryAssumption
    <3> HIDE DEF one
    <3>4. one \in [Vnum -> Nat] /\ StarterPotions \in Nat  BY <3>1, <3>2
    <3>5. /\ [one EXCEPT ![Potion] = @ + StarterPotions] \in [Vnum -> Nat]
          /\ \A x \in Vnum : [one EXCEPT ![Potion] = @ + StarterPotions][x]
                               = one[x] + IF x = Potion THEN StarterPotions ELSE 0
      BY <3>4, RaisedIs
    <3> QED BY <3>2, <3>3, <3>5
  <2>4. Kept(items', nextItem', drops', nextDrop', audit', awarded')
    <3>1. /\ items' = kit.items /\ nextItem' = kit.next /\ audit' = kit.audit
          /\ drops' = drops /\ nextDrop' = nextDrop
      BY <1>2, <2>1
    <3>2. \A x \in Vnum : audit'.minted[x] = awarded'[x]  BY <3>1, <2>2, <2>3
    <3> QED BY <3>1, <3>2, <1>1, <2>2, <2>3, KeptIs
  <2>5. InventoryInv'  BY <1>1, <1>2, <2>1, <2>4 DEF InventoryInv, Residents
  <2> QED BY <2>1, <2>2, <2>5 DEF Revised
<1> QED BY <1>3, <1>4

-----------------------------------------------------------------------------
(* A reward that does not wait for room: what the bag cannot take.           *)

Heaps == [drops : Grounds, next : Nat, audit : Audits, left : Nat]

LEMMA HeapFields ==
    ASSUME NEW u \in Heaps
    PROVE  u.drops \in Grounds /\ u.next \in Nat /\ u.audit \in Audits /\ u.left \in Nat
  BY DEF Heaps

Heaped(u, ds, next, a, left) == [u EXCEPT !.drops = ds, !.next = next, !.left = left, !.audit = a]

LEMMA HeapedIs ==
    ASSUME NEW u \in Heaps, NEW ds, NEW next, NEW a, NEW left
    PROVE  Heaped(u, ds, next, a, left) = [drops |-> ds, next |-> next, audit |-> a, left |-> left]
<1> DEFINE w == Heaped(u, ds, next, a, left)
<1>1. DOMAIN w = {"drops", "next", "audit", "left"}  BY DEF Heaps, Heaped
<1>2. w.drops = ds /\ w.next = next /\ w.audit = a /\ w.left = left
  BY DEF Heaps, Heaped
<1>3. w = [x \in DOMAIN w |-> w[x]]  BY DEF Heaped
<1>4. w = [drops |-> w.drops, next |-> w.next, audit |-> w.audit, left |-> w.left]
  <2> HIDE DEF w
  <2> QED BY <1>1, <1>3
<1>5. w = [drops |-> ds, next |-> next, audit |-> a, left |-> left]
  <2> HIDE DEF w
  <2> QED BY <1>2, <1>4
<1> QED BY <1>5

\* n of v are to lie on the ground; m was minted when nothing did.
Spilt(u, its, next, n, v, m) ==
    /\ Lying(u.drops, u.next) /\ u.left <= n
    /\ \A x \in Vnum : u.audit.minted[x] = m[x] + IF x = v THEN n - u.left ELSE 0
    /\ \A e \in 0..MaxDrop : u.audit.balance[e] = 0
    /\ Books(its, next, u.drops, u.next, u.audit, Potion, 0)

Spills(its, next, n, v, m) == {u \in Heaps : Spilt(u, its, next, n, v, m)}

LEMMA GroundedKeeps ==
    ASSUME now \in Nat, NEW its, NEW next, Standing(its, next), NEW n \in Nat, NEW v \in Vnum,
           NEW m \in [Vnum -> Nat], NEW p \in Character, NEW u \in Spills(its, next, n, v, m)
    PROVE  Grounded(u, p, v, "progression") \in Spills(its, next, n, v, m)
<1> DEFINE g == Lesser(u.left, Limit[v])
           row == DropRow(p, v, g)
           e == Event(0, u.next, row, 0, g, 0, "progression")
           ds == With(u.drops, u.next, row)
           a == Recorded(u.audit, e)
           w == [drops |-> ds, next |-> u.next + 1, audit |-> a, left |-> u.left - g]
<1>1. /\ u \in Heaps /\ Spilt(u, its, next, n, v, m)
      /\ u.drops \in Grounds /\ u.next \in Nat /\ u.audit \in Audits /\ u.left \in Nat
  BY HeapFields DEF Spills
<1>2. CASE u.left = 0 \/ u.next > MaxDrop
  <2>1. Grounded(u, p, v, "progression") = u  BY <1>2 DEF Grounded
  <2> QED BY <2>1
<1>3. CASE ~(u.left = 0 \/ u.next > MaxDrop)
  <2>1. Grounded(u, p, v, "progression") = w
    <3>1. Heaped(u, ds, u.next + 1, a, u.left - g) = w
      <4> HIDE DEF ds, a, g
      <4> QED BY <1>1, HeapedIs
    <3>2. Grounded(u, p, v, "progression") = Heaped(u, ds, u.next + 1, a, u.left - g)
      BY <1>3 DEF Grounded, Heaped
    <3> QED BY <3>1, <3>2
  <2>2. /\ g \in Nat \ {0} /\ g <= u.left /\ u.left - g \in Nat /\ MaxDrop \in Nat
        /\ u.next <= MaxDrop
    BY <1>1, <1>3, InventoryAssumption DEF Lesser
  <2>3. row \in GroundRow /\ row.vnum = v /\ row.count = g
    <3> HIDE DEF g
    <3> QED BY <2>2, DropRowIs
  <2>4. Comes(u.drops, u.next, row, "progression", u.audit, ds, a)
    <3>1. Lying(u.drops, u.next)  BY <1>1 DEF Spilt
    <3>2. a = Recorded(u.audit, Event(0, u.next, row, 0, row.count, 0, "progression"))
      BY <2>3
    <3> HIDE DEF row, a
    <3> QED BY <3>1, <3>2, <1>1, <2>2, <2>3 DEF Comes
  <2>5. /\ Lying(ds, u.next + 1) /\ a \in Audits
        /\ \A x \in Vnum : a.minted[x] = u.audit.minted[x] + IF x = v THEN g ELSE 0
        /\ \A f \in 0..MaxDrop : a.balance[f] = u.audit.balance[f]
        /\ Books(its, next, ds, u.next + 1, a, Potion, 0)
    <3>1. Books(its, next, u.drops, u.next, u.audit, Potion, 0)  BY <1>1 DEF Spilt
    <3> HIDE DEF row, a, ds, g
    <3> QED BY <3>1, <2>3, <2>4, ComesKeeps
  <2>6. w.drops = ds /\ w.next = u.next + 1 /\ w.audit = a /\ w.left = u.left - g
    OBVIOUS
  <2>7. w \in Heaps
    <3>1. ds \in Grounds  BY <2>5 DEF Lying
    <3>2. u.next + 1 \in Nat  BY <1>1
    <3> HIDE DEF ds, a, g
    <3> QED BY <3>1, <3>2, <2>2, <2>5 DEF Heaps
  <2>8. Spilt(w, its, next, n, v, m)
    <3>1. w.left <= n
      <4> HIDE DEF g, w
      <4> QED BY <1>1, <2>2, <2>6 DEF Spilt
    <3>2. ASSUME NEW x \in Vnum
          PROVE  w.audit.minted[x] = m[x] + IF x = v THEN n - w.left ELSE 0
      <4>1. u.audit.minted[x] = m[x] + IF x = v THEN n - u.left ELSE 0
        BY <1>1 DEF Spilt
      <4>2. w.audit.minted[x] = u.audit.minted[x] + IF x = v THEN g ELSE 0
        <5> HIDE DEF w, a, g
        <5> QED BY <2>5, <2>6
      <4>3. m[x] \in Nat
        OBVIOUS
      <4> HIDE DEF w, g
      <4> QED BY <4>1, <4>2, <4>3, <1>1, <2>2, <2>6
    <3>3. \A f \in 0..MaxDrop : w.audit.balance[f] = 0
      <4> HIDE DEF w, a
      <4> QED BY <1>1, <2>5, <2>6 DEF Spilt
    <3> HIDE DEF w, a, ds
    <3> QED BY <3>1, <3>2, <3>3, <2>5, <2>6 DEF Spilt
  <2>9. w \in Spills(its, next, n, v, m)
    <3> HIDE DEF w
    <3> QED BY <2>7, <2>8 DEF Spills
  <2> QED BY <2>1, <2>9
<1> QED BY <1>2, <1>3

LEMMA GrantAutomaticProgressionKeeps ==
    ASSUME InventoryInv, NEW p, NEW v \in Vnum, NEW n \in Nat,
           GrantAutomaticProgression(p, v, n)
    PROVE  InventoryInv' /\ Revised
<1> DEFINE w == Bagged(Work(n), p, v, "progression", 0)
           u == Overflow(w, p, v)
           m == w.audit.minted
           V == Spills(w.items, w.next, w.left, v, m)
           S == 1..w.left
<1>1. /\ Lying(drops, nextDrop) /\ awarded \in [Vnum -> Nat] /\ now \in Nat
      /\ active \subseteq started /\ started \subseteq Character
  BY KeptFacts
<1>2. /\ p \in started /\ p \in Character /\ w.ok /\ u.left = 0
      /\ items' = w.items /\ nextItem' = w.next
      /\ drops' = u.drops /\ nextDrop' = u.next /\ audit' = u.audit /\ Award(v, n)
      /\ UNCHANGED <<now, active, started>>
  BY <1>1 DEF GrantAutomaticProgression, Commit
<1>3. /\ Standing(w.items, w.next)
      /\ \A i \in DOMAIN items \cap DOMAIN w.items :
           w.items[i] # items[i] => w.items[i].revision > items[i].revision
      /\ \A i \in DOMAIN w.items \ DOMAIN items : i >= nextItem
      /\ w.audit \in Audits /\ w.left \in 0..n
      /\ \A x \in Vnum : w.audit.minted[x] = awarded[x] + IF x = v THEN n - w.left ELSE 0
      /\ \A e \in 0..MaxDrop : w.audit.balance[e] = 0
      /\ Books(w.items, w.next, drops, nextDrop, w.audit, Potion, 0)
  <2>1. "progression" \in {"starter", "progression", "quest"}
    OBVIOUS
  <2>2. w = Bagged(Work(n), p, v, "progression", 0)
    OBVIOUS
  <2> HIDE DEF w
  <2> QED BY <2>1, <2>2, <1>2, GrantKept
<1>4. m \in [Vnum -> Nat] /\ w.left \in Nat /\ n \in Nat
  <2> HIDE DEF w
  <2> QED BY <1>3, AuditFields
<1>5. Ground(w) \in V
  <2> HIDE DEF w
  <2> DEFINE k == Ground(w)
  <2>1. k.drops = drops /\ k.next = nextDrop /\ k.audit = w.audit /\ k.left = w.left
    BY DEF Ground
  <2>2. k \in Heaps
    <3>1. drops \in Grounds /\ nextDrop \in Nat  BY <1>1, InventoryAssumption DEF Lying
    <3> QED BY <3>1, <1>3, <1>4 DEF Ground, Heaps
  <2>3. \A x \in Vnum : w.audit.minted[x] = m[x] + IF x = v THEN w.left - w.left ELSE 0
    <3>1. w.left - w.left = 0 /\ \A x \in Vnum : m[x] \in Nat  BY <1>4
    <3> QED BY <3>1
  <2>4. w.left <= w.left  BY <1>4
  <2>5. Spilt(k, w.items, w.next, w.left, v, m)
    <3> HIDE DEF k, m
    <3> QED BY <2>1, <2>3, <2>4, <1>1, <1>3 DEF Spilt
  <2> HIDE DEF k
  <2>6. k \in V  BY <2>2, <2>5 DEF Spills
  <2> QED BY <2>6 DEF k
<1>6. \A x \in V : Grounded(x, p, v, "progression") \in V
  <2> HIDE DEF w, m
  <2> QED BY <1>1, <1>2, <1>3, <1>4, GroundedKeeps
<1>7. IsFiniteSet(S)
  <2> HIDE DEF w
  <2> QED BY <1>4, FS_Interval
<1>8. u \in V
  <2> DEFINE x == w
  <2>1. S = 1..x.left /\ u = Overflow(x, p, v) /\ Ground(x) \in V  BY <1>5
  <2> HIDE DEF x, V, S, u
  <2> QED BY <2>1, <1>6, <1>7, OverflowStays
<1>9. /\ u \in Heaps /\ u.audit \in Audits /\ Lying(u.drops, u.next)
      /\ \A x \in Vnum : u.audit.minted[x] = m[x] + IF x = v THEN w.left - u.left ELSE 0
      /\ \A e \in 0..MaxDrop : u.audit.balance[e] = 0
      /\ Books(w.items, w.next, u.drops, u.next, u.audit, Potion, 0)
  <2> HIDE DEF u, w, m
  <2> QED BY <1>8, HeapFields DEF Spills, Spilt
<1>10. /\ awarded' \in [Vnum -> Nat]
       /\ \A x \in Vnum : awarded'[x] = awarded[x] + IF x = v THEN n ELSE 0
  BY <1>1, <1>2, AwardIs
<1>11. \A x \in Vnum : u.audit.minted[x] = awarded'[x]
  <2> SUFFICES ASSUME NEW x \in Vnum
               PROVE  u.audit.minted[x] = awarded'[x]
    OBVIOUS
  <2>1. u.audit.minted[x] = m[x] + IF x = v THEN w.left - u.left ELSE 0  BY <1>9
  <2>2. m[x] = awarded[x] + IF x = v THEN n - w.left ELSE 0  BY <1>3
  <2>3. awarded'[x] = awarded[x] + IF x = v THEN n ELSE 0  BY <1>10
  <2>4. awarded[x] \in Nat /\ w.left \in Nat /\ n \in Nat /\ u.left = 0
    BY <1>1, <1>2, <1>4
  <2> HIDE DEF u, w, m
  <2> QED BY <2>1, <2>2, <2>3, <2>4
<1> HIDE DEF u, w, m
<1>12. Kept(items', nextItem', drops', nextDrop', audit', awarded')
  <2>1. /\ items' = w.items /\ nextItem' = w.next /\ audit' = u.audit
        /\ drops' = u.drops /\ nextDrop' = u.next
    BY <1>2
  <2> QED BY <2>1, <1>3, <1>9, <1>10, <1>11, KeptIs
<1>13. InventoryInv'  BY <1>2, <1>12 DEF InventoryInv, Residents
<1> QED BY <1>2, <1>3, <1>13 DEF Revised

-----------------------------------------------------------------------------
(* Stacks that leave the ground.                                             *)

LEMMA PickupItemDropKeeps ==
    ASSUME InventoryInv, NEW p, NEW d \in DOMAIN drops, PickupItemDrop(p, d)
    PROVE  InventoryInv' /\ Revised
<1> DEFINE row == drops[d]
           v == row.vnum
           k == row.count
           w == Bagged(Work(k), p, v, "pickup", d)
<1>1. /\ Standing(items, nextItem) /\ Lying(drops, nextDrop) /\ awarded \in [Vnum -> Nat]
      /\ Kept(items, nextItem, drops, nextDrop, audit, awarded)
      /\ active \subseteq started /\ started \subseteq Character
  BY KeptFacts DEF InventoryInv
<1>2. /\ p \in active /\ p \in Character /\ w.ok /\ w.left = 0
      /\ items' = w.items /\ nextItem' = w.next
      /\ audit' = Recorded(w.audit, Event(0, d, row, row.count, 0, 0, "pickup"))
      /\ drops' = Without(drops, {d})
      /\ UNCHANGED <<now, active, started, nextDrop, awarded>>
  BY <1>1 DEF PickupItemDrop, Placed, Commit
<1>3. /\ v \in Vnum /\ k \in Nat \ {0} /\ d \in 0..MaxDrop /\ drops \in Grounds
  <2>1. d \in 1..(nextDrop - 1) /\ nextDrop \in 1..(MaxDrop + 1) /\ MaxDrop \in Nat
    BY <1>1, InventoryAssumption DEF Lying
  <2>2. d \in 0..MaxDrop  BY <2>1
  <2>3. drops \in Grounds  BY <1>1 DEF Lying
  <2>4. row.vnum \in Vnum /\ row.count \in Nat \ {0}  BY <2>3, GroundRows
  <2> QED BY <2>2, <2>3, <2>4
<1>4. GrantFits(k, v, "pickup", d)
  <2> HIDE DEF k, v
  <2> QED BY <1>3 DEF GrantFits
<1>5. w \in Grants(k, v, "pickup", d, awarded)
  <2>1. Work(k) \in Grants(k, v, "pickup", d, awarded)
    <3> HIDE DEF k, v
    <3> QED BY <1>1, <1>4, GrantBegins
  <2> HIDE DEF k, v
  <2> QED BY <2>1, <1>1, <1>2, <1>4, BaggedKeeps
<1>6. /\ Standing(w.items, w.next)
      /\ \A i \in DOMAIN items \cap DOMAIN w.items :
           w.items[i] # items[i] => w.items[i].revision > items[i].revision
      /\ \A i \in DOMAIN w.items \ DOMAIN items : i >= nextItem
  <2> HIDE DEF w, k, v
  <2> QED BY <1>2, <1>5, GrantStands
<1>7. /\ w.audit \in Audits
      /\ \A x \in Vnum : w.audit.minted[x] = awarded[x]
      /\ \A e \in 0..MaxDrop : w.audit.balance[e] = IF e = d THEN k ELSE 0
      /\ Books(w.items, w.next, drops, nextDrop, w.audit, v, k)
  <2> HIDE DEF w, k, v
  <2>1. w \in Works /\ Paid(w, k, v, "pickup", d, awarded)  BY <1>5 DEF Grants
  <2>2. w.audit \in Audits  BY <2>1, WorkFields
  <2>3. k - w.left = k  BY <1>2, <1>3
  <2>4. \A e : Carried(d, "pickup", k, e) = IF e = d THEN k ELSE 0  BY DEF Carried
  <2>5. ASSUME NEW x \in Vnum
        PROVE  w.audit.minted[x] = awarded[x]
    <3>1. w.audit.minted[x] = Minted(awarded, v, "pickup", k, x) /\ awarded[x] \in Nat
      BY <1>1, <2>1, <2>3 DEF Paid
    <3> QED BY <3>1 DEF Minted
  <2>6. \A e \in 0..MaxDrop : w.audit.balance[e] = IF e = d THEN k ELSE 0
    BY <2>1, <2>3, <2>4 DEF Paid
  <2>7. Books(w.items, w.next, drops, nextDrop, w.audit, v, k)
    BY <2>1, <2>3, <2>4 DEF Paid
  <2> QED BY <2>2, <2>5, <2>6, <2>7
<1>8. Goes(drops, nextDrop, d, "pickup", w.audit, drops', audit')
  <2>1. /\ drops' \in Grounds /\ DOMAIN drops' = DOMAIN drops \ {d}
        /\ \A x \in DOMAIN drops' : drops'[x] = drops[x]
    <3> DEFINE t == Without(drops, {d})
    <3>1. /\ t \in Grounds /\ DOMAIN t = DOMAIN drops \ {d}
          /\ \A x \in DOMAIN drops \ {d} : t[x] = drops[x]
      BY <1>3, GroundWithout
    <3>2. drops' = t  BY <1>2
    <3> HIDE DEF t
    <3> QED BY <3>1, <3>2
  <2> HIDE DEF w
  <2> QED BY <2>1, <1>1, <1>2, <1>7 DEF Goes
<1>9. /\ Lying(drops', nextDrop) /\ audit' \in Audits
      /\ \A x \in Vnum : audit'.minted[x] = w.audit.minted[x]
      /\ \A f \in 0..MaxDrop : audit'.balance[f] = w.audit.balance[f] - IF f = d THEN k ELSE 0
      /\ Books(w.items, w.next, drops', nextDrop, audit', Potion, 0)
  <2>1. Parting("pickup", drops[d].count) = k  BY DEF Parting
  <2>2. Books(w.items, w.next, drops, nextDrop, w.audit, drops[d].vnum,
              Parting("pickup", drops[d].count))
    BY <2>1, <1>7
  <2> HIDE DEF w, k
  <2> QED BY <2>1, <2>2, <1>6, <1>8, GoesKeeps
<1> HIDE DEF w, k
<1>10. Kept(items', nextItem', drops', nextDrop', audit', awarded')
  <2>1. /\ items' = w.items /\ nextItem' = w.next /\ nextDrop' = nextDrop
        /\ awarded' = awarded
    BY <1>2
  <2>2. \A x \in Vnum : audit'.minted[x] = awarded'[x]  BY <2>1, <1>7, <1>9
  <2>3. \A f \in 0..MaxDrop : audit'.balance[f] = 0  BY <1>3, <1>7, <1>9
  <2> QED BY <2>1, <2>2, <2>3, <1>1, <1>6, <1>9, KeptIs
<1>11. InventoryInv'  BY <1>2, <1>10 DEF InventoryInv, Residents
<1> QED BY <1>2, <1>6, <1>11 DEF Revised

\* The books when the drops of T are swept.
Cleared(T, a) ==
    /\ a \in Audits /\ \A x \in Vnum : a.minted[x] = awarded[x]
    /\ \A e \in 0..MaxDrop : a.balance[e] = 0
    /\ Books(items, nextItem, Without(drops, T), nextDrop, a, Potion, 0)

LEMMA ExpiredKeeps ==
    ASSUME InventoryInv, NEW T \in SUBSET DOMAIN drops, NEW d \in T, NEW a, Cleared(T \ {d}, a)
    PROVE  Cleared(T, Expired(a, d))
<1> DEFINE ds == Without(drops, T \ {d})
           t == Without(drops, T)
           b == Expired(a, d)
<1>1. Standing(items, nextItem) /\ Lying(drops, nextDrop) /\ drops \in Grounds
  BY KeptFacts DEF Lying
<1>2. /\ ds \in Grounds /\ DOMAIN ds = DOMAIN drops \ (T \ {d})
      /\ \A x \in DOMAIN drops \ (T \ {d}) : ds[x] = drops[x]
  BY <1>1, GroundWithout
<1>3. /\ t \in Grounds /\ DOMAIN t = DOMAIN drops \ T
      /\ \A x \in DOMAIN drops \ T : t[x] = drops[x]
  BY <1>1, GroundWithout
<1>4. b = Recorded(a, Event(0, d, drops[d], drops[d].count, 0, 0, "expiry"))
  BY DEF Expired
<1> HIDE DEF ds, t, b
<1>5. d \in DOMAIN ds /\ ds[d] = drops[d]  BY <1>2
<1>6. Lying(ds, nextDrop)  BY <1>1, <1>2 DEF Lying
<1>7. /\ a \in Audits /\ \A x \in Vnum : a.minted[x] = awarded[x]
      /\ \A e \in 0..MaxDrop : a.balance[e] = 0
      /\ Books(items, nextItem, ds, nextDrop, a, Potion, 0)
  BY DEF Cleared, ds
<1>8. Goes(ds, nextDrop, d, "expiry", a, t, b)
  BY <1>2, <1>3, <1>4, <1>5, <1>6, <1>7 DEF Goes
<1>9. /\ b \in Audits /\ \A x \in Vnum : b.minted[x] = a.minted[x]
      /\ \A f \in 0..MaxDrop : b.balance[f] = a.balance[f] - IF f = d THEN 0 ELSE 0
      /\ Books(items, nextItem, t, nextDrop, b, Potion, 0)
  <2>1. Parting("expiry", ds[d].count) = 0  BY DEF Parting
  <2>2. Books(items, nextItem, ds, nextDrop, a, ds[d].vnum, Parting("expiry", ds[d].count))
    BY <2>1, <1>7, BooksOfNone
  <2> QED BY <2>1, <2>2, <1>1, <1>8, GoesKeeps
<1>10. \A f \in 0..MaxDrop : b.balance[f] = 0  BY <1>7, <1>9
<1>11. Cleared(T, b)  BY <1>7, <1>9, <1>10 DEF Cleared, t
<1> QED BY <1>11 DEF b

LEMMA ExpireDropsKeeps ==
    ASSUME InventoryInv, ExpireDrops
    PROVE  InventoryInv' /\ Revised
<1> DEFINE late == {d \in DOMAIN drops : now >= drops[d].expires}
           F == [T \in SUBSET late |-> {a \in Audits : Cleared(T, a)}]
<1>1. /\ Standing(items, nextItem) /\ Lying(drops, nextDrop) /\ drops \in Grounds
      /\ awarded \in [Vnum -> Nat] /\ nextDrop \in Nat /\ DOMAIN drops \subseteq 1..(nextDrop - 1)
  BY KeptFacts, InventoryAssumption DEF Lying
<1>2. /\ drops' = Without(drops, late) /\ audit' = Swept(late)
      /\ UNCHANGED <<now, active, started, items, nextItem, nextDrop, awarded>>
  BY DEF ExpireDrops
<1>3. late \in SUBSET DOMAIN drops
  OBVIOUS
<1> HIDE DEF late
<1>4. IsFiniteSet(late)
  <2>1. 1 \in Int /\ nextDrop - 1 \in Int  BY <1>1
  <2>2. IsFiniteSet(1..(nextDrop - 1))  BY <2>1, FS_Interval
  <2>3. late \subseteq 1..(nextDrop - 1)  BY <1>1, <1>3
  <2> QED BY <2>2, <2>3, FS_Subset
<1>5. audit \in F[{}]
  <2>1. Without(drops, {}) = drops
    <3>1. drops = [x \in DOMAIN drops |-> drops[x]]  BY <1>1, TableRows DEF Grounds
    <3>2. Without(drops, {}) = [x \in DOMAIN drops |-> drops[x]]
      BY DEF Without, Restrict
    <3> QED BY <3>1, <3>2
  <2>2. Cleared({}, audit) /\ audit \in Audits  BY <2>1, KeptFacts DEF Cleared
  <2>3. {} \in SUBSET late
    OBVIOUS
  <2> QED BY <2>2, <2>3
<1>6. \A T \in SUBSET late : \A d \in T : \A a \in F[T \ {d}] : Expired(a, d) \in F[T]
  <2> SUFFICES ASSUME NEW T \in SUBSET late, NEW d \in T, NEW a \in F[T \ {d}]
               PROVE  Expired(a, d) \in F[T]
    OBVIOUS
  <2>1. T \ {d} \in SUBSET late /\ T \in SUBSET DOMAIN drops  BY <1>3
  <2>2. Cleared(T \ {d}, a)  BY <2>1
  <2>3. Cleared(T, Expired(a, d))  BY <2>1, <2>2, ExpiredKeeps
  <2>4. Expired(a, d) \in Audits  BY <2>3 DEF Cleared
  <2> QED BY <2>3, <2>4
<1>7. Swept(late) \in F[late]
  <2> HIDE DEF F
  <2> QED BY <1>4, <1>5, <1>6, SweptStays
<1>8. Cleared(late, audit')
  <2>1. late \in SUBSET late
    OBVIOUS
  <2> QED BY <2>1, <1>2, <1>7
<1>9. Lying(drops', nextDrop)
  <2> DEFINE t == Without(drops, late)
  <2>1. t \in Grounds /\ DOMAIN t = DOMAIN drops \ late  BY <1>1, GroundWithout
  <2>2. drops' = t  BY <1>2
  <2> HIDE DEF t
  <2> QED BY <2>1, <2>2, <1>1 DEF Lying
<1>10. Kept(items', nextItem', drops', nextDrop', audit', awarded')
  <2>1. /\ items' = items /\ nextItem' = nextItem /\ nextDrop' = nextDrop
        /\ awarded' = awarded
    BY <1>2
  <2>2. /\ audit' \in Audits /\ \A x \in Vnum : audit'.minted[x] = awarded[x]
        /\ \A e \in 0..MaxDrop : audit'.balance[e] = 0
        /\ Books(items, nextItem, drops', nextDrop, audit', Potion, 0)
    BY <1>2, <1>8 DEF Cleared
  <2> QED BY <2>1, <2>2, <1>1, <1>9, KeptIs
<1>11. InventoryInv'  BY <1>2, <1>10 DEF InventoryInv, Residents
<1> QED BY <1>2, <1>11 DEF Revised

-----------------------------------------------------------------------------
(* Stacks that a quest takes.                                                *)

\* What is left of the bag and of the books while a quest takes.
Collected(u) ==
    /\ Shaped(u) /\ \A x \in Vnum : u.audit.minted[x] = awarded[x]
    /\ \A e \in 0..MaxDrop : u.audit.balance[e] = 0
    /\ Books(u.items, u.next, drops, nextDrop, u.audit, Potion, 0)

LEMMA TakenKeeps ==
    ASSUME InventoryInv, NEW u \in Works, Collected(u), NEW i \in DOMAIN items,
           i \in DOMAIN u.items, u.items[i] = items[i]
    PROVE  /\ Taken(u, i) \in Works /\ Collected(Taken(u, i))
           /\ \A j \in DOMAIN u.items \ {i} :
                j \in DOMAIN Taken(u, i).items /\ Taken(u, i).items[j] = u.items[j]
<1> DEFINE row == u.items[i]
           n == Lesser(u.left, row.count)
           new == Lessened(row, n)
           e == IF n = row.count
                THEN Event(i, 0, row, row.count, row.count, row.revision, "quest")
                ELSE Event(i, 0, row, row.count, row.count - n, row.revision + 1, "quest")
           its == IF n = row.count THEN Without(u.items, {i})
                  ELSE [u.items EXCEPT ![i] = new]
           a == Recorded(u.audit, e)
           ok == u.ok /\ row.revision < MaxRevision
           w == [items |-> its, next |-> u.next, audit |-> a, left |-> u.left - n, ok |-> ok]
<1>1. /\ u.items \in Bags /\ u.next \in Nat \ {0} /\ u.audit \in Audits
      /\ u.left \in Nat /\ u.ok \in BOOLEAN /\ Shaped(u)
      /\ GridIsSound(u.items) /\ DOMAIN u.items \subseteq 1..(u.next - 1)
  BY WorkFields DEF Collected, Shaped
<1>2. CASE u.left = 0
  <2>1. Taken(u, i) = u  BY <1>2 DEF Taken
  <2> QED BY <2>1
<1>3. CASE u.left # 0
  <2>1. Taken(u, i) = w
    <3>1. Rewritten(u, its, a, u.left - n, ok) = w
      <4> HIDE DEF its, a, n, ok
      <4> QED BY RewrittenIs
    <3>2. Taken(u, i) = Rewritten(u, its, a, u.left - n, ok)
      BY <1>3 DEF Taken, Rewritten, Lessened
    <3> QED BY <3>1, <3>2
  <2>2. /\ row \in AnyRow /\ row.count \in 1..Limit[row.vnum] /\ row.vnum \in Vnum
        /\ row.revision \in Nat \ {0} /\ Limit[row.vnum] \in Nat /\ i \in Nat \ {0}
    <3>1. /\ row \in AnyRow /\ row.vnum \in Vnum /\ row.revision \in Nat \ {0}
          /\ i \in Nat \ {0}
      BY <1>1, BagRows
    <3>2. row.count \in 1..Limit[row.vnum]  BY <1>1 DEF GridIsSound, RowsAreSound
    <3>3. Limit[row.vnum] \in Nat  BY <3>1, InventoryAssumption
    <3> HIDE DEF row
    <3> QED BY <3>1, <3>2, <3>3
  <2>3. /\ n \in Nat \ {0} /\ n <= row.count /\ n <= u.left /\ u.left - n \in Nat
        /\ row.count \in Nat /\ row.count - n \in Nat /\ MaxRevision \in Nat
    <3> HIDE DEF row
    <3> QED BY <1>1, <1>3, <2>2, InventoryAssumption DEF Lesser
  <2>4. /\ new \in AnyRow /\ new.owner = row.owner /\ new.vnum = row.vnum
        /\ new.count = row.count - n /\ new.revision = row.revision + 1
        /\ new.cell = row.cell /\ new.equipped = row.equipped
    <3>1. new = Lessened(row, n)
      OBVIOUS
    <3> HIDE DEF row, n, new
    <3> QED BY <3>1, <2>2, <2>3, LessenedIs
  <2>5. /\ its \in Bags /\ DOMAIN its \subseteq DOMAIN u.items
        /\ \A j \in DOMAIN u.items \ {i} : j \in DOMAIN its /\ its[j] = u.items[j]
        /\ i \in DOMAIN its => its[i] = new /\ n < row.count
    <3>1. CASE n = row.count
      <4> DEFINE t == Without(u.items, {i})
      <4>1. /\ t \in Bags /\ DOMAIN t = DOMAIN u.items \ {i}
            /\ \A j \in DOMAIN u.items \ {i} : t[j] = u.items[j]
        BY <1>1, BagWithout
      <4>2. its = t  BY <3>1
      <4> HIDE DEF t, its, new, n, row
      <4> QED BY <4>1, <4>2
    <3>2. CASE n # row.count
      <4> DEFINE t == [u.items EXCEPT ![i] = new]
      <4>1. /\ t \in Bags /\ DOMAIN t = DOMAIN u.items /\ t[i] = new
            /\ \A j \in DOMAIN u.items \ {i} : t[j] = u.items[j]
        <5> HIDE DEF new
        <5> QED BY <1>1, <2>4, BagExcept
      <4>2. its = t  BY <3>2
      <4>3. n < row.count
        <5> HIDE DEF n, row
        <5> QED BY <2>3, <3>2
      <4> HIDE DEF t, its, new, n, row
      <4> QED BY <4>1, <4>2, <4>3
    <3> QED BY <3>1, <3>2
  <2>6. w.items = its /\ w.next = u.next /\ w.audit = a /\ w.left = u.left - n /\ w.ok = ok
    OBVIOUS
  <2>7. /\ e \in Events /\ e.item = i /\ e.drop = 0 /\ e.vnum = row.vnum
        /\ e.before = row.count /\ e.after \in Nat /\ e.after <= row.count
        /\ e.cause = "quest"
    <3>1. "quest" \in Causes /\ 0 \in Nat  BY DEF Causes
    <3>2. CASE n = row.count
      <4> DEFINE f == Event(i, 0, row, row.count, row.count, row.revision, "quest")
      <4>1. EventFits(i, 0, row, row.count, row.count, row.revision, "quest")
        <5> HIDE DEF row
        <5> QED BY <3>1, <2>2, <2>3 DEF EventFits
      <4>2. /\ f \in Events /\ f.item = i /\ f.drop = 0 /\ f.vnum = row.vnum
            /\ f.before = row.count /\ f.after = row.count /\ f.cause = "quest"
        <5> HIDE DEF row
        <5> QED BY <4>1, EventIs
      <4>3. e = f  BY <3>2
      <4> HIDE DEF e, f, row, n
      <4> QED BY <4>2, <4>3, <2>3
    <3>3. CASE n # row.count
      <4> DEFINE m == row.count - n
                 rev == row.revision + 1
                 f == Event(i, 0, row, row.count, m, rev, "quest")
      <4>1. m \in Nat /\ rev \in Nat /\ m <= row.count
        <5> HIDE DEF row, n
        <5> QED BY <2>2, <2>3
      <4>2. /\ f \in Events /\ f.item = i /\ f.drop = 0 /\ f.vnum = row.vnum
            /\ f.before = row.count /\ f.after = m /\ f.cause = "quest"
        <5> HIDE DEF row, m, rev
        <5>1. EventFits(i, 0, row, row.count, m, rev, "quest")
          BY <3>1, <4>1, <2>2, <2>3 DEF EventFits
        <5> QED BY <5>1, EventIs
      <4>3. e = f  BY <3>3
      <4> HIDE DEF e, f, row, n, m
      <4> QED BY <4>1, <4>2, <4>3
    <3> QED BY <3>2, <3>3
  <2>8. Gain(e) = 0 /\ Owed(e) = 0
    <3> HIDE DEF e, row
    <3> QED BY <2>3, <2>7 DEF Gain, Owed
  <2>9. /\ a \in Audits /\ a.quests
        /\ \A x \in Vnum : a.minted[x] = u.audit.minted[x]
        /\ \A f \in 0..MaxDrop : a.balance[f] = u.audit.balance[f]
    <3>1. /\ a \in Audits /\ (a.quests <=> u.audit.quests \/ e.cause = "quest")
          /\ \A x \in Vnum : a.minted[x] = u.audit.minted[x] + IF x = e.vnum THEN Gain(e) ELSE 0
          /\ \A f \in 0..MaxDrop : a.balance[f]
               = u.audit.balance[f] + IF f = e.drop THEN Owed(e) ELSE 0
      <4> HIDE DEF e
      <4> QED BY <1>1, <2>7, RecordedIs
    <3>2. \A x \in Vnum : u.audit.minted[x] \in Nat  BY <1>1, KeptAudit
    <3>3. \A f \in 0..MaxDrop : u.audit.balance[f] \in Int  BY <1>1, AuditFields
    <3> HIDE DEF a, e
    <3> QED BY <3>1, <3>2, <3>3, <2>7, <2>8
  <2>10. w \in Works
    <3>1. ok \in BOOLEAN  BY <1>1
    <3> HIDE DEF its, a, n, ok
    <3> QED BY <3>1, <1>1, <2>3, <2>5, <2>9 DEF Works
  <2>11. GridIsSound(its)
    <3>1. \A j \in DOMAIN its : /\ SameSpot(its[j], u.items[j])
                                /\ its[j].count \in 1..Limit[its[j].vnum]
      <4> SUFFICES ASSUME NEW j \in DOMAIN its
                   PROVE  /\ SameSpot(its[j], u.items[j])
                          /\ its[j].count \in 1..Limit[its[j].vnum]
        OBVIOUS
      <4>1. CASE j = i
        <5>1. its[i] = new /\ n < row.count
          <6> HIDE DEF its, new, n, row
          <6> QED BY <4>1, <2>5
        <5>2. SameSpot(new, row) /\ new.count \in 1..Limit[new.vnum]
          <6> HIDE DEF new, n, row
          <6> QED BY <5>1, <2>2, <2>3, <2>4 DEF SameSpot
        <5> HIDE DEF its, new
        <5> QED BY <4>1, <5>1, <5>2
      <4>2. CASE j # i
        <5>1. its[j] = u.items[j] /\ j \in DOMAIN u.items
          <6> HIDE DEF its, new, n, row
          <6> QED BY <4>2, <2>5
        <5> HIDE DEF its
        <5> QED BY <5>1, <1>1 DEF SameSpot, GridIsSound, RowsAreSound
      <4> QED BY <4>1, <4>2
    <3> HIDE DEF its
    <3> QED BY <3>1, <1>1, <2>5, ThinningKeeps
  <2>12. Shaped(w)
    <3>1. \A j \in DOMAIN its : j # i => its[j] = u.items[j] /\ j \in DOMAIN u.items
      <4> HIDE DEF its, new, n, row
      <4> QED BY <2>5
    <3>2. i \in DOMAIN its => its[i].revision = row.revision + 1
      <4> HIDE DEF its, new, n, row
      <4> QED BY <2>4, <2>5
    <3>3. DOMAIN its \subseteq 1..(u.next - 1)
      <4> HIDE DEF its, new, n, row
      <4> QED BY <1>1, <2>5
    <3>4. ASSUME ok, NEW j \in DOMAIN its
          PROVE  its[j].revision <= MaxRevision
      <4>1. CASE j = i
        <5>1. row.revision < MaxRevision  BY <3>4
        <5> HIDE DEF its, row
        <5> QED BY <4>1, <5>1, <3>2, <2>2, <2>3
      <4>2. CASE j # i
        <5>1. u.ok  BY <3>4
        <5> HIDE DEF its
        <5> QED BY <4>2, <5>1, <3>1, <1>1 DEF Shaped
      <4> QED BY <4>1, <4>2
    <3>5. ASSUME NEW j \in DOMAIN items \cap DOMAIN its, its[j] # items[j]
          PROVE  its[j].revision > items[j].revision
      <4>1. CASE j = i
        <5>1. its[i].revision = row.revision + 1 /\ row.revision \in Nat
          <6> HIDE DEF its, row
          <6> QED BY <4>1, <3>2, <2>2
        <5>2. row.revision = items[i].revision
          OBVIOUS
        <5> HIDE DEF its, row
        <5> QED BY <4>1, <5>1, <5>2
      <4>2. CASE j # i
        <5> HIDE DEF its
        <5> QED BY <3>5, <4>2, <3>1, <1>1 DEF Shaped
      <4> QED BY <4>1, <4>2
    <3>6. \A j \in DOMAIN its \ DOMAIN items : j >= nextItem
      <4> HIDE DEF its, row
      <4> QED BY <3>1, <1>1 DEF Shaped
    <3>7. nextItem <= u.next  BY <1>1 DEF Shaped
    <3> HIDE DEF its, w, ok
    <3> QED BY <2>6, <2>11, <3>3, <3>4, <3>5, <3>6, <3>7 DEF Shaped
  <2>13. Collected(w)
    <3>1. Books(w.items, w.next, drops, nextDrop, w.audit, Potion, 0)
      <4> HIDE DEF w, a
      <4> QED BY <2>6, <2>9 DEF Books
    <3>2. \A x \in Vnum : w.audit.minted[x] = awarded[x]
      <4> HIDE DEF w, a
      <4> QED BY <2>6, <2>9 DEF Collected
    <3>3. \A f \in 0..MaxDrop : w.audit.balance[f] = 0
      <4> HIDE DEF w, a
      <4> QED BY <2>6, <2>9 DEF Collected
    <3> HIDE DEF w
    <3> QED BY <2>12, <3>1, <3>2, <3>3 DEF Collected
  <2>14. \A j \in DOMAIN u.items \ {i} : j \in DOMAIN w.items /\ w.items[j] = u.items[j]
    <3> HIDE DEF w, its, new, n, row
    <3> QED BY <2>5, <2>6
  <2> HIDE DEF w
  <2> QED BY <2>1, <2>10, <2>13, <2>14
<1> QED BY <1>2, <1>3

LEMMA TakenAllKeeps ==
    ASSUME InventoryInv, NEW n \in Nat, NEW S \in SUBSET DOMAIN items
    PROVE  TakenAll(n, S) \in Works /\ Collected(TakenAll(n, S))
<1> DEFINE Untouched(u, T) == \A i \in S \ T : i \in DOMAIN u.items /\ u.items[i] = items[i]
           F == [T \in SUBSET S |-> {u \in Works : Collected(u) /\ Untouched(u, T)}]
           last(T) == Hindmost(items, T)
<1>1. /\ Standing(items, nextItem) /\ items \in Bags /\ nextItem \in Nat \ {0}
      /\ DOMAIN items \subseteq 1..(nextItem - 1) /\ nextItem - 1 \in Nat
      /\ Kept(items, nextItem, drops, nextDrop, audit, awarded)
      /\ Lying(drops, nextDrop) /\ awarded \in [Vnum -> Nat]
  <2>1. Standing(items, nextItem) /\ Lying(drops, nextDrop) /\ awarded \in [Vnum -> Nat]
    BY KeptFacts
  <2>2. /\ items \in Bags /\ nextItem \in Nat \ {0} /\ DOMAIN items \subseteq 1..(nextItem - 1)
    BY <2>1 DEF Standing
  <2>3. nextItem - 1 \in Nat  BY <2>2
  <2> QED BY <2>1, <2>2, <2>3 DEF InventoryInv
<1>2. IsFiniteSet(S)
  <2>1. 1 \in Int /\ nextItem - 1 \in Int  BY <1>1
  <2>2. IsFiniteSet(1..(nextItem - 1))  BY <2>1, FS_Interval
  <2>3. S \subseteq 1..(nextItem - 1)  BY <1>1
  <2> QED BY <2>2, <2>3, FS_Subset
<1>3. \A T \in SUBSET S : T # {} => Hindmost(items, T) \in T
  <2> SUFFICES ASSUME NEW T \in SUBSET S, T # {}
               PROVE  Hindmost(items, T) \in T
    OBVIOUS
  <2>1. T \in SUBSET DOMAIN items
    OBVIOUS
  <2> QED BY <2>1, <1>1, HindmostIsOne
<1>4. Work(n) \in Works /\ Collected(Work(n))
  <2> DEFINE w == Work(n)
  <2>1. GrantFits(n, Potion, "quest", 0)  BY InventoryAssumption DEF GrantFits
  <2>2. w \in Grants(n, Potion, "quest", 0, awarded)  BY <2>1, <1>1, GrantBegins
  <2>3. w.audit = audit /\ w.items = items /\ w.next = nextItem  BY DEF Work
  <2>4. w \in Works /\ Shaped(w)
    <3> HIDE DEF w
    <3> QED BY <2>2 DEF Grants
  <2> HIDE DEF w
  <2>5. Collected(w)  BY <2>3, <2>4, KeptFacts DEF Collected
  <2> QED BY <2>4, <2>5 DEF w
<1>5. Work(n) \in F[{}]
  <2>1. Untouched(Work(n), {})  BY DEF Work
  <2>2. {} \in SUBSET S
    OBVIOUS
  <2> HIDE DEF Untouched
  <2> QED BY <1>4, <2>1, <2>2
<1>6. ASSUME NEW T \in SUBSET S, T # {}, NEW u \in F[T \ {last(T)}]
      PROVE  Taken(u, last(T)) \in F[T]
  <2> DEFINE i == last(T)
             t == Taken(u, i)
  <2>1. i \in T /\ i \in S /\ i \in DOMAIN items /\ T \ {i} \in SUBSET S  BY <1>3, <1>6
  <2>2. u \in Works /\ Collected(u) /\ Untouched(u, T \ {i})
    <3> HIDE DEF Untouched, last
    <3> QED BY <2>1
  <2>3. \A j \in S \ (T \ {i}) : j \in DOMAIN u.items /\ u.items[j] = items[j]  BY <2>2
  <2>4. i \in DOMAIN u.items /\ u.items[i] = items[i]
    <3> HIDE DEF i
    <3> QED BY <2>1, <2>3
  <2>5. /\ t \in Works /\ Collected(t)
        /\ \A j \in DOMAIN u.items \ {i} : j \in DOMAIN t.items /\ t.items[j] = u.items[j]
    <3> HIDE DEF i
    <3> QED BY <2>1, <2>2, <2>4, TakenKeeps
  <2>6. Untouched(t, T)
    <3> SUFFICES ASSUME NEW j \in S \ T
                 PROVE  j \in DOMAIN t.items /\ t.items[j] = items[j]
      OBVIOUS
    <3>1. j # i /\ j \in S \ (T \ {i})
      <4> HIDE DEF i
      <4> QED BY <2>1
    <3>2. j \in DOMAIN u.items /\ u.items[j] = items[j]
      <4> HIDE DEF i
      <4> QED BY <3>1, <2>3
    <3> HIDE DEF t, i
    <3> QED BY <3>1, <3>2, <2>5
  <2> HIDE DEF Untouched, t
  <2>7. t \in F[T]  BY <2>5, <2>6
  <2> QED BY <2>7 DEF t
<1>7. \A T \in SUBSET S : T # {} =>
        \A u \in F[T \ {Hindmost(items, T)}] : Taken(u, Hindmost(items, T)) \in F[T]
  <2> HIDE DEF F
  <2> QED BY <1>6
<1>8. TakenAll(n, S) \in F[S]
  <2> HIDE DEF F
  <2> QED BY <1>2, <1>3, <1>5, <1>7, TakenAllStays
<1>9. S \in SUBSET S
  OBVIOUS
<1> HIDE DEF Untouched
<1> QED BY <1>8, <1>9

LEMMA ConsumeOwnedKeeps ==
    ASSUME InventoryInv, NEW p, NEW v, NEW n \in Nat, ConsumeOwned(p, v, n)
    PROVE  InventoryInv' /\ Revised
<1> DEFINE held == {i \in Owned(items, p) : items[i].vnum = v}
           w == TakenAll(n, held)
<1>1. /\ w.ok /\ items' = w.items /\ nextItem' = w.next /\ audit' = w.audit
      /\ UNCHANGED <<now, active, started, drops, nextDrop, awarded>>
  BY DEF ConsumeOwned, Placed, Commit
<1>2. w \in Works /\ Collected(w)
  <2>1. held \in SUBSET DOMAIN items  BY DEF Owned
  <2> HIDE DEF held
  <2> QED BY <2>1, TakenAllKeeps
<1> HIDE DEF w
<1>3. /\ w.items \in Bags /\ w.next \in Nat \ {0} /\ w.audit \in Audits
      /\ Shaped(w) /\ \A x \in Vnum : w.audit.minted[x] = awarded[x]
      /\ \A e \in 0..MaxDrop : w.audit.balance[e] = 0
      /\ Books(w.items, w.next, drops, nextDrop, w.audit, Potion, 0)
  BY <1>2, WorkFields DEF Collected
<1>4. Standing(w.items, w.next)  BY <1>1, <1>3 DEF Standing, Shaped
<1>5. Lying(drops, nextDrop) /\ awarded \in [Vnum -> Nat]  BY KeptFacts
<1>6. Kept(items', nextItem', drops', nextDrop', audit', awarded')
  <2>1. Kept(w.items, w.next, drops, nextDrop, w.audit, awarded)
    BY <1>3, <1>4, <1>5, KeptIs
  <2> QED BY <2>1, <1>1
<1>7. InventoryInv'  BY <1>1, <1>6 DEF InventoryInv, Residents
<1> QED BY <1>1, <1>3, <1>7 DEF Revised, Shaped

-----------------------------------------------------------------------------
(* The invariant, and what follows from it.                                  *)

LEMMA InitKeeps ==
    ASSUME Init
    PROVE  InventoryInv
<1>1. /\ now = 0 /\ active = {} /\ started = {}
      /\ items = [x \in {} |-> 0] /\ nextItem = 1 /\ drops = [x \in {} |-> 0] /\ nextDrop = 1
      /\ audit = EmptyAudit /\ awarded = [v \in Vnum |-> 0]
  BY DEF Init
<1>2. DOMAIN items = {} /\ DOMAIN drops = {}  BY <1>1
<1>3. items \in Bags /\ drops \in Grounds
  <2>1. items \in [{} -> AnyRow] /\ drops \in [{} -> GroundRow]  BY <1>1
  <2>2. {} \in SUBSET Ids
    OBVIOUS
  <2> QED BY <2>1, <2>2 DEF Bags, Grounds, Tables
<1>4. Standing(items, nextItem)
  <2>1. GridIsSound(items)
    BY <1>2 DEF GridIsSound, RowsAreSound, BagsAreSound, HandsAreSound, Bag, Owned
  <2> QED BY <1>1, <1>2, <1>3, <2>1 DEF Standing
<1>5. Lying(drops, nextDrop)
  <2>1. 1 \in 1..(MaxDrop + 1)  BY InventoryAssumption
  <2> QED BY <1>1, <1>2, <1>3, <2>1 DEF Lying
<1>6. /\ audit.last = [x \in {} |-> 0] /\ audit.minted = [v \in Vnum |-> 0]
      /\ audit.burned = [v \in Vnum |-> 0] /\ audit.balance = [d \in 0..MaxDrop |-> 0]
      /\ audit.sound = TRUE /\ audit.quests = FALSE
  BY <1>1 DEF EmptyAudit
<1>7. audit \in Audits
  <2>1. audit.last \in Tables(Entities, Traces)
    <3>1. audit.last \in [{} -> Traces] /\ {} \in SUBSET Entities  BY <1>6
    <3> QED BY <3>1 DEF Tables
  <2>2. audit = [last |-> audit.last, minted |-> audit.minted, burned |-> audit.burned,
                 balance |-> audit.balance, sound |-> audit.sound, quests |-> audit.quests]
    BY <1>1 DEF EmptyAudit
  <2>3. /\ audit.minted \in [Vnum -> Nat] /\ audit.burned \in [Vnum -> Nat]
        /\ audit.balance \in [0..MaxDrop -> Int]
    BY <1>6
  <2>4. audit.sound \in BOOLEAN /\ audit.quests \in BOOLEAN  BY <1>6
  <2> QED BY <2>1, <2>2, <2>3, <2>4 DEF Audits
<1>8. Books(items, nextItem, drops, nextDrop, audit, Potion, 0)
  <2>1. /\ \A k : Matches(audit.last, k, items, nextItem)
        /\ \A k : Matches(audit.last, k, drops, nextDrop)
    BY <1>2, <1>6 DEF Matches
  <2>2. Aged(audit.last, items)  BY <1>2 DEF Aged
  <2>3. Balanced(items, drops, audit, Potion, 0)
    <3>1. \A x : Stock(items, x) = 0 /\ Stock(drops, x) = 0  BY <1>2, StockOfNone
    <3> QED BY <3>1, <1>6 DEF Balanced
  <2> QED BY <2>1, <2>2, <2>3, <1>6 DEF Books
<1>9. Kept(items, nextItem, drops, nextDrop, audit, awarded)
  <2>1. awarded \in [Vnum -> Nat] /\ \A x \in Vnum : audit.minted[x] = awarded[x]
    BY <1>1, <1>6
  <2>2. \A e \in 0..MaxDrop : audit.balance[e] = 0  BY <1>6
  <2> QED BY <2>1, <2>2, <1>4, <1>5, <1>7, <1>8, KeptIs
<1>10. Residents  BY <1>1, InventoryAssumption DEF Residents
<1> QED BY <1>9, <1>10 DEF InventoryInv

LEMMA StepKeeps ==
    ASSUME InventoryInv, [Next]_vars
    PROVE  InventoryInv' /\ (Revised \/ UNCHANGED vars)
<1>1. CASE UNCHANGED vars
  <2>1. /\ now' = now /\ active' = active /\ started' = started /\ items' = items
        /\ nextItem' = nextItem /\ drops' = drops /\ nextDrop' = nextDrop
        /\ audit' = audit /\ awarded' = awarded
    BY <1>1 DEF vars
  <2> QED BY <2>1, <1>1 DEF InventoryInv, Residents
<1>2. CASE Tick  BY <1>2, TickKeeps
<1>3. CASE ExpireDrops  BY <1>3, ExpireDropsKeeps
<1>4. ASSUME NEW p \in Character, Enter(p)
      PROVE  InventoryInv' /\ Revised
  BY <1>4, EnterKeeps
<1>5. ASSUME NEW p \in Character, Leave(p)
      PROVE  InventoryInv' /\ Revised
  BY <1>5, LeaveKeeps
<1>6. ASSUME NEW p \in Character, Panel(p)
      PROVE  InventoryInv' /\ Revised
  <2>1. PICK i \in Owned(items, p), revision \in 1..MaxRevision :
          \/ EquipItem(p, i, revision)
          \/ UseItem(p, i, revision)
          \/ \E cell \in Cells : MoveItem(p, i, cell, revision)
                                 \/ UnequipItem(p, i, cell, revision)
    BY <1>6 DEF Panel
  <2> QED BY <2>1, EquipItemKeeps, UseItemKeeps, MoveItemKeeps, UnequipItemKeeps
<1>7. ASSUME NEW p \in Character, World(p)
      PROVE  InventoryInv' /\ Revised
  <2>1. PICK reward \in Rewards :
          \/ GrantAutomaticProgression(p, reward[1], reward[2])
          \/ DropItems(p, reward[1], reward[2])
          \/ QuestGrant(p, reward[1], reward[2])
          \/ ConsumeOwned(p, reward[1], reward[2])
    BY <1>7 DEF World
  <2>2. reward[1] \in Vnum /\ reward[2] \in Nat \ {0} /\ reward[2] \in Nat
    BY InventoryAssumption
  <2>3. CASE GrantAutomaticProgression(p, reward[1], reward[2])
    BY <2>2, <2>3, GrantAutomaticProgressionKeeps
  <2>4. CASE DropItems(p, reward[1], reward[2])  BY <2>2, <2>4, DropItemsKeeps
  <2>5. CASE QuestGrant(p, reward[1], reward[2])  BY <2>2, <2>5, QuestGrantKeeps
  <2>6. CASE ConsumeOwned(p, reward[1], reward[2])  BY <2>2, <2>6, ConsumeOwnedKeeps
  <2> QED BY <2>1, <2>3, <2>4, <2>5, <2>6
<1>8. ASSUME NEW p \in Character, NEW d \in DOMAIN drops, PickupItemDrop(p, d)
      PROVE  InventoryInv' /\ Revised
  BY <1>8, PickupItemDropKeeps
<1> QED BY <1>1, <1>2, <1>3, <1>4, <1>5, <1>6, <1>7, <1>8 DEF Next

LEMMA TypesHold ==
    ASSUME InventoryInv
    PROVE  TypeOK
<1>1. /\ Standing(items, nextItem) /\ Lying(drops, nextDrop) /\ awarded \in [Vnum -> Nat]
      /\ items \in Bags /\ drops \in Grounds /\ GridIsSound(items)
      /\ DOMAIN items \subseteq 1..(nextItem - 1) /\ nextItem \in Nat \ {0}
      /\ DOMAIN drops \subseteq 1..(nextDrop - 1) /\ nextDrop \in 1..(MaxDrop + 1)
      /\ \A i \in DOMAIN items : items[i].revision <= MaxRevision
  BY KeptFacts DEF Standing, Lying
<1>2. items \in [DOMAIN items -> ItemRow]
  <2>1. ASSUME NEW i \in DOMAIN items
        PROVE  items[i] \in ItemRow
    <3>1. items[i] \in AnyRow /\ items[i].revision \in Nat \ {0}  BY <1>1, BagRows
    <3>2. items[i].revision \in 1..MaxRevision  BY <1>1, <3>1, InventoryAssumption
    <3> QED BY <3>1, <3>2 DEF AnyRow, ItemRow
  <2>2. items = [i \in DOMAIN items |-> items[i]]  BY <1>1, BagRows
  <2> QED BY <2>1, <2>2
<1>3. drops \in [DOMAIN drops -> GroundRow]
  <2>1. drops = [d \in DOMAIN drops |-> drops[d]] /\ \A d \in DOMAIN drops : drops[d] \in GroundRow
    BY <1>1, TableRows DEF Grounds
  <2> QED BY <2>1
<1>4. \A i \in DOMAIN items : /\ items[i].count \in 1..Limit[items[i].vnum]
                              /\ items[i].equipped <=> items[i].cell = EquippedCell
  BY <1>1 DEF GridIsSound, RowsAreSound
<1>5. now \in 0..MaxTime /\ active \subseteq started /\ started \subseteq Character
  BY DEF InventoryInv, Residents
<1> QED BY <1>1, <1>2, <1>3, <1>4, <1>5 DEF TypeOK

LEMMA BagHolds ==
    ASSUME InventoryInv
    PROVE  BagIsSound
<1>1. BagsAreSound(items) /\ HandsAreSound(items)
  BY KeptFacts DEF Standing, GridIsSound
<1> QED BY <1>1 DEF BagsAreSound, HandsAreSound, Apart, BagIsSound

\* Every trace that is not spent is of a row, and every row has one.
LEMMA AuditHolds ==
    ASSUME InventoryInv, ~audit.quests
    PROVE  AuditedStockIsLive
<1> DEFINE last == audit.last
           live == {x \in DOMAIN last : last[x].count # 0}
           L == {<<e, last[e].count>> : e \in live}
           I == {<<<<"inventory", i>>, items[i].count>> : i \in DOMAIN items}
           D == {<<<<"drops", d>>, drops[d].count>> : d \in DOMAIN drops}
<1>1. /\ Matches(last, "inventory", items, nextItem)
      /\ Matches(last, "drops", drops, nextDrop)
      /\ last \in Tables(Entities, Traces) /\ items \in Bags /\ drops \in Grounds
      /\ GridIsSound(items)
  <2>1. /\ audit \in Audits /\ Standing(items, nextItem) /\ Lying(drops, nextDrop)
        /\ Books(items, nextItem, drops, nextDrop, audit, Potion, 0)
    BY KeptFacts
  <2>2. /\ Matches(last, "inventory", items, nextItem)
        /\ Matches(last, "drops", drops, nextDrop)
    BY <2>1, BooksType
  <2>3. last \in Tables(Entities, Traces)  BY <2>1, AuditFields
  <2>4. items \in Bags /\ drops \in Grounds /\ GridIsSound(items)
    BY <2>1 DEF Standing, Lying
  <2> QED BY <2>2, <2>3, <2>4
<1>2. ASSUME NEW e \in live
      PROVE  <<e, last[e].count>> \in I \cup D
  <2>1. e \in Entities /\ e \in DOMAIN last /\ last[e].count # 0  BY <1>1, TableRows
  <2>2. PICK kind \in {"inventory", "drops"}, id \in Nat : e = <<kind, id>>
    BY <2>1 DEF Entities
  <2>3. CASE kind = "inventory"
    <3>1. id \in DOMAIN items  BY <2>1, <2>2, <2>3, <1>1 DEF Matches
    <3>2. last[<<"inventory", id>>].count = items[id].count  BY <3>1, <1>1 DEF Matches
    <3>3. <<e, last[e].count>> = <<<<"inventory", id>>, items[id].count>>
      BY <2>2, <2>3, <3>2
    <3> HIDE DEF last
    <3> QED BY <3>1, <3>3
  <2>4. CASE kind = "drops"
    <3>1. id \in DOMAIN drops  BY <2>1, <2>2, <2>4, <1>1 DEF Matches
    <3>2. last[<<"drops", id>>].count = drops[id].count  BY <3>1, <1>1 DEF Matches
    <3>3. <<e, last[e].count>> = <<<<"drops", id>>, drops[id].count>>
      BY <2>2, <2>4, <3>2
    <3> HIDE DEF last
    <3> QED BY <3>1, <3>3
  <2> QED BY <2>2, <2>3, <2>4
<1>3. ASSUME NEW i \in DOMAIN items
      PROVE  <<<<"inventory", i>>, items[i].count>> \in L
  <2>1. <<"inventory", i>> \in DOMAIN last /\ last[<<"inventory", i>>].count = items[i].count
    BY <1>1 DEF Matches
  <2>2. items[i].count # 0
    <3>1. items[i].count \in 1..Limit[items[i].vnum] /\ items[i].vnum \in Vnum
      BY <1>1, BagRows DEF GridIsSound, RowsAreSound
    <3>2. Limit[items[i].vnum] \in Nat  BY <3>1, InventoryAssumption
    <3> QED BY <3>1, <3>2
  <2> DEFINE e == <<"inventory", i>>
  <2>3. e \in live /\ last[e].count = items[i].count  BY <2>1, <2>2
  <2>4. <<e, items[i].count>> \in L
    <3> HIDE DEF live, e, last
    <3> QED BY <2>3
  <2> QED BY <2>4
<1>4. ASSUME NEW d \in DOMAIN drops
      PROVE  <<<<"drops", d>>, drops[d].count>> \in L
  <2>1. <<"drops", d>> \in DOMAIN last /\ last[<<"drops", d>>].count = drops[d].count
    BY <1>1 DEF Matches
  <2>2. drops[d].count # 0  BY <1>1, GroundRows
  <2> DEFINE e == <<"drops", d>>
  <2>3. e \in live /\ last[e].count = drops[d].count  BY <2>1, <2>2
  <2>4. <<e, drops[d].count>> \in L
    <3> HIDE DEF live, e, last
    <3> QED BY <2>3
  <2> QED BY <2>4
<1>5. L = I \cup D
  <2>1. L \subseteq I \cup D
    <3> HIDE DEF I, D, live, last
    <3> QED BY <1>2
  <2>2. I \subseteq L
    <3> HIDE DEF L
    <3> QED BY <1>3
  <2>3. D \subseteq L
    <3> HIDE DEF L
    <3> QED BY <1>4
  <2> QED BY <2>1, <2>2, <2>3
<1> QED BY <1>5, Zenon DEF AuditedStockIsLive

LEMMA AccountsHold ==
    ASSUME InventoryInv
    PROVE  GoodsAreAccountedFor
<1>1. /\ Standing(items, nextItem) /\ Lying(drops, nextDrop)
      /\ audit \in Audits /\ audit.minted = awarded
      /\ \A e \in 0..MaxDrop : audit.balance[e] = 0
      /\ Books(items, nextItem, drops, nextDrop, audit, Potion, 0)
  BY DEF InventoryInv, Kept
<1>2. PickupsBalance
  <2>1. DOMAIN audit.balance = 0..MaxDrop  BY <1>1, AuditFields
  <2> QED BY <2>1, <1>1 DEF PickupsBalance
<1>3. ASSUME ~audit.quests
      PROVE  HistoryIsAChain /\ QuantitiesBalance
  <2>1. audit.sound /\ Balanced(items, drops, audit, Potion, 0)
    BY <1>1, <1>3, BooksType
  <2>2. \A x \in Vnum : audit.minted[x] = Quantity(x) + audit.burned[x]
    <3> SUFFICES ASSUME NEW x \in Vnum
                 PROVE  audit.minted[x] = Quantity(x) + audit.burned[x]
      OBVIOUS
    <3>1. audit.minted[x] \in Nat  BY <1>1, KeptAudit
    <3>2. audit.minted[x] + (IF x = Potion THEN 0 ELSE 0)
            = Stock(items, x) + Stock(drops, x) + audit.burned[x]
      BY <2>1 DEF Balanced
    <3> QED BY <3>1, <3>2 DEF Quantity
  <2> QED BY <2>1, <2>2 DEF HistoryIsAChain, QuantitiesBalance
<1>4. ~audit.quests => AuditedStockIsLive  BY AuditHolds
<1> QED BY <1>1, <1>2, <1>3, <1>4 DEF GoodsAreAccountedFor, AwardsArePaid

\* The bags, the ground and the books stay as the invariant says.
THEOREM InventoryCorrect == Spec => []InventoryInv
<1>1. Init => InventoryInv  BY InitKeeps
<1>2. InventoryInv /\ [Next]_vars => InventoryInv'  BY StepKeeps
<1> QED BY <1>1, <1>2, PTL DEF Spec

\* However items are moved, stacked, picked up, used up and put into the hand,
\* the grid of every bag is sound (can_place, insert_stack, equip_item).
THEOREM InventoryIsSoundCorrect == Spec => []InventoryIsSound
<1>1. InventoryInv => InventoryIsSound  BY TypesHold, BagHolds DEF InventoryIsSound
<1> QED BY <1>1, InventoryCorrect, PTL

\* Every reward is paid in full, and as long as no quest has touched the stock
\* the history of the items accounts for all of it (record_item_event).
THEOREM GoodsAreAccountedForCorrect == Spec => []GoodsAreAccountedFor
<1>1. InventoryInv => GoodsAreAccountedFor  BY AccountsHold
<1> QED BY <1>1, InventoryCorrect, PTL

\* A row that changes gets a higher revision and no id comes back
\* (next_revision, inventory_item's auto_inc).
THEOREM RevisionAdvancesCorrect == Spec => RevisionAdvances
<1>1. InventoryInv /\ [Next]_vars =>
        [/\ \A i \in DOMAIN items \cap DOMAIN items' :
                items'[i] # items[i] => items'[i].revision > items[i].revision
         /\ \A i \in DOMAIN items' \ DOMAIN items : i >= nextItem]_vars
  BY StepKeeps DEF Revised
<1> QED BY <1>1, InventoryCorrect, PTL DEF Spec, RevisionAdvances
=============================================================================
