-------------------------- MODULE PopulationProofs --------------------------
(* Proofs about Population, for every set of builds, their registries, mobs  *)
(* and authored monsters, and any number of deaths.                          *)
EXTENDS Population, Induction

-----------------------------------------------------------------------------
(* The inductive invariant, of the tables before or after mob_regeneration   *)
(* adds to them: besides what CapacityIsHeld says, the entry of a group has  *)
(* a row, no owner is beyond the last one its row remembers, an origin leads *)
(* to a group that covers it, and what has lost its origin holds capacity.   *)

TableTypes(c, rows, groups, origins, monsters) ==
    /\ c \in Nat
    /\ DOMAIN rows \subseteq Entry /\ rows \in [DOMAIN rows -> Row]
    /\ DOMAIN groups \subseteq 1..c
    /\ groups \in [DOMAIN groups -> [entry : Entry, last : 1..c]]
    /\ DOMAIN monsters \subseteq 1..c
    /\ monsters \in [DOMAIN monsters -> [alive : BOOLEAN, wait : 0..CorpseTime]]
    /\ DOMAIN origins \subseteq DOMAIN monsters
    /\ origins \in [DOMAIN origins -> 0..c]

OwnersAreThere(c, rows, monsters) ==
    \A e \in DOMAIN rows : /\ rows[e].owners \subseteq DOMAIN monsters /\ rows[e].last <= c
                           /\ \A o \in rows[e].owners : o <= rows[e].last

GroupsAreHeld(rows, groups, monsters) ==
    \A g \in DOMAIN groups :
      /\ groups[g].entry \in DOMAIN rows
      /\ g \in DOMAIN monsters <=> g \in rows[groups[g].entry].owners

OriginsResolve(groups, origins) ==
    \A m \in DOMAIN origins :
      origins[m] # 0 => /\ origins[m] \in DOMAIN groups
                        /\ m \in origins[m]..groups[origins[m]].last

StraysHold(rows, origins, monsters) ==
    \A m \in DOMAIN monsters \ DOMAIN origins : \E e \in DOMAIN rows : m \in rows[e].owners

Accounted(c, rows, groups, origins, monsters) ==
    /\ TableTypes(c, rows, groups, origins, monsters)
    /\ OwnersAreThere(c, rows, monsters)
    /\ GroupsAreHeld(rows, groups, monsters)
    /\ OriginsResolve(groups, origins)
    /\ StraysHold(rows, origins, monsters)

Marks == installed \in Build /\ marker \in Build \cup {NoBuild} /\ kills \in 0..MaxKills

\* Every monster is something, a mob or a spawn of some build.
Shaped(monsters, shapes) == shapes \in [DOMAIN monsters -> Mob \cup Spawn]

PopulationInv ==
    Marks /\ Accounted(cursor, row, group, origin, monster) /\ Shaped(monster, shape)

USE PopulationAssumption

LEMMA CapacityFollows == PopulationInv => CapacityIsHeld
  BY DEF PopulationInv, Marks, Accounted, TableTypes, OwnersAreThere, GroupsAreHeld, Shaped,
         CapacityIsHeld, TypeOK, LeadersHoldCapacity

\* A freeze that nothing explains would need an origin that leads nowhere, a
\* leader that holds nothing or an owner that is no id.
LEMMA FreezeFollows == PopulationInv => FreezeIsExplained
<1> SUFFICES ASSUME PopulationInv, SimulateFails,
                    \A e \in Defined \cap DOMAIN row : ~Outgrown(e),
                    \A m \in DOMAIN origin : Knows(m)
             PROVE  \E e \in DOMAIN row, m \in DOMAIN monster \ DOMAIN origin :
                       m \in row[e].owners
  BY DEF FreezeIsExplained
<1>1. Accounted(cursor, row, group, origin, monster)  BY DEF PopulationInv
<1>2. \A e \in Defined \cap DOMAIN row : Restores(e)
  <2> SUFFICES ASSUME NEW e \in Defined \cap DOMAIN row PROVE Restores(e)
    OBVIOUS
  <2>1. ~(Cardinality(row[e].owners) > Def(e).capacity)
        /\ ~(Def(e).interval = 0 /\ ~ row[e].initial)
    BY DEF Outgrown
  <2>2. \A o \in row[e].owners : o # 0 /\ o <= row[e].last
    BY <1>1 DEF Accounted, OwnersAreThere, TableTypes
  <2>3. IsFiniteSet(row[e].owners)
    <3>1. row[e].owners \subseteq 1..cursor /\ cursor \in Nat
      BY <1>1 DEF Accounted, OwnersAreThere, TableTypes
    <3>2. IsFiniteSet(1..cursor)  BY <3>1, FS_Interval
    <3> QED BY <3>1, <3>2, FS_Subset
  <2>4. Cardinality(row[e].owners) \in Nat /\ Def(e).capacity \in Nat
    <3>1. Registry[installed] \in [DOMAIN Registry[installed] -> Definition]
      BY DEF PopulationInv, Marks
    <3> QED BY <2>3, <3>1, FS_CardinalityType DEF Def, Defined, Definition
  <2> QED BY <2>1, <2>2, <2>4 DEF Restores
<1>3. PICK m \in DOMAIN monster : ~Resolves(m) \/ HoldsNothing(m)
  BY <1>2 DEF SimulateFails
<1>4. ~HoldsNothing(m)  BY <1>1 DEF Accounted, GroupsAreHeld, HoldsNothing
<1>5. m \notin DOMAIN origin
  BY <1>1, <1>3, <1>4 DEF Resolves, Accounted, OriginsResolve
<1> QED BY <1>1, <1>5 DEF Accounted, StraysHold

-----------------------------------------------------------------------------
(* The ids of the groups placed in one tick                                  *)

\* What reserve needs: finitely many placements, each of a number of members.
Placing(c, size) ==
    /\ c \in Nat /\ IsFiniteSet(DOMAIN size) /\ DOMAIN size \subseteq Nat \X Nat
    /\ \A s \in DOMAIN size : size[s] \in Nat

Before(size, s) == {t \in Placed(size) : Earlier(t, s)}

LEMMA EarlierOrders ==
    /\ \A s \in Nat \X Nat : ~Earlier(s, s)
    /\ \A s, t \in Nat \X Nat : s = t \/ Earlier(s, t) \/ Earlier(t, s)
    /\ \A s, t, u \in Nat \X Nat : Earlier(s, t) /\ Earlier(t, u) => Earlier(s, u)
<1>1. \A s \in Nat \X Nat : s[1] \in Nat /\ s[2] \in Nat /\ s = <<s[1], s[2]>>
  OBVIOUS
<1> QED BY <1>1 DEF Earlier

LEMMA PlacedFinite ==
    ASSUME NEW c, NEW size, Placing(c, size)
    PROVE  /\ IsFiniteSet(Placed(size)) /\ Placed(size) \subseteq Nat \X Nat
           /\ \A s \in Placed(size) : size[s] \in Nat /\ size[s] > 0
           /\ \A T \in SUBSET Placed(size) :
                IsFiniteSet(T) /\ SumFunctionOnSet(size, T) \in Nat
<1>1. /\ Placed(size) \subseteq DOMAIN size
      /\ \A s \in Placed(size) : size[s] \in Nat /\ size[s] > 0
  BY DEF Placed, Placing
<1>2. IsFiniteSet(Placed(size))  BY <1>1, FS_Subset DEF Placing
<1>3. \A T \in SUBSET Placed(size) : IsFiniteSet(T)  BY <1>2, FS_Subset
<1>4. \A T \in SUBSET Placed(size) : SumFunctionOnSet(size, T) \in Nat
  BY <1>1, <1>2, SumGrows
<1> QED BY <1>1, <1>2, <1>3, <1>4 DEF Placing

\* What comes before the end of a placement, up to any set that holds it.
LEMMA PlacedBefore ==
    ASSUME NEW c, NEW size, Placing(c, size), NEW s \in Placed(size),
           NEW T \in SUBSET Placed(size), Before(size, s) \subseteq T, s \in T
    PROVE  SumFunctionOnSet(size, Before(size, s)) + size[s] <= SumFunctionOnSet(size, T)
<1> DEFINE B == Before(size, s)
           Sum(U) == SumFunctionOnSet(size, U)
<1>1. B \in SUBSET Placed(size) /\ s \notin B /\ B \cup {s} \in SUBSET T
  BY PlacedFinite, EarlierOrders DEF Before
<1>2. IsFiniteSet(B) /\ IsFiniteSet(T) /\ Sum(B) \in Nat /\ Sum(T) \in Nat
      /\ \A x \in Placed(size) : size[x] \in Nat
  BY <1>1, PlacedFinite
<1>3. Sum(B \cup {s}) = size[s] + Sum(B)
  <2>1. \A y \in B \cup {s} : size[y] \in Int  BY <1>1, <1>2
  <2> HIDE DEF B
  <2> QED BY <1>1, <1>2, <2>1, SumAdds
<1>4. Sum(T \ (B \cup {s})) + Sum(B \cup {s}) = Sum(T)
      /\ Sum(T \ (B \cup {s})) \in Nat
  <2>1. \A x \in T : size[x] \in Nat  BY <1>2
  <2>2. T \ (B \cup {s}) \in SUBSET T
    OBVIOUS
  <2> HIDE DEF B
  <2> QED BY <1>1, <1>2, <2>1, <2>2, SumGrows
<1> HIDE DEF B
<1> QED BY <1>2, <1>3, <1>4 DEF B

\* A placement has its ids after the earlier ones and before the later ones.
LEMMA IdsAreOrdered ==
    ASSUME NEW c, NEW size, Placing(c, size), NEW s \in Placed(size)
    PROVE  /\ FirstId(c, size)[s] \in Nat /\ LastIssued(c, size) \in Nat
           /\ c < FirstId(c, size)[s]
           /\ FirstId(c, size)[s] = c + 1 + SumFunctionOnSet(size, Before(size, s))
           /\ FirstId(c, size)[s] + size[s] - 1 <= LastIssued(c, size)
           /\ \A t \in Placed(size) :
                Earlier(s, t) => FirstId(c, size)[s] + size[s] <= FirstId(c, size)[t]
<1> DEFINE Sum(U) == SumFunctionOnSet(size, U)
           P == Placed(size)
<1>1. c \in Nat /\ size[s] \in Nat  BY PlacedFinite DEF Placing
<1>2. \A t \in P : FirstId(c, size)[t] = c + 1 + Sum(Before(size, t))
  BY DEF FirstId, Before
<1>3. LastIssued(c, size) = c + Sum(P)  BY DEF LastIssued
<1>4. \A t \in P : Before(size, t) \in SUBSET P  BY DEF Before
<1>5. \A T \in SUBSET P : Sum(T) \in Nat  BY PlacedFinite
<1>6. Sum(P) \in Nat /\ \A t \in P : Sum(Before(size, t)) \in Nat  BY <1>4, <1>5
<1>7. Sum(Before(size, s)) + size[s] <= Sum(P)  BY <1>4, PlacedBefore
<1>8. ASSUME NEW t \in P, Earlier(s, t)
      PROVE  Sum(Before(size, s)) + size[s] <= Sum(Before(size, t))
  <2>1. Before(size, s) \subseteq Before(size, t) /\ s \in Before(size, t)
    BY <1>8, PlacedFinite, EarlierOrders DEF Before
  <2> QED BY <1>4, <2>1, PlacedBefore
<1> HIDE DEF Sum, P
<1>9. \A t \in P : Earlier(s, t) => FirstId(c, size)[s] + size[s] <= FirstId(c, size)[t]
  <2> SUFFICES ASSUME NEW t \in P, Earlier(s, t)
               PROVE  FirstId(c, size)[s] + size[s] <= FirstId(c, size)[t]
    OBVIOUS
  <2>1. s \in P  BY DEF P
  <2> QED BY <1>1, <1>2, <1>6, <1>8, <2>1
<1>10. s \in P  BY DEF P
<1>11. FirstId(c, size)[s] = c + 1 + Sum(Before(size, s)) /\ Sum(Before(size, s)) \in Nat
  BY <1>2, <1>6, <1>10
<1>12. /\ FirstId(c, size)[s] \in Nat /\ LastIssued(c, size) \in Nat
       /\ c < FirstId(c, size)[s]
       /\ FirstId(c, size)[s] + size[s] - 1 <= LastIssued(c, size)
  BY <1>1, <1>3, <1>6, <1>7, <1>11
<1> QED BY <1>9, <1>11, <1>12 DEF P, Sum

\* The last of some first placements ends where all of them end.
LEMMA LastOfSome ==
    ASSUME NEW c, NEW size, Placing(c, size), NEW T \in SUBSET Placed(size), T # {},
           \A t \in T : Before(size, t) \subseteq T
    PROVE  \E t \in T : c + SumFunctionOnSet(size, T) = FirstId(c, size)[t] + size[t] - 1
<1> DEFINE P == Placed(size)
           first == FirstId(c, size)
           Sum(U) == SumFunctionOnSet(size, U)
           firsts == {first[t] : t \in T}
           last == LastIssued(c, size)
<1>1. \A t \in P : /\ first[t] \in Nat /\ size[t] \in Nat /\ size[t] > 0
                   /\ first[t] = c + 1 + Sum(Before(size, t))
                   /\ first[t] + size[t] - 1 <= last /\ last \in Nat
                   /\ \A u \in P : Earlier(t, u) => first[t] + size[t] <= first[u]
  BY IdsAreOrdered, PlacedFinite
<1> HIDE DEF first, last
<1>2. firsts \in SUBSET Nat /\ firsts # {} /\ last \in Nat /\ \A n \in firsts : n <= last
  <2>1. \A t \in T : first[t] \in Nat /\ first[t] <= last /\ last \in Nat  BY <1>1
  <2> QED BY <2>1
<1>3. Max(firsts) \in firsts /\ \A n \in firsts : n <= Max(firsts)
  <2> HIDE DEF firsts
  <2> QED BY <1>2, MaxIsGreatest
<1>4. PICK t \in T : first[t] = Max(firsts)  BY <1>3
<1>5. \A u \in T : first[u] <= first[t]  BY <1>3, <1>4
<1>6. \A u \in T \ {t} : Earlier(u, t)
  <2> SUFFICES ASSUME NEW u \in T \ {t}, ~Earlier(u, t) PROVE FALSE
    OBVIOUS
  <2>1. Earlier(t, u)  BY PlacedFinite, EarlierOrders
  <2>2. first[t] + size[t] <= first[u] /\ first[u] <= first[t]  BY <1>1, <1>5, <2>1
  <2> QED BY <1>1, <2>2
<1>7. Before(size, t) = T \ {t}  BY <1>6, PlacedFinite, EarlierOrders DEF Before
<1>8. Sum(T) = size[t] + Sum(T \ {t})
  <2>1. IsFiniteSet(T) /\ \A u \in T : size[u] \in Int  BY PlacedFinite
  <2> QED BY <2>1, SumSplits
<1>9. Sum(T \ {t}) \in Nat /\ c \in Nat  BY PlacedFinite DEF Placing
<1>10. first[t] = c + 1 + Sum(T \ {t}) /\ size[t] \in Nat  BY <1>1, <1>7
<1> HIDE DEF Sum
<1>11. c + Sum(T) = first[t] + size[t] - 1  BY <1>8, <1>9, <1>10
<1> QED BY <1>11 DEF Sum, first

\* No id is left out.
LEMMA IdsAreCovered ==
    ASSUME NEW c, NEW size, Placing(c, size), NEW id \in (c + 1)..LastIssued(c, size)
    PROVE  \E s \in Placed(size) :
              id \in FirstId(c, size)[s]..(FirstId(c, size)[s] + size[s] - 1)
<1> DEFINE P == Placed(size)
           first == FirstId(c, size)
           last == LastIssued(c, size)
           Sum(U) == SumFunctionOnSet(size, U)
           L == {s \in P : first[s] + size[s] - 1 < id}
           R == {s \in P : first[s] > id}
           firsts == {first[s] : s \in R}
<1>1. \A t \in P : /\ first[t] \in Nat /\ size[t] \in Nat /\ size[t] > 0
                   /\ first[t] = c + 1 + Sum(Before(size, t))
                   /\ \A u \in P : Earlier(t, u) => first[t] + size[t] <= first[u]
  BY IdsAreOrdered, PlacedFinite
<1>2. c \in Nat /\ id \in Int /\ c + 1 <= id /\ id <= last /\ last = c + Sum(P)
      /\ Sum(P) \in Nat
  <2>1. c \in Nat /\ last = c + Sum(P) /\ Sum(P) \in Nat
    BY PlacedFinite DEF Placing, LastIssued
  <2> QED BY <2>1
<1> HIDE DEF first, last
<1> SUFFICES ASSUME \A s \in P : id \notin first[s]..(first[s] + size[s] - 1)
             PROVE  FALSE
  BY DEF first
<1>3. \A s \in P : s \in L \/ s \in R  BY <1>1, <1>2
<1>4. CASE R = {}
  <2>1. P # {}
    <3>1. P = {} => Sum(P) = 0  BY SumOfNone
    <3> QED BY <1>2, <3>1
  <2>2. \A t \in P : Before(size, t) \subseteq P  BY DEF Before
  <2>3. PICK t \in P : c + Sum(P) = first[t] + size[t] - 1
    BY <2>1, <2>2, LastOfSome DEF first
  <2>4. first[t] + size[t] - 1 < id  BY <1>3, <1>4
  <2> QED BY <1>1, <1>2, <2>3, <2>4
<1>5. CASE R # {}
  <2>1. firsts \in SUBSET Nat /\ firsts # {}  BY <1>1, <1>5
  <2>2. Min(firsts) \in firsts /\ \A n \in firsts : Min(firsts) <= n
    <3> HIDE DEF firsts
    <3> QED BY <2>1, MinIsLeast
  <2>3. PICK r \in R : first[r] = Min(firsts)  BY <2>2
  <2>4. \A u \in R : first[r] <= first[u]  BY <2>2, <2>3
  <2> DEFINE B == Before(size, r)
  <2>5. B \in SUBSET P /\ r \in P /\ first[r] > id /\ first[r] = c + 1 + Sum(B)
    BY <1>1 DEF Before
  <2>6. \A u \in B : first[u] + size[u] - 1 < id
    <3> SUFFICES ASSUME NEW u \in B, u \notin L PROVE FALSE
      OBVIOUS
    <3>1. u \in R /\ Earlier(u, r)  BY <1>3, <2>5 DEF Before
    <3>2. first[u] + size[u] <= first[r] /\ first[r] <= first[u]
      BY <1>1, <2>4, <2>5, <3>1
    <3> QED BY <1>1, <3>1, <3>2
  <2>7. CASE B = {}
    <3>1. Sum(B) = 0  BY <2>7, SumOfNone
    <3> HIDE DEF B, Sum
    <3> QED BY <1>2, <2>5, <3>1
  <2>8. CASE B # {}
    <3>1. \A t \in B : Before(size, t) \subseteq B
      BY <2>5, PlacedFinite, EarlierOrders DEF Before
    <3> HIDE DEF B
    <3>2. PICK t \in B : c + Sum(B) = first[t] + size[t] - 1
      BY <2>5, <2>8, <3>1, LastOfSome DEF first
    <3>3. first[t] + size[t] - 1 < id /\ t \in P  BY <2>5, <2>6
    <3>4. Sum(B) \in Nat  BY <2>5, PlacedFinite
    <3> QED BY <1>1, <1>2, <2>5, <3>2, <3>3, <3>4
  <2> QED BY <2>7, <2>8
<1> QED BY <1>4, <1>5

\* What reserve hands out: every id to one placement, from its first on.
HandsOut(c, size, first, slot, top) ==
    /\ c \in Nat /\ top \in Nat /\ c <= top
    /\ first \in [Placed(size) -> (c + 1)..top] /\ slot \in [(c + 1)..top -> Placed(size)]
    /\ \A s \in Placed(size) : /\ slot[first[s]] = s /\ size[s] \in Nat /\ size[s] > 0
                               /\ first[s] + size[s] - 1 <= top
    /\ \A id \in (c + 1)..top : /\ first[slot[id]] <= id
                                /\ id <= first[slot[id]] + size[slot[id]] - 1

LEMMA Reserves ==
    ASSUME NEW c, NEW size, Placing(c, size)
    PROVE  HandsOut(c, size, FirstId(c, size), SlotOf(c, size, FirstId(c, size)),
                    LastIssued(c, size))
<1> DEFINE P == Placed(size)
           first == FirstId(c, size)
           top == LastIssued(c, size)
           slot == SlotOf(c, size, first)
<1>1. c \in Nat /\ top \in Nat /\ c <= top  BY PlacedFinite DEF Placing, LastIssued
<1>2. \A t \in P : /\ first[t] \in Nat /\ size[t] \in Nat /\ size[t] > 0
                   /\ c < first[t] /\ first[t] + size[t] - 1 <= top
                   /\ \A u \in P : Earlier(t, u) => first[t] + size[t] <= first[u]
  BY IdsAreOrdered, PlacedFinite
<1>3. first = [s \in P |-> first[s]]  BY DEF FirstId
<1>4. \A id \in (c + 1)..top : \E s \in P : id \in first[s]..(first[s] + size[s] - 1)
  BY IdsAreCovered
<1>5. slot = [id \in (c + 1)..top |->
                CHOOSE s \in P : id \in first[s]..(first[s] + size[s] - 1)]
  BY DEF SlotOf
<1> HIDE DEF first, top, slot
<1>6. first \in [P -> (c + 1)..top]
  <2>1. \A s \in P : first[s] \in (c + 1)..top  BY <1>1, <1>2
  <2> QED BY <1>3, <2>1
<1>7. \A id \in (c + 1)..top :
        slot[id] \in P /\ id \in first[slot[id]]..(first[slot[id]] + size[slot[id]] - 1)
  BY <1>4, <1>5
<1>8. slot \in [(c + 1)..top -> P]  BY <1>5, <1>7
<1>9. ASSUME NEW s \in P PROVE slot[first[s]] = s
  <2> DEFINE t == slot[first[s]]
  <2>1. first[s] \in (c + 1)..top  BY <1>6
  <2>2. t \in P /\ first[s] \in first[t]..(first[t] + size[t] - 1)  BY <1>7, <2>1
  <2> HIDE DEF t
  <2>3. ~Earlier(s, t) /\ ~Earlier(t, s)  BY <1>2, <2>2
  <2>4. s = t  BY <2>2, <2>3, PlacedFinite, EarlierOrders
  <2> QED BY <2>4 DEF t
<1>10. \A id \in (c + 1)..top :
         first[slot[id]] <= id /\ id <= first[slot[id]] + size[slot[id]] - 1
  BY <1>7
<1> QED BY <1>1, <1>2, <1>6, <1>8, <1>9, <1>10 DEF HandsOut, first, top, slot
-----------------------------------------------------------------------------
(* One tick of mob_regeneration                                              *)

LEMMA DefinitionTypes ==
    ASSUME Marks, NEW e \in Defined
    PROVE  /\ Def(e).interval \in Nat /\ Def(e).capacity \in Nat /\ Def(e).sizes \subseteq Nat
           /\ e \in Entry /\ e \in Nat
<1>1. Registry[installed] \in [DOMAIN Registry[installed] -> Definition]
      /\ installed \in Build
  BY DEF Marks
<1>2. Def(e) \in Definition /\ e \in Entry  BY <1>1 DEF Def, Defined, Entry
<1> QED BY <1>2 DEF Definition

\* A tick attempts finitely many placements.
LEMMA SlotsFinite ==
    ASSUME Marks, NEW rows, \A e \in DOMAIN rows : IsFiniteSet(rows[e].owners)
    PROVE  IsFiniteSet(Slots(rows)) /\ Slots(rows) \subseteq Nat \X Nat
<1> DEFINE T == Ticks(rows)
           some == [e \in T |-> {e} \X (1..Attempts(e, rows))]
           all == {some[e] : e \in T}
<1>1. T \subseteq DOMAIN rows /\ T \subseteq Entry /\ T \subseteq Nat /\ IsFiniteSet(T)
  <2>1. \A e \in T : e \in Defined /\ e \in DOMAIN rows  BY DEF Ticks
  <2>2. \A e \in T : e \in Entry /\ e \in Nat  BY <2>1, DefinitionTypes
  <2> QED BY <2>1, <2>2, FS_Subset
<1>2. \A e \in T : Attempts(e, rows) \in Int
  <2> SUFFICES ASSUME NEW e \in T PROVE Attempts(e, rows) \in Int
    OBVIOUS
  <2>1. e \in Defined  BY DEF Ticks
  <2>2. Def(e).capacity \in Nat  BY <2>1, DefinitionTypes
  <2>3. Cardinality(rows[e].owners) \in Nat  BY <1>1, FS_CardinalityType
  <2> QED BY <2>2, <2>3 DEF Attempts
<1>3. \A e \in T : some[e] \subseteq Nat \X Nat /\ IsFiniteSet(some[e])
  <2> SUFFICES ASSUME NEW e \in T
               PROVE  some[e] \subseteq Nat \X Nat /\ IsFiniteSet(some[e])
    OBVIOUS
  <2>1. e \in Nat /\ Attempts(e, rows) \in Int  BY <1>1, <1>2
  <2>2. IsFiniteSet({e}) /\ IsFiniteSet(1..Attempts(e, rows))
    <3>1. IsFiniteSet({e})  BY FS_Singleton
    <3>2. IsFiniteSet(1..Attempts(e, rows))  BY <2>1, FS_Interval
    <3> QED BY <3>1, <3>2
  <2>3. IsFiniteSet({e} \X (1..Attempts(e, rows)))  BY <2>2, FS_Product
  <2>4. some[e] = {e} \X (1..Attempts(e, rows))
    OBVIOUS
  <2>5. 1..Attempts(e, rows) \subseteq Nat  BY <2>1
  <2> HIDE DEF some
  <2> QED BY <2>1, <2>3, <2>4, <2>5
<1>4. IsFiniteSet(all)
  <2>1. some \in Surjection(T, all)  BY DEF Surjection
  <2> HIDE DEF some, all
  <2> QED BY <1>1, <2>1, FS_Surjection
<1>5. Slots(rows) = UNION all  BY DEF Slots
<1>6. IsFiniteSet(UNION all)
  <2>1. \A U \in all : IsFiniteSet(U)  BY <1>3
  <2> HIDE DEF all
  <2> QED BY <1>4, <2>1, FS_UNION
<1>7. UNION all \subseteq Nat \X Nat  BY <1>3
<1> QED BY <1>5, <1>6, <1>7

LEMMA SlotsTick ==
    ASSUME NEW rows, NEW s \in Slots(rows)
    PROVE  s[1] \in Ticks(rows)
  BY DEF Slots

LEMMA TicksDefined ==
    ASSUME NEW rows
    PROVE  Ticks(rows) \subseteq Defined \cap DOMAIN rows
  BY DEF Ticks

\* What is placed into tables that account for everything accounts for itself.
LEMMA PopulateKeeps ==
    ASSUME Marks, NEW c, NEW rows, NEW groups, NEW origins, NEW monsters,
           NEW shapes,
           Accounted(c, rows, groups, origins, monsters),
           Populate(c, rows, groups, origins, monsters, shapes)
    PROVE  Accounted(cursor, row, group, origin, monster)'
<1>1. /\ TableTypes(c, rows, groups, origins, monsters)
      /\ OwnersAreThere(c, rows, monsters) /\ GroupsAreHeld(rows, groups, monsters)
      /\ OriginsResolve(groups, origins) /\ StraysHold(rows, origins, monsters)
  BY DEF Accounted
<1> DEFINE newGroup(first, slot, size) ==
             [g \in Range(first) |-> [entry |-> slot[g][1], last |-> g + size[slot[g]] - 1]]
           newOrigin(first, slot) == [id \in DOMAIN slot |-> first[slot[id]]]
           newMonster(slot) == [id \in DOMAIN slot |-> Alive]
           owned(first, size, e) == {first[s] : s \in {t \in Placed(size) : t[1] = e}}
           newRow(first, size, jitter) ==
             [e \in DOMAIN rows |->
                IF e \in Ticks(rows) THEN Planned(rows[e], e, jitter[e], owned(first, size, e))
                ELSE rows[e]]
<1>2. PICK size \in Placements(Slots(rows)), jitter \in Jitters(rows) :
        LET first == FirstId(c, size)
            slot == SlotOf(c, size, first)
        IN  /\ cursor' = LastIssued(c, size)
            /\ row' = newRow(first, size, jitter)
            /\ group' = Inserted(groups, newGroup(first, slot, size))
            /\ origin' = Inserted(origins, newOrigin(first, slot))
            /\ monster' = Inserted(monsters, newMonster(slot))
  BY DEF Populate
<1> DEFINE first == FirstId(c, size)
           slot == SlotOf(c, size, first)
           top == LastIssued(c, size)
           P == Placed(size)
<1>3. DOMAIN size = Slots(rows) /\ (\A s \in DOMAIN size : size[s] \in Nat)
  <2>1. size \in [Slots(rows) -> UNION {Def(s[1]).sizes : s \in Slots(rows)}]
        /\ \A s \in Slots(rows) : size[s] \in Def(s[1]).sizes
    BY DEF Placements
  <2>2. \A s \in Slots(rows) : Def(s[1]).sizes \subseteq Nat
    BY SlotsTick, TicksDefined, DefinitionTypes
  <2> QED BY <2>1, <2>2
<1>4. HandsOut(c, size, first, slot, top)
  <2>1. \A e \in DOMAIN rows : IsFiniteSet(rows[e].owners)
    <3> SUFFICES ASSUME NEW e \in DOMAIN rows PROVE IsFiniteSet(rows[e].owners)
      OBVIOUS
    <3>1. rows[e].owners \subseteq 1..c /\ c \in Nat
      BY <1>1 DEF OwnersAreThere, TableTypes
    <3> QED BY <3>1, FS_Interval, FS_Subset
  <2>2. IsFiniteSet(Slots(rows)) /\ Slots(rows) \subseteq Nat \X Nat
    BY <2>1, SlotsFinite
  <2>3. Placing(c, size)  BY <1>1, <1>3, <2>2 DEF Placing, TableTypes
  <2> QED BY <2>3, Reserves
<1>5. /\ cursor' = top
      /\ row' = newRow(first, size, jitter)
      /\ group' = Inserted(groups, newGroup(first, slot, size))
      /\ origin' = Inserted(origins, newOrigin(first, slot))
      /\ monster' = Inserted(monsters, newMonster(slot))
  BY <1>2
<1> HIDE DEF first, slot, top
<1>6. /\ c \in Nat /\ top \in Nat /\ c <= top
      /\ first \in [P -> (c + 1)..top] /\ slot \in [(c + 1)..top -> P]
      /\ \A s \in P : /\ slot[first[s]] = s /\ size[s] \in Nat /\ size[s] > 0
                      /\ first[s] + size[s] - 1 <= top
      /\ \A id \in (c + 1)..top : /\ first[slot[id]] <= id
                                  /\ id <= first[slot[id]] + size[slot[id]] - 1
  BY <1>4 DEF HandsOut
<1>7. \A s \in P : s[1] \in Ticks(rows) /\ s[1] \in DOMAIN rows /\ s[1] \in Defined
  BY <1>3, SlotsTick, TicksDefined DEF Placed
\* The new groups.
<1>8. ASSUME NEW g \in Range(first)
      PROVE  \E s \in P : g = first[s] /\ slot[g] = s /\ g \in (c + 1)..top
  <2>1. PICK s \in P : g = first[s]  BY <1>6 DEF Range
  <2>2. slot[g] = s /\ g \in (c + 1)..top  BY <1>6, <2>1
  <2> QED BY <2>1, <2>2
<1>9. Range(first) \subseteq (c + 1)..top  BY <1>8
<1>10. /\ DOMAIN group' = DOMAIN groups \cup Range(first)
       /\ \A g \in DOMAIN groups : group'[g] = groups[g] /\ g <= c
       /\ \A g \in Range(first) :
            group'[g] = [entry |-> slot[g][1], last |-> g + size[slot[g]] - 1]
  <2>1. \A g \in DOMAIN groups : g \in Nat /\ g <= c  BY <1>1 DEF TableTypes
  <2>2. \A g \in Range(first) : g \notin DOMAIN groups  BY <1>6, <1>9, <2>1
  <2> QED BY <1>5, <2>1, <2>2 DEF Inserted
<1>11. DOMAIN slot = (c + 1)..top  BY <1>6
<1>12. /\ DOMAIN monster' = DOMAIN monsters \cup (c + 1)..top
       /\ \A m \in DOMAIN monsters : monster'[m] = monsters[m] /\ m <= c /\ m \in Nat
       /\ \A m \in (c + 1)..top : monster'[m] = Alive
  <2>1. \A m \in DOMAIN monsters : m \in Nat /\ m <= c  BY <1>1 DEF TableTypes
  <2>2. \A m \in (c + 1)..top : m \notin DOMAIN monsters  BY <1>6, <2>1
  <2> QED BY <1>5, <1>11, <2>1, <2>2 DEF Inserted
<1>13. /\ DOMAIN origin' = DOMAIN origins \cup (c + 1)..top
       /\ \A m \in DOMAIN origins : origin'[m] = origins[m]
       /\ \A m \in (c + 1)..top : origin'[m] = first[slot[m]]
  <2>1. \A m \in (c + 1)..top : m \notin DOMAIN origins
    BY <1>1, <1>6, <1>12 DEF TableTypes
  <2> QED BY <1>5, <1>11, <2>1 DEF Inserted
\* The rows.
<1>14. ASSUME NEW e \in DOMAIN rows
       PROVE  /\ e \notin Ticks(rows) => row'[e] = rows[e]
              /\ e \in Ticks(rows) =>
                   /\ row'[e] \in Row
                   /\ row'[e].owners = rows[e].owners \cup owned(first, size, e)
                   /\ row'[e].last <= top
                   /\ \A o \in row'[e].owners : o <= row'[e].last
  <2>1. CASE e \notin Ticks(rows)  BY <1>5, <2>1
  <2>2. CASE e \in Ticks(rows)
    <3> DEFINE new == owned(first, size, e)
               M == new \cup {rows[e].last}
    <3>1. new \subseteq (c + 1)..top /\ new \subseteq Nat  BY <1>6
    <3>2. /\ rows[e].last \in Nat /\ rows[e].last <= c /\ rows[e].owners \subseteq Nat
          /\ \A o \in rows[e].owners : o <= rows[e].last
      BY <1>1 DEF OwnersAreThere, TableTypes, Row
    <3>3. row'[e] = Planned(rows[e], e, jitter[e], new)  BY <1>5, <2>2
    <3> HIDE DEF new
    <3>4. M \in SUBSET Nat /\ M # {} /\ top \in Nat /\ \A n \in M : n <= top
      <4>1. \A n \in new : n <= top
        <5>1. c \in Nat /\ top \in Nat  BY <1>6
        <5> QED BY ONLY <3>1, <5>1
      <4>2. rows[e].last <= top /\ top \in Nat  BY <1>6, <3>2
      <4> QED BY <3>1, <3>2, <4>1, <4>2
    <3>5. Max(M) \in M /\ \A n \in M : n <= Max(M)
      <4> HIDE DEF M
      <4> QED BY <3>4, MaxIsGreatest
    <3>6. e \in Defined  BY <2>2, TicksDefined
    <3>7. jitter[e] \in Nat  BY <2>2 DEF Jitters
    <3>8. Def(e).interval + jitter[e] \in Nat  BY <3>6, <3>7, DefinitionTypes
    <3> DEFINE x == Max(M)
    <3>9. x \in Nat /\ x <= top /\ rows[e].last <= x /\ \A n \in new : n <= x
      BY <3>4, <3>5
    <3>10. row'[e] = [initial |-> FALSE, wait |-> Def(e).interval + jitter[e],
                      owners |-> rows[e].owners \cup new, last |-> x]
      BY <3>3 DEF Planned
    <3> HIDE DEF x, M
    <3>11. /\ row'[e].owners = rows[e].owners \cup new /\ row'[e].last = x  BY <3>10
    <3>12. rows[e].owners \cup new \in SUBSET Nat  BY <3>1, <3>2
    <3>13. row'[e] \in Row  BY <3>8, <3>9, <3>10, <3>12 DEF Row
    <3>14. \A o \in rows[e].owners \cup new : o <= x
      <4>1. \A o \in rows[e].owners : o <= rows[e].last /\ o \in Nat  BY <3>2
      <4> QED BY <3>2, <3>9, <4>1
    <3> QED BY <2>2, <3>9, <3>11, <3>13, <3>14 DEF new
  <2> QED BY <2>1, <2>2
<1>15. DOMAIN row' = DOMAIN rows  BY <1>5
<1>16. TableTypes(cursor, row, group, origin, monster)'
  <2>1. DOMAIN row' \subseteq Entry /\ row' \in [DOMAIN row' -> Row]
    <3>1. \A e \in DOMAIN rows : row'[e] \in Row  BY <1>1, <1>14 DEF TableTypes
    <3>2. row' = [e \in DOMAIN rows |-> row'[e]]  BY <1>5
    <3> QED BY <1>1, <1>15, <3>1, <3>2 DEF TableTypes
  <2>2. /\ DOMAIN group' \subseteq 1..top
        /\ group' \in [DOMAIN group' -> [entry : Entry, last : 1..top]]
    <3>1. \A g \in DOMAIN groups : g \in 1..top /\ groups[g] \in [entry : Entry, last : 1..top]
      <4>1. \A g \in DOMAIN groups : g \in 1..c /\ groups[g] \in [entry : Entry, last : 1..c]
        BY <1>1 DEF TableTypes
      <4>2. 1..c \subseteq 1..top  BY <1>6
      <4> QED BY <4>1, <4>2
    <3>2. ASSUME NEW g \in Range(first)
          PROVE  g \in 1..top /\ group'[g] \in [entry : Entry, last : 1..top]
      <4>1. PICK s \in P : /\ g = first[s] /\ g \in (c + 1)..top
                           /\ group'[g] = [entry |-> s[1], last |-> first[s] + size[s] - 1]
        BY <1>8, <1>10
      <4>2. s[1] \in Entry /\ first[s] + size[s] - 1 \in 1..top /\ g \in 1..top
        BY <1>1, <1>6, <1>7, <4>1 DEF TableTypes
      <4> QED BY <4>1, <4>2
    <3>3. group' = [g \in DOMAIN group' |-> group'[g]]  BY <1>5 DEF Inserted
    <3> QED BY <1>10, <3>1, <3>2, <3>3
  <2>3. /\ DOMAIN monster' \subseteq 1..top
        /\ monster' \in [DOMAIN monster' -> [alive : BOOLEAN, wait : 0..CorpseTime]]
    <3>1. Alive \in [alive : BOOLEAN, wait : 0..CorpseTime]  BY DEF Alive
    <3>2. \A m \in DOMAIN monster' :
            m \in 1..top /\ monster'[m] \in [alive : BOOLEAN, wait : 0..CorpseTime]
      BY <1>1, <1>6, <1>12, <3>1 DEF TableTypes
    <3>3. monster' = [m \in DOMAIN monster' |-> monster'[m]]  BY <1>5 DEF Inserted
    <3> QED BY <3>2, <3>3
  <2>4. /\ DOMAIN origin' \subseteq DOMAIN monster'
        /\ origin' \in [DOMAIN origin' -> 0..top]
    <3>1. \A m \in DOMAIN origins : m \in DOMAIN monsters /\ origins[m] \in 0..top
      BY <1>1, <1>6 DEF TableTypes
    <3>2. \A m \in (c + 1)..top : first[slot[m]] \in 0..top  BY <1>6
    <3>3. origin' = [m \in DOMAIN origin' |-> origin'[m]]  BY <1>5 DEF Inserted
    <3> QED BY <1>12, <1>13, <3>1, <3>2, <3>3
  <2> QED BY <1>5, <1>6, <2>1, <2>2, <2>3, <2>4 DEF TableTypes
<1>17. OwnersAreThere(cursor, row, monster)'
  <2> SUFFICES ASSUME NEW e \in DOMAIN rows
               PROVE  /\ row'[e].owners \subseteq DOMAIN monster' /\ row'[e].last <= top
                      /\ \A o \in row'[e].owners : o <= row'[e].last
    BY <1>5, <1>15 DEF OwnersAreThere
  <2>1. /\ rows[e].owners \subseteq DOMAIN monsters /\ rows[e].last <= c
        /\ rows[e].last \in Nat /\ \A o \in rows[e].owners : o <= rows[e].last
    BY <1>1 DEF OwnersAreThere, TableTypes, Row
  <2>2. CASE e \notin Ticks(rows)  BY <1>6, <1>12, <1>14, <2>1, <2>2
  <2>3. CASE e \in Ticks(rows)
    <3>1. owned(first, size, e) \subseteq (c + 1)..top  BY <1>6
    <3> QED BY <1>12, <1>14, <2>1, <2>3, <3>1
  <2> QED BY <2>2, <2>3
<1>18. GroupsAreHeld(row, group, monster)'
  <2>1. ASSUME NEW g \in DOMAIN groups
        PROVE  /\ group'[g].entry \in DOMAIN row'
               /\ g \in DOMAIN monster' <=> g \in row'[group'[g].entry].owners
    <3> DEFINE e == groups[g].entry
    <3>1. e \in DOMAIN rows /\ (g \in DOMAIN monsters <=> g \in rows[e].owners)
          /\ group'[g] = groups[g] /\ g <= c /\ g \in Nat
      BY <1>1, <1>10 DEF GroupsAreHeld, TableTypes
    <3>2. g \notin (c + 1)..top  BY <1>6, <3>1
    <3>3. owned(first, size, e) \subseteq (c + 1)..top  BY <1>6
    <3>4. g \in row'[e].owners <=> g \in rows[e].owners  BY <1>14, <3>1, <3>2, <3>3
    <3> QED BY <1>12, <1>15, <3>1, <3>2, <3>4
  <2>2. ASSUME NEW g \in Range(first)
        PROVE  /\ group'[g].entry \in DOMAIN row'
               /\ g \in DOMAIN monster' <=> g \in row'[group'[g].entry].owners
    <3>1. PICK s \in P : /\ g = first[s] /\ g \in (c + 1)..top
                         /\ group'[g] = [entry |-> s[1], last |-> first[s] + size[s] - 1]
      BY <1>8, <1>10
    <3>2. group'[g].entry = s[1] /\ s[1] \in DOMAIN rows /\ s[1] \in Ticks(rows)
      BY <1>7, <3>1
    <3>3. g \in owned(first, size, s[1])  BY <3>1
    <3>4. g \in row'[s[1]].owners  BY <1>14, <3>2, <3>3
    <3> QED BY <1>12, <1>15, <3>1, <3>2, <3>4
  <2> QED BY <1>10, <2>1, <2>2 DEF GroupsAreHeld
<1>19. OriginsResolve(group, origin)'
  <2>1. ASSUME NEW m \in DOMAIN origins, origins[m] # 0
        PROVE  origin'[m] \in DOMAIN group' /\ m \in origin'[m]..group'[origin'[m]].last
    BY <1>1, <1>10, <1>13, <2>1 DEF OriginsResolve
  <2>2. ASSUME NEW m \in (c + 1)..top
        PROVE  origin'[m] \in DOMAIN group' /\ m \in origin'[m]..group'[origin'[m]].last
    <3> DEFINE s == slot[m]
               g == first[s]
    <3>1. s \in P /\ g \in (c + 1)..top /\ slot[g] = s /\ g <= m /\ m <= g + size[s] - 1
          /\ size[s] \in Nat
      BY <1>6
    <3>2. origin'[m] = g  BY <1>13
    <3>3. g \in Range(first)  BY <1>6, <3>1 DEF Range
    <3> HIDE DEF s, g
    <3>4. group'[g] = [entry |-> s[1], last |-> g + size[s] - 1]  BY <1>10, <3>1, <3>3
    <3>5. group'[g].last = g + size[s] - 1 /\ g \in DOMAIN group'  BY <1>10, <3>3, <3>4
    <3> QED BY <1>6, <3>1, <3>2, <3>5
  <2> QED BY <1>13, <2>1, <2>2 DEF OriginsResolve
<1>20. StraysHold(row, origin, monster)'
  <2> SUFFICES ASSUME NEW m \in DOMAIN monster' \ DOMAIN origin'
               PROVE  \E e \in DOMAIN row' : m \in row'[e].owners
    BY DEF StraysHold
  <2>1. m \in DOMAIN monsters \ DOMAIN origins  BY <1>12, <1>13
  <2>2. PICK e \in DOMAIN rows : m \in rows[e].owners  BY <1>1, <2>1 DEF StraysHold
  <2>3. m \in row'[e].owners  BY <1>14, <2>2
  <2> QED BY <1>15, <2>2, <2>3
<1> QED BY <1>16, <1>17, <1>18, <1>19, <1>20 DEF Accounted

\* Those that are placed are mobs of the build that places them.
LEMMA PopulateShapes ==
    ASSUME Marks, NEW c, NEW rows, NEW groups, NEW origins, NEW monsters, NEW shapes,
           Shaped(monsters, shapes),
           Populate(c, rows, groups, origins, monsters, shapes)
    PROVE  Shaped(monster, shape)'
<1>1. PICK size \in Placements(Slots(rows)) :
        \E kind \in Kinds(SlotOf(c, size, FirstId(c, size))) :
           /\ shape' = Inserted(shapes, kind)
           /\ monster' = Inserted(monsters,
                           [id \in DOMAIN SlotOf(c, size, FirstId(c, size)) |-> Alive])
  BY DEF Populate
<1> DEFINE slot == SlotOf(c, size, FirstId(c, size))
<1>2. PICK kind \in Kinds(slot) :
        /\ shape' = Inserted(shapes, kind)
        /\ monster' = Inserted(monsters, [id \in DOMAIN slot |-> Alive])
  BY <1>1
<1> HIDE DEF slot
<1> DEFINE new == [id \in DOMAIN slot |-> Alive]
<1>3. DOMAIN kind = DOMAIN slot /\ DOMAIN new = DOMAIN slot
      /\ \A id \in DOMAIN slot : kind[id] \in Mob
  BY DEF Kinds, Mob, Marks
<1>4. DOMAIN monster' = DOMAIN monsters \cup DOMAIN slot  BY <1>2, <1>3 DEF Inserted
<1>5. shape' = [x \in DOMAIN monsters \cup DOMAIN slot |->
                  IF x \in DOMAIN monsters THEN shapes[x] ELSE kind[x]]
  BY <1>2, <1>3 DEF Inserted, Shaped
<1> QED BY <1>3, <1>4, <1>5 DEF Shaped
-----------------------------------------------------------------------------
(* The steps                                                                 *)

LEMMA NoRows == DOMAIN << >> = {} /\ << >> = [x \in {} |-> x]
  OBVIOUS

LEMMA PopulationBegins == Init => PopulationInv
<1> SUFFICES ASSUME Init PROVE PopulationInv
  OBVIOUS
<1>1. /\ cursor = 0 /\ DOMAIN row = {} /\ DOMAIN group = {} /\ DOMAIN origin = {}
      /\ DOMAIN monster = {}
      /\ row = [x \in {} |-> x] /\ group = [x \in {} |-> x] /\ origin = [x \in {} |-> x]
      /\ monster = [x \in {} |-> x] /\ DOMAIN shape = {} /\ shape = [x \in {} |-> x]
  BY NoRows DEF Init
<1>2. Marks  BY DEF Init, Marks
<1>3. TableTypes(cursor, row, group, origin, monster)  BY <1>1 DEF TableTypes
<1>4. OwnersAreThere(cursor, row, monster) /\ GroupsAreHeld(row, group, monster)
      /\ OriginsResolve(group, origin) /\ StraysHold(row, origin, monster)
  BY <1>1 DEF OwnersAreThere, GroupsAreHeld, OriginsResolve, StraysHold
<1>5. Shaped(monster, shape)  BY <1>1 DEF Shaped
<1> QED BY <1>2, <1>3, <1>4, <1>5 DEF PopulationInv, Accounted

LEMMA InitializeKeeps ==
    ASSUME PopulationInv, Initialize
    PROVE  PopulationInv'
<1> DEFINE rows == [e \in Defined |-> Fresh]
           groups == << >>
           origins == [m \in Authored |-> 0]
           monsters == [m \in Authored |-> Alive]
           last == Max({0} \cup Authored)
<1>1. /\ Populate(last, rows, groups, origins, monsters, Spawns[installed])
      /\ marker' = installed
      /\ UNCHANGED <<installed, kills>> /\ Marks
  BY DEF Initialize, PopulationInv
<1>2. /\ Defined \subseteq Entry /\ last \in Nat /\ Authored \subseteq 1..last
      /\ Spawns[installed] \in [Authored -> Mob \cup Spawn]
  <2>1. Defined \subseteq Entry  BY <1>1, DefinitionTypes
  <2>2. {0} \cup Authored \in SUBSET Nat /\ IsFiniteSet({0} \cup Authored)
        /\ Authored \subseteq Nat \ {0}
    <3>1. Authored \subseteq Nat \ {0} /\ IsFiniteSet(Authored)
      BY <1>1 DEF Authored, Marks
    <3>2. IsFiniteSet({0})  BY FS_Singleton
    <3>3. IsFiniteSet({0} \cup Authored)  BY <3>1, <3>2, FS_Union
    <3> QED BY <3>1, <3>3
  <2>3. last \in {0} \cup Authored /\ \A n \in {0} \cup Authored : n <= last
    <3> DEFINE M == {0} \cup Authored
    <3>1. M \in SUBSET Nat /\ M # {} /\ IsFiniteSet(M)  BY <2>2
    <3> HIDE DEF M
    <3>2. \E top \in Nat : \A n \in M : n <= top  BY <3>1, FiniteIsBounded
    <3>3. Max(M) \in M /\ \A n \in M : n <= Max(M)  BY <3>1, <3>2, MaxIsGreatest
    <3> QED BY <3>3 DEF M
  <2>4. Spawns[installed] \in [Authored -> Mob \cup Spawn]
    BY <1>1 DEF Authored, Marks, Spawn, Range
  <2> HIDE DEF last
  <2>5. last \in Nat /\ Authored \subseteq 1..last  BY ONLY <2>2, <2>3
  <2> QED BY <2>1, <2>4, <2>5
<1>3. /\ DOMAIN rows = Defined /\ \A e \in Defined : rows[e] = Fresh
      /\ Fresh \in Row /\ Fresh.owners = {} /\ Fresh.last = 0
  BY DEF Fresh, Row
<1>4. /\ DOMAIN monsters = Authored /\ DOMAIN origins = Authored
      /\ \A m \in Authored : monsters[m] = Alive /\ origins[m] = 0
      /\ Alive \in [alive : BOOLEAN, wait : 0..CorpseTime]
  BY DEF Alive
<1>5. DOMAIN groups = {} /\ groups = [x \in {} |-> x]  BY NoRows
<1>6. rows \in [DOMAIN rows -> Row]  BY <1>3
<1>7. groups \in [DOMAIN groups -> [entry : Entry, last : 1..last]]  BY <1>5
<1>8. /\ monsters \in [DOMAIN monsters -> [alive : BOOLEAN, wait : 0..CorpseTime]]
      /\ origins \in [DOMAIN origins -> 0..last]
  BY <1>2, <1>4
<1> HIDE DEF rows, groups, origins, monsters, last
<1>9. TableTypes(last, rows, groups, origins, monsters)
  BY <1>2, <1>3, <1>4, <1>5, <1>6, <1>7, <1>8 DEF TableTypes
<1>10. OwnersAreThere(last, rows, monsters)  BY <1>2, <1>3 DEF OwnersAreThere
<1>11. GroupsAreHeld(rows, groups, monsters) /\ OriginsResolve(groups, origins)
       /\ StraysHold(rows, origins, monsters)
  BY <1>4, <1>5 DEF GroupsAreHeld, OriginsResolve, StraysHold
<1>12. Accounted(last, rows, groups, origins, monsters)
  BY <1>9, <1>10, <1>11 DEF Accounted
<1>13. Accounted(cursor, row, group, origin, monster)'  BY <1>1, <1>12, PopulateKeeps
<1>14. Marks'  BY <1>1 DEF Marks
<1>15. Shaped(monster, shape)'
  <2>1. Shaped(monsters, Spawns[installed])  BY <1>2, <1>4 DEF Shaped
  <2> QED BY <1>1, <2>1, PopulateShapes
<1> QED BY <1>13, <1>14, <1>15 DEF PopulationInv

\* What is left of the tables once the due corpses are removed still accounts
\* for everything: capacity goes with the leader that held it, a group with
\* the last of its members, and only a leader whose entry is not covered stays
\* without its origin.
LEMMA RemovalKeeps ==
    ASSUME PopulationInv, ~SimulateFails,
           NEW due, due = {m \in DOMAIN monster : Due(m)},
           NEW gone, gone = {m \in due : ~InPlace(m, TopUp)},
           NEW monsters, DOMAIN monsters = DOMAIN monster \ gone,
           monsters \in [DOMAIN monsters -> [alive : BOOLEAN, wait : 0..CorpseTime]]
    PROVE  Accounted(cursor, Released(TopUp, gone), GroupsWithout(gone, OriginsWithout(due)),
                     OriginsWithout(due), monsters)
<1> DEFINE rows == TopUp
           origins == OriginsWithout(due)
           left == Released(rows, gone)
           groups == GroupsWithout(gone, origins)
<1>1. /\ Marks /\ TableTypes(cursor, row, group, origin, monster)
      /\ OwnersAreThere(cursor, row, monster) /\ GroupsAreHeld(row, group, monster)
      /\ OriginsResolve(group, origin)
  BY DEF PopulationInv, Accounted
<1>2. /\ DOMAIN row \subseteq DOMAIN rows /\ DOMAIN rows \subseteq Entry
      /\ \A e \in DOMAIN rows : /\ e \in DOMAIN row => rows[e] = row[e]
                                /\ e \notin DOMAIN row => rows[e] = Fresh
  <2>1. Defined \subseteq Entry /\ DOMAIN row \subseteq Entry
    BY <1>1, DefinitionTypes DEF TableTypes
  <2>2. CASE Reconciled  BY <2>1, <2>2 DEF TopUp
  <2>3. CASE ~Reconciled  BY <2>1, <2>3 DEF TopUp
  <2> QED BY <2>2, <2>3
<1> HIDE DEF rows
<1>3. /\ DOMAIN left = DOMAIN rows
      /\ \A e \in DOMAIN rows : /\ left[e] \in Row
                                /\ left[e].owners = rows[e].owners \ gone
                                /\ left[e].last = rows[e].last
  <2>1. \A e \in DOMAIN rows : rows[e] \in Row
    <3>1. Fresh \in Row  BY DEF Fresh, Row
    <3>2. \A e \in DOMAIN row : row[e] \in Row  BY <1>1 DEF TableTypes
    <3> QED BY <1>2, <3>1, <3>2
  <2>2. \A e \in DOMAIN rows : left[e] = [rows[e] EXCEPT !.owners = @ \ gone]
    BY DEF Released
  <2>3. DOMAIN left = DOMAIN rows  BY DEF Released
  <2> HIDE DEF left
  <2> QED BY <2>1, <2>2, <2>3 DEF Row
<1>4. left = [e \in DOMAIN left |-> left[e]]  BY DEF Released
<1>5. /\ \A m \in DOMAIN origins : m \in DOMAIN origin /\ (m \notin due \/ origin[m] = 0)
      /\ \A m \in DOMAIN origin : m \notin due \/ origin[m] = 0 => m \in DOMAIN origins
      /\ \A m \in DOMAIN origins : origins[m] = origin[m]
      /\ origins = [m \in DOMAIN origins |-> origins[m]]
  BY DEF OriginsWithout, Restrict
<1>6. /\ \A g \in DOMAIN groups : g \in DOMAIN group /\ groups[g] = group[g]
      /\ \A g \in DOMAIN group : Members(g, origins) # {} => g \in DOMAIN groups
      /\ groups = [g \in DOMAIN groups |-> groups[g]]
  BY DEF GroupsWithout, Restrict
<1> HIDE DEF origins, left, groups
<1>7. gone \subseteq due /\ due \subseteq DOMAIN monster
      /\ \A m \in DOMAIN origins : origin[m] = 0 => m \notin gone
  <2>1. \A m \in due : origin[m] = 0 => m \notin gone  BY DEF InPlace
  <2> QED BY <2>1
<1>8. TableTypes(cursor, left, groups, origins, monsters)
  <2>1. DOMAIN left \subseteq Entry /\ left \in [DOMAIN left -> Row]
    BY <1>2, <1>3, <1>4
  <2>2. /\ DOMAIN groups \subseteq 1..cursor
        /\ groups \in [DOMAIN groups -> [entry : Entry, last : 1..cursor]]
    BY <1>1, <1>6 DEF TableTypes
  <2>3. DOMAIN monsters \subseteq 1..cursor  BY <1>1 DEF TableTypes
  <2>4. DOMAIN origins \subseteq DOMAIN monsters /\ origins \in [DOMAIN origins -> 0..cursor]
    <3>1. \A m \in DOMAIN origins : m \in DOMAIN monsters /\ origins[m] \in 0..cursor
      BY <1>1, <1>5, <1>7 DEF TableTypes
    <3> QED BY <1>5, <3>1
  <2> QED BY <1>1, <2>1, <2>2, <2>3, <2>4 DEF TableTypes
<1>9. OwnersAreThere(cursor, left, monsters)
  <2> SUFFICES ASSUME NEW e \in DOMAIN rows
               PROVE  /\ left[e].owners \subseteq DOMAIN monsters /\ left[e].last <= cursor
                      /\ \A o \in left[e].owners : o <= left[e].last
    BY <1>3 DEF OwnersAreThere
  <2>1. CASE e \in DOMAIN row  BY <1>1, <1>2, <1>3, <2>1 DEF OwnersAreThere
  <2>2. CASE e \notin DOMAIN row
    <3>1. left[e].owners = {} /\ left[e].last = 0  BY <1>2, <1>3, <2>2 DEF Fresh
    <3> QED BY <1>1, <3>1 DEF TableTypes
  <2> QED BY <2>1, <2>2
<1>10. GroupsAreHeld(left, groups, monsters)
  <2> SUFFICES ASSUME NEW g \in DOMAIN groups
               PROVE  /\ groups[g].entry \in DOMAIN left
                      /\ g \in DOMAIN monsters <=> g \in left[groups[g].entry].owners
    BY DEF GroupsAreHeld
  <2>1. /\ groups[g] = group[g] /\ group[g].entry \in DOMAIN row
        /\ g \in DOMAIN monster <=> g \in row[group[g].entry].owners
    BY <1>1, <1>6 DEF GroupsAreHeld
  <2> QED BY <1>2, <1>3, <2>1
<1>11. OriginsResolve(groups, origins)
  <2> SUFFICES ASSUME NEW m \in DOMAIN origins, origins[m] # 0
               PROVE  origins[m] \in DOMAIN groups /\ m \in origins[m]..groups[origins[m]].last
    BY DEF OriginsResolve
  <2>1. origins[m] \in DOMAIN group /\ m \in origins[m]..group[origins[m]].last
    BY <1>1, <1>5 DEF OriginsResolve
  <2>2. m \in Members(origins[m], origins)  BY DEF Members
  <2> QED BY <1>6, <2>1, <2>2
<1>12. StraysHold(left, origins, monsters)
  <2> SUFFICES ASSUME NEW m \in DOMAIN monster \ gone, m \notin DOMAIN origins
               PROVE  \E e \in DOMAIN left : m \in left[e].owners
    BY DEF StraysHold
  <2>1. Resolves(m)  BY DEF SimulateFails
  <2>2. m \in due /\ origin[m] # 0 /\ m \in DOMAIN origin  BY <1>5, <2>1 DEF Resolves
  <2>3. InPlace(m, rows)  BY <2>2 DEF rows
  <2> DEFINE e == group[origin[m]].entry
  <2>4. origin[m] \in DOMAIN group /\ e \in DOMAIN row
    BY <1>1, <2>1, <2>2 DEF Resolves, GroupsAreHeld
  <2>5. m = origin[m]  BY <1>2, <2>2, <2>3, <2>4 DEF InPlace
  <2>6. m \in row[e].owners  BY <1>1, <2>4, <2>5 DEF GroupsAreHeld
  <2> HIDE DEF e
  <2>7. m \in left[e].owners  BY <1>2, <1>3, <2>4, <2>6
  <2> QED BY <1>2, <1>3, <2>4, <2>7
<1> QED BY <1>8, <1>9, <1>10, <1>11, <1>12 DEF Accounted, left, groups, origins, rows

LEMMA SimulateKeeps ==
    ASSUME PopulationInv, Simulate
    PROVE  PopulationInv'
<1> DEFINE due == {m \in DOMAIN monster : Due(m)}
           gone == {m \in due : ~InPlace(m, TopUp)}
           after(killed) ==
             [m \in DOMAIN monster \ gone |->
                IF m \in killed THEN [alive |-> FALSE, wait |-> CorpseTime]
                ELSE IF m \in due THEN Alive ELSE monster[m]]
           shapes == Restrict(shape, DOMAIN monster \ gone)
<1>1. ~SimulateFails /\ installed' = installed /\ marker' \in {marker, installed}
  BY DEF Simulate
<1>2. PICK killed \in SUBSET {m \in DOMAIN monster : monster[m].alive} :
        /\ kills' = kills + Cardinality(killed) /\ kills' <= MaxKills
        /\ Populate(cursor, Released(TopUp, gone), GroupsWithout(gone, OriginsWithout(due)),
                    OriginsWithout(due), after(killed), shapes)
  BY DEF Simulate
<1> DEFINE monsters == after(killed)
<1>3. Marks /\ TableTypes(cursor, row, group, origin, monster)
  BY DEF PopulationInv, Accounted
<1>4. /\ DOMAIN monsters = DOMAIN monster \ gone
      /\ monsters \in [DOMAIN monsters -> [alive : BOOLEAN, wait : 0..CorpseTime]]
  <2>1. Alive \in [alive : BOOLEAN, wait : 0..CorpseTime]
        /\ [alive |-> FALSE, wait |-> CorpseTime] \in [alive : BOOLEAN, wait : 0..CorpseTime]
    BY DEF Alive
  <2>2. \A m \in DOMAIN monster : monster[m] \in [alive : BOOLEAN, wait : 0..CorpseTime]
    BY <1>3 DEF TableTypes
  <2> HIDE DEF due, gone
  <2>3. \A m \in DOMAIN monster \ gone :
          monsters[m] \in [alive : BOOLEAN, wait : 0..CorpseTime]
    BY <2>1, <2>2
  <2> QED BY <2>3
<1> HIDE DEF monsters
<1>5. Accounted(cursor, Released(TopUp, gone), GroupsWithout(gone, OriginsWithout(due)),
                OriginsWithout(due), monsters)
  BY <1>1, <1>4, RemovalKeeps
<1>6. Accounted(cursor, row, group, origin, monster)' /\ Shaped(monster, shape)'
  <2>1. Populate(cursor, Released(TopUp, gone), GroupsWithout(gone, OriginsWithout(due)),
                 OriginsWithout(due), monsters, shapes)
    BY <1>2 DEF monsters
  <2>2. Shaped(monsters, shapes)  BY <1>4 DEF PopulationInv, Shaped, Restrict
  <2> HIDE DEF gone, due, shapes
  <2>3. Accounted(cursor, row, group, origin, monster)'
    BY <1>3, <1>5, <2>1, PopulateKeeps
  <2>4. Shaped(monster, shape)'  BY <1>3, <2>1, <2>2, PopulateShapes
  <2> QED BY <2>3, <2>4
<1>7. Marks'
  <2>1. IsFiniteSet(killed)
    <3>1. killed \subseteq 1..cursor /\ cursor \in Nat  BY <1>3 DEF TableTypes
    <3>2. IsFiniteSet(1..cursor)  BY <3>1, FS_Interval
    <3> QED BY <3>1, <3>2, FS_Subset
  <2>2. Cardinality(killed) \in Nat  BY <2>1, FS_CardinalityType
  <2> QED BY <1>1, <1>2, <1>3, <2>2 DEF Marks
<1> QED BY <1>6, <1>7 DEF PopulationInv

\* Time changes neither who holds capacity nor who is there.
LEMMA ElapseKeeps ==
    ASSUME PopulationInv, Elapse
    PROVE  PopulationInv'
<1>1. /\ Marks /\ TableTypes(cursor, row, group, origin, monster)
      /\ OwnersAreThere(cursor, row, monster) /\ GroupsAreHeld(row, group, monster)
      /\ OriginsResolve(group, origin) /\ StraysHold(row, origin, monster)
      /\ UNCHANGED <<installed, marker, cursor, group, origin, shape, kills>>
      /\ Shaped(monster, shape)
  BY DEF PopulationInv, Accounted, Elapse
<1>2. \A n \in Nat : Later(n) \in Nat /\ Later(n) <= n  BY DEF Later
<1>3. /\ DOMAIN row' = DOMAIN row /\ row' \in [DOMAIN row -> Row]
      /\ \A e \in DOMAIN row : row'[e].owners = row[e].owners /\ row'[e].last = row[e].last
  <2>1. row' = [e \in DOMAIN row |-> [row[e] EXCEPT !.wait = Later(@)]]  BY DEF Elapse
  <2>2. ASSUME NEW e \in DOMAIN row
        PROVE  /\ [row[e] EXCEPT !.wait = Later(@)] \in Row
               /\ row'[e] = [row[e] EXCEPT !.wait = Later(@)]
               /\ row'[e].owners = row[e].owners /\ row'[e].last = row[e].last
    <3>1. row[e] \in Row /\ row[e].wait \in Nat  BY <1>1 DEF TableTypes, Row
    <3> QED BY <1>2, <2>1, <3>1 DEF Row
  <2> QED BY <2>1, <2>2
<1>4. /\ DOMAIN monster' = DOMAIN monster
      /\ monster' \in [DOMAIN monster -> [alive : BOOLEAN, wait : 0..CorpseTime]]
  <2>1. monster' = [m \in DOMAIN monster |-> [monster[m] EXCEPT !.wait = Later(@)]]
    BY DEF Elapse
  <2>2. ASSUME NEW m \in DOMAIN monster
        PROVE  [monster[m] EXCEPT !.wait = Later(@)]
                 \in [alive : BOOLEAN, wait : 0..CorpseTime]
    <3>1. monster[m] \in [alive : BOOLEAN, wait : 0..CorpseTime]
          /\ monster[m].wait \in 0..CorpseTime
      BY <1>1 DEF TableTypes
    <3>2. Later(monster[m].wait) \in 0..CorpseTime  BY <1>2, <3>1
    <3> QED BY <3>1, <3>2
  <2> QED BY <2>1, <2>2
<1>5. Accounted(cursor, row, group, origin, monster)'
  <2>1. TableTypes(cursor, row, group, origin, monster)'
    BY <1>1, <1>3, <1>4 DEF TableTypes
  <2>2. OwnersAreThere(cursor, row, monster)'  BY <1>1, <1>3, <1>4 DEF OwnersAreThere
  <2>3. GroupsAreHeld(row, group, monster)'  BY <1>1, <1>3, <1>4 DEF GroupsAreHeld
  <2>4. OriginsResolve(group, origin)'  BY <1>1 DEF OriginsResolve
  <2>5. StraysHold(row, origin, monster)'  BY <1>1, <1>3, <1>4 DEF StraysHold
  <2> QED BY <2>1, <2>2, <2>3, <2>4, <2>5 DEF Accounted
<1>6. Shaped(monster, shape)'  BY <1>1, <1>4 DEF Shaped
<1> QED BY <1>1, <1>5, <1>6 DEF PopulationInv, Marks

LEMMA PopulationStep == PopulationInv /\ [Next]_vars => PopulationInv'
<1> SUFFICES ASSUME PopulationInv, [Next]_vars PROVE PopulationInv'
  OBVIOUS
<1>1. ASSUME UNCHANGED tables, UNCHANGED kills, installed' \in Build
      PROVE  PopulationInv'
  <2>1. UNCHANGED <<marker, cursor, row, group, origin, monster, shape, kills>>
    BY <1>1 DEF tables
  <2> QED BY <1>1, <2>1 DEF PopulationInv, Marks, Accounted, TableTypes, OwnersAreThere,
                            GroupsAreHeld, OriginsResolve, StraysHold, Shaped
<1>2. CASE UNCHANGED vars \/ RolledBack
  <2>1. UNCHANGED tables /\ UNCHANGED kills /\ installed' = installed
    BY <1>2 DEF vars, RolledBack
  <2> QED BY <1>1, <2>1 DEF PopulationInv, Marks
<1>3. ASSUME NEW b \in Build, Publish(b) PROVE PopulationInv'
  <2>1. UNCHANGED tables /\ UNCHANGED kills /\ installed' \in Build  BY <1>3 DEF Publish
  <2> QED BY <1>1, <2>1
<1> QED BY <1>2, <1>3, InitializeKeeps, SimulateKeeps, ElapseKeeps DEF Next

\* For every set of builds, their registries, mobs and authored monsters and
\* any order of deaths and hot swaps, every unit of capacity is held by a
\* leader whose monster is there, and every leader holds its own
\* (mob_regeneration::destroy, tick and monster_spawns::allocate_group).
THEOREM CapacityIsHeldCorrect == Spec => []CapacityIsHeld
  BY PopulationBegins, PopulationStep, CapacityFollows, PTL DEF Spec

\* Likewise the world only stops because the installed registry has less room
\* than the groups of an entry take, the installed build lacks the mob of an
\* allocated monster or the spawn of an authored one, or a leader was destroyed
\* while the registry did not cover its entry (simulate and what it calls).
THEOREM FreezeIsExplainedCorrect == Spec => []FreezeIsExplained
  BY PopulationBegins, PopulationStep, FreezeFollows, PTL DEF Spec
=============================================================================
