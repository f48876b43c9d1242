--------------------------- MODULE CharacterProofs ---------------------------
(* Proofs about what one character has under way: the rewards and questions  *)
(* of its quests (Quest), for every number of dogs, level cap and bound of a *)
(* delivery; the target and the sword combo (Combo), for every set of        *)
(* monsters and weapons, every timing of the actions and every number of     *)
(* combo steps; then charges, buffs and potions (Effects), for every set of  *)
(* connections and buffs and every policy.                                   *)
EXTENDS Combo, Effects, Quest, Induction

-----------------------------------------------------------------------------
(* The quests.  The rows of a delivery stay in Works, or the delivery has     *)
(* failed and the reducer keeps none of it.                                  *)

\* The quests of the catalogue.
LEMMA Quests == QuestId = {"main_quest_lv1", "main_quest_lv2", "main_quest_lv3", "find_squareguard"}
  BY DEF QuestId, Order

\* The document of each quest.
LEMMA Documents ==
    /\ Document("main_quest_lv1") = Lv1 /\ Document("main_quest_lv2") = Lv2
    /\ Document("main_quest_lv3") = Lv3 /\ Document("find_squareguard") = Squareguard
  BY DEF Document

\* The states of each quest.
LEMMA States ==
    /\ StateName("main_quest_lv1") = {"start", "gotoinfomation", "gototeacher", COMPLETE}
    /\ StateName("main_quest_lv2") =
         {"start", "run", "gototeacher", "killdog", "gototeacher2", COMPLETE}
    /\ StateName("main_quest_lv3") =
         {"start", "run", "gototeacher", "gotogood", "gotodefend", COMPLETE}
    /\ StateName("find_squareguard") =
         {"start", "run", "find", "buy", "deliver", COMPLETE}
<1>1. StateName("main_quest_lv1") = {"start", "gotoinfomation", "gototeacher", COMPLETE}
  BY Documents DEF StateName, Lv1, COMPLETE
<1>2. StateName("main_quest_lv2") =
       {"start", "run", "gototeacher", "killdog", "gototeacher2", COMPLETE}
  BY Documents DEF StateName, Lv2, COMPLETE
<1>3. StateName("main_quest_lv3") =
       {"start", "run", "gototeacher", "gotogood", "gotodefend", COMPLETE}
  BY Documents DEF StateName, Lv3, COMPLETE
<1>4. StateName("find_squareguard") =
       {"start", "run", "find", "buy", "deliver", COMPLETE}
  BY Documents DEF StateName, Squareguard, COMPLETE
<1> QED BY <1>1, <1>2, <1>3, <1>4

-----------------------------------------------------------------------------
(* The folds of a delivery: what every step of a fold keeps from stage to    *)
(* stage, F[0], F[1], ..., holds of what the fold returns.                   *)

IsList(s) == Len(s) \in Nat /\ DOMAIN s = 1 .. Len(s)

\* The operations that run when an objective is reached.
LEMMA FlatRunWithin ==
    ASSUME NEW w, NEW q, NEW ops, NEW npc, NEW env, Len(ops) \in Nat,
           NEW F, w \in F[0],
           \A k \in 1 .. Len(ops) : \A v \in F[k - 1] :
             Flat(v, q, ops[k], npc, env) \in F[k]
    PROVE  RunFlat(w, q, ops, npc, env) \in F[Len(ops)]
<1> DEFINE n == Len(ops)
           V == UNION {F[i] : i \in 0 .. n}
           D == [k \in 1 .. n |-> [v \in V |-> Flat(v, q, ops[k], npc, env)]]
           Is(g) == g = [i \in 0 .. n |-> IF i = 0 THEN w
                                          ELSE Flat(g[i - 1], q, ops[i], npc, env)]
           up == CHOOSE g : Is(g)
<1> n \in Nat
  OBVIOUS
<1>1. LeftFolds(n, F, w, D)
  <2>1. \A k \in 1 .. n : \A v \in F[k - 1] : D[k][v] \in F[k]
    <3> TAKE k \in 1 .. n
    <3> TAKE v \in F[k - 1]
    <3>1. k - 1 \in 0 .. n
      OBVIOUS
    <3>2. v \in V  BY <3>1
    <3> QED BY <3>2
  <2> HIDE DEF D, V, n
  <2> QED BY <2>1, LeftFoldExists
<1>2. PICK h : /\ h = [i \in 0 .. n |-> IF i = 0 THEN w ELSE D[i][h[i - 1]]]
               /\ \A i \in 0 .. n : h[i] \in F[i]
  <2> HIDE DEF D
  <2> QED BY <1>1 DEF LeftFolds
<1>3. \A i \in 1 .. n : D[i][h[i - 1]] = Flat(h[i - 1], q, ops[i], npc, env)
  <2> TAKE i \in 1 .. n
  <2>1. i - 1 \in 0 .. n
    OBVIOUS
  <2>2. h[i - 1] \in V  BY <2>1, <1>2
  <2> QED BY <2>2
<1>4. Is(h)
  <2> HIDE DEF D
  <2> QED BY <1>2, <1>3
<1>5. Is(up)
  <2> HIDE DEF Is
  <2> QED BY <1>4
<1>6. RunFlat(w, q, ops, npc, env) = up[n]  BY DEF RunFlat, FoldLeft
<1>7. \A k \in 1 .. n : up[k] = Flat(up[k - 1], q, ops[k], npc, env)
  <2> HIDE DEF up
  <2> QED BY <1>5
<1>8. up[0] \in F[0] /\ \A k \in 1 .. n : up[k - 1] \in F[k - 1] => up[k] \in F[k]
  <2>1. up[0] = w
    <3> HIDE DEF up
    <3> QED BY <1>5
  <2> HIDE DEF up
  <2> QED BY <1>7, <2>1
<1>9. up[n] \in F[n]
  <2> HIDE DEF up, n
  <2> QED BY <1>8, LeftFoldStays
<1> QED BY <1>6, <1>9

\* The operations of a trigger, an entry or an answer.
LEMMA RunWithin ==
    ASSUME NEW w, NEW q, NEW ops, NEW npc, NEW env, Len(ops) \in Nat,
           NEW F, w \in F[0],
           \A k \in 1 .. Len(ops) : \A v \in F[k - 1] :
             RunOp(v, q, ops[k], npc, env) \in F[k]
    PROVE  RunOps(w, q, ops, npc, env) \in F[Len(ops)]
<1> DEFINE n == Len(ops)
           V == UNION {F[i] : i \in 0 .. n}
           D == [k \in 1 .. n |-> [v \in V |-> RunOp(v, q, ops[k], npc, env)]]
           Is(g) == g = [i \in 0 .. n |-> IF i = 0 THEN w
                                          ELSE RunOp(g[i - 1], q, ops[i], npc, env)]
           up == CHOOSE g : Is(g)
<1> n \in Nat
  OBVIOUS
<1>1. LeftFolds(n, F, w, D)
  <2>1. \A k \in 1 .. n : \A v \in F[k - 1] : D[k][v] \in F[k]
    <3> TAKE k \in 1 .. n
    <3> TAKE v \in F[k - 1]
    <3>1. k - 1 \in 0 .. n
      OBVIOUS
    <3>2. v \in V  BY <3>1
    <3> QED BY <3>2
  <2> HIDE DEF D, V, n
  <2> QED BY <2>1, LeftFoldExists
<1>2. PICK h : /\ h = [i \in 0 .. n |-> IF i = 0 THEN w ELSE D[i][h[i - 1]]]
               /\ \A i \in 0 .. n : h[i] \in F[i]
  <2> HIDE DEF D
  <2> QED BY <1>1 DEF LeftFolds
<1>3. \A i \in 1 .. n : D[i][h[i - 1]] = RunOp(h[i - 1], q, ops[i], npc, env)
  <2> TAKE i \in 1 .. n
  <2>1. i - 1 \in 0 .. n
    OBVIOUS
  <2>2. h[i - 1] \in V  BY <2>1, <1>2
  <2> QED BY <2>2
<1>4. Is(h)
  <2> HIDE DEF D
  <2> QED BY <1>2, <1>3
<1>5. Is(up)
  <2> HIDE DEF Is
  <2> QED BY <1>4
<1>6. RunOps(w, q, ops, npc, env) = up[n]  BY DEF RunOps, FoldLeft
<1>7. \A k \in 1 .. n : up[k] = RunOp(up[k - 1], q, ops[k], npc, env)
  <2> HIDE DEF up
  <2> QED BY <1>5
<1>8. up[0] \in F[0] /\ \A k \in 1 .. n : up[k - 1] \in F[k - 1] => up[k] \in F[k]
  <2>1. up[0] = w
    <3> HIDE DEF up
    <3> QED BY <1>5
  <2> HIDE DEF up
  <2> QED BY <1>7, <2>1
<1>9. up[n] \in F[n]
  <2> HIDE DEF up, n
  <2> QED BY <1>8, LeftFoldStays
<1> QED BY <1>6, <1>9

\* The entries that are due.
LEMMA DrainWithin ==
    ASSUME NEW w, NEW npc, NEW env,
           NEW F, w \in F[0],
           \A k \in 1 .. MaxStateEnters : \A v \in F[k - 1] :
             DrainOne(v, npc, env) \in F[k]
    PROVE  EntriesRun(w, npc, env) \in F[MaxStateEnters]
<1> DEFINE n == MaxStateEnters
           V == UNION {F[i] : i \in 0 .. n}
           D == [k \in 1 .. n |-> [v \in V |-> DrainOne(v, npc, env)]]
           Is(g) == g = [i \in 0 .. n |-> IF i = 0 THEN w
                                          ELSE DrainOne(g[i - 1], npc, env)]
           up == CHOOSE g : Is(g)
<1> n \in Nat  BY QuestAssumption
<1>1. LeftFolds(n, F, w, D)
  <2>1. \A k \in 1 .. n : \A v \in F[k - 1] : D[k][v] \in F[k]
    <3> TAKE k \in 1 .. n
    <3> TAKE v \in F[k - 1]
    <3>1. k - 1 \in 0 .. n
      OBVIOUS
    <3>2. v \in V  BY <3>1
    <3> QED BY <3>2
  <2> HIDE DEF D, V, n
  <2> QED BY <2>1, LeftFoldExists
<1>2. PICK h : /\ h = [i \in 0 .. n |-> IF i = 0 THEN w ELSE D[i][h[i - 1]]]
               /\ \A i \in 0 .. n : h[i] \in F[i]
  <2> HIDE DEF D
  <2> QED BY <1>1 DEF LeftFolds
<1>3. \A i \in 1 .. n : D[i][h[i - 1]] = DrainOne(h[i - 1], npc, env)
  <2> TAKE i \in 1 .. n
  <2>1. i - 1 \in 0 .. n
    OBVIOUS
  <2>2. h[i - 1] \in V  BY <2>1, <1>2
  <2> QED BY <2>2
<1>4. Is(h)
  <2> HIDE DEF D
  <2> QED BY <1>2, <1>3
<1>5. Is(up)
  <2> HIDE DEF Is
  <2> QED BY <1>4
<1>6. EntriesRun(w, npc, env) = up[n]  BY QuestAssumption DEF EntriesRun, FoldLeft
<1>7. \A k \in 1 .. n : up[k] = DrainOne(up[k - 1], npc, env)
  <2> HIDE DEF up
  <2> QED BY <1>5
<1>8. up[0] \in F[0] /\ \A k \in 1 .. n : up[k - 1] \in F[k - 1] => up[k] \in F[k]
  <2>1. up[0] = w
    <3> HIDE DEF up
    <3> QED BY <1>5
  <2> HIDE DEF up
  <2> QED BY <1>7, <2>1
<1>9. up[n] \in F[n]
  <2> HIDE DEF up, n
  <2> QED BY <1>8, LeftFoldStays
<1> QED BY <1>6, <1>9

\* The triggers of one quest.
LEMMA DeliveryWithin ==
    ASSUME NEW w, NEW q, NEW event, NEW vnum, NEW lvl, NEW env,
           w.quest[q] \notin {Nothing, COMPLETE}, NEW triggers,
           triggers = StateDoc(q, w.quest[q]).triggers, IsList(triggers),
           NEW F, w \in F[0],
           \A k \in 1 .. Len(triggers) : \A v \in F[k - 1] :
             TryTrigger(v, q, k, triggers[k], event, vnum, lvl, env) \in F[k]
    PROVE  DeliverTo(w, q, event, vnum, lvl, env) \in F[Len(triggers)]
<1> DEFINE n == Len(triggers)
           V == UNION {F[i] : i \in 0 .. n}
           D == [k \in 1 .. n |-> [v \in V |-> TryTrigger(v, q, k, triggers[k], event, vnum, lvl, env)]]
           at == [i \in 1 .. n |-> i]
           Is(g) == g = [i \in 0 .. Len(at) |-> IF i = 0 THEN w
                              ELSE TryTrigger(g[i - 1], q, at[i], triggers[at[i]], event, vnum, lvl, env)]
           up == CHOOSE g : Is(g)
<1> n \in Nat  BY DEF IsList
<1>0. Len(at) = n /\ \A i \in 1 .. n : at[i] = i
  OBVIOUS
<1>1. LeftFolds(n, F, w, D)
  <2>1. \A k \in 1 .. n : \A v \in F[k - 1] : D[k][v] \in F[k]
    <3> TAKE k \in 1 .. n
    <3> TAKE v \in F[k - 1]
    <3>1. k - 1 \in 0 .. n
      OBVIOUS
    <3>2. v \in V  BY <3>1
    <3> QED BY <3>2
  <2> HIDE DEF D, V, n
  <2> QED BY <2>1, LeftFoldExists
<1>2. PICK h : /\ h = [i \in 0 .. n |-> IF i = 0 THEN w ELSE D[i][h[i - 1]]]
               /\ \A i \in 0 .. n : h[i] \in F[i]
  <2> HIDE DEF D
  <2> QED BY <1>1 DEF LeftFolds
<1>3. \A i \in 1 .. n : D[i][h[i - 1]] = TryTrigger(h[i - 1], q, i, triggers[i], event, vnum, lvl, env)
  <2> TAKE i \in 1 .. n
  <2>1. i - 1 \in 0 .. n
    OBVIOUS
  <2>2. h[i - 1] \in V  BY <2>1, <1>2
  <2> QED BY <2>2
<1>4. Is(h)
  <2>1. \A i \in 0 .. n : h[i] = IF i = 0 THEN w
              ELSE TryTrigger(h[i - 1], q, at[i], triggers[at[i]], event, vnum, lvl, env)
    <3> TAKE i \in 0 .. n
    <3>1. CASE i = 0
      <4> HIDE DEF D, at
      <4> QED BY <3>1, <1>2
    <3>2. CASE i # 0
      <4>1. i \in 1 .. n  BY <3>2
      <4>2. at[i] = i  BY <4>1, <1>0
      <4>3. h[i] = D[i][h[i - 1]]
        <5> HIDE DEF D, at
        <5> QED BY <3>2, <1>2
      <4>4. h[i] = TryTrigger(h[i - 1], q, i, triggers[i], event, vnum, lvl, env)
        <5> HIDE DEF D, at
        <5> QED BY <4>1, <4>3, <1>3
      <4> HIDE DEF D, at
      <4> QED BY <3>2, <4>2, <4>4
    <3> QED BY <3>1, <3>2
  <2>2. h = [i \in 0 .. n |-> h[i]]  BY <1>2
  <2> HIDE DEF D, at
  <2> QED BY <2>1, <2>2, <1>0
<1>5. Is(up)
  <2> HIDE DEF Is
  <2> QED BY <1>4
<1>6. DeliverTo(w, q, event, vnum, lvl, env) = up[n]
  <2>1. DeliverTo(w, q, event, vnum, lvl, env) = up[Len(at)]
    <3> DEFINE doc == StateDoc(q, w.quest[q]).triggers
               rows(t) == [i \in 1 .. Len(t) |-> i]
               fold(t) == (CHOOSE g : g = [i \in 0 .. Len(rows(t)) |->
                              IF i = 0 THEN w
                              ELSE TryTrigger(g[i - 1], q, rows(t)[i], t[rows(t)[i]],
                                              event, vnum, lvl, env)])[Len(rows(t))]
    <3>1. DeliverTo(w, q, event, vnum, lvl, env) = fold(doc)  BY DEF DeliverTo, FoldLeft
    <3>2. fold(doc) = fold(triggers)
      <4> HIDE DEF fold
      <4> QED OBVIOUS
    <3>3. fold(triggers) = up[Len(at)]
      OBVIOUS
    <3> QED BY <3>1, <3>2, <3>3
  <2> QED BY <2>1, <1>0
<1>7. \A k \in 1 .. n : up[k] = TryTrigger(up[k - 1], q, k, triggers[k], event, vnum, lvl, env)
  <2> HIDE DEF up, at
  <2> QED BY <1>0, <1>5
<1>8. up[0] \in F[0] /\ \A k \in 1 .. n : up[k - 1] \in F[k - 1] => up[k] \in F[k]
  <2>1. up[0] = w
    <3> HIDE DEF up, at
    <3> QED BY <1>0, <1>5
  <2> HIDE DEF up
  <2> QED BY <1>7, <2>1
<1>9. up[n] \in F[n]
  <2> HIDE DEF up, n
  <2> QED BY <1>8, LeftFoldStays
<1> QED BY <1>6, <1>9

\* The quests of one pass.
LEMMA AllDeliveredWithin ==
    ASSUME NEW w, NEW event, NEW vnum, NEW lvl, NEW env,
           NEW F, w \in F[0],
           \A k \in 1 .. Len(Order) : \A v \in F[k - 1] :
             DeliverTo(v, Order[k], event, vnum, lvl, env) \in F[k]
    PROVE  DeliverAll(w, event, vnum, lvl, env) \in F[Len(Order)]
<1> DEFINE n == Len(Order)
           V == UNION {F[i] : i \in 0 .. n}
           D == [k \in 1 .. n |-> [v \in V |-> DeliverTo(v, Order[k], event, vnum, lvl, env)]]
           Is(g) == g = [i \in 0 .. n |-> IF i = 0 THEN w
                                          ELSE DeliverTo(g[i - 1], Order[i], event, vnum, lvl, env)]
           up == CHOOSE g : Is(g)
<1> n \in Nat  BY DEF Order
<1>1. LeftFolds(n, F, w, D)
  <2>1. \A k \in 1 .. n : \A v \in F[k - 1] : D[k][v] \in F[k]
    <3> TAKE k \in 1 .. n
    <3> TAKE v \in F[k - 1]
    <3>1. k - 1 \in 0 .. n
      OBVIOUS
    <3>2. v \in V  BY <3>1
    <3> QED BY <3>2
  <2> HIDE DEF D, V, n
  <2> QED BY <2>1, LeftFoldExists
<1>2. PICK h : /\ h = [i \in 0 .. n |-> IF i = 0 THEN w ELSE D[i][h[i - 1]]]
               /\ \A i \in 0 .. n : h[i] \in F[i]
  <2> HIDE DEF D
  <2> QED BY <1>1 DEF LeftFolds
<1>3. \A i \in 1 .. n : D[i][h[i - 1]] = DeliverTo(h[i - 1], Order[i], event, vnum, lvl, env)
  <2> TAKE i \in 1 .. n
  <2>1. i - 1 \in 0 .. n
    OBVIOUS
  <2>2. h[i - 1] \in V  BY <2>1, <1>2
  <2> QED BY <2>2
<1>4. Is(h)
  <2> HIDE DEF D
  <2> QED BY <1>2, <1>3
<1>5. Is(up)
  <2> HIDE DEF Is
  <2> QED BY <1>4
<1>6. DeliverAll(w, event, vnum, lvl, env) = up[n]  BY DEF DeliverAll, FoldLeft
<1>7. \A k \in 1 .. n : up[k] = DeliverTo(up[k - 1], Order[k], event, vnum, lvl, env)
  <2> HIDE DEF up
  <2> QED BY <1>5
<1>8. up[0] \in F[0] /\ \A k \in 1 .. n : up[k - 1] \in F[k - 1] => up[k] \in F[k]
  <2>1. up[0] = w
    <3> HIDE DEF up
    <3> QED BY <1>5
  <2> HIDE DEF up
  <2> QED BY <1>7, <2>1
<1>9. up[n] \in F[n]
  <2> HIDE DEF up, n
  <2> QED BY <1>8, LeftFoldStays
<1> QED BY <1>6, <1>9

\* The passes of one event.
LEMMA PassesWithin ==
    ASSUME NEW w, NEW event, NEW vnum, NEW lvl, NEW env, NEW passes \in Nat,
           NEW F, w \in F[0],
           \A k \in 1 .. passes : \A v \in F[k - 1] :
             Pass(v, k, event, vnum, lvl, env) \in F[k]
    PROVE  Passes(w, event, vnum, lvl, passes, env) \in F[passes]
<1> DEFINE n == passes
           V == UNION {F[i] : i \in 0 .. n}
           D == [k \in 1 .. n |-> [v \in V |-> Pass(v, k, event, vnum, lvl, env)]]
           at == [i \in 1 .. n |-> i]
           Is(g) == g = [i \in 0 .. Len(at) |-> IF i = 0 THEN w
                              ELSE Pass(g[i - 1], at[i], event, vnum, lvl, env)]
           up == CHOOSE g : Is(g)
<1> n \in Nat
  OBVIOUS
<1>0. Len(at) = n /\ \A i \in 1 .. n : at[i] = i
  OBVIOUS
<1>1. LeftFolds(n, F, w, D)
  <2>1. \A k \in 1 .. n : \A v \in F[k - 1] : D[k][v] \in F[k]
    <3> TAKE k \in 1 .. n
    <3> TAKE v \in F[k - 1]
    <3>1. k - 1 \in 0 .. n
      OBVIOUS
    <3>2. v \in V  BY <3>1
    <3> QED BY <3>2
  <2> HIDE DEF D, V, n
  <2> QED BY <2>1, LeftFoldExists
<1>2. PICK h : /\ h = [i \in 0 .. n |-> IF i = 0 THEN w ELSE D[i][h[i - 1]]]
               /\ \A i \in 0 .. n : h[i] \in F[i]
  <2> HIDE DEF D
  <2> QED BY <1>1 DEF LeftFolds
<1>3. \A i \in 1 .. n : D[i][h[i - 1]] = Pass(h[i - 1], i, event, vnum, lvl, env)
  <2> TAKE i \in 1 .. n
  <2>1. i - 1 \in 0 .. n
    OBVIOUS
  <2>2. h[i - 1] \in V  BY <2>1, <1>2
  <2> QED BY <2>2
<1>4. Is(h)
  <2> HIDE DEF D, at
  <2> QED BY <1>0, <1>2, <1>3
<1>5. Is(up)
  <2> HIDE DEF Is
  <2> QED BY <1>4
<1>6. Passes(w, event, vnum, lvl, passes, env) = up[n]
  <2>1. Passes(w, event, vnum, lvl, passes, env) = up[Len(at)]  BY DEF Passes, FoldLeft
  <2> QED BY <2>1, <1>0
<1>7. \A k \in 1 .. n : up[k] = Pass(up[k - 1], k, event, vnum, lvl, env)
  <2> HIDE DEF up, at
  <2> QED BY <1>0, <1>5
<1>8. up[0] \in F[0] /\ \A k \in 1 .. n : up[k - 1] \in F[k - 1] => up[k] \in F[k]
  <2>1. up[0] = w
    <3> HIDE DEF up, at
    <3> QED BY <1>0, <1>5
  <2> HIDE DEF up
  <2> QED BY <1>7, <2>1
<1>9. up[n] \in F[n]
  <2> HIDE DEF up, n
  <2> QED BY <1>8, LeftFoldStays
<1> QED BY <1>6, <1>9

-----------------------------------------------------------------------------
(* Working rows                                                              *)

Tracker == [letter : BOOLEAN, label : BOOLEAN, amount : 0 .. Dogs, total : {0, Dogs}]
QuestRows == {f \in [QuestId -> (UNION {StateName(q) : q \in QuestId}) \cup {Nothing}] :
                \A q \in QuestId : f[q] \in StateName(q) \cup {Nothing}}
Grants == [QuestId -> [RewardKind -> 0 .. 2]]
Due == {e \in QuestId \X (UNION {StateName(q) : q \in QuestId}) : e[2] \in StateName(e[1])}

BuyBranches == << <<Say, Give("money"), SetState("buy")>> >>
DogBranches == << <<SetState("gototeacher2")>>, << >> >>

\* Only the operator is asked about the dogs; the other question is that of
\* the state find.
Questions ==
    [npc : Npc, quest : {"find_squareguard"}, asked : {"find"}, branches : {BuyBranches},
     left : 0 .. SelectionLife]
    \cup (IF operator
          THEN [npc : Npc, quest : {"main_quest_lv2"}, asked : (UNION {StateName(q) : q \in QuestId}) \cup {Nothing},
                branches : {DogBranches}, left : 0 .. SelectionLife]
          ELSE {})

\* The working rows of a delivery that has failed or not.
RowsWith(failed) ==
    [level : 1 .. MaxLevel, held : 0 .. 1, quest : QuestRows, tracker : [QuestId -> Tracker],
     question : Questions \cup {Nothing}, granted : Grants, queue : Seq(Due),
     fired : SUBSET (QuestId \X Nat), said : BOOLEAN, offered : BOOLEAN,
     progressed : BOOLEAN, err : {failed}]
Records == RowsWith(FALSE)
Failed == RowsWith(TRUE)

\* Main quests have paid exactly when they are complete.
MainPaid(w) ==
    \A q \in {"main_quest_lv2", "main_quest_lv3"} :
        IF w.quest[q] = COMPLETE
        THEN \A k \in RewardKind \ {"random"} : w.granted[q][k] = 1
        ELSE \A k \in RewardKind : w.granted[q][k] = 0

SidePaid(w) ==
    LET q == "find_squareguard"
    IN  /\ w.quest[q] \in {"buy", "deliver", COMPLETE} => w.granted[q]["money"] >= 1
        /\ w.quest[q] \in {"deliver", COMPLETE} => w.granted[q]["item"] >= 1

AskedNow(w) ==
    w.question # Nothing /\ w.question.quest = "find_squareguard"
      => w.quest["find_squareguard"] = "find"

Works == {w \in Records : (operator \/ MainPaid(w)) /\ SidePaid(w) /\ AskedNow(w)}

\* A quest that is being delivered to and may be moved.
Open(w, q) ==
    operator \/ (q \in {"main_quest_lv2", "main_quest_lv3"} => w.quest[q] # COMPLETE)

-----------------------------------------------------------------------------
(* Operations                                                                *)

\* A quest that is moved neither completes unpaid nor leaves its
\* completion.
LEMMA MoveKeeps ==
    ASSUME NEW w \in Works, NEW q \in QuestId, NEW st \in StateName(q),
           Open(w, q), q \in {"main_quest_lv2", "main_quest_lv3"} => st # COMPLETE,
           q = "find_squareguard" => st = "find"
    PROVE  MovedTo(w, q, st) \in Works /\ Open(MovedTo(w, q, st), q)
<1> DEFINE v == MovedTo(w, q, st)
<1>1. v \in Records
  <2>1. w.quest \in QuestRows /\ w.tracker \in [QuestId -> Tracker] /\ w.queue \in Seq(Due)
    BY DEF Works, Records, RowsWith
  <2>2. [w.quest EXCEPT ![q] = st] \in QuestRows  BY <2>1 DEF QuestRows
  <2>3. [w.tracker EXCEPT ![q] = IF st = COMPLETE THEN NoTracker ELSE @] \in [QuestId -> Tracker]
    BY <2>1, QuestAssumption DEF Tracker, NoTracker
  <2>4. Append(w.queue, <<q, st>>) \in Seq(Due)
    <3>1. <<q, st>> \in Due  BY DEF Due
    <3> QED BY <2>1, <3>1
  <2> QED BY <2>2, <2>3, <2>4 DEF Works, Records, RowsWith, MovedTo
<1>2. operator \/ MainPaid(v)
  BY Quests DEF Works, Records, RowsWith, MovedTo, MainPaid, Open, QuestRows
<1>3. SidePaid(v)
  BY Quests DEF COMPLETE, Works, Records, RowsWith, MovedTo, SidePaid, QuestRows
<1>4. AskedNow(v) /\ Open(v, q)
  BY Quests DEF Works, Records, RowsWith, MovedTo, AskedNow, Open, QuestRows
<1> QED BY <1>1, <1>2, <1>3, <1>4 DEF Works

\* Operations that pay nothing and end nothing.
Spoken == {Say, Letter, ClearLetter, Mark, Objective(Dogs)}
Unlocks == {SetQuestState("find_squareguard", "find"), SetQuestState("main_quest_lv2", "run"),
            SetQuestState("main_quest_lv3", "run"), SetQuestState("main_quest_lv6", "run")}
MayMove(q) ==
    IF q = "main_quest_lv1" THEN StateName(q)
    ELSE IF q = "find_squareguard" THEN {"find"}
    ELSE StateName(q) \ {COMPLETE}
Moves(q) == {SetState(st) : st \in MayMove(q)}
Harmless(q) == Spoken \cup Unlocks \cup Moves(q)

\* What is said or shown keeps the rows.
LEMMA SpokenKeeps ==
    ASSUME NEW w \in Works, NEW q \in QuestId, Open(w, q), NEW op \in Spoken, NEW npc, NEW env
    PROVE  Perform(w, q, op, npc, env) \in Works /\ Open(Perform(w, q, op, npc, env), q)
<1> DEFINE v == Perform(w, q, op, npc, env)
           After(t) == [w EXCEPT !.tracker[q] = t]
<1>1. ASSUME NEW t \in Tracker PROVE After(t) \in Works /\ Open(After(t), q)
  BY <1>1 DEF Works, Records, RowsWith, MainPaid, SidePaid, AskedNow, Open
<1>2. w.tracker[q] \in Tracker  BY DEF Works, Records, RowsWith
<1>3. CASE op = Say
  <2>1. v = [w EXCEPT !.said = TRUE]  BY <1>3 DEF Perform, Say, Do
  <2> QED BY <2>1 DEF Works, Records, RowsWith, MainPaid, SidePaid, AskedNow, Open
<1>4. CASE op = Letter
  <2>1. v = After([w.tracker[q] EXCEPT !.letter = TRUE])
    BY <1>4 DEF Perform, Letter, Do, Works, Records, RowsWith
  <2>2. [w.tracker[q] EXCEPT !.letter = TRUE] \in Tracker  BY <1>2 DEF Tracker
  <2>3. v \in Works /\ Open(v, q)
    <3> HIDE DEF v, After
    <3> QED BY <2>1, <2>2, <1>1
  <2> QED BY <2>3
<1>5. CASE op = ClearLetter
  <2>1. v = After([w.tracker[q] EXCEPT !.letter = FALSE])
    BY <1>5 DEF Perform, ClearLetter, Do, Works, Records, RowsWith
  <2>2. [w.tracker[q] EXCEPT !.letter = FALSE] \in Tracker  BY <1>2 DEF Tracker
  <2>3. v \in Works /\ Open(v, q)
    <3> HIDE DEF v, After
    <3> QED BY <2>1, <2>2, <1>1
  <2> QED BY <2>3
<1>6. CASE op = Mark
  <2>1. v = After([w.tracker[q] EXCEPT !.label = TRUE])
    BY <1>6 DEF Perform, Mark, Do, Works, Records, RowsWith
  <2>2. [w.tracker[q] EXCEPT !.label = TRUE] \in Tracker  BY <1>2 DEF Tracker
  <2>3. v \in Works /\ Open(v, q)
    <3> HIDE DEF v, After
    <3> QED BY <2>1, <2>2, <1>1
  <2> QED BY <2>3
<1>7. CASE op = Objective(Dogs)
  <2> DEFINE t == [letter |-> w.tracker[q].letter, label |-> TRUE,
                   amount |-> IF w.tracker[q].amount < Dogs THEN w.tracker[q].amount ELSE Dogs,
                   total |-> Dogs]
  <2>1. v = After(t)  BY <1>7 DEF Perform, Objective, Do, Works, Records, RowsWith
  <2>2. t \in Tracker  BY <1>2, QuestAssumption DEF Tracker
  <2>3. v \in Works /\ Open(v, q)
    <3> HIDE DEF v, After, t
    <3> QED BY <2>1, <2>2, <1>1
  <2> QED BY <2>3
<1> QED BY <1>3, <1>4, <1>5, <1>6, <1>7 DEF Spoken

\* Unlocking another quest keeps the rows.
LEMMA UnlockKeeps ==
    ASSUME NEW w \in Works, NEW q \in QuestId, NEW op \in Unlocks, NEW npc, NEW env
    PROVE  /\ Perform(w, q, op, npc, env) \in Works
           /\ Open(w, q) => Open(Perform(w, q, op, npc, env), q)
<1> DEFINE v == Perform(w, q, op, npc, env)
<1>1. PICK r, st : /\ op = SetQuestState(r, st)
                   /\ st # COMPLETE
                   /\ r = "find_squareguard" => st = "find"
  BY DEF Unlocks, COMPLETE
<1>2. v = IF Unlockable(w, r, st) THEN MovedTo(w, r, st) ELSE w
  BY <1>1 DEF Perform, SetQuestState, Do
<1>3. CASE Unlockable(w, r, st)
  <2>1. r \in QuestId /\ st \in StateName(r) /\ Open(w, r)  BY <1>3 DEF Unlockable, Open
  <2>2. MovedTo(w, r, st) \in Works /\ Open(MovedTo(w, r, st), r)
    BY <1>1, <2>1, MoveKeeps
  <2>3. r # q => MovedTo(w, r, st).quest[q] = w.quest[q]
    BY DEF MovedTo, Works, Records, RowsWith, QuestRows
  <2> QED BY <1>2, <1>3, <2>2, <2>3 DEF Open
<1>4. CASE ~Unlockable(w, r, st)
  <2>1. v = w  BY <1>2, <1>4
  <2> QED BY <2>1
<1> QED BY <1>3, <1>4

\* Moving to a state that owes nothing keeps the rows.
LEMMA MovesKeep ==
    ASSUME NEW w \in Works, NEW q \in QuestId, Open(w, q), NEW op \in Moves(q), NEW npc, NEW env
    PROVE  Perform(w, q, op, npc, env) \in Works /\ Open(Perform(w, q, op, npc, env), q)
<1>1. PICK st \in MayMove(q) : op = SetState(st)  BY DEF Moves
<1>2. Perform(w, q, op, npc, env) = IF w.quest[q] = st THEN w ELSE MovedTo(w, q, st)
  BY <1>1 DEF Perform, SetState, Do
<1>3. /\ st \in StateName(q)
      /\ q \in {"main_quest_lv2", "main_quest_lv3"} => st # COMPLETE
      /\ q = "find_squareguard" => st = "find"
  BY States DEF MayMove
<1> QED BY <1>2, <1>3, MoveKeeps

\* An operation that pays nothing and ends nothing keeps the rows.
LEMMA HarmlessKeeps ==
    ASSUME NEW w \in Works, NEW q \in QuestId, Open(w, q), NEW op \in Harmless(q), NEW npc, NEW env
    PROVE  Perform(w, q, op, npc, env) \in Works /\ Open(Perform(w, q, op, npc, env), q)
  BY SpokenKeeps, UnlockKeeps, MovesKeep DEF Harmless

-----------------------------------------------------------------------------
(* Runs of operations                                                        *)

\* So does a list of such operations.
LEMMA HarmlessRuns ==
    ASSUME NEW w \in Works, NEW q \in QuestId, Open(w, q), NEW ops, IsList(ops),
           \A k \in 1 .. Len(ops) : ops[k] \in Harmless(q), NEW npc, NEW env
    PROVE  RunOps(w, q, ops, npc, env) \in Works /\ Open(RunOps(w, q, ops, npc, env), q)
<1> DEFINE K == {v \in Works : Open(v, q)}
           F == [i \in 0 .. Len(ops) |-> K]
<1>1. Len(ops) \in Nat /\ w \in F[0]  BY DEF IsList
<1>2. \A op \in Harmless(q) : op.op # "count"
  <2>1. \A op \in Spoken : op.op # "count"
    <3>1. /\ Say.op = "say" /\ Letter.op = "letter" /\ ClearLetter.op = "clear_letter"
          /\ Mark.op = "target" /\ Objective(Dogs).op = "objective"
      BY DEF Say, Letter, ClearLetter, Mark, Objective, Do
    <3> QED BY <3>1 DEF Spoken
  <2>2. \A op \in Unlocks : op.op # "count"  BY DEF Unlocks, SetQuestState, Do
  <2>3. \A op \in Moves(q) : op.op # "count"  BY DEF Moves, SetState, Do
  <2> QED BY <2>1, <2>2, <2>3 DEF Harmless
<1>3. \A k \in 1 .. Len(ops) : \A v \in F[k - 1] : RunOp(v, q, ops[k], npc, env) \in F[k]
  <2> TAKE k \in 1 .. Len(ops)
  <2> TAKE v \in F[k - 1]
  <2>1. v \in Works /\ Open(v, q)
    OBVIOUS
  <2>2. RunOp(v, q, ops[k], npc, env) = Perform(v, q, ops[k], npc, env)
    BY <1>2, <2>1 DEF RunOp, Works, Records, RowsWith
  <2>3. Perform(v, q, ops[k], npc, env) \in K  BY <2>1, HarmlessKeeps
  <2> QED BY <2>2, <2>3
<1>4. RunOps(w, q, ops, npc, env) \in F[Len(ops)]
  <2> HIDE DEF F
  <2> QED BY <1>1, <1>3, RunWithin
<1> QED BY <1>1, <1>4

\* What is done when a state is entered.
LEMMA EnterOperations ==
    /\ StateDoc("main_quest_lv1", "start").enter = << >>
    /\ StateDoc("main_quest_lv1", "gotoinfomation").enter = <<Letter, Say, SetState("gototeacher")>>
    /\ StateDoc("main_quest_lv1", "gototeacher").enter = <<Mark, Say>>
    /\ StateDoc("main_quest_lv1", COMPLETE).enter = << >>
    /\ StateDoc("main_quest_lv2", "start").enter = << >>
    /\ StateDoc("main_quest_lv2", "run").enter = << >>
    /\ StateDoc("main_quest_lv2", "gototeacher").enter = Journey
    /\ StateDoc("main_quest_lv2", "killdog").enter = <<Letter, Objective(Dogs), Say>>
    /\ StateDoc("main_quest_lv2", "gototeacher2").enter = Journey
    /\ StateDoc("main_quest_lv2", COMPLETE).enter = << >>
    /\ StateDoc("main_quest_lv3", "start").enter = << >>
    /\ StateDoc("main_quest_lv3", "run").enter = << >>
    /\ StateDoc("main_quest_lv3", "gototeacher").enter = Journey
    /\ StateDoc("main_quest_lv3", "gotogood").enter = Journey
    /\ StateDoc("main_quest_lv3", "gotodefend").enter = Journey
    /\ StateDoc("main_quest_lv3", COMPLETE).enter = << >>
    /\ StateDoc("find_squareguard", "start").enter = << >>
    /\ StateDoc("find_squareguard", "run").enter = << >>
    /\ StateDoc("find_squareguard", "find").enter = Journey
    /\ StateDoc("find_squareguard", "buy").enter = Journey
    /\ StateDoc("find_squareguard", "deliver").enter = Journey
    /\ StateDoc("find_squareguard", COMPLETE).enter = << >>
<1>1. /\ StateDoc("main_quest_lv1", "start").enter = << >>
      /\ StateDoc("main_quest_lv1", "gotoinfomation").enter = <<Letter, Say, SetState("gototeacher")>>
      /\ StateDoc("main_quest_lv1", "gototeacher").enter = <<Mark, Say>>
      /\ StateDoc("main_quest_lv1", COMPLETE).enter = << >>
  BY Documents DEF StateDoc, Lv1, Doc, Silent, COMPLETE
<1>2. /\ StateDoc("main_quest_lv2", "start").enter = << >>
      /\ StateDoc("main_quest_lv2", "run").enter = << >>
      /\ StateDoc("main_quest_lv2", "gototeacher").enter = Journey
      /\ StateDoc("main_quest_lv2", "killdog").enter = <<Letter, Objective(Dogs), Say>>
      /\ StateDoc("main_quest_lv2", "gototeacher2").enter = Journey
      /\ StateDoc("main_quest_lv2", COMPLETE).enter = << >>
  BY Documents DEF StateDoc, Lv2, Doc, Silent, COMPLETE
<1>3. /\ StateDoc("main_quest_lv3", "start").enter = << >>
      /\ StateDoc("main_quest_lv3", "run").enter = << >>
      /\ StateDoc("main_quest_lv3", "gototeacher").enter = Journey
      /\ StateDoc("main_quest_lv3", "gotogood").enter = Journey
      /\ StateDoc("main_quest_lv3", "gotodefend").enter = Journey
      /\ StateDoc("main_quest_lv3", COMPLETE).enter = << >>
  BY Documents DEF StateDoc, Lv3, Doc, Silent, COMPLETE
<1>4. /\ StateDoc("find_squareguard", "start").enter = << >>
      /\ StateDoc("find_squareguard", "run").enter = << >>
      /\ StateDoc("find_squareguard", "find").enter = Journey
      /\ StateDoc("find_squareguard", "buy").enter = Journey
      /\ StateDoc("find_squareguard", "deliver").enter = Journey
      /\ StateDoc("find_squareguard", COMPLETE).enter = << >>
  BY Documents DEF StateDoc, Squareguard, Doc, Silent, COMPLETE
<1> QED BY <1>1, <1>2, <1>3, <1>4

\* No state is entered with a reward.
LEMMA EntersAreHarmless ==
    ASSUME NEW q \in QuestId, NEW st \in StateName(q)
    PROVE  /\ IsList(StateDoc(q, st).enter)
           /\ \A k \in 1 .. Len(StateDoc(q, st).enter) : StateDoc(q, st).enter[k] \in Harmless(q)
           /\ st = COMPLETE => StateDoc(q, st).enter = << >>
<1> DEFINE ops == StateDoc(q, st).enter
<1>1. Spoken \subseteq Harmless(q)  BY DEF Harmless
<1>2. q = "main_quest_lv1" => SetState("gototeacher") \in Harmless(q)
  BY States DEF Harmless, Moves, MayMove
<1>3. \/ ops \in {<< >>, Journey, <<Mark, Say>>, <<Letter, Objective(Dogs), Say>>}
      \/ q = "main_quest_lv1" /\ ops = <<Letter, Say, SetState("gototeacher")>>
  BY Quests, States, EnterOperations
<1>4. st = COMPLETE => ops = << >>  BY Quests, EnterOperations
<1>5. IsList(ops) /\ \A k \in 1 .. Len(ops) : ops[k] \in Harmless(q)
  <2> HIDE DEF ops
  <2>1. CASE ops = << >>  BY <2>1 DEF IsList
  <2>2. CASE ops = Journey  BY <2>2, <1>1 DEF IsList, Journey, Spoken
  <2>3. CASE ops = <<Mark, Say>>  BY <2>3, <1>1 DEF IsList, Spoken
  <2>4. CASE ops = <<Letter, Objective(Dogs), Say>>  BY <2>4, <1>1 DEF IsList, Spoken
  <2>5. CASE q = "main_quest_lv1" /\ ops = <<Letter, Say, SetState("gototeacher")>>
    BY <2>5, <1>1, <1>2 DEF IsList, Spoken
  <2> QED BY <1>3, <2>1, <2>2, <2>3, <2>4, <2>5
<1> QED BY <1>4, <1>5

\* What is written without touching a quest's state or what it paid.
LEMMA AsideKeeps ==
    ASSUME NEW w \in Works
    PROVE  /\ \A t \in [QuestId -> Tracker] : [w EXCEPT !.tracker = t] \in Works
           /\ \A s \in Seq(Due) : [w EXCEPT !.queue = s] \in Works
           /\ \A s \in SUBSET (QuestId \X Nat), b \in BOOLEAN :
                [w EXCEPT !.fired = s, !.progressed = b] \in Works
           /\ \A b \in BOOLEAN : [w EXCEPT !.progressed = b] \in Works
           /\ [w EXCEPT !.fired = {}, !.queue = << >>] \in Works
<1> USE DEF MainPaid, SidePaid, AskedNow
<1>1. \A t \in [QuestId -> Tracker] : [w EXCEPT !.tracker = t] \in Works
  BY DEF Works, Records, RowsWith
<1>2. \A s \in Seq(Due) : [w EXCEPT !.queue = s] \in Works
  BY DEF Works, Records, RowsWith
<1>3. \A s \in SUBSET (QuestId \X Nat), b \in BOOLEAN :
        [w EXCEPT !.fired = s, !.progressed = b] \in Works
  <2> TAKE s \in SUBSET (QuestId \X Nat), b \in BOOLEAN
  <2> DEFINE v == [w EXCEPT !.fired = s, !.progressed = b]
  <2>1. v \in Records  BY DEF Works, Records, RowsWith
  <2>2. /\ v.quest = w.quest /\ v.granted = w.granted /\ v.question = w.question
    BY DEF Works, Records, RowsWith
  <2> HIDE DEF v
  <2>3. v \in Works  BY <2>1, <2>2 DEF Works
  <2> QED BY <2>3 DEF v
<1>4. \A b \in BOOLEAN : [w EXCEPT !.progressed = b] \in Works
  BY DEF Works, Records, RowsWith
<1>5. [w EXCEPT !.fired = {}, !.queue = << >>] \in Works
  <2>1. << >> \in Seq(Due) /\ {} \in SUBSET (QuestId \X Nat)
    OBVIOUS
  <2> QED BY <2>1 DEF Works, Records, RowsWith
<1> QED BY <1>1, <1>2, <1>3, <1>4, <1>5

\* A state is entered, or a later move has overtaken the entry.
LEMMA EntryKeeps ==
    ASSUME NEW w \in Works, NEW q \in QuestId, NEW st \in StateName(q), NEW npc, NEW env
    PROVE  EnterState(w, q, st, npc, env) \in Works
<1> DEFINE ops == StateDoc(q, st).enter
           entered == RunOps(w, q, ops, npc, env)
<1>1. CASE w.quest[q] # st  BY <1>1 DEF EnterState
<1>2. CASE w.quest[q] = st
  <2>1. entered \in Works
    <3>1. CASE st = COMPLETE
      <4>1. ops = << >>  BY <3>1, EntersAreHarmless
      <4> DEFINE F == [i \in 0 .. 0 |-> Works]
      <4>2. RunOps(w, q, << >>, npc, env) \in F[Len(<< >>)]
        <5>1. Len(<< >>) = 0 /\ w \in F[0]
          OBVIOUS
        <5> HIDE DEF F
        <5> QED BY <5>1, RunWithin
      <4> QED BY <4>1, <4>2
    <3>2. CASE st # COMPLETE
      <4>1. Open(w, q)  BY <1>2, <3>2 DEF Open
      <4> QED BY <4>1, EntersAreHarmless, HarmlessRuns
    <3> QED BY <3>1, <3>2
  <2>2. \A v \in Works : ForgetProgress(v, q) \in Works
    <3> TAKE v \in Works
    <3>1. v.tracker \in [QuestId -> Tracker]  BY DEF Works, Records, RowsWith
    <3> DEFINE t == [v.tracker EXCEPT ![q].amount = 0, ![q].total = 0]
    <3>2. t \in [QuestId -> Tracker]  BY <3>1, QuestAssumption DEF Tracker
    <3>3. ForgetProgress(v, q) = [v EXCEPT !.tracker = t]
      BY DEF ForgetProgress, Works, Records, RowsWith
    <3> HIDE DEF t
    <3> QED BY <3>2, <3>3, AsideKeeps
  <2> HIDE DEF entered
  <2>3. EnterState(w, q, st, npc, env) \in {entered, ForgetProgress(entered, q)}
    BY <1>2 DEF EnterState, entered
  <2> QED BY <2>1, <2>2, <2>3
<1> QED BY <1>1, <1>2

\* All entries that are due keep the rows.
LEMMA DrainKeeps ==
    ASSUME NEW w \in Works, NEW npc, NEW env PROVE DrainEnters(w, npc, env) \in Works
<1> DEFINE F == [i \in 0 .. MaxStateEnters |-> Works]
<1>1. MaxStateEnters \in Nat /\ w \in F[0]  BY QuestAssumption
<1>2. \A v \in Works : DrainOne(v, npc, env) \in Works
  <2> TAKE v \in Works
  <2>1. CASE v.queue = << >>  BY <2>1 DEF DrainOne
  <2>2. CASE v.queue # << >>
    <3>1. v.queue \in Seq(Due) /\ v.err = FALSE  BY DEF Works, Records, RowsWith
    <3>2. Head(v.queue) \in Due /\ Tail(v.queue) \in Seq(Due)  BY <2>2, <3>1
    <3> DEFINE u == [v EXCEPT !.queue = Tail(v.queue)]
    <3>3. u \in Works  BY <3>2, AsideKeeps
    <3>4. Head(v.queue)[1] \in QuestId /\ Head(v.queue)[2] \in StateName(Head(v.queue)[1])
      BY <3>2 DEF Due
    <3>5. DrainOne(v, npc, env) = EnterState(u, Head(v.queue)[1], Head(v.queue)[2], npc, env)
      BY <2>2, <3>1 DEF DrainOne
    <3> HIDE DEF u
    <3> QED BY <3>3, <3>4, <3>5, EntryKeeps
  <2> QED BY <2>1, <2>2
<1>3. \A k \in 1 .. MaxStateEnters : \A v \in F[k - 1] : DrainOne(v, npc, env) \in F[k]
  BY <1>1, <1>2
<1>4. EntriesRun(w, npc, env) \in F[MaxStateEnters]
  <2> HIDE DEF F
  <2> QED BY <1>1, <1>3, DrainWithin
<1>5. EntriesRun(w, npc, env) \in Works  BY <1>1, <1>4
<1>6. \A v \in Works : v.queue # << >> => [v EXCEPT !.queue = Tail(v.queue)] \in Works
  <2> TAKE v \in Works
  <2> HAVE v.queue # << >>
  <2>1. Tail(v.queue) \in Seq(Due)  BY DEF Works, Records, RowsWith
  <2> QED BY <2>1, AsideKeeps
<1> QED BY <1>5, <1>6 DEF DrainEnters, WithoutNext

-----------------------------------------------------------------------------
(* Triggers that pay nothing                                                 *)

\* A trigger that fires sets its marks and runs; whatever it leaves is kept
\* when both the rows that it found and the ones that it makes are.
LEMMA TrialWithin ==
    ASSUME NEW v, NEW q, NEW i, NEW t, NEW event, NEW vnum, NEW lvl, NEW env, NEW G, v \in G,
           Holds(t, event, vnum, lvl, v, q) /\ ~v.err =>
             RunOps(Fired(v, q, i), q, t.ops, vnum, env) \in G
    PROVE  TryTrigger(v, q, i, t, event, vnum, lvl, env) \in G
  BY DEF TryTrigger

\* The rows that a trigger starts from.
LEMMA MarkedKeeps ==
    ASSUME NEW v \in Works, NEW q \in QuestId, NEW i \in Nat,
           NEW u, u = Fired(v, q, i)
    PROVE  /\ u \in Works /\ u.quest = v.quest /\ u.granted = v.granted
           /\ u.question = v.question
<1>1. v.fired \in SUBSET (QuestId \X Nat)  BY DEF Works, Records, RowsWith
<1> DEFINE s == v.fired \cup {<<q, i>>}
<1>2. s \in SUBSET (QuestId \X Nat) /\ TRUE \in BOOLEAN  BY <1>1
<1>3. u = [v EXCEPT !.fired = s, !.progressed = TRUE]  BY DEF Fired
<1>4. u \in Works
  <2> HIDE DEF s
  <2> QED BY <1>2, <1>3, AsideKeeps
<1>5. u.quest = v.quest /\ u.granted = v.granted /\ u.question = v.question
  BY DEF Works, Records, RowsWith, Fired
<1> QED BY <1>4, <1>5

\* A delivery whose triggers only speak and move keeps the rows.
LEMMA HarmlessDelivery ==
    ASSUME NEW w \in Works, NEW q \in QuestId, NEW event, NEW vnum, NEW lvl, NEW env,
           w.quest[q] \notin {Nothing, COMPLETE}, NEW triggers,
           triggers = StateDoc(q, w.quest[q]).triggers, IsList(triggers),
           \A i \in 1 .. Len(triggers) :
             /\ IsList(triggers[i].ops)
             /\ \A k \in 1 .. Len(triggers[i].ops) : triggers[i].ops[k] \in Harmless(q)
    PROVE  DeliverTo(w, q, event, vnum, lvl, env) \in Works
<1> DEFINE K == {v \in Works : Open(v, q)}
           F == [i \in 0 .. Len(triggers) |-> K]
<1>1. Len(triggers) \in Nat /\ w \in F[0] /\ F[Len(triggers)] = K  BY DEF IsList, Open
<1>2. \A i \in 1 .. Len(triggers) : \A v \in F[i - 1] :
        TryTrigger(v, q, i, triggers[i], event, vnum, lvl, env) \in F[i]
  <2> TAKE i \in 1 .. Len(triggers)
  <2> TAKE v \in F[i - 1]
  <2>1. v \in Works /\ Open(v, q) /\ i \in Nat
    OBVIOUS
  <2> DEFINE u == Fired(v, q, i)
  <2>2. u \in Works /\ Open(u, q)
    <3>0. u = Fired(v, q, i)
      OBVIOUS
    <3> HIDE DEF u
    <3>1. u \in Works /\ u.quest = v.quest
      <4>1. q \in QuestId
        OBVIOUS
      <4> QED BY ONLY <2>1, <3>0, <4>1, MarkedKeeps
    <3> QED BY <2>1, <3>1 DEF Open
  <2>3. RunOps(u, q, triggers[i].ops, vnum, env) \in K
    <3> HIDE DEF u
    <3> QED BY <2>2, HarmlessRuns
  <2>4. TryTrigger(v, q, i, triggers[i], event, vnum, lvl, env) \in K
    <3> HIDE DEF K
    <3>1. v \in K  BY <2>1 DEF K
    <3> QED BY <2>3, <3>1, TrialWithin
  <2> QED BY <2>4
<1>3. DeliverTo(w, q, event, vnum, lvl, env) \in F[Len(triggers)]
  <2> HIDE DEF F
  <2> QED BY <1>1, <1>2, DeliveryWithin
<1> QED BY <1>1, <1>3

\* The states whose triggers only speak and move.
QuietState(q) ==
    IF q = "main_quest_lv1" THEN {"start", "gotoinfomation", "gototeacher"}
    ELSE IF q = "main_quest_lv2" THEN {"start", "run", "gototeacher"}
    ELSE IF q = "main_quest_lv3" THEN {"start", "run", "gototeacher", "gotogood"}
    ELSE {"start", "run"}

\* The triggers of those states hold no reward.
LEMMA QuietTriggers ==
    ASSUME NEW q \in QuestId, NEW st \in QuietState(q), NEW triggers,
           triggers = StateDoc(q, st).triggers
    PROVE  /\ IsList(triggers)
           /\ \A i \in 1 .. Len(triggers) :
                /\ IsList(triggers[i].ops)
                /\ \A k \in 1 .. Len(triggers[i].ops) : triggers[i].ops[k] \in Harmless(q)
<1> DEFINE Good(ops) == IsList(ops) /\ \A k \in 1 .. Len(ops) : ops[k] \in Harmless(q)
<1>1. Spoken \subseteq Harmless(q) /\ Unlocks \subseteq Harmless(q)  BY DEF Harmless
<1>2. \A s \in MayMove(q) : SetState(s) \in Harmless(q)  BY DEF Harmless, Moves
<1>3. Say \in Harmless(q) /\ ClearLetter \in Harmless(q)  BY <1>1 DEF Spoken
<1>4. \A s \in MayMove(q) : Good(<<SetState(s)>>) /\ Good(<<Say, SetState(s)>>) /\ Good(<<Say>>)
  BY <1>2, <1>3 DEF IsList
<1>5. CASE q = "main_quest_lv1" /\ st = "start"
  <2>1. Len(triggers) = 1 /\ DOMAIN triggers = 1 .. 1
    BY <1>5, Documents DEF StateDoc, Lv1, Doc
  <2>2. triggers[1].ops = <<SetState("gotoinfomation")>>
    BY <1>5, Documents DEF StateDoc, Lv1, Doc, When
  <2>3. "gotoinfomation" \in MayMove(q)  BY <1>5, States DEF MayMove, COMPLETE
  <2>4. Good(triggers[1].ops)  BY <2>2, <2>3, <1>4
  <2> HIDE DEF Good
  <2>5. \A i \in 1 .. Len(triggers) : Good(triggers[i].ops)  BY <2>1, <2>4
  <2> QED BY <2>1, <2>5 DEF IsList, Good
<1>6. CASE q = "main_quest_lv1" /\ st = "gotoinfomation"
  <2>1. Len(triggers) = 0 /\ DOMAIN triggers = 1 .. 0
    BY <1>6, Documents DEF StateDoc, Lv1, Doc
  <2> QED BY <2>1 DEF IsList
<1>7. CASE q = "main_quest_lv1" /\ st = "gototeacher"
  <2>1. Len(triggers) = 1 /\ DOMAIN triggers = 1 .. 1
    BY <1>7, Documents DEF StateDoc, Lv1, Doc
  <2>2. triggers[1].ops = <<Say, ClearLetter, SetState(COMPLETE), SetQuestState("find_squareguard", "find"),
               SetQuestState("main_quest_lv2", "run")>>
    BY <1>7, Documents DEF StateDoc, Lv1, Doc, When
  <2>3. COMPLETE \in MayMove(q)  BY <1>7, States DEF MayMove
  <2>4. SetQuestState("find_squareguard", "find") \in Harmless(q)
        /\ SetQuestState("main_quest_lv2", "run") \in Harmless(q)
    BY <1>1 DEF Unlocks
  <2>5. Good(triggers[1].ops)
    <3>1. Len(triggers[1].ops) = 5 /\ DOMAIN triggers[1].ops = 1 .. 5  BY <2>2
    <3> QED BY <2>2, <2>3, <2>4, <3>1, <1>2, <1>3 DEF IsList
  <2> QED BY <2>1, <2>5 DEF IsList
<1>8. CASE q = "main_quest_lv2" /\ st = "start"
  <2>1. Len(triggers) = 0 /\ DOMAIN triggers = 1 .. 0
    BY <1>8, Documents DEF StateDoc, Lv2, Doc, Silent
  <2> QED BY <2>1 DEF IsList
<1>9. CASE q = "main_quest_lv2" /\ st = "run"
  <2>1. Len(triggers) = 3 /\ DOMAIN triggers = 1 .. 3
    BY <1>9, Documents DEF StateDoc, Lv2, Doc
  <2>2. triggers[1].ops = <<SetState("gototeacher")>>
    BY <1>9, Documents DEF StateDoc, Lv2, Doc, When
  <2>3. triggers[2].ops = <<SetState("gototeacher")>>
    BY <1>9, Documents DEF StateDoc, Lv2, Doc, When
  <2>4. triggers[3].ops = <<Say>>  BY <1>9, Documents DEF StateDoc, Lv2, Doc, When
  <2>5. "gototeacher" \in MayMove(q)  BY <1>9, States DEF MayMove, COMPLETE
  <2>6. Good(triggers[1].ops)  BY <2>2, <2>5, <1>4
  <2>7. Good(triggers[2].ops)  BY <2>3, <2>5, <1>4
  <2>8. Good(triggers[3].ops)  BY <2>4, <2>5, <1>4
  <2> HIDE DEF Good
  <2>9. \A i \in 1 .. Len(triggers) : Good(triggers[i].ops)  BY <2>1, <2>6, <2>7, <2>8
  <2> QED BY <2>1, <2>9 DEF IsList, Good
<1>10. CASE q = "main_quest_lv2" /\ st = "gototeacher"
  <2>1. Len(triggers) = 1 /\ DOMAIN triggers = 1 .. 1
    BY <1>10, Documents DEF StateDoc, Lv2, Doc
  <2>2. triggers[1].ops = <<Say, SetState("killdog")>>
    BY <1>10, Documents DEF StateDoc, Lv2, Doc, When
  <2>3. "killdog" \in MayMove(q)  BY <1>10, States DEF MayMove, COMPLETE
  <2>4. Good(triggers[1].ops)  BY <2>2, <2>3, <1>4
  <2> HIDE DEF Good
  <2>5. \A i \in 1 .. Len(triggers) : Good(triggers[i].ops)  BY <2>1, <2>4
  <2> QED BY <2>1, <2>5 DEF IsList, Good
<1>11. CASE q = "main_quest_lv3" /\ st = "start"
  <2>1. Len(triggers) = 0 /\ DOMAIN triggers = 1 .. 0
    BY <1>11, Documents DEF StateDoc, Lv3, Doc, Silent
  <2> QED BY <2>1 DEF IsList
<1>12. CASE q = "main_quest_lv3" /\ st = "run"
  <2>1. Len(triggers) = 3 /\ DOMAIN triggers = 1 .. 3
    BY <1>12, Documents DEF StateDoc, Lv3, Doc
  <2>2. triggers[1].ops = <<SetState("gototeacher")>>
    BY <1>12, Documents DEF StateDoc, Lv3, Doc, When
  <2>3. triggers[2].ops = <<SetState("gototeacher")>>
    BY <1>12, Documents DEF StateDoc, Lv3, Doc, When
  <2>4. triggers[3].ops = <<Say>>  BY <1>12, Documents DEF StateDoc, Lv3, Doc, When
  <2>5. "gototeacher" \in MayMove(q)  BY <1>12, States DEF MayMove, COMPLETE
  <2>6. Good(triggers[1].ops)  BY <2>2, <2>5, <1>4
  <2>7. Good(triggers[2].ops)  BY <2>3, <2>5, <1>4
  <2>8. Good(triggers[3].ops)  BY <2>4, <2>5, <1>4
  <2> HIDE DEF Good
  <2>9. \A i \in 1 .. Len(triggers) : Good(triggers[i].ops)  BY <2>1, <2>6, <2>7, <2>8
  <2> QED BY <2>1, <2>9 DEF IsList, Good
<1>13. CASE q = "main_quest_lv3" /\ st = "gototeacher"
  <2>1. Len(triggers) = 1 /\ DOMAIN triggers = 1 .. 1
    BY <1>13, Documents DEF StateDoc, Lv3, Doc
  <2>2. triggers[1].ops = <<Say, SetState("gotogood")>>
    BY <1>13, Documents DEF StateDoc, Lv3, Doc, When
  <2>3. "gotogood" \in MayMove(q)  BY <1>13, States DEF MayMove, COMPLETE
  <2>4. Good(triggers[1].ops)  BY <2>2, <2>3, <1>4
  <2> HIDE DEF Good
  <2>5. \A i \in 1 .. Len(triggers) : Good(triggers[i].ops)  BY <2>1, <2>4
  <2> QED BY <2>1, <2>5 DEF IsList, Good
<1>14. CASE q = "main_quest_lv3" /\ st = "gotogood"
  <2>1. Len(triggers) = 1 /\ DOMAIN triggers = 1 .. 1
    BY <1>14, Documents DEF StateDoc, Lv3, Doc
  <2>2. triggers[1].ops = <<Say, SetState("gotodefend")>>
    BY <1>14, Documents DEF StateDoc, Lv3, Doc, When
  <2>3. "gotodefend" \in MayMove(q)  BY <1>14, States DEF MayMove, COMPLETE
  <2>4. Good(triggers[1].ops)  BY <2>2, <2>3, <1>4
  <2> HIDE DEF Good
  <2>5. \A i \in 1 .. Len(triggers) : Good(triggers[i].ops)  BY <2>1, <2>4
  <2> QED BY <2>1, <2>5 DEF IsList, Good
<1>15. CASE q = "find_squareguard" /\ st = "start"
  <2>1. Len(triggers) = 0 /\ DOMAIN triggers = 1 .. 0
    BY <1>15, Documents DEF StateDoc, Squareguard, Doc, Silent
  <2> QED BY <2>1 DEF IsList
<1>16. CASE q = "find_squareguard" /\ st = "run"
  <2>1. Len(triggers) = 1 /\ DOMAIN triggers = 1 .. 1
    BY <1>16, Documents DEF StateDoc, Squareguard, Doc
  <2>2. triggers[1].ops = <<SetState("find")>>
    BY <1>16, Documents DEF StateDoc, Squareguard, Doc, When
  <2>3. "find" \in MayMove(q)  BY <1>16, States DEF MayMove, COMPLETE
  <2>4. Good(triggers[1].ops)  BY <2>2, <2>3, <1>4
  <2> HIDE DEF Good
  <2>5. \A i \in 1 .. Len(triggers) : Good(triggers[i].ops)  BY <2>1, <2>4
  <2> QED BY <2>1, <2>5 DEF IsList, Good
<1>17. \/ q = "main_quest_lv1" /\ st \in {"start", "gotoinfomation", "gototeacher"}
       \/ q = "main_quest_lv2" /\ st \in {"start", "run", "gototeacher"}
       \/ q = "main_quest_lv3" /\ st \in {"start", "run", "gototeacher", "gotogood"}
       \/ q = "find_squareguard" /\ st \in {"start", "run"}
  BY Quests DEF QuietState
<1> QED BY <1>17, <1>5, <1>6, <1>7, <1>8, <1>9, <1>10, <1>11, <1>12, <1>13, <1>14, <1>15, <1>16

-----------------------------------------------------------------------------
(* Rewards                                                                   *)

\* Rows that agree on states, payments and question are both kept.
LEMMA SameRows ==
    ASSUME NEW w \in Works, NEW v \in Records,
           v.quest = w.quest, v.granted = w.granted, v.question = w.question
    PROVE  v \in Works
  BY DEF Works, MainPaid, SidePaid, AskedNow

\* What is only said changes neither the states nor what was paid.
LEMMA SayingKeeps ==
    ASSUME NEW w \in Records, NEW q \in QuestId, NEW op \in {Say, ClearLetter}, NEW npc, NEW env,
           NEW v, v = RunOp(w, q, op, npc, env)
    PROVE  /\ v \in Records /\ v.quest = w.quest /\ v.granted = w.granted
           /\ v.question = w.question
<1>1. v = Perform(w, q, op, npc, env)
  <2>1. op.op # "count"
    <3>1. Say.op = "say" /\ ClearLetter.op = "clear_letter"  BY DEF Say, ClearLetter, Do
    <3> QED BY <3>1
  <2>2. w.err = FALSE  BY DEF Records, RowsWith
  <2> QED BY <2>1, <2>2 DEF RunOp
<1>2. CASE op = Say
  <2>1. v = [w EXCEPT !.said = TRUE]  BY <1>1, <1>2 DEF Perform, Say, Do
  <2> QED BY <2>1 DEF Records, RowsWith
<1>3. CASE op = ClearLetter
  <2> DEFINE t == [w.tracker EXCEPT ![q].letter = FALSE]
  <2>1. w.tracker \in [QuestId -> Tracker]  BY DEF Records, RowsWith
  <2>2. t \in [QuestId -> Tracker]  BY <2>1 DEF Tracker
  <2>3. v = [w EXCEPT !.tracker = t]
    BY <1>1, <1>3 DEF Perform, ClearLetter, Do, Records, RowsWith
  <2> HIDE DEF t
  <2> QED BY <2>2, <2>3 DEF Records, RowsWith
<1> QED BY <1>2, <1>3

\* One more of a reward.
More(n) == IF n < 2 THEN n + 1 ELSE 2

\* A reward is granted, or the operation fails.
LEMMA GrantingPays ==
    ASSUME NEW w \in Records, NEW q \in QuestId, NEW kind \in RewardKind, NEW npc,
           NEW env \in World, NEW v, v = RunOp(w, q, Give(kind), npc, env)
    PROVE  \/ v \in Failed
           \/ /\ v \in Records /\ v.quest = w.quest /\ v.question = w.question
              /\ v.granted = [w.granted EXCEPT ![q][kind] = More(@)]
<1>1. v = Reward(w, q, kind, env)  BY DEF RunOp, Perform, Records, RowsWith, Give, Do
<1>2. w.level \in 1 .. MaxLevel /\ env.gain \in 0 .. 1 /\ w.granted \in Grants /\ w.held \in 0 .. 1
  BY DEF Records, RowsWith, World
<1>3. CASE IF kind = "exp" THEN w.level = MaxLevel ELSE ~env.room
  <2>1. v = [w EXCEPT !.err = TRUE]  BY <1>1, <1>3 DEF Reward
  <2> QED BY <2>1 DEF Records, Failed, RowsWith
<1>4. CASE ~IF kind = "exp" THEN w.level = MaxLevel ELSE ~env.room
  <2> DEFINE g == [w.granted EXCEPT ![q][kind] = More(@)]
             l == IF kind = "exp" THEN w.level + env.gain ELSE w.level
             h == IF kind = "item" THEN 1 ELSE w.held
  <2>1. v = [w EXCEPT !.granted = g, !.level = l, !.held = h]
    BY <1>1, <1>4 DEF Reward, Records, RowsWith, More
  <2>2. g \in Grants  BY <1>2 DEF Grants, More
  <2>3. l \in 1 .. MaxLevel /\ h \in 0 .. 1  BY <1>2, <1>4, QuestAssumption
  <2> HIDE DEF g, l, h
  <2>4. v \in Records /\ v.quest = w.quest /\ v.question = w.question /\ v.granted = g
    BY <2>1, <2>2, <2>3 DEF Records, RowsWith
  <2> QED BY <2>4 DEF g
<1> QED BY <1>3, <1>4

\* Nothing runs after an operation that failed.
LEMMA FailureStays ==
    ASSUME NEW w \in Failed, NEW q, NEW op, NEW npc, NEW env
    PROVE  RunOp(w, q, op, npc, env) = w
  BY DEF Failed, RowsWith, RunOp

\* A main quest that is paying has paid the kinds of K and is not complete.
Paying(q, K) ==
    {v \in Records :
       /\ v.quest[q] \notin {Nothing, COMPLETE}
       /\ SidePaid(v) /\ AskedNow(v)
       /\ operator \/ \A r \in {"main_quest_lv2", "main_quest_lv3"} :
            IF r = q THEN \A k \in RewardKind : v.granted[r][k] = (IF k \in K THEN 1 ELSE 0)
            ELSE IF v.quest[r] = COMPLETE
            THEN \A k \in RewardKind \ {"random"} : v.granted[r][k] = 1
            ELSE \A k \in RewardKind : v.granted[r][k] = 0}

\* A main quest that is paying goes on paying, or the delivery fails.
LEMMA PayingGoesOn ==
    ASSUME NEW q \in {"main_quest_lv2", "main_quest_lv3"}, NEW K \in SUBSET RewardKind,
           NEW v \in Paying(q, K), NEW npc, NEW env \in World
    PROVE  /\ \A op \in {Say, ClearLetter} : RunOp(v, q, op, npc, env) \in Paying(q, K)
           /\ \A kind \in RewardKind \ K :
                RunOp(v, q, Give(kind), npc, env) \in Paying(q, K \cup {kind}) \cup Failed
           /\ K = {"exp", "money", "item"} => RunOp(v, q, SetState(COMPLETE), npc, env) \in Works
<1>1. v \in Records /\ q \in QuestId  BY Quests DEF Paying
<1>2. ASSUME NEW op \in {Say, ClearLetter} PROVE RunOp(v, q, op, npc, env) \in Paying(q, K)
  <2> DEFINE u == RunOp(v, q, op, npc, env)
  <2>1. /\ u \in Records /\ u.quest = v.quest /\ u.granted = v.granted
        /\ u.question = v.question
    BY <1>1, SayingKeeps
  <2> HIDE DEF u
  <2>2. u \in Paying(q, K)  BY <2>1 DEF Paying, SidePaid, AskedNow
  <2> QED BY <2>2 DEF u
<1>3. ASSUME NEW kind \in RewardKind \ K
      PROVE  RunOp(v, q, Give(kind), npc, env) \in Paying(q, K \cup {kind}) \cup Failed
  <2> DEFINE u == RunOp(v, q, Give(kind), npc, env)
  <2>1. \/ u \in Failed
        \/ /\ u \in Records /\ u.quest = v.quest /\ u.question = v.question
           /\ u.granted = [v.granted EXCEPT ![q][kind] = More(@)]
    BY <1>1, GrantingPays
  <2> HIDE DEF u
  <2>2. ASSUME u \notin Failed PROVE u \in Paying(q, K \cup {kind})
    <3>1. v.granted \in Grants  BY <1>1 DEF Records, RowsWith
    <3>2. \A r \in QuestId \ {q} : u.granted[r] = v.granted[r]
      BY <2>1, <2>2, <3>1 DEF Grants
    <3>3. \A k \in RewardKind : u.granted[q][k] = IF k = kind THEN More(v.granted[q][k])
                                                  ELSE v.granted[q][k]
      BY <1>1, <2>1, <2>2, <3>1 DEF Grants
    <3>4. SidePaid(u) /\ AskedNow(u)
      BY <2>1, <2>2, <3>2, Quests DEF Paying, SidePaid, AskedNow
    <3>5. operator \/ \A k \in RewardKind :
            u.granted[q][k] = IF k \in K \cup {kind} THEN 1 ELSE 0
      BY <3>3 DEF Paying, More
    <3> QED BY <2>1, <2>2, <3>2, <3>4, <3>5, Quests DEF Paying
  <2>3. u \in Paying(q, K \cup {kind}) \cup Failed  BY <2>2
  <2> QED BY <2>3 DEF u
<1>4. ASSUME K = {"exp", "money", "item"} PROVE RunOp(v, q, SetState(COMPLETE), npc, env) \in Works
  <2>1. RunOp(v, q, SetState(COMPLETE), npc, env) = MovedTo(v, q, COMPLETE)
    BY <1>1 DEF RunOp, Perform, SetState, Do, Paying, Records, RowsWith
  <2> DEFINE u == MovedTo(v, q, COMPLETE)
  <2>2. COMPLETE \in StateName(q)  BY States
  <2>3. /\ v.quest \in QuestRows /\ v.tracker \in [QuestId -> Tracker]
        /\ v.queue \in Seq(Due)
    BY <1>1 DEF Records, RowsWith
  <2>4. u \in Records
    <3>1. [v.quest EXCEPT ![q] = COMPLETE] \in QuestRows
      BY <1>1, <2>2, <2>3 DEF QuestRows
    <3>2. [v.tracker EXCEPT ![q] = NoTracker] \in [QuestId -> Tracker]
      <4>1. NoTracker \in Tracker  BY QuestAssumption DEF Tracker, NoTracker
      <4> QED BY <2>3, <4>1
    <3>3. <<q, COMPLETE>> \in Due  BY <1>1, <2>2 DEF Due
    <3>4. Append(v.queue, <<q, COMPLETE>>) \in Seq(Due)  BY <2>3, <3>3
    <3> QED BY <1>1, <3>1, <3>2, <3>4 DEF Records, RowsWith, MovedTo
  <2>5. /\ u.granted = v.granted /\ u.question = v.question
        /\ u.quest = [v.quest EXCEPT ![q] = COMPLETE]
    BY <1>1 DEF MovedTo, Records, RowsWith
  <2> HIDE DEF u
  <2>6. SidePaid(u) /\ AskedNow(u)
    BY <2>3, <2>5, Quests DEF Paying, SidePaid, AskedNow, QuestRows
  <2>7. operator \/ MainPaid(u)
    BY <1>4, <2>3, <2>5, Quests DEF Paying, MainPaid, QuestRows, RewardKind
  <2>8. u \in Works  BY <2>4, <2>6, <2>7 DEF Works
  <2> QED BY <2>1, <2>8 DEF u
<1> QED BY <1>2, <1>3, <1>4

\* The operations with which a main quest pays and completes.
PayAndComplete(succ) ==
    <<Say, Give("exp"), Give("money"), Give("item"), ClearLetter, SetState(COMPLETE),
      SetQuestState(succ, "run")>>

\* A main quest completes with all its rewards, or the delivery fails.
LEMMA MainQuestPays ==
    ASSUME NEW q \in {"main_quest_lv2", "main_quest_lv3"}, NEW w \in Works,
           w.quest[q] \notin {Nothing, COMPLETE}, NEW npc, NEW env \in World,
           NEW succ \in {"main_quest_lv3", "main_quest_lv6"}
    PROVE  RunOps(w, q, PayAndComplete(succ), npc, env) \in Works \cup Failed
<1> DEFINE ops == PayAndComplete(succ)
           F == [i \in 0 .. 7 |->
                   Failed \cup (IF i <= 1 THEN Paying(q, {})
                               ELSE IF i = 2 THEN Paying(q, {"exp"})
                               ELSE IF i = 3 THEN Paying(q, {"exp", "money"})
                               ELSE IF i <= 5 THEN Paying(q, {"exp", "money", "item"})
                               ELSE Works)]
           R(v, k) == RunOp(v, q, ops[k], npc, env)
<1>1. /\ ops[1] = Say /\ ops[2] = Give("exp") /\ ops[3] = Give("money")
      /\ ops[4] = Give("item") /\ ops[5] = ClearLetter /\ ops[6] = SetState(COMPLETE)
      /\ ops[7] = SetQuestState(succ, "run") /\ Len(ops) = 7
  BY DEF PayAndComplete
<1>2. w \in F[0]  BY Quests DEF Works, Paying, MainPaid
<1>3. \A K \in SUBSET RewardKind : \A v \in Paying(q, K) :
        /\ R(v, 1) \in Paying(q, K) /\ R(v, 5) \in Paying(q, K)
        /\ "exp" \notin K => R(v, 2) \in Paying(q, K \cup {"exp"}) \cup Failed
        /\ "money" \notin K => R(v, 3) \in Paying(q, K \cup {"money"}) \cup Failed
        /\ "item" \notin K => R(v, 4) \in Paying(q, K \cup {"item"}) \cup Failed
        /\ K = {"exp", "money", "item"} => R(v, 6) \in Works
  <2> TAKE K \in SUBSET RewardKind
  <2> TAKE v \in Paying(q, K)
  <2> HIDE DEF ops
  <2>1. "exp" \in RewardKind /\ "money" \in RewardKind /\ "item" \in RewardKind
    BY DEF RewardKind
  <2> QED BY <1>1, <2>1, PayingGoesOn
<1>4. \A v \in Works : R(v, 7) \in Works
  <2> TAKE v \in Works
  <2>1. SetQuestState(succ, "run") \in Unlocks  BY DEF Unlocks
  <2>2. R(v, 7) = Perform(v, q, SetQuestState(succ, "run"), npc, env)
    <3>1. v.err = FALSE /\ SetQuestState(succ, "run").op # "count"
      BY DEF Works, Records, RowsWith, SetQuestState, Do
    <3> QED BY <1>1, <3>1 DEF RunOp
  <2> HIDE DEF ops
  <2> QED BY <2>1, <2>2, UnlockKeeps, Quests
<1>5. \A v \in Failed, k \in 1 .. 7 : R(v, k) \in Failed  BY FailureStays
<1>6. \A k \in 1 .. 7 : \A v \in F[k - 1] : R(v, k) \in F[k]
  <2> TAKE k \in 1 .. 7
  <2> TAKE v \in F[k - 1]
  <2> HIDE DEF R, ops
  <2>1. CASE v \in Failed  BY <2>1, <1>5
  <2> DEFINE e == "exp" m == "money" t == "item"
  <2>2. /\ {} \in SUBSET RewardKind /\ {e} \in SUBSET RewardKind
        /\ {e, m} \in SUBSET RewardKind /\ {e, m, t} \in SUBSET RewardKind
    BY DEF RewardKind
  <2>3. /\ {} \cup {e} = {e} /\ {e} \cup {m} = {e, m} /\ {e, m} \cup {t} = {e, m, t}
        /\ e \notin {} /\ m \notin {e} /\ t \notin {e, m}
    OBVIOUS
  <2>4. CASE v \notin Failed /\ k = 1
    <3>1. v \in Paying(q, {})  BY <2>4
    <3>2. R(v, 1) \in Paying(q, {})  BY <1>3, <2>2, <3>1
    <3> QED BY <2>4, <3>2
  <2>5. CASE v \notin Failed /\ k = 2
    <3>1. v \in Paying(q, {})  BY <2>5
    <3>2. R(v, 2) \in Paying(q, {e}) \cup Failed  BY <1>3, <2>2, <2>3, <3>1
    <3> QED BY <2>5, <3>2
  <2>6. CASE v \notin Failed /\ k = 3
    <3>1. v \in Paying(q, {e})  BY <2>6
    <3>2. R(v, 3) \in Paying(q, {e, m}) \cup Failed  BY <1>3, <2>2, <2>3, <3>1
    <3> QED BY <2>6, <3>2
  <2>7. CASE v \notin Failed /\ k = 4
    <3>1. v \in Paying(q, {e, m})  BY <2>7
    <3>2. R(v, 4) \in Paying(q, {e, m, t}) \cup Failed  BY <1>3, <2>2, <2>3, <3>1
    <3> QED BY <2>7, <3>2
  <2>8. CASE v \notin Failed /\ k = 5
    <3>1. v \in Paying(q, {e, m, t})  BY <2>8
    <3>2. R(v, 5) \in Paying(q, {e, m, t})  BY <1>3, <2>2, <3>1
    <3> QED BY <2>8, <3>2
  <2>9. CASE v \notin Failed /\ k = 6
    <3>1. v \in Paying(q, {e, m, t})  BY <2>9
    <3>2. R(v, 6) \in Works  BY <1>3, <2>2, <3>1
    <3> QED BY <2>9, <3>2
  <2>10. CASE v \notin Failed /\ k = 7
    <3>1. v \in Works  BY <2>10
    <3> QED BY <2>10, <3>1, <1>4
  <2> QED BY <2>1, <2>4, <2>5, <2>6, <2>7, <2>8, <2>9, <2>10
<1>7. RunOps(w, q, ops, npc, env) \in F[7]
  <2>1. \A k \in 1 .. Len(ops) : \A v \in F[k - 1] :
          RunOp(v, q, ops[k], npc, env) \in F[k]
    BY <1>1, <1>6
  <2>2. Len(ops) = 7  BY <1>1
  <2>3. Len(ops) \in Nat  BY <2>2
  <2> HIDE DEF F, ops
  <2>4. RunOps(w, q, ops, npc, env) \in F[Len(ops)]  BY <1>2, <2>1, <2>3, RunWithin
  <2> QED BY <2>2, <2>4
<1> QED BY <1>7

\* The side quest moves on: it has been paid and it is not its question that
\* is open.
LEMMA SideMoves ==
    ASSUME NEW w \in Works, NEW st \in {"buy", "deliver", COMPLETE},
           w.granted["find_squareguard"]["money"] >= 1,
           st # "buy" => w.granted["find_squareguard"]["item"] >= 1,
           w.question = Nothing \/ w.question.quest # "find_squareguard", NEW npc, NEW env,
           NEW v, v = RunOp(w, "find_squareguard", SetState(st), npc, env)
    PROVE  v \in Works /\ v.quest["find_squareguard"] = st
<1> DEFINE q == "find_squareguard"
           u == MovedTo(w, q, st)
<1>1. v = IF w.quest[q] = st THEN w ELSE u
  BY DEF RunOp, Perform, SetState, Do, Works, Records, RowsWith
<1>2. st \in StateName(q) /\ q \in QuestId  BY States, Quests
<1>3. /\ w.quest \in QuestRows /\ w.tracker \in [QuestId -> Tracker]
      /\ w.queue \in Seq(Due)
  BY DEF Works, Records, RowsWith
<1>4. u \in Records
  <2>1. [w.quest EXCEPT ![q] = st] \in QuestRows  BY <1>2, <1>3 DEF QuestRows
  <2> DEFINE t == [w.tracker EXCEPT ![q] = IF st = COMPLETE THEN NoTracker ELSE @]
  <2>2. t \in [QuestId -> Tracker]
    <3>1. NoTracker \in Tracker  BY QuestAssumption DEF Tracker, NoTracker
    <3> QED BY <1>3, <3>1
  <2>3. <<q, st>> \in Due  BY <1>2 DEF Due
  <2>4. Append(w.queue, <<q, st>>) \in Seq(Due)  BY <1>3, <2>3
  <2>5. u = [w EXCEPT !.quest = [w.quest EXCEPT ![q] = st], !.tracker = t,
                      !.queue = Append(w.queue, <<q, st>>)]
    BY DEF MovedTo, Works, Records, RowsWith
  <2> HIDE DEF t
  <2> QED BY <2>1, <2>2, <2>4, <2>5 DEF Works, Records, RowsWith
<1>5. /\ u.granted = w.granted /\ u.question = w.question
      /\ u.quest = [w.quest EXCEPT ![q] = st]
  BY DEF MovedTo, Works, Records, RowsWith
<1> HIDE DEF u
<1>6. SidePaid(u)  BY <1>2, <1>3, <1>5 DEF SidePaid, QuestRows, COMPLETE
<1>7. AskedNow(u)  BY <1>5 DEF AskedNow
<1>8. operator \/ MainPaid(u)
  BY <1>2, <1>3, <1>5, Quests DEF Works, MainPaid, QuestRows
<1>9. u \in Works /\ u.quest[q] = st
  BY <1>2, <1>3, <1>4, <1>5, <1>6, <1>7, <1>8 DEF Works, QuestRows
<1> QED BY <1>1, <1>9

\* What the side quest gives and takes before it moves on.
Onward(v) ==
    {u \in Works : /\ u.quest = v.quest /\ u.question = v.question
                   /\ \A k \in RewardKind : v.granted["find_squareguard"][k] >= 1
                                             => u.granted["find_squareguard"][k] >= 1}

\* What the side quest gives it has given, or the delivery fails.
LEMMA SideSteps ==
    ASSUME NEW v \in Works, NEW npc, NEW env \in World
    PROVE  /\ \A op \in {Say, ClearLetter} :
                RunOp(v, "find_squareguard", op, npc, env) \in Onward(v)
           /\ \A kind \in RewardKind :
                LET u == RunOp(v, "find_squareguard", Give(kind), npc, env)
                IN  u \in Failed \/ (u \in Onward(v) /\ u.granted["find_squareguard"][kind] >= 1)
           /\ RunOp(v, "find_squareguard", RemoveItem, npc, env) \in Onward(v) \cup Failed
<1> DEFINE q == "find_squareguard"
<1>1. v \in Records /\ q \in QuestId /\ v.granted \in Grants
  BY Quests DEF Works, Records, RowsWith
<1>2. ASSUME NEW op \in {Say, ClearLetter} PROVE RunOp(v, q, op, npc, env) \in Onward(v)
  <2> DEFINE u == RunOp(v, q, op, npc, env)
  <2>1. /\ u \in Records /\ u.quest = v.quest /\ u.granted = v.granted
        /\ u.question = v.question
    <3> HIDE DEF q
    <3> QED BY <1>1, SayingKeeps
  <2> HIDE DEF u
  <2>2. u \in Onward(v)  BY <2>1, SameRows DEF Onward
  <2> QED BY <2>2 DEF u
<1>3. ASSUME NEW kind \in RewardKind
      PROVE  LET u == RunOp(v, q, Give(kind), npc, env)
             IN  u \in Failed \/ (u \in Onward(v) /\ u.granted[q][kind] >= 1)
  <2> DEFINE u == RunOp(v, q, Give(kind), npc, env)
  <2>1. \/ u \in Failed
        \/ /\ u \in Records /\ u.quest = v.quest /\ u.question = v.question
           /\ u.granted = [v.granted EXCEPT ![q][kind] = More(@)]
    <3> HIDE DEF q
    <3> QED BY <1>1, GrantingPays
  <2> HIDE DEF u
  <2>2. ASSUME u \notin Failed PROVE u \in Onward(v) /\ u.granted[q][kind] >= 1
    <3>1. \A r \in QuestId \ {q} : u.granted[r] = v.granted[r]
      BY <1>1, <2>1, <2>2 DEF Grants
    <3>2. \A k \in RewardKind : u.granted[q][k] = IF k = kind THEN More(v.granted[q][k])
                                                  ELSE v.granted[q][k]
      BY <1>1, <2>1, <2>2 DEF Grants
    <3>3. \A k \in RewardKind : v.granted[q][k] \in 0 .. 2  BY <1>1 DEF Grants
    <3>4. /\ u.granted[q][kind] >= 1
          /\ \A k \in RewardKind : v.granted[q][k] >= 1 => u.granted[q][k] >= 1
      BY <3>2, <3>3 DEF More
    <3>5. SidePaid(u)  BY <2>1, <2>2, <3>4 DEF Works, SidePaid, RewardKind
    <3>6. AskedNow(u) /\ (operator \/ MainPaid(u))
      BY <2>1, <2>2, <3>1, Quests DEF Works, AskedNow, MainPaid
    <3> QED BY <2>1, <2>2, <3>4, <3>5, <3>6 DEF Onward, Works
  <2>3. u \in Failed \/ (u \in Onward(v) /\ u.granted[q][kind] >= 1)
    <3>1. CASE u \in Failed  BY <3>1
    <3>2. CASE u \notin Failed  BY <3>2, <2>2
    <3> QED BY <3>1, <3>2
  <2> QED BY <2>3 DEF u
<1>4. RunOp(v, q, RemoveItem, npc, env) \in Onward(v) \cup Failed
  <2> DEFINE u == RunOp(v, q, RemoveItem, npc, env)
             h == IF env.last THEN 0 ELSE 1
  <2>1. u = IF v.held = 0 THEN [v EXCEPT !.err = TRUE] ELSE [v EXCEPT !.held = h]
    BY <1>1 DEF RunOp, Perform, RemoveItem, Do, Records, RowsWith
  <2>2. h \in 0 .. 1
    OBVIOUS
  <2> HIDE DEF u, h
  <2>3. CASE v.held = 0
    <3>1. u \in Failed  BY <1>1, <2>1, <2>3 DEF Records, Failed, RowsWith
    <3> QED BY <3>1 DEF u
  <2>4. CASE v.held # 0
    <3>1. /\ u \in Records /\ u.quest = v.quest /\ u.granted = v.granted
          /\ u.question = v.question
      BY <1>1, <2>1, <2>2, <2>4 DEF Records, RowsWith
    <3>2. u \in Onward(v)  BY <3>1, SameRows DEF Onward
    <3> QED BY <3>2 DEF u
  <2> QED BY <2>3, <2>4
<1> QED BY <1>2, <1>3, <1>4

\* The rows of a delivery that stays within some states of the side quest.
Within(S) == {v \in Works : v.quest["find_squareguard"] \in S}

\* States of the side quest are kept by rows with the same states.
LEMMA SideStays ==
    ASSUME NEW S, NEW v \in Within(S), NEW u \in Onward(v)
    PROVE  u \in Within(S)
  BY DEF Within, Onward

\* In the states after a reward it has been paid, and no question is open.
LEMMA SideHasPaid ==
    ASSUME NEW v \in Works
    PROVE  /\ v.quest["find_squareguard"] \in {"buy", "deliver", COMPLETE}
                => /\ v.granted["find_squareguard"]["money"] >= 1
                   /\ v.question = Nothing \/ v.question.quest # "find_squareguard"
           /\ v.quest["find_squareguard"] \in {"deliver", COMPLETE}
                => v.granted["find_squareguard"]["item"] >= 1
  BY DEF Works, SidePaid, AskedNow, COMPLETE

\* The potion is given before the side quest asks for its delivery.
LEMMA ItemIsGiven ==
    ASSUME NEW w \in Within({"buy", "deliver"}), NEW npc, NEW env \in World
    PROVE  RunOps(w, "find_squareguard", <<Say, Give("item"), SetState("deliver")>>, npc, env)
             \in Within({"buy", "deliver"}) \cup Failed
<1> DEFINE q == "find_squareguard"
           K == Within({"buy", "deliver"})
           ops == <<Say, Give("item"), SetState("deliver")>>
           F == [i \in 0 .. 3 |->
                   IF i = 2 THEN {v \in K : v.granted[q]["item"] >= 1} \cup Failed
                   ELSE K \cup Failed]
<1>1. /\ Len(ops) = 3 /\ ops[1] = Say /\ ops[2] = Give("item")
      /\ ops[3] = SetState("deliver")
  OBVIOUS
<1>2. \A v \in Failed, k \in 1 .. 3 : RunOp(v, q, ops[k], npc, env) = v  BY FailureStays
<1>3. \A v \in K : RunOp(v, q, Say, npc, env) \in K  BY SideSteps, SideStays DEF Within
<1>4. \A v \in K : RunOp(v, q, Give("item"), npc, env)
                     \in {x \in K : x.granted[q]["item"] >= 1} \cup Failed
  <2>1. "item" \in RewardKind  BY DEF RewardKind
  <2> QED BY <2>1, SideSteps, SideStays DEF Within
<1>5. \A v \in K : v.granted[q]["item"] >= 1 => RunOp(v, q, SetState("deliver"), npc, env) \in K
  <2> TAKE v \in K
  <2> HAVE v.granted[q]["item"] >= 1
  <2>1. v \in Works /\ v.quest[q] \in {"buy", "deliver", COMPLETE}  BY DEF Within
  <2>2. RunOp(v, q, SetState("deliver"), npc, env) \in Works
        /\ RunOp(v, q, SetState("deliver"), npc, env).quest[q] = "deliver"
    BY <2>1, SideHasPaid, SideMoves
  <2> QED BY <2>2 DEF Within
<1>6. \A k \in 1 .. 3 : \A v \in F[k - 1] : RunOp(v, q, ops[k], npc, env) \in F[k]
  <2> TAKE k \in 1 .. 3
  <2> TAKE v \in F[k - 1]
  <2> HIDE DEF K, ops
  <2>1. CASE v \in Failed  BY <2>1, <1>2
  <2>2. CASE v \in K /\ k = 1  BY <2>2, <1>1, <1>3
  <2>3. CASE v \in K /\ k = 2  BY <2>3, <1>1, <1>4
  <2>4. CASE v \notin Failed /\ k = 3  BY <2>4, <1>1, <1>5
  <2>5. v \in K \cup Failed
    OBVIOUS
  <2> QED BY <2>1, <2>2, <2>3, <2>4, <2>5
<1>7. w \in F[0] /\ F[3] = K \cup Failed
  OBVIOUS
<1>8. RunOps(w, q, ops, npc, env) \in F[Len(ops)]
  <2>1. Len(ops) \in Nat /\ \A k \in 1 .. Len(ops) : \A v \in F[k - 1] :
          RunOp(v, q, ops[k], npc, env) \in F[k]
    BY <1>1, <1>6
  <2> HIDE DEF F, ops
  <2> QED BY <1>7, <2>1, RunWithin
<1> HIDE DEF F
<1> QED BY <1>1, <1>7, <1>8

\* The delivered potion is taken and the side quest completes.
LEMMA DeliveryIsDone ==
    ASSUME NEW w \in Within({"deliver", COMPLETE}), NEW npc, NEW env \in World,
           NEW ops \in {<<Say, ClearLetter, SetState(COMPLETE)>>,
                        <<Say, RemoveItem, Give("random"), ClearLetter, SetState(COMPLETE)>>}
    PROVE  RunOps(w, "find_squareguard", ops, npc, env)
             \in Within({"deliver", COMPLETE}) \cup Failed
<1> DEFINE q == "find_squareguard"
           K == Within({"deliver", COMPLETE})
           F == [i \in 0 .. Len(ops) |-> K \cup Failed]
<1>1. /\ Len(ops) \in Nat
      /\ \A k \in 1 .. Len(ops) :
           ops[k] \in {Say, ClearLetter, RemoveItem, Give("random"), SetState(COMPLETE)}
  OBVIOUS
<1>2. \A op, v \in Failed : RunOp(v, q, op, npc, env) = v  BY FailureStays
<1>3. \A v \in K : /\ RunOp(v, q, Say, npc, env) \in K
                    /\ RunOp(v, q, ClearLetter, npc, env) \in K
                    /\ RunOp(v, q, RemoveItem, npc, env) \in K \cup Failed
  BY SideSteps, SideStays DEF Within
<1>4. \A v \in K : RunOp(v, q, Give("random"), npc, env) \in K \cup Failed
  <2>1. "random" \in RewardKind  BY DEF RewardKind
  <2> QED BY <2>1, SideSteps, SideStays DEF Within
<1>5. \A v \in K : RunOp(v, q, SetState(COMPLETE), npc, env) \in K
  <2> TAKE v \in K
  <2>1. v \in Works /\ v.quest[q] \in {"deliver", COMPLETE}  BY DEF Within
  <2>2. RunOp(v, q, SetState(COMPLETE), npc, env) \in Works
        /\ RunOp(v, q, SetState(COMPLETE), npc, env).quest[q] = COMPLETE
    BY <2>1, SideHasPaid, SideMoves
  <2> QED BY <2>2 DEF Within
<1>6. \A k \in 1 .. Len(ops) : \A v \in F[k - 1] : RunOp(v, q, ops[k], npc, env) \in F[k]
  <2> TAKE k \in 1 .. Len(ops)
  <2> TAKE v \in F[k - 1]
  <2>1. v \in K \cup Failed  BY <1>1
  <2>2. RunOp(v, q, ops[k], npc, env) \in K \cup Failed
    <3> HIDE DEF K
    <3> QED BY <2>1, <1>1, <1>2, <1>3, <1>4, <1>5
  <2> QED BY <2>2, <1>1
<1>7. w \in F[0] /\ F[Len(ops)] = K \cup Failed  BY <1>1
<1>8. RunOps(w, q, ops, npc, env) \in F[Len(ops)]
  <2> HIDE DEF F
  <2> QED BY <1>1, <1>6, <1>7, RunWithin
<1> HIDE DEF F
<1> QED BY <1>7, <1>8

\* The answer to the square guard's question.
LEMMA MoneyIsGiven ==
    ASSUME NEW w \in Within({"find"}), w.question = Nothing, NEW npc, NEW env \in World
    PROVE  RunOps(w, "find_squareguard", <<Say, Give("money"), SetState("buy")>>, npc, env)
             \in Works \cup Failed
<1> DEFINE q == "find_squareguard"
           K == {v \in Within({"find"}) : v.question = Nothing}
           ops == <<Say, Give("money"), SetState("buy")>>
           F == [i \in 0 .. 3 |->
                   IF i = 3 THEN Works \cup Failed
                   ELSE IF i = 2 THEN {v \in K : v.granted[q]["money"] >= 1} \cup Failed
                   ELSE K \cup Failed]
<1>1. /\ Len(ops) = 3 /\ ops[1] = Say /\ ops[2] = Give("money")
      /\ ops[3] = SetState("buy")
  OBVIOUS
<1>2. \A v \in Failed, k \in 1 .. 3 : RunOp(v, q, ops[k], npc, env) = v  BY FailureStays
<1>3. \A v \in K : RunOp(v, q, Say, npc, env) \in K  BY SideSteps DEF Within, Onward
<1>4. \A v \in K : RunOp(v, q, Give("money"), npc, env)
                     \in {x \in K : x.granted[q]["money"] >= 1} \cup Failed
  <2>1. "money" \in RewardKind  BY DEF RewardKind
  <2> TAKE v \in K
  <2> DEFINE u == RunOp(v, q, Give("money"), npc, env)
  <2>2. u \in Failed \/ (u \in Onward(v) /\ u.granted[q]["money"] >= 1)
    BY <2>1, SideSteps DEF Within
  <2> HIDE DEF u
  <2>3. u \in {x \in K : x.granted[q]["money"] >= 1} \cup Failed
    BY <2>2 DEF Within, Onward
  <2> QED BY <2>3 DEF u
<1>5. \A v \in K : v.granted[q]["money"] >= 1 => RunOp(v, q, SetState("buy"), npc, env) \in Works
  BY SideMoves DEF Within
<1>6. \A k \in 1 .. 3 : \A v \in F[k - 1] : RunOp(v, q, ops[k], npc, env) \in F[k]
  <2> TAKE k \in 1 .. 3
  <2> TAKE v \in F[k - 1]
  <2> HIDE DEF K, ops
  <2>1. CASE v \in Failed  BY <2>1, <1>2
  <2>2. CASE v \in K /\ k = 1  BY <2>2, <1>1, <1>3
  <2>3. CASE v \in K /\ k = 2  BY <2>3, <1>1, <1>4
  <2>4. CASE v \notin Failed /\ k = 3  BY <2>4, <1>1, <1>5
  <2>5. v \in K \cup Failed
    OBVIOUS
  <2> QED BY <2>1, <2>2, <2>3, <2>4, <2>5
<1>7. w \in F[0] /\ F[3] = Works \cup Failed
  OBVIOUS
<1>8. RunOps(w, q, ops, npc, env) \in F[Len(ops)]
  <2>1. Len(ops) \in Nat /\ \A k \in 1 .. Len(ops) : \A v \in F[k - 1] :
          RunOp(v, q, ops[k], npc, env) \in F[k]
    BY <1>1, <1>6
  <2> HIDE DEF F, ops
  <2> QED BY <1>7, <2>1, RunWithin
<1> HIDE DEF F
<1> QED BY <1>1, <1>7, <1>8

\* A question that is asked is one of the two.
LEMMA AskingKeeps ==
    ASSUME NEW w \in Works, NEW q \in QuestId, NEW npc \in Npc, NEW env, NEW branches,
           \/ q = "find_squareguard" /\ w.quest[q] = "find" /\ branches = BuyBranches
           \/ q = "main_quest_lv2" /\ operator /\ branches = DogBranches,
           NEW v, v = RunOps(w, q, <<Say, Ask(branches)>>, npc, env)
    PROVE  v \in Works /\ v.quest = w.quest
<1> DEFINE ops == <<Say, Ask(branches)>>
           K == {x \in Works : x.quest = w.quest}
           F == [i \in 0 .. 2 |-> K]
<1>1. Len(ops) = 2 /\ ops[1] = Say /\ ops[2] = Ask(branches)
  OBVIOUS
<1>2. \A x \in K : RunOp(x, q, Say, npc, env) \in K  BY SayingKeeps, SameRows DEF Works
<1>3. \A x \in K : RunOp(x, q, Ask(branches), npc, env) \in K
  <2> TAKE x \in K
  <2> DEFINE s == [npc |-> npc, quest |-> q, asked |-> x.quest[q], branches |-> branches,
                   left |-> SelectionLife]
             u == [x EXCEPT !.said = TRUE, !.offered = TRUE, !.question = s]
  <2>1. RunOp(x, q, Ask(branches), npc, env) = u
    BY DEF RunOp, Perform, Ask, Do, Works, Records, RowsWith
  <2>2. s \in Questions
    <3>1. x.quest[q] \in (UNION {StateName(r) : r \in QuestId}) \cup {Nothing}
      BY DEF Works, Records, RowsWith, QuestRows
    <3>2. SelectionLife \in 0 .. SelectionLife  BY DEF SelectionLife
    <3>3. CASE q = "find_squareguard"  BY <3>2, <3>3 DEF Questions
    <3>4. CASE q = "main_quest_lv2" /\ operator /\ branches = DogBranches
      BY <3>1, <3>2, <3>4 DEF Questions
    <3> QED BY <3>3, <3>4
  <2>3. s.quest = "find_squareguard" => x.quest["find_squareguard"] = "find"
    OBVIOUS
  <2> HIDE DEF s
  <2>4. /\ u \in Records /\ u.quest = x.quest /\ u.granted = x.granted /\ u.question = s
    BY <2>2 DEF Works, Records, RowsWith
  <2> HIDE DEF u
  <2>5. u \in Works  BY <2>3, <2>4 DEF Works, MainPaid, SidePaid, AskedNow
  <2> QED BY <2>1, <2>4, <2>5
<1>4. \A k \in 1 .. 2 : \A x \in F[k - 1] : RunOp(x, q, ops[k], npc, env) \in F[k]
  <2> TAKE k \in 1 .. 2
  <2> TAKE x \in F[k - 1]
  <2>1. x \in K
    OBVIOUS
  <2> HIDE DEF K, ops
  <2>2. RunOp(x, q, ops[k], npc, env) \in K  BY <2>1, <1>1, <1>2, <1>3
  <2> QED BY <2>2
<1>5. w \in F[0] /\ F[2] = K
  OBVIOUS
<1>6. RunOps(w, q, ops, npc, env) \in F[Len(ops)]
  <2>1. Len(ops) \in Nat /\ \A k \in 1 .. Len(ops) : \A x \in F[k - 1] :
          RunOp(x, q, ops[k], npc, env) \in F[k]
    BY <1>1, <1>4
  <2> HIDE DEF F, ops
  <2> QED BY <1>5, <2>1, RunWithin
<1> HIDE DEF F
<1> QED BY <1>1, <1>5, <1>6

-----------------------------------------------------------------------------
(* Deliveries                                                                *)

\* Deliveries that give and take nothing do not fail.
Fails(event) == IF event \in {"login", "levelup", "kill"} THEN {} ELSE Failed
Outcome(event) == Works \cup Fails(event)

\* A delivery stays where every trigger that may fire stays.
LEMMA StagedDelivery ==
    ASSUME NEW w \in Works, NEW q \in QuestId, NEW event, NEW vnum, NEW lvl, NEW env,
           w.quest[q] \notin {Nothing, COMPLETE}, NEW triggers,
           triggers = StateDoc(q, w.quest[q]).triggers, IsList(triggers),
           NEW K \in SUBSET Works, w \in K,
           \A v \in K, u \in Works : u.quest = v.quest => u \in K,
           \A i \in 1 .. Len(triggers) : \A u \in K :
             /\ triggers[i].event = event /\ triggers[i].vnum \in {AnyNpc, vnum}
             /\ triggers[i].operator => operator
             => RunOps(u, q, triggers[i].ops, vnum, env) \in K \cup Fails(event)
    PROVE  DeliverTo(w, q, event, vnum, lvl, env) \in K \cup Fails(event)
<1> DEFINE G == K \cup Fails(event)
           F == [i \in 0 .. Len(triggers) |-> G]
<1>1. Len(triggers) \in Nat /\ w \in F[0] /\ F[Len(triggers)] = G  BY DEF IsList
<1>2. \A i \in 1 .. Len(triggers) : \A v \in F[i - 1] :
        TryTrigger(v, q, i, triggers[i], event, vnum, lvl, env) \in F[i]
  <2> TAKE i \in 1 .. Len(triggers)
  <2> TAKE v \in F[i - 1]
  <2>1. v \in G /\ i \in Nat  BY <1>1
  <2>2. CASE v \in Fails(event)
    <3>1. v.err  BY <2>2 DEF Fails, Failed, RowsWith
    <3> QED BY <3>1, <2>1 DEF TryTrigger
  <2>3. CASE v \in K
    <3> DEFINE u == Fired(v, q, i)
    <3>1. u \in Works /\ u.quest = v.quest
      <4>1. v \in Works  BY <2>3
      <4>2. i \in Nat /\ q \in QuestId  BY <2>1
      <4> QED BY ONLY <4>1, <4>2, MarkedKeeps DEF u
    <3>2. u \in K
      <4> HIDE DEF u
      <4> QED BY <2>3, <3>1
    <3>3. Holds(triggers[i], event, vnum, lvl, v, q)
            => RunOps(u, q, triggers[i].ops, vnum, env) \in G
      <4> HIDE DEF u
      <4> QED BY <3>2 DEF Holds
    <3>4. TryTrigger(v, q, i, triggers[i], event, vnum, lvl, env) \in G
      <4> HIDE DEF G
      <4> QED BY <2>1, <3>3, TrialWithin
    <3> QED BY <3>4
  <2> QED BY <2>1, <2>2, <2>3
<1>3. DeliverTo(w, q, event, vnum, lvl, env) \in F[Len(triggers)]
  <2> HIDE DEF F
  <2> QED BY <1>1, <1>2, DeliveryWithin
<1> QED BY <1>1, <1>3

\* The objective of the state killdog.
LEMMA CountingKeeps ==
    ASSUME NEW w \in Works, Open(w, "main_quest_lv2"), NEW npc, NEW env, NEW ops,
           ops = <<Count(Dogs, <<Say, SetState("gototeacher2")>>)>>,
           NEW v, v = RunOps(w, "main_quest_lv2", ops, npc, env)
    PROVE  v \in Works /\ Open(v, "main_quest_lv2")
<1> DEFINE q == "main_quest_lv2"
           K == {x \in Works : Open(x, q)}
           then == <<Say, SetState("gototeacher2")>>
           arg == [total |-> Dogs, on_reached |-> then]
           F == [i \in 0 .. 1 |-> K]
<1>1. q \in QuestId  BY Quests
<1>2. ASSUME NEW x \in K PROVE Counted(x, q, arg, npc, env) \in K
  <2> DEFINE before == IF x.tracker[q].amount < Dogs THEN x.tracker[q].amount ELSE Dogs
             current == IF before < Dogs THEN before + 1 ELSE Dogs
             t == [x.tracker EXCEPT ![q].amount = current, ![q].total = Dogs]
             u == [x EXCEPT !.tracker = t]
  <2>1. x \in Works /\ x.tracker \in [QuestId -> Tracker]
    BY <1>2 DEF Works, Records, RowsWith
  <2>2. t \in [QuestId -> Tracker]
    <3>1. x.tracker[q].amount \in 0 .. Dogs  BY <1>1, <2>1 DEF Tracker
    <3>2. current \in 0 .. Dogs  BY <3>1, QuestAssumption
    <3> HIDE DEF current
    <3> QED BY <1>1, <2>1, <3>2 DEF Tracker
  <2>3. u \in Works /\ u.quest = x.quest
    <3> HIDE DEF t
    <3>1. u \in Works  BY <2>1, <2>2, AsideKeeps
    <3>2. x = [x EXCEPT !.tracker = x.tracker]  BY ONLY <2>1 DEF Works, Records, RowsWith
    <3>3. u.quest = x.quest  BY ONLY <3>2
    <3> QED BY <3>1, <3>3
  <2>4. u \in K
    <3> HIDE DEF u
    <3> QED BY <1>2, <2>3 DEF Open
  <2>5. Counted(x, q, arg, npc, env) \in {u, RunFlat(u, q, then, npc, env)}
    <3>1. [x EXCEPT !.tracker[q].amount = current, !.tracker[q].total = Dogs] = u
      <4> DEFINE s == [x.tracker EXCEPT ![q].amount = current]
                 y == [x EXCEPT !.tracker = s]
      <4>1. [s EXCEPT ![q].total = Dogs] = t
        <5> HIDE DEF current
        <5> QED BY ONLY <1>1, <2>1 DEF Tracker
      <4>2. [y EXCEPT !.tracker = t] = [x EXCEPT !.tracker = t]
        <5> HIDE DEF s, t
        <5> QED OBVIOUS
      <4>3. y.tracker = s
        <5>1. x = [x EXCEPT !.tracker = x.tracker]
          BY ONLY <2>1 DEF Works, Records, RowsWith
        <5> HIDE DEF s
        <5> QED BY ONLY <2>1 DEF Works, Records, RowsWith
      <4>4. [y EXCEPT !.tracker = [y.tracker EXCEPT ![q].total = Dogs]] = u
        <5> HIDE DEF s, t, y
        <5> QED BY ONLY <4>1, <4>2, <4>3 DEF u
      <4> HIDE DEF t, current
      <4> QED BY <4>4
    <3>2. arg.total = Dogs /\ arg.on_reached = then
      OBVIOUS
    <3> HIDE DEF u, arg, then
    <3> QED BY <3>1, <3>2 DEF Counted
  <2>6. RunFlat(u, q, then, npc, env) \in K
    <3> DEFINE H == [i \in 0 .. 2 |-> K]
    <3>1. Len(then) = 2 /\ \A k \in 1 .. 2 : then[k] \in Harmless(q)
      <4>1. Say \in Harmless(q)  BY DEF Harmless, Spoken
      <4>2. "gototeacher2" \in MayMove(q)  BY States DEF MayMove, COMPLETE
      <4>3. SetState("gototeacher2") \in Harmless(q)  BY <4>2 DEF Harmless, Moves
      <4> QED BY <4>1, <4>3
    <3>2. \A y \in K, op \in Harmless(q) : Flat(y, q, op, npc, env) \in K
      <4> TAKE y \in K, op \in Harmless(q)
      <4>1. Perform(y, q, op, npc, env) \in K  BY <1>1, HarmlessKeeps
      <4> QED BY <4>1 DEF Flat
    <3>3. \A k \in 1 .. 2 : \A y \in H[k - 1] : Flat(y, q, then[k], npc, env) \in H[k]
      <4> HIDE DEF K, then
      <4> QED BY <3>1, <3>2
    <3>4. RunFlat(u, q, then, npc, env) \in H[Len(then)]
      <4>1. u \in H[0]  BY <2>4
      <4>2. Len(then) \in Nat /\ \A k \in 1 .. Len(then) : \A y \in H[k - 1] :
              Flat(y, q, then[k], npc, env) \in H[k]
        BY <3>1, <3>3
      <4> HIDE DEF H, then, u
      <4> QED BY <4>1, <4>2, FlatRunWithin
    <3> HIDE DEF u
    <3> QED BY <3>1, <3>4
  <2> HIDE DEF u
  <2> QED BY <2>4, <2>5, <2>6
<1>3. \A x \in K : RunOp(x, q, ops[1], npc, env) \in K
  <2> TAKE x \in K
  <2>1. ops[1].op = "count" /\ ops[1].arg = arg  BY DEF Count, Do
  <2>2. x.err = FALSE  BY DEF Works, Records, RowsWith
  <2>3. RunOp(x, q, ops[1], npc, env) = Counted(x, q, arg, npc, env)
    BY <2>1, <2>2 DEF RunOp
  <2> QED BY <2>3, <1>2
<1>4. v \in F[Len(ops)]
  <2>1. Len(ops) \in Nat /\ Len(ops) = 1 /\ w \in F[0]
    OBVIOUS
  <2>2. \A k \in 1 .. Len(ops) : \A x \in F[k - 1] : RunOp(x, q, ops[k], npc, env) \in F[k]
    BY <1>3, <2>1
  <2> HIDE DEF F
  <2> QED BY <2>1, <2>2, RunWithin
<1> QED BY <1>4

\* The dogs are hunted.
LEMMA HuntDelivery ==
    ASSUME NEW w \in Works, w.quest["main_quest_lv2"] = "killdog",
           NEW event, NEW vnum, NEW lvl, NEW env \in World
    PROVE  DeliverTo(w, "main_quest_lv2", event, vnum, lvl, env) \in Outcome(event)
<1> DEFINE q == "main_quest_lv2"
           K == {v \in Works : Open(v, q)}
           triggers == StateDoc(q, w.quest[q]).triggers
<1>1. q \in QuestId /\ "killdog" \in StateName(q) /\ "killdog" # COMPLETE
  BY Quests, States DEF COMPLETE
<1>2. w.quest[q] \notin {Nothing, COMPLETE} /\ w \in K
  BY <1>1, QuestAssumption DEF Open
<1>3. Len(triggers) = 4 /\ DOMAIN triggers = 1 .. 4  BY Documents DEF StateDoc, Lv2, Doc
<1>4. /\ triggers[1].ops = <<Count(Dogs, <<Say, SetState("gototeacher2")>>)>>
      /\ triggers[2].ops = <<Say>>
  BY Documents DEF StateDoc, Lv2, Doc, When
<1>5. /\ triggers[3].ops = <<Say, Ask(DogBranches)>> /\ triggers[3].operator
      /\ triggers[3].vnum = 20354
  <2> DEFINE t == When("npc_chat", 20354, <<Say, Ask(DogBranches)>>)
  <2>1. triggers[3] = [t EXCEPT !.amount = 0 .. (Dogs - 1), !.operator = TRUE]
    BY Documents DEF StateDoc, Lv2, Doc, DogBranches
  <2>2. t.ops = <<Say, Ask(DogBranches)>> /\ t.vnum = 20354  BY DEF When
  <2>3. [t EXCEPT !.amount = 0 .. (Dogs - 1), !.operator = TRUE].operator  BY DEF When
  <2>4. /\ triggers[3].ops = t.ops /\ triggers[3].vnum = t.vnum
    <3> HIDE DEF t, triggers
    <3> QED BY <2>1
  <2> HIDE DEF t, triggers
  <2> QED BY <2>1, <2>2, <2>3, <2>4
<1>6. triggers[4].ops = <<Say, SetState("gototeacher2")>>
  BY Documents DEF StateDoc, Lv2, Doc, When
<1>7. /\ Say \in Harmless(q) /\ SetState("gototeacher2") \in Harmless(q)
  <2>1. "gototeacher2" \in MayMove(q)  BY States DEF MayMove, COMPLETE
  <2> QED BY <2>1 DEF Harmless, Moves, Spoken
<1> HIDE DEF triggers
<1>8. \A i \in 1 .. Len(triggers) : \A u \in K :
        /\ triggers[i].event = event /\ triggers[i].vnum \in {AnyNpc, vnum}
        /\ triggers[i].operator => operator
        => RunOps(u, q, triggers[i].ops, vnum, env) \in K \cup Fails(event)
  <2> TAKE i \in 1 .. Len(triggers)
  <2> TAKE u \in K
  <2> HAVE /\ triggers[i].event = event /\ triggers[i].vnum \in {AnyNpc, vnum}
           /\ triggers[i].operator => operator
  <2>1. u \in Works /\ Open(u, q)
    OBVIOUS
  <2>2. CASE i = 1  BY <2>1, <2>2, <1>4, CountingKeeps
  <2>3. CASE i = 2
    <3>1. IsList(<<Say>>) /\ \A k \in 1 .. Len(<<Say>>) : <<Say>>[k] \in Harmless(q)
      BY <1>7 DEF IsList
    <3> QED BY <2>1, <2>3, <3>1, <1>1, <1>4, HarmlessRuns
  <2>4. CASE i = 3
    <3>1. operator /\ vnum = 20354 /\ vnum \in Npc  BY <2>4, <1>5 DEF AnyNpc, Npc
    <3>2. /\ RunOps(u, q, triggers[3].ops, vnum, env) \in Works
          /\ RunOps(u, q, triggers[3].ops, vnum, env).quest = u.quest
      BY <2>1, <3>1, <1>1, <1>5, AskingKeeps
    <3>3. RunOps(u, q, triggers[3].ops, vnum, env) \in K  BY <2>1, <3>2 DEF Open
    <3> QED BY <2>4, <3>3
  <2>5. CASE i = 4
    <3> DEFINE ops == <<Say, SetState("gototeacher2")>>
    <3>1. IsList(ops) /\ \A k \in 1 .. Len(ops) : ops[k] \in Harmless(q)
      BY <1>7 DEF IsList
    <3> QED BY <2>1, <2>5, <3>1, <1>1, <1>6, HarmlessRuns
  <2> QED BY <1>3, <2>2, <2>3, <2>4, <2>5
<1>9. DeliverTo(w, q, event, vnum, lvl, env) \in K \cup Fails(event)
  <2>1. \A v \in K, u \in Works : u.quest = v.quest => u \in K  BY DEF Open
  <2>2. K \in SUBSET Works
    OBVIOUS
  <2>3. IsList(triggers) /\ triggers = StateDoc(q, w.quest[q]).triggers
    BY <1>3 DEF IsList, triggers
  <2> HIDE DEF K, q
  <2> QED BY <1>1, <1>2, <1>8, <2>1, <2>2, <2>3, StagedDelivery
<1> QED BY <1>9 DEF Outcome

\* The square guard is found.
LEMMA FindDelivery ==
    ASSUME NEW w \in Works, w.quest["find_squareguard"] = "find",
           NEW event, NEW vnum, NEW lvl, NEW env \in World
    PROVE  DeliverTo(w, "find_squareguard", event, vnum, lvl, env) \in Outcome(event)
<1> DEFINE q == "find_squareguard"
           K == Within({"find"})
           triggers == StateDoc(q, w.quest[q]).triggers
<1>1. q \in QuestId /\ "find" \in StateName(q) /\ "find" # COMPLETE
  BY Quests, States DEF COMPLETE
<1>2. w.quest[q] \notin {Nothing, COMPLETE} /\ w \in K
  BY <1>1, QuestAssumption DEF Within
<1>3. Len(triggers) = 1 /\ DOMAIN triggers = 1 .. 1
  BY Documents DEF StateDoc, Squareguard, Doc
<1>4. triggers[1].ops = <<Say, Ask(BuyBranches)>> /\ triggers[1].vnum = 11000
  BY Documents DEF StateDoc, Squareguard, Doc, When, BuyBranches
<1> HIDE DEF triggers
<1>5. \A i \in 1 .. Len(triggers) : \A u \in K :
        /\ triggers[i].event = event /\ triggers[i].vnum \in {AnyNpc, vnum}
        /\ triggers[i].operator => operator
        => RunOps(u, q, triggers[i].ops, vnum, env) \in K \cup Fails(event)
  <2> TAKE i \in 1 .. Len(triggers)
  <2> TAKE u \in K
  <2> HAVE /\ triggers[i].event = event /\ triggers[i].vnum \in {AnyNpc, vnum}
           /\ triggers[i].operator => operator
  <2>1. i = 1  BY <1>3
  <2>2. u \in Works /\ u.quest[q] = "find"  BY DEF Within
  <2>3. vnum \in Npc  BY <2>1, <1>4 DEF AnyNpc, Npc
  <2>4. /\ RunOps(u, q, triggers[1].ops, vnum, env) \in Works
        /\ RunOps(u, q, triggers[1].ops, vnum, env).quest = u.quest
    BY <2>2, <2>3, <1>1, <1>4, AskingKeeps
  <2>5. RunOps(u, q, triggers[1].ops, vnum, env) \in K  BY <2>2, <2>4 DEF Within
  <2> QED BY <2>1, <2>5
<1>6. DeliverTo(w, q, event, vnum, lvl, env) \in K \cup Fails(event)
  <2>1. \A v \in K, u \in Works : u.quest = v.quest => u \in K  BY DEF Within
  <2>2. K \in SUBSET Works  BY DEF Within
  <2>3. IsList(triggers) /\ triggers = StateDoc(q, w.quest[q]).triggers
    BY <1>3 DEF IsList, triggers
  <2> HIDE DEF K, q
  <2> QED BY <1>1, <1>2, <1>5, <2>1, <2>2, <2>3, StagedDelivery
<1> QED BY <1>6 DEF Outcome, Within

\* The potion is bought.
LEMMA BuyDelivery ==
    ASSUME NEW w \in Works, w.quest["find_squareguard"] = "buy",
           NEW event, NEW vnum, NEW lvl, NEW env \in World
    PROVE  DeliverTo(w, "find_squareguard", event, vnum, lvl, env) \in Outcome(event)
<1> DEFINE q == "find_squareguard"
           K == Within({"buy", "deliver"})
           triggers == StateDoc(q, w.quest[q]).triggers
<1>1. q \in QuestId /\ "buy" \in StateName(q) /\ "buy" # COMPLETE
  BY Quests, States DEF COMPLETE
<1>2. w.quest[q] \notin {Nothing, COMPLETE} /\ w \in K
  BY <1>1, QuestAssumption DEF Within
<1>3. Len(triggers) = 2 /\ DOMAIN triggers = 1 .. 2
  BY Documents DEF StateDoc, Squareguard, Doc
<1>4. /\ triggers[1].ops = <<Say>> /\ triggers[2].event = "npc_click"
      /\ triggers[2].ops = <<Say, Give("item"), SetState("deliver")>>
  BY Documents DEF StateDoc, Squareguard, Doc, When
<1> HIDE DEF triggers
<1>5. \A i \in 1 .. Len(triggers) : \A u \in K :
        /\ triggers[i].event = event /\ triggers[i].vnum \in {AnyNpc, vnum}
        /\ triggers[i].operator => operator
        => RunOps(u, q, triggers[i].ops, vnum, env) \in K \cup Fails(event)
  <2> TAKE i \in 1 .. Len(triggers)
  <2> TAKE u \in K
  <2> HAVE /\ triggers[i].event = event /\ triggers[i].vnum \in {AnyNpc, vnum}
           /\ triggers[i].operator => operator
  <2>1. CASE i = 1
    <3> DEFINE ops == <<Say>>
               F == [k \in 0 .. 1 |-> K]
    <3>1. \A x \in K : RunOp(x, q, Say, vnum, env) \in K
      BY SideSteps, SideStays DEF Within
    <3>2. RunOps(u, q, ops, vnum, env) \in F[Len(ops)]
      <4>1. u \in F[0] /\ Len(ops) \in Nat /\ \A k \in 1 .. Len(ops) : \A x \in F[k - 1] :
              RunOp(x, q, ops[k], vnum, env) \in F[k]
        BY <3>1
      <4> HIDE DEF F, ops
      <4> QED BY <4>1, RunWithin
    <3> QED BY <2>1, <3>2, <1>4
  <2>2. CASE i = 2
    <3>1. Fails(event) = Failed  BY <2>2, <1>4 DEF Fails
    <3> QED BY <2>2, <3>1, <1>4, ItemIsGiven
  <2> QED BY <1>3, <2>1, <2>2
<1>6. DeliverTo(w, q, event, vnum, lvl, env) \in K \cup Fails(event)
  <2>1. \A v \in K, u \in Works : u.quest = v.quest => u \in K  BY DEF Within
  <2>2. K \in SUBSET Works  BY DEF Within
  <2>3. IsList(triggers) /\ triggers = StateDoc(q, w.quest[q]).triggers
    BY <1>3 DEF IsList, triggers
  <2> HIDE DEF K, q
  <2> QED BY <1>1, <1>2, <1>5, <2>1, <2>2, <2>3, StagedDelivery
<1> QED BY <1>6 DEF Outcome, Within

\* The potion is delivered.
LEMMA LastDelivery ==
    ASSUME NEW w \in Works, w.quest["find_squareguard"] = "deliver",
           NEW event, NEW vnum, NEW lvl, NEW env \in World
    PROVE  DeliverTo(w, "find_squareguard", event, vnum, lvl, env) \in Outcome(event)
<1> DEFINE q == "find_squareguard"
           K == Within({"deliver", COMPLETE})
           triggers == StateDoc(q, w.quest[q]).triggers
           Done == {<<Say, ClearLetter, SetState(COMPLETE)>>,
                    <<Say, RemoveItem, Give("random"), ClearLetter, SetState(COMPLETE)>>}
<1>1. q \in QuestId /\ "deliver" \in StateName(q) /\ "deliver" # COMPLETE
  BY Quests, States DEF COMPLETE
<1>2. w.quest[q] \notin {Nothing, COMPLETE} /\ w \in K
  BY <1>1, QuestAssumption DEF Within
<1>3. Len(triggers) = 2 /\ DOMAIN triggers = 1 .. 2
  BY Documents DEF StateDoc, Squareguard, Doc
<1>4. \A i \in 1 .. 2 : triggers[i].event = "npc_click" /\ triggers[i].ops \in Done
  <2>1. /\ triggers[1].event = "npc_click" /\ triggers[2].event = "npc_click"
    BY Documents DEF StateDoc, Squareguard, Doc, When
  <2>2. triggers[1].ops = <<Say, ClearLetter, SetState(COMPLETE)>>
    BY Documents DEF StateDoc, Squareguard, Doc, When
  <2>3. triggers[2].ops = <<Say, RemoveItem, Give("random"), ClearLetter, SetState(COMPLETE)>>
    BY Documents DEF StateDoc, Squareguard, Doc, When
  <2>4. triggers[1].ops \in Done /\ triggers[2].ops \in Done  BY <2>2, <2>3
  <2> HIDE DEF triggers, Done
  <2> QED BY <2>1, <2>4
<1> HIDE DEF triggers
<1>5. \A i \in 1 .. Len(triggers) : \A u \in K :
        /\ triggers[i].event = event /\ triggers[i].vnum \in {AnyNpc, vnum}
        /\ triggers[i].operator => operator
        => RunOps(u, q, triggers[i].ops, vnum, env) \in K \cup Fails(event)
  <2> TAKE i \in 1 .. Len(triggers)
  <2> TAKE u \in K
  <2> HAVE /\ triggers[i].event = event /\ triggers[i].vnum \in {AnyNpc, vnum}
           /\ triggers[i].operator => operator
  <2>1. triggers[i].ops \in Done /\ Fails(event) = Failed  BY <1>3, <1>4 DEF Fails
  <2> QED BY <2>1, DeliveryIsDone
<1>6. DeliverTo(w, q, event, vnum, lvl, env) \in K \cup Fails(event)
  <2>1. \A v \in K, u \in Works : u.quest = v.quest => u \in K  BY DEF Within
  <2>2. K \in SUBSET Works  BY DEF Within
  <2>3. IsList(triggers) /\ triggers = StateDoc(q, w.quest[q]).triggers
    BY <1>3 DEF IsList, triggers
  <2> HIDE DEF K, q
  <2> QED BY <1>1, <1>2, <1>5, <2>1, <2>2, <2>3, StagedDelivery
<1> QED BY <1>6 DEF Outcome, Within

\* The states in which a main quest pays.
LEMMA MainDelivery ==
    ASSUME NEW q \in {"main_quest_lv2", "main_quest_lv3"}, NEW w \in Works,
           w.quest[q] = (IF q = "main_quest_lv2" THEN "gototeacher2" ELSE "gotodefend"),
           NEW event, NEW vnum, NEW lvl, NEW env \in World
    PROVE  DeliverTo(w, q, event, vnum, lvl, env) \in Outcome(event)
<1> DEFINE triggers == StateDoc(q, w.quest[q]).triggers
           succ == IF q = "main_quest_lv2" THEN "main_quest_lv3" ELSE "main_quest_lv6"
           u == Fired(w, q, 1)
           F == [i \in 0 .. 1 |-> IF i = 0 THEN {w} ELSE Outcome(event)]
<1>1. q \in QuestId /\ w.quest[q] \in StateName(q) /\ w.quest[q] # COMPLETE
  BY Quests, States DEF COMPLETE
<1>2. w.quest[q] \notin {Nothing, COMPLETE}  BY <1>1, QuestAssumption
<1>3. /\ Len(triggers) = 1 /\ DOMAIN triggers = 1 .. 1 /\ triggers[1].event = "npc_click"
      /\ triggers[1].ops = PayAndComplete(succ)
  <2>1. CASE q = "main_quest_lv2"
    BY <2>1, Documents DEF StateDoc, Lv2, Doc, When, PayAndComplete
  <2>2. CASE q = "main_quest_lv3"
    BY <2>2, Documents DEF StateDoc, Lv3, Doc, When, PayAndComplete
  <2> QED BY <2>1, <2>2
<1> HIDE DEF triggers
<1>4. u \in Works /\ u.quest = w.quest
  <2>1. 1 \in Nat
    OBVIOUS
  <2> QED BY <2>1, <1>1, MarkedKeeps
<1>5. RunOps(u, q, triggers[1].ops, vnum, env) \in Works \cup Failed
  <2>1. succ \in {"main_quest_lv3", "main_quest_lv6"}
    OBVIOUS
  <2>2. u.quest[q] \notin {Nothing, COMPLETE}  BY <1>2, <1>4
  <2> HIDE DEF u, succ
  <2> QED BY <2>1, <2>2, <1>3, <1>4, MainQuestPays
<1>6. TryTrigger(w, q, 1, triggers[1], event, vnum, lvl, env) \in Outcome(event)
  <2>1. CASE event = "npc_click"
    <3>1. Outcome(event) = Works \cup Failed  BY <2>1 DEF Outcome, Fails
    <3> QED BY <3>1, <1>5 DEF TryTrigger
  <2>2. CASE event # "npc_click"
    <3>1. ~Holds(triggers[1], event, vnum, lvl, w, q)  BY <2>2, <1>3 DEF Holds
    <3> QED BY <3>1 DEF TryTrigger, Outcome
  <2> QED BY <2>1, <2>2
<1>7. DeliverTo(w, q, event, vnum, lvl, env) \in F[Len(triggers)]
  <2>1. w \in F[0] /\ \A i \in 1 .. Len(triggers) : \A v \in F[i - 1] :
          TryTrigger(v, q, i, triggers[i], event, vnum, lvl, env) \in F[i]
    BY <1>3, <1>6
  <2>2. IsList(triggers) /\ triggers = StateDoc(q, w.quest[q]).triggers
    BY <1>3 DEF IsList, triggers
  <2> HIDE DEF F
  <2> QED BY <1>2, <2>1, <2>2, DeliveryWithin
<1> QED BY <1>3, <1>7

\* Every state has a list of triggers.
LEMMA TriggersAreLists ==
    ASSUME NEW q \in QuestId, NEW st \in StateName(q), st # COMPLETE
    PROVE  IsList(StateDoc(q, st).triggers)
<1>1. CASE st \in QuietState(q)  BY <1>1, QuietTriggers
<1>2. CASE q = "main_quest_lv2" /\ st \in {"killdog", "gototeacher2"}
  <2>1. st = "killdog" => Len(StateDoc(q, st).triggers) = 4 /\ DOMAIN StateDoc(q, st).triggers = 1 .. 4
    BY <1>2, Documents DEF StateDoc, Lv2, Doc
  <2>2. st = "gototeacher2" => Len(StateDoc(q, st).triggers) = 1 /\ DOMAIN StateDoc(q, st).triggers = 1 .. 1
    BY <1>2, Documents DEF StateDoc, Lv2, Doc
  <2> QED BY <1>2, <2>1, <2>2 DEF IsList
<1>3. CASE q = "main_quest_lv3" /\ st = "gotodefend"
  <2>1. Len(StateDoc(q, st).triggers) = 1 /\ DOMAIN StateDoc(q, st).triggers = 1 .. 1
    BY <1>3, Documents DEF StateDoc, Lv3, Doc
  <2> QED BY <2>1 DEF IsList
<1>4. CASE q = "find_squareguard" /\ st \in {"find", "buy", "deliver"}
  <2>1. st = "find" => Len(StateDoc(q, st).triggers) = 1 /\ DOMAIN StateDoc(q, st).triggers = 1 .. 1
    BY <1>4, Documents DEF StateDoc, Squareguard, Doc
  <2>2. st = "buy" => Len(StateDoc(q, st).triggers) = 2 /\ DOMAIN StateDoc(q, st).triggers = 1 .. 2
    BY <1>4, Documents DEF StateDoc, Squareguard, Doc
  <2>3. st = "deliver" => Len(StateDoc(q, st).triggers) = 2 /\ DOMAIN StateDoc(q, st).triggers = 1 .. 2
    BY <1>4, Documents DEF StateDoc, Squareguard, Doc
  <2> QED BY <1>4, <2>1, <2>2, <2>3 DEF IsList
<1> QED BY <1>1, <1>2, <1>3, <1>4, Quests, States DEF QuietState

\* Delivering an event to one quest keeps the rows, or fails.
LEMMA DeliveryEnds ==
    ASSUME NEW event, NEW w \in Outcome(event), NEW q \in QuestId, NEW vnum, NEW lvl,
           NEW env \in World
    PROVE  DeliverTo(w, q, event, vnum, lvl, env) \in Outcome(event)
<1>1. w.quest[q] \in StateName(q) \cup {Nothing}
  BY DEF Outcome, Fails, Works, Records, Failed, RowsWith, QuestRows
<1>2. CASE w.quest[q] \in {Nothing, COMPLETE}  BY <1>2 DEF DeliverTo
<1> DEFINE triggers == StateDoc(q, w.quest[q]).triggers
<1>3. CASE w.quest[q] \notin {Nothing, COMPLETE} /\ w \in Fails(event)
  <2> DEFINE F == [i \in 0 .. Len(triggers) |-> {w}]
  <2>1. IsList(triggers)  BY <1>1, <1>3, TriggersAreLists
  <2>2. w.err  BY <1>3 DEF Fails, Failed, RowsWith
  <2> HIDE DEF triggers
  <2>3. w \in F[0] /\ F[Len(triggers)] = {w} /\ \A i \in 1 .. Len(triggers) : \A v \in F[i - 1] :
          TryTrigger(v, q, i, triggers[i], event, vnum, lvl, env) \in F[i]
    BY <2>1, <2>2 DEF TryTrigger, IsList
  <2>4. triggers = StateDoc(q, w.quest[q]).triggers  BY DEF triggers
  <2> HIDE DEF F
  <2>5. DeliverTo(w, q, event, vnum, lvl, env) \in F[Len(triggers)]
    BY <1>3, <2>1, <2>3, <2>4, DeliveryWithin
  <2> QED BY <2>3, <2>5
<1>4. CASE w.quest[q] \notin {Nothing, COMPLETE} /\ w \in Works
  <2>1. CASE w.quest[q] \in QuietState(q)
    <3>1. DeliverTo(w, q, event, vnum, lvl, env) \in Works
      <4>1. /\ IsList(triggers)
            /\ \A i \in 1 .. Len(triggers) :
                 /\ IsList(triggers[i].ops)
                 /\ \A k \in 1 .. Len(triggers[i].ops) : triggers[i].ops[k] \in Harmless(q)
        BY <2>1, QuietTriggers
      <4> QED BY <1>4, <4>1, HarmlessDelivery
    <3> QED BY <3>1 DEF Outcome
  <2>2. CASE q = "main_quest_lv2" /\ w.quest[q] = "killdog"  BY <1>4, <2>2, HuntDelivery
  <2>3. CASE q = "main_quest_lv2" /\ w.quest[q] = "gototeacher2"
    BY <1>4, <2>3, MainDelivery
  <2>4. CASE q = "main_quest_lv3" /\ w.quest[q] = "gotodefend"
    BY <1>4, <2>4, MainDelivery
  <2>5. CASE q = "find_squareguard" /\ w.quest[q] = "find"  BY <1>4, <2>5, FindDelivery
  <2>6. CASE q = "find_squareguard" /\ w.quest[q] = "buy"  BY <1>4, <2>6, BuyDelivery
  <2>7. CASE q = "find_squareguard" /\ w.quest[q] = "deliver"
    BY <1>4, <2>7, LastDelivery
  <2>8. w.quest[q] \in StateName(q) /\ w.quest[q] # COMPLETE  BY <1>1, <1>4
  <2> QED BY <2>1, <2>2, <2>3, <2>4, <2>5, <2>6, <2>7, <2>8, Quests, States DEF QuietState
<1> QED BY <1>2, <1>3, <1>4 DEF Outcome

\* Delivering an event to all quests keeps the rows, or fails.
LEMMA AllDelivered ==
    ASSUME NEW event, NEW w \in Outcome(event), NEW vnum, NEW lvl, NEW env \in World
    PROVE  DeliverAll(w, event, vnum, lvl, env) \in Outcome(event)
<1> DEFINE F == [i \in 0 .. 4 |-> Outcome(event)]
<1>1. Len(Order) = 4 /\ \A k \in 1 .. 4 : Order[k] \in QuestId  BY DEF Order, QuestId
<1>2. \A k \in 1 .. Len(Order) : \A v \in F[k - 1] :
        DeliverTo(v, Order[k], event, vnum, lvl, env) \in F[k]
  BY <1>1, DeliveryEnds
<1>3. w \in F[0] /\ F[Len(Order)] = Outcome(event)  BY <1>1
<1>4. DeliverAll(w, event, vnum, lvl, env) \in F[Len(Order)]
  <2> HIDE DEF F
  <2> QED BY <1>2, <1>3, AllDeliveredWithin
<1> QED BY <1>3, <1>4

\* After a failure no entry runs.
LEMMA FailedDrain ==
    ASSUME NEW v \in Failed, NEW npc, NEW env PROVE DrainEnters(v, npc, env) = v
<1> DEFINE F == [k \in 0 .. MaxStateEnters |-> {v}]
<1>1. v.err  BY DEF Failed, RowsWith
<1>2. v \in F[0] /\ F[MaxStateEnters] = {v} /\ \A k \in 1 .. MaxStateEnters :
        \A x \in F[k - 1] : DrainOne(x, npc, env) \in F[k]
  BY <1>1, QuestAssumption DEF DrainOne
<1> HIDE DEF F
<1>3. EntriesRun(v, npc, env) \in F[MaxStateEnters]  BY <1>2, DrainWithin
<1> QED BY <1>1, <1>2, <1>3 DEF DrainEnters, WithoutNext

\* A pass keeps the rows, or fails.
LEMMA PassEnds ==
    ASSUME NEW event, NEW w \in Outcome(event), NEW i, NEW vnum, NEW lvl, NEW env \in World
    PROVE  Pass(w, i, event, vnum, lvl, env) \in Outcome(event)
<1>1. ASSUME NEW v \in Outcome(event) PROVE DrainEnters(v, vnum, env) \in Outcome(event)
  <2>1. CASE v \in Works  BY <2>1, DrainKeeps DEF Outcome
  <2>2. CASE v \in Fails(event)
    <3>1. v \in Failed  BY <2>2 DEF Fails
    <3> QED BY <2>2, <3>1, FailedDrain DEF Outcome
  <2> QED BY <1>1, <2>1, <2>2 DEF Outcome
<1>2. CASE w.err  BY <1>2 DEF Pass
<1>3. CASE ~w.err
  <2>1. w \in Works  BY <1>3 DEF Outcome, Fails, Failed, RowsWith
  <2>2. [w EXCEPT !.progressed = FALSE] \in Outcome(event)
    BY <2>1, AsideKeeps DEF Outcome
  <2> DEFINE u == DeliverAll([w EXCEPT !.progressed = FALSE], event, vnum, lvl, env)
  <2>3. u \in Outcome(event)  BY <2>2, AllDelivered
  <2>4. Pass(w, i, event, vnum, lvl, env) \in {w, DrainEnters(u, vnum, env)}
    BY DEF Pass
  <2> HIDE DEF u
  <2> QED BY <1>1, <2>3, <2>4
<1> QED BY <1>2, <1>3

\* An event keeps the rows, or fails; a login, a level-up and a kill never
\* fail.
LEMMA DispatchEnds ==
    ASSUME NEW event, NEW w \in Works, NEW vnum, NEW passes \in Nat, NEW env \in World
    PROVE  Dispatch(w, event, vnum, passes, env) \in Outcome(event)
<1> DEFINE F == [i \in 0 .. passes |-> Outcome(event)]
           u == Passes(w, event, vnum, w.level, passes, env)
<1>1. w \in F[0] /\ F[passes] = Outcome(event)  BY DEF Outcome
<1>2. \A k \in 1 .. passes : \A v \in F[k - 1] : Pass(v, k, event, vnum, w.level, env) \in F[k]
  BY PassEnds
<1>3. u \in F[passes]
  <2> HIDE DEF F
  <2> QED BY <1>1, <1>2, PassesWithin
<1>4. u \in Outcome(event)  BY <1>1, <1>3
<1>5. Dispatch(w, event, vnum, passes, env) = [u EXCEPT !.fired = {}, !.queue = << >>]
  BY DEF Dispatch
<1> HIDE DEF u
<1>6. CASE u \in Works  BY <1>5, <1>6, AsideKeeps DEF Outcome
<1>7. CASE u \in Fails(event)
  <2>1. u \in Failed /\ Fails(event) = Failed  BY <1>7 DEF Fails
  <2>2. << >> \in Seq(Due)
    OBVIOUS
  <2>3. [u EXCEPT !.fired = {}, !.queue = << >>] \in Failed
    BY <2>1, <2>2 DEF Failed, RowsWith
  <2> QED BY <1>5, <2>1, <2>3 DEF Outcome
<1> QED BY <1>4, <1>6, <1>7 DEF Outcome

-----------------------------------------------------------------------------
(* The invariant                                                             *)

Sessions == [npc : Npc, offered : BOOLEAN, left : 0 .. SessionLife] \cup {Nothing}

QuestInv ==
    /\ operator \in BOOLEAN /\ inWorld \in BOOLEAN
    /\ Working \in Works
    /\ session \in Sessions
    /\ question # Nothing => inWorld

\* What rows are allowed does not change while the operator's role does
\* not.
LEMMA WorksStay == UNCHANGED operator => Works' = Works
  BY DEF Works, Records, RowsWith, MainPaid, SidePaid, AskedNow, Questions, QuestRows, Tracker,
         Grants, Due

\* What Working says of the variables.
LEMMA WorkingRows ==
    /\ Working \in Records <=>
         /\ level \in 1 .. MaxLevel /\ held \in 0 .. 1 /\ quest \in QuestRows
         /\ tracker \in [QuestId -> Tracker] /\ question \in Questions \cup {Nothing}
         /\ granted \in Grants
    /\ Working.level = level /\ Working.held = held /\ Working.quest = quest
    /\ Working.tracker = tracker /\ Working.question = question /\ Working.granted = granted
    /\ Working.err = FALSE
<1>1. << >> \in Seq(Due) /\ {} \in SUBSET (QuestId \X Nat)
  OBVIOUS
<1> QED BY <1>1 DEF Working, Records, RowsWith

\* Committing a delivery that did not fail.
LEMMA CommitKeeps ==
    ASSUME UNCHANGED operator, NEW w, w \in Works, Commit(w)
    PROVE  (Working \in Works)'
<1>1. w.level \in 1 .. MaxLevel /\ w.held \in 0 .. 1 /\ w.quest \in QuestRows
      /\ w.tracker \in [QuestId -> Tracker] /\ w.question \in Questions \cup {Nothing}
      /\ w.granted \in Grants
  BY DEF Works, Records, RowsWith
<1>2. (Working \in Records)'
  <2>1. << >> \in Seq(Due) /\ {} \in SUBSET (QuestId \X Nat)
    OBVIOUS
  <2>2. Working' \in Records  BY <1>1, <2>1 DEF Working, Commit, Records, RowsWith
  <2>3. Records' = Records
    BY DEF Records, RowsWith, Questions, QuestRows, Tracker, Grants, Due
  <2> QED BY <2>2, <2>3
<1>3. (SidePaid(Working) /\ AskedNow(Working))'
  BY DEF Works, SidePaid, AskedNow, Working, Commit
<1>4. (operator \/ MainPaid(Working))'  BY DEF Works, MainPaid, Working, Commit
<1> QED BY <1>2, <1>3, <1>4 DEF Works

\* What happens outside of a delivery.
LEMMA RowsKeep ==
    ASSUME Working \in Works, UNCHANGED <<operator, level, quest, tracker, granted>>,
           held' \in 0 .. 1, question' \in Questions \cup {Nothing},
           question' # Nothing => question # Nothing /\ question'.quest = question.quest
    PROVE  (Working \in Works)'
<1>1. Working \in Records  BY DEF Works
<1>2. (Working \in Records)'
  <2>1. << >> \in Seq(Due) /\ {} \in SUBSET (QuestId \X Nat)
    OBVIOUS
  <2>2. Working' \in Records  BY <1>1, <2>1, WorkingRows DEF Working, Records, RowsWith
  <2>3. Records' = Records
    BY DEF Records, RowsWith, Questions, QuestRows, Tracker, Grants, Due
  <2> QED BY <2>2, <2>3
<1>3. (SidePaid(Working) /\ AskedNow(Working))'
  BY DEF Works, SidePaid, AskedNow, Working
<1>4. (operator \/ MainPaid(Working))'  BY DEF Works, MainPaid, Working
<1> QED BY <1>2, <1>3, <1>4 DEF Works

\* A new character.
LEMMA QuestBegins == QuestInit => QuestInv
<1> SUFFICES ASSUME QuestInit PROVE QuestInv
  OBVIOUS
<1>1. 1 \in 1 .. MaxLevel /\ operator \in BOOLEAN  BY QuestAssumption DEF QuestInit
<1>2. [q \in QuestId |-> Nothing] \in QuestRows
  <2> DEFINE U == (UNION {StateName(q) : q \in QuestId}) \cup {Nothing}
             f == [q \in QuestId |-> Nothing]
  <2>1. Nothing \in U
    OBVIOUS
  <2> HIDE DEF U
  <2>2. f \in [QuestId -> U] /\ \A q \in QuestId : f[q] \in StateName(q) \cup {Nothing}
    BY <2>1
  <2> HIDE DEF f
  <2>3. f \in QuestRows  BY <2>2 DEF QuestRows, U
  <2> QED BY <2>3 DEF f
<1>3. [q \in QuestId |-> NoTracker] \in [QuestId -> Tracker]
  BY QuestAssumption DEF NoTracker, Tracker
<1>4. [q \in QuestId |-> [k \in RewardKind |-> 0]] \in Grants  BY DEF Grants
<1>5. Working \in Records  BY <1>1, <1>2, <1>3, <1>4, WorkingRows DEF QuestInit
<1>6. \A q \in QuestId : COMPLETE \in StateName(q)  BY Quests, States
<1>7. \A q \in QuestId : quest[q] = Nothing /\ Nothing # COMPLETE /\ Nothing \notin StateName(q)
  BY <1>6, QuestAssumption DEF QuestInit
<1>8. Nothing \notin {"buy", "deliver", COMPLETE}  BY <1>7, Quests, States
<1>9. MainPaid(Working)  BY <1>7, Quests, WorkingRows DEF QuestInit, MainPaid
<1>10. SidePaid(Working) /\ AskedNow(Working)
  BY <1>7, <1>8, Quests, WorkingRows DEF QuestInit, SidePaid, AskedNow
<1> QED BY <1>1, <1>5, <1>9, <1>10 DEF QuestInit, QuestInv, Works, Sessions

Decided(g, r) == [gain |-> g, room |-> r, last |-> g = 1]

\* The quiet world is one of the worlds.
LEMMA QuietWorld == Quiet \in World
<1>1. World = {Decided(g, r) : g \in 0 .. 1, r \in BOOLEAN}  BY DEF World, Decided
<1>2. \A g \in 0 .. 1, r \in BOOLEAN : Decided(g, r) \in World
  <2> TAKE g \in 0 .. 1, r \in BOOLEAN
  <2>1. Decided(g, r) \in {Decided(h, k) : h \in 0 .. 1, k \in BOOLEAN}  BY Z3
  <2> QED BY <1>1, <2>1
<1>3. Decided(0, TRUE) \in World
  <2>1. 0 \in 0 .. 1 /\ TRUE \in BOOLEAN
    OBVIOUS
  <2> QED BY <1>2, <2>1, Zenon
<1>4. Quiet = Decided(0, TRUE)
  <2>1. (0 = 1) = FALSE
    OBVIOUS
  <2> QED BY <2>1, Zenon DEF Quiet, Decided
<1> QED BY <1>3, <1>4

\* Logins, level-ups and kills do not fail.
LEMMA QuietOutcome == \A event \in {"login", "levelup", "kill"} : Outcome(event) = Works
  BY DEF Outcome, Fails

\* Entering the world delivers the login.
LEMMA EnterStep ==
    ASSUME QuestInv, EnterQuests, UNCHANGED operator PROVE QuestInv'
<1> DEFINE rows == [Working EXCEPT
                      !.quest = [q \in QuestId |->
                                   IF @[q] = Nothing THEN InitialState(q) ELSE @[q]]]
           w == Dispatch(rows, "login", AnyNpc, 6, Quiet)
           entered == [q \in QuestId |-> IF quest[q] = Nothing THEN InitialState(q) ELSE quest[q]]
<1>1. Working \in Works /\ Working \in Records  BY DEF QuestInv, Works
<1>2. \A q \in QuestId : InitialState(q) \in StateName(q) \ {"buy", "deliver", COMPLETE}
  BY Quests, States DEF InitialState, COMPLETE
<1>3. entered \in QuestRows  BY <1>1, <1>2, WorkingRows DEF QuestRows
<1>4. rows = [Working EXCEPT !.quest = entered]  BY WorkingRows DEF Working
<1>5. rows \in Works
  <2>1. \A q \in QuestId : COMPLETE \in StateName(q)  BY Quests, States
  <2>2. \A q \in QuestId : entered[q] # quest[q] =>
          quest[q] = Nothing /\ quest[q] # COMPLETE
          /\ entered[q] \notin {"buy", "deliver", COMPLETE}
    BY <1>2, <2>1, QuestAssumption
  <2>3. Nothing # "find"  BY Quests, States, QuestAssumption
  <2> HIDE DEF entered, rows
  <2>4. /\ rows \in Records /\ rows.quest = entered /\ rows.granted = granted
        /\ rows.question = question
    BY <1>1, <1>3, <1>4, WorkingRows DEF Records, RowsWith
  <2>5. operator \/ MainPaid(rows)
    BY <1>1, <2>2, <2>4, Quests, WorkingRows DEF Works, MainPaid
  <2>6. SidePaid(rows)  BY <1>1, <2>2, <2>4, Quests, WorkingRows DEF Works, SidePaid
  <2>7. AskedNow(rows)
    BY <1>1, <2>2, <2>3, <2>4, Quests, WorkingRows DEF Works, AskedNow
  <2> QED BY <2>4, <2>5, <2>6, <2>7 DEF Works
<1>6. w \in Works
  <2> HIDE DEF rows
  <2>1. w \in Outcome("login")  BY <1>5, QuietWorld, DispatchEnds
  <2> QED BY <2>1, QuietOutcome
<1>7. Commit(w) /\ inWorld' = TRUE /\ UNCHANGED session  BY DEF EnterQuests
<1> HIDE DEF w
<1>8. (Working \in Works)'  BY <1>6, <1>7, CommitKeeps
<1> QED BY <1>7, <1>8 DEF QuestInv, Sessions

\* Leaving the world drops the question.
LEMMA LeaveStep ==
    ASSUME QuestInv, LeaveWorld, UNCHANGED operator PROVE QuestInv'
<1>1. Working \in Works /\ held \in 0 .. 1  BY WorkingRows DEF QuestInv, Works
<1>2. /\ UNCHANGED <<operator, level, held, quest, tracker, granted>>
      /\ question' = Nothing /\ session' = Nothing /\ inWorld' = FALSE
  BY DEF LeaveWorld, Dropped
<1>3. (Working \in Works)'  BY <1>1, <1>2, RowsKeep
<1> QED BY <1>2, <1>3 DEF QuestInv, Sessions

\* A level gained in combat.
LEMMA LeveledKeeps ==
    ASSUME NEW w \in Works, w.level < MaxLevel PROVE Leveled(w) \in Works
<1> DEFINE u == [w EXCEPT !.level = @ + 1]
<1>1. w.level + 1 \in 1 .. MaxLevel  BY QuestAssumption DEF Works, Records, RowsWith
<1>2. /\ u \in Records /\ u.quest = w.quest /\ u.granted = w.granted
      /\ u.question = w.question
  BY <1>1 DEF Works, Records, RowsWith
<1> HIDE DEF u
<1>3. u \in Works  BY <1>2 DEF Works, MainPaid, SidePaid, AskedNow
<1>4. Dispatch(u, "levelup", AnyNpc, 6, Quiet) \in Works
  BY <1>3, QuietWorld, QuietOutcome, DispatchEnds
<1> QED BY <1>4 DEF Leveled, u

\* A level gained otherwise.
LEMMA LevelStep ==
    ASSUME QuestInv, OnLevelUp, UNCHANGED operator PROVE QuestInv'
<1>1. Working \in Works /\ Working.level < MaxLevel
  BY WorkingRows DEF QuestInv, OnLevelUp
<1> DEFINE w == Leveled(Working)
<1>2. w \in Works  BY <1>1, LeveledKeeps
<1>3. inWorld /\ Commit(w) /\ UNCHANGED <<inWorld, session>>  BY DEF OnLevelUp
<1> HIDE DEF w
<1>4. (Working \in Works)'  BY <1>2, <1>3, CommitKeeps
<1> QED BY <1>3, <1>4 DEF QuestInv, Sessions

\* A kill, with or without a level.
LEMMA KillStep ==
    ASSUME QuestInv, NEW gain \in 0 .. 1, OnKill(gain), UNCHANGED operator PROVE QuestInv'
<1> DEFINE paid == IF gain = 1 THEN Leveled(Working) ELSE Working
           u == [paid EXCEPT !.err = FALSE]
           w == Dispatch(u, "kill", 101, 1, Quiet)
<1>1. Working \in Works /\ Working.level + gain <= MaxLevel
  BY WorkingRows DEF QuestInv, OnKill
<1>2. paid \in Works
  <2>1. Working.level \in Nat  BY <1>1 DEF Works, Records, RowsWith
  <2>2. gain = 1 => Working.level < MaxLevel  BY <1>1, <2>1, QuestAssumption
  <2>3. gain = 1 => Leveled(Working) \in Works  BY <1>1, <2>2, LeveledKeeps
  <2> QED BY <1>1, <2>3
<1>3. inWorld /\ Commit(w) /\ UNCHANGED <<inWorld, session>>  BY DEF OnKill
<1> HIDE DEF paid
<1>4. u \in Works
  <2>1. /\ u \in Records /\ u.quest = paid.quest /\ u.granted = paid.granted
        /\ u.question = paid.question
    BY <1>2 DEF Works, Records, RowsWith
  <2> HIDE DEF u
  <2> QED BY <1>2, <2>1 DEF Works, MainPaid, SidePaid, AskedNow
<1> HIDE DEF u
<1>5. w \in Works  BY <1>4, QuietWorld, QuietOutcome, DispatchEnds
<1> HIDE DEF w
<1>6. (Working \in Works)'  BY <1>3, <1>5, CommitKeeps
<1> QED BY <1>3, <1>6 DEF QuestInv, Sessions

\* Potions come and go.
LEMMA CarryStep ==
    ASSUME QuestInv, NEW n \in 0 .. 1, Carry(n), UNCHANGED operator PROVE QuestInv'
<1>1. Working \in Works /\ question \in Questions \cup {Nothing}
  BY WorkingRows DEF QuestInv, Works
<1>2. /\ UNCHANGED <<operator, inWorld, level, quest, tracker, granted, question, session>>
      /\ held' = n /\ inWorld
  BY DEF Carry
<1>3. (Working \in Works)'  BY <1>1, <1>2, RowsKeep
<1> QED BY <1>2, <1>3 DEF QuestInv, Sessions

\* A row of the question and a row of the conversation that time has changed.
LEMMA TimedRows ==
    ASSUME QuestInv,
           NEW qu, NEW se, qu \in {Older(question), WithoutLapsed(question)},
           se \in {Older(session), WithoutLapsed(session), Nothing}
    PROVE  /\ qu \in Questions \cup {Nothing}
           /\ qu # Nothing => question # Nothing /\ qu.quest = question.quest
           /\ se \in Sessions
<1>1. question \in Questions \cup {Nothing} /\ session \in Sessions
  BY WorkingRows DEF QuestInv, Works
<1>2. Older(question) \in Questions \cup {Nothing}
  <2>1. CASE question = Nothing \/ question.left = 0  BY <1>1, <2>1 DEF Older
  <2>2. CASE question # Nothing /\ question.left # 0
    <3>1. question \in Questions /\ question.left \in 0 .. SelectionLife
      BY <1>1, <2>2 DEF Questions
    <3>2. question.left - 1 \in 0 .. SelectionLife  BY <2>2, <3>1 DEF SelectionLife
    <3>3. [question EXCEPT !.left = @ - 1] \in Questions  BY <3>1, <3>2 DEF Questions
    <3> QED BY <2>2, <3>3 DEF Older
  <2> QED BY <2>1, <2>2
<1>3. Older(session) \in Sessions
  <2>1. CASE session = Nothing \/ session.left = 0  BY <1>1, <2>1 DEF Older
  <2>2. CASE session # Nothing /\ session.left # 0
    <3>1. session.left - 1 \in 0 .. SessionLife  BY <1>1, <2>2 DEF Sessions, SessionLife
    <3>2. [session EXCEPT !.left = @ - 1] \in Sessions  BY <1>1, <2>2, <3>1 DEF Sessions
    <3> QED BY <2>2, <3>2 DEF Older
  <2> QED BY <2>1, <2>2
<1>4. question # Nothing /\ Older(question) # Nothing => Older(question).quest = question.quest
  BY <1>1 DEF Older, Questions
<1>5. question = Nothing => Older(question) = Nothing  BY DEF Older
<1> QED BY <1>1, <1>2, <1>3, <1>4, <1>5 DEF WithoutLapsed, Lapsed, Sessions

\* Time passes, and what has expired is collected.
LEMMA TimeStep ==
    ASSUME QuestInv, Advance \/ (\E away \in BOOLEAN : Maintain(away)), UNCHANGED operator
    PROVE  QuestInv'
<1>1. /\ UNCHANGED <<operator, inWorld, level, held, quest, tracker, granted>>
      /\ question' \in {Older(question), WithoutLapsed(question)}
      /\ session' \in {Older(session), WithoutLapsed(session), Nothing}
  BY DEF Advance, Maintain
<1>2. /\ question' \in Questions \cup {Nothing}
      /\ question' # Nothing => question # Nothing /\ question'.quest = question.quest
      /\ session' \in Sessions
  BY <1>1, TimedRows
<1>3. Working \in Works /\ held \in 0 .. 1  BY WorkingRows DEF QuestInv, Works
<1>4. (Working \in Works)'  BY <1>1, <1>2, <1>3, RowsKeep
<1> QED BY <1>1, <1>2, <1>4 DEF QuestInv, Sessions

\* A conversation is closed.
LEMMA CloseStep ==
    ASSUME QuestInv, CloseNpcInteraction, UNCHANGED operator PROVE QuestInv'
<1>1. /\ UNCHANGED <<operator, inWorld, level, held, quest, tracker, granted, question>>
      /\ session' = Nothing
  BY DEF CloseNpcInteraction
<1>2. Working \in Works /\ held \in 0 .. 1 /\ question \in Questions \cup {Nothing}
  BY WorkingRows DEF QuestInv, Works
<1>3. (Working \in Works)'  BY <1>1, <1>2, RowsKeep
<1> QED BY <1>1, <1>3 DEF QuestInv, Sessions

\* A conversation begins.
LEMMA InteractStep ==
    ASSUME QuestInv, NEW npc \in Npc, NEW env \in World, InteractNpc(npc, env),
           UNCHANGED operator
    PROVE  QuestInv'
<1> DEFINE clicked == Dispatch(Working, "npc_click", npc, 10, env)
           chatted == Dispatch(clicked, "npc_chat", npc, 6, env)
           w == IF clicked.said \/ clicked.err THEN clicked ELSE chatted
<1>1. /\ inWorld /\ ~w.err /\ Commit(w) /\ UNCHANGED inWorld
      /\ session' = [npc |-> npc, offered |-> Shown(w, npc), left |-> SessionLife]
  BY DEF InteractNpc
<1>2. \A v \in Works \cup Failed : ~v.err => v \in Works  BY DEF Failed, RowsWith
<1>3. clicked \in Works \cup Failed  BY DispatchEnds DEF QuestInv, Outcome, Fails
<1> HIDE DEF clicked
<1>4. clicked \in Works => chatted \in Works \cup Failed
  BY DispatchEnds DEF Outcome, Fails
<1> HIDE DEF chatted
<1>5. w \in Works  BY <1>1, <1>2, <1>3, <1>4
<1> HIDE DEF w
<1>6. (Working \in Works)'  BY <1>1, <1>5, CommitKeeps
<1>7. session' \in Sessions
  <2>1. Shown(w, npc) \in BOOLEAN
    <3>1. w.offered \in BOOLEAN  BY <1>5 DEF Works, Records, RowsWith
    <3> QED BY <3>1, Zenon DEF Shown
  <2>2. SessionLife \in 0 .. SessionLife  BY DEF SessionLife
  <2> QED BY <1>1, <2>1, <2>2 DEF Sessions
<1> QED BY <1>1, <1>6, <1>7 DEF QuestInv, Sessions

\* The question about the dogs moves the quest or does nothing.
LEMMA DogAnswers ==
    ASSUME NEW w \in Works, operator, NEW option \in 1 .. 2, NEW npc, NEW env
    PROVE  RunOps(w, "main_quest_lv2", DogBranches[option], npc, env) \in Works
<1> DEFINE q == "main_quest_lv2"
<1>1. q \in QuestId /\ Open(w, q)  BY Quests DEF Open
<1>2. CASE option = 1
  <2>1. DogBranches[1] = <<SetState("gototeacher2")>>  BY DEF DogBranches
  <2>2. "gototeacher2" \in MayMove(q)  BY States DEF MayMove, COMPLETE
  <2>3. SetState("gototeacher2") \in Harmless(q)  BY <2>2 DEF Harmless, Moves
  <2> DEFINE ops == <<SetState("gototeacher2")>>
  <2>4. IsList(ops) /\ \A k \in 1 .. Len(ops) : ops[k] \in Harmless(q)
    BY <2>3 DEF IsList
  <2> HIDE DEF ops
  <2>5. RunOps(w, q, ops, npc, env) \in Works  BY <1>1, <2>4, HarmlessRuns
  <2> QED BY <1>2, <2>1, <2>5 DEF ops
<1>3. CASE option = 2
  <2>1. DogBranches[2] = << >>  BY DEF DogBranches
  <2> DEFINE ops == << >>
  <2>2. IsList(ops) /\ \A k \in 1 .. Len(ops) : ops[k] \in Harmless(q)  BY DEF IsList
  <2> HIDE DEF ops
  <2>3. RunOps(w, q, ops, npc, env) \in Works  BY <1>1, <2>2, HarmlessRuns
  <2> QED BY <1>3, <2>1, <2>3 DEF ops
<1> QED BY <1>2, <1>3

\* A question is answered, in the state that asked it unless an operator
\* was asked.
LEMMA ChooseStep ==
    ASSUME QuestInv, NEW option \in 1 .. 2, NEW env \in World, NpcChoose(option, env),
           UNCHANGED operator
    PROVE  QuestInv'
<1> DEFINE q == question.quest
           ran == RunOps(Answered, q, question.branches[option], session.npc, env)
           w == DrainEnters(ran, session.npc, env)
<1>1. /\ inWorld /\ UNCHANGED inWorld /\ ~w.err /\ Commit(w)
      /\ session # Nothing /\ question # Nothing /\ option \in DOMAIN question.branches
      /\ session' = [session EXCEPT !.offered = w.offered, !.left = SessionLife]
  BY DEF NpcChoose, Answerable
<1>2. Working \in Works /\ question \in Questions
  BY <1>1, WorkingRows DEF QuestInv, Works
<1>3. /\ Answered \in Works /\ Answered.quest = Working.quest /\ Answered.question = Nothing
  <2>1. /\ Answered \in Records /\ Answered.quest = Working.quest
        /\ Answered.granted = Working.granted /\ Answered.question = Nothing
    BY <1>2 DEF Answered, Works, Records, RowsWith
  <2> QED BY <1>2, <2>1 DEF Works, MainPaid, SidePaid, AskedNow
<1>4. ran \in Works \cup Failed
  <2>1. CASE q = "find_squareguard"
    <3>1. question.branches = BuyBranches  BY <1>2, <2>1 DEF Questions
    <3>2. option = 1 /\ question.branches[option] = <<Say, Give("money"), SetState("buy")>>
      BY <1>1, <3>1 DEF BuyBranches
    <3>3. Answered \in Within({"find"})
      BY <1>1, <1>2, <1>3, <2>1, WorkingRows DEF Within, Works, AskedNow
    <3> HIDE DEF q
    <3>4. RunOps(Answered, "find_squareguard", <<Say, Give("money"), SetState("buy")>>,
                 session.npc, env) \in Works \cup Failed
      BY <1>3, <3>3, MoneyIsGiven
    <3> QED BY <2>1, <3>2, <3>4
  <2>2. CASE q # "find_squareguard"
    <3>1. operator /\ q = "main_quest_lv2" /\ question.branches = DogBranches
      BY <1>2, <2>2 DEF Questions
    <3> HIDE DEF q
    <3>2. RunOps(Answered, "main_quest_lv2", DogBranches[option], session.npc, env) \in Works
      BY <1>3, <3>1, DogAnswers
    <3> QED BY <3>1, <3>2
  <2> QED BY <2>1, <2>2
<1> HIDE DEF ran
<1>5. w \in Works
  <2>1. CASE ran \in Works  BY <2>1, DrainKeeps
  <2>2. CASE ran \in Failed
    <3>1. w = ran  BY <2>2, FailedDrain
    <3> QED BY <1>1, <2>2, <3>1 DEF Failed, RowsWith
  <2> QED BY <1>4, <2>1, <2>2
<1> HIDE DEF w
<1>6. (Working \in Works)'  BY <1>1, <1>5, CommitKeeps
<1>7. session' \in Sessions
  <2>1. w.offered \in BOOLEAN  BY <1>5 DEF Works, Records, RowsWith
  <2>2. session \in Sessions /\ SessionLife \in 0 .. SessionLife
    BY DEF QuestInv, SessionLife
  <2> QED BY <1>1, <2>1, <2>2 DEF Sessions
<1> QED BY <1>1, <1>6, <1>7 DEF QuestInv, Sessions

\* Every step keeps the invariant.
LEMMA QuestStep == QuestInv /\ [QuestNext]_questVars => QuestInv'
<1> SUFFICES ASSUME QuestInv, [QuestNext]_questVars PROVE QuestInv'
  OBVIOUS
<1>1. CASE UNCHANGED questVars
  <2>1. UNCHANGED <<operator, inWorld, session, question>> /\ Working' = Working
    BY <1>1 DEF questVars, Working
  <2>2. Works' = Works  BY <2>1, WorksStay
  <2>3. (Working \in Works)'  BY <2>1, <2>2 DEF QuestInv
  <2> QED BY <2>1, <2>3 DEF QuestInv, Sessions
<1>2. CASE QuestNext
  BY <1>2, EnterStep, LeaveStep, LevelStep, KillStep, CarryStep, InteractStep, ChooseStep,
     CloseStep, TimeStep
  DEF QuestNext, Step
<1> QED BY <1>1, <1>2

\* The invariant holds what the runtime promises.
LEMMA PaidRows == QuestInv => RewardsArePaid
<1> SUFFICES ASSUME QuestInv PROVE RewardsArePaid
  OBVIOUS
<1>1. /\ operator \in BOOLEAN /\ inWorld \in BOOLEAN /\ session \in Sessions
      /\ level \in 1 .. MaxLevel /\ held \in 0 .. 1 /\ quest \in QuestRows
      /\ tracker \in [QuestId -> Tracker] /\ question \in Questions \cup {Nothing}
      /\ granted \in Grants
  BY WorkingRows DEF QuestInv, Works
<1>2. QuestTypeOK
  <2>1. \A q \in QuestId : quest[q] \in StateName(q) \cup {Nothing}
    BY <1>1 DEF QuestRows
  <2>2. question # Nothing => /\ question.npc \in Npc /\ question.quest \in QuestId
                              /\ question.left \in 0 .. SelectionLife
    BY <1>1, Quests DEF Questions
  <2> QED BY <1>1, <2>1, <2>2 DEF QuestTypeOK, Tracker, Grants, Sessions
<1>3. RewardIffComplete
  BY WorkingRows DEF QuestInv, Works, MainPaid, RewardIffComplete, Unpaid
<1>4. SideRewardPaid
  <2>1. "money" \in RewardKind /\ "item" \in RewardKind  BY DEF RewardKind
  <2> QED BY WorkingRows DEF QuestInv, Works, SidePaid, SideRewardPaid, Paid
<1> QED BY <1>2, <1>3, <1>4 DEF RewardsArePaid

\* However bag, level and questions stand, a main quest of an ordinary
\* character has paid each of its rewards exactly when it is complete, and
\* a side quest is past a reward only with the reward (run_ops_collecting
\* of quest.rs).
THEOREM RewardsArePaidCorrect == QuestSpec => []RewardsArePaid
<1>1. QuestInit => QuestInv  BY QuestBegins
<1>2. QuestInv /\ [QuestNext]_questVars => QuestInv'  BY QuestStep
<1>3. QuestInv => RewardsArePaid  BY PaidRows
<1> QED BY <1>1, <1>2, <1>3, PTL DEF QuestSpec

\* A pending question belongs to this visit and to the state that asked it.
THEOREM QuestionIsCurrentCorrect == QuestSpec => []QuestionIsCurrent
<1>1. QuestInv => QuestionIsCurrent
  BY WorkingRows DEF QuestInv, Works, AskedNow, Questions, QuestionIsCurrent
<1> QED BY <1>1, QuestBegins, QuestStep, PTL DEF QuestSpec

-----------------------------------------------------------------------------
(* The objective row.  What a delivery has written, failed or not.           *)

Vnum == Npc \cup {AnyNpc, 101}
Asked == [npc : Vnum, quest : QuestId, asked : (UNION {StateName(q) : q \in QuestId}) \cup {Nothing},
          branches : {BuyBranches, DogBranches}, left : 0 .. SelectionLife]
Written ==
    [level : Nat, held : 0 .. 1, quest : QuestRows, tracker : [QuestId -> Tracker],
     question : Asked \cup {Nothing}, granted : Grants, queue : Seq(Due),
     fired : SUBSET (QuestId \X Nat), said : BOOLEAN, offered : BOOLEAN,
     progressed : BOOLEAN, err : BOOLEAN]

\* Only the hunt counts, and a quest that is over or not begun shows nothing.
Rows ==
    {v \in Written :
       \A q \in QuestId :
         /\ v.quest[q] \in {Nothing, COMPLETE} => v.tracker[q] = NoTracker
         /\ q # "main_quest_lv2" => v.tracker[q].amount = 0 /\ v.tracker[q].total = 0}

\* The objective of the hunt is that of its state.
Clean(v) ==
    LET q == "main_quest_lv2"
    IN  IF v.quest[q] = "killdog"
        THEN v.tracker[q].total = Dogs /\ v.tracker[q].amount < Dogs
        ELSE v.tracker[q].total = 0 /\ v.tracker[q].amount = 0

\* The entry that makes it so is due.
Pending(v) ==
    \E i \in 1 .. Len(v.queue) : v.queue[i] = <<"main_quest_lv2", v.quest["main_quest_lv2"]>>

\* Before the hunt's turn it is known to be short of its total.
Follows(before, v) ==
    \/ Clean(v)
    \/ /\ Pending(v)
       /\ before \/ v.quest["main_quest_lv2"] = "killdog"
            => v.tracker["main_quest_lv2"].amount < Dogs

\* What the rows of a delivery are made of.
LEMMA WrittenRows ==
    ASSUME NEW v \in Written
    PROVE  /\ v.quest \in QuestRows /\ v.tracker \in [QuestId -> Tracker] /\ v.queue \in Seq(Due)
           /\ v.err \in BOOLEAN /\ v.held \in 0 .. 1 /\ v.level \in Nat /\ v.granted \in Grants
           /\ Len(v.queue) \in Nat /\ "main_quest_lv2" \in QuestId
           /\ \A q \in QuestId : v.tracker[q] \in Tracker
           /\ v.tracker["main_quest_lv2"].amount \in 0 .. Dogs
  BY Quests DEF Written, Tracker

\* Rows that agree on what the objective depends on.
LEMMA SameFollows ==
    ASSUME NEW before, NEW v, NEW u, u.quest = v.quest, u.queue = v.queue,
           u.tracker["main_quest_lv2"].amount = v.tracker["main_quest_lv2"].amount,
           u.tracker["main_quest_lv2"].total = v.tracker["main_quest_lv2"].total,
           Follows(before, v)
    PROVE  Follows(before, u)
  BY DEF Follows, Clean, Pending

\* A move keeps the objective's row, or leaves it due.
LEMMA MoveWrites ==
    ASSUME NEW v \in Rows, NEW r \in QuestId, NEW st \in StateName(r),
           NEW u, u = MovedTo(v, r, st)
    PROVE  /\ u \in Rows
           /\ u.quest[r] = st /\ \A p \in QuestId \ {r} : u.quest[p] = v.quest[p]
           /\ u.queue = Append(v.queue, <<r, st>>) /\ u.err = v.err
           /\ \A before \in BOOLEAN :
                /\ before \/ r # "main_quest_lv2" \/ st # "killdog"
                /\ Follows(before, v)
                => Follows(before, u)
<1>1. v \in Written /\ QuestId \in {QuestId}  BY DEF Rows
<1>2. v.quest \in QuestRows /\ v.tracker \in [QuestId -> Tracker] /\ v.queue \in Seq(Due)
  BY <1>1, WrittenRows
<1> DEFINE qs == [v.quest EXCEPT ![r] = st]
           ts == [v.tracker EXCEPT ![r] = IF st = COMPLETE THEN NoTracker ELSE @]
           due == Append(v.queue, <<r, st>>)
<1>3. u = [v EXCEPT !.quest = qs, !.tracker = ts, !.queue = due]
  BY <1>1 DEF MovedTo, Written
<1>4. qs \in QuestRows  BY <1>2 DEF QuestRows
<1>5. NoTracker \in Tracker  BY QuestAssumption DEF Tracker, NoTracker
<1>6. ts \in [QuestId -> Tracker]  BY <1>2, <1>5
<1>7. due \in Seq(Due)
  <2>1. <<r, st>> \in Due  BY DEF Due
  <2> QED BY <1>2, <2>1
<1>8. /\ u \in Written /\ u.quest = qs /\ u.tracker = ts /\ u.queue = due /\ u.err = v.err
  <2> HIDE DEF qs, ts, due
  <2> QED BY <1>1, <1>3, <1>4, <1>6, <1>7 DEF Written
<1>12. u.quest[r] = st /\ \A p \in QuestId \ {r} : u.quest[p] = v.quest[p]
  <2>1. qs[r] = st /\ \A p \in QuestId \ {r} : qs[p] = v.quest[p]  BY <1>2 DEF QuestRows
  <2> HIDE DEF qs
  <2> QED BY <1>8, <2>1
<1>9. \A q \in QuestId : COMPLETE \in StateName(q)  BY Quests, States
<1>10. u \in Rows
  <2>1. ASSUME NEW q \in QuestId
        PROVE  /\ u.quest[q] \in {Nothing, COMPLETE} => u.tracker[q] = NoTracker
               /\ q # "main_quest_lv2" => u.tracker[q].amount = 0 /\ u.tracker[q].total = 0
    <3>1. CASE q = r
      <4>1. qs[q] = st /\ ts[q] = IF st = COMPLETE THEN NoTracker ELSE v.tracker[q]
        BY <1>2, <3>1 DEF QuestRows
      <4>2. st # Nothing  BY QuestAssumption
      <4>3. NoTracker.amount = 0 /\ NoTracker.total = 0  BY DEF NoTracker
      <4>4. q # "main_quest_lv2" => v.tracker[q].amount = 0 /\ v.tracker[q].total = 0
        BY DEF Rows
      <4> HIDE DEF qs, ts
      <4> QED BY <1>8, <4>1, <4>2, <4>3, <4>4
    <3>2. CASE q # r
      <4>1. qs[q] = v.quest[q] /\ ts[q] = v.tracker[q]  BY <1>2, <3>2 DEF QuestRows
      <4> HIDE DEF qs, ts
      <4> QED BY <1>8, <4>1 DEF Rows
    <3> QED BY <3>1, <3>2
  <2> QED BY <1>8, <2>1 DEF Rows
<1>11. ASSUME NEW before \in BOOLEAN, before \/ r # "main_quest_lv2" \/ st # "killdog",
              Follows(before, v)
       PROVE  Follows(before, u)
  <2> DEFINE lv2 == "main_quest_lv2"
  <2>1. lv2 \in QuestId /\ Len(v.queue) \in Nat  BY <1>1, WrittenRows
  <2>2. Len(due) = Len(v.queue) + 1 /\ due[Len(v.queue) + 1] = <<r, st>>
        /\ \A i \in 1 .. Len(v.queue) : due[i] = v.queue[i]
    BY <1>2
  <2>3. CASE r = lv2
    <3>1. u.quest[lv2] = st  BY <1>2, <1>8, <2>1, <2>3 DEF QuestRows
    <3>2. Pending(u)
      <4> HIDE DEF due, qs, ts
      <4>1. Len(v.queue) + 1 \in 1 .. Len(u.queue)  BY <1>8, <2>1, <2>2
      <4> QED BY <1>8, <2>2, <2>3, <3>1, <4>1 DEF Pending
    <3>3. u.tracker[lv2] = NoTracker \/ u.tracker[lv2] = v.tracker[lv2]
      BY <1>2, <1>8, <2>1, <2>3
    <3>4. NoTracker.amount = 0 /\ Dogs > 0 /\ Dogs \in Nat
      BY QuestAssumption DEF NoTracker
    <3>5. before => v.tracker[lv2].amount < Dogs
      <4>1. Clean(v) => v.tracker[lv2].amount < Dogs  BY <3>4 DEF Clean
      <4> QED BY <4>1, <1>11 DEF Follows
    <3>6. before \/ u.quest[lv2] = "killdog" => u.tracker[lv2].amount < Dogs
      BY <1>11, <2>3, <3>1, <3>3, <3>4, <3>5
    <3> QED BY <3>2, <3>6 DEF Follows
  <2>4. CASE r # lv2
    <3>1. u.quest[lv2] = v.quest[lv2] /\ u.tracker[lv2] = v.tracker[lv2]
      BY <1>2, <1>8, <2>1, <2>4 DEF QuestRows
    <3>2. Pending(v) => Pending(u)
      <4> HIDE DEF due, qs, ts
      <4>1. \A i \in 1 .. Len(v.queue) : i \in 1 .. Len(u.queue)  BY <1>8, <2>1, <2>2
      <4> QED BY <1>8, <2>2, <3>1, <4>1 DEF Pending
    <3> QED BY <1>11, <3>1, <3>2 DEF Follows, Clean
  <2> QED BY <2>3, <2>4
<1> QED BY <1>8, <1>10, <1>11, <1>12

\* Rows that differ in what no objective depends on.
LEMMA OtherWrites ==
    ASSUME NEW v \in Rows, NEW u \in Written, u.quest = v.quest, u.tracker = v.tracker
    PROVE  u \in Rows
  BY DEF Rows

\* The row of one quest is written.
WithRow(v, q, t) == [v EXCEPT !.tracker[q] = t]

\* A row of the objectives that is tidy leaves the rows tidy.
LEMMA TrackerWrites ==
    ASSUME NEW v \in Rows, NEW q \in QuestId, NEW t \in Tracker,
           v.quest[q] \in {Nothing, COMPLETE} => t = NoTracker,
           q # "main_quest_lv2" => t.amount = 0 /\ t.total = 0,
           NEW u, u = WithRow(v, q, t)
    PROVE  /\ u \in Rows /\ u.quest = v.quest /\ u.queue = v.queue /\ u.err = v.err
           /\ u.tracker[q] = t /\ \A r \in QuestId \ {q} : u.tracker[r] = v.tracker[r]
<1>1. v \in Written  BY DEF Rows
<1> DEFINE ts == [v.tracker EXCEPT ![q] = t]
<1>2. v.tracker \in [QuestId -> Tracker]  BY <1>1, WrittenRows
<1>3. ts \in [QuestId -> Tracker] /\ ts[q] = t /\ \A r \in QuestId \ {q} : ts[r] = v.tracker[r]
  BY <1>2
<1>4. u = [v EXCEPT !.tracker = ts]  BY <1>1 DEF Written, WithRow
<1>5. u \in Written /\ u.tracker = ts /\ u.quest = v.quest /\ u.queue = v.queue /\ u.err = v.err
  <2> HIDE DEF ts
  <2> QED BY <1>1, <1>3, <1>4 DEF Written
<1>6. u \in Rows
  <2>1. ASSUME NEW r \in QuestId
        PROVE  /\ u.quest[r] \in {Nothing, COMPLETE} => u.tracker[r] = NoTracker
               /\ r # "main_quest_lv2" => u.tracker[r].amount = 0 /\ u.tracker[r].total = 0
    <3> HIDE DEF ts
    <3>1. CASE r = q  BY <1>3, <1>5, <3>1
    <3>2. CASE r # q
      <4>1. u.tracker[r] = v.tracker[r]  BY <1>3, <1>5, <3>2
      <4> QED BY <1>5, <4>1 DEF Rows
    <3> QED BY <3>1, <3>2
  <2> QED BY <1>5, <2>1 DEF Rows
<1> QED BY <1>3, <1>5, <1>6

Cleared(t) == [t EXCEPT !.letter = FALSE]

\* Putting away the letter of an empty row leaves it empty.
LEMMA ClearedRow ==
    ASSUME NEW t, t = NoTracker PROVE Cleared(t) = NoTracker
<1>1. ASSUME NEW u, u = [t EXCEPT !.letter = FALSE] PROVE u = NoTracker
  <2>1. u = [letter |-> FALSE, label |-> FALSE, amount |-> 0, total |-> 0]
    BY <1>1 DEF NoTracker
  <2> QED BY <2>1 DEF NoTracker
<1> QED BY <1>1 DEF Cleared

\* Operations that leave the states of the quests alone.
Plain == {Say, ClearLetter, RemoveItem, Ask(BuyBranches), Ask(DogBranches)}
         \cup {Give(k) : k \in RewardKind}

\* What such an operation leaves as it is.
Kept(v, u) ==
    /\ u \in Rows /\ u.quest = v.quest /\ u.queue = v.queue
    /\ \A r \in QuestId : u.tracker[r].amount = v.tracker[r].amount
                          /\ u.tracker[r].total = v.tracker[r].total

\* Speech, rewards, questions and items leave states and objectives alone.
LEMMA PlainWrites ==
    ASSUME NEW v \in Rows, NEW q \in QuestId, NEW op \in Plain, NEW npc \in Vnum,
           NEW env \in World, NEW u, u = Perform(v, q, op, npc, env)
    PROVE  Kept(v, u) /\ (op = Say => u.err = v.err)
<1>1. v \in Written  BY DEF Rows
<1>2. ASSUME u \in Written, u.quest = v.quest, u.tracker = v.tracker, u.queue = v.queue
      PROVE  Kept(v, u)
  BY <1>2, OtherWrites DEF Kept
<1>3. CASE op = Say
  <2>1. u = [v EXCEPT !.said = TRUE]  BY <1>3 DEF Perform, Say, Do
  <2>2. /\ u \in Written /\ u.quest = v.quest /\ u.tracker = v.tracker
        /\ u.queue = v.queue /\ u.err = v.err
    BY <1>1, <2>1 DEF Written
  <2> QED BY <1>2, <2>2
<1>4. CASE op = ClearLetter
  <2> DEFINE t == Cleared(v.tracker[q])
  <2>1. v.tracker[q] \in Tracker  BY <1>1, WrittenRows
  <2>2. t \in Tracker /\ t.amount = v.tracker[q].amount /\ t.total = v.tracker[q].total
        /\ (v.tracker[q] = NoTracker => t = NoTracker)
    <3>1. t \in Tracker /\ t.amount = v.tracker[q].amount /\ t.total = v.tracker[q].total
      BY <2>1 DEF Tracker, Cleared
    <3>2. ASSUME v.tracker[q] = NoTracker PROVE t = NoTracker  BY <3>2, ClearedRow
    <3> QED BY <3>1, <3>2
  <2>3. u = WithRow(v, q, t)
    BY <1>1, <1>4 DEF Perform, ClearLetter, Do, Written, WithRow, Cleared
  <2>4. op # Say  BY <1>4 DEF ClearLetter, Say, Do
  <2> HIDE DEF t
  <2>5. v.quest[q] \in {Nothing, COMPLETE} => t = NoTracker  BY <2>2 DEF Rows
  <2>6. q # "main_quest_lv2" => t.amount = 0 /\ t.total = 0  BY <2>2 DEF Rows
  <2>7. /\ u \in Rows /\ u.quest = v.quest /\ u.queue = v.queue /\ u.err = v.err
        /\ u.tracker[q] = t /\ \A r \in QuestId \ {q} : u.tracker[r] = v.tracker[r]
    <3>1. t \in Tracker  BY <2>2
    <3> QED BY <3>1, <2>3, <2>5, <2>6, TrackerWrites
  <2> QED BY <2>2, <2>4, <2>7 DEF Kept
<1>5. CASE op = RemoveItem
  <2>1. u \in {[v EXCEPT !.err = TRUE], [v EXCEPT !.held = 0], [v EXCEPT !.held = 1]}
    BY <1>5 DEF Perform, RemoveItem, Do
  <2>2. u \in Written /\ u.quest = v.quest /\ u.tracker = v.tracker /\ u.queue = v.queue
    <3>1. CASE u = [v EXCEPT !.err = TRUE]  BY <1>1, <3>1 DEF Written
    <3>2. ASSUME NEW n \in 0 .. 1, u = [v EXCEPT !.held = n]
          PROVE  /\ u \in Written /\ u.quest = v.quest /\ u.tracker = v.tracker
                 /\ u.queue = v.queue
      BY <1>1, <3>2 DEF Written
    <3> QED BY <2>1, <3>1, <3>2
  <2>3. op # Say  BY <1>5 DEF RemoveItem, Say, Do
  <2> QED BY <1>2, <2>2, <2>3
<1>6. ASSUME NEW b \in {BuyBranches, DogBranches}, op = Ask(b)
      PROVE  Kept(v, u) /\ op # Say
  <2> DEFINE row == [npc |-> npc, quest |-> q, asked |-> v.quest[q], branches |-> b,
                     left |-> SelectionLife]
  <2>1. u = [v EXCEPT !.said = TRUE, !.offered = TRUE, !.question = row]
    BY <1>6 DEF Perform, Ask, Do
  <2>2. row \in Asked
    <3>1. v.quest[q] \in (UNION {StateName(r) : r \in QuestId}) \cup {Nothing}
      BY <1>1, WrittenRows DEF QuestRows
    <3>2. SelectionLife \in 0 .. SelectionLife  BY DEF SelectionLife
    <3> QED BY <3>1, <3>2 DEF Asked
  <2> HIDE DEF row
  <2>3. u \in Written /\ u.quest = v.quest /\ u.tracker = v.tracker /\ u.queue = v.queue
    BY <1>1, <2>1, <2>2 DEF Written
  <2>4. op # Say  BY <1>6 DEF Ask, Say, Do
  <2> QED BY <1>2, <2>3, <2>4
<1>7. ASSUME NEW k \in RewardKind, op = Give(k)
      PROVE  Kept(v, u) /\ op # Say
  <2>1. u = Reward(v, q, k, env)  BY <1>7 DEF Perform, Give, Do
  <2> DEFINE n == IF v.granted[q][k] < 2 THEN v.granted[q][k] + 1 ELSE 2
             gs == [v.granted EXCEPT ![q][k] = n]
             l == IF k = "exp" THEN v.level + env.gain ELSE v.level
             h == IF k = "item" THEN 1 ELSE v.held
  <2>2. gs \in Grants /\ l \in Nat /\ h \in 0 .. 1
    <3>1. v.granted \in Grants /\ v.level \in Nat /\ v.held \in 0 .. 1
      BY <1>1, WrittenRows
    <3>2. n \in 0 .. 2  BY <3>1 DEF Grants
    <3>3. env.gain \in Nat  BY DEF World
    <3> HIDE DEF n
    <3> QED BY <3>1, <3>2, <3>3 DEF Grants
  <2>3. u \in {[v EXCEPT !.err = TRUE], [v EXCEPT !.granted = gs, !.level = l, !.held = h]}
    BY <1>1, <2>1 DEF Reward, Written
  <2> HIDE DEF gs, l, h
  <2>4. u \in Written /\ u.quest = v.quest /\ u.tracker = v.tracker /\ u.queue = v.queue
    BY <1>1, <2>2, <2>3 DEF Written
  <2>5. op # Say  BY <1>7 DEF Give, Say, Do
  <2> QED BY <1>2, <2>4, <2>5
<1> QED BY <1>3, <1>4, <1>5, <1>6, <1>7 DEF Plain

\* Rows whose objective does not change keep following their state.
LEMMA KeptFollows ==
    ASSUME NEW v, NEW u, Kept(v, u), NEW before, Follows(before, v)
    PROVE  Follows(before, u)
<1>1. "main_quest_lv2" \in QuestId  BY Quests
<1> QED BY <1>1, SameFollows DEF Kept

\* What a move of quest q leaves.
Moved(q, v, u) ==
    /\ u \in Rows /\ u.err = v.err /\ Len(u.queue) <= Len(v.queue) + 1
    /\ \A before \in BOOLEAN :
         (before \/ q # "main_quest_lv2") /\ Follows(before, v) => Follows(before, u)

\* A quest moves itself.
LEMMA SetWrites ==
    ASSUME NEW v \in Rows, NEW q \in QuestId, NEW st \in StateName(q), NEW npc, NEW env,
           NEW u, u = Perform(v, q, SetState(st), npc, env)
    PROVE  /\ Moved(q, v, u)
           /\ u.quest[q] = st /\ \A p \in QuestId \ {q} : u.quest[p] = v.quest[p]
           /\ \A before \in BOOLEAN :
                (q # "main_quest_lv2" \/ st # "killdog") /\ Follows(before, v) => Follows(before, u)
<1>1. v \in Written  BY DEF Rows
<1>2. v.quest \in QuestRows /\ v.queue \in Seq(Due) /\ Len(v.queue) \in Nat
  BY <1>1, WrittenRows
<1>3. u = IF v.quest[q] = st THEN v ELSE MovedTo(v, q, st)  BY DEF Perform, SetState, Do
<1>4. CASE v.quest[q] = st
  <2>1. u = v  BY <1>3, <1>4
  <2>2. u.quest[q] = st /\ \A p \in QuestId \ {q} : u.quest[p] = v.quest[p]
    BY <1>4, <2>1
  <2> QED BY <1>2, <2>1, <2>2 DEF Moved
<1>5. CASE v.quest[q] # st
  <2>1. u = MovedTo(v, q, st)  BY <1>3, <1>5
  <2>2. /\ u \in Rows
        /\ u.quest[q] = st /\ \A p \in QuestId \ {q} : u.quest[p] = v.quest[p]
        /\ u.queue = Append(v.queue, <<q, st>>) /\ u.err = v.err
        /\ \A before \in BOOLEAN :
             /\ before \/ q # "main_quest_lv2" \/ st # "killdog"
             /\ Follows(before, v)
             => Follows(before, u)
    BY <2>1, MoveWrites
  <2>3. Len(u.queue) = Len(v.queue) + 1  BY <1>2, <2>2
  <2> QED BY <1>2, <2>2, <2>3 DEF Moved
<1> QED BY <1>4, <1>5

\* Another quest that is unlocked does not start the hunt.
LEMMA UnlockWrites ==
    ASSUME NEW v \in Rows, NEW q, NEW op \in Unlocks, NEW npc, NEW env,
           NEW u, u = Perform(v, q, op, npc, env)
    PROVE  /\ u \in Rows /\ u.err = v.err /\ Len(u.queue) <= Len(v.queue) + 1
           /\ \A before \in BOOLEAN : Follows(before, v) => Follows(before, u)
<1>1. v \in Written  BY DEF Rows
<1>2. v.queue \in Seq(Due) /\ Len(v.queue) \in Nat  BY <1>1, WrittenRows
<1>3. PICK r, st : op = SetQuestState(r, st) /\ st # "killdog"  BY DEF Unlocks
<1>4. u = IF Unlockable(v, r, st) THEN MovedTo(v, r, st) ELSE v
  BY <1>3 DEF Perform, SetQuestState, Do
<1>5. CASE Unlockable(v, r, st)
  <2>1. r \in QuestId /\ st \in StateName(r) /\ u = MovedTo(v, r, st)
    BY <1>4, <1>5 DEF Unlockable
  <2>2. /\ u \in Rows /\ u.queue = Append(v.queue, <<r, st>>) /\ u.err = v.err
        /\ \A before \in BOOLEAN :
             /\ before \/ r # "main_quest_lv2" \/ st # "killdog"
             /\ Follows(before, v)
             => Follows(before, u)
    BY <2>1, MoveWrites
  <2>3. Len(u.queue) = Len(v.queue) + 1  BY <1>2, <2>2
  <2> QED BY <1>2, <1>3, <2>2, <2>3
<1>6. CASE ~Unlockable(v, r, st)
  <2>1. u = v  BY <1>4, <1>6
  <2> QED BY <1>2, <2>1
<1> QED BY <1>5, <1>6

\* The operations of a turn other than counting.
TurnOps(q) == Plain \cup Unlocks \cup {SetState(st) : st \in StateName(q)}

\* One operation of a turn that does not count.
LEMMA TurnWrites ==
    ASSUME NEW before \in BOOLEAN, NEW v \in Rows, NEW q \in QuestId,
           before \/ q # "main_quest_lv2", Follows(before, v),
           NEW op \in TurnOps(q), NEW npc \in Vnum, NEW env \in World,
           NEW u, u = RunOp(v, q, op, npc, env)
    PROVE  /\ u \in Rows /\ Follows(before, u) /\ Len(u.queue) <= Len(v.queue) + 1
           /\ op \in Plain => Len(u.queue) <= Len(v.queue)
<1>1. Len(v.queue) \in Nat  BY WrittenRows DEF Rows
<1>2. op.op # "count"
  <2>1. \A k : Give(k).op = "give"  BY DEF Give, Do
  <2>2. \A x \in Plain : x.op # "count"
    <3>1. Say.op # "count" /\ ClearLetter.op # "count" /\ RemoveItem.op # "count"
      BY DEF Say, ClearLetter, RemoveItem, Do
    <3>2. \A b : Ask(b).op # "count"  BY DEF Ask, Do
    <3> QED BY <2>1, <3>1, <3>2 DEF Plain
  <2>3. \A x \in Unlocks : x.op # "count"  BY DEF Unlocks, SetQuestState, Do
  <2>4. \A st : SetState(st).op # "count"  BY DEF SetState, Do
  <2> QED BY <2>2, <2>3, <2>4 DEF TurnOps
<1>3. u = IF v.err THEN v ELSE Perform(v, q, op, npc, env)  BY <1>2 DEF RunOp
<1>4. CASE v.err
  <2>1. u = v  BY <1>3, <1>4
  <2> QED BY <1>1, <2>1
<1> DEFINE x == Perform(v, q, op, npc, env)
<1>5. CASE ~v.err
  <2>1. u = x  BY <1>3, <1>5
  <2>2. CASE op \in Plain
    <3>1. Kept(v, x)  BY <2>2, PlainWrites
    <3>2. Follows(before, x) /\ x \in Rows /\ x.queue = v.queue
      BY <3>1, KeptFollows DEF Kept
    <3> HIDE DEF x
    <3> QED BY <1>1, <2>1, <3>2
  <2>3. CASE op \notin Plain /\ op \in Unlocks
    <3>1. /\ x \in Rows /\ Len(x.queue) <= Len(v.queue) + 1
          /\ Follows(before, x)
      BY <2>3, UnlockWrites
    <3> HIDE DEF x
    <3> QED BY <2>1, <2>3, <3>1
  <2>4. ASSUME NEW st \in StateName(q), op = SetState(st), op \notin Plain
        PROVE  u \in Rows /\ Follows(before, u) /\ Len(u.queue) <= Len(v.queue) + 1
    <3>1. x = Perform(v, q, SetState(st), npc, env)  BY <2>4
    <3>2. Moved(q, v, x)  BY <3>1, SetWrites
    <3> HIDE DEF x
    <3> QED BY <2>1, <3>2 DEF Moved
  <2> HIDE DEF x
  <2> QED BY <2>2, <2>3, <2>4 DEF TurnOps
<1> QED BY <1>4, <1>5

\* The moves of a list are its last m operations, so it queues at most m entries.
LEMMA TurnRuns ==
    ASSUME NEW before \in BOOLEAN, NEW w \in Rows, NEW q \in QuestId,
           before \/ q # "main_quest_lv2", Follows(before, w),
           NEW ops, IsList(ops), NEW m \in Nat,
           \A k \in 1 .. Len(ops) : ops[k] \in TurnOps(q),
           \A k \in 1 .. Len(ops) : k + m <= Len(ops) => ops[k] \in Plain,
           NEW npc \in Vnum, NEW env \in World, NEW u, u = RunOps(w, q, ops, npc, env)
    PROVE  u \in Rows /\ Follows(before, u) /\ Len(u.queue) <= Len(w.queue) + m
<1> DEFINE n == Len(ops)
           bound(k) == IF k + m <= n THEN 0 ELSE k + m - n
           G(k) == {v \in Rows : Follows(before, v) /\ Len(v.queue) <= Len(w.queue) + bound(k)}
           F == [k \in 0 .. n |-> G(k)]
<1>1. n \in Nat /\ Len(w.queue) \in Nat  BY WrittenRows DEF IsList, Rows
<1>2. w \in F[0]
  <2>1. bound(0) \in Nat  BY <1>1
  <2>2. w \in G(0)
    <3> HIDE DEF bound
    <3> QED BY <1>1, <2>1
  <2> HIDE DEF G
  <2> QED BY <1>1, <2>2
<1>3. \A k \in 1 .. n : \A v \in F[k - 1] : RunOp(v, q, ops[k], npc, env) \in F[k]
  <2> TAKE k \in 1 .. n
  <2> TAKE v \in F[k - 1]
  <2> DEFINE x == RunOp(v, q, ops[k], npc, env)
  <2>1. v \in G(k - 1)
    <3> HIDE DEF G
    <3> QED BY <1>1
  <2>2. v \in Rows /\ Follows(before, v) /\ Len(v.queue) <= Len(w.queue) + bound(k - 1)
        /\ Len(v.queue) \in Nat
    BY <2>1, WrittenRows DEF Rows
  <2>3. /\ x \in Rows /\ Follows(before, x) /\ Len(x.queue) <= Len(v.queue) + 1
        /\ ops[k] \in Plain => Len(x.queue) <= Len(v.queue)
    BY <2>2, TurnWrites
  <2>4. Len(x.queue) \in Nat  BY <2>3, WrittenRows DEF Rows
  <2> HIDE DEF x
  <2>5. Len(x.queue) <= Len(w.queue) + bound(k)
    <3>1. IF k + m <= n THEN bound(k) = bound(k - 1) ELSE bound(k) = bound(k - 1) + 1
      BY <1>1
    <3>2. bound(k) \in Nat /\ bound(k - 1) \in Nat  BY <1>1
    <3>3. k + m <= n => ops[k] \in Plain
      OBVIOUS
    <3>4. \/ bound(k) = bound(k - 1) /\ Len(x.queue) <= Len(v.queue)
          \/ bound(k) = bound(k - 1) + 1 /\ Len(x.queue) <= Len(v.queue) + 1
      <4> HIDE DEF bound, n
      <4> QED BY <2>3, <3>1, <3>3
    <3> DEFINE a == Len(x.queue)
               b == Len(v.queue)
               c == Len(w.queue)
               d == bound(k - 1)
               e == bound(k)
    <3>5. a \in Nat /\ b \in Nat /\ c \in Nat /\ d \in Nat /\ e \in Nat
      BY <1>1, <2>2, <2>4, <3>2
    <3> HIDE DEF bound
    <3>6. b <= c + d /\ ((e = d /\ a <= b) \/ (e = d + 1 /\ a <= b + 1))
      BY <2>2, <3>4
    <3>7. a <= c + e
      <4> HIDE DEF a, b, c, d, e
      <4> QED BY ONLY <3>5, <3>6
    <3> QED BY <3>7
  <2>6. x \in G(k)  BY <2>3, <2>5
  <2> HIDE DEF G
  <2> QED BY <1>1, <2>6 DEF x
<1>4. u \in F[n]
  <2> HIDE DEF F
  <2> QED BY <1>1, <1>2, <1>3, RunWithin
<1>5. u \in G(n)
  <2> HIDE DEF G
  <2> QED BY <1>1, <1>4
<1>6. bound(n) = m  BY <1>1
<1> HIDE DEF bound
<1> QED BY <1>1, <1>5, <1>6

\* A list of operations whose moves are its last m.
Short(q, ops, m) ==
    /\ IsList(ops) /\ \A k \in 1 .. Len(ops) : ops[k] \in TurnOps(q)
    /\ \A k \in 1 .. Len(ops) : k + m <= Len(ops) => ops[k] \in Plain

\* The shapes of the lists that triggers run.
LEMMA ShortLists ==
    ASSUME NEW q \in QuestId, NEW st \in StateName(q)
    PROVE  /\ Short(q, <<SetState(st)>>, 1) /\ Short(q, <<Say, SetState(st)>>, 1)
           /\ Short(q, <<Say>>, 1) /\ Short(q, <<Say, Ask(BuyBranches)>>, 1)
           /\ Short(q, <<Say, Give("item"), SetState(st)>>, 1)
           /\ Short(q, <<Say, ClearLetter, SetState(st)>>, 1)
           /\ Short(q, <<Say, RemoveItem, Give("random"), ClearLetter, SetState(st)>>, 1)
           /\ \A x, y \in Unlocks : Short(q, <<Say, ClearLetter, SetState(st), x, y>>, 3)
           /\ \A x \in Unlocks : Short(q, <<Say, Give("exp"), Give("money"), Give("item"),
                                          ClearLetter, SetState(st), x>>, 2)
<1>1. /\ Say \in Plain /\ ClearLetter \in Plain /\ RemoveItem \in Plain
      /\ Ask(BuyBranches) \in Plain
  BY DEF Plain
<1>2. /\ Give("exp") \in Plain /\ Give("money") \in Plain /\ Give("item") \in Plain
      /\ Give("random") \in Plain
  BY DEF Plain, RewardKind
<1>3. Plain \subseteq TurnOps(q) /\ Unlocks \subseteq TurnOps(q) /\ SetState(st) \in TurnOps(q)
  BY DEF TurnOps
<1>4. Short(q, <<SetState(st)>>, 1) /\ Short(q, <<Say, SetState(st)>>, 1)
  BY <1>1, <1>3 DEF Short, IsList
<1>5. Short(q, <<Say>>, 1) /\ Short(q, <<Say, Ask(BuyBranches)>>, 1)
  BY <1>1, <1>3 DEF Short, IsList
<1>6. Short(q, <<Say, Give("item"), SetState(st)>>, 1)
  BY <1>1, <1>2, <1>3 DEF Short, IsList
<1>7. Short(q, <<Say, ClearLetter, SetState(st)>>, 1)  BY <1>1, <1>3 DEF Short, IsList
<1>8. Short(q, <<Say, RemoveItem, Give("random"), ClearLetter, SetState(st)>>, 1)
  BY <1>1, <1>2, <1>3 DEF Short, IsList
<1>9. ASSUME NEW x \in Unlocks, NEW y \in Unlocks
      PROVE  Short(q, <<Say, ClearLetter, SetState(st), x, y>>, 3)
  BY <1>1, <1>3 DEF Short, IsList
<1>10. ASSUME NEW x \in Unlocks
       PROVE  Short(q, <<Say, Give("exp"), Give("money"), Give("item"), ClearLetter,
                         SetState(st), x>>, 2)
  BY <1>1, <1>2, <1>3 DEF Short, IsList
<1> QED BY <1>4, <1>5, <1>6, <1>7, <1>8, <1>9, <1>10

\* How many moves the longest trigger of a state ends in.
Ending(q, st) ==
    CASE q = "main_quest_lv1" /\ st = "gototeacher" -> 3
      [] q = "main_quest_lv2" /\ st = "gototeacher2" -> 2
      [] q = "main_quest_lv3" /\ st = "gotodefend" -> 2
      [] OTHER -> 1

\* How many entries a turn queues at most.
Turn(q) == IF q = "main_quest_lv2" THEN 4 ELSE IF q = "find_squareguard" THEN 2 ELSE 3

\* The triggers of every state but the hunt's.
LEMMA TurnTriggers ==
    ASSUME NEW q \in QuestId, NEW st \in StateName(q), st \notin {"killdog", COMPLETE}
    PROVE  /\ IsList(StateDoc(q, st).triggers)
           /\ \A i \in 1 .. Len(StateDoc(q, st).triggers) :
                Short(q, StateDoc(q, st).triggers[i].ops, Ending(q, st))
           /\ Ending(q, st) \in 1 .. 3
           /\ Ending(q, st) * Len(StateDoc(q, st).triggers) <= Turn(q)
<1> DEFINE triggers == StateDoc(q, st).triggers
           m == Ending(q, st)
           Fine == /\ IsList(triggers) /\ m \in 1 .. 3 /\ m * Len(triggers) <= Turn(q)
                   /\ \A i \in 1 .. Len(triggers) : Short(q, triggers[i].ops, m)
<1>1. ASSUME q = "main_quest_lv1", st = "start" PROVE Fine
  <2>1. Len(triggers) = 1 /\ DOMAIN triggers = 1 .. 1
    BY <1>1, Documents DEF StateDoc, Lv1, Doc, Silent
  <2>2. m = 1 /\ m * 1 <= Turn(q)  BY <1>1 DEF Ending, Turn
  <2>3. triggers[1].ops = <<SetState("gotoinfomation")>>
    BY <1>1, Documents DEF StateDoc, Lv1, Doc, When
  <2>4. Short(q, triggers[1].ops, m)
    <3>1. "gotoinfomation" \in StateName(q)  BY <1>1, States
    <3> HIDE DEF triggers, m
    <3> QED BY <2>2, <2>3, <3>1, ShortLists
  <2>5. \A i \in 1 .. Len(triggers) : Short(q, triggers[i].ops, m)
    <3> HIDE DEF triggers, m
    <3> QED BY <2>1, <2>2, <2>4
  <2> HIDE DEF triggers, m
  <2> QED BY <2>1, <2>2, <2>5 DEF IsList
<1>2. ASSUME q = "main_quest_lv1", st = "gotoinfomation" PROVE Fine
  <2>1. Len(triggers) = 0 /\ DOMAIN triggers = 1 .. 0
    BY <1>2, Documents DEF StateDoc, Lv1, Doc, Silent
  <2>2. m = 1 /\ m * 0 <= Turn(q)  BY <1>2 DEF Ending, Turn
  <2>3. \A i \in 1 .. Len(triggers) : Short(q, triggers[i].ops, m)
    <3> HIDE DEF triggers, m
    <3> QED BY <2>1, <2>2
  <2> HIDE DEF triggers, m
  <2> QED BY <2>1, <2>2, <2>3 DEF IsList
<1>3. ASSUME q = "main_quest_lv1", st = "gototeacher" PROVE Fine
  <2>1. Len(triggers) = 1 /\ DOMAIN triggers = 1 .. 1
    BY <1>3, Documents DEF StateDoc, Lv1, Doc, Silent
  <2>2. m = 3 /\ m * 1 <= Turn(q)  BY <1>3 DEF Ending, Turn
  <2>3. triggers[1].ops = <<Say, ClearLetter, SetState(COMPLETE), SetQuestState("find_squareguard", "find"),
           SetQuestState("main_quest_lv2", "run")>>
    BY <1>3, Documents DEF StateDoc, Lv1, Doc, When
  <2>4. Short(q, triggers[1].ops, m)
    <3>1. COMPLETE \in StateName(q)  BY <1>3, States
    <3>2. /\ SetQuestState("find_squareguard", "find") \in Unlocks
          /\ SetQuestState("main_quest_lv2", "run") \in Unlocks
      BY DEF Unlocks
    <3> HIDE DEF triggers, m
    <3> QED BY <2>2, <2>3, <3>1, <3>2, ShortLists
  <2>5. \A i \in 1 .. Len(triggers) : Short(q, triggers[i].ops, m)
    <3> HIDE DEF triggers, m
    <3> QED BY <2>1, <2>2, <2>4
  <2> HIDE DEF triggers, m
  <2> QED BY <2>1, <2>2, <2>5 DEF IsList
<1>4. ASSUME q = "main_quest_lv2", st = "start" PROVE Fine
  <2>1. Len(triggers) = 0 /\ DOMAIN triggers = 1 .. 0
    BY <1>4, Documents DEF StateDoc, Lv2, Doc, Silent
  <2>2. m = 1 /\ m * 0 <= Turn(q)  BY <1>4 DEF Ending, Turn
  <2>3. \A i \in 1 .. Len(triggers) : Short(q, triggers[i].ops, m)
    <3> HIDE DEF triggers, m
    <3> QED BY <2>1, <2>2
  <2> HIDE DEF triggers, m
  <2> QED BY <2>1, <2>2, <2>3 DEF IsList
<1>5. ASSUME q = "main_quest_lv2", st = "run" PROVE Fine
  <2>1. Len(triggers) = 3 /\ DOMAIN triggers = 1 .. 3
    BY <1>5, Documents DEF StateDoc, Lv2, Doc, Silent
  <2>2. m = 1 /\ m * 3 <= Turn(q)  BY <1>5 DEF Ending, Turn
  <2>3. triggers[1].ops = <<SetState("gototeacher")>>
    BY <1>5, Documents DEF StateDoc, Lv2, Doc, When
  <2>4. triggers[2].ops = <<SetState("gototeacher")>>
    BY <1>5, Documents DEF StateDoc, Lv2, Doc, When
  <2>5. triggers[3].ops = <<Say>>  BY <1>5, Documents DEF StateDoc, Lv2, Doc, When
  <2>6. Short(q, triggers[1].ops, m)
    <3>1. "gototeacher" \in StateName(q)  BY <1>5, States
    <3> HIDE DEF triggers, m
    <3> QED BY <2>2, <2>3, <3>1, ShortLists
  <2>7. Short(q, triggers[2].ops, m)
    <3>1. "gototeacher" \in StateName(q)  BY <1>5, States
    <3> HIDE DEF triggers, m
    <3> QED BY <2>2, <2>4, <3>1, ShortLists
  <2>8. Short(q, triggers[3].ops, m)
    <3>1. "start" \in StateName(q)  BY <1>5, States
    <3> HIDE DEF triggers, m
    <3> QED BY <2>2, <2>5, <3>1, ShortLists
  <2>9. \A i \in 1 .. Len(triggers) : Short(q, triggers[i].ops, m)
    <3> HIDE DEF triggers, m
    <3> QED BY <2>1, <2>2, <2>6, <2>7, <2>8
  <2> HIDE DEF triggers, m
  <2> QED BY <2>1, <2>2, <2>9 DEF IsList
<1>6. ASSUME q = "main_quest_lv2", st = "gototeacher" PROVE Fine
  <2>1. Len(triggers) = 1 /\ DOMAIN triggers = 1 .. 1
    BY <1>6, Documents DEF StateDoc, Lv2, Doc, Silent
  <2>2. m = 1 /\ m * 1 <= Turn(q)  BY <1>6 DEF Ending, Turn
  <2>3. triggers[1].ops = <<Say, SetState("killdog")>>
    BY <1>6, Documents DEF StateDoc, Lv2, Doc, When
  <2>4. Short(q, triggers[1].ops, m)
    <3>1. "killdog" \in StateName(q)  BY <1>6, States
    <3> HIDE DEF triggers, m
    <3> QED BY <2>2, <2>3, <3>1, ShortLists
  <2>5. \A i \in 1 .. Len(triggers) : Short(q, triggers[i].ops, m)
    <3> HIDE DEF triggers, m
    <3> QED BY <2>1, <2>2, <2>4
  <2> HIDE DEF triggers, m
  <2> QED BY <2>1, <2>2, <2>5 DEF IsList
<1>7. ASSUME q = "main_quest_lv2", st = "gototeacher2" PROVE Fine
  <2>1. Len(triggers) = 1 /\ DOMAIN triggers = 1 .. 1
    BY <1>7, Documents DEF StateDoc, Lv2, Doc, Silent
  <2>2. m = 2 /\ m * 1 <= Turn(q)  BY <1>7 DEF Ending, Turn
  <2>3. triggers[1].ops = PayAndComplete("main_quest_lv3")
    BY <1>7, Documents DEF StateDoc, Lv2, Doc, When, PayAndComplete
  <2>4. Short(q, triggers[1].ops, m)
    <3>1. COMPLETE \in StateName(q)  BY <1>7, States
    <3>2. SetQuestState("main_quest_lv3", "run") \in Unlocks  BY DEF Unlocks
    <3>3. PayAndComplete("main_quest_lv3") = <<Say, Give("exp"), Give("money"), Give("item"), ClearLetter,
            SetState(COMPLETE), SetQuestState("main_quest_lv3", "run")>>
      BY DEF PayAndComplete
    <3> HIDE DEF triggers, m
    <3> QED BY <2>2, <2>3, <3>1, <3>2, <3>3, ShortLists
  <2>5. \A i \in 1 .. Len(triggers) : Short(q, triggers[i].ops, m)
    <3> HIDE DEF triggers, m
    <3> QED BY <2>1, <2>2, <2>4
  <2> HIDE DEF triggers, m
  <2> QED BY <2>1, <2>2, <2>5 DEF IsList
<1>8. ASSUME q = "main_quest_lv3", st = "start" PROVE Fine
  <2>1. Len(triggers) = 0 /\ DOMAIN triggers = 1 .. 0
    BY <1>8, Documents DEF StateDoc, Lv3, Doc, Silent
  <2>2. m = 1 /\ m * 0 <= Turn(q)  BY <1>8 DEF Ending, Turn
  <2>3. \A i \in 1 .. Len(triggers) : Short(q, triggers[i].ops, m)
    <3> HIDE DEF triggers, m
    <3> QED BY <2>1, <2>2
  <2> HIDE DEF triggers, m
  <2> QED BY <2>1, <2>2, <2>3 DEF IsList
<1>9. ASSUME q = "main_quest_lv3", st = "run" PROVE Fine
  <2>1. Len(triggers) = 3 /\ DOMAIN triggers = 1 .. 3
    BY <1>9, Documents DEF StateDoc, Lv3, Doc, Silent
  <2>2. m = 1 /\ m * 3 <= Turn(q)  BY <1>9 DEF Ending, Turn
  <2>3. triggers[1].ops = <<SetState("gototeacher")>>
    BY <1>9, Documents DEF StateDoc, Lv3, Doc, When
  <2>4. triggers[2].ops = <<SetState("gototeacher")>>
    BY <1>9, Documents DEF StateDoc, Lv3, Doc, When
  <2>5. triggers[3].ops = <<Say>>  BY <1>9, Documents DEF StateDoc, Lv3, Doc, When
  <2>6. Short(q, triggers[1].ops, m)
    <3>1. "gototeacher" \in StateName(q)  BY <1>9, States
    <3> HIDE DEF triggers, m
    <3> QED BY <2>2, <2>3, <3>1, ShortLists
  <2>7. Short(q, triggers[2].ops, m)
    <3>1. "gototeacher" \in StateName(q)  BY <1>9, States
    <3> HIDE DEF triggers, m
    <3> QED BY <2>2, <2>4, <3>1, ShortLists
  <2>8. Short(q, triggers[3].ops, m)
    <3>1. "start" \in StateName(q)  BY <1>9, States
    <3> HIDE DEF triggers, m
    <3> QED BY <2>2, <2>5, <3>1, ShortLists
  <2>9. \A i \in 1 .. Len(triggers) : Short(q, triggers[i].ops, m)
    <3> HIDE DEF triggers, m
    <3> QED BY <2>1, <2>2, <2>6, <2>7, <2>8
  <2> HIDE DEF triggers, m
  <2> QED BY <2>1, <2>2, <2>9 DEF IsList
<1>10. ASSUME q = "main_quest_lv3", st = "gototeacher" PROVE Fine
  <2>1. Len(triggers) = 1 /\ DOMAIN triggers = 1 .. 1
    BY <1>10, Documents DEF StateDoc, Lv3, Doc, Silent
  <2>2. m = 1 /\ m * 1 <= Turn(q)  BY <1>10 DEF Ending, Turn
  <2>3. triggers[1].ops = <<Say, SetState("gotogood")>>
    BY <1>10, Documents DEF StateDoc, Lv3, Doc, When
  <2>4. Short(q, triggers[1].ops, m)
    <3>1. "gotogood" \in StateName(q)  BY <1>10, States
    <3> HIDE DEF triggers, m
    <3> QED BY <2>2, <2>3, <3>1, ShortLists
  <2>5. \A i \in 1 .. Len(triggers) : Short(q, triggers[i].ops, m)
    <3> HIDE DEF triggers, m
    <3> QED BY <2>1, <2>2, <2>4
  <2> HIDE DEF triggers, m
  <2> QED BY <2>1, <2>2, <2>5 DEF IsList
<1>11. ASSUME q = "main_quest_lv3", st = "gotogood" PROVE Fine
  <2>1. Len(triggers) = 1 /\ DOMAIN triggers = 1 .. 1
    BY <1>11, Documents DEF StateDoc, Lv3, Doc, Silent
  <2>2. m = 1 /\ m * 1 <= Turn(q)  BY <1>11 DEF Ending, Turn
  <2>3. triggers[1].ops = <<Say, SetState("gotodefend")>>
    BY <1>11, Documents DEF StateDoc, Lv3, Doc, When
  <2>4. Short(q, triggers[1].ops, m)
    <3>1. "gotodefend" \in StateName(q)  BY <1>11, States
    <3> HIDE DEF triggers, m
    <3> QED BY <2>2, <2>3, <3>1, ShortLists
  <2>5. \A i \in 1 .. Len(triggers) : Short(q, triggers[i].ops, m)
    <3> HIDE DEF triggers, m
    <3> QED BY <2>1, <2>2, <2>4
  <2> HIDE DEF triggers, m
  <2> QED BY <2>1, <2>2, <2>5 DEF IsList
<1>12. ASSUME q = "main_quest_lv3", st = "gotodefend" PROVE Fine
  <2>1. Len(triggers) = 1 /\ DOMAIN triggers = 1 .. 1
    BY <1>12, Documents DEF StateDoc, Lv3, Doc, Silent
  <2>2. m = 2 /\ m * 1 <= Turn(q)  BY <1>12 DEF Ending, Turn
  <2>3. triggers[1].ops = PayAndComplete("main_quest_lv6")
    BY <1>12, Documents DEF StateDoc, Lv3, Doc, When, PayAndComplete
  <2>4. Short(q, triggers[1].ops, m)
    <3>1. COMPLETE \in StateName(q)  BY <1>12, States
    <3>2. SetQuestState("main_quest_lv6", "run") \in Unlocks  BY DEF Unlocks
    <3>3. PayAndComplete("main_quest_lv6") = <<Say, Give("exp"), Give("money"), Give("item"), ClearLetter,
            SetState(COMPLETE), SetQuestState("main_quest_lv6", "run")>>
      BY DEF PayAndComplete
    <3> HIDE DEF triggers, m
    <3> QED BY <2>2, <2>3, <3>1, <3>2, <3>3, ShortLists
  <2>5. \A i \in 1 .. Len(triggers) : Short(q, triggers[i].ops, m)
    <3> HIDE DEF triggers, m
    <3> QED BY <2>1, <2>2, <2>4
  <2> HIDE DEF triggers, m
  <2> QED BY <2>1, <2>2, <2>5 DEF IsList
<1>13. ASSUME q = "find_squareguard", st = "start" PROVE Fine
  <2>1. Len(triggers) = 0 /\ DOMAIN triggers = 1 .. 0
    BY <1>13, Documents DEF StateDoc, Squareguard, Doc, Silent
  <2>2. m = 1 /\ m * 0 <= Turn(q)  BY <1>13 DEF Ending, Turn
  <2>3. \A i \in 1 .. Len(triggers) : Short(q, triggers[i].ops, m)
    <3> HIDE DEF triggers, m
    <3> QED BY <2>1, <2>2
  <2> HIDE DEF triggers, m
  <2> QED BY <2>1, <2>2, <2>3 DEF IsList
<1>14. ASSUME q = "find_squareguard", st = "run" PROVE Fine
  <2>1. Len(triggers) = 1 /\ DOMAIN triggers = 1 .. 1
    BY <1>14, Documents DEF StateDoc, Squareguard, Doc, Silent
  <2>2. m = 1 /\ m * 1 <= Turn(q)  BY <1>14 DEF Ending, Turn
  <2>3. triggers[1].ops = <<SetState("find")>>
    BY <1>14, Documents DEF StateDoc, Squareguard, Doc, When
  <2>4. Short(q, triggers[1].ops, m)
    <3>1. "find" \in StateName(q)  BY <1>14, States
    <3> HIDE DEF triggers, m
    <3> QED BY <2>2, <2>3, <3>1, ShortLists
  <2>5. \A i \in 1 .. Len(triggers) : Short(q, triggers[i].ops, m)
    <3> HIDE DEF triggers, m
    <3> QED BY <2>1, <2>2, <2>4
  <2> HIDE DEF triggers, m
  <2> QED BY <2>1, <2>2, <2>5 DEF IsList
<1>15. ASSUME q = "find_squareguard", st = "find" PROVE Fine
  <2>1. Len(triggers) = 1 /\ DOMAIN triggers = 1 .. 1
    BY <1>15, Documents DEF StateDoc, Squareguard, Doc, Silent
  <2>2. m = 1 /\ m * 1 <= Turn(q)  BY <1>15 DEF Ending, Turn
  <2>3. triggers[1].ops = <<Say, Ask(BuyBranches)>>
    BY <1>15, Documents DEF StateDoc, Squareguard, Doc, When, BuyBranches
  <2>4. Short(q, triggers[1].ops, m)
    <3>1. "start" \in StateName(q)  BY <1>15, States
    <3> HIDE DEF triggers, m
    <3> QED BY <2>2, <2>3, <3>1, ShortLists
  <2>5. \A i \in 1 .. Len(triggers) : Short(q, triggers[i].ops, m)
    <3> HIDE DEF triggers, m
    <3> QED BY <2>1, <2>2, <2>4
  <2> HIDE DEF triggers, m
  <2> QED BY <2>1, <2>2, <2>5 DEF IsList
<1>16. ASSUME q = "find_squareguard", st = "buy" PROVE Fine
  <2>1. Len(triggers) = 2 /\ DOMAIN triggers = 1 .. 2
    BY <1>16, Documents DEF StateDoc, Squareguard, Doc, Silent
  <2>2. m = 1 /\ m * 2 <= Turn(q)  BY <1>16 DEF Ending, Turn
  <2>3. triggers[1].ops = <<Say>>
    BY <1>16, Documents DEF StateDoc, Squareguard, Doc, When
  <2>4. triggers[2].ops = <<Say, Give("item"), SetState("deliver")>>
    BY <1>16, Documents DEF StateDoc, Squareguard, Doc, When
  <2>5. Short(q, triggers[1].ops, m)
    <3>1. "start" \in StateName(q)  BY <1>16, States
    <3> HIDE DEF triggers, m
    <3> QED BY <2>2, <2>3, <3>1, ShortLists
  <2>6. Short(q, triggers[2].ops, m)
    <3>1. "deliver" \in StateName(q)  BY <1>16, States
    <3> HIDE DEF triggers, m
    <3> QED BY <2>2, <2>4, <3>1, ShortLists
  <2>7. \A i \in 1 .. Len(triggers) : Short(q, triggers[i].ops, m)
    <3> HIDE DEF triggers, m
    <3> QED BY <2>1, <2>2, <2>5, <2>6
  <2> HIDE DEF triggers, m
  <2> QED BY <2>1, <2>2, <2>7 DEF IsList
<1>17. ASSUME q = "find_squareguard", st = "deliver" PROVE Fine
  <2>1. Len(triggers) = 2 /\ DOMAIN triggers = 1 .. 2
    BY <1>17, Documents DEF StateDoc, Squareguard, Doc, Silent
  <2>2. m = 1 /\ m * 2 <= Turn(q)  BY <1>17 DEF Ending, Turn
  <2>3. triggers[1].ops = <<Say, ClearLetter, SetState(COMPLETE)>>
    BY <1>17, Documents DEF StateDoc, Squareguard, Doc, When
  <2>4. triggers[2].ops = <<Say, RemoveItem, Give("random"), ClearLetter, SetState(COMPLETE)>>
    BY <1>17, Documents DEF StateDoc, Squareguard, Doc, When
  <2>5. Short(q, triggers[1].ops, m)
    <3>1. COMPLETE \in StateName(q)  BY <1>17, States
    <3> HIDE DEF triggers, m
    <3> QED BY <2>2, <2>3, <3>1, ShortLists
  <2>6. Short(q, triggers[2].ops, m)
    <3>1. COMPLETE \in StateName(q)  BY <1>17, States
    <3> HIDE DEF triggers, m
    <3> QED BY <2>2, <2>4, <3>1, ShortLists
  <2>7. \A i \in 1 .. Len(triggers) : Short(q, triggers[i].ops, m)
    <3> HIDE DEF triggers, m
    <3> QED BY <2>1, <2>2, <2>5, <2>6
  <2> HIDE DEF triggers, m
  <2> QED BY <2>1, <2>2, <2>7 DEF IsList
<1> HIDE DEF Fine
<1>18. Fine
  BY <1>1, <1>2, <1>3, <1>4, <1>5, <1>6, <1>7, <1>8, <1>9, <1>10, <1>11, <1>12, <1>13, <1>14, <1>15, <1>16, <1>17, Quests, States
<1> QED BY <1>18 DEF Fine

\* The marks of a trigger that fires.
LEMMA FiredRows ==
    ASSUME NEW v \in Rows, NEW q \in QuestId, NEW i \in Nat, NEW u, u = Fired(v, q, i)
    PROVE  /\ u \in Rows /\ u.quest = v.quest /\ u.tracker = v.tracker /\ u.queue = v.queue
           /\ u.err = v.err
<1>1. v \in Written  BY DEF Rows
<1> DEFINE s == v.fired \cup {<<q, i>>}
<1>2. s \in SUBSET (QuestId \X Nat)  BY <1>1 DEF Written
<1>3. u = [v EXCEPT !.fired = s, !.progressed = TRUE]  BY DEF Fired
<1> HIDE DEF s
<1>4. /\ u \in Written /\ u.quest = v.quest /\ u.tracker = v.tracker /\ u.queue = v.queue
      /\ u.err = v.err
  BY <1>1, <1>2, <1>3 DEF Written
<1> QED BY <1>4, OtherWrites

\* A turn of a quest that is not hunting.
LEMMA TurnDelivers ==
    ASSUME NEW before \in BOOLEAN, NEW w \in Rows, NEW q \in QuestId,
           before \/ q # "main_quest_lv2", Follows(before, w),
           w.quest[q] \notin {Nothing, COMPLETE, "killdog"},
           NEW event, NEW vnum \in Vnum, NEW lvl, NEW env \in World,
           NEW u, u = DeliverTo(w, q, event, vnum, lvl, env)
    PROVE  u \in Rows /\ Follows(before, u) /\ Len(u.queue) <= Len(w.queue) + Turn(q)
<1> DEFINE triggers == StateDoc(q, w.quest[q]).triggers
           n == Len(triggers)
           m == Ending(q, w.quest[q])
           G(k) == {v \in Rows : Follows(before, v) /\ Len(v.queue) <= Len(w.queue) + m * k}
           F == [k \in 0 .. n |-> G(k)]
<1>1. w.quest[q] \in StateName(q)  BY WrittenRows DEF Rows, QuestRows
<1>2. /\ IsList(triggers) /\ m \in 1 .. 3 /\ m * n <= Turn(q)
      /\ \A i \in 1 .. n : Short(q, triggers[i].ops, m)
  BY <1>1, TurnTriggers
<1>3. n \in Nat /\ Len(w.queue) \in Nat /\ Turn(q) \in Nat
  BY <1>2, WrittenRows DEF IsList, Rows, Turn
<1>4. triggers = StateDoc(q, w.quest[q]).triggers
  OBVIOUS
<1> HIDE DEF triggers, m
<1>5. \A k \in Nat : m * k \in Nat /\ m * (k + 1) = m * k + m
  <2>1. m = 1 \/ m = 2 \/ m = 3  BY <1>2
  <2> QED BY <2>1
<1>6. w \in F[0]
  <2>1. m * 0 = 0  BY <1>2
  <2>2. w \in G(0)  BY <1>3, <2>1
  <2> HIDE DEF G
  <2> QED BY <1>3, <2>2
<1>7. \A k \in 1 .. n : \A v \in F[k - 1] :
        TryTrigger(v, q, k, triggers[k], event, vnum, lvl, env) \in F[k]
  <2> TAKE k \in 1 .. n
  <2> TAKE v \in F[k - 1]
  <2> DEFINE x == Fired(v, q, k)
             y == RunOps(x, q, triggers[k].ops, vnum, env)
  <2>1. v \in G(k - 1) /\ k - 1 \in Nat /\ k \in Nat
    <3> HIDE DEF G
    <3> QED BY <1>3
  <2>2. v \in Rows /\ Follows(before, v) /\ Len(v.queue) <= Len(w.queue) + m * (k - 1)
        /\ Len(v.queue) \in Nat
    BY <2>1, WrittenRows DEF Rows
  <2>3. x \in Rows /\ x.quest = v.quest /\ x.tracker = v.tracker /\ x.queue = v.queue
    BY <2>1, <2>2, FiredRows
  <2>4. Follows(before, x)
    <3> HIDE DEF x
    <3> QED BY <2>2, <2>3, SameFollows
  <2>5. y \in Rows /\ Follows(before, y) /\ Len(y.queue) <= Len(x.queue) + m
    <3>1. /\ IsList(triggers[k].ops)
          /\ \A j \in 1 .. Len(triggers[k].ops) : triggers[k].ops[j] \in TurnOps(q)
          /\ \A j \in 1 .. Len(triggers[k].ops) :
               j + m <= Len(triggers[k].ops) => triggers[k].ops[j] \in Plain
      BY <1>2 DEF Short
    <3>2. m \in Nat  BY <1>2
    <3> HIDE DEF x
    <3> QED BY <2>3, <2>4, <3>1, <3>2, TurnRuns
  <2>6. m * k = m * (k - 1) + m /\ m * (k - 1) \in Nat /\ m * k \in Nat /\ m \in Nat
    <3>1. (k - 1) + 1 = k  BY <2>1
    <3> QED BY <1>2, <1>5, <2>1, <3>1
  <2>7. y \in G(k)
    <3>1. Len(y.queue) \in Nat  BY <2>5, WrittenRows DEF Rows
    <3> HIDE DEF x, y
    <3>2. Len(y.queue) <= Len(w.queue) + m * k
      <4>1. \A a, b, c, d, e \in Nat : a <= b + d /\ b <= c + e => a <= c + (e + d)
        OBVIOUS
      <4> QED BY <1>3, <2>2, <2>3, <2>5, <2>6, <3>1, <4>1
    <3> QED BY <2>5, <3>2
  <2>8. v \in G(k)
    <3>1. Len(v.queue) <= Len(w.queue) + m * k
      <4>1. \A a, b, c, d \in Nat : a <= b + c => a <= b + (c + d)
        OBVIOUS
      <4> QED BY <1>3, <2>2, <2>6, <4>1
    <3> QED BY <2>2, <3>1
  <2> HIDE DEF G, x, y
  <2>9. TryTrigger(v, q, k, triggers[k], event, vnum, lvl, env) \in G(k)
    BY <2>7, <2>8, TrialWithin DEF x, y
  <2> QED BY <1>3, <2>9
<1>8. u \in F[n]
  <2>1. w.quest[q] \notin {Nothing, COMPLETE}
    OBVIOUS
  <2> HIDE DEF F
  <2> QED BY <1>2, <1>4, <1>6, <1>7, <2>1, DeliveryWithin
<1>9. u \in G(n)
  <2> HIDE DEF G
  <2> QED BY <1>3, <1>8
<1>10. m * n \in Nat  BY <1>3, <1>5
<1>11. Len(u.queue) \in Nat  BY <1>9, WrittenRows DEF Rows
<1> HIDE DEF n
<1>12. \A a, b, c, d \in Nat : a <= b + c /\ c <= d => a <= b + d
  OBVIOUS
<1> QED BY <1>2, <1>3, <1>9, <1>10, <1>11, <1>12

-----------------------------------------------------------------------------
(* The turn of the hunt                                                      *)

\* The hunt goes on, or its end has been queued.
Hunting(v) ==
    /\ v \in Rows
    /\ \/ v.quest["main_quest_lv2"] = "killdog"
       \/ v.quest["main_quest_lv2"] = "gototeacher2" /\ Pending(v)

\* The move that ends the hunt.
LEMMA HuntOver ==
    ASSUME NEW v, Hunting(v), NEW npc, NEW env,
           NEW u, u = Perform(v, "main_quest_lv2", SetState("gototeacher2"), npc, env)
    PROVE  Hunting(u) /\ Follows(FALSE, u) /\ Len(u.queue) <= Len(v.queue) + 1 /\ u.err = v.err
<1> DEFINE q == "main_quest_lv2"
<1>1. v \in Rows /\ v \in Written /\ q \in QuestId /\ "gototeacher2" \in StateName(q)
  BY Quests, States DEF Hunting, Rows
<1>2. v.queue \in Seq(Due) /\ Len(v.queue) \in Nat  BY <1>1, WrittenRows
<1>3. u = IF v.quest[q] = "gototeacher2" THEN v ELSE MovedTo(v, q, "gototeacher2")
  BY DEF Perform, SetState, Do
<1>4. CASE v.quest[q] = "gototeacher2"
  <2>1. u = v  BY <1>3, <1>4
  <2> QED BY <1>2, <1>4, <2>1 DEF Hunting, Follows
<1>5. CASE v.quest[q] # "gototeacher2"
  <2>1. u = MovedTo(v, q, "gototeacher2")  BY <1>3, <1>5
  <2>2. /\ u \in Rows /\ u.quest[q] = "gototeacher2"
        /\ u.queue = Append(v.queue, <<q, "gototeacher2">>) /\ u.err = v.err
    BY <1>1, <2>1, MoveWrites
  <2>3. /\ Len(u.queue) = Len(v.queue) + 1
        /\ u.queue[Len(v.queue) + 1] = <<q, "gototeacher2">>
    BY <1>2, <2>2
  <2>4. Pending(u)
    <3>1. Len(v.queue) + 1 \in 1 .. Len(u.queue)  BY <1>2, <2>3
    <3> QED BY <2>2, <2>3, <3>1 DEF Pending
  <2> QED BY <1>2, <2>2, <2>3, <2>4 DEF Hunting, Follows
<1> QED BY <1>4, <1>5

\* What leaves states and objectives alone leaves the hunt alone.
LEMMA KeptHunting ==
    ASSUME NEW v, NEW u, Kept(v, u), Hunting(v)
    PROVE  Hunting(u)
  BY DEF Kept, Hunting, Pending

\* A kill counted: short of the total it shows, at the total the hunt is over.
LEMMA CountWrites ==
    ASSUME NEW v, Hunting(v), ~v.err, Follows(FALSE, v), NEW npc \in Vnum, NEW env \in World,
           NEW arg, arg = [total |-> Dogs, on_reached |-> <<Say, SetState("gototeacher2")>>],
           NEW u, u = Counted(v, "main_quest_lv2", arg, npc, env)
    PROVE  Hunting(u) /\ Follows(FALSE, u) /\ Len(u.queue) <= Len(v.queue) + 1
<1> DEFINE q == "main_quest_lv2"
           before == IF v.tracker[q].amount < Dogs THEN v.tracker[q].amount ELSE Dogs
           current == IF before < Dogs THEN before + 1 ELSE Dogs
           t == [v.tracker[q] EXCEPT !.amount = current, !.total = Dogs]
           c == WithRow(v, q, t)
           then == <<Say, SetState("gototeacher2")>>
<1>1. v \in Rows /\ v \in Written /\ q \in QuestId  BY Quests DEF Hunting, Rows
<1>2. v.tracker[q] \in Tracker /\ v.tracker[q].amount \in 0 .. Dogs /\ Len(v.queue) \in Nat
  BY <1>1, WrittenRows
<1>3. current \in 0 .. Dogs /\ (current # Dogs => current < Dogs) /\ Dogs \in Nat /\ Dogs > 0
  BY <1>2, QuestAssumption
<1>4. t \in Tracker /\ t.amount = current /\ t.total = Dogs
  <2> HIDE DEF current
  <2> QED BY <1>2, <1>3 DEF Tracker
<1>5. v.quest[q] \notin {Nothing, COMPLETE}
  <2>1. "killdog" \in StateName(q) /\ "gototeacher2" \in StateName(q)  BY States
  <2> QED BY <2>1, <1>1, QuestAssumption DEF Hunting, COMPLETE
<1>6. u = IF Reached(current, Dogs) THEN RunFlat(c, q, then, npc, env) ELSE c
  <2>1. arg.total = Dogs /\ arg.on_reached = then
    OBVIOUS
  <2>2. c = [v EXCEPT !.tracker[q].amount = current, !.tracker[q].total = Dogs]
    BY <1>1 DEF WithRow, Written
  <2> HIDE DEF c, then
  <2> QED BY <2>1, <2>2 DEF Counted
<1> HIDE DEF t, current
<1>7. /\ c \in Rows /\ c.quest = v.quest /\ c.queue = v.queue /\ c.err = v.err
      /\ c.tracker[q] = t
  <2>1. c = WithRow(v, q, t)
    OBVIOUS
  <2> HIDE DEF c
  <2> QED BY <1>1, <1>4, <1>5, <2>1, TrackerWrites
<1> HIDE DEF c
<1>8. Hunting(c)  BY <1>7 DEF Hunting, Pending
<1>9. CASE ~Reached(current, Dogs)
  <2>1. u = c /\ current < Dogs  BY <1>3, <1>6, <1>9 DEF Reached
  <2>2. Follows(FALSE, c)
    <3>1. c.quest[q] = "killdog" => Clean(c)  BY <1>4, <1>7, <2>1 DEF Clean
    <3>2. c.quest[q] # "killdog" => Pending(c)  BY <1>8 DEF Hunting
    <3> QED BY <3>1, <3>2 DEF Follows
  <2>3. Hunting(u) /\ Follows(FALSE, u)  BY <1>8, <2>1, <2>2, Zenon
  <2>4. Len(u.queue) <= Len(v.queue) + 1  BY <1>2, <1>7, <2>1
  <2> QED BY <2>3, <2>4, Zenon
<1>10. CASE Reached(current, Dogs)
  <2> DEFINE G == {y \in Rows : Hunting(y) /\ ~y.err /\ y.queue = v.queue}
             H == {y \in Rows : Hunting(y) /\ Follows(FALSE, y) /\ Len(y.queue) <= Len(v.queue) + 1}
             F == [k \in 0 .. 2 |-> IF k = 2 THEN H ELSE G]
  <2>1. c \in F[0]  BY <1>7, <1>8
  <2>2. \A y \in G : Flat(y, q, Say, npc, env) \in G
    <3> TAKE y \in G
    <3> DEFINE x == Perform(y, q, Say, npc, env)
    <3>1. Say \in Plain  BY DEF Plain
    <3>2. Kept(y, x) /\ x.err = y.err  BY <1>1, <3>1, PlainWrites
    <3>3. Hunting(x)  BY <3>2, KeptHunting
    <3>4. Flat(y, q, Say, npc, env) = x  BY DEF Flat
    <3> HIDE DEF x
    <3> QED BY <3>2, <3>3, <3>4 DEF Kept
  <2>3. \A y \in G : Flat(y, q, SetState("gototeacher2"), npc, env) \in H
    <3> TAKE y \in G
    <3> DEFINE x == Perform(y, q, SetState("gototeacher2"), npc, env)
    <3>1. Hunting(x) /\ Follows(FALSE, x) /\ Len(x.queue) <= Len(y.queue) + 1
      BY HuntOver
    <3>2. Flat(y, q, SetState("gototeacher2"), npc, env) = x  BY DEF Flat
    <3> HIDE DEF x
    <3> QED BY <3>1, <3>2 DEF Hunting
  <2>4. Len(then) = 2 /\ then[1] = Say /\ then[2] = SetState("gototeacher2")
    OBVIOUS
  <2>5. \A k \in 1 .. Len(then) : \A y \in F[k - 1] : Flat(y, q, then[k], npc, env) \in F[k]
    <3> HIDE DEF G, H, then
    <3> QED BY <2>2, <2>3, <2>4
  <2>6. F[Len(then)] = H  BY <2>4
  <2> HIDE DEF F, then
  <2>7. RunFlat(c, q, then, npc, env) \in F[Len(then)]
    <3>1. Len(then) \in Nat  BY <2>4
    <3> QED BY <2>1, <2>5, <3>1, FlatRunWithin
  <2> QED BY <1>6, <1>10, <2>6, <2>7
<1> QED BY <1>9, <1>10

\* The lists that the hunt's triggers run.
HuntLists ==
    {<<Count(Dogs, <<Say, SetState("gototeacher2")>>)>>, <<Say>>, <<Say, Ask(DogBranches)>>,
     <<Say, SetState("gototeacher2")>>}

HuntLast == {Count(Dogs, <<Say, SetState("gototeacher2")>>), Say, Ask(DogBranches),
             SetState("gototeacher2")}

\* In a list of the hunt only the last operation does more than speak.
LEMMA HuntShort ==
    ASSUME NEW ops \in HuntLists
    PROVE  /\ IsList(ops) /\ Len(ops) > 0 /\ \A k \in 1 .. Len(ops) : ops[k] \in HuntLast
           /\ \A k \in 1 .. Len(ops) : k < Len(ops) => ops[k] = Say
<1>1. CASE ops = <<Count(Dogs, <<Say, SetState("gototeacher2")>>)>>
  BY <1>1 DEF HuntLast, IsList
<1>2. CASE ops = <<Say>>  BY <1>2 DEF HuntLast, IsList
<1>3. CASE ops = <<Say, Ask(DogBranches)>>  BY <1>3 DEF HuntLast, IsList
<1>4. CASE ops = <<Say, SetState("gototeacher2")>>  BY <1>4 DEF HuntLast, IsList
<1> QED BY <1>1, <1>2, <1>3, <1>4 DEF HuntLists

\* One operation of the hunt.
LEMMA HuntWrites ==
    ASSUME NEW v, Hunting(v), Follows(FALSE, v), NEW op \in HuntLast, NEW npc \in Vnum,
           NEW env \in World, NEW u, u = RunOp(v, "main_quest_lv2", op, npc, env)
    PROVE  /\ Hunting(u) /\ Follows(FALSE, u) /\ Len(u.queue) <= Len(v.queue) + 1
           /\ op = Say => Len(u.queue) <= Len(v.queue)
<1> DEFINE q == "main_quest_lv2"
           arg == [total |-> Dogs, on_reached |-> <<Say, SetState("gototeacher2")>>]
           x == Perform(v, q, op, npc, env)
<1>1. v \in Rows /\ q \in QuestId /\ Len(v.queue) \in Nat
  BY Quests, WrittenRows DEF Hunting, Rows
<1>2. CASE v.err
  <2>1. u = v  BY <1>2 DEF RunOp
  <2>2. Len(v.queue) <= Len(v.queue) + 1 /\ Len(v.queue) <= Len(v.queue)  BY <1>1
  <2> QED BY <2>1, <2>2
<1>3. CASE ~v.err /\ op = Count(Dogs, <<Say, SetState("gototeacher2")>>)
  <2>1. op.op = "count" /\ op.arg = arg /\ op # Say  BY <1>3 DEF Count, Say, Do
  <2>2. u = Counted(v, q, arg, npc, env)  BY <1>3, <2>1 DEF RunOp
  <2> HIDE DEF arg
  <2>3. arg = [total |-> Dogs, on_reached |-> <<Say, SetState("gototeacher2")>>]
    BY DEF arg
  <2>4. Hunting(u) /\ Follows(FALSE, u) /\ Len(u.queue) <= Len(v.queue) + 1
    BY <1>3, <2>2, <2>3, CountWrites
  <2> QED BY <2>1, <2>4
<1>4. CASE ~v.err /\ op \in {Say, Ask(DogBranches)}
  <2>1. op \in Plain /\ op.op # "count"
    <3>1. op \in Plain  BY <1>4 DEF Plain
    <3>2. Say.op # "count" /\ Ask(DogBranches).op # "count"  BY DEF Say, Ask, Do
    <3> QED BY <1>4, <3>1, <3>2
  <2>2. u = x  BY <1>4, <2>1 DEF RunOp
  <2>3. Kept(v, x)  BY <1>1, <2>1, PlainWrites
  <2>4. Hunting(x)  BY <2>3, KeptHunting
  <2>5. Follows(FALSE, x)  BY <2>3, KeptFollows
  <2> HIDE DEF x
  <2>6. Len(u.queue) <= Len(v.queue) + 1 /\ Len(u.queue) <= Len(v.queue)
    BY <1>1, <2>2, <2>3 DEF Kept
  <2>7. Hunting(u) /\ Follows(FALSE, u)  BY <2>2, <2>4, <2>5, Zenon
  <2> QED BY <2>6, <2>7, Zenon
<1>5. CASE ~v.err /\ op = SetState("gototeacher2")
  <2>1. op.op # "count" /\ op # Say  BY <1>5 DEF SetState, Say, Do
  <2>2. u = Perform(v, q, SetState("gototeacher2"), npc, env)  BY <1>5, <2>1 DEF RunOp
  <2>3. Hunting(u) /\ Follows(FALSE, u) /\ Len(u.queue) <= Len(v.queue) + 1
    BY <2>2, HuntOver
  <2> QED BY <2>1, <2>3
<1> QED BY <1>2, <1>3, <1>4, <1>5 DEF HuntLast

\* A list of the hunt.
LEMMA HuntRuns ==
    ASSUME NEW w, Hunting(w), Follows(FALSE, w), NEW ops \in HuntLists, NEW npc \in Vnum,
           NEW env \in World, NEW u, u = RunOps(w, "main_quest_lv2", ops, npc, env)
    PROVE  Hunting(u) /\ Follows(FALSE, u) /\ Len(u.queue) <= Len(w.queue) + 1
<1> DEFINE q == "main_quest_lv2"
           n == Len(ops)
           G == {v \in Rows : Hunting(v) /\ Follows(FALSE, v) /\ Len(v.queue) <= Len(w.queue)}
           H == {v \in Rows : Hunting(v) /\ Follows(FALSE, v) /\ Len(v.queue) <= Len(w.queue) + 1}
           F == [k \in 0 .. n |-> IF k < n THEN G ELSE H]
<1>1. n \in Nat /\ n > 0 /\ \A k \in 1 .. n : ops[k] \in HuntLast /\ (k < n => ops[k] = Say)
  BY HuntShort DEF IsList
<1>2. w \in Rows /\ Len(w.queue) \in Nat  BY WrittenRows DEF Hunting, Rows
<1>3. w \in F[0]
  <2>1. w \in G
    <3>1. Len(w.queue) <= Len(w.queue)  BY <1>2
    <3> QED BY <1>2, <3>1, Zenon
  <2> HIDE DEF G, H
  <2> QED BY <1>1, <2>1
<1>4. \A k \in 1 .. n : \A v \in F[k - 1] : RunOp(v, q, ops[k], npc, env) \in F[k]
  <2> TAKE k \in 1 .. n
  <2> TAKE v \in F[k - 1]
  <2> DEFINE x == RunOp(v, q, ops[k], npc, env)
  <2>1. v \in G /\ ops[k] \in HuntLast
    <3> HIDE DEF G, H
    <3> QED BY <1>1
  <2>2. v \in Rows /\ Hunting(v) /\ Follows(FALSE, v) /\ Len(v.queue) <= Len(w.queue)
        /\ Len(v.queue) \in Nat
    BY <2>1, WrittenRows DEF Rows
  <2>3. /\ Hunting(x) /\ Follows(FALSE, x) /\ Len(x.queue) <= Len(v.queue) + 1
        /\ ops[k] = Say => Len(x.queue) <= Len(v.queue)
    BY <2>1, <2>2, HuntWrites
  <2>4. x \in Rows /\ Len(x.queue) \in Nat  BY <2>3, WrittenRows DEF Hunting, Rows
  <2> HIDE DEF x
  <2>5. /\ Len(x.queue) <= Len(w.queue) + 1
        /\ k < n => Len(x.queue) <= Len(w.queue)
    BY <1>1, <1>2, <2>2, <2>3, <2>4
  <2>6. x \in H /\ (k < n => x \in G)  BY <2>3, <2>4, <2>5
  <2> HIDE DEF G, H
  <2> QED BY <1>1, <2>6 DEF x
<1>5. u \in F[n]
  <2> HIDE DEF F
  <2> QED BY <1>1, <1>3, <1>4, RunWithin
<1>6. u \in H
  <2> HIDE DEF G, H
  <2> QED BY <1>1, <1>5
<1> QED BY <1>6

\* The turn of the hunt.
LEMMA HuntDelivers ==
    ASSUME NEW w \in Rows, Follows(FALSE, w), w.quest["main_quest_lv2"] = "killdog",
           NEW event, NEW vnum \in Vnum, NEW lvl, NEW env \in World,
           NEW u, u = DeliverTo(w, "main_quest_lv2", event, vnum, lvl, env)
    PROVE  u \in Rows /\ Follows(FALSE, u) /\ Len(u.queue) <= Len(w.queue) + 4
<1> DEFINE q == "main_quest_lv2"
           triggers == StateDoc(q, w.quest[q]).triggers
           G(k) == {v \in Rows : Hunting(v) /\ Follows(FALSE, v) /\ Len(v.queue) <= Len(w.queue) + k}
           F == [k \in 0 .. 4 |-> G(k)]
<1>1. Len(triggers) = 4 /\ DOMAIN triggers = 1 .. 4  BY Documents DEF StateDoc, Lv2, Doc
<1>2. /\ triggers[1].ops = <<Count(Dogs, <<Say, SetState("gototeacher2")>>)>>
      /\ triggers[2].ops = <<Say>>
  BY Documents DEF StateDoc, Lv2, Doc, When
<1>3. triggers[3].ops = <<Say, Ask(DogBranches)>>
  <2> DEFINE t == When("npc_chat", 20354, <<Say, Ask(DogBranches)>>)
  <2>1. triggers[3] = [t EXCEPT !.amount = 0 .. (Dogs - 1), !.operator = TRUE]
    BY Documents DEF StateDoc, Lv2, Doc, DogBranches
  <2>2. t.ops = <<Say, Ask(DogBranches)>>  BY DEF When
  <2>3. triggers[3].ops = t.ops
    <3> HIDE DEF t, triggers
    <3> QED BY <2>1
  <2> HIDE DEF t, triggers
  <2> QED BY <2>2, <2>3
<1>4. triggers[4].ops = <<Say, SetState("gototeacher2")>>
  BY Documents DEF StateDoc, Lv2, Doc, When
<1>5. triggers = StateDoc(q, w.quest[q]).triggers
  OBVIOUS
<1> HIDE DEF triggers
<1>6. \A k \in 1 .. 4 : triggers[k].ops \in HuntLists
  <2>1. /\ triggers[1].ops \in HuntLists /\ triggers[2].ops \in HuntLists
        /\ triggers[3].ops \in HuntLists /\ triggers[4].ops \in HuntLists
    BY <1>2, <1>3, <1>4 DEF HuntLists
  <2> QED BY <2>1
<1>7. q \in QuestId /\ w.quest[q] \notin {Nothing, COMPLETE} /\ Len(w.queue) \in Nat
  <2>1. "killdog" \in StateName(q) /\ "killdog" # COMPLETE  BY States DEF COMPLETE
  <2> QED BY <2>1, Quests, QuestAssumption, WrittenRows DEF Rows
<1>8. w \in F[0]
  <2>1. w \in G(0)
    <3>1. Len(w.queue) <= Len(w.queue) + 0  BY <1>7
    <3>2. Hunting(w)  BY DEF Hunting
    <3> QED BY <3>1, <3>2, Zenon
  <2> HIDE DEF G
  <2> QED BY <2>1
<1>9. \A k \in 1 .. 4 : \A v \in F[k - 1] :
        TryTrigger(v, q, k, triggers[k], event, vnum, lvl, env) \in F[k]
  <2> TAKE k \in 1 .. 4
  <2> TAKE v \in F[k - 1]
  <2> DEFINE x == Fired(v, q, k)
             y == RunOps(x, q, triggers[k].ops, vnum, env)
  <2>1. v \in G(k - 1) /\ k - 1 \in Nat /\ k \in Nat
    <3> HIDE DEF G
    <3> QED OBVIOUS
  <2>2. v \in Rows /\ Hunting(v) /\ Follows(FALSE, v) /\ Len(v.queue) <= Len(w.queue) + (k - 1)
        /\ Len(v.queue) \in Nat
    BY <2>1, WrittenRows DEF Rows
  <2>3. x \in Rows /\ x.quest = v.quest /\ x.tracker = v.tracker /\ x.queue = v.queue
    <3>1. x = Fired(v, q, k) /\ q \in QuestId /\ v \in Rows /\ k \in Nat
      BY <1>7, <2>1, <2>2
    <3> HIDE DEF x
    <3> QED BY <3>1, FiredRows
  <2> HIDE DEF x
  <2>4. Hunting(x) /\ Follows(FALSE, x)
    <3>1. Hunting(x)  BY <2>2, <2>3 DEF Hunting, Pending
    <3>2. Follows(FALSE, x)  BY <2>2, <2>3, SameFollows
    <3> QED BY <3>1, <3>2, Zenon
  <2>5. Hunting(y) /\ Follows(FALSE, y) /\ Len(y.queue) <= Len(x.queue) + 1
    BY <1>6, <2>4, HuntRuns
  <2> HIDE DEF y
  <2>6. y \in Rows /\ Len(y.queue) \in Nat  BY <2>5, WrittenRows DEF Hunting, Rows
  <2>7. y \in G(k)
    <3>1. Len(y.queue) <= Len(w.queue) + k  BY <1>7, <2>1, <2>2, <2>3, <2>5, <2>6
    <3> QED BY <2>5, <2>6, <3>1
  <2>8. v \in G(k)
    <3>1. Len(v.queue) <= Len(w.queue) + k  BY <1>7, <2>1, <2>2
    <3> QED BY <2>2, <3>1
  <2> HIDE DEF G
  <2>9. TryTrigger(v, q, k, triggers[k], event, vnum, lvl, env) \in G(k)
    BY <2>7, <2>8, TrialWithin DEF x, y
  <2> QED BY <2>9
<1>10. u \in F[4]
  <2>1. IsList(triggers)  BY <1>1 DEF IsList
  <2> HIDE DEF F
  <2>2. u \in F[Len(triggers)]  BY <1>1, <1>5, <1>7, <1>8, <1>9, <2>1, DeliveryWithin
  <2> QED BY <1>1, <2>2
<1>11. u \in G(4)
  <2> HIDE DEF G
  <2> QED BY <1>10
<1> QED BY <1>11

-----------------------------------------------------------------------------
(* One pass over the quests                                                  *)

\* Whether the hunt's turn is still to come or not, and whoever has it.
LEMMA AnyTurn ==
    ASSUME NEW before \in BOOLEAN, NEW w \in Rows, NEW q \in QuestId, Follows(before, w),
           q = "main_quest_lv2" => before \/ w.quest[q] = "killdog",
           NEW event, NEW vnum \in Vnum, NEW lvl, NEW env \in World,
           NEW u, u = DeliverTo(w, q, event, vnum, lvl, env)
    PROVE  /\ u \in Rows /\ Len(u.queue) <= Len(w.queue) + Turn(q)
           /\ Follows(FALSE, u) /\ (q # "main_quest_lv2" => Follows(before, u))
<1>1. Follows(FALSE, w) /\ Len(w.queue) \in Nat /\ Turn(q) \in Nat
  BY WrittenRows DEF Follows, Rows, Turn
<1>2. \A v : Follows(before, v) => Follows(FALSE, v)  BY DEF Follows
<1>3. CASE w.quest[q] \in {Nothing, COMPLETE}
  <2>1. u = w  BY <1>3 DEF DeliverTo
  <2>2. Len(w.queue) <= Len(w.queue) + Turn(q)  BY <1>1
  <2> QED BY <1>1, <2>1, <2>2, Zenon
<1>4. CASE w.quest[q] \notin {Nothing, COMPLETE, "killdog"}
  <2>1. CASE before \/ q # "main_quest_lv2"
    <3>1. u \in Rows /\ Follows(before, u) /\ Len(u.queue) <= Len(w.queue) + Turn(q)
      BY <1>4, <2>1, TurnDelivers
    <3> QED BY <1>2, <3>1, Zenon
  <2>2. CASE ~(before \/ q # "main_quest_lv2")  BY <1>4, <2>2
  <2> QED BY <2>1, <2>2
<1>5. CASE w.quest[q] = "killdog"
  <2>1. q = "main_quest_lv2"
    <3>1. w.quest[q] \in StateName(q) \cup {Nothing}  BY WrittenRows DEF Rows, QuestRows
    <3>2. "killdog" \in StateName("main_quest_lv2") /\ "killdog" # Nothing
      <4>1. "killdog" \in StateName("main_quest_lv2") /\ "main_quest_lv2" \in QuestId
        BY States, Quests
      <4> QED BY <4>1, QuestAssumption
    <3>3. "killdog" \in StateName(q)  BY <1>5, <3>1, <3>2
    <3> QED BY <3>3, Quests, States DEF COMPLETE
  <2>2. u \in Rows /\ Follows(FALSE, u) /\ Len(u.queue) <= Len(w.queue) + 4
    BY <1>1, <1>5, <2>1, HuntDelivers
  <2>3. Turn(q) = 4  BY <2>1 DEF Turn
  <2> QED BY <2>1, <2>2, <2>3
<1> QED BY <1>3, <1>4, <1>5

\* A pass leaves the objective current, or its entry due.
LEMMA AllTurns ==
    ASSUME NEW w \in Rows, Clean(w), w.queue = << >>,
           NEW event, NEW vnum \in Vnum, NEW lvl, NEW env \in World,
           NEW u, u = DeliverAll(w, event, vnum, lvl, env)
    PROVE  u \in Rows /\ Follows(FALSE, u) /\ Len(u.queue) <= 12
<1> DEFINE first(k) == k < 2
           due(k) == CASE k = 0 -> 0 [] k = 1 -> 3 [] k = 2 -> 7 [] k = 3 -> 10 [] OTHER -> 12
           G(k) == {v \in Rows : Follows(first(k), v) /\ Len(v.queue) <= due(k)}
           F == [k \in 0 .. 4 |-> G(k)]
<1>1. Len(Order) = 4 /\ \A k \in 1 .. 4 : Order[k] \in QuestId  BY DEF Order, QuestId
<1>2. w \in F[0]
  <2>1. Follows(first(0), w)  BY DEF Follows
  <2>2. Len(w.queue) <= due(0)
    OBVIOUS
  <2> HIDE DEF first, due
  <2> QED BY <2>1, <2>2
<1>3. \A k \in 1 .. Len(Order) : \A v \in F[k - 1] :
        DeliverTo(v, Order[k], event, vnum, lvl, env) \in F[k]
  <2> TAKE k \in 1 .. Len(Order)
  <2> TAKE v \in F[k - 1]
  <2> DEFINE q == Order[k]
             x == DeliverTo(v, q, event, vnum, lvl, env)
  <2>1. k \in {1, 2, 3, 4} /\ k - 1 \in 0 .. 4  BY <1>1
  <2>2. v \in G(k - 1)
    <3> HIDE DEF G
    <3> QED BY <2>1
  <2>3. v \in Rows /\ Follows(first(k - 1), v) /\ Len(v.queue) <= due(k - 1)
        /\ Len(v.queue) \in Nat
    BY <2>2, WrittenRows DEF Rows
  <2>4. /\ q \in QuestId /\ (q = "main_quest_lv2" <=> k = 2)
        /\ Turn(q) \in Nat /\ due(k - 1) \in Nat /\ due(k - 1) + Turn(q) <= due(k)
        /\ first(k - 1) \in BOOLEAN /\ first(k) \in BOOLEAN
        /\ (first(k) => first(k - 1)) /\ (k = 2 => first(k - 1) /\ ~first(k))
        /\ (k = 1 <=> first(k)) /\ (k > 2 => ~first(k) /\ ~first(k - 1))
    BY <2>1, <1>1 DEF Order, Turn
  <2> HIDE DEF first, due, q
  <2>5. /\ x \in Rows /\ Len(x.queue) <= Len(v.queue) + Turn(q)
        /\ Follows(FALSE, x) /\ (q # "main_quest_lv2" => Follows(first(k - 1), x))
    BY <2>3, <2>4, AnyTurn
  <2>6. Len(x.queue) \in Nat  BY <2>5, WrittenRows DEF Rows
  <2> HIDE DEF x
  <2>7. due(k) \in Nat  BY <2>1 DEF due
  <2>8. Len(x.queue) <= due(k)
    <3>1. \A a, b, c, d, e \in Nat : a <= b + c /\ b <= d /\ d + c <= e => a <= e
      OBVIOUS
    <3> QED BY <2>3, <2>4, <2>5, <2>6, <2>7, <3>1
  <2>9. Follows(first(k), x)
    <3>1. CASE k = 1
      <4>1. first(k) = first(k - 1)  BY <2>4, <3>1
      <4> QED BY <2>4, <2>5, <3>1, <4>1
    <3>2. CASE k # 1
      <4>1. first(k) = FALSE  BY <2>4, <3>2
      <4> QED BY <2>5, <4>1
    <3> QED BY <3>1, <3>2
  <2>10. x \in G(k)  BY <2>5, <2>8, <2>9
  <2> HIDE DEF G
  <2> QED BY <2>1, <2>10 DEF x, q
<1>4. u \in F[4]
  <2> HIDE DEF F
  <2>1. u \in F[Len(Order)]  BY <1>2, <1>3, AllDeliveredWithin
  <2> QED BY <1>1, <2>1
<1>5. u \in G(4)
  <2> HIDE DEF G
  <2> QED BY <1>4
<1>6. first(4) = FALSE /\ due(4) = 12
  OBVIOUS
<1> HIDE DEF first, due
<1>7. Follows(FALSE, u)  BY <1>5, <1>6
<1> QED BY <1>5, <1>6, <1>7

-----------------------------------------------------------------------------
(* The entry of a state                                                      *)

\* The operations that open a state.
Openers == {Letter, Mark, Say}

\* The letter and the mark keep the count.
LEMMA OpenerWrites ==
    ASSUME NEW v \in Rows, NEW q \in QuestId, v.quest[q] \notin {Nothing, COMPLETE},
           NEW op \in Openers, NEW npc \in Vnum, NEW env \in World,
           NEW u, u = Perform(v, q, op, npc, env)
    PROVE  Kept(v, u) /\ u.err = v.err /\ op.op # "count"
<1>1. v \in Written  BY DEF Rows
<1>2. v.tracker[q] \in Tracker  BY <1>1, WrittenRows
<1>3. CASE op = Say
  <2>1. op \in Plain /\ op.op # "count"  BY <1>3 DEF Plain, Say, Do
  <2> QED BY <1>3, <2>1, PlainWrites
<1>4. ASSUME NEW t \in Tracker, u = WithRow(v, q, t), t.amount = v.tracker[q].amount,
             t.total = v.tracker[q].total
      PROVE  Kept(v, u) /\ u.err = v.err
  <2>1. q # "main_quest_lv2" => t.amount = 0 /\ t.total = 0  BY <1>4 DEF Rows
  <2>2. /\ u \in Rows /\ u.quest = v.quest /\ u.queue = v.queue /\ u.err = v.err
        /\ u.tracker[q] = t /\ \A r \in QuestId \ {q} : u.tracker[r] = v.tracker[r]
    BY <1>4, <2>1, TrackerWrites
  <2> QED BY <1>4, <2>2 DEF Kept
<1>5. CASE op = Letter
  <2> DEFINE t == [v.tracker[q] EXCEPT !.letter = TRUE]
  <2>1. t \in Tracker /\ t.amount = v.tracker[q].amount /\ t.total = v.tracker[q].total
    BY <1>2 DEF Tracker
  <2>2. u = WithRow(v, q, t) /\ op.op # "count"
    BY <1>1, <1>5 DEF Perform, Letter, Do, Written, WithRow
  <2> HIDE DEF t
  <2> QED BY <1>4, <2>1, <2>2
<1>6. CASE op = Mark
  <2> DEFINE t == [v.tracker[q] EXCEPT !.label = TRUE]
  <2>1. t \in Tracker /\ t.amount = v.tracker[q].amount /\ t.total = v.tracker[q].total
    BY <1>2 DEF Tracker
  <2>2. u = WithRow(v, q, t) /\ op.op # "count"
    BY <1>1, <1>6 DEF Perform, Mark, Do, Written, WithRow
  <2> HIDE DEF t
  <2> QED BY <1>4, <2>1, <2>2
<1> QED BY <1>3, <1>5, <1>6 DEF Openers

\* Keeping the count is transitive.
LEMMA KeptOn ==
    ASSUME NEW w, NEW v, NEW u, Kept(w, v), Kept(v, u)
    PROVE  Kept(w, u)
  BY DEF Kept

\* What the opening operations leave as it is.
Opened(w) == {v \in Rows : Kept(w, v) /\ ~v.err}

\* One more opening operation.
LEMMA OpenerRuns ==
    ASSUME NEW w \in Rows, NEW q \in QuestId, w.quest[q] \notin {Nothing, COMPLETE},
           NEW v \in Opened(w), NEW op \in Openers, NEW npc \in Vnum, NEW env \in World,
           NEW u, u = RunOp(v, q, op, npc, env)
    PROVE  u \in Opened(w)
<1> DEFINE x == Perform(v, q, op, npc, env)
<1>1. v \in Rows /\ Kept(w, v) /\ ~v.err /\ v.quest = w.quest  BY DEF Opened, Kept
<1>2. Kept(v, x) /\ x.err = v.err /\ op.op # "count"  BY <1>1, OpenerWrites
<1>3. u = x  BY <1>1, <1>2 DEF RunOp
<1> HIDE DEF x
<1>4. Kept(w, x) /\ x \in Rows  BY <1>1, <1>2, KeptOn DEF Kept
<1> QED BY <1>1, <1>2, <1>3, <1>4 DEF Opened

\* The row of the objective is put aside.
Forgotten(t) == [t EXCEPT !.amount = 0, !.total = 0]

\* An empty row forgotten is empty.
LEMMA ForgottenRow ==
    ASSUME NEW t, t = NoTracker PROVE Forgotten(t) = NoTracker
<1>1. ASSUME NEW u, u = [t EXCEPT !.amount = 0, !.total = 0] PROVE u = NoTracker
  <2>1. u = [letter |-> FALSE, label |-> FALSE, amount |-> 0, total |-> 0]
    BY <1>1 DEF NoTracker
  <2> QED BY <2>1 DEF NoTracker
<1> QED BY <1>1 DEF Forgotten

\* The objective of a quest is put aside.
LEMMA ForgetWrites ==
    ASSUME NEW v \in Rows, NEW q \in QuestId, NEW u, u = ForgetProgress(v, q)
    PROVE  /\ u \in Rows /\ u.quest = v.quest /\ u.queue = v.queue /\ u.err = v.err
           /\ u.tracker[q].amount = 0 /\ u.tracker[q].total = 0
           /\ \A r \in QuestId \ {q} : u.tracker[r] = v.tracker[r]
<1> DEFINE t == Forgotten(v.tracker[q])
<1>1. v \in Written  BY DEF Rows
<1>2. v.tracker[q] \in Tracker  BY <1>1, WrittenRows
<1>3. t \in Tracker /\ t.amount = 0 /\ t.total = 0
  <2>1. 0 \in 0 .. Dogs /\ 0 \in {0, Dogs}  BY QuestAssumption
  <2> QED BY <1>2, <2>1 DEF Tracker, Forgotten
<1>4. v.tracker[q] = NoTracker => t = NoTracker
  <2>1. ASSUME v.tracker[q] = NoTracker PROVE t = NoTracker  BY <2>1, ForgottenRow
  <2> QED BY <2>1
<1>5. u = WithRow(v, q, t)  BY <1>1 DEF ForgetProgress, Written, WithRow, Forgotten
<1> HIDE DEF t
<1>6. v.quest[q] \in {Nothing, COMPLETE} => t = NoTracker  BY <1>4 DEF Rows
<1> QED BY <1>3, <1>5, <1>6, TrackerWrites

\* A list of opening operations.
LEMMA OpenersRun ==
    ASSUME NEW w \in Rows, ~w.err, NEW q \in QuestId, NEW ops, IsList(ops),
           \A k \in 1 .. Len(ops) : ops[k] \in Openers,
           ops = << >> \/ w.quest[q] \notin {Nothing, COMPLETE},
           NEW npc \in Vnum, NEW env \in World, NEW u, u = RunOps(w, q, ops, npc, env)
    PROVE  u \in Opened(w)
<1> DEFINE n == Len(ops)
           F == [k \in 0 .. n |-> Opened(w)]
<1>1. n \in Nat  BY DEF IsList
<1>2. w \in F[0]
  <2>1. w \in Opened(w)  BY DEF Opened, Kept
  <2> QED BY <1>1, <2>1
<1>3. \A k \in 1 .. n : \A v \in F[k - 1] : RunOp(v, q, ops[k], npc, env) \in F[k]
  <2> TAKE k \in 1 .. n
  <2> TAKE v \in F[k - 1]
  <2>1. ops # << >> /\ v \in Opened(w)  BY <1>1
  <2>2. RunOp(v, q, ops[k], npc, env) \in Opened(w)  BY <2>1, OpenerRuns
  <2> QED BY <1>1, <2>2
<1>4. u \in F[n]
  <2> HIDE DEF F
  <2> QED BY <1>1, <1>2, <1>3, RunWithin
<1> QED BY <1>1, <1>4

\* All but two states open so; the catalog's only objective is the hunt's.
LEMMA EntryLists ==
    ASSUME NEW q \in QuestId, NEW st \in StateName(q), st \notin {"gotoinfomation", "killdog"},
           NEW ops, ops = StateDoc(q, st).enter
    PROVE  /\ IsList(ops) /\ \A k \in 1 .. Len(ops) : ops[k] \in Openers
           /\ st = COMPLETE => ops = << >>
           /\ ~\E i \in DOMAIN ops : ops[i].op = "objective"
<1>1. st # COMPLETE \/ ops = << >>  BY EntersAreHarmless
<1>2. ops \in {<< >>, Journey, <<Mark, Say>>}
  BY EnterOperations, Quests, States DEF COMPLETE
<1>3. IsList(ops) /\ \A k \in 1 .. Len(ops) : ops[k] \in Openers
  <2>1. CASE ops = << >>  BY <2>1 DEF IsList
  <2>2. CASE ops = Journey  BY <2>2 DEF IsList, Journey, Openers
  <2>3. CASE ops = <<Mark, Say>>  BY <2>3 DEF IsList, Openers
  <2> QED BY <1>2, <2>1, <2>2, <2>3
<1>4. \A op \in Openers : op.op # "objective"
  <2>1. Letter.op # "objective" /\ Mark.op # "objective" /\ Say.op # "objective"
    BY DEF Letter, Mark, Say, Do
  <2> QED BY <2>1 DEF Openers
<1> QED BY <1>1, <1>3, <1>4 DEF IsList

\* The entries that are left to run.
Left(v) == Len(v.queue) + (IF v.quest["main_quest_lv1"] = "gotoinfomation" THEN 1 ELSE 0)

\* What leaves states and queue alone leaves as many entries to run.
LEMMA KeptLeft ==
    ASSUME NEW v \in Rows, NEW u, Kept(v, u)
    PROVE  Left(u) <= Left(v)
<1>1. Len(v.queue) \in Nat  BY WrittenRows DEF Rows
<1>2. Left(v) \in Nat
  <2> DEFINE flag == IF v.quest["main_quest_lv1"] = "gotoinfomation" THEN 1 ELSE 0
  <2>1. flag \in Nat /\ Left(v) = Len(v.queue) + flag  BY DEF Left
  <2> HIDE DEF flag
  <2> QED BY <1>1, <2>1
<1>3. Left(u) = Left(v)  BY DEF Left, Kept
<1> QED BY <1>2, <1>3

\* What the entry of the quest's current state leaves.
EntryDone(v, q, u) ==
    /\ u \in Rows /\ ~u.err /\ Left(u) <= Left(v)
    /\ q # "main_quest_lv2" => (Follows(FALSE, v) => Follows(FALSE, u))
    /\ q = "main_quest_lv2" => Clean(u)

\* The entry of a state that neither counts nor moves on puts the objective
\* aside.
LEMMA PlainEntry ==
    ASSUME NEW v \in Rows, ~v.err, NEW q \in QuestId, NEW st \in StateName(q), v.quest[q] = st,
           st \notin {"gotoinfomation", "killdog"}, NEW npc \in Vnum, NEW env \in World,
           NEW u, u = EnterState(v, q, st, npc, env)
    PROVE  EntryDone(v, q, u)
<1> DEFINE ops == StateDoc(q, st).enter
           o == RunOps(v, q, ops, npc, env)
<1>1. /\ IsList(ops) /\ \A k \in 1 .. Len(ops) : ops[k] \in Openers
      /\ st = COMPLETE => ops = << >>
      /\ ~\E i \in DOMAIN ops : ops[i].op = "objective"
  BY EntryLists
<1>2. ops = << >> \/ v.quest[q] \notin {Nothing, COMPLETE}  BY <1>1, QuestAssumption
<1>3. u = IF o.err THEN o ELSE ForgetProgress(o, q)  BY <1>1 DEF EnterState
<1>4. o \in Opened(v)
  <2> HIDE DEF ops
  <2> QED BY <1>1, <1>2, OpenersRun
<1> HIDE DEF o
<1>5. o \in Rows /\ Kept(v, o) /\ ~o.err  BY <1>4 DEF Opened
<1>6. u = ForgetProgress(o, q)  BY <1>3, <1>5
<1>7. /\ u \in Rows /\ u.quest = o.quest /\ u.queue = o.queue /\ u.err = o.err
      /\ u.tracker[q].amount = 0 /\ u.tracker[q].total = 0
      /\ \A r \in QuestId \ {q} : u.tracker[r] = o.tracker[r]
  BY <1>5, <1>6, ForgetWrites
<1>8. "main_quest_lv2" \in QuestId  BY Quests
<1>9. CASE q = "main_quest_lv2"
  <2>1. Clean(u)  BY <1>5, <1>7, <1>9 DEF Clean, Kept
  <2>2. Left(u) <= Left(v)
    <3>1. Left(o) <= Left(v) /\ Left(u) = Left(o)  BY <1>5, <1>7, KeptLeft DEF Left
    <3> QED BY <3>1
  <2> QED BY <1>5, <1>7, <1>9, <2>1, <2>2 DEF EntryDone
<1>10. CASE q # "main_quest_lv2"
  <2>1. ASSUME Follows(FALSE, v) PROVE Follows(FALSE, u)
    <3>1. Follows(FALSE, o)  BY <1>5, <2>1, KeptFollows
    <3>2. u.tracker["main_quest_lv2"] = o.tracker["main_quest_lv2"]
      BY <1>7, <1>8, <1>10
    <3> QED BY <1>7, <3>1, <3>2, SameFollows
  <2>2. Left(u) <= Left(v)
    <3>1. Left(o) <= Left(v) /\ Left(u) = Left(o)  BY <1>5, <1>7, KeptLeft DEF Left
    <3> QED BY <3>1
  <2> QED BY <1>5, <1>7, <1>10, <2>1, <2>2 DEF EntryDone
<1> QED BY <1>9, <1>10

\* The first quest's message moves it on from within its entry.
LEMMA MessageEntry ==
    ASSUME NEW w \in Rows, ~w.err, w.quest["main_quest_lv1"] = "gotoinfomation",
           NEW npc \in Vnum, NEW env \in World,
           NEW u, u = EnterState(w, "main_quest_lv1", "gotoinfomation", npc, env)
    PROVE  EntryDone(w, "main_quest_lv1", u)
<1> DEFINE q == "main_quest_lv1"
           ops == <<Letter, Say, SetState("gototeacher")>>
           o == RunOps(w, q, ops, npc, env)
           G == Opened(w)
           H == {y \in Rows : /\ ~y.err /\ y.quest[q] = "gototeacher"
                              /\ Len(y.queue) <= Len(w.queue) + 1
                              /\ Follows(FALSE, w) => Follows(FALSE, y)}
           F == [k \in 0 .. 3 |-> IF k < 3 THEN G ELSE H]
<1>1. /\ q \in QuestId /\ "gototeacher" \in StateName(q) /\ Len(w.queue) \in Nat
      /\ w.quest[q] \notin {Nothing, COMPLETE} /\ "main_quest_lv2" \in QuestId
  BY Quests, States, QuestAssumption, WrittenRows DEF Rows, COMPLETE
<1>2. StateDoc(q, "gotoinfomation").enter = ops  BY EnterOperations
<1>3. ~\E i \in DOMAIN ops : ops[i].op = "objective"
  <2>1. \A st : SetState(st).op # "objective"  BY DEF SetState, Do
  <2>2. Letter.op # "objective" /\ Say.op # "objective"  BY DEF Letter, Say, Do
  <2> QED BY <2>1, <2>2
<1>4. u = IF o.err THEN o ELSE ForgetProgress(o, q)
  <2> HIDE DEF ops
  <2> QED BY <1>2, <1>3 DEF EnterState
<1>5. w \in F[0]  BY DEF Opened, Kept
<1>6. \A op \in Openers : \A v \in G : RunOp(v, q, op, npc, env) \in G
  BY <1>1, OpenerRuns
<1>7. \A v \in G : RunOp(v, q, SetState("gototeacher"), npc, env) \in H
  <2> TAKE v \in G
  <2> DEFINE op == SetState("gototeacher")
             x == Perform(v, q, op, npc, env)
  <2>1. v \in Rows /\ Kept(w, v) /\ ~v.err /\ v.queue = w.queue  BY DEF Opened, Kept
  <2>2. op.op # "count"  BY DEF SetState, Do
  <2>3. RunOp(v, q, op, npc, env) = x  BY <2>1, <2>2 DEF RunOp
  <2>4. Moved(q, v, x) /\ x.quest[q] = "gototeacher"  BY <1>1, <2>1, SetWrites
  <2> HIDE DEF x
  <2>5. x \in Rows /\ ~x.err /\ Len(x.queue) <= Len(w.queue) + 1
    BY <2>1, <2>4 DEF Moved
  <2>6. ASSUME Follows(FALSE, w) PROVE Follows(FALSE, x)
    <3>1. Follows(FALSE, v)  BY <2>1, <2>6, KeptFollows
    <3> QED BY <2>4, <3>1 DEF Moved
  <2> QED BY <2>3, <2>4, <2>5, <2>6
<1>8. Len(ops) = 3 /\ ops[1] \in Openers /\ ops[2] \in Openers /\ ops[3] = SetState("gototeacher")
  BY DEF Openers
<1>9. \A k \in 1 .. Len(ops) : \A v \in F[k - 1] : RunOp(v, q, ops[k], npc, env) \in F[k]
  <2> HIDE DEF G, H, ops
  <2> QED BY <1>6, <1>7, <1>8
<1>10. o \in H
  <2>1. F[Len(ops)] = H  BY <1>8
  <2> HIDE DEF F, ops, H
  <2>2. o \in F[Len(ops)]
    <3>1. Len(ops) \in Nat  BY <1>8
    <3> QED BY <1>5, <1>9, <3>1, RunWithin
  <2> QED BY <2>1, <2>2
<1> HIDE DEF o
<1>11. o \in Rows /\ ~o.err /\ o.quest[q] = "gototeacher" /\ Len(o.queue) <= Len(w.queue) + 1
       /\ Len(o.queue) \in Nat
  BY <1>10, WrittenRows DEF Rows
<1>12. Follows(FALSE, w) => Follows(FALSE, o)  BY <1>10
<1>13. u = ForgetProgress(o, q)  BY <1>4, <1>11
<1>14. /\ u \in Rows /\ u.quest = o.quest /\ u.queue = o.queue /\ u.err = o.err
       /\ u.tracker[q].amount = 0 /\ u.tracker[q].total = 0
       /\ \A r \in QuestId \ {q} : u.tracker[r] = o.tracker[r]
  <2>1. q \in QuestId /\ o \in Rows  BY <1>1, <1>11
  <2> HIDE DEF q
  <2> QED BY <1>13, <2>1, ForgetWrites
<1>15. Left(u) <= Left(w)
  <2>1. Left(w) = Len(w.queue) + 1  BY DEF Left
  <2>2. Left(u) = Len(o.queue) + 0  BY <1>11, <1>14 DEF Left
  <2> QED BY <1>1, <1>11, <2>1, <2>2
<1>16. ASSUME Follows(FALSE, w) PROVE Follows(FALSE, u)
  <2>1. Follows(FALSE, o)  BY <1>12, <1>16
  <2>2. u.tracker["main_quest_lv2"] = o.tracker["main_quest_lv2"]  BY <1>1, <1>14
  <2> QED BY <1>14, <2>1, <2>2, SameFollows
<1> QED BY <1>11, <1>14, <1>15, <1>16 DEF EntryDone

\* The objective keeps the count, which is short of the total.
LEMMA ObjectiveWrites ==
    ASSUME NEW v \in Rows, v.quest["main_quest_lv2"] = "killdog",
           v.tracker["main_quest_lv2"].amount < Dogs, NEW npc, NEW env,
           NEW u, u = Perform(v, "main_quest_lv2", Objective(Dogs), npc, env)
    PROVE  u \in Rows /\ u.quest = v.quest /\ u.queue = v.queue /\ u.err = v.err /\ Clean(u)
<1> DEFINE q == "main_quest_lv2"
           b == v.tracker[q]
           t == [letter |-> b.letter, label |-> TRUE,
                 amount |-> IF b.amount < Dogs THEN b.amount ELSE Dogs, total |-> Dogs]
<1>1. v \in Written /\ q \in QuestId  BY Quests DEF Rows
<1>2. b \in Tracker  BY <1>1, WrittenRows
<1>3. t \in Tracker /\ t.amount = b.amount /\ t.total = Dogs  BY <1>2 DEF Tracker
<1>4. u = WithRow(v, q, t)
  <2>1. Objective(Dogs).op = "objective" /\ Objective(Dogs).arg = Dogs
    BY DEF Objective, Do
  <2>2. u = [v EXCEPT !.tracker[q] = [letter |-> @.letter, label |-> TRUE,
                                      amount |-> IF @.amount < Dogs THEN @.amount ELSE Dogs,
                                      total |-> Dogs]]
    BY <2>1 DEF Perform
  <2> QED BY <1>1, <2>2 DEF WithRow, Written
<1>5. v.quest[q] \notin {Nothing, COMPLETE}
  BY <1>1, States, QuestAssumption DEF COMPLETE
<1> HIDE DEF t
<1>6. /\ u \in Rows /\ u.quest = v.quest /\ u.queue = v.queue /\ u.err = v.err
      /\ u.tracker[q] = t
  BY <1>1, <1>3, <1>4, <1>5, TrackerWrites
<1> QED BY <1>3, <1>6 DEF Clean

\* The entry of the hunt shows its objective.
LEMMA HuntEntry ==
    ASSUME NEW w \in Rows, ~w.err, w.quest["main_quest_lv2"] = "killdog",
           w.tracker["main_quest_lv2"].amount < Dogs, NEW npc \in Vnum, NEW env \in World,
           NEW u, u = EnterState(w, "main_quest_lv2", "killdog", npc, env)
    PROVE  EntryDone(w, "main_quest_lv2", u)
<1> DEFINE q == "main_quest_lv2"
           ops == <<Letter, Objective(Dogs), Say>>
           o == RunOps(w, q, ops, npc, env)
           G == Opened(w)
           H == {y \in Rows : /\ ~y.err /\ y.quest = w.quest /\ y.queue = w.queue
                              /\ Clean(y)}
           F == [k \in 0 .. 3 |-> IF k < 2 THEN G ELSE H]
<1>1. /\ q \in QuestId /\ Len(w.queue) \in Nat /\ w.quest[q] \notin {Nothing, COMPLETE}
  BY Quests, States, QuestAssumption, WrittenRows DEF Rows, COMPLETE
<1>2. StateDoc(q, "killdog").enter = ops  BY EnterOperations
<1>3. \E i \in DOMAIN ops : ops[i].op = "objective"
  <2>1. 2 \in DOMAIN ops /\ ops[2].op = "objective"  BY DEF Objective, Do
  <2> QED BY <2>1
<1>4. u = o
  <2> HIDE DEF ops
  <2> QED BY <1>2, <1>3 DEF EnterState
<1>5. w \in F[0]  BY DEF Opened, Kept
<1>6. \A v \in G : RunOp(v, q, Letter, npc, env) \in G  BY <1>1, OpenerRuns DEF Openers
<1>7. \A v \in G : RunOp(v, q, Objective(Dogs), npc, env) \in H
  <2> TAKE v \in G
  <2> DEFINE x == Perform(v, q, Objective(Dogs), npc, env)
  <2>1. v \in Rows /\ ~v.err /\ v.queue = w.queue /\ v.quest = w.quest
        /\ v.tracker[q].amount = w.tracker[q].amount
    BY <1>1 DEF Opened, Kept
  <2>2. RunOp(v, q, Objective(Dogs), npc, env) = x
    <3>1. Objective(Dogs).op # "count"  BY DEF Objective, Do
    <3> QED BY <2>1, <3>1 DEF RunOp
  <2>3. x \in Rows /\ x.quest = v.quest /\ x.queue = v.queue /\ x.err = v.err /\ Clean(x)
    BY <2>1, ObjectiveWrites
  <2> HIDE DEF x
  <2> QED BY <2>1, <2>2, <2>3
<1>8. \A v \in H : RunOp(v, q, Say, npc, env) \in H
  <2> TAKE v \in H
  <2> DEFINE x == Perform(v, q, Say, npc, env)
  <2>1. RunOp(v, q, Say, npc, env) = x
    <3>1. Say.op # "count"  BY DEF Say, Do
    <3> QED BY <3>1 DEF RunOp
  <2>2. Kept(v, x) /\ x.err = v.err  BY <1>1, OpenerWrites DEF Openers
  <2> HIDE DEF x
  <2> QED BY <1>1, <2>1, <2>2 DEF Kept, Clean
<1>9. Len(ops) = 3 /\ ops[1] = Letter /\ ops[2] = Objective(Dogs) /\ ops[3] = Say
  OBVIOUS
<1>10. \A k \in 1 .. Len(ops) : \A v \in F[k - 1] : RunOp(v, q, ops[k], npc, env) \in F[k]
  <2> HIDE DEF G, H, ops
  <2> QED BY <1>6, <1>7, <1>8, <1>9
<1>11. o \in H
  <2>1. F[Len(ops)] = H  BY <1>9
  <2> HIDE DEF F, ops, H
  <2>2. o \in F[Len(ops)]
    <3>1. Len(ops) \in Nat  BY <1>9
    <3> QED BY <1>5, <1>10, <3>1, RunWithin
  <2> QED BY <2>1, <2>2
<1> HIDE DEF o
<1>12. Left(u) <= Left(w)
  <2>1. Left(u) = Left(w)  BY <1>4, <1>11 DEF Left
  <2>2. Kept(w, w)  BY DEF Kept
  <2> QED BY <2>1, <2>2, KeptLeft
<1> QED BY <1>4, <1>11, <1>12 DEF EntryDone

\* The entry of any state.
LEMMA AnyEntry ==
    ASSUME NEW v \in Rows, ~v.err, NEW q \in QuestId, NEW st \in StateName(q), v.quest[q] = st,
           st = "killdog" => v.tracker["main_quest_lv2"].amount < Dogs,
           NEW npc \in Vnum, NEW env \in World, NEW u, u = EnterState(v, q, st, npc, env)
    PROVE  EntryDone(v, q, u)
<1>1. CASE st = "gotoinfomation"
  <2>1. q = "main_quest_lv1"  BY <1>1, Quests, States DEF COMPLETE
  <2> QED BY <1>1, <2>1, MessageEntry
<1>2. CASE st = "killdog"
  <2>1. q = "main_quest_lv2"  BY <1>2, Quests, States DEF COMPLETE
  <2> QED BY <1>2, <2>1, HuntEntry
<1>3. CASE st \notin {"gotoinfomation", "killdog"}  BY <1>3, PlainEntry
<1> QED BY <1>1, <1>2, <1>3

\* At most one entry is to come that is not in the queue.
LEMMA LeftIsNatural ==
    ASSUME NEW v \in Rows
    PROVE  /\ Left(v) \in Nat /\ Len(v.queue) \in Nat
           /\ Len(v.queue) <= Left(v) /\ Left(v) <= Len(v.queue) + 1
<1> DEFINE flag == IF v.quest["main_quest_lv1"] = "gotoinfomation" THEN 1 ELSE 0
<1>1. flag \in 0 .. 1 /\ Left(v) = Len(v.queue) + flag  BY DEF Left
<1>2. Len(v.queue) \in Nat  BY WrittenRows DEF Rows
<1> HIDE DEF flag
<1> QED BY <1>1, <1>2

\* The entry that runs has been taken from the queue.
LEMMA TakenRows ==
    ASSUME NEW w \in Rows, w.queue # << >>, NEW u, u = [w EXCEPT !.queue = Tail(@)]
    PROVE  /\ u \in Rows /\ u.quest = w.quest /\ u.tracker = w.tracker /\ u.err = w.err
           /\ u.queue = Tail(w.queue) /\ Left(u) + 1 = Left(w)
           /\ Head(w.queue) \in Due /\ Head(w.queue) = w.queue[1]
           /\ Clean(w) => Clean(u)
           /\ w.queue[1] # <<"main_quest_lv2", w.quest["main_quest_lv2"]>> /\ Pending(w)
                => Pending(u)
<1>1. w \in Written /\ w.queue \in Seq(Due) /\ Len(w.queue) \in Nat
  BY WrittenRows DEF Rows
<1> DEFINE s == Tail(w.queue)
           n == Len(w.queue)
<1>2. s \in Seq(Due) /\ n > 0 /\ Len(s) = n - 1 /\ \A i \in 1 .. n - 1 : s[i] = w.queue[i + 1]
  BY <1>1
<1>3. Head(w.queue) \in Due /\ Head(w.queue) = w.queue[1]  BY <1>1
<1>4. u = [w EXCEPT !.queue = s]  BY <1>1 DEF Written
<1> HIDE DEF s
<1>5. /\ u \in Written /\ u.quest = w.quest /\ u.tracker = w.tracker /\ u.err = w.err
      /\ u.queue = s
  BY <1>1, <1>2, <1>4 DEF Written
<1>6. u \in Rows  BY <1>5, OtherWrites
<1>7. Left(u) + 1 = Left(w)
  <2> DEFINE flag == IF w.quest["main_quest_lv1"] = "gotoinfomation" THEN 1 ELSE 0
  <2>1. flag \in 0 .. 1 /\ Left(w) = Len(w.queue) + flag  BY DEF Left
  <2>2. Left(u) = Len(s) + flag  BY <1>5 DEF Left
  <2> HIDE DEF flag
  <2> QED BY <1>1, <1>2, <2>1, <2>2
<1>8. Clean(w) => Clean(u)  BY <1>5 DEF Clean
<1>9. ASSUME w.queue[1] # <<"main_quest_lv2", w.quest["main_quest_lv2"]>>, Pending(w)
      PROVE  Pending(u)
  <2> DEFINE e == <<"main_quest_lv2", w.quest["main_quest_lv2"]>>
  <2>1. PICK i \in 1 .. n : w.queue[i] = e  BY <1>9 DEF Pending
  <2>2. i # 1  BY <1>9, <2>1
  <2>3. i - 1 \in 1 .. Len(s) /\ (i - 1) + 1 = i /\ i - 1 \in 1 .. n - 1
    BY <1>1, <1>2, <2>1, <2>2
  <2>4. s[i - 1] = e  BY <1>2, <2>1, <2>3
  <2> QED BY <1>5, <2>3, <2>4 DEF Pending
<1> QED BY <1>3, <1>5, <1>6, <1>7, <1>8, <1>9 DEF s

\* One entry: fewer are left, and the objective still follows.
LEMMA DrainStep ==
    ASSUME NEW w \in Rows, ~w.err, w.queue # << >>, Follows(FALSE, w),
           NEW npc \in Vnum, NEW env \in World, NEW u, u = DrainOne(w, npc, env)
    PROVE  u \in Rows /\ ~u.err /\ Follows(FALSE, u) /\ Left(u) + 1 <= Left(w)
<1> DEFINE v == [w EXCEPT !.queue = Tail(@)]
           q == Head(w.queue)[1]
           st == Head(w.queue)[2]
<1>1. /\ v \in Rows /\ v.quest = w.quest /\ v.tracker = w.tracker /\ v.err = w.err
      /\ v.queue = Tail(w.queue) /\ Left(v) + 1 = Left(w)
      /\ Head(w.queue) \in Due /\ Head(w.queue) = w.queue[1]
      /\ Clean(w) => Clean(v)
      /\ w.queue[1] # <<"main_quest_lv2", w.quest["main_quest_lv2"]>> /\ Pending(w)
           => Pending(v)
  <2>1. v = [w EXCEPT !.queue = Tail(@)]
    OBVIOUS
  <2> HIDE DEF v
  <2> QED BY <2>1, TakenRows
<1>2. u = EnterState(v, q, st, npc, env)  BY DEF DrainOne
<1>3. q \in QuestId /\ st \in StateName(q) /\ w.queue[1] = <<q, st>>  BY <1>1 DEF Due
<1> HIDE DEF v, q, st
<1>4. Left(v) \in Nat /\ Left(w) \in Nat  BY <1>1, LeftIsNatural
<1>5. ASSUME <<q, st>> # <<"main_quest_lv2", w.quest["main_quest_lv2"]>>
      PROVE  Follows(FALSE, v)
  BY <1>1, <1>3, <1>5 DEF Follows
<1>6. CASE v.quest[q] # st
  <2>1. u = v  BY <1>2, <1>6 DEF EnterState
  <2>2. Follows(FALSE, v)  BY <1>1, <1>5, <1>6
  <2>3. Left(v) + 1 <= Left(w)  BY <1>1, <1>4
  <2> QED BY <1>1, <2>1, <2>2, <2>3, Zenon
<1>7. CASE v.quest[q] = st
  <2>1. st = "killdog" => v.tracker["main_quest_lv2"].amount < Dogs
    <3>1. ASSUME st = "killdog" PROVE w.quest["main_quest_lv2"] = "killdog"
      <4>1. q = "main_quest_lv2"  BY <1>3, <3>1, Quests, States DEF COMPLETE
      <4> QED BY <1>1, <1>7, <3>1, <4>1
    <3>2. w.quest["main_quest_lv2"] = "killdog" => w.tracker["main_quest_lv2"].amount < Dogs
      BY DEF Follows, Clean
    <3> QED BY <1>1, <3>1, <3>2
  <2>2. EntryDone(v, q, u)  BY <1>1, <1>2, <1>3, <1>7, <2>1, AnyEntry
  <2>3. Follows(FALSE, u)
    <3>1. CASE q = "main_quest_lv2"
      <4>1. Clean(u)  BY <2>2, <3>1 DEF EntryDone
      <4> QED BY <4>1 DEF Follows
    <3>2. CASE q # "main_quest_lv2"
      <4>1. Follows(FALSE, v)  BY <1>5, <3>2
      <4> QED BY <2>2, <3>2, <4>1 DEF EntryDone
    <3> QED BY <3>1, <3>2
  <2>4. u \in Rows /\ ~u.err /\ Left(u) <= Left(v)  BY <2>2 DEF EntryDone
  <2>5. Left(u) + 1 <= Left(w)
    <3>1. Left(u) \in Nat  BY <2>4, LeftIsNatural
    <3> QED BY <1>1, <1>4, <2>4, <3>1
  <2> QED BY <2>3, <2>4, <2>5, Zenon
<1> QED BY <1>6, <1>7

\* All entries run, or the delivery has failed.
LEMMA AllEntries ==
    ASSUME MaxStateEnters >= 13, NEW w \in Rows, Follows(FALSE, w), Len(w.queue) <= 12,
           NEW npc \in Vnum, NEW env \in World, NEW u, u = DrainEnters(w, npc, env)
    PROVE  u \in Rows /\ (u.err \/ (u.queue = << >> /\ Clean(u)))
<1> DEFINE n == MaxStateEnters
           Run(k) == {v \in Rows : Follows(FALSE, v) /\ (v.queue = << >> \/ Left(v) + k <= 13)}
           G(k) == {v \in Rows : v.err} \cup Run(k)
           F == [k \in 0 .. n |-> G(k)]
           o == EntriesRun(w, npc, env)
<1>1. n \in Nat /\ n >= 13  BY QuestAssumption
<1>2. w \in F[0]
  <2>1. Left(w) + 0 <= 13  BY LeftIsNatural
  <2>2. w \in Run(0)  BY <2>1
  <2>3. w \in G(0)  BY <2>2
  <2> HIDE DEF G
  <2> QED BY <1>1, <2>3
<1>3. \A k \in 1 .. n : \A v \in F[k - 1] : DrainOne(v, npc, env) \in F[k]
  <2> TAKE k \in 1 .. n
  <2> TAKE v \in F[k - 1]
  <2> DEFINE x == DrainOne(v, npc, env)
  <2>1. v \in G(k - 1) /\ k - 1 \in Nat /\ k \in Nat
    <3> HIDE DEF G
    <3> QED BY <1>1
  <2>2. CASE v.err
    <3>1. x = v /\ v \in Rows  BY <2>1, <2>2 DEF DrainOne
    <3>2. x \in G(k)  BY <2>2, <3>1
    <3> HIDE DEF G
    <3> QED BY <1>1, <3>2
  <2>3. CASE ~v.err /\ v.queue = << >>
    <3>1. x = v /\ v \in Rows /\ Follows(FALSE, v)  BY <2>1, <2>3 DEF DrainOne
    <3>2. x \in Run(k)  BY <2>3, <3>1
    <3>3. x \in G(k)  BY <3>2
    <3> HIDE DEF G
    <3> QED BY <1>1, <3>3
  <2>4. CASE ~v.err /\ v.queue # << >>
    <3>1. v \in Run(k - 1)  BY <2>1, <2>4
    <3>2. v \in Rows /\ Follows(FALSE, v) /\ Left(v) + (k - 1) <= 13  BY <2>4, <3>1
    <3>3. x \in Rows /\ ~x.err /\ Follows(FALSE, x) /\ Left(x) + 1 <= Left(v)
      BY <2>4, <3>2, DrainStep
    <3>4. Left(x) \in Nat /\ Left(v) \in Nat  BY <3>2, <3>3, LeftIsNatural
    <3> HIDE DEF x
    <3>5. Left(x) + k <= 13  BY <2>1, <3>2, <3>3, <3>4
    <3>6. x \in Run(k)  BY <3>3, <3>5
    <3>7. x \in G(k)  BY <3>6
    <3> HIDE DEF G
    <3> QED BY <1>1, <3>7 DEF x
  <2> QED BY <2>2, <2>3, <2>4
<1>4. o \in F[n]
  <2> HIDE DEF F
  <2> QED BY <1>2, <1>3, DrainWithin
<1>5. o \in G(n)
  <2> HIDE DEF G
  <2> QED BY <1>1, <1>4
<1>6. u = WithoutNext(o)  BY DEF DrainEnters
<1> HIDE DEF o
<1>7. CASE o.err
  <2>1. u = o /\ o \in Rows  BY <1>5, <1>6, <1>7 DEF WithoutNext
  <2> QED BY <1>7, <2>1
<1>8. CASE ~o.err
  <2>1. o \in Run(n)  BY <1>5, <1>8
  <2>2. o \in Rows /\ Follows(FALSE, o) /\ (o.queue = << >> \/ Left(o) + n <= 13)
    BY <2>1
  <2>3. o.queue = << >>
    <3>1. CASE o.queue # << >>
      <4>1. Left(o) + n <= 13 /\ Left(o) \in Nat /\ Len(o.queue) <= Left(o)
            /\ Len(o.queue) \in Nat
        BY <2>2, <3>1, LeftIsNatural
      <4>2. Len(o.queue) = 0  BY <1>1, <4>1
      <4>3. o.queue \in Seq(Due)  BY <2>2, WrittenRows DEF Rows
      <4> QED BY <4>2, <4>3
    <3> QED BY <3>1
  <2>4. u = o  BY <1>6, <2>3 DEF WithoutNext
  <2>5. Clean(o)  BY <2>2, <2>3 DEF Follows, Pending
  <2> QED BY <2>2, <2>3, <2>4, <2>5
<1> QED BY <1>7, <1>8

\* Between two passes: no entry is due, and the objective is that of its state.
Settled == {v \in Rows : v.err \/ (v.queue = << >> /\ Clean(v))}

\* A pass, with the entries that it queues.
LEMMA PassSettles ==
    ASSUME MaxStateEnters >= 13, NEW w \in Settled, NEW i, NEW event, NEW vnum \in Vnum,
           NEW lvl, NEW env \in World, NEW u, u = Pass(w, i, event, vnum, lvl, env)
    PROVE  u \in Settled
<1> DEFINE v == [w EXCEPT !.progressed = FALSE]
           d == DeliverAll(v, event, vnum, lvl, env)
<1>1. w \in Rows /\ w \in Written  BY DEF Settled, Rows
<1>2. v \in Written /\ v.quest = w.quest /\ v.tracker = w.tracker /\ v.queue = w.queue
  BY <1>1 DEF Written
<1>3. v \in Rows  BY <1>1, <1>2, OtherWrites
<1>4. u \in {w, DrainEnters(d, vnum, env)} /\ (w.err => u = w)  BY DEF Pass
<1> HIDE DEF v
<1>5. CASE u = w  BY <1>5
<1>6. CASE u = DrainEnters(d, vnum, env) /\ ~w.err
  <2>1. w.queue = << >> /\ Clean(w)  BY <1>6 DEF Settled
  <2>2. Clean(v) /\ v.queue = << >>  BY <1>2, <2>1 DEF Clean
  <2>3. d \in Rows /\ Follows(FALSE, d) /\ Len(d.queue) <= 12  BY <1>3, <2>2, AllTurns
  <2> HIDE DEF d
  <2>4. u \in Rows /\ (u.err \/ (u.queue = << >> /\ Clean(u)))
    BY <1>6, <2>3, AllEntries
  <2> QED BY <2>4 DEF Settled
<1> QED BY <1>4, <1>5, <1>6

\* A whole delivery.
LEMMA DispatchSettles ==
    ASSUME MaxStateEnters >= 13, NEW w \in Settled, NEW event, NEW vnum \in Vnum,
           NEW passes \in Nat, NEW env \in World, NEW u, u = Dispatch(w, event, vnum, passes, env)
    PROVE  u \in Settled
<1> DEFINE F == [i \in 0 .. passes |-> Settled]
           o == Passes(w, event, vnum, w.level, passes, env)
<1>1. w \in F[0] /\ F[passes] = Settled
  OBVIOUS
<1>2. \A k \in 1 .. passes : \A v \in F[k - 1] : Pass(v, k, event, vnum, w.level, env) \in F[k]
  BY PassSettles
<1>3. o \in F[passes]
  <2> HIDE DEF F
  <2> QED BY <1>1, <1>2, PassesWithin
<1>4. o \in Settled  BY <1>1, <1>3
<1>5. u = [o EXCEPT !.fired = {}, !.queue = << >>]  BY DEF Dispatch
<1> HIDE DEF o
<1>6. o \in Rows /\ o \in Written /\ (o.err \/ Clean(o))  BY <1>4 DEF Settled, Rows
<1>7. /\ u \in Written /\ u.quest = o.quest /\ u.tracker = o.tracker /\ u.queue = << >>
      /\ u.err = o.err
  <2>1. << >> \in Seq(Due) /\ {} \in SUBSET (QuestId \X Nat)
    OBVIOUS
  <2> QED BY <1>5, <1>6, <2>1 DEF Written
<1>8. u \in Rows  BY <1>6, <1>7, OtherWrites
<1>9. Clean(o) => Clean(u)  BY <1>7 DEF Clean
<1> QED BY <1>6, <1>7, <1>8, <1>9 DEF Settled

-----------------------------------------------------------------------------
(* The steps                                                                 *)

\* The rows at rest.
AtRest == Working \in Settled

\* A delivery that did not fail becomes the state.
LEMMA CommitSettles ==
    ASSUME NEW w \in Settled, ~w.err, Commit(w)
    PROVE  AtRest'
<1>1. w \in Rows /\ w \in Written /\ Clean(w)  BY DEF Settled, Rows
<1>2. /\ w.level \in Nat /\ w.held \in 0 .. 1 /\ w.quest \in QuestRows
      /\ w.tracker \in [QuestId -> Tracker] /\ w.question \in Asked \cup {Nothing}
      /\ w.granted \in Grants
  BY <1>1 DEF Written
<1>3. << >> \in Seq(Due) /\ {} \in SUBSET (QuestId \X Nat)
  OBVIOUS
<1>4. /\ Working' \in Written /\ (Working').quest = w.quest /\ (Working').tracker = w.tracker
      /\ (Working').queue = << >>
  BY <1>2, <1>3 DEF Working, Commit, Written
<1>5. Working' \in Rows  BY <1>1, <1>4, OtherWrites
<1>6. Clean(Working')  BY <1>1, <1>4 DEF Clean
<1>7. Working' \in Settled  BY <1>4, <1>5, <1>6 DEF Settled
<1>8. Settled' = Settled
  BY DEF Settled, Rows, Written, Clean, Asked, Vnum, QuestRows, Tracker, Grants, Due
<1> QED BY <1>7, <1>8 DEF AtRest

\* The rows of a delivery that has not failed.
LEMMA WorksWritten ==
    ASSUME NEW w \in Works
    PROVE  w \in Written /\ ~w.err
<1>1. /\ w.level \in Nat /\ w.question \in Asked \cup {Nothing} /\ w.err = FALSE
  <2>1. w.level \in Nat /\ w.question \in Questions \cup {Nothing} /\ w.err = FALSE
    <3>1. w \in Records  BY DEF Works
    <3>2. w.level \in 1 .. MaxLevel /\ w.question \in Questions \cup {Nothing} /\ w.err = FALSE
      BY <3>1 DEF Records, RowsWith
    <3> QED BY <3>2, QuestAssumption
  <2>2. Questions \subseteq Asked
    <3>1. Npc \subseteq Vnum /\ "find" \in UNION {StateName(q) : q \in QuestId}
          /\ "find_squareguard" \in QuestId /\ "main_quest_lv2" \in QuestId
      BY Quests, States DEF Vnum
    <3> QED BY <3>1 DEF Questions, Asked
  <2> QED BY <2>1, <2>2
<1> QED BY <1>1 DEF Works, Records, RowsWith, Written

\* Rows that a step leaves alone stay at rest.
LEMMA RestStays ==
    ASSUME AtRest, UNCHANGED <<operator, quest, tracker>>, (Working \in Works)'
    PROVE  AtRest'
<1>1. Working' \in Works
  <2>1. Works' = Works  BY WorksStay
  <2> QED BY <2>1
<1>2. Working' \in Written  BY <1>1, WorksWritten
<1>3. /\ Working.quest = quest /\ Working.tracker = tracker /\ Working.err = FALSE
      /\ Working.queue = << >> /\ (Working').quest = quest /\ (Working').tracker = tracker
      /\ (Working').queue = << >>
  BY DEF Working
<1>4. Working \in Rows /\ Clean(Working)  BY <1>3 DEF AtRest, Settled
<1>5. Working' \in Rows  BY <1>2, <1>3, <1>4, OtherWrites
<1>6. Clean(Working')  BY <1>3, <1>4 DEF Clean
<1>7. Working' \in Settled  BY <1>3, <1>5, <1>6 DEF Settled
<1>8. Settled' = Settled
  BY DEF Settled, Rows, Written, Clean, Asked, Vnum, QuestRows, Tracker, Grants, Due
<1> QED BY <1>7, <1>8 DEF AtRest

\* A new character has no objective.
LEMMA RestBegins == QuestInit => AtRest
<1> SUFFICES ASSUME QuestInit PROVE AtRest
  OBVIOUS
<1>1. Working \in Written
  <2>1. Working \in Works  BY QuestBegins DEF QuestInv
  <2> QED BY <2>1, WorksWritten
<1>2. Working.quest = quest /\ Working.tracker = tracker /\ Working.queue = << >>
  BY DEF Working
<1>3. \A q \in QuestId : quest[q] = Nothing /\ tracker[q] = NoTracker  BY DEF QuestInit
<1>4. NoTracker.amount = 0 /\ NoTracker.total = 0  BY DEF NoTracker
<1>5. Working \in Rows  BY <1>1, <1>2, <1>3, <1>4 DEF Rows
<1>6. Nothing # "killdog" /\ "main_quest_lv2" \in QuestId
  BY Quests, States, QuestAssumption
<1>7. Clean(Working)  BY <1>2, <1>3, <1>4, <1>6 DEF Clean
<1> QED BY <1>2, <1>5, <1>7 DEF AtRest, Settled

\* Rows of which only the level, the question or the error mark are written.
LEMMA MarksSettle ==
    ASSUME NEW w \in Settled, ~w.err, NEW u \in Written, u.quest = w.quest,
           u.tracker = w.tracker, u.queue = w.queue
    PROVE  u \in Settled /\ Clean(u) /\ u.queue = << >>
<1>1. w \in Rows /\ Clean(w) /\ w.queue = << >>  BY DEF Settled
<1>2. u \in Rows  BY <1>1, OtherWrites
<1> QED BY <1>1, <1>2 DEF Clean, Settled

\* A level gained in combat.
LEMMA LeveledSettles ==
    ASSUME MaxStateEnters >= 13, NEW w \in Settled, ~w.err
    PROVE  Leveled(w) \in Settled
<1> DEFINE u == [w EXCEPT !.level = @ + 1]
<1>1. w \in Written  BY DEF Settled, Rows
<1>2. u \in Written /\ u.quest = w.quest /\ u.tracker = w.tracker /\ u.queue = w.queue
  BY <1>1 DEF Written
<1> HIDE DEF u
<1>3. u \in Settled  BY <1>2, MarksSettle
<1>4. AnyNpc \in Vnum  BY DEF Vnum
<1> QED BY <1>3, <1>4, QuietWorld, DispatchSettles DEF Leveled, u

\* A level gained, at rest.
LEMMA LevelRests ==
    ASSUME MaxStateEnters >= 13, QuestInv, AtRest, OnLevelUp
    PROVE  AtRest'
<1>1. Working \in Works /\ Working.level < MaxLevel /\ Working \in Settled /\ ~Working.err
  BY WorkingRows DEF QuestInv, OnLevelUp, AtRest
<1> DEFINE w == Leveled(Working)
<1>2. w \in Works /\ w \in Settled  BY <1>1, LeveledKeeps, LeveledSettles
<1>3. Commit(w)  BY DEF OnLevelUp
<1> HIDE DEF w
<1>4. ~w.err  BY <1>2, WorksWritten
<1> QED BY <1>2, <1>3, <1>4, CommitSettles

\* A kill, at rest.
LEMMA KillRests ==
    ASSUME MaxStateEnters >= 13, QuestInv, AtRest, NEW gain \in 0 .. 1, OnKill(gain)
    PROVE  AtRest'
<1> DEFINE paid == IF gain = 1 THEN Leveled(Working) ELSE Working
           u == [paid EXCEPT !.err = FALSE]
           w == Dispatch(u, "kill", 101, 1, Quiet)
<1>1. /\ Working \in Works /\ Working.level + gain <= MaxLevel
      /\ Working \in Settled /\ ~Working.err
  BY WorkingRows DEF QuestInv, OnKill, AtRest
<1>2. paid \in Works /\ paid \in Settled
  <2>1. Working.level \in Nat  BY <1>1 DEF Works, Records, RowsWith
  <2>2. gain = 1 => Working.level < MaxLevel  BY <1>1, <2>1, QuestAssumption
  <2>3. gain = 1 => Leveled(Working) \in Works  BY <1>1, <2>2, LeveledKeeps
  <2>4. Leveled(Working) \in Settled  BY <1>1, LeveledSettles
  <2> QED BY <1>1, <2>3, <2>4
<1>3. Commit(w)  BY DEF OnKill
<1> HIDE DEF paid
<1>4. ~paid.err /\ paid \in Written  BY <1>2, WorksWritten
<1>5. /\ u \in Written /\ u.quest = paid.quest /\ u.tracker = paid.tracker
      /\ u.queue = paid.queue
  BY <1>4 DEF Written
<1>6. u \in Works
  <2>1. /\ u \in Records /\ u.quest = paid.quest /\ u.granted = paid.granted
        /\ u.question = paid.question
    BY <1>2 DEF Works, Records, RowsWith
  <2> HIDE DEF u
  <2> QED BY <1>2, <2>1 DEF Works, MainPaid, SidePaid, AskedNow
<1> HIDE DEF u
<1>7. u \in Settled  BY <1>2, <1>4, <1>5, MarksSettle
<1>8. w \in Works  BY <1>6, QuietWorld, QuietOutcome, DispatchEnds
<1>9. w \in Settled
  <2>1. 101 \in Vnum /\ 1 \in Nat  BY DEF Vnum
  <2> QED BY <1>7, <2>1, QuietWorld, DispatchSettles
<1> HIDE DEF w
<1>10. ~w.err  BY <1>8, WorksWritten
<1> QED BY <1>3, <1>9, <1>10, CommitSettles

\* A conversation that begins, at rest.
LEMMA InteractRests ==
    ASSUME MaxStateEnters >= 13, QuestInv, AtRest, NEW npc \in Npc, NEW env \in World,
           InteractNpc(npc, env)
    PROVE  AtRest'
<1> DEFINE clicked == Dispatch(Working, "npc_click", npc, 10, env)
           chatted == Dispatch(clicked, "npc_chat", npc, 6, env)
           w == IF clicked.said \/ clicked.err THEN clicked ELSE chatted
<1>1. ~w.err /\ Commit(w)  BY DEF InteractNpc
<1>2. npc \in Vnum  BY DEF Vnum
<1>3. clicked \in Settled  BY <1>2, DispatchSettles DEF AtRest
<1> HIDE DEF clicked
<1>4. chatted \in Settled  BY <1>2, <1>3, DispatchSettles
<1> HIDE DEF chatted
<1>5. w \in Settled  BY <1>3, <1>4
<1> HIDE DEF w
<1> QED BY <1>1, <1>5, CommitSettles

\* Entering the world fills in the missing rows, none of which hunts.
LEMMA EnterRests ==
    ASSUME MaxStateEnters >= 13, QuestInv, AtRest, EnterQuests
    PROVE  AtRest'
<1> DEFINE rows == [Working EXCEPT
                      !.quest = [q \in QuestId |->
                                   IF @[q] = Nothing THEN InitialState(q) ELSE @[q]]]
           w == Dispatch(rows, "login", AnyNpc, 6, Quiet)
           entered == [q \in QuestId |-> IF quest[q] = Nothing THEN InitialState(q) ELSE quest[q]]
           lv2 == "main_quest_lv2"
<1>1. Working \in Settled /\ Working \in Rows /\ Working \in Written /\ Clean(Working)
  BY WorkingRows DEF AtRest, Settled, Rows
<1>2. /\ Working.quest = quest /\ Working.tracker = tracker /\ Working.queue = << >>
      /\ quest \in QuestRows
  BY <1>1, WrittenRows DEF Working
<1>3. \A q \in QuestId : InitialState(q) \in StateName(q) \ {"killdog", COMPLETE}
  BY Quests, States DEF InitialState, COMPLETE
<1>4. entered \in QuestRows  BY <1>2, <1>3 DEF QuestRows
<1>5. rows = [Working EXCEPT !.quest = entered]  BY <1>2 DEF Working
<1>6. \A q \in QuestId :
        /\ entered[q] \in {Nothing, COMPLETE} => quest[q] = entered[q]
        /\ entered[q] = quest[q] \/ (quest[q] = Nothing /\ entered[q] # "killdog")
  BY <1>3, QuestAssumption
<1>7. lv2 \in QuestId /\ Nothing # "killdog"  BY Quests, States, QuestAssumption
<1> HIDE DEF entered, rows
<1>8. /\ rows \in Written /\ rows.quest = entered /\ rows.tracker = tracker
      /\ rows.queue = << >>
  BY <1>1, <1>2, <1>4, <1>5 DEF Written
<1>9. rows \in Rows
  <2>1. \A q \in QuestId :
          /\ quest[q] \in {Nothing, COMPLETE} => tracker[q] = NoTracker
          /\ q # lv2 => tracker[q].amount = 0 /\ tracker[q].total = 0
    BY <1>1, <1>2 DEF Rows
  <2>2. \A q \in QuestId : rows.quest[q] \in {Nothing, COMPLETE} => rows.tracker[q] = NoTracker
    BY <1>6, <1>8, <2>1
  <2> QED BY <1>8, <2>1, <2>2 DEF Rows
<1>10. Clean(rows)
  <2>1. entered[lv2] = "killdog" <=> quest[lv2] = "killdog"  BY <1>6, <1>7
  <2> QED BY <1>1, <1>2, <1>8, <2>1 DEF Clean
<1>11. rows \in Settled  BY <1>8, <1>9, <1>10 DEF Settled
<1>12. w \in Settled
  <2>1. AnyNpc \in Vnum /\ 6 \in Nat  BY DEF Vnum
  <2> QED BY <1>11, <2>1, QuietWorld, DispatchSettles
<1>13. ~w.err /\ Commit(w)  BY DEF EnterQuests, rows
<1> HIDE DEF w
<1> QED BY <1>12, <1>13, CommitSettles

\* What an answer runs.
LEMMA AnswerLists ==
    ASSUME NEW row \in Questions, NEW option \in DOMAIN row.branches, option \in 1 .. 2
    PROVE  row.quest \in QuestId /\ Short(row.quest, row.branches[option], 1)
<1>1. CASE row.quest = "find_squareguard" /\ row.branches = BuyBranches
  <2> DEFINE q == "find_squareguard"
             ops == <<Say, Give("money"), SetState("buy")>>
  <2>1. row.branches[option] = ops /\ q \in QuestId /\ "buy" \in StateName(q)
    BY <1>1, Quests, States DEF BuyBranches
  <2>2. Say \in Plain /\ Give("money") \in Plain  BY DEF Plain, RewardKind
  <2>3. Plain \subseteq TurnOps(q) /\ SetState("buy") \in TurnOps(q)
    BY <2>1 DEF TurnOps
  <2>4. Short(q, ops, 1)  BY <2>2, <2>3 DEF Short, IsList
  <2> HIDE DEF ops
  <2> QED BY <1>1, <2>1, <2>4
<1>2. CASE row.quest = "main_quest_lv2" /\ row.branches = DogBranches
  <2> DEFINE q == "main_quest_lv2"
  <2>1. q \in QuestId /\ "gototeacher2" \in StateName(q)  BY Quests, States
  <2>2. row.branches[option] \in {<<SetState("gototeacher2")>>, << >>}
    BY <1>2 DEF DogBranches
  <2>3. Short(q, <<SetState("gototeacher2")>>, 1)  BY <2>1, ShortLists
  <2>4. Short(q, << >>, 1)  BY DEF Short, IsList
  <2> QED BY <1>2, <2>1, <2>2, <2>3, <2>4
<1>3. \/ row.quest = "find_squareguard" /\ row.branches = BuyBranches
      \/ row.quest = "main_quest_lv2" /\ row.branches = DogBranches
  BY DEF Questions
<1> QED BY <1>1, <1>2, <1>3

\* An answer, at rest: its moves are queued and run like those of a pass.
LEMMA ChooseRests ==
    ASSUME MaxStateEnters >= 13, QuestInv, AtRest, NEW option \in 1 .. 2, NEW env \in World,
           NpcChoose(option, env)
    PROVE  AtRest'
<1> DEFINE q == question.quest
           ops == question.branches[option]
           npc == session.npc
           ran == RunOps(Answered, q, ops, npc, env)
           w == DrainEnters(ran, npc, env)
<1>1. /\ ~w.err /\ Commit(w) /\ session # Nothing /\ question # Nothing
      /\ option \in DOMAIN question.branches
  BY DEF NpcChoose, Answerable
<1>2. /\ Working \in Settled /\ ~Working.err /\ question \in Questions /\ npc \in Vnum
  <2>1. question \in Questions  BY <1>1, WorkingRows DEF QuestInv, Works
  <2>2. npc \in Npc  BY <1>1 DEF QuestInv, Sessions
  <2> QED BY <2>1, <2>2, WorkingRows DEF AtRest, Vnum
<1>3. Answered \in Rows /\ Clean(Answered) /\ Answered.queue = << >>
  <2>1. Working \in Written  BY <1>2 DEF Settled, Rows
  <2>2. /\ Answered \in Written /\ Answered.quest = Working.quest
        /\ Answered.tracker = Working.tracker /\ Answered.queue = Working.queue
    BY <2>1 DEF Answered, Written
  <2> QED BY <1>2, <2>2, MarksSettle, WorkingRows DEF Settled
<1>4. q \in QuestId /\ Short(q, ops, 1)  BY <1>1, <1>2, AnswerLists
<1> HIDE DEF npc, ops, q
<1>5. Follows(TRUE, Answered)  BY <1>3 DEF Follows
<1>6. ran \in Rows /\ Follows(TRUE, ran) /\ Len(ran.queue) <= Len(Answered.queue) + 1
  BY <1>2, <1>3, <1>4, <1>5, TurnRuns DEF Short
<1> HIDE DEF ran
<1>7. Follows(FALSE, ran)  BY <1>6 DEF Follows
<1>8. Len(ran.queue) <= 12
  <2>1. Len(Answered.queue) = 0 /\ Len(ran.queue) \in Nat
    BY <1>3, <1>6, WrittenRows DEF Rows
  <2> QED BY <1>6, <2>1
<1>9. w \in Rows /\ (w.err \/ (w.queue = << >> /\ Clean(w)))
  BY <1>2, <1>6, <1>7, <1>8, AllEntries
<1> HIDE DEF w
<1>10. w \in Settled  BY <1>9 DEF Settled
<1> QED BY <1>1, <1>10, CommitSettles

\* Every step leaves the rows at rest.
LEMMA RestStep ==
    ASSUME MaxStateEnters >= 13, QuestInv, AtRest, [QuestNext]_questVars
    PROVE  AtRest'
<1>1. QuestInv'  BY QuestStep
<1>2. ASSUME UNCHANGED <<operator, quest, tracker>> PROVE AtRest'
  <2>1. (Working \in Works)'  BY <1>1 DEF QuestInv
  <2> QED BY <1>2, <2>1, RestStays
<1>3. CASE UNCHANGED questVars  BY <1>2, <1>3 DEF questVars
<1>4. CASE QuestNext
  <2>1. UNCHANGED operator  BY <1>4 DEF QuestNext
  <2>2. CASE EnterQuests  BY <2>2, EnterRests
  <2>3. CASE LeaveWorld  BY <1>2, <2>1, <2>3 DEF LeaveWorld
  <2>4. CASE OnLevelUp  BY <2>4, LevelRests
  <2>5. CASE \E gain \in 0 .. 1 : OnKill(gain)  BY <2>5, KillRests
  <2>6. CASE \E n \in 0 .. 1 : Carry(n)  BY <1>2, <2>1, <2>6 DEF Carry
  <2>7. CASE \E npc \in Npc, env \in World : InteractNpc(npc, env)
    BY <2>7, InteractRests
  <2>8. CASE \E option \in 1 .. 2, env \in World : NpcChoose(option, env)
    BY <2>8, ChooseRests
  <2>9. CASE CloseNpcInteraction  BY <1>2, <2>1, <2>9 DEF CloseNpcInteraction
  <2>10. CASE \E away \in BOOLEAN : Maintain(away)  BY <1>2, <2>1, <2>10 DEF Maintain
  <2>11. CASE Advance  BY <1>2, <2>1, <2>11 DEF Advance
  <2> QED BY <1>4, <2>2, <2>3, <2>4, <2>5, <2>6, <2>7, <2>8, <2>9, <2>10, <2>11
      DEF QuestNext, Step
<1> QED BY <1>3, <1>4

\* Rows at rest are what the player is promised.
LEMMA RestMatches == AtRest => TrackerMatchesState
<1> SUFFICES ASSUME AtRest, NEW q \in QuestId
             PROVE  /\ quest[q] \in {Nothing, COMPLETE} => tracker[q] = NoTracker
                    /\ IF quest[q] = "killdog"
                       THEN tracker[q].total = Dogs /\ tracker[q].amount < Dogs
                       ELSE tracker[q].total = 0 /\ tracker[q].amount = 0
  BY DEF TrackerMatchesState
<1>1. Working \in Rows /\ Clean(Working) /\ Working.quest = quest /\ Working.tracker = tracker
  BY WorkingRows DEF AtRest, Settled
<1>2. quest[q] \in {Nothing, COMPLETE} => tracker[q] = NoTracker  BY <1>1 DEF Rows
<1>3. CASE q = "main_quest_lv2"  BY <1>1, <1>2, <1>3 DEF Clean
<1>4. CASE q # "main_quest_lv2"
  <2>1. tracker[q].amount = 0 /\ tracker[q].total = 0  BY <1>1, <1>4 DEF Rows
  <2>2. quest[q] # "killdog"
    <3>1. quest[q] \in StateName(q) \cup {Nothing}
      BY <1>1, WrittenRows DEF Rows, QuestRows
    <3>2. "killdog" # Nothing  BY Quests, States, QuestAssumption
    <3> QED BY <1>4, <3>1, <3>2, Quests, States DEF COMPLETE
  <2> QED BY <1>2, <2>1, <2>2
<1> QED BY <1>3, <1>4

\* If a delivery may run at least thirteen entries (the code's
\* MAX_STATE_ENTERS is 64), the objective row follows the state of its
\* quest after every step, whatever fails on the way, and the open question
\* belongs to this visit and to the state that asked it (dispatch,
\* drain_enters and run_ops_collecting of quest.rs).
THEOREM ProgressIsCurrentCorrect ==
    ASSUME MaxStateEnters >= 13
    PROVE  QuestSpec => []ProgressIsCurrent
<1>1. QuestInit => QuestInv /\ AtRest  BY QuestBegins, RestBegins
<1>2. QuestInv /\ AtRest /\ [QuestNext]_questVars => (QuestInv /\ AtRest)'
  BY QuestStep, RestStep
<1>3. QuestInv /\ AtRest => ProgressIsCurrent
  <2>1. QuestInv => QuestionIsCurrent
    BY WorkingRows DEF QuestInv, Works, AskedNow, Questions, QuestionIsCurrent
  <2> QED BY <2>1, RestMatches DEF ProgressIsCurrent
<1> QED BY <1>1, <1>2, <1>3, PTL DEF QuestSpec

-----------------------------------------------------------------------------
(* The target and the combo.                                                 *)

USE ComboAssumption

\* A scheduled hit of a combo is aimed at the target of the chain.
HitOfChain == chain # None /\ hit # None => hit.target = chain.target

ComboInv == TypeOK /\ ShownTargetIsLive /\ LinkIsSound /\ HitOfChain

-----------------------------------------------------------------------------
(* Rows and the operators that rewrite them.                                 *)

LEMMA ChainFields ==
    ASSUME NEW c \in Chain
    PROVE  /\ c.step \in 1..Last /\ c.start \in Nat /\ c.end \in Nat
           /\ c.target \in Target \cup {None} /\ c.selectable \in BOOLEAN
           /\ c.weapon \in Weapon /\ c.link \in Nat \cup {None}
  BY DEF Chain

LEMMA HitFields ==
    ASSUME NEW h \in Hit
    PROVE  /\ h.target \in Target /\ h.at \in Nat /\ h.upto \in Nat
           /\ h.current \in BOOLEAN /\ h.selectable \in BOOLEAN
  BY DEF Hit

LEMMA TargetFields ==
    ASSUME NEW t \in Target
    PROVE  t.id \in Monster /\ t.life \in Nat
  BY DEF Target

LEMMA MonsterFields ==
    ASSUME TypeOK, NEW m \in Monster
    PROVE  /\ monster[m] \in [alive : BOOLEAN, life : Nat]
           /\ monster[m].alive \in BOOLEAN /\ monster[m].life \in Nat
           /\ Life(m) \in Target /\ Life(m).id = m /\ Life(m).life = monster[m].life
  BY DEF TypeOK, Life, Target

LEMMA UnlinkedFacts ==
    ASSUME NEW c \in Chain \cup {None}
    PROVE  /\ Unlinked(c) \in Chain \cup {None}
           /\ Unlinked(c) # None => c # None /\ Unlinked(c).link = None
                                    /\ Unlinked(c).target = c.target
  BY DEF Unlinked, Chain

LEMMA OutdatedFacts ==
    ASSUME NEW h \in Hit \cup {None}
    PROVE  /\ Outdated(h) \in Hit \cup {None}
           /\ Outdated(h) # None => h # None /\ Outdated(h).target = h.target
  BY DEF Outdated, Hit

LEMMA ChainOfFacts ==
    ASSUME TypeOK, NEW step \in 1..Last, NEW t \in Target \cup {None},
           NEW b \in BOOLEAN, NEW w \in Weapon
    PROVE  /\ ChainOf(step, t, b, w) \in Chain
           /\ ChainOf(step, t, b, w).target = t /\ ChainOf(step, t, b, w).link = None
  BY DEF TypeOK, ChainOf, Chain

\* A new action is scheduled with its hit on the given target.
LEMMA StartActionFacts ==
    ASSUME TypeOK, NEW step, NEW t \in Target \cup {None}, NEW b \in BOOLEAN,
           StartAction(step, t, b)
    PROVE  /\ until' \in Nat /\ next' \in Nat /\ touched' \in BOOLEAN
           /\ hit' \in Hit \cup {None}
           /\ hit' # None => hit'.target = t
<1>1. until' \in Nat /\ next' \in Nat  BY DEF TypeOK, StartAction, Later
<1>2. PICK w \in HitWindow :
         hit' = IF t = None \/ step = Last THEN None
                ELSE [target |-> t, at |-> now + w[1], upto |-> now + w[2],
                      current |-> TRUE, selectable |-> b]
  BY DEF StartAction
<1>3. w[1] \in Nat /\ w[2] \in Nat /\ now \in Nat  BY DEF TypeOK
<1>4. ASSUME t # None
      PROVE  [target |-> t, at |-> now + w[1], upto |-> now + w[2],
              current |-> TRUE, selectable |-> b] \in Hit
  <2>1. t \in Target /\ now + w[1] \in Nat /\ now + w[2] \in Nat /\ TRUE \in BOOLEAN
    BY <1>3, <1>4
  <2> QED  BY <2>1 DEF Hit
<1> QED  BY <1>1, <1>2, <1>4 DEF StartAction

LEMMA AdvanceFacts ==
    ASSUME TypeOK, chain # None, AdvanceChain
    PROVE  /\ chain' \in Chain /\ chain'.link = None
           /\ until' \in Nat /\ next' \in Nat /\ touched' \in BOOLEAN
           /\ hit' \in Hit \cup {None}
           /\ hit' # None => hit'.target = chain'.target
<1> DEFINE b == chain.selectable /\ sel = None /\ chain.target # None
<1>1. chain \in Chain  BY DEF TypeOK
<1>2. /\ chain.step \in 1..Last /\ chain.step < Last /\ chain.target \in Target \cup {None}
      /\ chain.selectable \in BOOLEAN /\ chain.weapon \in Weapon
  BY <1>1, ChainFields DEF AdvanceChain, CanAdvance
<1>3. b \in BOOLEAN
  OBVIOUS
<1>4. chain.step + 1 \in 1..Last  BY <1>2
<1>5. /\ chain' = ChainOf(chain.step + 1, chain.target, chain.selectable, chain.weapon)
      /\ StartAction(chain.step + 1, chain.target, b)
  BY DEF AdvanceChain
<1> HIDE DEF b
<1>6. /\ chain' \in Chain /\ chain'.link = None /\ chain'.target = chain.target
  BY <1>2, <1>4, <1>5, ChainOfFacts
<1>7. /\ until' \in Nat /\ next' \in Nat /\ touched' \in BOOLEAN
      /\ hit' \in Hit \cup {None}
      /\ hit' # None => hit'.target = chain.target
  BY <1>2, <1>3, <1>5, StartActionFacts
<1> QED  BY <1>6, <1>7

-----------------------------------------------------------------------------
(* Type correctness, and the invariant, action by action.                    *)

\* A step that leaves the target alone and no link queued.
LEMMA NoLinkInv ==
    ASSUME ComboInv, TypeOK', HitOfChain', UNCHANGED <<body, monster, sel, view>>,
           chain' # None => chain'.link = None
    PROVE  ComboInv'
  BY DEF ComboInv, ShownTargetIsLive, LinkIsSound, Active, Live, body

\* A step that leaves target, weapon and chain alone.
LEMMA SameChainInv ==
    ASSUME ComboInv, TypeOK', UNCHANGED <<body, monster, weapon, sel, view, chain>>,
           hit' \in {hit, None}
    PROVE  ComboInv'
  BY DEF ComboInv, ShownTargetIsLive, LinkIsSound, HitOfChain, Active, Live, Related, body

\* A step that leaves the character without target, chain and link.
LEMMA WithoutTargetInv ==
    ASSUME ComboInv, TypeOK', sel' = None, view' = None, chain' = None
    PROVE  ComboInv'
  BY DEF ComboInv, ShownTargetIsLive, LinkIsSound, HitOfChain

LEMMA SelectInv == ASSUME ComboInv, NEW m \in Monster, Select(m) PROVE ComboInv'
<1>1. Life(m) \in Target /\ (Life(m) # None => Live(Life(m)))
  <2>1. monster[m] = [alive |-> TRUE, life |-> monster[m].life]
    <3>1. monster[m] = [alive |-> monster[m].alive, life |-> monster[m].life]
      BY MonsterFields DEF ComboInv
    <3>2. monster[m].alive = TRUE  BY MonsterFields DEF ComboInv, Select
    <3> QED  BY <3>1, <3>2
  <2> QED  BY <2>1, MonsterFields DEF ComboInv, Live
<1>2. now \in Nat /\ now + Interval \in Nat  BY DEF ComboInv, TypeOK
<1>3. TypeOK'
  BY <1>1, <1>2, UnlinkedFacts, OutdatedFacts, TRUE \in BOOLEAN DEF ComboInv, TypeOK, Select, body
<1>4. ShownTargetIsLive'  BY <1>1 DEF Select, ShownTargetIsLive, Live, Active, body
<1>5. LinkIsSound'
  <2>1. CASE sel = Life(m)
    BY <2>1 DEF ComboInv, LinkIsSound, Select, Active, Related, Live, body
  <2>2. CASE sel # Life(m)
    BY <2>2, UnlinkedFacts DEF ComboInv, TypeOK, LinkIsSound, Select
  <2> QED  BY <2>1, <2>2
<1>6. HitOfChain'
  BY UnlinkedFacts, OutdatedFacts DEF ComboInv, TypeOK, HitOfChain, Select
<1> QED  BY <1>3, <1>4, <1>5, <1>6 DEF ComboInv

LEMMA ClearTargetInv == ASSUME ComboInv, ClearTarget PROVE ComboInv'
<1>1. TypeOK'
  BY UnlinkedFacts, OutdatedFacts, TRUE \in BOOLEAN DEF ComboInv, TypeOK, ClearTarget, ClearSelection, body
<1>2. HitOfChain'
  BY UnlinkedFacts, OutdatedFacts DEF ComboInv, TypeOK, HitOfChain, ClearTarget
<1>3. ShownTargetIsLive'  BY DEF ClearTarget, ClearSelection, ShownTargetIsLive
<1>4. LinkIsSound'  BY UnlinkedFacts DEF ComboInv, TypeOK, LinkIsSound, ClearTarget
<1> QED  BY <1>1, <1>2, <1>3, <1>4 DEF ComboInv

LEMMA QueueInv == ASSUME ComboInv, Queue PROVE ComboInv'
<1>1. chain \in Chain /\ Direct \in Nat  BY DEF ComboInv, TypeOK, Queue
<1>2. /\ chain' \in Chain /\ chain'.link = chain'.start + Direct
      /\ chain'.step = chain.step /\ chain'.weapon = chain.weapon
      /\ chain'.target = chain.target /\ chain'.selectable = chain.selectable
  <2>1. chain.start + Direct \in Nat  BY <1>1, ChainFields
  <2> QED  BY <1>1, <2>1, ChainFields DEF Queue, Chain
<1>3. TypeOK'  BY <1>2 DEF ComboInv, TypeOK, Queue, body, selection
<1>4. ShownTargetIsLive'
  BY DEF ComboInv, ShownTargetIsLive, Queue, Active, Live, body, selection
<1>5. LinkIsSound'
  BY <1>2 DEF LinkIsSound, Queue, Active, Related, Live, body, selection
<1>6. HitOfChain'  BY <1>2 DEF ComboInv, HitOfChain, Queue
<1> QED  BY <1>3, <1>4, <1>5, <1>6 DEF ComboInv

LEMMA DirectLinkInv == ASSUME ComboInv, DirectLink PROVE ComboInv'
<1>1. /\ chain' \in Chain /\ chain'.link = None
      /\ until' \in Nat /\ next' \in Nat /\ touched' \in BOOLEAN
      /\ hit' \in Hit \cup {None}
      /\ hit' # None => hit'.target = chain'.target
  BY AdvanceFacts DEF ComboInv, DirectLink
<1>2. TypeOK'  BY <1>1 DEF ComboInv, TypeOK, DirectLink, body, selection
<1>3. HitOfChain'  BY <1>1 DEF HitOfChain
<1> QED  BY <1>1, <1>2, <1>3, NoLinkInv DEF DirectLink, selection

LEMMA PressInv ==
    ASSUME ComboInv, NEW t \in Target \cup {None}, Press(t)
    PROVE  ComboInv'
<1> DEFINE b == sel = None /\ t # None
           step == IF weapon = None THEN 0 ELSE 1
<1>1. b \in BOOLEAN /\ StartAction(step, t, b)  BY DEF Press
<1>2. chain' = IF weapon = None THEN None ELSE ChainOf(1, t, b, weapon)  BY DEF Press
<1> HIDE DEF b, step
<1>3. /\ until' \in Nat /\ next' \in Nat /\ touched' \in BOOLEAN
      /\ hit' \in Hit \cup {None}
      /\ hit' # None => hit'.target = t
  BY <1>1, StartActionFacts DEF ComboInv
<1>4. /\ chain' \in Chain \cup {None}
      /\ chain' # None => chain'.link = None /\ chain'.target = t
  <2>1. CASE weapon = None  BY <1>2, <2>1
  <2>2. CASE weapon # None
    <3>1. weapon \in Weapon /\ 1 \in 1..Last  BY <2>2 DEF ComboInv, TypeOK
    <3> QED  BY <1>1, <1>2, <2>2, <3>1, ChainOfFacts DEF ComboInv
  <2> QED  BY <2>1, <2>2
<1>5. TypeOK'  BY <1>3, <1>4 DEF ComboInv, TypeOK, Press, body, selection
<1>6. HitOfChain'  BY <1>3, <1>4 DEF HitOfChain
<1> QED  BY <1>4, <1>5, <1>6, NoLinkInv DEF Press, selection

LEMMA MoveInv == ASSUME ComboInv, Move PROVE ComboInv'
<1>1. TypeOK'  BY UnlinkedFacts DEF ComboInv, TypeOK, Move, body, selection
<1>2. HitOfChain' /\ (chain' # None => chain'.link = None)
  BY UnlinkedFacts DEF ComboInv, TypeOK, HitOfChain, Move
<1> QED  BY <1>1, <1>2, NoLinkInv DEF Move, selection

LEMMA EquipInv == ASSUME ComboInv, NEW w \in Weapon \cup {None}, Equip(w) PROVE ComboInv'
<1>1. TypeOK'  BY UnlinkedFacts DEF ComboInv, TypeOK, Equip, body, selection
<1>2. HitOfChain' /\ (chain' # None => chain'.link = None)
  BY UnlinkedFacts DEF ComboInv, TypeOK, HitOfChain, Equip
<1> QED  BY <1>1, <1>2, NoLinkInv DEF Equip, selection

LEMMA CastInv == ASSUME ComboInv, Cast PROVE ComboInv'
<1>1. /\ until' \in Nat /\ next' \in Nat /\ touched' \in BOOLEAN
      /\ hit' \in Hit \cup {None}
  BY StartActionFacts, FALSE \in BOOLEAN DEF ComboInv, Cast
<1>2. TypeOK' /\ HitOfChain'
  BY <1>1 DEF ComboInv, TypeOK, HitOfChain, Cast, body, selection
<1> QED  BY <1>2, NoLinkInv DEF Cast, selection

LEMMA StrikeInv == ASSUME ComboInv, NEW K \in SUBSET Monster, Strike(K) PROVE ComboInv'
<1>1. /\ until' \in Nat /\ next' \in Nat /\ touched' \in BOOLEAN
      /\ hit' \in Hit \cup {None}
  BY StartActionFacts, FALSE \in BOOLEAN DEF ComboInv, Strike
<1>2. ASSUME NEW m \in Monster
      PROVE  /\ monster'[m] \in [alive : BOOLEAN, life : Nat]
             /\ m \notin K => monster'[m] = monster[m]
  <2>1. [alive |-> FALSE, life |-> monster[m].life] \in [alive : BOOLEAN, life : Nat]
    BY MonsterFields, FALSE \in BOOLEAN DEF ComboInv
  <2> QED  BY <2>1, MonsterFields DEF ComboInv, Strike
<1>3. monster' \in [Monster -> [alive : BOOLEAN, life : Nat]]  BY <1>2 DEF Strike
<1>4. TypeOK'  BY <1>1, <1>3 DEF ComboInv, TypeOK, Strike, body
<1>5. ShownTargetIsLive'
  <2>1. sel # None => Active'  BY DEF ComboInv, ShownTargetIsLive, Strike, Active, body
  <2>2. ASSUME view' # None
        PROVE  view' = sel' /\ Live(sel)'
    <3>1. view' = view /\ view = sel /\ sel' = sel /\ Live(sel) /\ sel.id \notin K
      BY <2>2 DEF ComboInv, ShownTargetIsLive, Strike
    <3>2. sel \in Target /\ sel.id \in Monster
      BY <3>1, TargetFields DEF ComboInv, TypeOK, Live
    <3> QED  BY <1>2, <3>1, <3>2 DEF Live
  <2> QED  BY <2>1, <2>2 DEF ShownTargetIsLive, Strike
<1> QED  BY <1>4, <1>5 DEF ComboInv, LinkIsSound, HitOfChain, Strike

LEMMA LeaveInv == ASSUME ComboInv, Leave \/ Die PROVE ComboInv'
<1>1. TypeOK'
  <2>1. CASE Leave
    BY <2>1, FALSE \in BOOLEAN DEF ComboInv, TypeOK, Leave, Withdraw, ClearSelection
  <2>2. CASE Die
    BY <2>2, FALSE \in BOOLEAN DEF ComboInv, TypeOK, Die, Withdraw, ClearSelection
  <2> QED  BY <2>1, <2>2
<1> QED  BY <1>1, WithoutTargetInv DEF Leave, Die, Withdraw, ClearSelection

LEMMA EnterInv == ASSUME ComboInv, Enter PROVE ComboInv'
<1>1. TypeOK'
  BY OutdatedFacts, TRUE \in BOOLEAN DEF ComboInv, TypeOK, Enter, ClearSelection
<1> QED  BY <1>1, WithoutTargetInv DEF Enter, ClearSelection

\* The death of a monster, whoever brings it about.
LEMMA SlainFacts ==
    ASSUME ComboInv, NEW m \in Monster, Slain(m), UNCHANGED <<body, weapon>>,
           hit' # None => hit # None /\ hit'.target = hit.target
    PROVE  /\ monster' \in [Monster -> [alive : BOOLEAN, life : Nat]]
           /\ sel' \in Target \cup {None} /\ view' \in Target \cup {None}
           /\ chain' \in Chain \cup {None}
           /\ ShownTargetIsLive' /\ LinkIsSound' /\ HitOfChain'
<1>1. /\ monster' \in [Monster -> [alive : BOOLEAN, life : Nat]]
      /\ \A n \in Monster \ {m} : monster'[n] = monster[n]
  <2>1. monster[m] \in [alive : BOOLEAN, life : Nat]  BY MonsterFields DEF ComboInv
  <2>2. [monster[m] EXCEPT !.alive = FALSE] \in [alive : BOOLEAN, life : Nat]
    BY <2>1, FALSE \in BOOLEAN
  <2> QED  BY <2>2 DEF ComboInv, TypeOK, Slain
<1>2. ASSUME NEW t \in Target, Live(t), t # Life(m)
      PROVE  Live(t)'
  <2>1. t.id \in Monster /\ t.life \in Nat /\ t = [id |-> t.id, life |-> t.life]
    BY DEF Target
  <2>2. monster[t.id].life = t.life  BY <1>2 DEF Live
  <2>3. t.id # m  BY <1>2, <2>1, <2>2 DEF Life
  <2> QED  BY <1>1, <1>2, <2>1, <2>3 DEF Live
<1>3. /\ sel' \in Target \cup {None} /\ view' \in Target \cup {None}
      /\ chain' \in Chain \cup {None}
  BY DEF ComboInv, TypeOK, Slain
<1>4. ShownTargetIsLive'
  BY <1>2 DEF ComboInv, TypeOK, ShownTargetIsLive, Slain, Active, Live, body
<1>5. LinkIsSound'
  <2> SUFFICES ASSUME chain' # None, chain'.link # None
               PROVE  LinkIsSound'
    BY DEF LinkIsSound
  <2>1. chain' = chain /\ chain.target # Life(m) /\ chain \in Chain
    BY DEF ComboInv, TypeOK, Slain
  <2>2. /\ Active /\ chain.step < Last /\ chain.link = chain.start + Direct
        /\ weapon = chain.weapon /\ Related(chain, sel)
    BY <2>1 DEF ComboInv, LinkIsSound
  <2>3. Related(chain, sel)'
    <3>1. CASE chain.target = None  BY <2>1, <2>2, <3>1 DEF Related, Slain
    <3>2. CASE chain.target # None
      <4>1. chain.target \in Target /\ Live(chain.target) /\ Live(chain.target)'
        BY <1>2, <2>1, <2>2, <3>2, ChainFields DEF Related
      <4>2. sel' = sel  BY <2>1, <2>2, <3>2 DEF Related, Slain
      <4> QED  BY <2>1, <2>2, <3>2, <4>1, <4>2 DEF Related, Live
    <3> QED  BY <3>1, <3>2
  <2> QED  BY <2>1, <2>2, <2>3 DEF LinkIsSound, Active, body
<1>6. HitOfChain'  BY DEF ComboInv, HitOfChain, Slain
<1> QED  BY <1>1, <1>3, <1>4, <1>5, <1>6

LEMMA KillInv == ASSUME ComboInv, NEW m \in Monster, Kill(m) PROVE ComboInv'
<1>1. hit' \in Hit \cup {None} /\ (hit' # None => hit # None /\ hit'.target = hit.target)
  BY OutdatedFacts DEF ComboInv, TypeOK, Kill
<1>2. /\ monster' \in [Monster -> [alive : BOOLEAN, life : Nat]]
      /\ sel' \in Target \cup {None} /\ view' \in Target \cup {None}
      /\ chain' \in Chain \cup {None}
      /\ ShownTargetIsLive' /\ LinkIsSound' /\ HitOfChain'
  BY <1>1, SlainFacts DEF Kill, body
<1> QED  BY <1>1, <1>2 DEF ComboInv, TypeOK, Kill, body

LEMMA KillTargetInv == ASSUME ComboInv, KillTarget PROVE ComboInv'
<1>1. hit \in Hit /\ hit.target.id \in Monster
  BY HitFields, TargetFields DEF ComboInv, TypeOK, KillTarget, TakeHit, HitIsDue
<1>2. /\ monster' \in [Monster -> [alive : BOOLEAN, life : Nat]]
      /\ sel' \in Target \cup {None} /\ view' \in Target \cup {None}
      /\ chain' \in Chain \cup {None}
      /\ ShownTargetIsLive' /\ LinkIsSound' /\ HitOfChain'
  BY <1>1, SlainFacts DEF KillTarget, TakeHit, body
<1> QED  BY <1>2 DEF ComboInv, TypeOK, KillTarget, TakeHit, body

LEMMA RespawnInv == ASSUME ComboInv, NEW m \in Monster, Respawn(m) PROVE ComboInv'
<1>1. /\ monster' \in [Monster -> [alive : BOOLEAN, life : Nat]]
      /\ \A n \in Monster \ {m} : monster'[n] = monster[n]
  <2>1. [alive |-> TRUE, life |-> monster[m].life + 1] \in [alive : BOOLEAN, life : Nat]
    BY MonsterFields, TRUE \in BOOLEAN DEF ComboInv
  <2> QED  BY <2>1 DEF ComboInv, TypeOK, Respawn
<1>2. ASSUME NEW t \in Target, Live(t)
      PROVE  Live(t)'
  <2>1. t.id \in Monster /\ t.id # m  BY <1>2, TargetFields DEF Live, Respawn
  <2> QED  BY <1>1, <1>2, <2>1 DEF Live
<1>3. TypeOK'  BY <1>1 DEF ComboInv, TypeOK, Respawn, body, selection, action
<1>4. ShownTargetIsLive'
  BY <1>2 DEF ComboInv, TypeOK, ShownTargetIsLive, Respawn, Active, Live, body, selection
<1>5. LinkIsSound'
  <2> SUFFICES ASSUME chain # None, chain.link # None
               PROVE  LinkIsSound'
    BY DEF LinkIsSound, Respawn, action
  <2>1. chain \in Chain /\ chain' = chain /\ sel' = sel
    BY DEF ComboInv, TypeOK, Respawn, action, selection
  <2>2. /\ Active /\ chain.step < Last /\ chain.link = chain.start + Direct
        /\ weapon = chain.weapon /\ Related(chain, sel)
    BY DEF ComboInv, LinkIsSound
  <2>3. Related(chain, sel)'  BY <1>2, <2>1, <2>2, ChainFields DEF Related, Live
  <2> QED  BY <2>1, <2>2, <2>3 DEF LinkIsSound, Respawn, Active, body
<1> QED  BY <1>3, <1>4, <1>5 DEF ComboInv, HitOfChain, Respawn, action

LEMMA WoundInv == ASSUME ComboInv, Wound PROVE ComboInv'
<1>1. hit \in Hit /\ hit.target \in Target /\ Live(hit.target) /\ Active
  BY HitFields DEF ComboInv, TypeOK, Wound, TakeHit, HitIsDue, Lands
<1>2. now \in Nat /\ now + Interval \in Nat  BY DEF ComboInv, TypeOK
<1>3. TypeOK'  BY <1>1, <1>2 DEF ComboInv, TypeOK, Wound, TakeHit, body, selection
<1>4. CASE FallsBack
  <2>1. ShownTargetIsLive'
    BY <1>1, <1>4 DEF Wound, TakeHit, ShownTargetIsLive, Active, Live, body
  <2>2. LinkIsSound'
    <3> SUFFICES ASSUME chain # None, chain.link # None
                 PROVE  LinkIsSound'
      BY DEF LinkIsSound, Wound
    <3>1. /\ Active /\ chain.step < Last /\ chain.link = chain.start + Direct
          /\ weapon = chain.weapon /\ Related(chain, sel)
      BY DEF ComboInv, LinkIsSound
    <3>2. hit.target = chain.target /\ hit.target # None
      BY <1>1 DEF ComboInv, HitOfChain, Wound, TakeHit, HitIsDue, Live
    <3>3. Related(chain, sel)'  BY <1>1, <1>4, <3>2 DEF Related, Wound, TakeHit, Live
    <3> QED  BY <3>1, <3>3 DEF LinkIsSound, Wound, TakeHit, Active, body
  <2> QED  BY <1>3, <2>1, <2>2 DEF ComboInv, HitOfChain, Wound, TakeHit
<1>5. CASE ~FallsBack  BY <1>3, <1>5, SameChainInv DEF Wound, TakeHit, selection
<1> QED  BY <1>4, <1>5

LEMMA EndTickInv == ASSUME ComboInv, EndTick PROVE ComboInv'
<1>1. CASE chain # None /\ AdvanceChain
  <2>1. /\ chain' \in Chain /\ chain'.link = None
        /\ until' \in Nat /\ next' \in Nat /\ touched' \in BOOLEAN
        /\ hit' \in Hit \cup {None}
        /\ hit' # None => hit'.target = chain'.target
    BY <1>1, AdvanceFacts DEF ComboInv
  <2>2. TypeOK'  BY <2>1 DEF ComboInv, TypeOK, EndTick, body, selection
  <2>3. HitOfChain'  BY <2>1 DEF HitOfChain
  <2> QED  BY <2>1, <2>2, <2>3, NoLinkInv DEF EndTick, selection
<1>2. CASE chain' \in {None, Unlinked(chain)} /\ UNCHANGED <<hit, until, next, touched>>
  <2>1. TypeOK'  BY <1>2, UnlinkedFacts DEF ComboInv, TypeOK, EndTick, body, selection
  <2>2. HitOfChain' /\ (chain' # None => chain'.link = None)
    BY <1>2, UnlinkedFacts DEF ComboInv, TypeOK, HitOfChain
  <2> QED  BY <2>1, <2>2, NoLinkInv DEF EndTick, selection
<1>3. CASE UNCHANGED <<action, touched>>
  <2>1. TypeOK'  BY <1>3 DEF ComboInv, TypeOK, EndTick, body, selection, action
  <2> QED  BY <1>3, <2>1, SameChainInv DEF EndTick, selection, action
<1> QED  BY <1>1, <1>2, <1>3 DEF EndTick, Transit

\* The steps that only move the clock, the phase, the hit or a dead body.
LEMMA RestInv == ASSUME ComboInv, BeginTick \/ Miss \/ Tick \/ Rise \/ UNCHANGED vars PROVE ComboInv'
<1>1. CASE BeginTick
  BY <1>1, SameChainInv DEF BeginTick, ComboInv, TypeOK, body, selection, action
<1>2. CASE Miss
  BY <1>2, SameChainInv DEF Miss, TakeHit, ComboInv, TypeOK, body, selection
<1>3. CASE Tick
  BY <1>3, SameChainInv DEF Tick, ComboInv, TypeOK, body, selection, action
<1>4. CASE Rise
  <2>1. TypeOK'  BY <1>4, TRUE \in BOOLEAN DEF ComboInv, TypeOK, Rise, selection, action
  <2> QED
    BY <1>4, <2>1 DEF ComboInv, Rise, ShownTargetIsLive, LinkIsSound, HitOfChain, Active, Live,
                      selection, action
<1>5. CASE UNCHANGED vars
  BY <1>5, SameChainInv DEF vars, ComboInv, TypeOK, body, selection, action
<1> QED  BY <1>1, <1>2, <1>3, <1>4, <1>5

-----------------------------------------------------------------------------
(* The theorems.                                                             *)

LEMMA ComboBegins == Init => ComboInv
<1> SUFFICES ASSUME Init
             PROVE  ComboInv
  OBVIOUS
<1>1. monster \in [Monster -> [alive : BOOLEAN, life : Nat]]
  BY TRUE \in BOOLEAN DEF Init
<1>2. TypeOK  BY <1>1, TRUE \in BOOLEAN, FALSE \in BOOLEAN DEF Init, TypeOK
<1> QED  BY <1>2 DEF Init, ComboInv, ShownTargetIsLive, LinkIsSound, HitOfChain

LEMMA ComboStep == ComboInv /\ [Next]_vars => ComboInv'
<1> SUFFICES ASSUME ComboInv, [Next]_vars
             PROVE  ComboInv'
  OBVIOUS
<1>1. CASE Simulate  BY <1>1, RestInv, WoundInv, KillTargetInv, EndTickInv DEF Simulate
<1>2. CASE \E m \in Monster : Select(m) \/ Kill(m) \/ Respawn(m)
  BY <1>2, SelectInv, KillInv, RespawnInv
<1>3. CASE \E t \in {Life(m) : m \in Monster} \cup {None, sel} : Press(t)
  <2>1. PICK t \in {Life(m) : m \in Monster} \cup {None, sel} : Press(t)  BY <1>3
  <2>2. t \in Target \cup {None}  BY MonsterFields DEF ComboInv, TypeOK
  <2> QED  BY <2>1, <2>2, PressInv
<1>4. CASE \E w \in Weapon \cup {None} : Equip(w)  BY <1>4, EquipInv
<1>5. CASE \E K \in SUBSET {m \in Monster : monster[m].alive} : Strike(K)
  <2>1. PICK K \in SUBSET Monster : Strike(K)  BY <1>5
  <2> QED  BY <2>1, StrikeInv
<1>6. CASE ClearTarget \/ Queue \/ DirectLink \/ Move \/ Cast
  BY <1>6, ClearTargetInv, QueueInv, DirectLinkInv, MoveInv, CastInv
<1>7. CASE Tick \/ Die \/ Rise \/ Enter \/ Leave \/ UNCHANGED vars
  BY <1>7, RestInv, LeaveInv, EnterInv
<1> QED  BY <1>1, <1>2, <1>3, <1>4, <1>5, <1>6, <1>7 DEF Next

LEMMA ComboInvCorrect == Spec => []ComboInv
  BY ComboBegins, ComboStep, PTL DEF Spec

\* The controller row keeps its type.
THEOREM ComboTypeCorrect == Spec => []TypeOK
  BY ComboInvCorrect, PTL DEF ComboInv

\* A target that is shown is the one aimed at, and alive.
THEOREM ShownTargetCorrect == Spec => []ShownTargetIsLive
  BY ComboInvCorrect, PTL DEF ComboInv

\* A queued link can always be carried out by the tick that finds it due.
THEOREM LinkIsSoundCorrect == Spec => []LinkIsSound
  BY ComboInvCorrect, PTL DEF ComboInv

-----------------------------------------------------------------------------
(* Timing: what the scheduled hit, the wait for the next change of target    *)
(* and the player's last choice have to do with one another.                 *)

\* A hit is over before its action is; a hit that is still current saw the
\* last choice of the player; no wait reaches further than an interval.
Timed ==
    /\ hit # None => hit.upto <= until /\ (hit.current => ~touched)
    /\ hold <= now + Interval

LEMMA OutdatedTimes ==
    ASSUME NEW h \in Hit \cup {None}, Outdated(h) # None
    PROVE  h # None /\ Outdated(h).upto = h.upto /\ ~Outdated(h).current
  BY DEF Outdated

\* The hit of a new action is inside it.
LEMMA StartActionTimes ==
    ASSUME TypeOK, NEW step, NEW t \in Target \cup {None}, NEW b \in BOOLEAN,
           StartAction(step, t, b)
    PROVE  /\ until' = now + Duration /\ ~touched'
           /\ hit' # None => hit'.upto <= until'
<1>1. PICK w \in HitWindow :
         hit' = IF t = None \/ step = Last THEN None
                ELSE [target |-> t, at |-> now + w[1], upto |-> now + w[2],
                      current |-> TRUE, selectable |-> b]
  BY DEF StartAction
<1>2. w[1] \in Nat /\ w[2] \in Nat /\ w[2] <= Duration /\ now \in Nat  BY DEF TypeOK
<1>3. hit' # None => hit'.upto = now + w[2]  BY <1>1
<1> QED  BY <1>2, <1>3 DEF StartAction

LEMMA StartedTimed ==
    ASSUME ComboInv, Timed, NEW step, NEW t \in Target \cup {None}, NEW b \in BOOLEAN,
           StartAction(step, t, b), UNCHANGED <<now, hold>>
    PROVE  Timed'
  BY StartActionTimes DEF ComboInv, Timed

LEMMA AdvancedTimed ==
    ASSUME ComboInv, Timed, chain # None, AdvanceChain, UNCHANGED <<now, hold>>
    PROVE  Timed'
<1> DEFINE b == chain.selectable /\ sel = None /\ chain.target # None
<1>1. chain.target \in Target \cup {None} /\ chain.selectable \in BOOLEAN
  BY ChainFields DEF ComboInv, TypeOK
<1>2. b \in BOOLEAN
  OBVIOUS
<1>3. StartAction(chain.step + 1, chain.target, b)  BY DEF AdvanceChain
<1> HIDE DEF b
<1> QED  BY <1>1, <1>2, <1>3, StartedTimed

\* Steps that schedule nothing: the hit stays, goes, or is outdated.
LEMMA QuietTimed ==
    ASSUME ComboInv, Timed, UNCHANGED until,
           \/ hit' = None
           \/ hit' = hit /\ touched' = touched
           \/ hit' = Outdated(hit),
           \/ UNCHANGED <<now, hold>>
           \/ now' = now + 1 /\ hold' = hold
           \/ now' = now /\ hold' = now + Interval
    PROVE  Timed'
<1>1. now \in Nat /\ hold \in Nat /\ Interval \in Nat /\ hit \in Hit \cup {None}
  BY DEF ComboInv, TypeOK
<1>2. hold' <= now' + Interval  BY <1>1 DEF Timed
<1>3. hit' # None => hit'.upto <= until' /\ (hit'.current => ~touched')
  BY <1>1, OutdatedTimes DEF Timed
<1> QED  BY <1>2, <1>3 DEF Timed

\* What one of the steps of Next does, by what it does to the clock, to the
\* action and to the target.
Starts ==
    \/ /\ chain # None /\ AdvanceChain
    \/ /\ chain # None => Expired(chain)
       /\ now >= next
       /\ \E step \in {0, 1}, t \in Target \cup {None}, b \in BOOLEAN : StartAction(step, t, b)
    \/ /\ now >= until /\ now >= next
       /\ StartAction(0, None, FALSE)

LEMMA Steps ==
    ASSUME ComboInv, [Next]_vars
    PROVE  \/ Starts /\ UNCHANGED <<now, hold, sel>>
           \/ Select(sel'.id) /\ sel'.id \in Monster
           \/ Wound
           \/ (Leave \/ Die) /\ UNCHANGED <<now, hold>>
           \/ /\ UNCHANGED <<until, next, hold>> /\ sel' \in {None, sel}
              /\ now' = now \/ now' = now + 1
              /\ hit' = None \/ hit' = Outdated(hit) \/ (hit' = hit /\ touched' = touched)
<1>1. CASE \E m \in Monster : Select(m) \/ Kill(m) \/ Respawn(m)
  <2>1. PICK m \in Monster : Select(m) \/ Kill(m) \/ Respawn(m)  BY <1>1
  <2>2. CASE Select(m)  BY <2>2, MonsterFields DEF ComboInv, Select
  <2>3. CASE Kill(m)  BY <2>3 DEF Kill, Slain
  <2>4. CASE Respawn(m)  BY <2>4 DEF Respawn, selection, action
  <2> QED  BY <2>1, <2>2, <2>3, <2>4
<1>2. CASE \E t \in {Life(m) : m \in Monster} \cup {None, sel} : Press(t)
  <2>1. PICK t \in {Life(m) : m \in Monster} \cup {None, sel} : Press(t)  BY <1>2
  <2>2. t \in Target \cup {None}  BY MonsterFields DEF ComboInv, TypeOK
  <2> DEFINE b == sel = None /\ t # None
             step == IF weapon = None THEN 0 ELSE 1
  <2>3. StartAction(step, t, b) /\ (chain # None => Expired(chain)) /\ now >= next
        /\ UNCHANGED <<now, hold, sel>>
    BY <2>1 DEF Press, selection
  <2>4. b \in BOOLEAN /\ step \in {0, 1}
    OBVIOUS
  <2> HIDE DEF b, step
  <2>5. Starts  BY <2>2, <2>3, <2>4 DEF Starts
  <2> QED  BY <2>3, <2>5
<1>3. CASE \E w \in Weapon \cup {None} : Equip(w)  BY <1>3 DEF Equip, selection
<1>4. CASE \E K \in SUBSET {m \in Monster : monster[m].alive} : Strike(K)
  BY <1>4 DEF Strike, Starts
<1>5. CASE DirectLink  BY <1>5 DEF DirectLink, Starts, selection
<1>6. CASE Cast  BY <1>6 DEF Cast, Starts, selection
<1>7. CASE ClearTarget \/ Queue \/ Move \/ Enter
  <2>1. CASE ClearTarget  BY <2>1 DEF ClearTarget, ClearSelection
  <2>2. CASE Queue  BY <2>2 DEF Queue, selection
  <2>3. CASE Move  BY <2>3 DEF Move, selection
  <2>4. CASE Enter  BY <2>4 DEF Enter, ClearSelection
  <2> QED  BY <1>7, <2>1, <2>2, <2>3, <2>4
<1>8. CASE Leave \/ Die  BY <1>8 DEF Leave, Die, Withdraw, ClearSelection
<1>9. CASE Tick \/ Rise \/ BeginTick \/ Miss \/ KillTarget \/ UNCHANGED vars
  BY <1>9 DEF Tick, Rise, BeginTick, Miss, KillTarget, TakeHit, Slain, selection, action, vars
<1>10. CASE EndTick
  <2>1. CASE chain # None /\ AdvanceChain  BY <1>10, <2>1 DEF EndTick, Starts, selection
  <2>2. CASE UNCHANGED <<hit, until, next, touched>>
    BY <1>10, <2>2 DEF EndTick, selection
  <2> QED  BY <1>10, <2>1, <2>2 DEF EndTick, Transit, action
<1> QED
  BY <1>1, <1>2, <1>3, <1>4, <1>5, <1>6, <1>7, <1>8, <1>9, <1>10 DEF Next, Simulate

LEMMA StartsTimed ==
    ASSUME ComboInv, Timed, Starts, UNCHANGED <<now, hold>>
    PROVE  Timed'
<1>1. CASE chain # None /\ AdvanceChain  BY <1>1, AdvancedTimed
<1>2. CASE \E step \in {0, 1}, t \in Target \cup {None}, b \in BOOLEAN : StartAction(step, t, b)
  BY <1>2, StartedTimed
<1>3. CASE StartAction(0, None, FALSE)  BY <1>3, StartedTimed, FALSE \in BOOLEAN
<1> QED  BY <1>1, <1>2, <1>3 DEF Starts

LEMMA TimedStep == ComboInv /\ Timed /\ [Next]_vars => Timed'
<1> SUFFICES ASSUME ComboInv, Timed, [Next]_vars
             PROVE  Timed'
  OBVIOUS
<1>1. CASE Starts /\ UNCHANGED <<now, hold, sel>>  BY <1>1, StartsTimed
<1>2. CASE Select(sel'.id)  BY <1>2, QuietTimed DEF Select
<1>3. CASE Wound  BY <1>3, QuietTimed DEF Wound, TakeHit, selection
<1>4. CASE (Leave \/ Die) /\ UNCHANGED <<now, hold>>
  BY <1>4 DEF Timed, Leave, Die, Withdraw
<1>5. CASE /\ UNCHANGED <<until, next, hold>>
           /\ now' = now \/ now' = now + 1
           /\ hit' = None \/ hit' = Outdated(hit) \/ (hit' = hit /\ touched' = touched)
  BY <1>5, QuietTimed
<1> QED  BY <1>1, <1>2, <1>3, <1>4, <1>5, Steps

LEMMA TimedCorrect == Spec => []Timed
<1>1. Init => Timed  BY DEF Init, Timed
<1> QED  BY <1>1, TimedStep, ComboInvCorrect, PTL DEF Spec

\* A hit does not choose over the player's choice, and nothing shortens the
\* wait for the next change of target: neither clearing, dying and leaving nor
\* coming back (select_fallback_after_hit, combat_target_change_not_before_us).
THEOREM TargetIsThePlayersCorrect == Spec => TargetIsThePlayers
<1>1. ASSUME ComboInv, Timed, [Next]_vars
      PROVE  /\ phase = "hits" /\ sel' \notin {None, sel} => ~touched
             /\ hold' >= hold /\ (sel' \notin {None, sel} => now >= hold)
  <2>1. now \in Nat /\ hold \in Nat /\ Interval \in Nat  BY <1>1 DEF ComboInv, TypeOK
  <2>2. CASE UNCHANGED hold /\ sel' \in {None, sel}  BY <2>1, <2>2
  <2>3. CASE Select(sel'.id)
    <3>1. hold' = now + Interval /\ phase = "idle" /\ (sel' = sel \/ now >= hold)
      BY <2>3 DEF Select
    <3> QED  BY <2>1, <3>1, <1>1 DEF Timed
  <2>4. CASE Wound
    <3>1. CASE FallsBack
      <4>1. hold' = now + Interval /\ now >= hold /\ hit # None /\ hit.current
        BY <2>4, <3>1 DEF Wound, TakeHit, HitIsDue, FallsBack
      <4> QED  BY <1>1, <2>1, <4>1 DEF Timed
    <3>2. CASE ~FallsBack  BY <2>1, <2>4, <3>2 DEF Wound, selection
    <3> QED  BY <3>1, <3>2
  <2>5. CASE Leave \/ Die  BY <2>1, <2>5 DEF Leave, Die, Withdraw, ClearSelection
  <2> QED  BY <1>1, <2>2, <2>3, <2>4, <2>5, Steps
<1>2. ComboInv /\ Timed /\ [Next]_vars
        => /\ [phase = "hits" /\ sel' \notin {None, sel} => ~touched]_vars
           /\ [hold' >= hold /\ (sel' \notin {None, sel} => now >= hold)]_vars
  BY <1>1
<1> QED  BY <1>2, ComboInvCorrect, TimedCorrect, PTL
     DEF Spec, TargetIsThePlayers, PlayersChoiceStands, ChurnIsLimited

\* A tick leaves no link behind that was due (resolve_due_transitions).
THEOREM NoLinkIsLateCorrect == Spec => NoLinkIsLate
<1>1. ASSUME ComboInv, Next, phase = "hits", phase' = "idle"
      PROVE  EndTick
  BY <1>1 DEF Next, Simulate, BeginTick, Miss, Wound, KillTarget, TakeHit, Tick, Die, Rise,
              Enter, Leave, Withdraw, ClearTarget, Queue, DirectLink, Move, Cast, Select,
              Kill, Respawn, Press, Equip, Strike
<1>2. ASSUME ComboInv, EndTick
      PROVE  ~(chain' # None /\ chain'.link # None /\ now > chain'.link)
  <2>1. chain \in Chain \cup {None}  BY <1>2 DEF ComboInv, TypeOK
  <2>2. CASE chain = None  BY <1>2, <2>2 DEF EndTick, Transit, action
  <2>3. CASE chain # None /\ Expired(chain)  BY <1>2, <2>3 DEF EndTick, Transit
  <2>4. CASE chain # None /\ ~Expired(chain) /\ LinkIsDue /\ CanAdvance
    <3>1. AdvanceChain  BY <1>2, <2>4 DEF EndTick, Transit
    <3> QED  BY <1>2, <2>4, <3>1, AdvanceFacts DEF ComboInv
  <2>5. CASE chain # None /\ ~Expired(chain) /\ LinkIsDue /\ ~CanAdvance
    <3>1. chain' = Unlinked(chain)  BY <1>2, <2>5 DEF EndTick, Transit
    <3> QED  BY <2>1, <3>1, UnlinkedFacts
  <2>6. CASE chain # None /\ ~Expired(chain) /\ ~LinkIsDue
    <3>1. chain' = chain  BY <1>2, <2>6 DEF EndTick, Transit, action
    <3> QED  BY <2>6, <3>1 DEF LinkIsDue
  <2> QED  BY <2>2, <2>3, <2>4, <2>5, <2>6
<1>3. ComboInv /\ [Next]_vars
        => [phase = "hits" /\ phase' = "idle"
            => ~(chain' # None /\ chain'.link # None /\ now > chain'.link)]_vars
  BY <1>1, <1>2
<1> QED  BY <1>3, ComboInvCorrect, PTL DEF Spec, NoLinkIsLate

\* No attack, link or skill takes away a scheduled hit that could still land,
\* as long as every window closes before the cooldown of its action ends, as
\* those of the player's actions do (transition_to_next_step, next_attack_us).
THEOREM NoHitIsLostCorrect ==
    ASSUME \A w \in HitWindow : w[2] < Cooldown
    PROVE  Spec => NoHitIsLost
<1> DEFINE Closes == hit # None => hit.upto < next
<1>1. Init => Closes  BY DEF Init
<1>2. ASSUME TypeOK, NEW step, NEW t \in Target \cup {None}, NEW b \in BOOLEAN,
             StartAction(step, t, b)
      PROVE  Closes'
  <2>1. PICK w \in HitWindow :
           hit' = IF t = None \/ step = Last THEN None
                  ELSE [target |-> t, at |-> now + w[1], upto |-> now + w[2],
                        current |-> TRUE, selectable |-> b]
    BY <1>2 DEF StartAction
  <2>2. w[1] \in Nat /\ w[2] \in Nat /\ w[2] < Cooldown /\ now \in Nat
    BY <1>2 DEF TypeOK
  <2>3. hit' # None => hit'.upto = now + w[2]  BY <2>1
  <2>4. next' >= now + Cooldown  BY <1>2, <2>2 DEF StartAction, Later
  <2>5. next' \in Nat  BY <1>2, StartActionFacts
  <2> QED  BY <2>2, <2>3, <2>4, <2>5
<1>3. ASSUME ComboInv, Starts
      PROVE  Closes'
  <2> HIDE DEF Closes
  <2>1. CASE chain # None /\ AdvanceChain
    <3> DEFINE b == chain.selectable /\ sel = None /\ chain.target # None
    <3>1. chain.target \in Target \cup {None} /\ chain.selectable \in BOOLEAN
      BY <1>3, <2>1, ChainFields DEF ComboInv, TypeOK
    <3>2. b \in BOOLEAN
      OBVIOUS
    <3>3. StartAction(chain.step + 1, chain.target, b)  BY <2>1 DEF AdvanceChain
    <3> HIDE DEF b
    <3> QED  BY <1>2, <1>3, <3>1, <3>2, <3>3 DEF ComboInv
  <2>2. CASE \E step \in {0, 1}, t \in Target \cup {None}, b \in BOOLEAN :
                StartAction(step, t, b)
    BY <1>2, <1>3, <2>2 DEF ComboInv
  <2>3. CASE StartAction(0, None, FALSE)
    BY <1>2, <1>3, <2>3, FALSE \in BOOLEAN DEF ComboInv
  <2> QED  BY <1>3, <2>1, <2>2, <2>3 DEF Starts
<1>4. ASSUME ComboInv, Timed, Closes, [Next]_vars
      PROVE  Closes' /\ (until' \notin {until, 0} /\ hit # None => now > hit.upto)
  <2>1. /\ now \in Nat /\ until \in Nat /\ next \in Nat
        /\ hit # None => hit.upto \in Nat /\ hit.upto <= until /\ hit.upto < next
    BY <1>4, HitFields DEF ComboInv, TypeOK, Timed
  <2>2. CASE Starts
    <3>1. ASSUME hit # None PROVE now > hit.upto
      <4>1. CASE chain # None /\ AdvanceChain
        <5>1. now > hit.upto \/ now > until  BY <3>1, <4>1 DEF AdvanceChain, CanAdvance
        <5> QED  BY <2>1, <3>1, <5>1
      <4>2. CASE now >= next  BY <2>1, <3>1, <4>2
      <4> QED  BY <2>2, <4>1, <4>2 DEF Starts
    <3> HIDE DEF Closes
    <3> QED  BY <1>3, <1>4, <2>2, <3>1
  <2>3. CASE Select(sel'.id)  BY <1>4, <2>3, OutdatedTimes DEF Select, ComboInv, TypeOK
  <2>4. CASE Wound  BY <2>4 DEF Wound, TakeHit
  <2>5. CASE Leave \/ Die  BY <2>5 DEF Leave, Die, Withdraw
  <2>6. CASE /\ UNCHANGED <<until, next, hold>>
             /\ hit' = None \/ hit' = Outdated(hit) \/ (hit' = hit /\ touched' = touched)
    BY <1>4, <2>6, OutdatedTimes DEF ComboInv, TypeOK
  <2> HIDE DEF Closes
  <2> QED  BY <1>4, <2>2, <2>3, <2>4, <2>5, <2>6, Steps
<1>5. ComboInv /\ Timed /\ Closes /\ [Next]_vars
        => Closes' /\ [until' \notin {until, 0} /\ hit # None => now > hit.upto]_vars
  BY <1>4
<1> HIDE DEF Closes
<1> QED  BY <1>1, <1>5, ComboInvCorrect, TimedCorrect, PTL DEF Spec, NoHitIsLost

HIDE ComboAssumption

-----------------------------------------------------------------------------
(* Charges, buffs and potions: first what does not count ticks, then how     *)
(* long a buff lasts, then what a step may do.                               *)

\* The promises that do not count ticks hold together.
EffectsInv ==
    EffectsTypeOK /\ ChargeIsOwed /\ BuffsArePaused /\ RecoveryIsOfThisStay

USE EffectsAssumption

LEMMA Constants ==
    /\ Second \in Nat \ {0} /\ FullHealth \in Nat \ {0} /\ FullSp \in Nat \ {0}
    /\ ChargeCost \in Nat \ {0} /\ ChargeTime \in Nat \ {0} /\ ChargeCooldown \in Nat \ {0}
    /\ BuffCost \in Nat \ {0} /\ BuffTicks \in Nat \ {0} /\ Gulp \in Nat \ {0}
    /\ Sip \in Nat \ {0} /\ RespawnTime \in Nat \ {0}
  OBVIOUS

LEMMA RowsAreThere ==
    /\ Absent \notin Charge /\ Absent \notin Call /\ Absent \notin BuffRow
    /\ Absent \notin Pool /\ Absent \notin Connection
  OBVIOUS

\* Settling a row keeps its life; it then runs unless it was paused.
LEMMA ElapsedFacts ==
    ASSUME clock \in Nat, NEW row \in BuffRow, NEW pause \in BOOLEAN
    PROVE  /\ Elapsed(row, pause) \in BuffRow \cup {Absent}
           /\ Elapsed(row, pause) # Absent =>
                  /\ Elapsed(row, pause).life = row.life
                  /\ pause => Elapsed(row, pause).next = 0
                  /\ ~pause /\ row.next > 0 => Elapsed(row, pause).next > 0
<1> DEFINE due == IF row.next > 0 /\ clock >= row.next
                  THEN 1 + (clock - row.next) \div Second ELSE 0
           tick == IF due > 0 THEN NextTick(row) ELSE row.next
           settled == [life |-> row.life, ticks |-> row.ticks - due,
                       next |-> IF pause THEN 0 ELSE tick]
<1>1. row.life \in Nat /\ row.ticks \in Nat /\ row.next \in Nat  BY DEF BuffRow
<1>2. due \in Nat
  <2>1. CASE row.next > 0 /\ clock >= row.next
    <3>1. clock - row.next \in Nat  BY <1>1, <2>1
    <3>2. (clock - row.next) \div Second \in Nat  BY <3>1, Constants
    <3> QED  BY <2>1, <3>2
  <2>2. CASE ~(row.next > 0 /\ clock >= row.next)  BY <2>2
  <2> QED  BY <2>1, <2>2
<1>3. tick \in Nat /\ (row.next > 0 => tick > 0)
  <2>1. CASE due > 0
    <3>1. row.next > 0 /\ clock >= row.next  BY <2>1
    <3>2. clock - row.next \in Nat  BY <1>1, <3>1
    <3>3. (clock - row.next) % Second \in 0..(Second - 1)  BY <3>2, Constants
    <3>4. NextTick(row) \in Nat /\ NextTick(row) > 0  BY <3>3, Constants DEF NextTick
    <3> QED  BY <2>1, <3>4
  <2>2. CASE ~(due > 0)  BY <1>1, <2>2
  <2> QED  BY <2>1, <2>2
<1>4. Elapsed(row, pause) = IF row.ticks <= due THEN Absent ELSE settled  BY DEF Elapsed
<1> HIDE DEF due, tick
<1>5. ~(row.ticks <= due) => settled \in BuffRow  BY <1>1, <1>2, <1>3 DEF BuffRow
<1> QED  BY <1>3, <1>4, <1>5

\* What a departure makes of the buffs.
LEMMA PausedFacts ==
    ASSUME EffectsInv
    PROVE  /\ Paused \in [Buff -> BuffRow \cup {Absent}]
           /\ \A b \in Buff : Paused[b] # Absent =>
                  buff[b] # Absent /\ Paused[b].life = life /\ Paused[b].next = 0
<1> SUFFICES ASSUME NEW b \in Buff
             PROVE  /\ Paused[b] \in BuffRow \cup {Absent}
                    /\ Paused[b] # Absent =>
                           buff[b] # Absent /\ Paused[b].life = life /\ Paused[b].next = 0
  BY DEF Paused
<1>1. CASE buff[b] = Absent  BY <1>1 DEF Paused
<1>2. CASE buff[b] # Absent
  <2>1. buff[b] \in BuffRow /\ clock \in Nat /\ buff[b].life = life
    BY <1>2 DEF EffectsInv, EffectsTypeOK, BuffsArePaused
  <2>2. Paused[b] = Elapsed(buff[b], TRUE)  BY <1>2 DEF Paused
  <2> QED  BY <1>2, <2>1, <2>2, ElapsedFacts
<1> QED  BY <1>1, <1>2

LEMMA HistoriesKeepTheirType ==
    ASSUME NEW h \in [Buff -> Nat], NEW rows
    PROVE  OfRows(h, rows) \in [Buff -> Nat]
  BY DEF OfRows

LEMMA BrokenType == EffectsTypeOK => Broken \in [Buff -> Nat]
<1> SUFFICES ASSUME EffectsTypeOK, NEW b \in Buff
             PROVE  Broken[b] \in Nat
  BY DEF Broken
<1>1. breaks[b] \in Nat /\ breaks[b] + 1 \in Nat  BY DEF EffectsTypeOK
<1>2. Broken[b] = breaks[b] + 1 \/ Broken[b] = breaks[b]  BY Zenon DEF Broken
<1> QED  BY <1>1, <1>2

LEMMA InitEstablishes == EffectsInit => EffectsInv
<1> SUFFICES ASSUME EffectsInit PROVE EffectsInv
  OBVIOUS
<1>1. health \in 0..FullHealth /\ sp \in 0..FullSp  BY Constants DEF EffectsInit
<1>2. /\ buff \in [Buff -> BuffRow \cup {Absent}]
      /\ used \in [Buff -> Nat] /\ breaks \in [Buff -> Nat]
  BY DEF EffectsInit
<1>3. health \in Nat /\ clock \in Nat /\ life \in Nat /\ credit \in Int
  BY <1>1, Constants DEF EffectsInit
<1>4. EffectsTypeOK  BY <1>1, <1>2, <1>3 DEF EffectsInit, EffectsTypeOK
<1> QED  BY <1>4 DEF EffectsInit, EffectsInv, ChargeIsOwed, BuffsArePaused,
              RecoveryIsOfThisStay

LEMMA EnterKeeps ==
    ASSUME EffectsInv, NEW c \in Connection, EnterWorld(c)
    PROVE  EffectsInv'
<1> DEFINE rows == [b \in Buff |-> IF buff[b] = Absent THEN Absent ELSE Resumed(buff[b])]
<1>1. ASSUME NEW b \in Buff
      PROVE  /\ rows[b] \in BuffRow \cup {Absent}
             /\ rows[b] # Absent => rows[b].life = life /\ health > 0 /\ rows[b].next > 0
  <2>1. CASE buff[b] = Absent  BY <2>1
  <2>2. CASE buff[b] # Absent
    <3>1. buff[b] \in BuffRow /\ clock + Second \in Nat /\ clock + Second > 0
      BY <2>2, Constants DEF EffectsInv, EffectsTypeOK
    <3>2. rows[b] = Resumed(buff[b])  BY <2>2
    <3>3. health \in Nat /\ buff[b].next \in Nat
      BY <3>1, Constants DEF EffectsInv, EffectsTypeOK, BuffRow
    <3> QED  BY <3>1, <3>2, <3>3 DEF Resumed, BuffRow
  <2> QED  BY <2>1, <2>2
<1>2. rows \in [Buff -> BuffRow \cup {Absent}]  BY <1>1
<1>3. buff' = rows /\ used' = OfRows(used, rows) /\ breaks' = OfRows(breaks, rows)
  BY DEF EnterWorld
<1>4. used' \in [Buff -> Nat] /\ breaks' \in [Buff -> Nat]
  BY <1>3, HistoriesKeepTheirType DEF EffectsInv, EffectsTypeOK
<1>5. EffectsTypeOK'  BY <1>2, <1>3, <1>4, RowsAreThere
     DEF EffectsInv, EffectsTypeOK, EnterWorld, vitals, charging, healing
<1>6. BuffsArePaused'  BY <1>1, <1>3 DEF BuffsArePaused, EnterWorld, vitals
<1>7. ChargeIsOwed' /\ RecoveryIsOfThisStay'
  BY DEF EffectsInv, EnterWorld, ChargeIsOwed, RecoveryIsOfThisStay, vitals, charging,
         healing
<1> QED  BY <1>5, <1>6, <1>7 DEF EffectsInv

LEMMA DepartKeeps ==
    ASSUME EffectsInv, Depart
    PROVE  EffectsInv'
<1>1. used' \in [Buff -> Nat] /\ breaks' \in [Buff -> Nat]
  BY HistoriesKeepTheirType, BrokenType DEF EffectsInv, EffectsTypeOK, Depart
<1>2. recovery' = Absent  BY DEF Depart, RecoveryOf
<1>3. EffectsTypeOK'
  BY <1>1, <1>2, PausedFacts DEF EffectsInv, EffectsTypeOK, Depart, vitals, charging
<1>4. BuffsArePaused'  BY PausedFacts DEF EffectsInv, BuffsArePaused, Depart, vitals
<1> QED  BY <1>2, <1>3, <1>4
     DEF EffectsInv, ChargeIsOwed, RecoveryIsOfThisStay, Depart, vitals, charging

\* The steps of the charge skill.
LEMMA ChargeKeeps ==
    ASSUME EffectsInv,
           \/ \E begin \in BOOLEAN : Send(begin)
           \/ Refuse \/ BeginCharge \/ \E rank \in BOOLEAN : StrikeTarget(rank)
    PROVE  EffectsInv'
<1>1. ASSUME NEW begin \in BOOLEAN, Send(begin)
      PROVE  EffectsInv'
  <2>1. queued' \in Call  BY <1>1 DEF EffectsInv, EffectsTypeOK, Send, Call
  <2> QED  BY <1>1, <2>1
       DEF EffectsInv, EffectsTypeOK, ChargeIsOwed, BuffsArePaused,
           RecoveryIsOfThisStay, Send, standing, vitals, charging, buffing, healing
<1>2. CASE Refuse  BY <1>2 DEF EffectsInv, EffectsTypeOK, ChargeIsOwed, BuffsArePaused,
              RecoveryIsOfThisStay, Refuse, standing, vitals, charging, buffing, healing
<1>3. CASE BeginCharge
  <2>1. charge' \in Charge /\ charge'.life = life /\ credit' = 1
    BY <1>3, Constants DEF EffectsInv, EffectsTypeOK, ChargeIsOwed, BeginCharge,
                           Arrives, Drives, CanBegin, Charge
  <2>2. sp' \in 0..FullSp /\ ready_at' \in Nat
    BY <1>3, Constants DEF EffectsInv, EffectsTypeOK, BeginCharge, CanBegin
  <2> QED  BY <1>3, <2>1, <2>2, RowsAreThere
       DEF EffectsInv, EffectsTypeOK, ChargeIsOwed, BuffsArePaused,
           RecoveryIsOfThisStay, BeginCharge, standing, vitals, buffing, healing
<1>4. ASSUME NEW rank \in BOOLEAN, StrikeTarget(rank)
      PROVE  EffectsInv'
  <2>1. charge' = Absent /\ credit' = 0
    BY <1>4 DEF EffectsInv, EffectsTypeOK, ChargeIsOwed, StrikeTarget, AfterStrike,
                ChargeRuns, CanBegin
  <2>2. sp' \in 0..FullSp /\ ready_at' \in Nat  BY <1>4, Constants
       DEF EffectsInv, EffectsTypeOK, StrikeTarget, SpAfter, CanBegin
  <2>3. health' \in 0..FullHealth /\ health' > 0  BY <1>4, Constants
       DEF EffectsInv, EffectsTypeOK, StrikeTarget, Arrives, Drives
  <2> QED  BY <1>4, <2>1, <2>2, <2>3
       DEF EffectsInv, EffectsTypeOK, ChargeIsOwed, BuffsArePaused,
           RecoveryIsOfThisStay, StrikeTarget, standing, buffing, healing
<1> QED  BY <1>1, <1>2, <1>3, <1>4

LEMMA FirstTicksAreAhead ==
    ASSUME EffectsInv, NEW t \in FirstTicks
    PROVE  t \in Nat /\ t > 0
<1> DEFINE shared == {buff[b].next : b \in {d \in Buff : buff[d] # Absent /\ buff[d].next > clock}}
<1>1. \A u \in shared : u \in Nat /\ u > 0  BY DEF EffectsInv, EffectsTypeOK, BuffRow
<1>2. t = clock + Second \/ t \in shared  BY Zenon DEF FirstTicks
<1>3. clock + Second \in Nat /\ clock + Second > 0
  BY Constants DEF EffectsInv, EffectsTypeOK
<1> QED  BY <1>1, <1>2, <1>3

LEMMA BuffKeeps ==
    ASSUME EffectsInv, NEW b \in Buff, ActivateBuff(b)
    PROVE  EffectsInv'
<1>1. PICK t \in FirstTicks :
          buff' = [buff EXCEPT ![b] = [life |-> life, ticks |-> BuffTicks, next |-> t]]
  BY DEF ActivateBuff
<1>2. t \in Nat /\ t > 0  BY FirstTicksAreAhead
<1>3. [life |-> life, ticks |-> BuffTicks, next |-> t] \in BuffRow
  BY <1>2, Constants DEF EffectsInv, EffectsTypeOK, BuffRow
<1>4. sp' \in 0..FullSp  BY Constants DEF EffectsInv, EffectsTypeOK, ActivateBuff
<1>5. EffectsTypeOK'  BY <1>1, <1>3, <1>4
     DEF EffectsInv, EffectsTypeOK, ActivateBuff, standing, vitals, charging, healing
<1>6. BuffsArePaused'
  BY <1>1, <1>2 DEF EffectsInv, EffectsTypeOK, BuffsArePaused, ActivateBuff, Drives,
                    standing, vitals
<1> QED  BY <1>5, <1>6 DEF EffectsInv, ChargeIsOwed, RecoveryIsOfThisStay, ActivateBuff,
                    standing, vitals, charging, healing

LEMMA DrinkKeeps ==
    ASSUME EffectsInv, NEW hp \in Nat, NEW mana \in Nat, Drink(hp, mana)
    PROVE  EffectsInv'
<1> DEFINE pool == IF recovery # Absent /\ recovery.life = life THEN recovery
                   ELSE [life |-> life, hp |-> 0, sp |-> 0, next |-> FirstStep]
<1>1. FirstStep \in Nat  BY Constants DEF FirstStep, EffectsInv, EffectsTypeOK
<1>2. pool \in Pool /\ pool.life = life  BY <1>1 DEF EffectsInv, EffectsTypeOK, Pool
<1>3. recovery' = [pool EXCEPT !.hp = @ + hp, !.sp = @ + mana]  BY DEF Drink
<1> HIDE DEF pool
<1>4. recovery' \in Pool /\ recovery'.life = life
  <2>1. pool.hp + hp \in Nat /\ pool.sp + mana \in Nat  BY <1>2 DEF Pool
  <2> QED  BY <1>2, <1>3, <2>1 DEF Pool
<1> QED  BY <1>4 DEF EffectsInv, EffectsTypeOK, ChargeIsOwed, BuffsArePaused,
              RecoveryIsOfThisStay, Drink, standing, vitals, charging, buffing

LEMMA TimeKeeps ==
    ASSUME EffectsInv, TimePasses
    PROVE  EffectsInv'
<1>1. used' \in [Buff -> Nat]
  <2>1. \A b \in Buff : used[b] \in Nat /\ used[b] + 1 \in Nat
    BY DEF EffectsInv, EffectsTypeOK
  <2> QED  BY <2>1 DEF TimePasses
<1>2. EffectsTypeOK'
  BY <1>1 DEF EffectsInv, EffectsTypeOK, TimePasses, standing, vitals, charging, healing
<1> QED  BY <1>2 DEF EffectsInv, ChargeIsOwed, BuffsArePaused, RecoveryIsOfThisStay,
              TimePasses, standing, vitals, charging, healing

\* The pool after a tick, for the health h and the life l that the tick leaves.
LEMMA RecoverFacts ==
    ASSUME EffectsInv, NEW here \in BOOLEAN, NEW h \in 0..FullHealth, NEW l \in Nat,
           NEW m \in 0..FullSp, Recover(here, h, m, l)
    PROVE  /\ recovery' \in Pool \cup {Absent}
           /\ recovery' # Absent => here /\ h > 0 /\ recovery'.life = l
           /\ health' \in 0..FullHealth /\ (health' = 0 <=> h = 0)
           /\ sp' \in 0..FullSp /\ healed_at' \in Nat
<1>1. CASE RecoveryOf(here) = Absent \/ RecoveryEnds(here, h, l)
  BY <1>1 DEF Recover, EffectsInv, EffectsTypeOK
<1>2. CASE ~(RecoveryOf(here) = Absent \/ RecoveryEnds(here, h, l))
  <2>1. recovery \in Pool /\ here /\ h > 0 /\ recovery.life = l
    BY <1>2 DEF EffectsInv, EffectsTypeOK, RecoveryOf, RecoveryEnds
  <2>2. recovery.hp \in Nat /\ recovery.sp \in Nat /\ clock + Second \in Nat
    BY <2>1, Constants DEF Pool, EffectsInv, EffectsTypeOK
  <2>3. CASE clock < recovery.next
    BY <1>2, <2>1, <2>3 DEF Recover, EffectsInv, EffectsTypeOK
  <2>4. CASE ~(clock < recovery.next)
    <3> DEFINE give(at, full, pool) == IF at >= full THEN 0 ELSE Lesser(pool, Sip)
               left(at, full, pool) == IF at >= full THEN 0 ELSE pool - Lesser(pool, Sip)
               hp == left(h, FullHealth, recovery.hp)
               mana == left(m, FullSp, recovery.sp)
    <3>1. /\ health' = Lesser(FullHealth, h + give(h, FullHealth, recovery.hp))
          /\ sp' = Lesser(FullSp, m + give(m, FullSp, recovery.sp))
          /\ healed_at' = clock
          /\ recovery' = IF hp = 0 /\ mana = 0 THEN Absent
                         ELSE [recovery EXCEPT !.hp = hp, !.sp = mana,
                                               !.next = clock + Second]
      BY <1>2, <2>4 DEF Recover
    <3>2. give(h, FullHealth, recovery.hp) \in Nat /\ give(m, FullSp, recovery.sp) \in Nat
      BY <2>2, Constants DEF Lesser
    <3>3. hp \in Nat /\ mana \in Nat  BY <2>2, Constants DEF Lesser
    <3> HIDE DEF give, hp, mana
    <3>4. health' \in 0..FullHealth /\ health' > 0
      BY <2>1, <3>1, <3>2, Constants DEF Lesser
    <3>5. sp' \in 0..FullSp
      BY <3>1, <3>2, Constants DEF Lesser, EffectsInv, EffectsTypeOK
    <3>6. recovery' \in Pool \cup {Absent} /\ (recovery' # Absent => recovery'.life = l)
      BY <2>1, <2>2, <3>1, <3>3 DEF Pool
    <3> QED  BY <2>1, <3>1, <3>4, <3>5, <3>6, Constants DEF EffectsInv, EffectsTypeOK
  <2> QED  BY <2>3, <2>4
<1> QED  BY <1>1, <1>2

\* What maintenance makes of one row, of a departed owner (paused) or a present one.
LEMMA MaintainedFacts ==
    ASSUME EffectsInv, NEW here \in BOOLEAN, NEW row \in BuffRow, row.life = life,
           row.next > 0 <=> here
    PROVE  /\ Maintained(row, here) \in BuffRow \cup {Absent}
           /\ Maintained(row, here) # Absent =>
                  /\ Maintained(row, here).life = life /\ health > 0
                  /\ Maintained(row, here).next > 0 <=> here
<1>1. clock \in Nat /\ health \in Nat /\ row.next \in Nat
  BY Constants DEF EffectsInv, EffectsTypeOK, BuffRow
<1>2. CASE health = 0  BY <1>2 DEF Maintained
<1>3. CASE health # 0 /\ here /\ clock >= row.next
  <2>1. Maintained(row, here) = Elapsed(row, FALSE)  BY <1>3 DEF Maintained
  <2>2. /\ Elapsed(row, FALSE) \in BuffRow \cup {Absent}
        /\ Elapsed(row, FALSE) # Absent =>
               Elapsed(row, FALSE).life = row.life /\ Elapsed(row, FALSE).next > 0
    BY <1>1, <1>3, ElapsedFacts
  <2>3. health > 0 /\ here = TRUE  BY <1>1, <1>3
  <2> QED  BY <2>1, <2>2, <2>3
<1>4. CASE health # 0 /\ ~(here /\ clock >= row.next)  BY <1>1, <1>4 DEF Maintained
<1> QED  BY <1>2, <1>3, <1>4

LEMMA SimulateKeeps ==
    ASSUME EffectsInv, NEW met \in Met, NEW bite \in BOOLEAN, SimulateEffects(met, bite)
    PROVE  EffectsInv'
<1> DEFINE here == present /\ leased
           entered == IF here THEN buff ELSE Paused
           kept == [b \in Buff |-> IF entered[b] = Absent THEN Absent
                                   ELSE Maintained(entered[b], here)]
           fell == Felled(met, here)
           stood == AfterHits(met, here)
           mana == IF here /\ health > 0 /\ met = "level" THEN FullSp ELSE sp
           rises == health = 0 /\ clock >= respawn_at
           stands == IF rises THEN FullHealth ELSE stood
           bitten == bite /\ here /\ stands > 0
           after == IF bitten THEN stands - 1 ELSE stands
           defeat == bitten /\ after = 0
           rows == IF fell \/ defeat THEN AfterDefeat(kept) ELSE kept
           stays == ChargeStays(here) /\ ~fell
<1>1. here \in BOOLEAN  BY DEF EffectsInv, EffectsTypeOK
<1>2. /\ stands \in 0..FullHealth /\ after \in 0..FullHealth /\ mana \in 0..FullSp
      /\ fell => after = 0
      /\ ~fell /\ health > 0 => stands > 0
  <2>1. /\ stood \in 0..FullHealth /\ (health = 0 => stood = 0)
        /\ (fell => stood = 0 /\ health > 0)
        /\ (~fell /\ health > 0 => stood > 0)
    BY <1>1, Constants DEF EffectsInv, EffectsTypeOK, AfterHits, Felled, Met
  <2> HIDE DEF stood, fell, here
  <2>2. health \in 0..FullHealth /\ sp \in 0..FullSp  BY DEF EffectsInv, EffectsTypeOK
  <2> QED  BY <2>1, <2>2, Constants
<1>3. /\ life' = IF rises THEN life + 1 ELSE life
      /\ respawn_at' = IF fell \/ defeat THEN clock + RespawnTime
                       ELSE IF rises THEN 0 ELSE respawn_at
      /\ present' = here /\ leased' = here
      /\ charge' = IF stays THEN charge ELSE Absent
      /\ LET lapses == charge # Absent /\ ~stays
         IN  /\ credit' = IF lapses THEN credit - 1 ELSE credit
             /\ queued' = IF lapses THEN OutdatedCall ELSE queued
      /\ buff' = rows /\ used' = OfRows(used, rows)
      /\ breaks' = OfRows(IF present /\ ~here THEN Broken ELSE breaks, rows)
      /\ Recover(here, after, mana, life')
      /\ UNCHANGED <<clock, driver, ready_at>>
  BY DEF SimulateEffects
<1>4. \A b \in Buff :
          /\ kept[b] \in BuffRow \cup {Absent}
          /\ kept[b] # Absent =>
                 kept[b].life = life /\ health > 0 /\ (kept[b].next > 0 <=> here)
  <2> SUFFICES ASSUME NEW b \in Buff
               PROVE  /\ kept[b] \in BuffRow \cup {Absent}
                      /\ kept[b] # Absent => /\ kept[b].life = life /\ health > 0
                                             /\ kept[b].next > 0 <=> here
    OBVIOUS
  <2>1. entered[b] \in BuffRow \cup {Absent}
    BY PausedFacts DEF EffectsInv, EffectsTypeOK
  <2>2. entered[b] # Absent => entered[b].life = life /\ (entered[b].next > 0 <=> here)
    BY PausedFacts DEF EffectsInv, BuffsArePaused
  <2> HIDE DEF entered, here
  <2>3. CASE entered[b] = Absent  BY <2>3
  <2>4. CASE entered[b] # Absent
    <3>1. kept[b] = Maintained(entered[b], here)  BY <2>4
    <3>2. entered[b] \in BuffRow  BY <2>1, <2>4
    <3> HIDE DEF kept
    <3> QED  BY <1>1, <2>2, <2>4, <3>1, <3>2, MaintainedFacts
  <2> QED  BY <2>3, <2>4
<1>5. life' \in Nat /\ respawn_at' \in Nat
  BY <1>3, Constants DEF EffectsInv, EffectsTypeOK
<1> HIDE DEF here, kept, after, defeat, fell, stood, stands, mana
<1>6. rows \in [Buff -> BuffRow \cup {Absent}]
  <2>1. kept \in [Buff -> BuffRow \cup {Absent}]  BY <1>4 DEF kept
  <2> QED  BY <2>1 DEF AfterDefeat
<1>7. used' \in [Buff -> Nat] /\ breaks' \in [Buff -> Nat]
  BY <1>3, HistoriesKeepTheirType, BrokenType DEF EffectsInv, EffectsTypeOK
<1>8. /\ recovery' \in Pool \cup {Absent}
      /\ recovery' # Absent => here /\ after > 0 /\ recovery'.life = life'
      /\ health' \in 0..FullHealth /\ (health' = 0 <=> after = 0)
      /\ sp' \in 0..FullSp /\ healed_at' \in Nat
  BY <1>1, <1>2, <1>3, <1>5, RecoverFacts
<1>9. queued' \in Call \cup {Absent}
  BY <1>3 DEF EffectsInv, EffectsTypeOK, OutdatedCall, Call
<1>10. /\ charge' \in Charge \cup {Absent} /\ credit' \in Int /\ ChargeIsOwed'
  <2>1. CASE stays
    <3>1. charge # Absent /\ charge.life = life /\ health > 0
      BY <2>1 DEF ChargeStays, ChargeRuns
    <3>2. ~rises /\ life' = life  BY <1>3, <3>1, Constants DEF EffectsInv, EffectsTypeOK
    <3> QED  BY <1>3, <2>1, <3>1, <3>2 DEF EffectsInv, EffectsTypeOK, ChargeIsOwed
  <2>2. CASE ~stays  BY <1>3, <2>2 DEF EffectsInv, EffectsTypeOK, ChargeIsOwed
  <2> QED  BY <2>1, <2>2
<1>11. EffectsTypeOK'
  <2>1. present' \in BOOLEAN /\ leased' \in BOOLEAN /\ (present' => driver' # Absent)
    BY <1>1, <1>3 DEF EffectsInv, EffectsTypeOK, here
  <2> QED
    BY <1>3, <1>5, <1>6, <1>7, <1>8, <1>9, <1>10, <2>1 DEF EffectsInv, EffectsTypeOK
<1>12. BuffsArePaused'
  <2> SUFFICES ASSUME NEW b \in Buff, buff'[b] # Absent
               PROVE  /\ buff'[b].life = life' /\ health' > 0
                      /\ buff'[b].next > 0 <=> present'
    BY DEF BuffsArePaused
  <2>1. ~fell /\ ~defeat /\ buff'[b] = kept[b]  BY <1>3 DEF AfterDefeat
  <2>2. kept[b].life = life /\ health > 0 /\ (kept[b].next > 0 <=> here)  BY <1>4, <2>1
  <2>3. ~rises /\ life' = life  BY <1>3, <2>2, Constants DEF EffectsInv, EffectsTypeOK
  <2>4. health' > 0
    <3>1. stands > 0 /\ (bitten => after > 0) /\ after = IF bitten THEN stands - 1 ELSE stands
      BY <1>2, <2>1, <2>2, <2>3 DEF defeat, after
    <3>2. after > 0  BY <1>2, <3>1
    <3> QED  BY <1>2, <1>8, <3>2
  <2> QED  BY <1>3, <2>1, <2>2, <2>3, <2>4
<1>13. RecoveryIsOfThisStay'  BY <1>2, <1>3, <1>8, Constants DEF RecoveryIsOfThisStay
<1> QED  BY <1>10, <1>11, <1>12, <1>13 DEF EffectsInv

\* For every policy of the skills, any number of buffs and of connections: a
\* charge is used up exactly once and never in a later life, buffs run exactly
\* while their living owner is in the world, and a recovery ends with the stay
\* and the life it was begun in (charges.rs:332, player_buffs.rs:267,
\* item_effects.rs:90).
THEOREM EffectsCorrect == EffectsSpec => []EffectsInv
<1>1. EffectsInv /\ [EffectsNext]_effectVars => EffectsInv'
  <2> SUFFICES ASSUME EffectsInv, [EffectsNext]_effectVars
               PROVE  EffectsInv'
    OBVIOUS
  <2>1. ASSUME NEW c \in Connection, EnterWorld(c) PROVE EffectsInv'
    BY <2>1, EnterKeeps
  <2>2. CASE LeaseTurns
    BY <2>2 DEF EffectsInv, EffectsTypeOK, ChargeIsOwed, BuffsArePaused,
                RecoveryIsOfThisStay, LeaseTurns, vitals, charging, buffing, healing
  <2>3. CASE Depart  BY <2>3, DepartKeeps
  <2>4. CASE \/ \E begin \in BOOLEAN : Send(begin)
             \/ Refuse \/ BeginCharge \/ \E rank \in BOOLEAN : StrikeTarget(rank)
    BY <2>4, ChargeKeeps
  <2>5. ASSUME NEW b \in Buff, ActivateBuff(b) PROVE EffectsInv'  BY <2>5, BuffKeeps
  <2>6. CASE Drink(Gulp, 0) \/ Drink(0, Gulp)  BY <2>6, DrinkKeeps, Constants
  <2>7. ASSUME NEW met \in Met, NEW bite \in BOOLEAN, SimulateEffects(met, bite)
        PROVE  EffectsInv'
    BY <2>7, SimulateKeeps
  <2>8. CASE TimePasses  BY <2>8, TimeKeeps
  <2>9. CASE UNCHANGED effectVars
    BY <2>9 DEF EffectsInv, EffectsTypeOK, ChargeIsOwed, BuffsArePaused,
                RecoveryIsOfThisStay, effectVars, standing, vitals, charging, buffing,
                healing
  <2>10. CASE GainLevel  BY <2>10, Constants
       DEF EffectsInv, EffectsTypeOK, ChargeIsOwed, BuffsArePaused, RecoveryIsOfThisStay,
           GainLevel, Drives, standing, charging, buffing, healing
  <2> QED
    BY <2>1, <2>2, <2>3, <2>4, <2>5, <2>6, <2>7, <2>8, <2>9, <2>10 DEF EffectsNext
<1> QED  BY InitEstablishes, <1>1, PTL DEF EffectsSpec

-----------------------------------------------------------------------------
(* How long a buff lasts.                                                    *)

\* A row at the instant t, of a buff that ran for u and was stopped k times.
Running(row, t) == IF row.next = 0 THEN 0 ELSE t - row.next + Second
Paced(row, t, u, k) ==
    /\ row.ticks > 0 /\ row.next <= t + Second
    /\ (BuffTicks - row.ticks) * Second - (Second - 1) <= u - Running(row, t)
    /\ u - Running(row, t) <= (BuffTicks - row.ticks) * Second + k * (Second - 1)

PacedInv == \A b \in Buff : buff[b] # Absent => Paced(buff[b], clock, used[b], breaks[b])

LEMMA DivisionIsExact ==
    ASSUME NEW n \in Int, NEW s \in Int, s > 0
    PROVE  s * (n \div s) = n - (n % s)
  BY SMT

\* Ticks that are paid for by the seconds they took change no balance.
LEMMA TicksAreSeconds ==
    ASSUME NEW d \in Nat
    PROVE  /\ d \div Second \in Nat /\ d % Second \in 0..(Second - 1)
           /\ (1 + d \div Second) * Second = d - (d % Second) + Second
<1>1. Second \in Nat /\ Second > 0  BY Constants
<1>2. d \div Second \in Nat /\ d % Second \in 0..(Second - 1)  BY <1>1
<1>3. Second * (d \div Second) = d - (d % Second)  BY <1>1, DivisionIsExact
<1>4. ASSUME NEW q \in Nat PROVE (1 + q) * Second = Second * q + Second  BY <1>1
<1>5. ASSUME NEW q \in Nat PROVE Second * q \in Nat  BY <1>1
<1> QED  BY <1>1, <1>2, <1>3, <1>4, <1>5

LEMMA ProductsAdd ==
    ASSUME NEW i \in Int, NEW j \in Int, NEW s \in Int
    PROVE  (i + j) * s = i * s + j * s /\ i * s \in Int
  OBVIOUS

\* Settling a running row: the balance stays, and one that ends has lasted.
LEMMA SettledInPace ==
    ASSUME clock \in Nat, NEW row \in BuffRow, NEW u \in Nat, NEW k \in Nat,
           row.next > 0, Paced(row, clock, u, k)
    PROVE  /\ Elapsed(row, FALSE) # Absent =>
                  /\ Paced(Elapsed(row, FALSE), clock, u, k)
                  /\ Elapsed(row, FALSE).next > clock
           /\ Elapsed(row, FALSE) = Absent => u > (BuffTicks - 1) * Second
           /\ Elapsed(row, FALSE) \in BuffRow \cup {Absent}
           /\ Elapsed(row, TRUE) = IF Elapsed(row, FALSE) = Absent THEN Absent
                                   ELSE [Elapsed(row, FALSE) EXCEPT !.next = 0]
<1> DEFINE d == clock - row.next
           due == IF row.next > 0 /\ clock >= row.next THEN 1 + d \div Second ELSE 0
           tick == IF due > 0 THEN NextTick(row) ELSE row.next
           settled(p) == [life |-> row.life, ticks |-> row.ticks - due,
                          next |-> IF p THEN 0 ELSE tick]
<1>1. row.life \in Nat /\ row.ticks \in Nat /\ row.next \in Nat  BY DEF BuffRow
<1>2. Second \in Nat /\ Second > 0 /\ BuffTicks \in Nat  BY Constants
<1>3. \A p \in BOOLEAN : Elapsed(row, p) = IF row.ticks <= due THEN Absent ELSE settled(p)
  BY DEF Elapsed
\* The seconds of the due ticks are those between the two deadlines.
<1>4. due \in Nat /\ tick \in Nat /\ due * Second = tick - row.next
      /\ tick > clock /\ tick <= clock + Second
  <2>1. CASE clock >= row.next
    <3>1. d \in Nat  BY <1>1, <2>1
    <3>2. due = 1 + d \div Second  BY <2>1
    <3>3. due \in Nat /\ due > 0
      <4>1. d \div Second \in Nat  BY <3>1, TicksAreSeconds
      <4> HIDE DEF d, due
      <4> QED  BY <3>2, <4>1
    <3>4. tick = clock + Second - (d % Second)  BY <3>3 DEF NextTick
    <3>5. due * Second = d - (d % Second) + Second  BY <3>1, <3>2, TicksAreSeconds
    <3>6. d % Second \in 0..(Second - 1)  BY <3>1, TicksAreSeconds
    <3> HIDE DEF due, tick
    <3>7. due * Second = tick - row.next  BY <1>1, <1>2, <3>1, <3>4, <3>5, <3>6
    <3> QED  BY <1>1, <1>2, <3>3, <3>4, <3>6, <3>7
  <2>2. CASE ~(clock >= row.next)  BY <1>1, <1>2, <2>2 DEF Paced
  <2> QED  BY <2>1, <2>2
<1> HIDE DEF d, due, tick
<1>5. settled(FALSE) \in BuffRow \/ row.ticks <= due  BY <1>1, <1>4 DEF BuffRow
<1>6. (BuffTicks - row.ticks + due) * Second
          = (BuffTicks - row.ticks) * Second + due * Second
  BY <1>1, <1>2, <1>4, ProductsAdd
<1>7. /\ (BuffTicks - row.ticks) * Second \in Int /\ due * Second \in Int
      /\ k * (Second - 1) \in Int
  BY <1>1, <1>2, <1>4, ProductsAdd
<1>8. /\ (BuffTicks - row.ticks) * Second - (Second - 1) <= u - (clock - row.next + Second)
      /\ u - (clock - row.next + Second) <= (BuffTicks - row.ticks) * Second + k * (Second - 1)
  BY <1>1 DEF Paced, Running
<1>9. ~(row.ticks <= due) => Paced(settled(FALSE), clock, u, k) /\ settled(FALSE).next > clock
  <2> SUFFICES ASSUME ~(row.ticks <= due)
               PROVE  Paced(settled(FALSE), clock, u, k) /\ settled(FALSE).next > clock
    OBVIOUS
  <2>1. settled(FALSE).ticks = row.ticks - due /\ settled(FALSE).next = tick
    OBVIOUS
  <2>2. BuffTicks - (row.ticks - due) = BuffTicks - row.ticks + due  BY <1>1, <1>2, <1>4
  <2>3. tick # 0  BY <1>4
  <2> HIDE DEF settled
  <2>4. /\ (BuffTicks - row.ticks + due) * Second - (Second - 1) <= u - (clock - tick + Second)
        /\ u - (clock - tick + Second)
               <= (BuffTicks - row.ticks + due) * Second + k * (Second - 1)
    BY <1>1, <1>2, <1>4, <1>6, <1>7, <1>8
  <2>5. Running(settled(FALSE), clock) = clock - tick + Second
    BY <2>1, <2>3 DEF Running
  <2>6. settled(FALSE).ticks > 0
    <3>1. due \in Nat  BY <1>4
    <3>2. row.ticks - due > 0  BY <1>1, <3>1
    <3> QED  BY <2>1, <3>2
  <2> QED  BY <1>4, <2>1, <2>2, <2>4, <2>5, <2>6 DEF Paced
<1>10. row.ticks <= due => u > (BuffTicks - 1) * Second
  <2> SUFFICES ASSUME row.ticks <= due PROVE u > (BuffTicks - 1) * Second
    OBVIOUS
  <2> DEFINE over == due - row.ticks
  <2>1. over \in Nat /\ BuffTicks - row.ticks + due = BuffTicks - 1 + 1 + over
    BY <1>1, <1>2, <1>4
  <2> HIDE DEF over
  <2>2. (BuffTicks - 1 + 1 + over) * Second = (BuffTicks - 1) * Second + Second + over * Second
    BY <1>2, <2>1, ProductsAdd
  <2>3. over * Second \in Nat /\ (BuffTicks - 1) * Second \in Int  BY <1>2, <2>1
  <2> QED  BY <1>1, <1>2, <1>4, <1>6, <1>7, <1>8, <2>1, <2>2, <2>3
<1>11. settled(FALSE) # Absent \/ row.ticks <= due  BY <1>5, RowsAreThere
<1>12. settled(TRUE) = [settled(FALSE) EXCEPT !.next = 0]
  OBVIOUS
<1>13. /\ Elapsed(row, FALSE) = IF row.ticks <= due THEN Absent ELSE settled(FALSE)
       /\ Elapsed(row, TRUE) = IF row.ticks <= due THEN Absent ELSE settled(TRUE)
  BY <1>3
<1> HIDE DEF settled
<1> QED  BY <1>5, <1>9, <1>10, <1>11, <1>12, <1>13

\* A pause loses less than the second that it stops.
LEMMA PausedInPace ==
    ASSUME EffectsInv, PacedInv, NEW b \in Buff, buff[b] # Absent
    PROVE  /\ Paused[b] = Absent => used[b] > (BuffTicks - 1) * Second
           /\ Paused[b] # Absent =>
                  Paced(Paused[b], clock, used[b], IF present THEN Broken[b] ELSE breaks[b])
<1> DEFINE row == buff[b]
           e == Elapsed(row, FALSE)
<1>1. /\ row \in BuffRow /\ clock \in Nat /\ used[b] \in Nat /\ breaks[b] \in Nat
      /\ Paced(row, clock, used[b], breaks[b]) /\ (row.next > 0 <=> present)
  BY DEF EffectsInv, EffectsTypeOK, BuffsArePaused, PacedInv
<1>2. Paused[b] = Elapsed(row, TRUE)  BY DEF Paused
<1>3. Second \in Nat /\ Second > 0 /\ BuffTicks \in Nat  BY Constants
<1>4. CASE present
  <2>1. row.next > 0  BY <1>1, <1>4
  <2> HIDE DEF row
  <2>2. /\ e # Absent => Paced(e, clock, used[b], breaks[b]) /\ e.next > clock
        /\ e = Absent => used[b] > (BuffTicks - 1) * Second
        /\ e \in BuffRow \cup {Absent}
        /\ Paused[b] = IF e = Absent THEN Absent ELSE [e EXCEPT !.next = 0]
    BY <1>1, <1>2, <2>1, SettledInPace
  <2>3. Broken[b] = IF e # Absent /\ e.next \notin {0, clock + Second}
                    THEN breaks[b] + 1 ELSE breaks[b]
    BY DEF Broken, row
  <2> HIDE DEF e
  <2>4. ASSUME e # Absent
        PROVE  Paced(Paused[b], clock, used[b], Broken[b])
    <3>1. /\ e \in BuffRow /\ Paused[b] = [e EXCEPT !.next = 0]
          /\ Paced(e, clock, used[b], breaks[b]) /\ e.next > clock
      BY <2>2, <2>4
    <3>2. e.ticks \in Nat /\ e.next \in Nat /\ Paused[b].ticks = e.ticks /\ Paused[b].next = 0
      BY <3>1 DEF BuffRow
    <3> DEFINE paid == (BuffTicks - e.ticks) * Second
               lost == breaks[b] * (Second - 1)
    <3>3. paid \in Int /\ lost \in Int /\ (breaks[b] + 1) * (Second - 1) = lost + (Second - 1)
      BY <1>1, <1>3, <3>2
    <3>4. /\ e.ticks > 0 /\ e.next <= clock + Second
          /\ paid - (Second - 1) <= used[b] - (clock - e.next + Second)
          /\ used[b] - (clock - e.next + Second) <= paid + lost
      BY <1>1, <3>1, <3>2 DEF Paced, Running
    <3> HIDE DEF paid, lost
    <3>5. paid - (Second - 1) <= used[b]  BY <1>1, <1>3, <3>1, <3>2, <3>3, <3>4
    <3>6. CASE e.next = clock + Second
      <4>1. Broken[b] = breaks[b]  BY <2>3, <3>6
      <4>2. used[b] <= paid + lost  BY <1>1, <1>3, <3>2, <3>3, <3>4, <3>6
      <4> QED
        BY <1>1, <1>3, <3>2, <3>4, <3>5, <4>1, <4>2 DEF Paced, Running, paid, lost
    <3>7. CASE e.next # clock + Second
      <4>1. e.next \notin {0, clock + Second}  BY <1>1, <3>1, <3>7
      <4>2. Broken[b] = breaks[b] + 1  BY <2>3, <2>4, <4>1
      <4>3. used[b] <= paid + (breaks[b] + 1) * (Second - 1)
        BY <1>1, <1>3, <3>1, <3>2, <3>3, <3>4
      <4> QED  BY <1>1, <1>3, <3>2, <3>4, <3>5, <4>2, <4>3 DEF Paced, Running, paid
    <3> QED  BY <3>6, <3>7
  <2>5. CASE e = Absent  BY <1>4, <2>2, <2>5
  <2>6. CASE e # Absent
    <3>1. Paused[b] # Absent  BY <1>1, <2>2, <2>6, RowsAreThere DEF BuffRow
    <3> QED  BY <1>4, <2>4, <2>6, <3>1
  <2> QED  BY <2>5, <2>6
<1>5. CASE ~present
  <2>1. row.next = 0 /\ row.ticks \in Nat  BY <1>1, <1>5 DEF BuffRow
  <2>2. row.ticks > 0  BY <1>1 DEF Paced
  <2>3. Elapsed(row, TRUE) = [life |-> row.life, ticks |-> row.ticks, next |-> 0]
    BY <2>1, <2>2 DEF Elapsed
  <2>4. Elapsed(row, TRUE) = row  BY <1>1, <2>1, <2>3 DEF BuffRow
  <2> QED  BY <1>1, <1>2, <1>5, <2>4
<1> QED  BY <1>4, <1>5

\* A buff that a step ends and not a defeat has lasted its time.
Lasts == \A b \in Buff : buff[b] # Absent /\ buff'[b] = Absent =>
             health' = 0 \/ used[b] > (BuffTicks - 1) * Second

LEMMA EnterInPace ==
    ASSUME EffectsInv, PacedInv, NEW c \in Connection, EnterWorld(c)
    PROVE  PacedInv' /\ Lasts
<1> SUFFICES ASSUME NEW b \in Buff
             PROVE  /\ buff'[b] # Absent => Paced(buff'[b], clock, used'[b], breaks'[b])
                    /\ buff[b] # Absent => buff'[b] # Absent
  BY DEF PacedInv, Lasts, EnterWorld
<1>1. CASE buff[b] = Absent  BY <1>1 DEF EnterWorld
<1>2. CASE buff[b] # Absent
  <2>1. /\ buff[b] \in BuffRow /\ buff[b].life = life /\ health > 0 /\ health # 0
        /\ clock \in Nat /\ used[b] \in Nat /\ breaks[b] \in Nat
    BY <1>2, Constants DEF EffectsInv, EffectsTypeOK, BuffsArePaused
  <2>2. Paced(buff[b], clock, used[b], breaks[b])  BY <1>2 DEF PacedInv
  <2>3. buff'[b] = IF buff[b].next = 0 THEN [buff[b] EXCEPT !.next = clock + Second]
                   ELSE buff[b]
    BY <1>2, <2>1 DEF EnterWorld, Resumed
  <2>4. buff'[b] \in BuffRow /\ buff'[b] # Absent
    BY <2>1, <2>3, Constants, RowsAreThere DEF BuffRow
  <2>5. used'[b] = used[b] /\ breaks'[b] = breaks[b]
    BY <2>3, <2>4 DEF EnterWorld, OfRows
  <2>6. CASE buff[b].next = 0
    <3>1. buff'[b].next = clock + Second /\ buff'[b].ticks = buff[b].ticks
      BY <2>1, <2>3, <2>6 DEF BuffRow
    <3>2. Running(buff'[b], clock) = 0 /\ Running(buff[b], clock) = 0
      BY <2>1, <2>6, <3>1, Constants DEF Running
    <3>3. clock + Second <= clock + Second  BY <2>1, Constants
    <3> QED  BY <2>2, <2>4, <2>5, <3>1, <3>2, <3>3 DEF Paced
  <2>7. CASE buff[b].next # 0  BY <2>2, <2>3, <2>4, <2>5, <2>7
  <2> QED  BY <2>6, <2>7
<1> QED  BY <1>1, <1>2

LEMMA DepartInPace ==
    ASSUME EffectsInv, PacedInv, Depart
    PROVE  PacedInv' /\ Lasts
<1> SUFFICES ASSUME NEW b \in Buff
             PROVE  /\ buff'[b] # Absent => Paced(buff'[b], clock, used'[b], breaks'[b])
                    /\ buff[b] # Absent /\ buff'[b] = Absent =>
                           used[b] > (BuffTicks - 1) * Second
  BY DEF PacedInv, Lasts, Depart
<1>1. buff'[b] = Paused[b] /\ present  BY DEF Depart
<1>2. Paused[b] # Absent => used'[b] = used[b] /\ breaks'[b] = Broken[b]
  BY DEF Depart, OfRows
<1>3. buff[b] = Absent => Paused[b] = Absent  BY DEF Paused
<1> QED  BY <1>1, <1>2, <1>3, PausedInPace

LEMMA ActivateInPace ==
    ASSUME EffectsInv, PacedInv, NEW d \in Buff, ActivateBuff(d)
    PROVE  PacedInv' /\ Lasts
<1>1. PICK t \in FirstTicks :
          buff' = [buff EXCEPT ![d] = [life |-> life, ticks |-> BuffTicks, next |-> t]]
  BY DEF ActivateBuff
<1>2. t \in Nat /\ t > clock /\ t <= clock + Second
  <2> DEFINE shared == {buff[b].next : b \in {e \in Buff : buff[e] # Absent /\ buff[e].next > clock}}
  <2>1. \A u \in shared : u \in Nat /\ u > clock /\ u <= clock + Second
    BY DEF EffectsInv, EffectsTypeOK, BuffRow, PacedInv, Paced
  <2>2. t = clock + Second \/ t \in shared  BY Zenon DEF FirstTicks
  <2>3. clock + Second \in Nat /\ clock + Second > clock
    BY Constants DEF EffectsInv, EffectsTypeOK
  <2> QED  BY <2>1, <2>2, <2>3
<1>3. clock \in Nat /\ Second \in Nat /\ Second > 0 /\ BuffTicks \in Nat /\ BuffTicks > 0
  BY Constants DEF EffectsInv, EffectsTypeOK
<1>4. /\ used' = [used EXCEPT ![d] = 0] /\ breaks' = [breaks EXCEPT ![d] = 0]
      /\ clock' = clock
  BY DEF ActivateBuff
<1> DEFINE row == [life |-> life, ticks |-> BuffTicks, next |-> t]
<1>5. row # Absent
  <2>1. row \in BuffRow  BY <1>2, <1>3 DEF BuffRow, EffectsInv, EffectsTypeOK
  <2> QED  BY <2>1, RowsAreThere
<1>6. Paced(row, clock, 0, 0)
  <2>1. row.ticks = BuffTicks /\ row.next = t  OBVIOUS
  <2>2. Running(row, clock) = clock - t + Second  BY <1>2, <1>3 DEF Running
  <2>3. (BuffTicks - row.ticks) * Second = 0 /\ 0 * (Second - 1) = 0  BY <1>3, <2>1
  <2>4. 0 - (Second - 1) <= 0 - (clock - t + Second) /\ 0 - (clock - t + Second) <= 0
    BY <1>2, <1>3
  <2> HIDE DEF row
  <2> QED  BY <1>2, <1>3, <2>1, <2>2, <2>3, <2>4 DEF Paced
<1>7. ASSUME NEW b \in Buff
      PROVE  /\ buff'[b] # Absent => Paced(buff'[b], clock, used'[b], breaks'[b])
             /\ buff[b] # Absent => buff'[b] # Absent
  <2>1. CASE b = d
    <3>1. buff'[b] = row /\ used'[b] = 0 /\ breaks'[b] = 0
      BY <1>1, <1>4, <2>1 DEF EffectsInv, EffectsTypeOK
    <3> QED  BY <1>5, <1>6, <3>1
  <2>2. CASE b # d
    <3>1. buff'[b] = buff[b] /\ used'[b] = used[b] /\ breaks'[b] = breaks[b]
      BY <1>1, <1>4, <2>2 DEF EffectsInv, EffectsTypeOK
    <3> QED  BY <3>1 DEF PacedInv
  <2> QED  BY <2>1, <2>2
<1> QED  BY <1>4, <1>7 DEF PacedInv, Lasts

LEMMA TimeInPace ==
    ASSUME EffectsInv, PacedInv, TimePasses
    PROVE  PacedInv' /\ Lasts
<1> SUFFICES ASSUME NEW b \in Buff, buff[b] # Absent
             PROVE  Paced(buff[b], clock + 1, used'[b], breaks[b])
  BY DEF PacedInv, Lasts, TimePasses
<1>1. /\ buff[b] \in BuffRow /\ clock \in Nat /\ used[b] \in Nat
      /\ Second \in Nat /\ Paced(buff[b], clock, used[b], breaks[b])
  BY Constants DEF EffectsInv, EffectsTypeOK, PacedInv
<1>2. buff[b].next \in Nat  BY <1>1 DEF BuffRow
<1>3. used'[b] = IF buff[b].next > 0 THEN used[b] + 1 ELSE used[b]  BY DEF TimePasses
<1>4. used'[b] - Running(buff[b], clock + 1) = used[b] - Running(buff[b], clock)
  BY <1>1, <1>2, <1>3 DEF Running
<1>5. buff[b].next <= clock + 1 + Second  BY <1>1, <1>2 DEF Paced
<1> QED  BY <1>1, <1>4, <1>5 DEF Paced

LEMMA SimulateInPace ==
    ASSUME EffectsInv, PacedInv, NEW met \in Met, NEW bite \in BOOLEAN, SimulateEffects(met, bite)
    PROVE  PacedInv' /\ Lasts
<1> DEFINE here == present /\ leased
           entered == IF here THEN buff ELSE Paused
           kept == [b \in Buff |-> IF entered[b] = Absent THEN Absent
                                   ELSE Maintained(entered[b], here)]
           fell == Felled(met, here)
           stood == AfterHits(met, here)
           mana == IF here /\ health > 0 /\ met = "level" THEN FullSp ELSE sp
           rises == health = 0 /\ clock >= respawn_at
           stands == IF rises THEN FullHealth ELSE stood
           bitten == bite /\ here /\ stands > 0
           after == IF bitten THEN stands - 1 ELSE stands
           defeat == bitten /\ after = 0
           rows == IF fell \/ defeat THEN AfterDefeat(kept) ELSE kept
           stops == IF present /\ ~here THEN Broken ELSE breaks
<1>1. /\ life' = IF rises THEN life + 1 ELSE life
      /\ buff' = rows /\ used' = OfRows(used, rows) /\ breaks' = OfRows(stops, rows)
      /\ Recover(here, after, mana, life') /\ clock' = clock
  BY DEF SimulateEffects
<1>2. /\ here \in BOOLEAN /\ after \in 0..FullHealth /\ life' \in Nat
      /\ mana \in 0..FullSp /\ (fell => after = 0)
  <2>1. stood \in 0..FullHealth /\ (fell => stood = 0 /\ health > 0)
    BY Constants DEF EffectsInv, EffectsTypeOK, AfterHits, Felled, Met
  <2>2. /\ here \in BOOLEAN /\ health \in 0..FullHealth /\ sp \in 0..FullSp
        /\ life \in Nat
    BY DEF EffectsInv, EffectsTypeOK
  <2> HIDE DEF stood, fell, here
  <2> QED  BY <1>1, <2>1, <2>2, Constants
<1>3. fell \/ defeat => health' = 0  BY <1>1, <1>2, RecoverFacts
<1>4. ASSUME NEW b \in Buff
      PROVE  /\ kept[b] # Absent =>
                    buff[b] # Absent /\ Paced(kept[b], clock, used[b], stops[b])
             /\ buff[b] # Absent /\ kept[b] = Absent => used[b] > (BuffTicks - 1) * Second
  <2>1. CASE buff[b] = Absent  BY <2>1 DEF Paused
  <2>2. CASE buff[b] # Absent
    <3>1. /\ buff[b] \in BuffRow /\ buff[b].life = life /\ health > 0 /\ health # 0
          /\ clock \in Nat /\ used[b] \in Nat /\ breaks[b] \in Nat
          /\ (buff[b].next > 0 <=> present) /\ Paced(buff[b], clock, used[b], breaks[b])
      BY <2>2, Constants DEF EffectsInv, EffectsTypeOK, BuffsArePaused, PacedInv
    <3>2. CASE here
      <4>1. stops[b] = breaks[b] /\ entered[b] = buff[b] /\ buff[b].next > 0
        BY <3>1, <3>2
      <4>2. kept[b] = IF clock >= buff[b].next THEN Elapsed(buff[b], FALSE) ELSE buff[b]
        BY <2>2, <3>1, <3>2, <4>1 DEF Maintained
      <4> HIDE DEF kept, stops
      <4>3. CASE clock >= buff[b].next
        <5>1. kept[b] = Elapsed(buff[b], FALSE)  BY <4>2, <4>3
        <5>2. /\ Elapsed(buff[b], FALSE) # Absent =>
                     Paced(Elapsed(buff[b], FALSE), clock, used[b], breaks[b])
              /\ Elapsed(buff[b], FALSE) = Absent => used[b] > (BuffTicks - 1) * Second
          BY <3>1, <4>1, SettledInPace
        <5> QED  BY <2>2, <4>1, <5>1, <5>2
      <4>4. CASE ~(clock >= buff[b].next)  BY <2>2, <3>1, <4>1, <4>2, <4>4
      <4> QED  BY <4>3, <4>4
    <3>3. CASE ~here
      <4>1. stops[b] = (IF present THEN Broken[b] ELSE breaks[b]) /\ entered[b] = Paused[b]
        BY <3>3
      <4>2. CASE Paused[b] = Absent
        <5>1. kept[b] = Absent  BY <4>1, <4>2
        <5> QED  BY <2>2, <4>2, <5>1, PausedInPace
      <4>3. CASE Paused[b] # Absent
        <5>1. Paused[b].next = 0 /\ Paused[b].life = life  BY <4>3, PausedFacts
        <5>2. Maintained(Paused[b], FALSE) = Paused[b]  BY <3>1, <5>1 DEF Maintained
        <5>3. kept[b] = Paused[b]  BY <3>3, <4>1, <4>3, <5>2
        <5> HIDE DEF kept, stops
        <5> QED  BY <2>2, <4>1, <4>3, <5>3, PausedInPace
      <4> QED  BY <4>2, <4>3
    <3> QED  BY <3>2, <3>3
  <2> QED  BY <2>1, <2>2
<1> HIDE DEF here, kept, after, defeat, stops, fell
<1>5. ASSUME NEW b \in Buff
      PROVE  /\ buff'[b] # Absent =>
                    /\ buff'[b] = kept[b] /\ used'[b] = used[b] /\ breaks'[b] = stops[b]
             /\ buff'[b] = Absent => health' = 0 \/ kept[b] = Absent
  BY <1>1, <1>3 DEF OfRows, AfterDefeat
<1> QED  BY <1>1, <1>4, <1>5 DEF PacedInv, Lasts

LEMMA StepInPace ==
    ASSUME EffectsInv, PacedInv, [EffectsNext]_effectVars
    PROVE  PacedInv' /\ Lasts
<1>1. CASE UNCHANGED <<clock, buffing>>  BY <1>1 DEF PacedInv, Lasts, buffing
<1>2. ASSUME NEW c \in Connection, EnterWorld(c) PROVE PacedInv' /\ Lasts
  BY <1>2, EnterInPace
<1>3. CASE Depart  BY <1>3, DepartInPace
<1>4. ASSUME NEW b \in Buff, ActivateBuff(b) PROVE PacedInv' /\ Lasts
  BY <1>4, ActivateInPace
<1>5. ASSUME NEW met \in Met, NEW bite \in BOOLEAN, SimulateEffects(met, bite)
      PROVE  PacedInv' /\ Lasts
  BY <1>5, SimulateInPace
<1>6. CASE TimePasses  BY <1>6, TimeInPace
<1>7. CASE \/ LeaseTurns \/ \E begin \in BOOLEAN : Send(begin)
           \/ Refuse \/ BeginCharge \/ \E rank \in BOOLEAN : StrikeTarget(rank)
           \/ Drink(Gulp, 0) \/ Drink(0, Gulp) \/ GainLevel \/ UNCHANGED effectVars
  <2>1. UNCHANGED <<clock, buffing>>
    BY <1>7 DEF LeaseTurns, Send, Refuse, BeginCharge, StrikeTarget, Drink, GainLevel,
                effectVars
  <2> QED  BY <1>1, <2>1
<1> QED  BY <1>2, <1>3, <1>4, <1>5, <1>6, <1>7 DEF EffectsNext

-----------------------------------------------------------------------------
(* What a step may do.                                                       *)

\* A call that is still current was made on the charge that is there, and the
\* next step of a recovery is a second after the last one.
CallsAreCurrent == queued # Absent /\ queued.current /\ queued.charged => charge # Absent
StepsAreApart ==
    /\ healed_at <= clock
    /\ recovery # Absent => recovery.next >= healed_at + Second

\* The parts of EffectsAreHonest that do not count ticks.
Honest ==
    /\ Struck /\ charge # Absent /\ charge' # charge =>
           charge.conn = driver /\ charge.life = life /\ clock < charge.expires
    /\ ready_at' # ready_at => queued # Absent /\ ~queued.charged
    /\ Struck /\ health' > health => sp' = FullSp
    /\ healed_at' # healed_at => clock >= healed_at + Second

LEMMA CallStep ==
    ASSUME EffectsInv, CallsAreCurrent,
           \/ \E begin \in BOOLEAN : Send(begin)
           \/ Refuse \/ BeginCharge \/ \E rank \in BOOLEAN : StrikeTarget(rank)
    PROVE  CallsAreCurrent' /\ Honest
<1>1. ASSUME NEW begin \in BOOLEAN, Send(begin)
      PROVE  CallsAreCurrent' /\ Honest
  <2>1. queued' # Absent /\ (queued'.charged => charge # Absent)
    <3>1. queued' \in Call  BY <1>1 DEF EffectsInv, EffectsTypeOK, Send, Call
    <3> QED  BY <1>1, <3>1, RowsAreThere DEF Send
  <2> QED
    BY <1>1, <2>1 DEF CallsAreCurrent, Honest, Struck, Send, vitals, charging, healing
<1>2. CASE Refuse
  BY <1>2 DEF CallsAreCurrent, Honest, Struck, Refuse, vitals, charging, healing,
              EffectsInv, EffectsTypeOK
<1>3. CASE BeginCharge
  <2>1. ~Struck /\ queued # Absent /\ ~queued.charged
    BY <1>3 DEF CallsAreCurrent, BeginCharge, CanBegin, Arrives, Struck, EffectsInv,
                EffectsTypeOK, Call
  <2> QED  BY <1>3, <2>1 DEF CallsAreCurrent, Honest, BeginCharge, healing
<1>4. ASSUME NEW rank \in BOOLEAN, StrikeTarget(rank)
      PROVE  CallsAreCurrent' /\ Honest
  <2>1. CASE ChargeRuns(present) /\ ready_at' = ready_at
    <3>1. /\ charge.conn = driver /\ charge.life = life /\ clock < charge.expires
          /\ healed_at' = healed_at /\ queued' = Absent
      BY <1>4, <2>1 DEF ChargeRuns, StrikeTarget, healing
    <3> QED  BY <1>4, <2>1, <3>1 DEF CallsAreCurrent, Honest, StrikeTarget, SpAfter,
                              EffectsInv, EffectsTypeOK
  <2>2. CASE CanBegin
    <3>1. /\ charge = Absent /\ queued # Absent /\ ~queued.charged
          /\ healed_at' = healed_at /\ queued' = Absent
      BY <1>4, <2>2 DEF CanBegin, StrikeTarget, Arrives, CallsAreCurrent, healing,
                        EffectsInv, EffectsTypeOK, Call
    <3> QED
      BY <1>4, <3>1 DEF CallsAreCurrent, Honest, StrikeTarget, SpAfter, EffectsInv,
                        EffectsTypeOK
  <2> QED  BY <1>4, <2>1, <2>2 DEF StrikeTarget
<1> QED  BY <1>1, <1>2, <1>3, <1>4

LEMMA SimulateStep ==
    ASSUME EffectsInv, CallsAreCurrent, StepsAreApart, NEW met \in Met,
           NEW bite \in BOOLEAN, SimulateEffects(met, bite)
    PROVE  CallsAreCurrent' /\ StepsAreApart' /\ Honest
<1> DEFINE here == present /\ leased
           stays == ChargeStays(here) /\ ~Felled(met, here)
           lapses == charge # Absent /\ ~stays
<1>1. /\ charge' = IF stays THEN charge ELSE Absent
      /\ queued' = IF lapses THEN OutdatedCall ELSE queued
      /\ ready_at' = ready_at /\ clock' = clock
  BY DEF SimulateEffects
<1>2. PICK h \in Int, m \in Int, l \in Int : Recover(here, h, m, l)
  <2> DEFINE rises == health = 0 /\ clock >= respawn_at
             stood == AfterHits(met, here)
             mana == IF here /\ health > 0 /\ met = "level" THEN FullSp ELSE sp
             stands == IF rises THEN FullHealth ELSE stood
             bitten == bite /\ here /\ stands > 0
             after == IF bitten THEN stands - 1 ELSE stands
  <2>1. Recover(here, after, mana, life') /\ life' = IF rises THEN life + 1 ELSE life
    BY DEF SimulateEffects
  <2>2. stood \in Int /\ mana \in Int
    BY Constants DEF EffectsInv, EffectsTypeOK, AfterHits
  <2> HIDE DEF stood
  <2>3. after \in Int /\ life' \in Int
    BY <2>1, <2>2, Constants DEF EffectsInv, EffectsTypeOK
  <2> HIDE DEF after, mana
  <2> QED  BY <2>1, <2>2, <2>3
<1>3. queued' # Absent => queued # Absent /\ queued'.charged = queued.charged
                          /\ (queued'.current => queued'= queued /\ ~lapses)
  BY <1>1 DEF OutdatedCall, EffectsInv, EffectsTypeOK, Call
<1>4. CallsAreCurrent'  BY <1>1, <1>3 DEF CallsAreCurrent
<1>5. queued # Absent => queued' # Absent
  <2>1. ASSUME queued # Absent PROVE OutdatedCall \in Call
    BY <2>1 DEF OutdatedCall, EffectsInv, EffectsTypeOK, Call
  <2> QED  BY <1>1, <2>1, RowsAreThere
<1>6. /\ healed_at' # healed_at => clock >= healed_at + Second
      /\ StepsAreApart'
  <2>1. CASE recovery' = Absent /\ healed_at' = healed_at
    BY <1>1, <2>1 DEF StepsAreApart
  <2>2. CASE recovery' = recovery /\ healed_at' = healed_at
    BY <1>1, <2>2 DEF StepsAreApart
  <2>3. CASE /\ recovery # Absent /\ ~(clock < recovery.next) /\ healed_at' = clock
             /\ \/ recovery' = Absent
                \/ \E i, j \in Int : recovery' = [recovery EXCEPT !.hp = i, !.sp = j,
                                                                  !.next = clock + Second]
    <3>0. recovery # Absent /\ ~(clock < recovery.next) /\ healed_at' = clock  BY <2>3
    <3>1. /\ recovery \in Pool /\ recovery.next \in Nat /\ clock \in Nat
          /\ healed_at \in Nat /\ Second \in Nat
      BY <3>0, Constants DEF EffectsInv, EffectsTypeOK, Pool
    <3>2. recovery' # Absent => recovery'.next = clock + Second  BY <2>3, <3>1 DEF Pool
    <3>3. clock >= healed_at + Second  BY <3>0, <3>1 DEF StepsAreApart
    <3>4. healed_at' <= clock'
      <4>1. clock <= clock  BY <3>1
      <4> QED  BY <1>1, <3>0, <4>1
    <3>5. recovery' # Absent => recovery'.next >= healed_at' + Second
      <4>1. clock + Second >= clock + Second  BY <3>1
      <4> QED  BY <3>0, <3>2, <4>1
    <3> QED  BY <3>3, <3>4, <3>5 DEF StepsAreApart
  <2> DEFINE left(at, full, pool) == IF at >= full THEN 0 ELSE pool - Lesser(pool, Sip)
  <2>4. recovery # Absent =>
            left(h, FullHealth, recovery.hp) \in Int /\ left(m, FullSp, recovery.sp) \in Int
    BY Constants DEF Lesser, EffectsInv, EffectsTypeOK, Pool
  <2>5. RecoveryOf(here) # Absent => recovery # Absent  BY DEF RecoveryOf
  <2> QED  BY <1>2, <2>1, <2>2, <2>3, <2>4, <2>5 DEF Recover
<1> QED  BY <1>1, <1>4, <1>5, <1>6 DEF Honest, Struck

\* The rest of the steps leave the charge and its calls alone.
LEMMA OtherStep ==
    ASSUME EffectsInv, CallsAreCurrent, StepsAreApart,
           \/ \E c \in Connection : EnterWorld(c)
           \/ LeaseTurns \/ Depart \/ \E b \in Buff : ActivateBuff(b)
           \/ Drink(Gulp, 0) \/ Drink(0, Gulp) \/ GainLevel \/ TimePasses
           \/ UNCHANGED effectVars
    PROVE  CallsAreCurrent' /\ StepsAreApart' /\ Honest
<1>1. UNCHANGED <<charge, ready_at, queued, healed_at>>
  BY DEF EnterWorld, LeaseTurns, Depart, ActivateBuff, Drink, GainLevel, TimePasses,
         effectVars, charging, healing
<1>2. CallsAreCurrent' /\ Honest  BY <1>1 DEF CallsAreCurrent, Honest, Struck
<1>3. /\ clock \in Nat /\ clock' \in Nat /\ clock <= clock' /\ healed_at \in Nat
      /\ Second \in Nat
  <2>1. clock \in Nat /\ healed_at \in Nat /\ Second \in Nat
    BY Constants DEF EffectsInv, EffectsTypeOK
  <2>2. clock' = clock \/ clock' = clock + 1
    BY DEF EnterWorld, LeaseTurns, Depart, ActivateBuff, Drink, GainLevel, TimePasses,
           effectVars
  <2> QED  BY <2>1, <2>2
<1>4. CASE recovery' = recovery \/ recovery' = Absent
  <2>1. healed_at' = healed_at  BY <1>1
  <2>2. healed_at' <= clock'  BY <1>3, <2>1 DEF StepsAreApart
  <2>3. recovery' # Absent => recovery'.next >= healed_at' + Second
    BY <1>4, <2>1 DEF StepsAreApart
  <2> QED  BY <1>2, <2>2, <2>3 DEF StepsAreApart
<1>5. ASSUME NEW hp \in Nat, NEW mana \in Nat, Drink(hp, mana)
      PROVE  StepsAreApart'
  <2> DEFINE pool == IF recovery # Absent /\ recovery.life = life THEN recovery
                     ELSE [life |-> life, hp |-> 0, sp |-> 0, next |-> FirstStep]
  <2>1. recovery' = [pool EXCEPT !.hp = @ + hp, !.sp = @ + mana] /\ clock' = clock
    BY <1>5 DEF Drink
  <2>2. FirstStep \in Nat /\ FirstStep >= healed_at + Second
    BY <1>3 DEF FirstStep, StepsAreApart
  <2>3. pool \in Pool /\ pool.next >= healed_at + Second
    BY <2>2 DEF EffectsInv, EffectsTypeOK, Pool, StepsAreApart
  <2> HIDE DEF pool
  <2>4. recovery'.next = pool.next  BY <2>1, <2>3 DEF Pool
  <2> QED  BY <1>1, <1>3, <2>1, <2>3, <2>4 DEF StepsAreApart
<1>6. (recovery' = recovery \/ recovery' = Absent) \/ Drink(Gulp, 0) \/ Drink(0, Gulp)
  BY DEF EnterWorld, LeaseTurns, Depart, RecoveryOf, ActivateBuff, GainLevel, TimePasses,
         effectVars, healing
<1> QED  BY <1>2, <1>4, <1>5, <1>6, Constants

LEMMA StepIsHonest ==
    ASSUME EffectsInv, CallsAreCurrent, StepsAreApart, [EffectsNext]_effectVars
    PROVE  CallsAreCurrent' /\ StepsAreApart' /\ Honest
<1>1. CASE \/ \E begin \in BOOLEAN : Send(begin)
           \/ Refuse \/ BeginCharge \/ \E rank \in BOOLEAN : StrikeTarget(rank)
  <2>1. UNCHANGED <<clock, recovery, healed_at>>
    BY <1>1 DEF Send, Refuse, BeginCharge, StrikeTarget, healing
  <2> QED  BY <1>1, <2>1, CallStep DEF StepsAreApart
<1>2. ASSUME NEW met \in Met, NEW bite \in BOOLEAN, SimulateEffects(met, bite)
      PROVE  CallsAreCurrent' /\ StepsAreApart' /\ Honest
  BY <1>2, SimulateStep
<1>3. CASE \/ \E c \in Connection : EnterWorld(c)
           \/ LeaseTurns \/ Depart \/ \E b \in Buff : ActivateBuff(b)
           \/ Drink(Gulp, 0) \/ Drink(0, Gulp) \/ GainLevel \/ TimePasses
           \/ UNCHANGED effectVars
  BY <1>3, OtherStep
<1> QED  BY <1>1, <1>2, <1>3 DEF EffectsNext

LEMMA InvCorrect == EffectsSpec => [](EffectsInv /\ PacedInv /\ CallsAreCurrent /\ StepsAreApart)
<1>1. EffectsInit => PacedInv /\ CallsAreCurrent /\ StepsAreApart
  BY DEF EffectsInit, PacedInv, CallsAreCurrent, StepsAreApart
<1> QED  BY <1>1, EffectsCorrect, StepInPace, StepIsHonest, PTL DEF EffectsSpec

\* For every policy of the skills, any number of buffs and of connections:
\* charges, buffs and recoveries keep to their owner, his life and his time in
\* the world, and a buff has paid a tick for every second of it, however late
\* the ticks run; each pause costs less than a second (player_buffs.rs:240-252).
THEOREM EffectsSound == EffectsSpec => []EffectsAreSound
<1>1. EffectsInv /\ PacedInv => EffectsAreSound
  <2> SUFFICES ASSUME EffectsInv, PacedInv, NEW b \in Buff, buff[b] # Absent
               PROVE  LET paid == (BuffTicks - buff[b].ticks) * Second
                          running == IF buff[b].next = 0 THEN 0
                                     ELSE clock - buff[b].next + Second
                      IN  /\ paid - (Second - 1) <= used[b] - running
                          /\ used[b] - running <= paid + breaks[b] * (Second - 1)
    BY DEF EffectsAreSound, BuffsArePaced, EffectsInv
  <2> QED  BY DEF PacedInv, Paced, Running
<1> QED  BY <1>1, InvCorrect, PTL

\* No step goes against what the caller saw or paid for (charges.rs:131-150,
\* charge_lifecycle.rs:119-123, item_effects.rs:135).
THEOREM EffectsHonest == EffectsSpec => EffectsAreHonest
<1>1. /\ EffectsInv /\ PacedInv /\ CallsAreCurrent /\ StepsAreApart
      /\ [EffectsNext]_effectVars
      => Honest /\ Lasts
  BY StepInPace, StepIsHonest
<1>2. Honest /\ Lasts =>
          [/\ Struck /\ charge # Absent /\ charge' # charge =>
                  charge.conn = driver /\ charge.life = life /\ clock < charge.expires
           /\ ready_at' # ready_at => queued # Absent /\ ~queued.charged
           /\ Struck /\ health' > health => sp' = FullSp
           /\ \A b \in Buff :
                  buff[b] # Absent /\ buff'[b] = Absent =>
                      health' = 0 \/ used[b] > (BuffTicks - 1) * Second
           /\ healed_at' # healed_at => clock >= healed_at + Second]_effectVars
  BY DEF Honest, Lasts
<1> QED  BY <1>1, <1>2, InvCorrect, PTL DEF EffectsSpec, EffectsAreHonest
=============================================================================
