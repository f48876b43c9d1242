---------------------------- MODULE CombatProofs ----------------------------
(* Proofs about Combat, for every set of players and monsters, every health, *)
(* every roll, every attack timing and every clock.                          *)
EXTENDS Combat, Induction

USE CombatAssumption

-----------------------------------------------------------------------------
(* The fields of the rows.                                                   *)

LEMMA PlayerFields ==
    ASSUME TypeOK, NEW p \in Player
    PROVE  /\ player[p].online \in BOOLEAN /\ player[p].health \in 0..PlayerHealth
           /\ player[p].life \in Nat /\ player[p].respawn \in Nat
  BY DEF TypeOK, PlayerRow

LEMMA MonsterFields ==
    ASSUME TypeOK, NEW m \in Monster
    PROVE  /\ monster[m].health \in 0..MonsterHealth
           /\ monster[m].life \in Nat /\ monster[m].respawn \in Nat
  BY DEF TypeOK, MonsterRow

LEMMA ControlFields ==
    ASSUME TypeOK, NEW p \in Player
    PROVE  /\ control[p].conn \in Nat /\ control[p].rev \in Nat
           /\ control[p].until \in Nat /\ control[p].next \in Nat
           /\ control[p].hit \in Blow \cup {None}
  BY DEF TypeOK, ControlRow

LEMMA ClockFields ==
    ASSUME TypeOK, NEW m \in Monster
    PROVE  /\ clock[m].until \in Nat /\ clock[m].next \in Nat
           /\ clock[m].shield \in Nat /\ clock[m].hit \in Swing \cup {None}
  BY DEF TypeOK, ClockRow

LEMMA BlowFields ==
    ASSUME NEW hit \in Blow
    PROVE  /\ hit.target \in Monster /\ hit.tlife \in Nat /\ hit.slife \in Nat
           /\ hit.at \in Nat /\ hit.upto \in Nat /\ hit.damage \in Nat /\ hit.rev \in Nat
  BY DEF Blow

LEMMA SwingFields ==
    ASSUME NEW hit \in Swing
    PROVE  /\ hit.target \in Player /\ hit.tlife \in Nat /\ hit.slife \in Nat
           /\ hit.at \in Nat /\ hit.upto \in Nat
  BY DEF Swing

\* Damage takes health away, never below zero.
LEMMA AfterLess ==
    ASSUME NEW n \in Nat, NEW h \in 0..n, NEW d \in Nat
    PROVE  After(h, d) \in 0..n /\ After(h, d) <= h
  BY DEF After

LEMMA DisarmedFields ==
    ASSUME NEW row \in ControlRow
    PROVE  /\ Disarmed(row) \in ControlRow /\ Disarmed(row).hit = None
           /\ Disarmed(row).rev = row.rev
  BY DEF Disarmed, ControlRow

LEMMA TakenFields ==
    ASSUME NEW row \in ControlRow
    PROVE  /\ Taken(row) \in ControlRow /\ Taken(row).hit = None
           /\ Taken(row).rev = row.rev
  BY DEF Taken, ControlRow

LEMMA UnswungFields ==
    ASSUME NEW row \in ClockRow
    PROVE  Unswung(row) \in ClockRow /\ Unswung(row).hit = None
  BY DEF Unswung, ClockRow

LEMMA FreshRows ==
    ASSUME NEW life \in Nat
    PROVE  /\ FreshMonster(life) \in MonsterRow /\ FreshClock \in ClockRow
           /\ FreshMonster(life).health = MonsterHealth /\ FreshMonster(life).life = life
           /\ FreshClock.hit = None
  BY DEF FreshMonster, FreshClock, MonsterRow, ClockRow

LEMMA RespawnedFields ==
    ASSUME NEW row \in PlayerRow
    PROVE  /\ Respawned(row) \in PlayerRow /\ Respawned(row).online = row.online
           /\ Respawned(row).health = PlayerHealth /\ Respawned(row).life = row.life + 1
  BY DEF Respawned, PlayerRow

-----------------------------------------------------------------------------
(* Type correctness.                                                         *)

LEMMA EnterType == ASSUME TypeOK, NEW p \in Player, Enter(p) PROVE TypeOK'
<1>1. player' \in [Player -> PlayerRow]
  <2>1. [player[p] EXCEPT !.online = TRUE] \in PlayerRow
    <3>1. player[p] \in PlayerRow  BY DEF TypeOK
    <3> QED  BY <3>1, TRUE \in BOOLEAN DEF PlayerRow
  <2> QED  BY <2>1 DEF TypeOK, Enter
<1>2. control' \in [Player -> ControlRow]
  <2>1. [control[p] EXCEPT !.conn = conns'] \in ControlRow
    BY DEF TypeOK, ControlRow, Enter
  <2> QED  BY <2>1 DEF TypeOK, Enter
<1> QED  BY <1>1, <1>2 DEF TypeOK, Enter, tickVars

LEMMA LeaveType == ASSUME TypeOK, NEW p \in Player, Leave(p) PROVE TypeOK'
<1>1. player' \in [Player -> PlayerRow]
  <2>1. [player[p] EXCEPT !.online = FALSE] \in PlayerRow
    <3>1. player[p] \in PlayerRow  BY DEF TypeOK
    <3> QED  BY <3>1, FALSE \in BOOLEAN DEF PlayerRow
  <2> QED  BY <2>1 DEF TypeOK, Leave
<1>2. control' \in [Player -> ControlRow]  BY DisarmedFields DEF TypeOK, Leave
<1>3. clock' \in [Monster -> ClockRow]
  BY UnswungFields DEF TypeOK, Leave, WithoutSwingsAt
<1> QED  BY <1>1, <1>2, <1>3 DEF TypeOK, Leave, tickVars, history

LEMMA AttackType ==
    ASSUME TypeOK, NEW p \in Player, NEW t \in Monster \cup {None}, NEW d \in Roll,
           PerformAttack(p, t, d)
    PROVE  TypeOK'
<1> DEFINE hit == IF t = None THEN None
                  ELSE [target |-> t, tlife |-> monster[t].life,
                        slife |-> player[p].life, at |-> now + Start,
                        upto |-> now + Until, damage |-> d,
                        rev |-> control[p].rev + 1]
           row == [conn |-> control[p].conn, rev |-> control[p].rev + 1,
                   until |-> now + Duration, next |-> now + Cooldown, hit |-> hit]
<1>1. now \in Nat /\ d \in Nat  BY DEF TypeOK
<1>2. hit \in Blow \cup {None}
  <2>1. CASE t = None  BY <2>1
  <2>2. CASE t # None
    <3>1. t \in Monster  BY <2>2
    <3> QED  BY <1>1, <2>2, <3>1, PlayerFields, ControlFields, MonsterFields DEF Blow
  <2> QED  BY <2>1, <2>2
<1>3. row \in ControlRow
  <2> HIDE DEF hit
  <2> QED  BY <1>1, <1>2, ControlFields DEF ControlRow
<1>4. control' = [control EXCEPT ![p] = row]  BY DEF PerformAttack
<1>5. control' \in [Player -> ControlRow]
  <2> HIDE DEF row
  <2> QED  BY <1>3, <1>4 DEF TypeOK
<1> QED  BY <1>5 DEF TypeOK, PerformAttack, tickVars, history

LEMMA PickupType ==
    ASSUME TypeOK, NEW p \in Player, NEW l \in loot, PickupLoot(p, l) PROVE TypeOK'
  BY DEF TypeOK, PickupLoot, tickVars, history

LEMMA BeginTickType == ASSUME TypeOK, BeginTick PROVE TypeOK'
<1>1. ASSUME NEW p \in Player, control[p].hit # None
      PROVE  [at |-> control[p].hit.at, who |-> p, rev |-> control[p].hit.rev] \in Event
  BY <1>1, ControlFields, BlowFields DEF Event
<1>2. ASSUME NEW m \in Monster, clock[m].hit # None
      PROVE  [at |-> clock[m].hit.at, who |-> m, rev |-> 0] \in Event
  BY <1>2, ClockFields, SwingFields DEF Event
<1>3. due' \subseteq Event  BY <1>1, <1>2 DEF BeginTick
<1> QED  BY <1>3 DEF TypeOK, BeginTick, rows, history

LEMMA RegisteredType ==
    ASSUME TypeOK, NEW m \in Monster, NEW p \in Player, NEW d \in Nat
    PROVE  Registered(m, p, d) \subseteq LedgerRow
<1> DEFINE mine == {r \in ledger : /\ r.monster = m /\ r.life = monster[m].life
                                   /\ r.player = p /\ r.conn = control[p].conn}
           row(n) == [monster |-> m, life |-> monster[m].life, player |-> p,
                      conn |-> control[p].conn, damage |-> n]
<1>1. ASSUME NEW n \in Nat PROVE row(n) \in LedgerRow
  BY MonsterFields, ControlFields DEF LedgerRow
<1>2. ledger \subseteq LedgerRow  BY DEF TypeOK
<1>3. CASE mine = {}
  <2>1. Registered(m, p, d) = ledger \cup {row(d)}  BY <1>3 DEF Registered
  <2> QED  BY <1>1, <1>2, <2>1
<1>4. CASE mine # {}
  <2>1. (CHOOSE r \in mine : TRUE) \in ledger  BY <1>4
  <2> DEFINE n == (CHOOSE r \in mine : TRUE).damage
  <2>2. n \in Nat  BY <1>2, <2>1 DEF LedgerRow
  <2>3. Registered(m, p, d) = (ledger \ mine) \cup {row(n + d)}  BY <1>4 DEF Registered
  <2> HIDE DEF mine, row, n
  <2>4. row(n + d) \in LedgerRow  BY <1>1, <2>2
  <2> QED  BY <1>2, <2>3, <2>4
<1> QED  BY <1>3, <1>4

\* The rows that a landed hit writes.
LEMMA LandedType ==
    ASSUME TypeOK, NEW p \in Player, NEW hit \in Blow, NEW stagger \in BOOLEAN,
           Landed(p, hit, stagger)
    PROVE  /\ monster' \in [Monster -> MonsterRow] /\ clock' \in [Monster -> ClockRow]
           /\ ledger' \subseteq LedgerRow /\ loot' \subseteq LootRow
           /\ struck' \in [Monster -> Nat \cup {None}] /\ paid' \in [Monster -> Nat]
           /\ since' = since /\ born' = born
<1> DEFINE m == hit.target
           left == After(monster[m].health, hit.damage)
           shielded(row) == [until |-> row.until, next |-> row.next,
                             shield |-> now + Shield, hit |-> row.hit]
           still(row) == [until |-> 0, next |-> row.next,
                          shield |-> now + Shield, hit |-> None]
<1>1. m \in Monster /\ hit.damage \in Nat /\ now \in Nat  BY BlowFields DEF TypeOK
<1>2. left \in 0..MonsterHealth  BY <1>1, MonsterFields, AfterLess
<1>3. shielded(clock[m]) \in ClockRow /\ still(clock[m]) \in ClockRow
  BY <1>1, ClockFields DEF ClockRow
<1>4. ASSUME NEW h \in 0..MonsterHealth, NEW r \in Nat
      PROVE  [health |-> h, life |-> monster[m].life, respawn |-> r] \in MonsterRow
  BY <1>1, MonsterFields DEF MonsterRow
<1>5. Registered(m, p, hit.damage) \subseteq LedgerRow  BY <1>1, RegisteredType
<1>6. LootOf(m, p) \in LootRow  BY <1>1, MonsterFields DEF LootOf, LootRow
<1>7. struck' = [struck EXCEPT ![m] = now] /\ since' = since /\ born' = born
  BY DEF Landed
<1>8. CASE left = 0
  <2>1. /\ monster' = [monster EXCEPT ![m] = [health |-> 0, life |-> monster[m].life,
                                               respawn |-> now + MonsterRespawn]]
        /\ clock' = [clock EXCEPT ![m] = still(clock[m])]
        /\ ledger' = WithoutDamage(Registered(m, p, hit.damage), m)
        /\ loot' = loot \cup {LootOf(m, p)}
        /\ paid' = [paid EXCEPT ![m] = @ + 1]
    BY <1>8 DEF Landed
  <2>2. [health |-> 0, life |-> monster[m].life, respawn |-> now + MonsterRespawn]
            \in MonsterRow
    BY <1>1, <1>4
  <2> HIDE DEF m, left, shielded, still
  <2> QED  BY <1>1, <1>3, <1>5, <1>6, <1>7, <2>1, <2>2 DEF TypeOK, WithoutDamage
<1>9. CASE left # 0
  <2>1. /\ monster' = [monster EXCEPT ![m] = [health |-> left, life |-> monster[m].life,
                                               respawn |-> monster[m].respawn]]
        /\ clock' = [clock EXCEPT ![m] = IF stagger THEN still(clock[m])
                                         ELSE shielded(clock[m])]
        /\ ledger' = Registered(m, p, hit.damage)
        /\ UNCHANGED <<loot, paid>>
    BY <1>9 DEF Landed
  <2>2. [health |-> left, life |-> monster[m].life, respawn |-> monster[m].respawn]
            \in MonsterRow
    BY <1>1, <1>2, <1>4, MonsterFields
  <2> HIDE DEF m, left, shielded, still
  <2> QED  BY <1>1, <1>3, <1>5, <1>7, <2>1, <2>2 DEF TypeOK
<1> QED  BY <1>8, <1>9

LEMMA ResolvePlayerType ==
    ASSUME TypeOK, NEW p \in Player, NEW reach \in BOOLEAN, NEW stagger \in BOOLEAN,
           ResolvePlayer(p, reach, stagger)
    PROVE  TypeOK'
<1>1. /\ due' \subseteq due
      /\ UNCHANGED <<now, phase, todo, conns, player, purse>>
  BY DEF ResolvePlayer
<1>2. CASE UNCHANGED <<control, monster, clock, ledger, loot, history>>
  BY <1>1, <1>2 DEF TypeOK, history
<1>3. CASE /\ control[p].hit # None
           /\ control' = [control EXCEPT ![p] = Taken(@)]
  <2>1. control' \in [Player -> ControlRow]  BY <1>3, TakenFields DEF TypeOK
  <2>2. CASE UNCHANGED <<monster, clock, ledger, loot, history>>
    BY <1>1, <2>1, <2>2 DEF TypeOK, history
  <2>3. CASE Landed(p, control[p].hit, stagger)
    <3>1. control[p].hit \in Blow  BY <1>3, ControlFields
    <3> QED  BY <1>1, <2>1, <2>3, <3>1, LandedType DEF TypeOK
  <2> QED  BY <1>3, <2>2, <2>3, CombatAssumption DEF ResolvePlayer
<1> QED  BY <1>2, <1>3 DEF ResolvePlayer

LEMMA WoundedType ==
    ASSUME TypeOK, NEW p \in Player, NEW d \in Nat, Wounded(p, d)
    PROVE  player' \in [Player -> PlayerRow] /\ control' \in [Player -> ControlRow]
<1> DEFINE left == After(player[p].health, d)
           row == [online |-> player[p].online, health |-> left, life |-> player[p].life,
                   respawn |-> IF left = 0 THEN now + PlayerRespawn ELSE player[p].respawn]
<1>1. left \in 0..PlayerHealth  BY PlayerFields, AfterLess
<1>2. (IF left = 0 THEN now + PlayerRespawn ELSE player[p].respawn) \in Nat
  BY PlayerFields DEF TypeOK
<1>3. row \in PlayerRow
  <2>1. player[p].online \in BOOLEAN /\ player[p].life \in Nat  BY PlayerFields
  <2> HIDE DEF left
  <2> QED  BY <1>1, <1>2, <2>1 DEF PlayerRow
<1>4. player' = [player EXCEPT ![p] = row]  BY DEF Wounded
<1>5. player' \in [Player -> PlayerRow]
  <2> HIDE DEF row
  <2> QED  BY <1>3, <1>4 DEF TypeOK
<1>6. control' = control \/ control' = [control EXCEPT ![p] = Disarmed(control[p])]
  BY DEF Wounded
<1> QED  BY <1>5, <1>6, DisarmedFields DEF TypeOK

LEMMA ResolveMonsterType ==
    ASSUME TypeOK, NEW m \in Monster, NEW reach \in BOOLEAN, NEW d \in Roll,
           ResolveMonster(m, reach, d)
    PROVE  TypeOK'
<1>1. /\ due' \subseteq due
      /\ UNCHANGED <<now, phase, todo, conns, monster, ledger, loot, purse, history>>
  BY DEF ResolveMonster
<1>2. CASE UNCHANGED <<clock, player, control>>  BY <1>1, <1>2 DEF TypeOK, history
<1>3. CASE clock[m].hit # None /\ clock' = [clock EXCEPT ![m] = Unswung(@)]
  <2>1. clock' \in [Monster -> ClockRow]  BY <1>3, UnswungFields DEF TypeOK
  <2>2. CASE UNCHANGED <<player, control>>  BY <1>1, <2>1, <2>2 DEF TypeOK, history
  <2>3. CASE Wounded(clock[m].hit.target, d)
    <3>1. clock[m].hit.target \in Player /\ d \in Nat  BY <1>3, ClockFields, SwingFields
    <3> QED  BY <1>1, <2>1, <2>3, <3>1, WoundedType DEF TypeOK, history
  <2> QED  BY <1>3, <2>2, <2>3 DEF ResolveMonster
<1> QED  BY <1>2, <1>3 DEF ResolveMonster

LEMMA BeginMobsType == ASSUME TypeOK, BeginMobs PROVE TypeOK'
<1>1. player' \in [Player -> PlayerRow]  BY RespawnedFields DEF TypeOK, BeginMobs
<1>2. since' \in [Player -> Nat]  BY DEF TypeOK, BeginMobs
<1> QED  BY <1>1, <1>2 DEF TypeOK, BeginMobs

LEMMA MobType ==
    ASSUME TypeOK, NEW m \in Monster, Mob(m) PROVE TypeOK'
<1>1. todo' \subseteq todo /\ UNCHANGED <<now, phase, conns>>  BY DEF Mob
<1>2. CASE MobRespawns(m)
  <2>1. FreshMonster(monster[m].life + 1) \in MonsterRow /\ FreshClock \in ClockRow
    BY FreshRows, MonsterFields
  <2> QED  BY <1>1, <1>2, <2>1 DEF TypeOK, MobRespawns, WithoutDamage
<1>3. CASE MobIdles(m)  BY <1>1, <1>3 DEF TypeOK, MobIdles, rows, history
<1>4. ASSUME NEW p \in Player, NEW ranged \in BOOLEAN, MobSwings(m, p, ranged)
      PROVE  TypeOK'
  <2> DEFINE hit == [target |-> p, tlife |-> player[p].life, slife |-> monster[m].life,
                     at |-> now + MobStart, upto |-> now + MobUntil]
             row == [until |-> now + MobDuration, next |-> now + MobCooldown,
                     shield |-> clock[m].shield, hit |-> hit]
  <2>1. now \in Nat  BY DEF TypeOK
  <2>2. hit \in Swing  BY <2>1, PlayerFields, MonsterFields DEF Swing
  <2>3. row \in ClockRow
    <3> HIDE DEF hit
    <3> QED  BY <2>1, <2>2, ClockFields DEF ClockRow
  <2>4. clock' = [clock EXCEPT ![m] = row]  BY <1>4 DEF MobSwings
  <2>5. clock' \in [Monster -> ClockRow]
    <3> HIDE DEF row
    <3> QED  BY <2>3, <2>4 DEF TypeOK
  <2>6. [at |-> now, who |-> m, rev |-> 0] \in Event  BY <2>1 DEF Event
  <2>7. due' \subseteq Event  BY <1>4, <2>6 DEF MobSwings
  <2> QED  BY <1>1, <1>4, <2>5, <2>7 DEF TypeOK, MobSwings, history
<1> QED  BY <1>2, <1>3, <1>4 DEF Mob

LEMMA TypeStep == TypeOK /\ [Next]_vars => TypeOK'
<1> SUFFICES ASSUME TypeOK, [Next]_vars PROVE TypeOK'
  OBVIOUS
<1>1. CASE Tick  BY <1>1 DEF TypeOK, Tick, rows, history
<1>2. CASE Simulate
  <2>1. CASE EndTick  BY <2>1 DEF TypeOK, EndTick, rows, history
  <2> QED
    BY <1>2, <2>1, BeginTickType, ResolvePlayerType, ResolveMonsterType, BeginMobsType,
       MobType DEF Simulate, Resolve
<1>3. ASSUME NEW p \in Player,
             \/ Enter(p) \/ Leave(p)
             \/ \E t \in Monster \cup {None}, d \in Roll : PerformAttack(p, t, d)
             \/ \E l \in loot : PickupLoot(p, l)
      PROVE  TypeOK'
  BY <1>3, EnterType, LeaveType, AttackType, PickupType
<1>4. CASE UNCHANGED vars  BY <1>4 DEF TypeOK, vars, tickVars, rows, history
<1> QED  BY <1>1, <1>2, <1>3, <1>4 DEF Next

\* Every table keeps its type in every reachable state.
THEOREM TypeCorrect == Spec => []TypeOK
<1>1. Init => TypeOK  BY FreshRows DEF Init, TypeOK, PlayerRow, ControlRow
<1> QED  BY <1>1, TypeStep, PTL DEF Spec

-----------------------------------------------------------------------------
(* The inductive invariant.  NoOrphanedHit alone does not say why a swing    *)
(* that survives its target's death is harmless: the life that a record      *)
(* captured was never ahead of its target's, and a record that captured the  *)
(* target's present life was made after that life, or presence, began.       *)

BlowHolds(p) ==
    control[p].hit # None =>
        /\ Alive(p) /\ control[p].hit.slife = player[p].life
        /\ control[p].hit.rev = control[p].rev
        /\ control[p].hit.at >= since[p] + Start
        /\ control[p].hit.tlife <= monster[control[p].hit.target].life
        /\ control[p].hit.tlife = monster[control[p].hit.target].life
               => control[p].hit.at >= born[control[p].hit.target] + Start

SwingHolds(m) ==
    clock[m].hit # None =>
        /\ monster[m].health > 0 /\ clock[m].hit.slife = monster[m].life
        /\ player[clock[m].hit.target].online
        /\ clock[m].hit.at >= born[m] + MobStart
        /\ clock[m].hit.tlife <= player[clock[m].hit.target].life
        /\ clock[m].hit.tlife = player[clock[m].hit.target].life
               => clock[m].hit.at >= since[clock[m].hit.target] + MobStart

HistoryHolds ==
    /\ \A p \in Player : since[p] <= now
    /\ \A m \in Monster : born[m] <= now

PaidHolds(m) == paid[m] = monster[m].life + (IF monster[m].health = 0 THEN 1 ELSE 0)

Inv ==
    /\ TypeOK /\ HistoryHolds
    /\ \A p \in Player : BlowHolds(p)
    /\ \A m \in Monster : SwingHolds(m) /\ PaidHolds(m)

\* What the invariant does not speak of may change freely.
LEMMA BlowFrame ==
    ASSUME TypeOK, NEW p \in Player, BlowHolds(p),
           control'[p].hit = control[p].hit, control'[p].rev = control[p].rev,
           control[p].hit # None =>
               /\ player'[p].online = player[p].online /\ player'[p].life = player[p].life
               /\ player'[p].health > 0 /\ since'[p] = since[p],
           \A m \in Monster : monster'[m].life = monster[m].life /\ born'[m] = born[m]
    PROVE  BlowHolds(p)'
<1>1. control[p].hit # None => control[p].hit.target \in Monster
  BY ControlFields, BlowFields
<1> QED  BY <1>1 DEF BlowHolds, Alive

LEMMA SwingFrame ==
    ASSUME TypeOK, NEW m \in Monster, SwingHolds(m),
           clock'[m].hit = clock[m].hit,
           clock[m].hit # None =>
               /\ monster'[m].health > 0 /\ monster'[m].life = monster[m].life
               /\ born'[m] = born[m],
           \A p \in Player :
               /\ player[p].online =>
                     player'[p].online /\ since'[p] = since[p]
               /\ player'[p].life = player[p].life
    PROVE  SwingHolds(m)'
<1>1. clock[m].hit # None => clock[m].hit.target \in Player  BY ClockFields, SwingFields
<1> QED  BY <1>1 DEF SwingHolds

\* A row without a hit holds.
LEMMA NoBlow == ASSUME NEW p \in Player, control'[p].hit = None PROVE BlowHolds(p)'
  BY DEF BlowHolds

LEMMA NoSwing == ASSUME NEW m \in Monster, clock'[m].hit = None PROVE SwingHolds(m)'
  BY DEF SwingHolds

Held == HistoryHolds /\ (\A p \in Player : BlowHolds(p))
                     /\ (\A m \in Monster : SwingHolds(m) /\ PaidHolds(m))

LEMMA EnterHolds == ASSUME Inv, NEW q \in Player, Enter(q) PROVE Held'
<1>1. TypeOK /\ ~player[q].online  BY DEF Inv, Enter
<1>2. /\ UNCHANGED <<now, monster, clock, born, paid>>
      /\ player' = [player EXCEPT ![q].online = TRUE]
      /\ control' = [control EXCEPT ![q].conn = conns']
      /\ since' = [since EXCEPT ![q] = now]
  BY DEF Enter, tickVars
<1>3. HistoryHolds'  BY <1>2 DEF Inv, HistoryHolds, TypeOK
<1>4. ASSUME NEW p \in Player PROVE BlowHolds(p)'
  <2>1. control'[p].hit = control[p].hit /\ control'[p].rev = control[p].rev
    BY <1>2 DEF Inv, TypeOK, ControlRow
  <2>2. p = q => control[p].hit = None  BY <1>1 DEF Inv, BlowHolds, Alive
  <2>3. p # q => player'[p] = player[p] /\ since'[p] = since[p]  BY <1>2 DEF Inv, TypeOK
  <2>4. control[p].hit # None => player[p].health > 0  BY DEF Inv, BlowHolds, Alive
  <2>5. BlowHolds(p)  BY DEF Inv
  <2> QED  BY <1>1, <1>2, <2>1, <2>2, <2>3, <2>4, <2>5, BlowFrame
<1>5. ASSUME NEW m \in Monster PROVE SwingHolds(m)' /\ PaidHolds(m)'
  <2>1. ASSUME NEW p \in Player
        PROVE  /\ player[p].online => player'[p].online /\ since'[p] = since[p]
               /\ player'[p].life = player[p].life
    BY <1>1, <1>2 DEF TypeOK, PlayerRow
  <2>2. SwingHolds(m) /\ PaidHolds(m)  BY DEF Inv
  <2>3. clock[m].hit # None => monster[m].health > 0  BY <2>2 DEF SwingHolds
  <2> QED  BY <1>1, <1>2, <2>1, <2>2, <2>3, SwingFrame DEF PaidHolds
<1> QED  BY <1>3, <1>4, <1>5 DEF Held

LEMMA LeaveHolds == ASSUME Inv, NEW q \in Player, Leave(q) PROVE Held'
<1>1. TypeOK  BY DEF Inv
<1>2. /\ UNCHANGED <<now, monster, since, born, paid>>
      /\ player' = [player EXCEPT ![q].online = FALSE]
      /\ control' = [control EXCEPT ![q] = Disarmed(@)]
      /\ clock' = WithoutSwingsAt(q)
  BY DEF Leave, tickVars, history
<1>3. HistoryHolds'  BY <1>2 DEF Inv, HistoryHolds
<1>4. ASSUME NEW p \in Player PROVE BlowHolds(p)'
  <2>1. CASE p = q
    <3>1. control'[q] = Disarmed(control[q]) /\ control[q] \in ControlRow
      BY <1>1, <1>2 DEF TypeOK
    <3> QED  BY <2>1, <3>1, DisarmedFields, NoBlow
  <2>2. CASE p # q
    <3>1. control'[p] = control[p] /\ player'[p] = player[p]
      BY <1>1, <1>2, <2>2 DEF TypeOK
    <3>2. BlowHolds(p) /\ (control[p].hit # None => player[p].health > 0)
      BY DEF Inv, BlowHolds, Alive
    <3> QED  BY <1>1, <1>2, <3>1, <3>2, BlowFrame
  <2> QED  BY <2>1, <2>2
<1>5. ASSUME NEW m \in Monster PROVE SwingHolds(m)' /\ PaidHolds(m)'
  <2>1. SwingHolds(m) /\ PaidHolds(m) /\ clock[m] \in ClockRow  BY <1>1 DEF Inv, TypeOK
  <2>2. CASE clock[m].hit # None => clock[m].hit.target # q
    <3>1. clock'[m] = clock[m]  BY <1>2, <2>2 DEF WithoutSwingsAt
    <3>2. CASE clock[m].hit = None  BY <1>2, <2>1, <3>1, <3>2, NoSwing DEF PaidHolds
    <3>3. CASE clock[m].hit # None
      <4>1. clock[m].hit.target \in Player /\ clock[m].hit.target # q
        BY <1>1, <2>2, <3>3, ClockFields, SwingFields
      <4>2. player'[clock[m].hit.target] = player[clock[m].hit.target]
        BY <1>1, <1>2, <4>1 DEF TypeOK
      <4> QED  BY <1>2, <2>1, <3>1, <4>2 DEF SwingHolds, PaidHolds
    <3> QED  BY <3>2, <3>3
  <2>3. CASE ~(clock[m].hit # None => clock[m].hit.target # q)
    <3>1. clock'[m] = Unswung(clock[m])  BY <1>2, <2>3 DEF WithoutSwingsAt
    <3> QED  BY <1>2, <2>1, <3>1, UnswungFields, NoSwing DEF PaidHolds
  <2> QED  BY <2>2, <2>3
<1> QED  BY <1>3, <1>4, <1>5 DEF Held

LEMMA AttackHolds ==
    ASSUME Inv, NEW q \in Player, NEW t \in Monster \cup {None}, NEW d \in Roll,
           PerformAttack(q, t, d)
    PROVE  Held'
<1>1. TypeOK /\ Alive(q) /\ now \in Nat  BY DEF Inv, PerformAttack, TypeOK
<1>2. UNCHANGED <<now, player, monster, clock, since, born, paid>>
  BY DEF PerformAttack, tickVars, history
<1>3. HistoryHolds'  BY <1>2 DEF Inv, HistoryHolds
<1>4. ASSUME NEW p \in Player PROVE BlowHolds(p)'
  <2>1. CASE p # q
    <3>1. control'[p] = control[p]  BY <1>1, <2>1 DEF TypeOK, PerformAttack
    <3>2. BlowHolds(p) /\ (control[p].hit # None => player[p].health > 0)
      BY DEF Inv, BlowHolds, Alive
    <3> QED  BY <1>1, <1>2, <3>1, <3>2, BlowFrame
  <2>2. CASE p = q
    <3> DEFINE hit == IF t = None THEN None
                      ELSE [target |-> t, tlife |-> monster[t].life,
                            slife |-> player[q].life, at |-> now + Start,
                            upto |-> now + Until, damage |-> d,
                            rev |-> control[q].rev + 1]
    <3>1. control'[q].hit = hit /\ control'[q].rev = control[q].rev + 1
      BY <1>1 DEF TypeOK, PerformAttack
    <3>2. CASE t = None  BY <2>2, <3>1, <3>2, NoBlow
    <3>3. CASE t # None
      <4>1. t \in Monster  BY <3>3
      <4>2. since[q] <= now /\ born[t] <= now  BY <4>1 DEF Inv, HistoryHolds
      <4>3. since[q] \in Nat /\ born[t] \in Nat /\ monster[t].life \in Nat
        BY <1>1, <4>1, MonsterFields DEF TypeOK
      <4>4. /\ hit.target = t /\ hit.tlife = monster[t].life
            /\ hit.slife = player[q].life /\ hit.at = now + Start
            /\ hit.rev = control[q].rev + 1
        BY <3>3
      <4> HIDE DEF hit
      <4> QED  BY <1>1, <1>2, <2>2, <3>1, <4>1, <4>2, <4>3, <4>4 DEF BlowHolds, Alive
    <3> QED  BY <3>2, <3>3
  <2> QED  BY <2>1, <2>2
<1> QED  BY <1>2, <1>3, <1>4 DEF Held, Inv, SwingHolds, PaidHolds

LEMMA BeginMobsHolds == ASSUME Inv, BeginMobs PROVE Held'
<1>1. TypeOK  BY DEF Inv
<1>2. /\ UNCHANGED <<now, control, monster, clock, born, paid>>
      /\ player' = [p \in Player |-> IF p \in Risen THEN Respawned(player[p]) ELSE player[p]]
      /\ since' = [p \in Player |-> IF p \in Risen THEN now ELSE since[p]]
  BY DEF BeginMobs
<1>3. HistoryHolds'  BY <1>1, <1>2 DEF Inv, HistoryHolds, TypeOK
<1>4. ASSUME NEW p \in Player PROVE BlowHolds(p)'
  <2>1. control[p].hit # None => Alive(p) /\ player[p].health > 0
    BY DEF Inv, BlowHolds, Alive
  <2>2. control[p].hit # None => p \notin Risen  BY <1>1, <2>1, PlayerFields DEF Risen
  <2>3. p \notin Risen => player'[p] = player[p] /\ since'[p] = since[p]  BY <1>2
  <2>4. BlowHolds(p)  BY DEF Inv
  <2> QED  BY <1>1, <1>2, <2>1, <2>2, <2>3, <2>4, BlowFrame
<1>5. ASSUME NEW m \in Monster PROVE SwingHolds(m)' /\ PaidHolds(m)'
  <2>1. SwingHolds(m) /\ PaidHolds(m)  BY DEF Inv
  <2>2. CASE clock[m].hit = None  BY <1>2, <2>1, <2>2, NoSwing DEF PaidHolds
  <2>3. CASE clock[m].hit # None
    <3> DEFINE p == clock[m].hit.target
    <3>1. p \in Player /\ clock[m].hit.tlife \in Nat
      BY <1>1, <2>3, ClockFields, SwingFields
    <3>2. CASE p \notin Risen
      <4>1. player'[p] = player[p] /\ since'[p] = since[p]  BY <1>2, <3>1, <3>2
      <4> QED  BY <1>2, <2>1, <4>1 DEF SwingHolds, PaidHolds
    <3>3. CASE p \in Risen
      <4>1. player'[p] = Respawned(player[p]) /\ player[p] \in PlayerRow
        BY <1>1, <1>2, <3>1, <3>3 DEF TypeOK
      <4>2. player'[p].online = player[p].online /\ player'[p].life = player[p].life + 1
        BY <4>1, RespawnedFields
      <4>3. player[p].life \in Nat  BY <1>1, <3>1, PlayerFields
      <4>4. clock[m].hit.tlife <= player[p].life  BY <2>1, <2>3 DEF SwingHolds
      <4>5. /\ clock[m].hit.tlife # player'[p].life
            /\ clock[m].hit.tlife <= player'[p].life
        BY <3>1, <4>2, <4>3, <4>4
      <4> QED  BY <1>2, <2>1, <4>2, <4>5 DEF SwingHolds, PaidHolds
    <3> QED  BY <3>2, <3>3
  <2> QED  BY <2>2, <2>3
<1> QED  BY <1>3, <1>4, <1>5 DEF Held

\* What a landed hit does to the tables the invariant speaks of.
LEMMA LandedEffect ==
    ASSUME TypeOK, NEW p \in Player, NEW hit \in Blow, NEW stagger \in BOOLEAN,
           Landed(p, hit, stagger)
    PROVE  /\ \A m \in Monster : m # hit.target =>
                  monster'[m] = monster[m] /\ clock'[m] = clock[m] /\ paid'[m] = paid[m]
           /\ \A m \in Monster : monster'[m].life = monster[m].life
           /\ monster'[hit.target].health = After(monster[hit.target].health, hit.damage)
           /\ clock'[hit.target].hit = None
                  \/ /\ clock'[hit.target].hit = clock[hit.target].hit
                     /\ monster'[hit.target].health # 0
           /\ paid'[hit.target] = paid[hit.target]
                  + (IF monster'[hit.target].health = 0 THEN 1 ELSE 0)
           /\ UNCHANGED <<since, born>>
<1> DEFINE t == hit.target
           left == After(monster[t].health, hit.damage)
           shielded(row) == [until |-> row.until, next |-> row.next,
                             shield |-> now + Shield, hit |-> row.hit]
           still(row) == [until |-> 0, next |-> row.next,
                          shield |-> now + Shield, hit |-> None]
<1>1. t \in Monster  BY BlowFields
<1>2. UNCHANGED <<since, born>>  BY DEF Landed
<1>3. CASE left = 0
  <2>1. /\ monster' = [monster EXCEPT ![t] = [health |-> 0, life |-> monster[t].life,
                                               respawn |-> now + MonsterRespawn]]
        /\ clock' = [clock EXCEPT ![t] = still(clock[t])]
        /\ paid' = [paid EXCEPT ![t] = @ + 1]
    BY <1>3 DEF Landed
  <2>2. /\ monster'[t] = [health |-> 0, life |-> monster[t].life,
                           respawn |-> now + MonsterRespawn]
        /\ clock'[t] = still(clock[t]) /\ paid'[t] = paid[t] + 1
        /\ \A m \in Monster : m # t =>
               monster'[m] = monster[m] /\ clock'[m] = clock[m] /\ paid'[m] = paid[m]
    <3> HIDE DEF still
    <3> QED  BY <1>1, <2>1 DEF TypeOK
  <2> HIDE DEF left
  <2> QED  BY <1>1, <1>2, <1>3, <2>2 DEF left
<1>4. CASE left # 0
  <2>1. /\ monster' = [monster EXCEPT ![t] = [health |-> left, life |-> monster[t].life,
                                               respawn |-> monster[t].respawn]]
        /\ clock' = [clock EXCEPT ![t] = IF stagger THEN still(clock[t])
                                         ELSE shielded(clock[t])]
        /\ paid' = paid
    BY <1>4 DEF Landed
  <2>2. /\ monster'[t] = [health |-> left, life |-> monster[t].life,
                           respawn |-> monster[t].respawn]
        /\ clock'[t] = IF stagger THEN still(clock[t]) ELSE shielded(clock[t])
        /\ \A m \in Monster : m # t =>
               monster'[m] = monster[m] /\ clock'[m] = clock[m] /\ paid'[m] = paid[m]
    <3> HIDE DEF still, shielded, left
    <3> QED  BY <1>1, <2>1 DEF TypeOK
  <2>3. paid[t] \in Nat  BY <1>1 DEF TypeOK
  <2>4. clock'[t].hit = None \/ clock'[t].hit = clock[t].hit  BY <2>2
  <2>5. monster'[t].health = left /\ monster'[t].life = monster[t].life /\ paid'[t] = paid[t]
    BY <1>1, <2>1, <2>2
  <2> HIDE DEF left, still, shielded
  <2> QED  BY <1>1, <1>2, <1>4, <2>2, <2>3, <2>4, <2>5 DEF left
<1> QED  BY <1>3, <1>4

LEMMA ResolvePlayerHolds ==
    ASSUME Inv, NEW q \in Player, NEW reach \in BOOLEAN, NEW stagger \in BOOLEAN,
           ResolvePlayer(q, reach, stagger)
    PROVE  Held'
<1>1. TypeOK /\ Held  BY DEF Inv, Held
<1>2. UNCHANGED <<now, player>>  BY DEF ResolvePlayer
<1>3. CASE UNCHANGED <<control, monster, clock, ledger, loot, history>>
  BY <1>1, <1>2, <1>3
     DEF Held, HistoryHolds, BlowHolds, SwingHolds, PaidHolds, Alive, history
<1>4. CASE /\ control[q].hit # None
           /\ control' = [control EXCEPT ![q] = Taken(@)]
           /\ \/ UNCHANGED <<monster, clock, ledger, loot, history>>
              \/ BlowLands(q, control[q].hit) /\ Landed(q, control[q].hit, stagger)
  <2> DEFINE hit == control[q].hit
  <2>1. hit \in Blow /\ hit.target \in Monster /\ hit.damage \in Nat
    BY <1>1, <1>4, ControlFields, BlowFields
  <2>2. /\ UNCHANGED <<since, born>>
        /\ \A m \in Monster : monster'[m].life = monster[m].life
    BY <1>1, <1>4, <2>1, LandedEffect DEF history
  <2>3. HistoryHolds'  BY <1>1, <1>2, <2>2 DEF Held, HistoryHolds
  <2>4. ASSUME NEW p \in Player PROVE BlowHolds(p)'
    <3>1. CASE p = q
      <4>1. control'[q] = Taken(control[q]) /\ control[q] \in ControlRow
        BY <1>1, <1>4 DEF TypeOK
      <4> QED  BY <3>1, <4>1, TakenFields, NoBlow
    <3>2. CASE p # q
      <4>1. control'[p] = control[p]  BY <1>1, <1>4, <3>2 DEF TypeOK
      <4>2. BlowHolds(p) /\ (control[p].hit # None => player[p].health > 0)
        BY <1>1 DEF Held, BlowHolds, Alive
      <4> QED  BY <1>1, <1>2, <2>2, <4>1, <4>2, BlowFrame
    <3> QED  BY <3>1, <3>2
  <2>5. ASSUME NEW m \in Monster PROVE SwingHolds(m)' /\ PaidHolds(m)'
    <3>1. SwingHolds(m) /\ PaidHolds(m)  BY <1>1 DEF Held
    <3>2. CASE UNCHANGED <<monster, clock, ledger, loot, history>>
      BY <1>2, <3>1, <3>2 DEF SwingHolds, PaidHolds, history
    <3>3. CASE BlowLands(q, hit) /\ Landed(q, hit, stagger)
      <4>1. CASE m # hit.target
        <5>1. monster'[m] = monster[m] /\ clock'[m] = clock[m] /\ paid'[m] = paid[m]
          BY <1>1, <2>1, <3>3, <4>1, LandedEffect
        <5> QED  BY <1>2, <2>2, <3>1, <5>1 DEF SwingHolds, PaidHolds
      <4>2. CASE m = hit.target
        <5> HIDE DEF hit
        <5>1. /\ monster'[m].life = monster[m].life
              /\ monster'[m].health = After(monster[m].health, hit.damage)
              /\ clock'[m].hit = None \/ (/\ clock'[m].hit = clock[m].hit
                                          /\ monster'[m].health # 0)
              /\ paid'[m] = paid[m] + (IF monster'[m].health = 0 THEN 1 ELSE 0)
          BY <1>1, <2>1, <3>3, <4>2, LandedEffect
        <5>2. monster[m].health > 0  BY <3>3, <4>2 DEF BlowLands
        <5>3. monster'[m].health \in Nat /\ paid[m] \in Nat /\ monster[m].life \in Nat
          <6>1. monster[m].health \in 0..MonsterHealth /\ MonsterHealth \in Nat
            BY <1>1, MonsterFields
          <6>2. After(monster[m].health, hit.damage) \in 0..MonsterHealth
            BY <2>1, <6>1, AfterLess
          <6> QED  BY <1>1, <5>1, <6>2, MonsterFields DEF TypeOK
        <5>4. PaidHolds(m)'  BY <3>1, <5>1, <5>2, <5>3 DEF PaidHolds
        <5>5. SwingHolds(m)'  BY <1>2, <2>2, <3>1, <5>1, <5>3 DEF SwingHolds
        <5> QED  BY <5>4, <5>5
      <4> QED  BY <4>1, <4>2
    <3> QED  BY <1>4, <3>2, <3>3
  <2> QED  BY <2>3, <2>4, <2>5 DEF Held
<1> QED  BY <1>3, <1>4 DEF ResolvePlayer

\* What a monster's hit does to the tables the invariant speaks of.
LEMMA WoundedEffect ==
    ASSUME TypeOK, NEW q \in Player, NEW d \in Nat, Wounded(q, d)
    PROVE  /\ \A p \in Player : /\ player'[p].online = player[p].online
                                 /\ player'[p].life = player[p].life
           /\ \A p \in Player : p # q => player'[p] = player[p] /\ control'[p] = control[p]
           /\ player'[q].health \in Nat
           /\ IF player'[q].health = 0 THEN control'[q].hit = None ELSE control' = control
<1> DEFINE left == After(player[q].health, d)
           row == [online |-> player[q].online, health |-> left, life |-> player[q].life,
                   respawn |-> IF left = 0 THEN now + PlayerRespawn ELSE player[q].respawn]
<1>1. left \in Nat
  <2>1. player[q].health \in 0..PlayerHealth  BY PlayerFields
  <2>2. PlayerHealth \in Nat
    OBVIOUS
  <2>3. After(player[q].health, d) \in 0..PlayerHealth  BY <2>1, <2>2, AfterLess
  <2> QED BY <2>2, <2>3
<1>2. /\ player' = [player EXCEPT ![q] = row]
      /\ control' = IF left = 0 THEN [control EXCEPT ![q] = Disarmed(control[q])] ELSE control
  BY DEF Wounded
<1>3. player'[q] = row /\ \A p \in Player : p # q => player'[p] = player[p]
  <2> HIDE DEF row
  <2> QED  BY <1>2 DEF TypeOK
<1>4. row.online = player[q].online /\ row.life = player[q].life /\ row.health = left
  OBVIOUS
<1> HIDE DEF row, left
<1>5. control[q] \in ControlRow  BY DEF TypeOK
<1>6. \A p \in Player : p # q => control'[p] = control[p]  BY <1>2 DEF TypeOK
<1>7. left = 0 => control'[q].hit = None  BY <1>2, <1>5, DisarmedFields DEF TypeOK
<1> QED  BY <1>1, <1>2, <1>3, <1>4, <1>6, <1>7

LEMMA ResolveMonsterHolds ==
    ASSUME Inv, NEW n \in Monster, NEW reach \in BOOLEAN, NEW d \in Roll,
           ResolveMonster(n, reach, d)
    PROVE  Held'
<1>1. TypeOK /\ Held  BY DEF Inv, Held
<1>2. UNCHANGED <<now, monster, since, born, paid>>  BY DEF ResolveMonster, history
<1>3. CASE UNCHANGED <<clock, player, control>>  BY <1>1, <1>2, <1>3
     DEF Held, HistoryHolds, BlowHolds, SwingHolds, PaidHolds, Alive
<1>4. CASE /\ clock[n].hit # None
           /\ clock' = [clock EXCEPT ![n] = Unswung(@)]
           /\ UNCHANGED <<player, control>> \/ Wounded(clock[n].hit.target, d)
  <2> DEFINE q == clock[n].hit.target
  <2>1. q \in Player /\ d \in Nat  BY <1>1, <1>4, ClockFields, SwingFields
  <2>2. /\ \A p \in Player : /\ player'[p].online = player[p].online
                              /\ player'[p].life = player[p].life
    BY <1>1, <1>4, <2>1, WoundedEffect
  <2>3. ASSUME NEW p \in Player PROVE BlowHolds(p)'
    <3>1. BlowHolds(p)  BY <1>1 DEF Held
    <3>2. CASE UNCHANGED <<player, control>>  BY <1>2, <3>1, <3>2 DEF BlowHolds, Alive
    <3>3. CASE Wounded(q, d)
      <4>1. CASE p # q
        <5>1. player'[p] = player[p] /\ control'[p] = control[p]
          BY <1>1, <2>1, <3>3, <4>1, WoundedEffect
        <5> QED  BY <1>2, <3>1, <5>1 DEF BlowHolds, Alive
      <4>2. CASE p = q
        <5>1. /\ player'[q].health \in Nat
              /\ player'[q].health = 0 => control'[q].hit = None
              /\ player'[q].health # 0 => control' = control
          BY <1>1, <2>1, <3>3, WoundedEffect
        <5>2. CASE player'[q].health = 0  BY <4>2, <5>1, <5>2, NoBlow
        <5>3. CASE player'[q].health # 0
          <6> HIDE DEF q
          <6>1. player'[q].health > 0  BY <5>1, <5>3
          <6> QED  BY <1>1, <1>2, <2>2, <3>1, <4>2, <5>1, <5>3, <6>1, BlowFrame
        <5> QED  BY <5>2, <5>3
      <4> QED  BY <4>1, <4>2
    <3> QED  BY <1>4, <3>2, <3>3
  <2>4. ASSUME NEW m \in Monster PROVE SwingHolds(m)' /\ PaidHolds(m)'
    <3>1. SwingHolds(m) /\ PaidHolds(m) /\ clock[m] \in ClockRow
      BY <1>1 DEF Held, TypeOK
    <3>2. CASE m = n
      <4>1. clock'[m] = Unswung(clock[m])  BY <1>1, <1>4, <3>2 DEF TypeOK
      <4> QED  BY <1>2, <3>1, <4>1, UnswungFields, NoSwing DEF PaidHolds
    <3>3. CASE m # n
      <4>1. clock'[m] = clock[m]  BY <1>1, <1>4, <3>3 DEF TypeOK
      <4>2. clock[m].hit # None => monster[m].health > 0  BY <3>1 DEF SwingHolds
      <4> QED  BY <1>1, <1>2, <2>2, <3>1, <4>1, <4>2, SwingFrame DEF PaidHolds
    <3> QED  BY <3>2, <3>3
  <2>5. HistoryHolds'  BY <1>1, <1>2 DEF Held, HistoryHolds
  <2> QED  BY <2>3, <2>4, <2>5 DEF Held
<1> QED  BY <1>3, <1>4 DEF ResolveMonster

LEMMA MobHolds == ASSUME Inv, NEW n \in Monster, Mob(n) PROVE Held'
<1>1. TypeOK /\ Held /\ now' = now  BY DEF Inv, Held, Mob
<1>2. CASE MobRespawns(n)
  <2>1. /\ monster' = [monster EXCEPT ![n] = FreshMonster(monster[n].life + 1)]
        /\ clock' = [clock EXCEPT ![n] = FreshClock]
        /\ born' = [born EXCEPT ![n] = now]
        /\ UNCHANGED <<player, control, since, paid>> /\ monster[n].health = 0
    BY <1>2 DEF MobRespawns
  <2>2. /\ monster[n].life \in Nat /\ now \in Nat /\ MonsterHealth \in Nat \ {0}
        /\ paid[n] \in Nat
    BY <1>1, MonsterFields DEF TypeOK
  <2>3. /\ monster'[n].health = MonsterHealth /\ monster'[n].life = monster[n].life + 1
        /\ clock'[n].hit = None /\ born'[n] = now
    BY <1>1, <2>1, <2>2, FreshRows DEF TypeOK
  <2>4. \A m \in Monster : m # n =>
            monster'[m] = monster[m] /\ clock'[m] = clock[m] /\ born'[m] = born[m]
    BY <1>1, <2>1 DEF TypeOK
  <2>5. HistoryHolds'  BY <1>1, <2>1, <2>2, <2>3, <2>4 DEF Held, HistoryHolds
  <2>6. ASSUME NEW p \in Player PROVE BlowHolds(p)'
    <3>1. BlowHolds(p)  BY <1>1 DEF Held
    <3>2. CASE control[p].hit = None  BY <2>1, <3>2, NoBlow
    <3>3. CASE control[p].hit # None
      <4> DEFINE t == control[p].hit.target
      <4>1. t \in Monster /\ control[p].hit.tlife \in Nat
        BY <1>1, <3>3, ControlFields, BlowFields
      <4>2. CASE t # n  BY <2>1, <2>4, <3>1, <4>1, <4>2 DEF BlowHolds, Alive
      <4>3. CASE t = n
        <5>1. control[p].hit.tlife <= monster[n].life  BY <3>1, <3>3, <4>3 DEF BlowHolds
        <5>2. /\ control[p].hit.tlife <= monster'[n].life
              /\ control[p].hit.tlife # monster'[n].life
          BY <2>2, <2>3, <4>1, <5>1
        <5> QED  BY <2>1, <3>1, <4>3, <5>2 DEF BlowHolds, Alive
      <4> QED  BY <4>2, <4>3
    <3> QED  BY <3>2, <3>3
  <2>7. ASSUME NEW m \in Monster PROVE SwingHolds(m)' /\ PaidHolds(m)'
    <3>1. SwingHolds(m) /\ PaidHolds(m)  BY <1>1 DEF Held
    <3>2. CASE m = n  BY <2>1, <2>2, <2>3, <3>1, <3>2, NoSwing DEF PaidHolds
    <3>3. CASE m # n  BY <2>1, <2>4, <3>1, <3>3 DEF SwingHolds, PaidHolds
    <3> QED  BY <3>2, <3>3
  <2> QED  BY <2>5, <2>6, <2>7 DEF Held
<1>3. CASE MobIdles(n)
  BY <1>1, <1>3 DEF MobIdles, rows, history, Held, HistoryHolds, BlowHolds, SwingHolds,
                    PaidHolds, Alive
<1>4. ASSUME NEW q \in Player, NEW ranged \in BOOLEAN, MobSwings(n, q, ranged)
      PROVE  Held'
  <2> DEFINE hit == [target |-> q, tlife |-> player[q].life, slife |-> monster[n].life,
                     at |-> now + MobStart, upto |-> now + MobUntil]
  <2>1. /\ UNCHANGED <<player, control, monster, since, born, paid>>
        /\ monster[n].health > 0 /\ player[q].online
    BY <1>4 DEF MobSwings, history, Alive
  <2>2. clock'[n].hit = hit  BY <1>1, <1>4 DEF MobSwings, TypeOK
  <2>3. \A m \in Monster : m # n => clock'[m] = clock[m]
    BY <1>1, <1>4 DEF MobSwings, TypeOK
  <2>4. HistoryHolds' /\ \A p \in Player : BlowHolds(p)'
    BY <1>1, <2>1 DEF Held, HistoryHolds, BlowHolds, Alive
  <2>5. ASSUME NEW m \in Monster PROVE SwingHolds(m)' /\ PaidHolds(m)'
    <3>1. SwingHolds(m) /\ PaidHolds(m)  BY <1>1 DEF Held
    <3>2. CASE m # n  BY <2>1, <2>3, <3>1, <3>2 DEF SwingHolds, PaidHolds
    <3>3. CASE m = n
      <4>1. /\ hit.target = q /\ hit.tlife = player[q].life /\ hit.slife = monster[n].life
            /\ hit.at = now + MobStart
        OBVIOUS
      <4>2. /\ since[q] <= now /\ born[n] <= now /\ since[q] \in Nat /\ born[n] \in Nat
            /\ now \in Nat /\ player[q].life \in Nat
        BY <1>1, PlayerFields DEF Held, HistoryHolds, TypeOK
      <4> HIDE DEF hit
      <4> QED  BY <2>1, <2>2, <3>1, <3>3, <4>1, <4>2 DEF SwingHolds, PaidHolds
    <3> QED  BY <3>2, <3>3
  <2> QED  BY <2>4, <2>5 DEF Held
<1> QED  BY <1>2, <1>3, <1>4 DEF Mob

LEMMA InvStep == Inv /\ [Next]_vars => Inv'
<1> SUFFICES ASSUME Inv, [Next]_vars PROVE Inv'
  OBVIOUS
<1>1. TypeOK'  BY TypeStep DEF Inv
<1> SUFFICES Held'  BY <1>1 DEF Inv, Held
<1>2. TypeOK /\ Held  BY DEF Inv, Held
<1>3. ASSUME UNCHANGED <<player, control, monster, clock, since, born, paid>>,
             now' >= now
      PROVE  Held'
  BY <1>1, <1>2, <1>3
     DEF Held, HistoryHolds, BlowHolds, SwingHolds, PaidHolds, Alive, TypeOK
<1>4. now' = now => now' >= now  BY <1>2 DEF TypeOK
<1>5. CASE Tick
  <2>1. now' >= now  BY <1>2, <1>5 DEF Tick, TypeOK
  <2> QED  BY <1>3, <1>5, <2>1 DEF Tick, rows, history
<1>6. CASE Simulate
  <2>1. CASE BeginTick \/ EndTick
    BY <1>3, <1>4, <2>1 DEF BeginTick, EndTick, rows, history
  <2> QED
    BY <1>6, <2>1, ResolvePlayerHolds, ResolveMonsterHolds, BeginMobsHolds, MobHolds
       DEF Simulate, Resolve
<1>7. ASSUME NEW p \in Player, NEW l \in loot, PickupLoot(p, l) PROVE Held'
  BY <1>3, <1>4, <1>7 DEF PickupLoot, tickVars, history
<1>8. ASSUME NEW p \in Player,
             \/ Enter(p) \/ Leave(p)
             \/ \E t \in Monster \cup {None}, d \in Roll : PerformAttack(p, t, d)
             \/ \E l \in loot : PickupLoot(p, l)
      PROVE  Held'
  BY <1>7, <1>8, EnterHolds, LeaveHolds, AttackHolds
<1>9. CASE UNCHANGED vars  BY <1>3, <1>4, <1>9 DEF vars, tickVars, rows, history
<1> QED  BY <1>5, <1>6, <1>8, <1>9 DEF Next

THEOREM InvCorrect == Spec => []Inv
<1>1. Init => Inv
  <2> SUFFICES ASSUME Init PROVE Inv
    OBVIOUS
  <2>1. TypeOK  BY FreshRows DEF Init, TypeOK, PlayerRow, ControlRow
  <2>2. /\ \A p \in Player : control[p].hit = None /\ since[p] = 0
        /\ \A m \in Monster : /\ clock[m].hit = None /\ born[m] = 0 /\ paid[m] = 0
                              /\ monster[m].health = MonsterHealth /\ monster[m].life = 0
        /\ now = 0
    BY FreshRows DEF Init
  <2> QED  BY <2>1, <2>2 DEF Inv, HistoryHolds, BlowHolds, SwingHolds, PaidHolds
<1> QED  BY <1>1, InvStep, PTL DEF Spec

\* No record of a hit outlives the life that made it.
THEOREM NoOrphanedHitCorrect == Spec => []NoOrphanedHit
<1>1. Inv => NoOrphanedHit  BY DEF Inv, BlowHolds, SwingHolds, NoOrphanedHit
<1> QED  BY <1>1, InvCorrect, PTL

\* Every life of a monster is paid for once.
THEOREM OneRewardCorrect == Spec => []OneRewardPerLife
<1>1. Inv => OneRewardPerLife  BY DEF Inv, PaidHolds, OneRewardPerLife
<1> QED  BY <1>1, InvCorrect, PTL

-----------------------------------------------------------------------------
(* Stale hits.                                                               *)

\* Steps that leave every health as it is, or raise it, cannot be stale.
LEMMA NoLoss ==
    ASSUME \A p \in Player : ~(player'[p].health < player[p].health),
           \A m \in Monster : ~(monster'[m].health < monster[m].health)
    PROVE  StaleFreeStep
  BY DEF StaleFreeStep

LEMMA SameHealth ==
    ASSUME TypeOK, \A p \in Player : player'[p].health = player[p].health,
           \A m \in Monster : monster'[m].health = monster[m].health
    PROVE  StaleFreeStep
  BY NoLoss, PlayerFields, MonsterFields

LEMMA BlowIsFresh ==
    ASSUME Inv, NEW q \in Player, NEW reach \in BOOLEAN, NEW stagger \in BOOLEAN,
           ResolvePlayer(q, reach, stagger)
    PROVE  StaleFreeStep
<1>1. TypeOK /\ player' = player  BY DEF Inv, ResolvePlayer
<1>2. CASE monster' = monster  BY <1>1, <1>2, SameHealth
<1>3. CASE /\ control[q].hit # None /\ control' = [control EXCEPT ![q] = Taken(@)]
           /\ BlowLands(q, control[q].hit) /\ Landed(q, control[q].hit, stagger)
  <2> DEFINE hit == control[q].hit
  <2>1. hit \in Blow /\ hit.target \in Monster  BY <1>1, <1>3, ControlFields, BlowFields
  <2>2. control'[q].hit = None
    <3>1. control'[q] = Taken(control[q]) /\ control[q] \in ControlRow
      BY <1>1, <1>3 DEF TypeOK
    <3> QED  BY <3>1, TakenFields
  <2>3. /\ hit.at >= since[q] + Start
        /\ hit.tlife = monster[hit.target].life => hit.at >= born[hit.target] + Start
    BY <1>3 DEF Inv, BlowHolds
  <2>4. hit.tlife = monster[hit.target].life  BY <1>3 DEF BlowLands
  <2>5. /\ hit.at \in Nat /\ since[q] \in Nat /\ born[hit.target] \in Nat
    BY <1>1, <2>1, BlowFields DEF TypeOK
  <2>6. Stands(q, hit.target, hit.at - Start)  BY <2>3, <2>4, <2>5 DEF Stands
  <2>7. \A m \in Monster : m # hit.target => monster'[m] = monster[m]
    BY <1>1, <1>3, <2>1, LandedEffect
  <2> HIDE DEF hit
  <2>8. \A p \in Player : ~(player'[p].health < player[p].health)  BY <1>1, PlayerFields
  <2>9. \A m \in Monster : monster'[m].health < monster[m].health => m = hit.target
    BY <1>1, <2>7, MonsterFields
  <2> QED  BY <1>3, <2>2, <2>6, <2>8, <2>9 DEF StaleFreeStep, hit
<1> QED  BY <1>2, <1>3 DEF ResolvePlayer

LEMMA SwingIsFresh ==
    ASSUME Inv, NEW n \in Monster, NEW reach \in BOOLEAN, NEW d \in Roll,
           ResolveMonster(n, reach, d)
    PROVE  StaleFreeStep
<1>1. TypeOK /\ monster' = monster  BY DEF Inv, ResolveMonster
<1>2. CASE player' = player  BY <1>1, <1>2, SameHealth
<1>3. CASE /\ clock[n].hit # None /\ clock' = [clock EXCEPT ![n] = Unswung(@)]
           /\ SwingLands(n, clock[n].hit) /\ Wounded(clock[n].hit.target, d)
  <2> DEFINE hit == clock[n].hit
  <2>1. hit \in Swing /\ hit.target \in Player  BY <1>1, <1>3, ClockFields, SwingFields
  <2>2. clock'[n].hit = None
    <3>1. clock'[n] = Unswung(clock[n]) /\ clock[n] \in ClockRow
      BY <1>1, <1>3 DEF TypeOK
    <3> QED  BY <3>1, UnswungFields
  <2>3. /\ hit.at >= born[n] + MobStart
        /\ hit.tlife = player[hit.target].life => hit.at >= since[hit.target] + MobStart
    BY <1>3 DEF Inv, SwingHolds
  <2>4. hit.tlife = player[hit.target].life  BY <1>3 DEF SwingLands
  <2>5. hit.at \in Nat /\ since[hit.target] \in Nat /\ born[n] \in Nat
    BY <1>1, <2>1, SwingFields DEF TypeOK
  <2>6. Stands(hit.target, n, hit.at - MobStart)  BY <2>3, <2>4, <2>5 DEF Stands
  <2>7. \A p \in Player : p # hit.target => player'[p] = player[p]
    BY <1>1, <1>3, <2>1, WoundedEffect
  <2> HIDE DEF hit
  <2>8. \A m \in Monster : ~(monster'[m].health < monster[m].health)
    BY <1>1, MonsterFields
  <2>9. \A p \in Player : player'[p].health < player[p].health => p = hit.target
    BY <1>1, <2>7, PlayerFields
  <2> QED  BY <1>3, <2>2, <2>6, <2>8, <2>9 DEF StaleFreeStep, hit
<1> QED  BY <1>2, <1>3 DEF ResolveMonster

LEMMA StaleFree == Inv /\ [Next]_vars => StaleFreeStep
<1> SUFFICES ASSUME Inv, [Next]_vars PROVE StaleFreeStep
  OBVIOUS
<1>1. TypeOK  BY DEF Inv
<1>2. ASSUME player' = player, monster' = monster PROVE StaleFreeStep
  BY <1>1, <1>2, SameHealth
<1>3. ASSUME NEW p \in Player, NEW b \in BOOLEAN,
             player' = [player EXCEPT ![p].online = b], monster' = monster
      PROVE  StaleFreeStep
  <2>1. \A q \in Player : player'[q].health = player[q].health
    BY <1>1, <1>3 DEF TypeOK, PlayerRow
  <2> QED  BY <1>1, <1>3, <2>1, SameHealth
<1>4. CASE Tick  BY <1>2, <1>4 DEF Tick, rows
<1>5. CASE Simulate
  <2>1. CASE BeginTick \/ EndTick  BY <1>2, <2>1 DEF BeginTick, EndTick, rows
  <2>2. CASE BeginMobs
    <3>1. ASSUME NEW p \in Player PROVE ~(player'[p].health < player[p].health)
      <4>1. player[p] \in PlayerRow /\ player[p].health \in 0..PlayerHealth
        BY <1>1, PlayerFields DEF TypeOK
      <4>2. player'[p] = player[p] \/ player'[p] = Respawned(player[p])
        BY <2>2 DEF BeginMobs
      <4>3. player'[p].health = player[p].health \/ player'[p].health = PlayerHealth
        BY <4>1, <4>2, RespawnedFields
      <4> QED  BY <4>1, <4>3
    <3>2. ASSUME NEW m \in Monster PROVE ~(monster'[m].health < monster[m].health)
      BY <1>1, <2>2, MonsterFields DEF BeginMobs
    <3> QED  BY <3>1, <3>2, NoLoss
  <2>3. ASSUME NEW n \in Monster, Mob(n) PROVE StaleFreeStep
    <3>1. CASE MobRespawns(n)
      <4>1. player' = player /\ monster[n].life + 1 \in Nat
            /\ monster' = [monster EXCEPT ![n] = FreshMonster(monster[n].life + 1)]
        BY <1>1, <3>1, MonsterFields DEF MobRespawns
      <4>2. ASSUME NEW m \in Monster PROVE ~(monster'[m].health < monster[m].health)
        <5>1. monster[m].health \in 0..MonsterHealth  BY <1>1, MonsterFields
        <5>2. monster'[m].health = monster[m].health \/ monster'[m].health = MonsterHealth
          BY <1>1, <4>1, FreshRows DEF TypeOK
        <5> QED  BY <5>1, <5>2
      <4> QED  BY <1>1, <4>1, <4>2, NoLoss, PlayerFields
    <3>2. CASE MobIdles(n)  BY <1>2, <3>2 DEF MobIdles, rows
    <3>3. ASSUME NEW p \in Player, NEW ranged \in BOOLEAN, MobSwings(n, p, ranged)
          PROVE  StaleFreeStep
      BY <1>2, <3>3 DEF MobSwings
    <3> QED  BY <2>3, <3>1, <3>2, <3>3 DEF Mob
  <2> QED  BY <1>5, <2>1, <2>2, <2>3, BlowIsFresh, SwingIsFresh DEF Simulate, Resolve
<1>6. ASSUME NEW p \in Player,
             \/ Enter(p) \/ Leave(p)
             \/ \E t \in Monster \cup {None}, d \in Roll : PerformAttack(p, t, d)
             \/ \E l \in loot : PickupLoot(p, l)
      PROVE  StaleFreeStep
  <2>1. CASE Enter(p)  BY <1>3, <2>1, TRUE \in BOOLEAN DEF Enter
  <2>2. CASE Leave(p)  BY <1>3, <2>2, FALSE \in BOOLEAN DEF Leave
  <2> QED  BY <1>2, <1>6, <2>1, <2>2 DEF PerformAttack, PickupLoot
<1>7. CASE UNCHANGED vars  BY <1>2, <1>7 DEF vars, rows
<1> QED  BY <1>4, <1>5, <1>6, <1>7 DEF Next

\* Nobody is hurt by what was begun before the present life or presence.
THEOREM NoStaleDamageCorrect == Spec => NoStaleDamage
  BY InvCorrect, StaleFree, PTL DEF Spec, NoStaleDamage
-----------------------------------------------------------------------------
(* Hits, gold and the ledger.  The shield of a monster is set by the last    *)
(* hit on its present life; a pile on the ground belongs to a life that is   *)
(* over; and a life has one row for a character's connection, so that a hit  *)
(* either adds a row or adds to one.                                         *)

SpacedHolds(m) == struck[m] # None => clock[m].shield = struck[m] + Shield

GoldHolds ==
    /\ IsFiniteSet(loot)
    /\ SumFunctionOnSet(purse, Player) + Cardinality(loot)
           <= SumFunctionOnSet(paid, Monster)
    /\ \A l \in loot :
           /\ l.life <= monster[l.monster].life
           /\ l.life = monster[l.monster].life => monster[l.monster].health = 0
    /\ \A k, l \in loot : k.monster = l.monster /\ k.life = l.life => k = l

SameRow(r, s) == r.monster = s.monster /\ r.player = s.player /\ r.conn = s.conn

LedgerHolds ==
    /\ IsFiniteSet(ledger)
    /\ \A r \in ledger : r.life = monster[r.monster].life /\ monster[r.monster].health > 0
    /\ \A r, s \in ledger : SameRow(r, s) => r = s
    /\ \A m \in Monster : monster[m].health > 0 =>
           DamageOf(ledger, m) = MonsterHealth - monster[m].health

Earned == (\A m \in Monster : SpacedHolds(m)) /\ GoldHolds /\ LedgerHolds

\* What is shared at a kill is the sum over finitely many rows; the rows of
\* other monsters do not matter to it.
LEMMA DamageAgrees ==
    ASSUME NEW L \in SUBSET LedgerRow, NEW K \in SUBSET LedgerRow, NEW m \in Monster,
           IsFiniteSet(L), {r \in K : r.monster = m} = {r \in L : r.monster = m}
    PROVE  DamageOf(K, m) = DamageOf(L, m)
<1> DEFINE R == {r \in L : r.monster = m}
           f == [r \in L |-> r.damage]
           h == [r \in K |-> r.damage]
<1>1. IsFiniteSet(R)  BY FS_Subset
<1>2. \A r \in R : f[r] \in Int /\ h[r] = f[r]
  <2> SUFFICES ASSUME NEW r \in R PROVE f[r] \in Int /\ h[r] = f[r]
    OBVIOUS
  <2>1. r \in L /\ r \in K /\ r \in LedgerRow
    OBVIOUS
  <2> QED BY <2>1 DEF LedgerRow
<1>3. SumFunctionOnSet(h, R) = SumFunctionOnSet(f, R)
  <2> HIDE DEF R, f, h
  <2> QED BY <1>1, <1>2, SumAgrees
<1> QED BY <1>3 DEF DamageOf

LEMMA DamageAdds ==
    ASSUME NEW L \in SUBSET LedgerRow, IsFiniteSet(L), NEW r \in LedgerRow, r \notin L,
           NEW m \in Monster, r.monster = m
    PROVE  /\ DamageOf(L, m) \in Int
           /\ DamageOf(L \cup {r}, m) = r.damage + DamageOf(L, m)
<1> DEFINE R == {s \in L : s.monster = m}
           f == [s \in L |-> s.damage]
           h == [s \in L \cup {r} |-> s.damage]
<1>1. IsFiniteSet(R) /\ r \notin R  BY FS_Subset
<1>2. \A s \in L : s.damage \in Nat  BY DEF LedgerRow
<1>3. \A s \in R : f[s] \in Int /\ h[s] = f[s]  BY <1>2
<1>4. h[r] = r.damage /\ h[r] \in Int  BY DEF LedgerRow
<1>5. {s \in L \cup {r} : s.monster = m} = R \cup {r}
  OBVIOUS
<1>6. SumFunctionOnSet(h, R \cup {r}) = h[r] + SumFunctionOnSet(h, R)
  <2> HIDE DEF R, f, h
  <2> QED BY <1>1, <1>3, <1>4, SumAdds
<1>7. SumFunctionOnSet(h, R) = SumFunctionOnSet(f, R) /\ SumFunctionOnSet(f, R) \in Int
  <2> HIDE DEF R, f, h
  <2> QED BY <1>1, <1>3, SumAgrees, SumSplits
<1> QED BY <1>4, <1>5, <1>6, <1>7 DEF DamageOf

\* record_damage adds what was taken to the rows of the monster that was hit,
\* and keeps one row per character and connection.
LEMMA RegisteredAdds ==
    ASSUME TypeOK, LedgerHolds, NEW m \in Monster, monster[m].health > 0,
           NEW p \in Player, NEW d \in Nat, NEW L, L = Registered(m, p, d)
    PROVE  /\ IsFiniteSet(L) /\ L \subseteq LedgerRow
           /\ \A r, s \in L : SameRow(r, s) => r = s
           /\ \A r \in L : r \in ledger \/ (r.monster = m /\ r.life = monster[m].life)
           /\ DamageOf(L, m) = DamageOf(ledger, m) + d
           /\ \A k \in Monster \ {m} : DamageOf(L, k) = DamageOf(ledger, k)
<1> DEFINE mine == {r \in ledger : /\ r.monster = m /\ r.life = monster[m].life
                                   /\ r.player = p /\ r.conn = control[p].conn}
           row(n) == [monster |-> m, life |-> monster[m].life, player |-> p,
                      conn |-> control[p].conn, damage |-> n]
<1>1. L \subseteq LedgerRow /\ ledger \subseteq LedgerRow  BY RegisteredType DEF TypeOK
<1>2. IsFiniteSet(ledger) /\ \A r, s \in ledger : SameRow(r, s) => r = s
  BY DEF LedgerHolds
<1>3. \A r \in ledger : r.monster = m => r.life = monster[m].life  BY DEF LedgerHolds
<1>4. ASSUME NEW n \in Nat
      PROVE  /\ row(n) \in LedgerRow /\ row(n).monster = m /\ row(n).damage = n
             /\ row(n).life = monster[m].life
             /\ \A r \in ledger : SameRow(r, row(n)) => r \in mine
  BY <1>3, MonsterFields, ControlFields DEF LedgerRow, SameRow
<1>5. ASSUME NEW R \in SUBSET ledger, NEW n \in Nat, L = R \cup {row(n)},
             \A r \in R : r \notin mine, \A r \in ledger \ R : r \in mine,
             d = n - (DamageOf(ledger, m) - DamageOf(R, m))
      PROVE  /\ IsFiniteSet(L)
             /\ \A r, s \in L : SameRow(r, s) => r = s
             /\ \A r \in L : r \in ledger \/ (r.monster = m /\ r.life = monster[m].life)
             /\ DamageOf(L, m) = DamageOf(ledger, m) + d
             /\ \A k \in Monster \ {m} : DamageOf(L, k) = DamageOf(ledger, k)
  <2> HIDE DEF mine, row
  <2>1. IsFiniteSet(R) /\ IsFiniteSet(L)  BY <1>2, <1>5, FS_Subset, FS_AddElement
  <2>2. row(n) \notin R  BY <1>4, <1>5 DEF SameRow
  <2>3. \A r, s \in L : SameRow(r, s) => r = s
    <3> SUFFICES ASSUME NEW r \in L, NEW s \in L, SameRow(r, s) PROVE r = s
      OBVIOUS
    <3>1. SameRow(s, r)  BY DEF SameRow
    <3>2. \A u \in R : ~SameRow(u, row(n))  BY <1>4, <1>5
    <3> QED BY <1>2, <1>5, <3>1, <3>2
  <2>4. \A r \in L : r \in ledger \/ (r.monster = m /\ r.life = monster[m].life)
    BY <1>4, <1>5
  <2>5. /\ DamageOf(R, m) \in Int
        /\ DamageOf(L, m) = n + DamageOf(R, m)
    <3>1. R \in SUBSET LedgerRow  BY <1>1
    <3>2. row(n) \in LedgerRow /\ row(n).monster = m /\ row(n).damage = n  BY <1>4
    <3> DEFINE added == row(n)
    <3> HIDE DEF added
    <3>3. /\ DamageOf(R, m) \in Int
          /\ DamageOf(R \cup {added}, m) = added.damage + DamageOf(R, m)
      BY <2>1, <2>2, <3>1, <3>2, DamageAdds DEF added
    <3> QED BY <1>5, <3>2, <3>3 DEF added
  <2>6. DamageOf(ledger, m) \in Int
    <3>1. IsFiniteSet({r \in ledger : r.monster = m})  BY <1>2, FS_Subset
    <3>2. \A r \in {s \in ledger : s.monster = m} : [s \in ledger |-> s.damage][r] \in Int
      BY <1>1 DEF LedgerRow
    <3> QED BY <3>1, <3>2, SumSplits DEF DamageOf
  <2>7. DamageOf(L, m) = DamageOf(ledger, m) + d  BY <1>5, <2>5, <2>6
  <2>8. ASSUME NEW k \in Monster \ {m} PROVE DamageOf(L, k) = DamageOf(ledger, k)
    <3>1. \A r \in ledger \ R : r.monster = m  BY <1>5 DEF mine
    <3>2. {r \in L : r.monster = k} = {r \in ledger : r.monster = k}
      BY <1>4, <1>5, <3>1
    <3> QED BY <1>1, <1>2, <3>2, DamageAgrees
  <2> QED BY <2>1, <2>3, <2>4, <2>7, <2>8
<1>6. CASE mine = {}
  <2>1. L = ledger \cup {row(d)}  BY <1>6 DEF Registered
  <2>2. d = d - (DamageOf(ledger, m) - DamageOf(ledger, m))
    <3>1. IsFiniteSet({r \in ledger : r.monster = m})  BY <1>2, FS_Subset
    <3>2. \A r \in {s \in ledger : s.monster = m} : [s \in ledger |-> s.damage][r] \in Int
      BY <1>1 DEF LedgerRow
    <3>3. DamageOf(ledger, m) \in Int  BY <3>1, <3>2, SumSplits DEF DamageOf
    <3> QED BY <3>3
  <2>3. (\A r \in ledger : r \notin mine) /\ (\A r \in ledger \ ledger : r \in mine)
    BY <1>6
  <2> HIDE DEF mine, row
  <2> QED BY <1>1, <1>5, <2>1, <2>2, <2>3
<1>7. CASE mine # {}
  <2> DEFINE c == CHOOSE r \in mine : TRUE
             n == c.damage + d
  <2>1. c \in mine /\ c \in ledger /\ c \in LedgerRow /\ c.monster = m  BY <1>1, <1>7
  <2>2. L = (ledger \ mine) \cup {row(c.damage + d)}  BY <1>7 DEF Registered
  <2>3. mine = {c}  BY <1>2, <2>1 DEF SameRow
  <2>4. c.damage \in Nat  BY <2>1 DEF LedgerRow
  <2> HIDE DEF c, mine, row
  <2>5. ledger = (ledger \ mine) \cup {c} /\ c \notin ledger \ mine  BY <2>1, <2>3
  <2>6. /\ IsFiniteSet(ledger \ mine) /\ ledger \ mine \in SUBSET LedgerRow
    BY <1>1, <1>2, FS_Subset
  <2>7. /\ DamageOf(ledger \ mine, m) \in Int
        /\ DamageOf(ledger, m) = c.damage + DamageOf(ledger \ mine, m)
    BY <2>1, <2>5, <2>6, DamageAdds
  <2>8. d = (c.damage + d) - (DamageOf(ledger, m) - DamageOf(ledger \ mine, m))
    BY <2>4, <2>7
  <2>9. c.damage + d \in Nat /\ ledger \ mine \in SUBSET ledger  BY <2>4
  <2> QED BY <1>1, <1>5, <2>2, <2>8, <2>9
<1> QED BY <1>6, <1>7

LEMMA NoDamage ==
    ASSUME NEW L, NEW m, \A r \in L : r.monster # m
    PROVE  DamageOf(L, m) = 0
<1>1. {r \in L : r.monster = m} = {}
  OBVIOUS
<1> QED BY <1>1, SumOfNone DEF DamageOf

\* What no pickup and no kill touches: piles may rot, and a monster may lose
\* health or begin its next life.
LEMMA GoldKept ==
    ASSUME TypeOK, GoldHolds, loot' \in SUBSET loot, purse' = purse, paid' = paid,
           \A m \in Monster :
              \/ /\ monster'[m].life = monster[m].life
                 /\ monster[m].health = 0 => monster'[m].health = 0
              \/ monster'[m].life = monster[m].life + 1
    PROVE  GoldHolds'
<1>1. IsFiniteSet(loot)  BY DEF GoldHolds
<1>2. /\ IsFiniteSet(loot') /\ Cardinality(loot') <= Cardinality(loot)
      /\ Cardinality(loot') \in Nat /\ Cardinality(loot) \in Nat
  BY <1>1, FS_Subset, FS_CardinalityType
<1>3. SumFunctionOnSet(purse, Player) \in Int /\ SumFunctionOnSet(paid, Monster) \in Int
  <2>1. (\A p \in Player : purse[p] \in Int) /\ \A m \in Monster : paid[m] \in Int
    BY DEF TypeOK
  <2> QED BY <2>1, SumSplits
<1>4. (SumFunctionOnSet(purse, Player) + Cardinality(loot)
           <= SumFunctionOnSet(paid, Monster))'
  <2>1. SumFunctionOnSet(purse, Player) + Cardinality(loot)
            <= SumFunctionOnSet(paid, Monster)
    BY DEF GoldHolds
  <2>2. SumFunctionOnSet(purse', Player) + Cardinality(loot')
            <= SumFunctionOnSet(paid', Monster)
    BY <1>2, <1>3, <2>1
  <2> QED BY <2>2
<1>5. ASSUME NEW l \in loot'
      PROVE  /\ l.life <= monster'[l.monster].life
             /\ l.life = monster'[l.monster].life => monster'[l.monster].health = 0
  <2>1. l \in loot /\ l.monster \in Monster /\ l.life \in Nat  BY DEF TypeOK, LootRow
  <2>2. /\ l.life <= monster[l.monster].life
        /\ l.life = monster[l.monster].life => monster[l.monster].health = 0
    BY <2>1 DEF GoldHolds
  <2>3. monster[l.monster].life \in Nat  BY <2>1, MonsterFields
  <2> QED BY <2>1, <2>2, <2>3
<1>6. \A k, l \in loot' : k.monster = l.monster /\ k.life = l.life => k = l
  BY DEF GoldHolds
<1> QED BY <1>2, <1>4, <1>5, <1>6 DEF GoldHolds

\* An action that leaves the monsters, the piles and the gold alone.
LEMMA EarnedFrame ==
    ASSUME TypeOK, Earned, UNCHANGED <<monster, ledger, purse, struck, paid>>,
           loot' \in SUBSET loot,
           \A m \in Monster : clock'[m].shield = clock[m].shield
    PROVE  Earned'
<1>1. GoldHolds'  BY GoldKept DEF Earned
<1>2. LedgerHolds'  BY DEF Earned, LedgerHolds
<1>3. \A m \in Monster : SpacedHolds(m)'  BY DEF Earned, SpacedHolds
<1> QED BY <1>1, <1>2, <1>3 DEF Earned

LEMMA PickupEarned ==
    ASSUME TypeOK, Earned, NEW p \in Player, NEW l \in loot, PickupLoot(p, l)
    PROVE  Earned'
<1>1. /\ purse' = [purse EXCEPT ![p] = @ + 1] /\ loot' = loot \ {l}
      /\ UNCHANGED <<monster, clock, ledger, struck, paid>>
  BY DEF PickupLoot, history
<1>2. /\ IsFiniteSet(loot)
      /\ SumFunctionOnSet(purse, Player) + Cardinality(loot)
             <= SumFunctionOnSet(paid, Monster)
  BY DEF Earned, GoldHolds
<1>3. /\ IsFiniteSet(loot') /\ Cardinality(loot') = Cardinality(loot) - 1
      /\ Cardinality(loot) \in Nat
  BY <1>1, <1>2, FS_RemoveElement, FS_CardinalityType
<1>4. \A q \in Player : purse[q] \in Int  BY DEF TypeOK
<1>5. /\ purse'[p] = purse[p] + 1 /\ purse'[p] \in Int
      /\ \A q \in Player \ {p} : purse'[q] = purse[q]
  BY <1>1, <1>4 DEF TypeOK
<1>6. SumFunctionOnSet(purse', Player)
          = SumFunctionOnSet(purse, Player) - purse[p] + purse'[p]
  BY <1>4, <1>5, SumChanges
<1>7. SumFunctionOnSet(purse, Player) \in Int /\ SumFunctionOnSet(paid, Monster) \in Int
  <2>1. \A m \in Monster : paid[m] \in Int  BY DEF TypeOK
  <2> QED BY <1>4, <2>1, SumSplits
<1>8. SumFunctionOnSet(purse', Player) + Cardinality(loot')
          <= SumFunctionOnSet(paid', Monster)
  <2>1. paid' = paid  BY <1>1
  <2>2. SumFunctionOnSet(purse', Player) = SumFunctionOnSet(purse, Player) + 1
    BY <1>4, <1>5, <1>6, <1>7
  <2> QED BY <1>2, <1>3, <1>7, <2>1, <2>2
<1>9. GoldHolds'  BY <1>1, <1>3, <1>8 DEF Earned, GoldHolds
<1>10. LedgerHolds'  BY <1>1 DEF Earned, LedgerHolds
<1>11. \A m \in Monster : SpacedHolds(m)'  BY <1>1 DEF Earned, SpacedHolds
<1> QED BY <1>9, <1>10, <1>11 DEF Earned

LEMMA RespawnEarned ==
    ASSUME TypeOK, Earned, NEW n \in Monster, MobRespawns(n)
    PROVE  Earned'
<1>1. /\ monster' = [monster EXCEPT ![n] = FreshMonster(monster[n].life + 1)]
      /\ clock' = [clock EXCEPT ![n] = FreshClock]
      /\ ledger' = WithoutDamage(ledger, n) /\ struck' = [struck EXCEPT ![n] = None]
      /\ UNCHANGED <<loot, purse, paid>> /\ monster[n].health = 0
  BY DEF MobRespawns
<1>2. monster[n].life + 1 \in Nat  BY MonsterFields
<1>3. /\ monster'[n].life = monster[n].life + 1 /\ monster'[n].health = MonsterHealth
      /\ \A m \in Monster \ {n} : monster'[m] = monster[m] /\ clock'[m] = clock[m]
      /\ struck'[n] = None /\ \A m \in Monster \ {n} : struck'[m] = struck[m]
  BY <1>1, <1>2, FreshRows DEF TypeOK
<1>4. GoldHolds'  BY <1>1, <1>3, GoldKept DEF Earned
<1>5. \A m \in Monster : SpacedHolds(m)'  BY <1>3 DEF Earned, SpacedHolds
<1>6. \A r \in ledger : r.monster # n /\ r.monster \in Monster
  BY <1>1 DEF Earned, LedgerHolds, TypeOK, LedgerRow
<1>7. ledger' = ledger  BY <1>1, <1>6 DEF WithoutDamage
<1>8. LedgerHolds'
  <2>1. /\ IsFiniteSet(ledger') /\ \A r, s \in ledger' : SameRow(r, s) => r = s
    BY <1>7 DEF Earned, LedgerHolds
  <2>2. \A r \in ledger' : r.life = monster'[r.monster].life
                                /\ monster'[r.monster].health > 0
    BY <1>3, <1>6, <1>7 DEF Earned, LedgerHolds
  <2>3. DamageOf(ledger', n) = MonsterHealth - monster'[n].health
    BY <1>3, <1>6, <1>7, NoDamage
  <2>4. ASSUME NEW m \in Monster, monster'[m].health > 0
        PROVE  DamageOf(ledger', m) = MonsterHealth - monster'[m].health
    BY <1>3, <1>7, <2>3, <2>4 DEF Earned, LedgerHolds
  <2> QED BY <2>1, <2>2, <2>4 DEF LedgerHolds
<1> QED BY <1>4, <1>5, <1>8 DEF Earned

\* The piles after a kill: one more was paid and one more lies on the ground.
LEMMA KillPays ==
    ASSUME TypeOK, GoldHolds, NEW m \in Monster, NEW p \in Player,
           monster[m].health > 0, monster'[m].health = 0,
           \A k \in Monster : /\ monster'[k].life = monster[k].life
                              /\ k # m => monster'[k] = monster[k],
           loot' = loot \cup {LootOf(m, p)}, paid' = [paid EXCEPT ![m] = @ + 1],
           purse' = purse
    PROVE  GoldHolds'
<1> DEFINE pile == LootOf(m, p)
<1>1. pile.monster = m /\ pile.life = monster[m].life  BY DEF LootOf
<1> HIDE DEF pile
<1>2. \A l \in loot : l.monster = m => l.life # monster[m].life  BY DEF GoldHolds
<1>3. pile \notin loot /\ IsFiniteSet(loot)  BY <1>1, <1>2 DEF GoldHolds
<1>4. loot' = loot \cup {pile}  BY DEF pile
<1>5. /\ IsFiniteSet(loot') /\ Cardinality(loot') = Cardinality(loot) + 1
      /\ Cardinality(loot) \in Nat
  BY <1>3, <1>4, FS_AddElement, FS_CardinalityType
<1>6. \A k \in Monster : paid[k] \in Int  BY DEF TypeOK
<1>7. /\ paid'[m] = paid[m] + 1 /\ paid'[m] \in Int
      /\ \A k \in Monster \ {m} : paid'[k] = paid[k]
  BY <1>6 DEF TypeOK
<1>8. SumFunctionOnSet(paid', Monster)
          = SumFunctionOnSet(paid, Monster) - paid[m] + paid'[m]
  <2>1. IsFiniteSet(Monster)
    OBVIOUS
  <2> DEFINE was == paid
             is == paid'
  <2>2. /\ \A k \in Monster : was[k] \in Int /\ is[m] \in Int
        /\ \A k \in Monster \ {m} : is[k] = was[k]
    BY <1>6, <1>7
  <2> HIDE DEF was, is
  <2>3. SumFunctionOnSet(is, Monster) = SumFunctionOnSet(was, Monster) - was[m] + is[m]
    BY <2>1, <2>2, SumChanges
  <2> QED BY <2>3 DEF was, is
<1>9. SumFunctionOnSet(purse, Player) \in Int /\ SumFunctionOnSet(paid, Monster) \in Int
  <2>1. \A q \in Player : purse[q] \in Int  BY DEF TypeOK
  <2> QED BY <1>6, <2>1, SumSplits
<1>10. SumFunctionOnSet(purse', Player) + Cardinality(loot')
          <= SumFunctionOnSet(paid', Monster)
  <2>1. SumFunctionOnSet(paid', Monster) = SumFunctionOnSet(paid, Monster) + 1
    BY <1>6, <1>7, <1>8, <1>9
  <2>2. SumFunctionOnSet(purse, Player) + Cardinality(loot)
            <= SumFunctionOnSet(paid, Monster)
    BY DEF GoldHolds
  <2>3. SumFunctionOnSet(purse', Player) = SumFunctionOnSet(purse, Player)
    OBVIOUS
  <2> QED BY <1>5, <1>9, <2>1, <2>2, <2>3
<1>11. ASSUME NEW l \in loot'
       PROVE  /\ l.life <= monster'[l.monster].life
              /\ l.life = monster'[l.monster].life => monster'[l.monster].health = 0
  <2>1. monster[m].life \in Nat  BY MonsterFields
  <2>2. CASE l = pile  BY <1>1, <2>1, <2>2
  <2>3. CASE l # pile
    <3>1. l \in loot /\ l.monster \in Monster  BY <1>4, <2>3 DEF TypeOK, LootRow
    <3> QED BY <3>1 DEF GoldHolds
  <2> QED BY <2>2, <2>3
<1>12. \A k, l \in loot' : k.monster = l.monster /\ k.life = l.life => k = l
  BY <1>1, <1>2, <1>4 DEF GoldHolds
<1> QED BY <1>5, <1>10, <1>11, <1>12 DEF GoldHolds

LEMMA LandedEarned ==
    ASSUME TypeOK, Earned, NEW p \in Player, NEW hit \in Blow, NEW stagger \in BOOLEAN,
           BlowLands(p, hit), Landed(p, hit, stagger), purse' = purse
    PROVE  /\ Earned' /\ now >= clock[hit.target].shield
<1> DEFINE m == hit.target
           d == hit.damage
           left == After(monster[m].health, d)
<1>1. /\ m \in Monster /\ d \in Nat /\ monster[m].health > 0
      /\ now >= clock[m].shield
  BY BlowFields DEF BlowLands
<1>2. monster[m].health \in 0..MonsterHealth  BY <1>1, MonsterFields
<1>3. /\ \A k \in Monster : /\ monster'[k].life = monster[k].life
                            /\ k # m => monster'[k] = monster[k] /\ clock'[k] = clock[k]
      /\ monster'[m].health = left
  BY LandedEffect
<1>4. struck' = [struck EXCEPT ![m] = now]  BY DEF Landed
<1>5. clock'[m].shield = now + Shield
  <2> DEFINE shielded(row) == [until |-> row.until, next |-> row.next,
                               shield |-> now + Shield, hit |-> row.hit]
             still(row) == [until |-> 0, next |-> row.next,
                            shield |-> now + Shield, hit |-> None]
  <2>1. clock' = [clock EXCEPT ![m] = IF left = 0 \/ stagger THEN still(clock[m])
                                       ELSE shielded(clock[m])]
    BY DEF Landed
  <2>2. clock'[m] = IF left = 0 \/ stagger THEN still(clock[m]) ELSE shielded(clock[m])
    <3> HIDE DEF still, shielded, left, m
    <3> QED BY <1>1, <2>1 DEF TypeOK
  <2> QED BY <2>2
<1>6. /\ left = 0 => /\ ledger' = WithoutDamage(Registered(m, p, d), m)
                     /\ loot' = loot \cup {LootOf(m, p)}
                     /\ paid' = [paid EXCEPT ![m] = @ + 1]
      /\ left # 0 => /\ ledger' = Registered(m, p, d)
                     /\ loot' = loot /\ paid' = paid
  BY DEF Landed
<1>7. \A k \in Monster : SpacedHolds(k)'
  <2>1. \A k \in Monster : struck'[k] = IF k = m THEN now ELSE struck[k]
    BY <1>1, <1>4 DEF TypeOK
  <2> HIDE DEF m
  <2> QED BY <1>1, <1>3, <1>5, <2>1 DEF Earned, SpacedHolds
<1> DEFINE L == Registered(m, p, d)
<1>8. /\ IsFiniteSet(L) /\ L \subseteq LedgerRow
      /\ \A r, s \in L : SameRow(r, s) => r = s
      /\ \A r \in L : r \in ledger \/ (r.monster = m /\ r.life = monster[m].life)
      /\ DamageOf(L, m) = DamageOf(ledger, m) + d
      /\ \A k \in Monster \ {m} : DamageOf(L, k) = DamageOf(ledger, k)
  <2>1. LedgerHolds  BY DEF Earned
  <2> HIDE DEF m, d
  <2> QED BY <1>1, <2>1, RegisteredAdds
<1>9. \A r \in ledger : /\ r.monster \in Monster
                        /\ r.life = monster[r.monster].life
                        /\ monster[r.monster].health > 0
  BY DEF Earned, LedgerHolds, TypeOK, LedgerRow
<1>10. GoldHolds  BY DEF Earned
<1> HIDE DEF L
<1>11. CASE left = 0
  <2> HIDE DEF m, d, left
  <2>1. GoldHolds'  BY <1>1, <1>3, <1>6, <1>10, <1>11, KillPays
  <2>2. ledger' = {r \in L : r.monster # m}
    <3>1. ledger' = {r \in L : ~(r.monster = m /\ r.life = monster[m].life)}
      BY <1>6, <1>11 DEF WithoutDamage, L
    <3>2. \A r \in L : r.monster = m => r.life = monster[m].life  BY <1>8, <1>9
    <3> QED BY <3>1, <3>2
  <2>3. \A r \in ledger' : r \in L /\ r \in ledger /\ r.monster # m  BY <1>8, <2>2
  <2>4. /\ IsFiniteSet(ledger') /\ \A r, s \in ledger' : SameRow(r, s) => r = s
    BY <1>8, <2>2, FS_Subset
  <2>5. \A r \in ledger' : r.life = monster'[r.monster].life
                                /\ monster'[r.monster].health > 0
    BY <1>3, <1>9, <2>3
  <2>6. ASSUME NEW k \in Monster, monster'[k].health > 0
        PROVE  DamageOf(ledger', k) = MonsterHealth - monster'[k].health
    <3>1. k # m  BY <1>3, <1>11, <2>6
    <3>2. {r \in ledger' : r.monster = k} = {r \in L : r.monster = k}  BY <2>2, <3>1
    <3>3. ledger' \in SUBSET LedgerRow /\ L \in SUBSET LedgerRow  BY <1>8, <2>3
    <3>4. DamageOf(ledger', k) = DamageOf(L, k)  BY <1>8, <3>2, <3>3, DamageAgrees
    <3>5. DamageOf(ledger, k) = MonsterHealth - monster[k].health
      BY <1>3, <2>6, <3>1 DEF Earned, LedgerHolds
    <3> QED BY <1>3, <1>8, <3>1, <3>4, <3>5
  <2>7. LedgerHolds'  BY <2>4, <2>5, <2>6 DEF LedgerHolds
  <2> QED BY <1>1, <1>7, <2>1, <2>7 DEF Earned, m
<1>12. CASE left # 0
  <2>1. left > 0 /\ left = monster[m].health - d  BY <1>1, <1>2, <1>12 DEF After
  <2> HIDE DEF m, d, left
  <2>2. GoldHolds'  BY <1>1, <1>3, <1>6, <1>10, <1>12, GoldKept
  <2>3. ledger' = L  BY <1>6, <1>12 DEF L
  <2>4. \A r \in ledger' : r.life = monster'[r.monster].life
                                /\ monster'[r.monster].health > 0
    BY <1>1, <1>3, <1>8, <1>9, <2>1, <2>3
  <2>5. DamageOf(ledger', m) = MonsterHealth - monster'[m].health
    <3>1. DamageOf(ledger, m) = MonsterHealth - monster[m].health
      BY <1>1 DEF Earned, LedgerHolds
    <3> QED BY <1>1, <1>2, <1>3, <1>8, <2>1, <2>3, <3>1
  <2>6. ASSUME NEW k \in Monster, monster'[k].health > 0
        PROVE  DamageOf(ledger', k) = MonsterHealth - monster'[k].health
    <3>1. CASE k # m
      <4>1. DamageOf(ledger, k) = MonsterHealth - monster[k].health
        BY <1>3, <2>6, <3>1 DEF Earned, LedgerHolds
      <4> QED BY <1>3, <1>8, <2>3, <3>1, <4>1
    <3> QED BY <2>5, <3>1
  <2>7. LedgerHolds'  BY <1>8, <2>3, <2>4, <2>6 DEF LedgerHolds
  <2> QED BY <1>1, <1>7, <2>2, <2>7 DEF Earned, m
<1> QED BY <1>11, <1>12

LEMMA ResolvePlayerEarned ==
    ASSUME TypeOK, Earned, NEW p \in Player, NEW reach \in BOOLEAN, NEW stagger \in BOOLEAN,
           ResolvePlayer(p, reach, stagger)
    PROVE  Earned'
<1> DEFINE hit == control[p].hit
<1>1. purse' = purse  BY DEF ResolvePlayer
<1>2. \/ hit # None /\ BlowLands(p, hit) /\ Landed(p, hit, stagger)
      \/ UNCHANGED <<monster, clock, ledger, loot, history>>
  BY DEF ResolvePlayer
<1>3. CASE UNCHANGED <<monster, clock, ledger, loot, history>>
  <2>1. UNCHANGED <<monster, clock, ledger, loot, struck, paid>>  BY <1>3 DEF history
  <2> QED BY <1>1, <2>1, EarnedFrame
<1>4. CASE hit # None /\ BlowLands(p, hit) /\ Landed(p, hit, stagger)
  <2>1. hit \in Blow  BY <1>4, ControlFields
  <2> QED BY <1>1, <1>4, <2>1, LandedEarned
<1> QED BY <1>2, <1>3, <1>4

LEMMA UnswungShield == \A row : Unswung(row).shield = row.shield
  BY DEF Unswung

LEMMA EarnedStep == TypeOK /\ Earned /\ [Next]_vars => Earned'
<1> SUFFICES ASSUME TypeOK, Earned, [Next]_vars PROVE Earned'
  OBVIOUS
<1>1. CASE UNCHANGED vars
  <2>1. UNCHANGED <<monster, clock, ledger, loot, purse, struck, paid>>
    BY <1>1 DEF vars, rows, history
  <2> QED BY <2>1, EarnedFrame
<1>2. CASE Tick \/ BeginTick \/ EndTick
  <2>1. UNCHANGED <<monster, clock, ledger, loot, purse, struck, paid>>
    BY <1>2 DEF Tick, BeginTick, EndTick, rows, history
  <2> QED BY <2>1, EarnedFrame
<1>3. ASSUME NEW p \in Player, Enter(p) PROVE Earned'
  <2>1. UNCHANGED <<monster, clock, ledger, loot, purse, struck, paid>>
    BY <1>3 DEF Enter
  <2> QED BY <2>1, EarnedFrame
<1>4. ASSUME NEW p \in Player, Leave(p) PROVE Earned'
  <2>1. /\ UNCHANGED <<monster, ledger, loot, purse, struck, paid>>
        /\ clock' = WithoutSwingsAt(p)
    BY <1>4 DEF Leave, history
  <2>2. \A m \in Monster : clock'[m].shield = clock[m].shield
    <3> SUFFICES ASSUME NEW m \in Monster PROVE clock'[m].shield = clock[m].shield
      OBVIOUS
    <3>1. clock'[m] = clock[m] \/ clock'[m] = Unswung(clock[m])
      BY <2>1 DEF WithoutSwingsAt
    <3> QED BY <3>1, UnswungShield
  <2> QED BY <2>1, <2>2, EarnedFrame
<1>5. ASSUME NEW p \in Player, NEW t \in Monster \cup {None}, NEW d \in Roll,
             PerformAttack(p, t, d)
      PROVE  Earned'
  <2>1. UNCHANGED <<monster, clock, ledger, loot, purse, struck, paid>>
    BY <1>5 DEF PerformAttack, history
  <2> QED BY <2>1, EarnedFrame
<1>6. ASSUME NEW p \in Player, NEW l \in loot, PickupLoot(p, l) PROVE Earned'
  BY <1>6, PickupEarned
<1>7. ASSUME NEW p \in Player, NEW reach \in BOOLEAN, NEW stagger \in BOOLEAN,
             ResolvePlayer(p, reach, stagger)
      PROVE  Earned'
  BY <1>7, ResolvePlayerEarned
<1>8. ASSUME NEW m \in Monster, NEW reach \in BOOLEAN, NEW d \in Roll,
             ResolveMonster(m, reach, d)
      PROVE  Earned'
  <2>1. /\ UNCHANGED <<monster, ledger, loot, purse, struck, paid>>
        /\ clock' = [clock EXCEPT ![m] = Unswung(@)] \/ clock' = clock
    BY <1>8 DEF ResolveMonster, history
  <2>2. \A n \in Monster : clock'[n].shield = clock[n].shield
    <3> SUFFICES ASSUME NEW n \in Monster PROVE clock'[n].shield = clock[n].shield
      OBVIOUS
    <3>1. clock'[n] = clock[n] \/ clock'[n] = Unswung(clock[n])  BY <2>1 DEF TypeOK
    <3> QED BY <3>1, UnswungShield
  <2> QED BY <2>1, <2>2, EarnedFrame
<1>9. CASE BeginMobs
  <2>1. /\ UNCHANGED <<monster, clock, ledger, purse, struck, paid>>
        /\ loot' \in SUBSET loot
    BY <1>9 DEF BeginMobs
  <2> QED BY <2>1, EarnedFrame
<1>10. ASSUME NEW m \in Monster, Mob(m) PROVE Earned'
  <2>1. CASE MobRespawns(m)  BY <2>1, RespawnEarned
  <2>2. CASE MobIdles(m)
    <3>1. UNCHANGED <<monster, clock, ledger, loot, purse, struck, paid>>
      BY <2>2 DEF MobIdles, rows, history
    <3> QED BY <3>1, EarnedFrame
  <2>3. ASSUME NEW p \in Player, NEW ranged \in BOOLEAN, MobSwings(m, p, ranged)
        PROVE  Earned'
    <3> DEFINE row == [until |-> now + MobDuration, next |-> now + MobCooldown,
                       shield |-> clock[m].shield,
                       hit |-> [target |-> p, tlife |-> player[p].life,
                                slife |-> monster[m].life,
                                at |-> now + MobStart, upto |-> now + MobUntil]]
    <3>1. /\ UNCHANGED <<monster, ledger, loot, purse, struck, paid>>
          /\ clock' = [clock EXCEPT ![m] = row]
      BY <2>3 DEF MobSwings, history
    <3>2. row.shield = clock[m].shield
      OBVIOUS
    <3> HIDE DEF row
    <3>3. \A n \in Monster : clock'[n].shield = clock[n].shield
      BY <3>1, <3>2 DEF TypeOK
    <3> QED BY <3>1, <3>3, EarnedFrame
  <2> QED BY <1>10, <2>1, <2>2, <2>3 DEF Mob
<1> QED  BY <1>1, <1>2, <1>3, <1>4, <1>5, <1>6, <1>7, <1>8, <1>9, <1>10
  DEF Next, Simulate, Resolve

LEMMA EarnedInit == Init => Earned
<1> SUFFICES ASSUME Init PROVE Earned
  OBVIOUS
<1>1. /\ ledger = {} /\ loot = {} /\ purse = [p \in Player |-> 0]
      /\ paid = [m \in Monster |-> 0] /\ struck = [m \in Monster |-> None]
      /\ monster = [m \in Monster |-> FreshMonster(0)]
  BY DEF Init
<1>2. SumFunctionOnSet(purse, Player) + Cardinality(loot)
          <= SumFunctionOnSet(paid, Monster)
  <2>1. \A p \in Player : purse[p] \in Nat /\ purse[p] \in Int /\ purse[p] = 0  BY <1>1
  <2>2. \A m \in Monster : paid[m] \in Nat /\ paid[m] = 0  BY <1>1
  <2>3. SumFunctionOnSet(paid, Monster) \in Nat  BY <2>2, SumGrows
  <2>4. SumFunctionOnSet(purse, Player) = 0  BY <2>1, SumOfZeros
  <2>5. Cardinality(loot) = 0  BY <1>1, FS_EmptySet
  <2> QED BY <2>3, <2>4, <2>5
<1>3. IsFiniteSet(loot) /\ IsFiniteSet(ledger)  BY <1>1, FS_EmptySet
<1>4. GoldHolds  BY <1>1, <1>2, <1>3 DEF GoldHolds
<1>5. \A m \in Monster : monster[m].health = MonsterHealth  BY <1>1 DEF FreshMonster
<1>6. \A m \in Monster : DamageOf(ledger, m) = MonsterHealth - monster[m].health
  BY <1>1, <1>5, NoDamage
<1>7. LedgerHolds  BY <1>1, <1>3, <1>6 DEF LedgerHolds
<1>8. \A m \in Monster : SpacedHolds(m)  BY <1>1 DEF SpacedHolds
<1> QED BY <1>4, <1>7, <1>8 DEF Earned

\* The invariant behind the shield, the gold and the ledger.
THEOREM EarnedCorrect == Spec => []Earned
  BY TypeCorrect, EarnedInit, EarnedStep, PTL DEF Spec

\* What a kill pays and to whom it is shared comes from that kill alone: gold
\* is made by kills only, a life leaves one pile, and the ledger of a living
\* monster adds up to its wounds (kill_monster, pickup_loot, record_damage,
\* clear_monster_damage), whoever hits, leaves, comes back or picks up.
THEOREM RewardsAreEarnedCorrect == Spec => []RewardsAreEarned
<1>1. Earned => RewardsAreEarned
  BY DEF Earned, GoldHolds, LedgerHolds, RewardsAreEarned, NoGoldFromNothing,
         LedgerExplainsWounds
<1> QED BY <1>1, EarnedCorrect, PTL

\* Health that a monster loses is lost to a blow that waited for its shield.
LEMMA SpacedStep ==
    TypeOK /\ Earned /\ [Next]_vars =>
        \A m \in Monster :
           monster'[m].health < monster[m].health /\ struck[m] # None
               => now >= struck[m] + Shield
<1> SUFFICES ASSUME TypeOK, Earned, [Next]_vars, NEW m \in Monster,
                    monster'[m].health < monster[m].health, struck[m] # None
             PROVE  now >= struck[m] + Shield
  OBVIOUS
<1>1. monster[m].health \in Int  BY MonsterFields
<1>2. ASSUME monster' = monster PROVE FALSE  BY <1>1, <1>2
<1>3. ASSUME NEW p \in Player, NEW reach \in BOOLEAN, NEW stagger \in BOOLEAN,
             ResolvePlayer(p, reach, stagger)
      PROVE  now >= struck[m] + Shield
  <2> DEFINE hit == control[p].hit
  <2>1. hit # None /\ BlowLands(p, hit) /\ Landed(p, hit, stagger)
    BY <1>2, <1>3 DEF ResolvePlayer
  <2>2. hit \in Blow  BY <2>1, ControlFields
  <2>3. m = hit.target
    <3>1. m # hit.target => monster'[m] = monster[m]  BY <2>1, <2>2, LandedEffect
    <3> QED BY <1>1, <3>1
  <2>4. now >= clock[m].shield  BY <2>1, <2>3 DEF BlowLands
  <2>5. clock[m].shield = struck[m] + Shield  BY DEF Earned, SpacedHolds
  <2> QED BY <2>4, <2>5
<1>4. ASSUME NEW n \in Monster, Mob(n) PROVE FALSE
  <2>1. MobRespawns(n)  BY <1>2, <1>4 DEF Mob, MobIdles, MobSwings, rows
  <2>2. monster' = [monster EXCEPT ![n] = FreshMonster(monster[n].life + 1)]
        /\ monster[n].health = 0
    BY <2>1 DEF MobRespawns
  <2>3. monster[n].life + 1 \in Nat  BY MonsterFields
  <2>4. monster'[m].health = MonsterHealth \/ monster'[m] = monster[m]
    BY <2>2, <2>3, FreshRows DEF TypeOK
  <2>5. monster[m].health \in 0..MonsterHealth  BY MonsterFields
  <2> QED BY <1>1, <2>4, <2>5
<1>5. monster' = monster \/ Resolve \/ \E n \in Monster : Mob(n)
  BY DEF Next, Simulate, Tick, BeginTick, BeginMobs, EndTick, Enter, Leave,
         PerformAttack, PickupLoot, vars, rows
<1>6. ASSUME NEW n \in Monster, NEW reach \in BOOLEAN, NEW d \in Roll,
             ResolveMonster(n, reach, d)
      PROVE  FALSE
  BY <1>2, <1>6 DEF ResolveMonster
<1> QED BY <1>2, <1>3, <1>4, <1>5, <1>6 DEF Resolve

\* Two hits on one life of a monster are a shield apart, whoever deals them and
\* however late the tick that resolves both (monster_hit_cooldown_allows).
THEOREM HitsAreSpacedCorrect == Spec => HitsAreSpaced
  BY TypeCorrect, EarnedCorrect, SpacedStep, PTL DEF Spec, HitsAreSpaced
=============================================================================
