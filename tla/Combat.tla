------------------------------- MODULE Combat -------------------------------
(* Delayed hits between characters and monsters: swings, hit windows, deaths,*)
(* respawns, the damage ledger and the gold a kill leaves.                   *)
(*                                                                           *)
(* Source: server/src/combat.rs with the entry, exit and attack reducers of  *)
(* lib.rs and accounts.rs.  A swing is planned by one transaction and lands  *)
(* in a later one, on rows that may have died, respawned, left or come back  *)
(* in between.  The scheduled simulate reducer runs alone: the variable      *)
(* phase keeps the client reducers out while its handlers run one after the  *)
(* other.  Ticks may be late: the clock runs between two of them.            *)
(*                                                                           *)
(* Abstracted: positions (a target is in reach or it is not, at every test), *)
(* the damage formulas (a roll from a set), movement, and the monster's      *)
(* choice of a victim (any living character in the world).                   *)
EXTENDS Integers, FiniteSets, FiniteSetsExt, Functions

CONSTANTS
    Player, Monster, None,
    PlayerHealth, MonsterHealth,        \* max_health
    Roll,                               \* what a hit may take
    Start, Until, Duration, Cooldown,   \* a character's attack, from its press
    MobStart, MobUntil, MobDuration, MobCooldown,
    Shield,                             \* ordinary_hit_invulnerability_us
    PlayerRespawn, MonsterRespawn,
    Reserved, Expires,                  \* loot windows
    MaxTime, MaxConn                    \* bounds: the clock, connections

ASSUME CombatAssumption ==
    /\ None \notin Player \cup Monster /\ Player \cap Monster = {}
    /\ IsFiniteSet(Player) /\ IsFiniteSet(Monster)
    /\ PlayerHealth \in Nat \ {0} /\ MonsterHealth \in Nat \ {0}
    /\ Roll \subseteq Nat
    /\ Start \in Nat /\ Until \in Nat /\ Duration \in Nat /\ Cooldown \in Nat
    /\ MobStart \in Nat /\ MobUntil \in Nat /\ MobDuration \in Nat /\ MobCooldown \in Nat
    /\ Shield \in Nat /\ PlayerRespawn \in Nat /\ MonsterRespawn \in Nat
    /\ Reserved \in Nat /\ Expires \in Nat

VARIABLES
    now,
    phase,      \* "idle", or the handler of simulate that is running
    due,        \* the copied events that resolve_due_hits has still to visit
    todo,       \* the monsters that combat::simulate has still to visit
    conns,      \* connections opened so far
    player,     \* player rows
    control,    \* controller rows
    monster,    \* monster rows
    clock,      \* monster_clock rows
    ledger,     \* monster_damage rows
    loot,       \* loot rows, named by the life that left them
    purse,      \* gold of every character
    since,      \* history: when a player's present life or presence began
    born,       \* history: when a monster's present life began
    struck,     \* history: when a monster was last hit in its present life
    paid        \* history: rewards paid for a monster so far

tickVars == <<now, phase, due, todo>>
rows == <<player, control, monster, clock, ledger, loot, purse>>
history == <<since, born, struck, paid>>
vars == <<tickVars, conns, rows, history>>

-----------------------------------------------------------------------------
(* Rows.                                                                     *)

PlayerRow == [online : BOOLEAN, health : 0..PlayerHealth, life : Nat, respawn : Nat]

\* A character's scheduled hit: PendingPlayerHit with its window.
Blow == [target : Monster, tlife : Nat, slife : Nat, at : Nat, upto : Nat,
         damage : Nat, rev : Nat]
ControlRow == [conn : Nat, rev : Nat, until : Nat, next : Nat, hit : Blow \cup {None}]

MonsterRow == [health : 0..MonsterHealth, life : Nat, respawn : Nat]

\* A monster's scheduled hit: PendingMonsterHit with its window.
Swing == [target : Player, tlife : Nat, slife : Nat, at : Nat, upto : Nat]
ClockRow == [until : Nat, next : Nat, shield : Nat, hit : Swing \cup {None}]

LedgerRow == [monster : Monster, life : Nat, player : Player, conn : Nat, damage : Nat]
LootRow == [monster : Monster, life : Nat, owner : Player, reserved : Nat, expires : Nat]
Event == [at : Nat, who : Player \cup Monster, rev : Nat]

FreshMonster(life) == [health |-> MonsterHealth, life |-> life, respawn |-> 0]
FreshClock == [until |-> 0, next |-> 0, shield |-> 0, hit |-> None]

TypeOK ==
    /\ now \in Nat /\ phase \in {"idle", "hits", "mobs"}
    /\ due \subseteq Event /\ todo \subseteq Monster /\ conns \in Nat
    /\ player \in [Player -> PlayerRow] /\ control \in [Player -> ControlRow]
    /\ monster \in [Monster -> MonsterRow] /\ clock \in [Monster -> ClockRow]
    /\ ledger \subseteq LedgerRow /\ loot \subseteq LootRow
    /\ purse \in [Player -> Nat]
    /\ since \in [Player -> Nat] /\ born \in [Monster -> Nat]
    /\ struck \in [Monster -> Nat \cup {None}] /\ paid \in [Monster -> Nat]

Init ==
    /\ now = 0 /\ phase = "idle" /\ due = {} /\ todo = {} /\ conns = 0
    /\ player = [p \in Player |-> [online |-> FALSE, health |-> PlayerHealth,
                                   life |-> 0, respawn |-> 0]]
    /\ control = [p \in Player |-> [conn |-> 0, rev |-> 0, until |-> 0, next |-> 0,
                                    hit |-> None]]
    /\ monster = [m \in Monster |-> FreshMonster(0)]
    /\ clock = [m \in Monster |-> FreshClock]
    /\ ledger = {} /\ loot = {} /\ purse = [p \in Player |-> 0]
    /\ since = [p \in Player |-> 0] /\ born = [m \in Monster |-> 0]
    /\ struck = [m \in Monster |-> None] /\ paid = [m \in Monster |-> 0]

Alive(p) == player[p].online /\ player[p].health > 0

\* Fault: the action ends, the scheduled hit stays.
DisarmedFault(row) ==
    [conn |-> row.conn, rev |-> row.rev, until |-> 0, next |-> row.next, hit |-> row.hit]

\* cancel_player_attack, and the end of the action.
Disarmed(row) ==
    [conn |-> row.conn, rev |-> row.rev, until |-> 0, next |-> row.next, hit |-> None]

\* cancel_monster_hit
Unswung(row) ==
    [until |-> row.until, next |-> row.next, shield |-> row.shield, hit |-> None]

-----------------------------------------------------------------------------
(* Client reducers.                                                          *)

\* enter_character over a new connection.  A scheduled hit of the character,
\* its life and its health are as they were left.
Enter(p) ==
    /\ phase = "idle" /\ ~player[p].online /\ conns < MaxConn
    /\ conns' = conns + 1
    /\ player' = [player EXCEPT ![p].online = TRUE]
    /\ control' = [control EXCEPT ![p].conn = conns']
    /\ since' = [since EXCEPT ![p] = now]
    /\ UNCHANGED <<tickVars, monster, clock, ledger, loot, purse, born, struck, paid>>

\* Fault: the swings at the character stay scheduled.
WithoutSwingsAtFault(p) == clock

\* cancel_attacks_targeting
WithoutSwingsAt(p) ==
    [m \in Monster |-> IF clock[m].hit # None => clock[m].hit.target # p
                       THEN clock[m] ELSE Unswung(clock[m])]

\* stop_character: leave, disconnect, takeover or an expired lease.
Leave(p) ==
    /\ phase = "idle" /\ player[p].online
    /\ player' = [player EXCEPT ![p].online = FALSE]
    /\ control' = [control EXCEPT ![p] = Disarmed(@)]
    /\ clock' = WithoutSwingsAt(p)
    /\ UNCHANGED <<tickVars, conns, monster, ledger, loot, purse, history>>

\* plan_player_attack and start_player_action: a fresh attack on t, which is
\* the selected or the nearest living monster, or on nothing.
PerformAttack(p, t, d) ==
    /\ phase = "idle" /\ Alive(p) /\ now >= control[p].next
    /\ t # None => monster[t].health > 0
    /\ control' =
           [control EXCEPT ![p] =
               [conn |-> @.conn, rev |-> @.rev + 1,
                until |-> now + Duration, next |-> now + Cooldown,
                hit |-> IF t = None THEN None
                        ELSE [target |-> t, tlife |-> monster[t].life,
                              slife |-> player[p].life, at |-> now + Start,
                              upto |-> now + Until, damage |-> d, rev |-> @.rev + 1]]]
    /\ UNCHANGED <<tickVars, conns, player, monster, clock, ledger, loot, purse, history>>

\* Fault: the pile stays on the ground.
PickupLootFault(p, l) ==
    /\ phase = "idle" /\ Alive(p)
    /\ now < l.expires /\ (l.owner = p \/ now >= l.reserved)
    /\ purse' = [purse EXCEPT ![p] = @ + 1]
    /\ UNCHANGED <<tickVars, conns, player, control, monster, clock, ledger, loot, history>>

PickupLoot(p, l) ==
    /\ phase = "idle" /\ Alive(p)
    /\ now < l.expires /\ (l.owner = p \/ now >= l.reserved)
    /\ purse' = [purse EXCEPT ![p] = @ + 1]
    /\ loot' = loot \ {l}
    /\ UNCHANGED <<tickVars, conns, player, control, monster, clock, ledger, history>>

-----------------------------------------------------------------------------
(* simulate: hits that are due.                                              *)

\* Fault: a hit whose window has closed is no longer copied.
BeginTickFault ==
    /\ phase = "idle" /\ phase' = "hits"
    /\ due' =
           {[at |-> control[p].hit.at, who |-> p, rev |-> control[p].hit.rev] :
                p \in {q \in Player : control[q].hit # None /\ now >= control[q].hit.at}}
           \cup {[at |-> clock[m].hit.at, who |-> m, rev |-> 0] :
                m \in {n \in Monster : /\ clock[n].hit # None
                                        /\ now \in clock[n].hit.at..(clock[n].hit.upto - 1)}}
    /\ UNCHANGED <<now, todo, conns, rows, history>>

\* resolve_due_hits copies the sources of everything that is due.
BeginTick ==
    /\ phase = "idle" /\ phase' = "hits"
    /\ due' =
           {[at |-> control[p].hit.at, who |-> p, rev |-> control[p].hit.rev] :
                p \in {q \in Player : control[q].hit # None /\ now >= control[q].hit.at}}
           \cup {[at |-> clock[m].hit.at, who |-> m, rev |-> 0] :
                m \in {n \in Monster : clock[n].hit # None /\ now >= clock[n].hit.at}}
    /\ UNCHANGED <<now, todo, conns, rows, history>>

\* compare_due_hits: by time, characters first.
First(e) ==
    \A f \in due : \/ e.at < f.at
                   \/ e.at = f.at /\ (e.who \in Player \/ f.who \in Monster)

\* Fault: the shield of the target is not tested.
BlowLandsFault(p, hit) ==
    /\ hit.damage > 0 /\ Alive(p)
    /\ hit.slife = player[p].life /\ hit.tlife = monster[hit.target].life
    /\ monster[hit.target].health > 0

\* Fault: a corpse is killed again.
CorpseFault(p, hit) ==
    /\ hit.damage > 0 /\ Alive(p)
    /\ hit.slife = player[p].life /\ hit.tlife = monster[hit.target].life
    /\ now >= clock[hit.target].shield

\* resolve_player_hit, before its effects.
BlowLands(p, hit) ==
    /\ hit.damage > 0 /\ Alive(p)
    /\ hit.slife = player[p].life /\ hit.tlife = monster[hit.target].life
    /\ monster[hit.target].health > 0 /\ now >= clock[hit.target].shield

\* apply_damage
After(health, d) == IF health > d THEN health - d ELSE 0

\* Fault: an old row is replaced by the last hit alone.
RegisteredFault(m, p, d) ==
    {r \in ledger : ~(r.monster = m /\ r.player = p)}
    \cup {[monster |-> m, life |-> monster[m].life, player |-> p,
           conn |-> control[p].conn, damage |-> d]}

\* record_damage: one row per monster life, character and connection.
Registered(m, p, d) ==
    LET mine == {r \in ledger : /\ r.monster = m /\ r.life = monster[m].life
                                /\ r.player = p /\ r.conn = control[p].conn}
        row(n) == [monster |-> m, life |-> monster[m].life, player |-> p,
                   conn |-> control[p].conn, damage |-> n]
    IN  IF mine = {} THEN ledger \cup {row(d)}
        ELSE (ledger \ mine) \cup {row((CHOOSE r \in mine : TRUE).damage + d)}

\* clear_monster_damage
WithoutDamage(L, m) == {r \in L : ~(r.monster = m /\ r.life = monster[m].life)}

LootOf(m, p) ==
    [monster |-> m, life |-> monster[m].life, owner |-> p,
     reserved |-> now + Reserved, expires |-> now + Expires]

\* A landed hit: damage, the ledger and the shield; then a kill with its
\* rewards, or a stagger that takes the monster's swing away, or neither.
Landed(p, hit, stagger) ==
    LET m == hit.target
        left == After(monster[m].health, hit.damage)
        shielded(row) == [until |-> row.until, next |-> row.next,
                          shield |-> now + Shield, hit |-> row.hit]
        still(row) == [until |-> 0, next |-> row.next,
                       shield |-> now + Shield, hit |-> None]
    IN  /\ struck' = [struck EXCEPT ![m] = now]
        /\ IF left = 0
           THEN /\ monster' = [monster EXCEPT ![m] = [health |-> 0, life |-> @.life,
                                                      respawn |-> now + MonsterRespawn]]
                /\ clock' = [clock EXCEPT ![m] = still(@)]
                /\ ledger' = WithoutDamage(Registered(m, p, hit.damage), m)
                /\ loot' = loot \cup {LootOf(m, p)}
                /\ paid' = [paid EXCEPT ![m] = @ + 1]
           ELSE /\ monster' = [monster EXCEPT ![m] = [health |-> left, life |-> @.life,
                                                      respawn |-> @.respawn]]
                /\ clock' = [clock EXCEPT ![m] = IF stagger THEN still(@) ELSE shielded(@)]
                /\ ledger' = Registered(m, p, hit.damage)
                /\ UNCHANGED <<loot, paid>>
        /\ UNCHANGED <<since, born>>

\* cancel_player_attack within take_due_player_hit.
Taken(row) ==
    [conn |-> row.conn, rev |-> row.rev, until |-> row.until, next |-> row.next, hit |-> None]

\* resolve_due_player_event: the pending record is read again, consumed, and
\* lands if its window is open, the lives are the captured ones and the target
\* is in reach.
ResolvePlayer(p, reach, stagger) ==
    LET hit == control[p].hit IN
    \E e \in due :
        /\ e.who = p /\ First(e) /\ due' = due \ {e}
        /\ UNCHANGED <<now, phase, todo, conns, player, purse>>
        /\ IF /\ hit # None /\ hit.at = e.at /\ hit.rev = e.rev
              /\ control[p].rev = e.rev /\ now >= e.at
           THEN /\ control' = [control EXCEPT ![p] = Taken(@)]
                /\ IF /\ now <= hit.upto /\ now <= control[p].until
                      /\ reach /\ BlowLands(p, hit)
                   THEN Landed(p, hit, stagger)
                   ELSE UNCHANGED <<monster, clock, ledger, loot, history>>
           ELSE UNCHANGED <<control, monster, clock, ledger, loot, history>>

\* Fault: only the character's presence and health are tested.
SwingLandsFault(m, hit) == monster[m].health > 0 /\ Alive(hit.target)

\* resolve_monster_hit, before its effects.
SwingLands(m, hit) ==
    /\ monster[m].health > 0 /\ Alive(hit.target)
    /\ hit.slife = monster[m].life /\ hit.tlife = player[hit.target].life

\* A monster's hit of d: a wound, or death, which ends the character's action.
Wounded(p, d) ==
    LET left == After(player[p].health, d) IN
    /\ player' = [player EXCEPT ![p] =
                      [online |-> @.online, health |-> left, life |-> @.life,
                       respawn |-> IF left = 0 THEN now + PlayerRespawn ELSE @.respawn]]
    /\ control' = IF left = 0 THEN [control EXCEPT ![p] = Disarmed(@)] ELSE control

\* resolve_due_monster_event
ResolveMonster(m, reach, d) ==
    LET hit == clock[m].hit IN
    \E e \in due :
        /\ e.who = m /\ First(e) /\ due' = due \ {e}
        /\ UNCHANGED <<now, phase, todo, conns, monster, ledger, loot, purse, history>>
        /\ IF hit # None /\ hit.at = e.at /\ now >= e.at
           THEN /\ clock' = [clock EXCEPT ![m] = Unswung(@)]
                /\ IF /\ now <= hit.upto /\ now <= clock[m].until
                      /\ reach /\ SwingLands(m, hit)
                   THEN Wounded(hit.target, d)
                   ELSE UNCHANGED <<player, control>>
           ELSE UNCHANGED <<clock, player, control>>

-----------------------------------------------------------------------------
(* simulate: respawns, loot and the monsters.                                *)

\* Fault: only those in the world rise.
RisenFault ==
    {p \in Player : player[p].online /\ player[p].health = 0 /\ now >= player[p].respawn}

\* Characters that were dead long enough, in or out of the world.
Risen == {p \in Player : player[p].health = 0 /\ now >= player[p].respawn}

Respawned(row) ==
    [online |-> row.online, health |-> PlayerHealth, life |-> row.life + 1, respawn |-> 0]

\* The first part of combat::simulate.
BeginMobs ==
    /\ phase = "hits" /\ due = {} /\ phase' = "mobs" /\ todo' = Monster
    /\ loot' = {l \in loot : now < l.expires}
    /\ player' = [p \in Player |-> IF p \in Risen THEN Respawned(player[p]) ELSE player[p]]
    /\ since' = [p \in Player |-> IF p \in Risen THEN now ELSE since[p]]
    /\ UNCHANGED <<now, due, conns, control, monster, clock, ledger, purse, born, struck, paid>>

\* The end of a corpse: the next life, with a fresh clock and no ledger.
MobRespawns(m) ==
    /\ monster[m].health = 0 /\ now >= monster[m].respawn
    /\ monster' = [monster EXCEPT ![m] = FreshMonster(@.life + 1)]
    /\ clock' = [clock EXCEPT ![m] = FreshClock]
    /\ ledger' = WithoutDamage(ledger, m)
    /\ born' = [born EXCEPT ![m] = now] /\ struck' = [struck EXCEPT ![m] = None]
    /\ UNCHANGED <<due, player, control, loot, purse, since, paid>>

\* schedule_monster_hit at a victim in reach.  A ranged attack that starts at
\* once is resolved in the same tick.
MobSwings(m, p, ranged) ==
    /\ monster[m].health > 0 /\ Alive(p)
    /\ now >= clock[m].until /\ now >= clock[m].next
    /\ clock' =
           [clock EXCEPT ![m] =
               [until |-> now + MobDuration, next |-> now + MobCooldown, shield |-> @.shield,
                hit |-> [target |-> p, tlife |-> player[p].life, slife |-> monster[m].life,
                         at |-> now + MobStart, upto |-> now + MobUntil]]]
    /\ due' = IF ranged /\ MobStart = 0 THEN {[at |-> now, who |-> m, rev |-> 0]} ELSE {}
    /\ UNCHANGED <<player, control, monster, ledger, loot, purse, history>>

\* A monster walks, waits, lies dead, is stunned or is thrown back.
MobIdles(m) ==
    /\ ~(monster[m].health = 0 /\ now >= monster[m].respawn)
    /\ UNCHANGED <<due, rows, history>>

Mob(m) ==
    /\ phase = "mobs" /\ due = {} /\ m \in todo /\ todo' = todo \ {m}
    /\ \/ MobRespawns(m) \/ MobIdles(m)
       \/ \E p \in Player, ranged \in BOOLEAN : MobSwings(m, p, ranged)
    /\ UNCHANGED <<now, phase, conns>>

EndTick ==
    /\ phase = "mobs" /\ due = {} /\ todo = {} /\ phase' = "idle"
    /\ UNCHANGED <<now, due, todo, conns, rows, history>>

Tick ==
    /\ phase = "idle" /\ now < MaxTime /\ now' = now + 1
    /\ UNCHANGED <<phase, due, todo, conns, rows, history>>

Resolve ==
    \/ \E p \in Player, reach, stagger \in BOOLEAN : ResolvePlayer(p, reach, stagger)
    \/ \E m \in Monster, reach \in BOOLEAN, d \in Roll : ResolveMonster(m, reach, d)

Simulate == BeginTick \/ Resolve \/ BeginMobs \/ EndTick \/ \E m \in Monster : Mob(m)

Next ==
    \/ Tick \/ Simulate
    \/ \E p \in Player :
           \/ Enter(p) \/ Leave(p)
           \/ \E t \in Monster \cup {None}, d \in Roll : PerformAttack(p, t, d)
           \/ \E l \in loot : PickupLoot(p, l)

Spec == Init /\ [][Next]_vars

-----------------------------------------------------------------------------
(* Fairness: time passes, and the schedule runs simulate to its end.         *)

FairSpec == Spec /\ WF_vars(Simulate) /\ SF_vars(Tick)

-----------------------------------------------------------------------------
(* Properties.                                                               *)

\* A scheduled hit is always that of a living source in the life that began
\* it, and the hit of its latest action; whoever is swung at is in the world.
\* Deaths (resolve_monster_hit, kill_monster) and exits (stop_character) have
\* to cancel every record that a later tick would otherwise resolve.
NoOrphanedHit ==
    /\ \A p \in Player : control[p].hit # None =>
           /\ Alive(p) /\ control[p].hit.slife = player[p].life
           /\ control[p].hit.rev = control[p].rev
    /\ \A m \in Monster : clock[m].hit # None =>
           /\ monster[m].health > 0 /\ clock[m].hit.slife = monster[m].life
           /\ player[clock[m].hit.target].online

\* Health is only ever lost to a hit begun in the present life of both sides
\* and, for a character, since it last entered the world: who respawned or
\* came back is not hurt by what was swung at it before
\* (exact_hit_generations_match, cancel_attacks_targeting).
Stands(p, m, start) == start >= since[p] /\ start >= born[m]
StaleFreeStep ==
    /\ \A p \in Player : player'[p].health < player[p].health =>
           \E m \in Monster :
               /\ clock[m].hit # None /\ clock'[m].hit = None
               /\ clock[m].hit.target = p /\ Stands(p, m, clock[m].hit.at - MobStart)
    /\ \A m \in Monster : monster'[m].health < monster[m].health =>
           \E p \in Player :
               /\ control[p].hit # None /\ control'[p].hit = None
               /\ control[p].hit.target = m /\ Stands(p, m, control[p].hit.at - Start)
NoStaleDamage == [][StaleFreeStep]_vars

\* Two hits on one life of a monster are a shield apart, whoever deals them
\* and however late the tick that resolves both (monster_hit_cooldown_allows).
HitsAreSpaced ==
    [][\A m \in Monster :
           monster'[m].health < monster[m].health /\ struck[m] # None
               => now >= struck[m] + Shield]_vars

\* A monster pays once for each of its lives, also when several hits are due
\* in the tick that kills it.
OneRewardPerLife ==
    \A m \in Monster : paid[m] = monster[m].life + (IF monster[m].health = 0 THEN 1 ELSE 0)

\* Gold is made by kills alone: the purses and the ground never hold more than
\* was paid, and a life leaves one pile (kill_monster, pickup_loot).
NoGoldFromNothing ==
    /\ SumFunctionOnSet(purse, Player) + Cardinality(loot)
           <= SumFunctionOnSet(paid, Monster)
    /\ \A k, l \in loot : k.monster = l.monster /\ k.life = l.life => k = l

DamageOf(L, m) == SumFunctionOnSet([r \in L |-> r.damage], {r \in L : r.monster = m})

\* The ledger accounts for every wound of a living monster and for nothing
\* else: a corpse or a new life has no rows, so what is shared at the kill is
\* the damage of that life (record_damage, clear_monster_damage).
LedgerExplainsWounds ==
    /\ \A r \in ledger : r.life = monster[r.monster].life /\ monster[r.monster].health > 0
    /\ \A m \in Monster : monster[m].health > 0 =>
           DamageOf(ledger, m) = MonsterHealth - monster[m].health

\* What a kill pays, and to whom it is shared, comes from that kill alone.
RewardsAreEarned == NoGoldFromNothing /\ LedgerExplainsWounds

\* A fallen character gets up again, in or out of the world, as long as the
\* clock lasts (combat::simulate).
Rises ==
    \A p \in Player :
        (player[p].health = 0 /\ player[p].respawn <= MaxTime) ~> (player[p].health > 0)

\* A scheduled swing of a monster is decided or withdrawn: no record outlives
\* the first tick after its time (take_due_monster_hit).
SwingsAreDecided ==
    \A m \in Monster :
        (clock[m].hit # None /\ clock[m].hit.at <= MaxTime) ~> (clock[m].hit = None)

\* Whatever the tick owes is settled, with nobody calling a reducer.
TickSettles == Rises /\ SwingsAreDecided
=============================================================================
