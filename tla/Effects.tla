------------------------------- MODULE Effects -------------------------------
(* What outlives a call on one character: a running charge, skill buffs and  *)
(* the recovery of a potion.                                                 *)
(*                                                                           *)
(* Source: server/src/charges.rs with charge_lifecycle.rs, player_buffs.rs   *)
(* with buff_lifecycle.rs, item_effects.rs, and what lib.rs, accounts.rs and *)
(* combat.rs do to them.  A charge is bound to a connection and a life, a    *)
(* buff to a life and to time spent online, a recovery to one stay in the    *)
(* world; the rows are cleared, paused and resumed from six places.          *)
(*                                                                           *)
(* Abstracted: the public copies of the rows; who holds the lease and why it *)
(* ends (Accounts); whether a target, a weapon, a running action or the      *)
(* cooldown of a buff refuses a cast (any call may be dropped); a buff keeps *)
(* the ticks of its longest modifier; the revision of the charge skill never *)
(* reaches its limit, and of it the model keeps whether the one a queued     *)
(* call names is still current.                                              *)
EXTENDS Integers

CONSTANTS
    Connection,     \* connection ids
    Buff,           \* self buffs the character has learned
    Absent,         \* no row
    Second,         \* a second of the clock, RECOVERY_INTERVAL_US too
    FullHealth, FullSp,
    ChargeCost, ChargeTime, ChargeCooldown,   \* the policy of the charge skill
    BuffCost, BuffTicks,                \* captured by an activation
    Gulp, Sip,      \* what a potion promises, what one step of recovery gives
    RespawnTime,
    LastInstant, LastLife               \* bounds: the clock, lives

Charge == [conn : Connection, life : Nat, expires : Nat]
Call == [conn : Connection, begin : BOOLEAN, charged : BOOLEAN, current : BOOLEAN]
BuffRow == [life : Nat, ticks : Nat, next : Nat]
Pool == [life : Nat, hp : Nat, sp : Nat, next : Nat]

ASSUME EffectsAssumption ==
    /\ Absent \notin Connection \cup Charge \cup Call \cup BuffRow \cup Pool
    /\ {Second, FullHealth, FullSp, ChargeCost, ChargeTime, ChargeCooldown, BuffCost,
        BuffTicks, Gulp, Sip, RespawnTime} \subseteq Nat \ {0}
    /\ LastInstant \in Nat /\ LastLife \in Nat

VARIABLES
    clock,
    present, driver,    \* player.online, the controller's connection
    leased,             \* controller_has_active_lease
    life, health, respawn_at,
    sp,
    ready_at,           \* character_skill of the charge: ready_at_us
    charge,             \* the active_charge row
    queued,             \* a call on the charge skill, under way
    buff,               \* character_buff rows; next is 0 while a buff is paused
    recovery,           \* the item_recovery row
    credit,             \* history: charges paid for, less those struck or ended
    used, breaks,       \* history: time online, pauses inside a second, of each buff
    healed_at           \* history: the last step of recovery

standing == <<present, driver, leased>>
vitals == <<life, health, respawn_at>>
charging == <<ready_at, charge, credit>>
buffing == <<buff, used, breaks>>
healing == <<recovery, healed_at>>
effectVars == <<clock, standing, vitals, sp, charging, queued, buffing, healing>>

EffectsTypeOK ==
    /\ clock \in Nat
    /\ present \in BOOLEAN /\ leased \in BOOLEAN
    /\ driver \in Connection \cup {Absent} /\ (present => driver # Absent)
    /\ life \in Nat /\ health \in 0..FullHealth /\ respawn_at \in Nat
    /\ sp \in 0..FullSp
    /\ ready_at \in Nat /\ charge \in Charge \cup {Absent} /\ credit \in Int
    /\ queued \in Call \cup {Absent}
    /\ buff \in [Buff -> BuffRow \cup {Absent}]
    /\ used \in [Buff -> Nat] /\ breaks \in [Buff -> Nat]
    /\ recovery \in Pool \cup {Absent} /\ healed_at \in Nat

EffectsInit ==
    /\ clock = 0
    /\ present = FALSE /\ driver = Absent /\ leased = FALSE
    /\ life = 0 /\ health = FullHealth /\ respawn_at = 0
    /\ sp = FullSp
    /\ ready_at = 0 /\ charge = Absent /\ credit = 0 /\ queued = Absent
    /\ buff = [b \in Buff |-> Absent]
    /\ used = [b \in Buff |-> 0] /\ breaks = [b \in Buff |-> 0]
    /\ recovery = Absent /\ healed_at = 0

-----------------------------------------------------------------------------
Lesser(a, b) == IF a < b THEN a ELSE b
Drives(c) == present /\ leased /\ driver = c /\ health > 0

\* Fault: the charge of an earlier connection still serves.
ChargeRunsFault(here) ==
    charge # Absent /\ here /\ health > 0 /\ clock < charge.expires

\* Charge::active of the living, leased character in the world.
ChargeRuns(here) ==
    /\ charge # Absent /\ here /\ health > 0
    /\ charge.conn = driver /\ charge.life = life
    /\ clock < charge.expires

\* Fault: the revision of the skill stays.
OutdatedCallFault == queued

\* Every change of the skill row moves its revision past the one a call names.
OutdatedCall == IF queued = Absent THEN Absent ELSE [queued EXCEPT !.current = FALSE]

\* Fault: a late tick starts a new second when it runs.
NextTickFault(row) == clock + Second

\* The phase of the ticks survives a late one.
NextTick(row) == clock + Second - ((clock - row.next) % Second)

\* Fault: a pause does not settle what is due.
ElapsedFault(row, pause) ==
    IF pause THEN [row EXCEPT !.next = 0] ELSE row

\* elapsed_row and advance: settle the due ticks, then perhaps pause.
Elapsed(row, pause) ==
    LET due == IF row.next > 0 /\ clock >= row.next
               THEN 1 + (clock - row.next) \div Second ELSE 0
        next == IF due > 0 THEN NextTick(row) ELSE row.next
    IN  IF row.ticks <= due THEN Absent
        ELSE [life |-> row.life, ticks |-> row.ticks - due,
              next |-> IF pause THEN 0 ELSE next]

\* The buffs once stop_character has paused them.
Paused == [b \in Buff |-> IF buff[b] = Absent THEN Absent ELSE Elapsed(buff[b], TRUE)]

\* Histories end with the row they are about.
OfRows(h, rows) == [b \in Buff |-> IF rows[b] = Absent THEN 0 ELSE h[b]]

\* One pause more for every running buff that it stops inside a second.
Broken ==
    [b \in Buff |->
        LET row == IF buff[b] = Absent THEN Absent ELSE Elapsed(buff[b], FALSE)
        IN  IF row # Absent /\ row.next \notin {0, clock + Second}
            THEN breaks[b] + 1 ELSE breaks[b]]

-----------------------------------------------------------------------------
(* Coming and going.                                                         *)

\* Fault: a repeated entry restarts the running second.
ResumedFault(row) ==
    IF health = 0 \/ row.life # life THEN Absent ELSE [row EXCEPT !.next = clock + Second]

\* player_buffs::resume, for one row.
Resumed(row) ==
    IF health = 0 \/ row.life # life THEN Absent
    ELSE IF row.next = 0 THEN [row EXCEPT !.next = clock + Second]
    ELSE row

\* enter_character: refused while another connection plays the character.  A
\* charge of the previous stay is not looked at.
EnterWorld(c) ==
    /\ ~(present /\ driver # c)
    /\ present => leased
    /\ present' = TRUE /\ driver' = c /\ leased' = TRUE
    /\ LET rows == [b \in Buff |-> IF buff[b] = Absent THEN Absent ELSE Resumed(buff[b])]
       IN  buff' = rows /\ used' = OfRows(used, rows) /\ breaks' = OfRows(breaks, rows)
    /\ UNCHANGED <<clock, vitals, sp, charging, queued, healing>>

\* The lease of the driver runs out, or the driver renews it.
LeaseTurns ==
    /\ present
    /\ leased' = ~leased
    /\ UNCHANGED <<clock, present, driver, vitals, sp, charging, queued, buffing, healing>>

\* Fault: the pool of a potion stays when its owner leaves.
RecoveryOfFault(here) == recovery

\* item_effects::clear in stop_character
RecoveryOf(here) == IF here THEN recovery ELSE Absent

\* stop_character: called by the driver, by a disconnect or a take-over.
Depart ==
    /\ present
    /\ present' = FALSE /\ leased' = FALSE
    /\ buff' = Paused /\ used' = OfRows(used, Paused) /\ breaks' = OfRows(Broken, Paused)
    /\ recovery' = RecoveryOf(FALSE)
    /\ UNCHANGED <<clock, driver, vitals, sp, charging, queued, healed_at>>

-----------------------------------------------------------------------------
(* The charge skill.                                                         *)

\* The client calls on what it sees: the revision and whether a charge runs.
Send(begin) ==
    /\ present /\ queued = Absent
    /\ queued' = [conn |-> driver, begin |-> begin, charged |-> charge # Absent,
                  current |-> TRUE]
    /\ UNCHANGED <<clock, standing, vitals, sp, charging, buffing, healing>>

\* The call is refused, or its connection closed.
Refuse ==
    /\ queued # Absent /\ queued' = Absent
    /\ UNCHANGED <<clock, standing, vitals, sp, charging, buffing, healing>>

\* Fault: a charge that nobody may use is replaced.
CanBeginFault == clock >= ready_at /\ sp >= ChargeCost

\* State::begin: a stale charge is not refreshed but waits for maintenance.
CanBegin == charge = Absent /\ clock >= ready_at /\ sp >= ChargeCost

Arrives == queued # Absent /\ queued.current /\ Drives(queued.conn)

\* begin_charge, or cast_skill without a target.
BeginCharge ==
    /\ Arrives /\ queued.begin /\ CanBegin
    /\ sp' = sp - ChargeCost /\ ready_at' = clock + ChargeCooldown
    /\ charge' = [conn |-> driver, life |-> life, expires |-> clock + ChargeTime]
    /\ credit' = credit + 1 /\ queued' = Absent
    /\ UNCHANGED <<clock, standing, vitals, buffing, healing>>

\* Fault: the row read before the hits is stored after them.
SpAfterFault(paid, level) == paid

\* The payment is stored before the hits, and a level refills what is left.
SpAfter(paid, level) == IF level THEN FullSp ELSE paid

\* Fault: the strike leaves the charge to its clock.
AfterStrikeFault == charge

\* The charge is consumed with the damage.
AfterStrike == Absent

\* cast_skill on a target: strike uses the running charge or pays for one.
StrikeTarget(level) ==
    /\ Arrives /\ ~queued.begin
    /\ \/ /\ ChargeRuns(present)
          /\ sp' = SpAfter(sp, level)
          /\ credit' = credit - 1
          /\ UNCHANGED ready_at
       \/ /\ ~ChargeRuns(present) /\ CanBegin
          /\ sp' = SpAfter(sp - ChargeCost, level)
          /\ ready_at' = clock + ChargeCooldown
          /\ UNCHANGED credit
    /\ charge' = AfterStrike
    /\ health' = IF level THEN FullHealth ELSE health
    /\ queued' = Absent
    /\ UNCHANGED <<clock, standing, life, respawn_at, buffing, healing>>

-----------------------------------------------------------------------------
(* Buffs and potions.                                                        *)

\* A new buff joins the phase of the running ones, else it starts its own.
FirstTicks ==
    LET shared == {buff[b].next : b \in {d \in Buff : buff[d] # Absent /\ buff[d].next > clock}}
    IN  IF shared = {} THEN {clock + Second}
        ELSE {t \in shared : \A u \in shared : t <= u}

\* player_buffs::activate; an active buff of the skill is replaced.
ActivateBuff(b) ==
    /\ Drives(driver) /\ sp >= BuffCost
    /\ sp' = sp - BuffCost
    /\ \E t \in FirstTicks :
           buff' = [buff EXCEPT ![b] = [life |-> life, ticks |-> BuffTicks, next |-> t]]
    /\ used' = [used EXCEPT ![b] = 0] /\ breaks' = [breaks EXCEPT ![b] = 0]
    /\ UNCHANGED <<clock, standing, vitals, charging, queued, healing>>

\* Fault: a potion acts at once.
FirstStepFault == clock

FirstStep == clock + Second

\* apply: each resource takes more only while it is not full or recovering.
Drink(hp, mana) ==
    LET pool == IF recovery # Absent /\ recovery.life = life THEN recovery
                ELSE [life |-> life, hp |-> 0, sp |-> 0, next |-> FirstStep]
    IN  /\ present /\ leased /\ health > 0
        /\ hp > 0 => health + pool.hp < FullHealth
        /\ mana > 0 => sp + pool.sp < FullSp
        /\ recovery' = [pool EXCEPT !.hp = @ + hp, !.sp = @ + mana]
        /\ UNCHANGED <<clock, standing, vitals, sp, charging, queued, buffing, healed_at>>

\* A level that another reducer grants, as an answer that a quest rewards does.
GainLevel ==
    /\ Drives(driver)
    /\ health' = FullHealth /\ sp' = FullSp
    /\ UNCHANGED <<clock, standing, life, respawn_at, charging, queued, buffing, healing>>

-----------------------------------------------------------------------------
(* The scheduled reducer and the clock.                                      *)

\* Fault: a dead owner keeps the charge.
ChargeStaysFault(here) ==
    charge # Absent /\ here /\ charge.conn = driver /\ clock < charge.expires

\* charges::maintain
ChargeStays(here) == ChargeRuns(here)

\* player_buffs::maintain, for one row.
Maintained(row, here) ==
    IF health = 0 \/ row.life # life THEN Absent
    ELSE IF row.next > 0 /\ (~here \/ clock >= row.next) THEN Elapsed(row, ~here)
    ELSE row

\* Fault: a defeat keeps the buffs.
AfterDefeatFault(rows) == rows

\* player_buffs::clear
AfterDefeat(rows) == [b \in Buff |-> Absent]

\* Fault: a defeat does not end the recovery.
RecoveryEndsFault(here, h, l) == ~here

\* The owner of the pool left, died, or lives again.
RecoveryEnds(here, h, l) == ~here \/ h = 0 \/ recovery.life # l

\* item_effects::simulate, with the health, the SP and the life of this tick.
Recover(here, h, m, l) ==
    LET give(at, full, pool) == IF at >= full THEN 0 ELSE Lesser(pool, Sip)
        left(at, full, pool) == IF at >= full THEN 0 ELSE pool - Lesser(pool, Sip)
        hp == left(h, FullHealth, recovery.hp)
        mana == left(m, FullSp, recovery.sp)
    IN  IF RecoveryOf(here) = Absent \/ RecoveryEnds(here, h, l)
        THEN recovery' = Absent /\ health' = h /\ sp' = m /\ UNCHANGED healed_at
        ELSE IF clock < recovery.next
        THEN health' = h /\ sp' = m /\ UNCHANGED <<recovery, healed_at>>
        ELSE /\ health' = Lesser(FullHealth, h + give(h, FullHealth, recovery.hp))
             /\ sp' = Lesser(FullSp, m + give(m, FullSp, recovery.sp))
             /\ healed_at' = clock
             /\ recovery' = IF hp = 0 /\ mana = 0 THEN Absent
                            ELSE [recovery EXCEPT !.hp = hp, !.sp = mana,
                                                  !.next = clock + Second]

\* What the due hits of a tick do to a character in the world: one of them is
\* a monster's, or an ordinary hit of his own wins him a level.
Met == {"nothing", "bite", "level"}

Felled(met, here) == met = "bite" /\ here /\ health = 1

AfterHits(met, here) ==
    IF ~here \/ health = 0 \/ met = "nothing" THEN health
    ELSE IF met = "bite" THEN health - 1 ELSE FullHealth

\* simulate: leases and due hits (lib.rs:619), then charges, buffs, respawn and
\* the bites that land with their attack (combat.rs:1343), then potions.
SimulateEffects(met, bite) ==
    LET here == present /\ leased
        fell == Felled(met, here)
        entered == IF here THEN buff ELSE Paused
        kept == [b \in Buff |-> IF entered[b] = Absent THEN Absent
                                ELSE Maintained(entered[b], here)]
        stood == AfterHits(met, here)
        mana == IF here /\ health > 0 /\ met = "level" THEN FullSp ELSE sp
        rises == health = 0 /\ clock >= respawn_at
        stands == IF rises THEN FullHealth ELSE stood
        bitten == bite /\ here /\ stands > 0
        after == IF bitten THEN stands - 1 ELSE stands
        defeat == bitten /\ after = 0
        rows == IF fell \/ defeat THEN AfterDefeat(kept) ELSE kept
        stays == ChargeStays(here) /\ ~fell
    IN  /\ rises => life < LastLife
        /\ life' = IF rises THEN life + 1 ELSE life
        /\ respawn_at' = IF fell \/ defeat THEN clock + RespawnTime
                         ELSE IF rises THEN 0 ELSE respawn_at
        /\ present' = here /\ leased' = here
        /\ charge' = IF stays THEN charge ELSE Absent
        /\ LET lapses == charge # Absent /\ ~stays
           IN  /\ credit' = IF lapses THEN credit - 1 ELSE credit
               /\ queued' = IF lapses THEN OutdatedCall ELSE queued
        /\ buff' = rows /\ used' = OfRows(used, rows)
        /\ breaks' = OfRows(IF present /\ ~here THEN Broken ELSE breaks, rows)
        /\ Recover(here, after, mana, life')
        /\ UNCHANGED <<clock, driver, ready_at>>

TimePasses ==
    /\ clock < LastInstant
    /\ clock' = clock + 1
    /\ used' = [b \in Buff |-> IF buff[b] # Absent /\ buff[b].next > 0
                               THEN used[b] + 1 ELSE used[b]]
    /\ UNCHANGED <<standing, vitals, sp, charging, queued, buff, breaks, healing>>

EffectsNext ==
    \/ \E c \in Connection : EnterWorld(c)
    \/ LeaseTurns
    \/ Depart
    \/ \E begin \in BOOLEAN : Send(begin)
    \/ Refuse
    \/ BeginCharge
    \/ \E level \in BOOLEAN : StrikeTarget(level)
    \/ \E b \in Buff : ActivateBuff(b)
    \/ Drink(Gulp, 0) \/ Drink(0, Gulp)
    \/ GainLevel
    \/ \E met \in Met, bite \in BOOLEAN : SimulateEffects(met, bite)
    \/ TimePasses

EffectsSpec == EffectsInit /\ [][EffectsNext]_effectVars

-----------------------------------------------------------------------------
(* What the module promises.                                                 *)

\* A charge is used up exactly once, by a strike or by maintenance, and never
\* lives on into another life of its owner: charges::maintain runs before the
\* respawn of the same tick (lib.rs:654).
ChargeIsOwed ==
    /\ credit = IF charge = Absent THEN 0 ELSE 1
    /\ charge # Absent => charge.life = life

\* A buff belongs to a living character and to its present life, and runs
\* exactly while the character is in the world.
BuffsArePaused ==
    \A b \in Buff : buff[b] # Absent =>
        /\ buff[b].life = life /\ health > 0
        /\ buff[b].next > 0 <=> present

\* However late the ticks run and however often the world is left, a buff has
\* paid a tick for every second of its running time, except that each pause
\* drops less than a second and the shared phase gains less than one.
BuffsArePaced ==
    \A b \in Buff : buff[b] # Absent =>
        LET paid == (BuffTicks - buff[b].ticks) * Second
            running == IF buff[b].next = 0 THEN 0 ELSE clock - buff[b].next + Second
        IN  /\ paid - (Second - 1) <= used[b] - running
            /\ used[b] - running <= paid + breaks[b] * (Second - 1)

\* The recovery of a potion is that of a living character in the world, in
\* the life in which it was drunk.
RecoveryIsOfThisStay ==
    recovery # Absent => present /\ health > 0 /\ recovery.life = life

\* What outlives a call keeps to its owner, its life and its clock.
EffectsAreSound ==
    /\ EffectsTypeOK /\ ChargeIsOwed
    /\ BuffsArePaused /\ BuffsArePaced /\ RecoveryIsOfThisStay

Struck == queued # Absent /\ ~queued.begin /\ queued' = Absent

\* No step goes against what the caller saw or paid for: a strike uses a charge
\* of its own connection and life that still runs; a call made while a charge
\* was shown never pays for a new one, however late it arrives; a level won by
\* the strike refills the character after the payment; a buff of a survivor
\* lasts its time; and potions never heal faster than one step a second.
EffectsAreHonest ==
    [][/\ Struck /\ charge # Absent /\ charge' # charge =>
              charge.conn = driver /\ charge.life = life /\ clock < charge.expires
       /\ ready_at' # ready_at => queued # Absent /\ ~queued.charged
       /\ Struck /\ health' > health => sp' = FullSp
       /\ \A b \in Buff :
              buff[b] # Absent /\ buff'[b] = Absent =>
                  health' = 0 \/ used[b] > (BuffTicks - 1) * Second
       /\ healed_at' # healed_at => clock >= healed_at + Second]_effectVars
=============================================================================
