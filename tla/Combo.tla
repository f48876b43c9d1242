------------------------------- MODULE Combo -------------------------------
(* The combat target and the sword combo of one character.                   *)
(*                                                                           *)
(* Source: server/src/combo.rs and server/src/targeting.rs, and the reducers *)
(* that call them (lib.rs, inventory.rs, npcs.rs, skills.rs, charges.rs,     *)
(* combat.rs, accounts.rs).  The row of the character in table controller    *)
(* holds the selection, the chain and the scheduled hit; whatever else       *)
(* happens to it, its target or its weapon between a press and the tick that *)
(* acts on it has to be undone in that row.                                  *)
(*                                                                           *)
(* Abstracted: the steps of the combo differ in their hit windows alone;     *)
(* positions (a target is in reach or not, at every test); the target        *)
(* revision (the hit remembers whether the revision it captured is still the *)
(* controller's); action and chain revisions (one character, whose due       *)
(* transition is never stale within its own tick); the lease, which the tick *)
(* ends first.                                                               *)
EXTENDS Integers

CONSTANTS
    Monster, Weapon, None,
    Pre, Direct, Limit, Duration,   \* combo_input of a step and its action
    Last,                           \* the terminal step
    HitWindow, Cooldown,            \* hit windows of the actions, after their start
    Interval,                       \* TARGET_CHANGE_INTERVAL_US
    MaxTime, MaxLife                \* bounds: the clock, lives of a monster

ASSUME ComboAssumption ==
    /\ None \notin Monster \cup Weapon
    /\ Pre \in Nat /\ Direct \in Nat /\ Limit \in Nat /\ Duration \in Nat
    /\ Pre < Direct /\ Direct < Limit /\ Limit <= Duration
    /\ \A w \in HitWindow : w \in Nat \X Nat /\ w[1] <= w[2] /\ w[2] <= Duration
    /\ Cooldown \in Nat /\ Interval \in Nat
    /\ Last \in Nat \ {0, 1}
    /\ MaxTime \in Nat /\ MaxLife \in Nat

VARIABLES
    now,
    phase,      \* "idle", or "hits" while simulate resolves due hits
    online, alive,
    monster,    \* monster rows: whether it lives, and its life
    weapon,     \* the equipped sword, or None
    sel,        \* combat_target of the controller: a monster and a life
    view,       \* the combat_target_view row of the character
    hold,       \* combat_target_change_not_before_us
    chain,      \* the combo fields of the controller, or None
    hit,        \* the scheduled hit, or None
    until, next,\* attack_until_us, next_attack_us
    touched     \* history: a target was chosen or cleared since the last press

body == <<online, alive>>
selection == <<sel, view, hold>>
action == <<chain, hit, until, next>>
vars == <<now, phase, body, monster, weapon, selection, action, touched>>

Target == [id : Monster, life : Nat]
Chain == [step : 1..Last, start : Nat, end : Nat, target : Target \cup {None},
          selectable : BOOLEAN, weapon : Weapon, link : Nat \cup {None}]
Hit == [target : Target, at : Nat, upto : Nat, current : BOOLEAN, selectable : BOOLEAN]

TypeOK ==
    /\ now \in Nat /\ phase \in {"idle", "hits"}
    /\ online \in BOOLEAN /\ alive \in BOOLEAN
    /\ monster \in [Monster -> [alive : BOOLEAN, life : Nat]]
    /\ weapon \in Weapon \cup {None}
    /\ sel \in Target \cup {None} /\ view \in Target \cup {None} /\ hold \in Nat
    /\ chain \in Chain \cup {None} /\ hit \in Hit \cup {None}
    /\ until \in Nat /\ next \in Nat /\ touched \in BOOLEAN

Init ==
    /\ now = 0 /\ phase = "idle" /\ online = FALSE /\ alive = TRUE
    /\ monster = [m \in Monster |-> [alive |-> TRUE, life |-> 0]]
    /\ weapon \in Weapon \cup {None}
    /\ sel = None /\ view = None /\ hold = 0
    /\ chain = None /\ hit = None /\ until = 0 /\ next = 0 /\ touched = FALSE

-----------------------------------------------------------------------------
Active == online /\ alive
Life(m) == [id |-> m, life |-> monster[m].life]
Live(t) == t # None /\ monster[t.id] = [alive |-> TRUE, life |-> t.life]
Later(a, b) == IF a < b THEN b ELSE a

\* Fault: the link stays queued.
UnlinkedFault(c) == c

\* cancel_queued_link
Unlinked(c) ==
    IF c = None THEN None
    ELSE [step |-> c.step, start |-> c.start, end |-> c.end, target |-> c.target,
          selectable |-> c.selectable, weapon |-> c.weapon, link |-> None]

\* Fault: the target revision is not advanced.
OutdatedFault(h) == h

\* The controller's target revision moves past the one the hit captured.
Outdated(h) ==
    IF h = None THEN None
    ELSE [target |-> h.target, at |-> h.at, upto |-> h.upto, current |-> FALSE,
          selectable |-> h.selectable]

\* chain_target_relationship_is_valid
Related(c, s) ==
    IF c.target = None THEN s = None
    ELSE Live(c.target) /\ (s = c.target \/ (c.selectable /\ s = None))

\* start_player_action; step 0 is any action outside the combo.  The terminal
\* step strikes an area and schedules no hit of its own.
StartAction(step, t, selectable) ==
    /\ until' = now + Duration
    /\ next' = now + (IF step = 0 THEN Cooldown ELSE Later(Cooldown, Duration))
    /\ \E w \in HitWindow :
          hit' = IF t = None \/ step = Last THEN None
                 ELSE [target |-> t, at |-> now + w[1], upto |-> now + w[2],
                       current |-> TRUE, selectable |-> selectable]
    /\ touched' = FALSE

\* begin_chain
ChainOf(step, t, selectable, w) ==
    [step |-> step, start |-> now, end |-> now + Duration, target |-> t,
     selectable |-> selectable, weapon |-> w, link |-> None]

-----------------------------------------------------------------------------
(* The combat target.                                                        *)

\* clear_character_target
ClearSelection ==
    /\ sel' = None /\ view' = None /\ UNCHANGED hold

\* select_combat_target
Select(m) ==
    /\ phase = "idle" /\ Active /\ monster[m].alive
    /\ sel = Life(m) \/ now >= hold
    /\ sel' = Life(m) /\ view' = Life(m) /\ hold' = now + Interval
    /\ chain' = IF sel = Life(m) THEN chain ELSE Unlinked(chain)
    /\ hit' = Outdated(hit) /\ touched' = TRUE
    /\ UNCHANGED <<now, phase, body, monster, weapon, until, next>>

\* clear_combat_target, and interact_npc when it opens a conversation.
ClearTarget ==
    /\ phase = "idle" /\ Active
    /\ ClearSelection
    /\ chain' = Unlinked(chain) /\ hit' = Outdated(hit) /\ touched' = TRUE
    /\ UNCHANGED <<now, phase, body, monster, weapon, until, next>>

-----------------------------------------------------------------------------
(* perform_attack.                                                           *)

Expired(c) == now >= c.end

\* A follow-up in the queueing window: the link fires after its boundary.
Queue ==
    /\ phase = "idle" /\ Active /\ chain # None
    /\ chain.step < Last /\ ~Expired(chain) /\ chain.link = None
    /\ now - chain.start > Pre /\ now - chain.start <= Direct
    /\ weapon = chain.weapon /\ Related(chain, sel)
    /\ chain' = [step |-> chain.step, start |-> chain.start, end |-> chain.end,
                 target |-> chain.target, selectable |-> chain.selectable,
                 weapon |-> chain.weapon, link |-> chain.start + Direct]
    /\ UNCHANGED <<now, phase, body, monster, weapon, selection, hit, until, next, touched>>

\* Fault: the hit of the current step is not awaited.
CanAdvanceFault ==
    Active /\ chain.step < Last /\ Related(chain, sel) /\ weapon = chain.weapon

\* What transition_to_next_step demands.
CanAdvance ==
    /\ Active /\ chain.step < Last /\ Related(chain, sel) /\ weapon = chain.weapon
    /\ hit # None => now > hit.upto \/ now > until

\* transition_to_next_step
AdvanceChain ==
    /\ CanAdvance
    /\ chain' = ChainOf(chain.step + 1, chain.target, chain.selectable, chain.weapon)
    /\ StartAction(chain.step + 1, chain.target,
                   chain.selectable /\ sel = None /\ chain.target # None)

\* A follow-up after the queueing window advances at once.
DirectLink ==
    /\ phase = "idle" /\ Active /\ chain # None
    /\ ~Expired(chain) /\ chain.link = None
    /\ now - chain.start > Direct /\ now - chain.start <= Limit
    /\ AdvanceChain
    /\ UNCHANGED <<now, phase, body, monster, weapon, selection>>

\* A fresh attack on the selected target, or on the nearest in reach if any.
Press(t) ==
    /\ phase = "idle" /\ Active
    /\ chain # None => Expired(chain)
    /\ now >= next
    /\ IF sel # None THEN t = sel ELSE t # None => Live(t)
    /\ chain' = IF weapon = None THEN None
                ELSE ChainOf(1, t, sel = None /\ t # None, weapon)
    /\ StartAction(IF weapon = None THEN 0 ELSE 1, t, sel = None /\ t # None)
    /\ UNCHANGED <<now, phase, body, monster, weapon, selection>>

-----------------------------------------------------------------------------
(* Other reducers of the character.                                          *)

\* set_move_input, move_to, stop_moving
Move ==
    /\ phase = "idle" /\ Active
    /\ chain' = Unlinked(chain)
    /\ UNCHANGED <<now, phase, body, monster, weapon, selection, hit, until, next, touched>>

\* equip_item and unequip_item, when they change what is worn.
Equip(w) ==
    /\ phase = "idle" /\ Active /\ w # weapon
    /\ weapon' = w /\ chain' = Unlinked(chain)
    /\ UNCHANGED <<now, phase, body, monster, selection, hit, until, next, touched>>

\* A skill or a buff: an action without a target of its own.
Cast ==
    /\ phase = "idle" /\ Active /\ now >= until /\ now >= next
    /\ chain' = None /\ StartAction(0, None, FALSE)
    /\ UNCHANGED <<now, phase, body, monster, weapon, selection>>

\* charges::strike.  The damage may kill the target and others around it, and
\* every kill clears its targets; the copy of the controller made before the
\* damage is written back after it.
Strike(K) ==
    /\ phase = "idle" /\ Active /\ now >= until /\ now >= next
    /\ weapon # None /\ Live(sel)
    /\ monster' = [m \in Monster |->
                      IF m \in K THEN [alive |-> FALSE, life |-> monster[m].life]
                      ELSE monster[m]]
    /\ view' = IF sel.id \in K THEN None ELSE view
    /\ chain' = None /\ StartAction(0, None, FALSE)
    /\ UNCHANGED <<now, phase, body, weapon, sel, hold>>

\* stop_character and the death in resolve_monster_hit.
Withdraw ==
    /\ until' = 0 /\ hit' = None /\ chain' = None /\ ClearSelection
    /\ UNCHANGED <<now, phase, monster, weapon, next, touched>>

Leave == phase = "idle" /\ online /\ online' = FALSE /\ Withdraw /\ UNCHANGED alive
Die == phase = "hits" /\ Active /\ alive' = FALSE /\ Withdraw /\ UNCHANGED online

\* Fault: the time of the next change is forgotten.
EnterFault ==
    /\ phase = "idle" /\ online' = TRUE
    /\ sel' = None /\ view' = None /\ hold' = 0
    /\ chain' = None /\ hit' = Outdated(hit)
    /\ UNCHANGED <<now, phase, alive, monster, weapon, until, next, touched>>

\* enter_character, also by who is in the world already.
Enter ==
    /\ phase = "idle" /\ online' = TRUE
    /\ ClearSelection /\ chain' = None /\ hit' = Outdated(hit)
    /\ UNCHANGED <<now, phase, alive, monster, weapon, until, next, touched>>

-----------------------------------------------------------------------------
(* Monsters.                                                                 *)

\* Fault: a kill leaves the selections on the monster.
SlainFault(m) ==
    /\ monster' = [monster EXCEPT ![m].alive = FALSE]
    /\ chain' = IF chain # None /\ chain.target = Life(m) THEN None ELSE chain
    /\ UNCHANGED <<sel, view>>

\* kill_monster
Slain(m) ==
    /\ monster' = [monster EXCEPT ![m].alive = FALSE]
    /\ chain' = IF chain # None /\ chain.target = Life(m) THEN None ELSE chain
    /\ sel' = IF sel = Life(m) THEN None ELSE sel
    /\ view' = IF sel = Life(m) THEN None ELSE view

\* Somebody else's hit or skill, or this character's skill, kills.
Kill(m) ==
    /\ monster[m].alive /\ Slain(m)
    /\ hit' = IF sel = Life(m) THEN Outdated(hit) ELSE hit
    /\ UNCHANGED <<now, phase, body, weapon, hold, until, next, touched>>

Respawn(m) ==
    /\ phase = "idle" /\ ~monster[m].alive /\ monster[m].life < MaxLife
    /\ monster' = [monster EXCEPT ![m] = [alive |-> TRUE, life |-> @.life + 1]]
    /\ UNCHANGED <<now, phase, body, weapon, selection, action, touched>>

Rise ==
    /\ phase = "idle" /\ ~alive /\ alive' = TRUE
    /\ UNCHANGED <<now, phase, online, monster, weapon, selection, action, touched>>

-----------------------------------------------------------------------------
(* simulate: due hits, then due transitions.                                 *)

BeginTick ==
    /\ phase = "idle" /\ phase' = "hits"
    /\ UNCHANGED <<now, body, monster, weapon, selection, action, touched>>

HitIsDue == hit # None /\ now >= hit.at

\* take_due_player_hit and the tests of resolve_player_hit that are not about
\* positions.
Lands == now <= hit.upto /\ now <= until /\ Live(hit.target) /\ Active

TakeHit ==
    /\ phase = "hits" /\ HitIsDue /\ hit' = None
    /\ UNCHANGED <<now, phase, body, weapon, until, next, touched>>

Miss == TakeHit /\ UNCHANGED <<monster, selection, chain>>

\* Fault: the fallback follows the hit whatever the player chose since.
FallsBackFault == hit.selectable /\ sel = None /\ now >= hold

\* select_fallback_after_hit
FallsBack == hit.selectable /\ sel = None /\ hit.current /\ now >= hold

Wound ==
    /\ TakeHit /\ Lands
    /\ IF FallsBack
       THEN sel' = hit.target /\ view' = hit.target /\ hold' = now + Interval
       ELSE UNCHANGED selection
    /\ UNCHANGED <<monster, chain>>

KillTarget == TakeHit /\ Lands /\ Slain(hit.target.id) /\ UNCHANGED hold

LinkIsDue == chain.link # None /\ now > chain.link

\* Fault: a link that cannot be carried out stays queued.
TransitFault ==
    CASE chain # None /\ Expired(chain) ->
            chain' = None /\ UNCHANGED <<hit, until, next, touched>>
      [] chain # None /\ ~Expired(chain) /\ LinkIsDue /\ CanAdvance -> AdvanceChain
      [] OTHER -> UNCHANGED <<action, touched>>

\* resolve_due_transitions
Transit ==
    CASE chain # None /\ Expired(chain) ->
            chain' = None /\ UNCHANGED <<hit, until, next, touched>>
      [] chain # None /\ ~Expired(chain) /\ LinkIsDue /\ CanAdvance -> AdvanceChain
      [] chain # None /\ ~Expired(chain) /\ LinkIsDue /\ ~CanAdvance ->
            chain' = Unlinked(chain) /\ UNCHANGED <<hit, until, next, touched>>
      [] OTHER -> UNCHANGED <<action, touched>>

EndTick ==
    /\ phase = "hits" /\ ~HitIsDue /\ phase' = "idle" /\ Transit
    /\ UNCHANGED <<now, body, monster, weapon, selection>>

Tick ==
    /\ phase = "idle" /\ now < MaxTime /\ now' = now + 1
    /\ UNCHANGED <<phase, body, monster, weapon, selection, action, touched>>

Simulate == BeginTick \/ Miss \/ Wound \/ KillTarget \/ EndTick

Next ==
    \/ Simulate \/ Tick \/ Die \/ Rise \/ Enter \/ Leave
    \/ ClearTarget \/ Queue \/ DirectLink \/ Move \/ Cast
    \/ \E m \in Monster : Select(m) \/ Kill(m) \/ Respawn(m)
    \/ \E t \in {Life(m) : m \in Monster} \cup {None, sel} : Press(t)
    \/ \E w \in Weapon \cup {None} : Equip(w)
    \/ \E K \in SUBSET {m \in Monster : monster[m].alive} : Strike(K)

Spec == Init /\ [][Next]_vars

-----------------------------------------------------------------------------
(* Properties.                                                               *)

\* What the client is shown is what the server aims at, and that is a living
\* monster in the life that was chosen; death, exit and re-entry of either
\* side end it (clear_monster_targets, clear_character_target).
ShownTargetIsLive ==
    /\ view # None => view = sel /\ Live(sel)
    /\ sel # None => Active

\* docs/architecture.md:749: "Target death clears the target and future chain",
\* and :589: death and life changes of the target clear the private projection,
\* so whatever is selected lives and is shown.  The code does not keep this: a
\* strike stores the controller it read before its own kill (charges.rs:250).
SelectionIsLive == sel # None => Live(sel) /\ view = sel

\* A queued link can be carried out: it belongs to a living character with
\* the weapon the chain began with, whose target still lives and has not been
\* given up for another.  Whatever breaks that has to cancel the link or end
\* the chain, since the tick fires it without a caller.
LinkIsSound ==
    chain # None /\ chain.link # None =>
        /\ Active /\ chain.step < Last /\ chain.link = chain.start + Direct
        /\ weapon = chain.weapon /\ Related(chain, sel)

\* No attack, link or skill takes away a scheduled hit that could still land
\* (transition_to_next_step, next_attack_us).  The last instant of a window
\* rests on the data: it closes before the action and the cooldown end.
NoHitIsLost ==
    [][until' \notin {until, 0} /\ hit # None => now > hit.upto]_vars

\* A hit selects its victim only for a player who chose nothing since the
\* press (select_fallback_after_hit).
PlayersChoiceStands ==
    [][phase = "hits" /\ sel' \notin {None, sel} => ~touched]_vars

\* Clearing, dying, leaving and coming back do not shorten the wait for the
\* next change of target.
ChurnIsLimited ==
    [][hold' >= hold /\ (sel' \notin {None, sel} => now >= hold)]_vars

\* A tick leaves no link behind that was due: it is carried out or given up,
\* also when the step it leads to is refused (resolve_due_transitions).
NoLinkIsLate ==
    [][phase = "hits" /\ phase' = "idle"
       => ~(chain' # None /\ chain'.link # None /\ now > chain'.link)]_vars

\* What is aimed at is the player's: a hit does not choose over the player's
\* choice, and no detour changes the target sooner than the wait allows.
TargetIsThePlayers == PlayersChoiceStands /\ ChurnIsLimited
=============================================================================
