----------------------------- MODULE Population -----------------------------
(* Who lives in the world: allocation of monster groups, the capacity of the *)
(* regeneration entries, removal of corpses and the hot swap of the module.  *)
(*                                                                           *)
(* Source: server/src/mob_regeneration.rs, regeneration.rs,                  *)
(* monster_allocation.rs and monster_spawns.rs, with the monster loop of     *)
(* combat::simulate.  An entry of the registry holds capacity for a number   *)
(* of groups; a group is spawned by its entry, the first member leads it and *)
(* holds the capacity until its corpse is destroyed; followers outlive their *)
(* leader.  The rows stay in the database when another build of the module,  *)
(* with another registry, is published over them.  A monster keeps what it    *)
(* was when it was placed, and every tick compares that with the build.      *)
(*                                                                           *)
(* Times are kept as the ticks left until they are due.  simulate is one     *)
(* transaction: if any part of it fails nothing of it happened.              *)
(* A Mob is all that a build says of a species: two builds that give a vnum  *)
(* another level have two.  Left out: where a member is placed (a placement  *)
(* finds room for some of a group's members, or none), the training group of *)
(* entry 0 (it respawns in place, as authored monsters do), the fixtures of  *)
(* the tests and exhausted ids.                                              *)
EXTENDS Integers, FiniteSetsExt, Functions

CONSTANTS
    Build,      \* the builds of the module that may be published
    Registry,   \* REGENERATION_DEFINITIONS of a build: entry -> definition
    Spawns,     \* MONSTER_SPAWNS of a build: id -> the monster and its home
    Mobs,       \* MOB_DEFINITIONS of a build: the mobs it has
    CorpseTime, \* ticks from death to the removal of the corpse
    MaxJitter,  \* startup_jitter_max_seconds
    MaxKills,   \* bound: deaths
    NoBuild,    \* the marker before initialize
    Watched     \* ids whose corpses Repopulates follows

Entry == UNION {DOMAIN Registry[b] : b \in Build}
Mob == UNION {Mobs[b] : b \in Build}
Spawn == UNION {Range(Spawns[b]) : b \in Build}
Definition == [interval : Nat, capacity : Nat, sizes : SUBSET Nat, mobs : SUBSET Mob]

ASSUME PopulationAssumption ==
    /\ NoBuild \notin Build
    /\ \A b \in Build :
          /\ Registry[b] \in [DOMAIN Registry[b] -> Definition]
          /\ \A e \in DOMAIN Registry[b] :
                Registry[b][e].mobs # {} /\ Registry[b][e].mobs \subseteq Mobs[b]
          /\ Spawns[b] \in [DOMAIN Spawns[b] -> Spawn]
          /\ DOMAIN Spawns[b] \subseteq Nat \ {0} /\ IsFiniteSet(DOMAIN Spawns[b])
    /\ Entry \subseteq Nat \ {0} /\ IsFiniteSet(Entry)
    /\ CorpseTime \in Nat \ {0} /\ MaxJitter \in Nat
    /\ MaxKills \in Nat /\ Watched \subseteq Nat

VARIABLES
    installed,  \* the build that runs
    marker,     \* monster_regeneration_registry: the build that wrote it
    cursor,     \* monster_allocation_cursor.last_issued
    row,        \* monster_regeneration: entry -> row
    group,      \* monster_spawn_group: owner (the id of the leader) -> row
    origin,     \* monster_origin: id -> group_owner, 0 if authored
    monster,    \* monster: id -> whether it lives, ticks until respawn_at_us
    shape,      \* id -> what its rows say it is: a mob, or a spawn if authored
    kills

tables == <<marker, cursor, row, group, origin, monster, shape>>
vars == <<installed, tables, kills>>

Row == [initial : BOOLEAN, wait : Nat, owners : SUBSET Nat, last : Nat]
Fresh == [initial |-> TRUE, wait |-> 0, owners |-> {}, last |-> 0]
Alive == [alive |-> TRUE, wait |-> 0]

TypeOK ==
    /\ installed \in Build /\ marker \in Build \cup {NoBuild}
    /\ cursor \in Nat /\ kills \in 0..MaxKills
    /\ DOMAIN row \subseteq Entry /\ row \in [DOMAIN row -> Row]
    /\ DOMAIN group \subseteq 1..cursor
    /\ group \in [DOMAIN group -> [entry : Entry, last : 1..cursor]]
    /\ DOMAIN monster \subseteq 1..cursor
    /\ monster \in [DOMAIN monster -> [alive : BOOLEAN, wait : 0..CorpseTime]]
    /\ DOMAIN origin \subseteq DOMAIN monster
    /\ origin \in [DOMAIN origin -> 0..cursor]
    /\ shape \in [DOMAIN monster -> Mob \cup Spawn]

\* The database of a module that has not been initialized.
Init ==
    /\ installed \in Build /\ marker = NoBuild /\ cursor = 0 /\ kills = 0
    /\ row = << >> /\ group = << >> /\ origin = << >> /\ monster = << >>
    /\ shape = << >>

-----------------------------------------------------------------------------
Defined == DOMAIN Registry[installed]       \* is_resolvable
Def(e) == Registry[installed][e]
Corpse(m) == ~ monster[m].alive

\* The build has the monster as it is: the same mob, or the very spawn.
Authors(m) == m \in DOMAIN Spawns[installed] /\ shape[m] = Spawns[installed][m]
Knows(m) == IF origin[m] = 0 THEN Authors(m) ELSE shape[m] \in Mobs[installed]

\* validate_monster: the monster has an origin, its group still exists and
\* covers it, and the installed build has it as it is.
Resolves(m) ==
    /\ m \in DOMAIN origin /\ Knows(m)
    /\ origin[m] # 0 => origin[m] \in DOMAIN group /\ m \in origin[m]..group[origin[m]].last

\* EntryState::restore accepts the saved row under the installed definition.
Restores(e) ==
    /\ Cardinality(row[e].owners) <= Def(e).capacity
    /\ \A o \in row[e].owners : o # 0 /\ o <= row[e].last
    /\ row[e].initial \/ Def(e).interval # 0

\* destroy finds that the leader holds no capacity it could release.
HoldsNothing(m) ==
    LET e == group[m].entry
    IN  m \in DOMAIN group /\ e \in Defined \cap DOMAIN row /\ m \notin row[e].owners

\* A corpse whose time is up.
Due(m) == Corpse(m) /\ monster[m].wait = 0

\* What makes simulate return an error, and so roll back.
SimulateFails ==
    \/ \E m \in DOMAIN monster : ~ Resolves(m) \/ (Due(m) /\ HoldsNothing(m))
    \/ \E e \in Defined \cap DOMAIN row : ~ Restores(e)

\* Fault: only initialize makes rows.
TopUpFault == row

\* maintain tells builds apart by the number of their entries: the text of the
\* receipt that it compares as well says no more than that.
Reconciled == Cardinality(DOMAIN Registry[marker]) = Cardinality(Defined)

\* maintain: entries the database has no row for start pending.
TopUp ==
    IF Reconciled THEN row
    ELSE [e \in Defined \cup DOMAIN row |-> IF e \in DOMAIN row THEN row[e] ELSE Fresh]

\* destroy returns false: combat::simulate lets the monster rise again in place.
\* Without a row or a definition of its entry a leader has nothing to release.
InPlace(m, rows) ==
    \/ origin[m] = 0
    \/ LET e == group[origin[m]].entry
       IN  e \notin DOMAIN rows \/ (m = origin[m] /\ e \notin Defined)


\* Fault: the origin stays behind.
OriginsWithoutFault(D) == origin

\* destroy of the corpses D: all but the authored ones lose their origin.
OriginsWithout(D) == Restrict(origin, {m \in DOMAIN origin : m \notin D \/ origin[m] = 0})

\* The members of a group that still have an origin among origins.
Members(g, origins) == {m \in DOMAIN origins : origins[m] = g}

\* Fault: the leader's death deletes its group.
GroupsWithoutFault(gone, origins) == Restrict(group, DOMAIN group \ gone)

\* destroy deletes a group with the last of its members.
GroupsWithout(gone, origins) ==
    Restrict(group, {g \in DOMAIN group :
        \/ gone \cap (g..group[g].last) = {}
        \/ Members(g, origins) # {}})

\* Fault: any member releases a unit of capacity.
ReleasedFault(rows, gone) ==
    [e \in DOMAIN rows |->
        [rows[e] EXCEPT !.owners = {o \in @ : gone \cap (o..group[o].last) = {}}]]

\* owner_destroyed, for the leaders among the destroyed.
Released(rows, gone) == [e \in DOMAIN rows |-> [rows[e] EXCEPT !.owners = @ \ gone]]

-----------------------------------------------------------------------------
(* mob_regeneration::tick, entry after entry; Ticks are the ones due.        *)
Ticks(rows) ==
    {e \in Defined \cap DOMAIN rows :
        Def(e).interval > 0 /\ (rows[e].initial \/ rows[e].wait = 0)}

\* plan_tick: as many attempts as there is free capacity.
Attempts(e, rows) == Def(e).capacity - Cardinality(rows[e].owners)

\* The attempts of a tick, in the order they are made.
Slots(rows) == UNION {{e} \X (1..Attempts(e, rows)) : e \in Ticks(rows)}
Earlier(s, t) == s[1] < t[1] \/ (s[1] = t[1] /\ s[2] < t[2])

\* What the placements find room for: a number of members per attempt.
Placements(slots) ==
    {size \in [slots -> UNION {Def(s[1]).sizes : s \in slots}] :
        \A s \in slots : size[s] \in Def(s[1]).sizes}

\* The startup jitter, for the entries that have not started.
Jitters(rows) ==
    {jitter \in [Ticks(rows) -> 0..MaxJitter] :
        \A e \in Ticks(rows) : rows[e].initial \/ jitter[e] = 0}

\* A row after its tick: the owners of the groups placed, the next deadline.
Planned(r, e, jitter, placed) ==
    [initial |-> FALSE,
     wait |-> Def(e).interval + jitter,
     owners |-> r.owners \cup placed,
     last |-> Max(placed \cup {r.last})]

\* reserve: consecutive ids after the cursor c, for one placement after another.
Placed(size) == {s \in DOMAIN size : size[s] > 0}
FirstId(c, size) ==
    [s \in Placed(size) |->
        c + 1 + SumFunctionOnSet(size, {t \in Placed(size) : Earlier(t, s)})]
LastIssued(c, size) == c + SumFunctionOnSet(size, Placed(size))
SlotOf(c, size, first) ==
    [id \in (c + 1)..LastIssued(c, size) |->
        CHOOSE s \in Placed(size) : id \in first[s]..(first[s] + size[s] - 1)]

\* The rows of a table with the inserted ones.
Inserted(table, new) ==
    [x \in DOMAIN table \cup DOMAIN new |-> IF x \in DOMAIN table THEN table[x] ELSE new[x]]

\* The members of the groups that are placed: mobs of their entries.
Kinds(slot) ==
    {kind \in [DOMAIN slot -> Mobs[installed]] :
        \A id \in DOMAIN slot : kind[id] \in Def(slot[id][1]).mobs}

\* reserve and allocate_group for each placement, after the cursor c.
Populate(c, rows, groups, origins, monsters, shapes) ==
    \E size \in Placements(Slots(rows)), jitter \in Jitters(rows) :
      LET first == FirstId(c, size)
          slot == SlotOf(c, size, first)
      IN  /\ cursor' = LastIssued(c, size)
          /\ \E kind \in Kinds(slot) : shape' = Inserted(shapes, kind)
          /\ row' = [e \in DOMAIN rows |->
                IF e \in Ticks(rows)
                THEN Planned(rows[e], e, jitter[e],
                             {first[s] : s \in {t \in Placed(size) : t[1] = e}})
                ELSE rows[e]]
          /\ group' = Inserted(groups, [g \in Range(first) |->
                [entry |-> slot[g][1], last |-> g + size[slot[g]] - 1]])
          /\ origin' = Inserted(origins, [id \in DOMAIN slot |-> first[slot[id]]])
          /\ monster' = Inserted(monsters, [id \in DOMAIN slot |-> Alive])

-----------------------------------------------------------------------------
\* initialize, when the database is created.
Authored == DOMAIN Spawns[installed]
Initialize ==
    /\ marker = NoBuild /\ marker' = installed
    /\ Populate(Max({0} \cup Authored), [e \in Defined |-> Fresh], << >>,
                [m \in Authored |-> 0], [m \in Authored |-> Alive], Spawns[installed])
    /\ UNCHANGED <<installed, kills>>

\* Another build of the module is published over the same database.
Publish(b) ==
    /\ marker # NoBuild /\ b # installed
    /\ installed' = b /\ UNCHANGED <<tables, kills>>

\* simulate: maintain, the hits of this tick (killed), then combat::simulate,
\* which removes due corpses and ends with mob_regeneration::tick.
Simulate ==
    /\ marker # NoBuild /\ ~ SimulateFails
    /\ LET rows == TopUp
           due == {m \in DOMAIN monster : Due(m)}
           gone == {m \in due : ~ InPlace(m, rows)}
           origins == OriginsWithout(due)
           left == Released(rows, gone)
           groups == GroupsWithout(gone, origins)
       IN \E killed \in SUBSET {m \in DOMAIN monster : monster[m].alive} :
            /\ kills' = kills + Cardinality(killed) /\ kills' <= MaxKills
            /\ marker' = IF Reconciled THEN marker ELSE installed
            /\ Populate(cursor, left, groups, origins,
                 [m \in DOMAIN monster \ gone |->
                    IF m \in killed THEN [alive |-> FALSE, wait |-> CorpseTime]
                    ELSE IF m \in due THEN Alive ELSE monster[m]],
                 Restrict(shape, DOMAIN monster \ gone))
    /\ UNCHANGED installed

\* A simulate that fails is rolled back, and tried again at the next tick.
RolledBack == marker # NoBuild /\ SimulateFails /\ UNCHANGED vars

\* The time of a tick passes, whether or not simulate succeeds.
Later(n) == IF n > 0 THEN n - 1 ELSE 0
Elapse ==
    /\ row' = [e \in DOMAIN row |-> [row[e] EXCEPT !.wait = Later(@)]]
    /\ monster' = [m \in DOMAIN monster |-> [monster[m] EXCEPT !.wait = Later(@)]]
    /\ UNCHANGED <<installed, marker, cursor, group, origin, shape, kills>>

Next == Initialize \/ (\E b \in Build : Publish(b)) \/ Simulate \/ RolledBack \/ Elapse

\* simulate is scheduled every 50 ms, whatever became of the last one.
Spec == Init /\ [][Next]_vars /\ WF_vars(Initialize) /\ WF_vars(Simulate) /\ WF_vars(Elapse)

-----------------------------------------------------------------------------
(* Capacity is accounted for across deaths, survivors and hot swaps: every   *)
(* unit of it is held by a leader whose monster is still there, alive or as  *)
(* a corpse, every leader holds its own, and owner tokens only ever grow.    *)
LeadersHoldCapacity ==
    /\ \A e \in DOMAIN row :
          row[e].owners \subseteq DOMAIN monster /\ row[e].last <= cursor
    /\ \A g \in DOMAIN group :
          g \in DOMAIN monster <=> g \in row[group[g].entry].owners

(* The saved tables are well formed and account for all capacity.            *)
CapacityIsHeld == TypeOK /\ LeadersHoldCapacity

\* What makes the installed registry unfit for a row that it covers.
Outgrown(e) ==
    \/ Cardinality(row[e].owners) > Def(e).capacity
    \/ Def(e).interval = 0 /\ ~ row[e].initial

(* The world only stops when the installed registry has less room for an     *)
(* entry than its groups take, when the installed build lacks a monster that *)
(* is there (the mob of an allocated one, the spawn of an authored one: a    *)
(* build with the original population authors none), or once a leader was    *)
(* destroyed while the registry did not cover its entry.  Survivors, lost    *)
(* groups, ids and entries that come and go with the builds never stop it.   *)
FreezeIsExplained ==
    SimulateFails =>
        \/ \E e \in Defined \cap DOMAIN row : Outgrown(e)
        \/ \E m \in DOMAIN origin : ~ Knows(m)
        \/ \E e \in DOMAIN row, m \in DOMAIN monster \ DOMAIN origin : m \in row[e].owners

\* The entry has an enabled definition that always places its group, and room.
HasRoom(e) ==
    /\ e \in Defined /\ Def(e).interval > 0 /\ 0 \notin Def(e).sizes
    /\ e \notin DOMAIN row \/ Cardinality(row[e].owners) < Def(e).capacity

\* The registry covers the entry, but the build that wrote the marker did not
\* and has as many entries: maintain sees no difference and makes no row.
Overlooked(e) ==
    /\ marker # NoBuild /\ Reconciled
    /\ e \in Defined \ DOMAIN row /\ e \notin DOMAIN Registry[marker]

(* While the world runs no corpse stays for good and no capacity of an entry *)
(* the registry covers stays free for good, also that of entries which an    *)
(* earlier build did not have, unless that build has as many entries as the  *)
(* installed one: an entry overlooked so stays empty until the number of     *)
(* entries changes.                                                          *)
Repopulates ==
    /\ \A m \in Watched : []<>(SimulateFails \/ m \notin DOMAIN monster \/ ~ Corpse(m))
    /\ \A e \in Entry : []<>(SimulateFails \/ ~ HasRoom(e) \/ Overlooked(e))

(* docs/development.md:2676-2680 says of builds whose registry no longer     *)
(* covers an entry that corpse removal still completes and that the tick     *)
(* skips the entry: simulate never fails on them.                            *)
WorldKeepsRunning == ~ SimulateFails
=============================================================================
