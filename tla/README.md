# Verification of the world server and its tools

The repository is an online role-playing world: an authoritative SpacetimeDB module in Rust (`server/src`), a Godot
client, a TypeScript account service (`auth/src`), Python tools that turn the original game's data into content and
clients (`tools`), and scripts that run and deploy it. This project models the server module, where every rule of the
game is decided, the tools of whoever operates it, and the tools between the original data and a released client. TLC
checks the models on small instances; TLAPS proves the central promises for every instance.

Paths and line numbers below are relative to the repository root; `combat.rs` without a directory is
`server/src/combat.rs`, and a `.py` file without one is in `tools`.

## How the system runs

**The server.** The module is a set of tables and reducers. A reducer is one serializable transaction: it runs alone,
and an `Err` or a panic undoes everything it wrote. Clients call reducers over connections; the host calls
`client_connected`, `client_disconnected` and, every 50 ms, `simulate` (`lib.rs:595-662`). The unit of interleaving is
therefore the reducer, and an action of these models is one reducer, or one handler inside `simulate`, with its guards,
early returns and follow-up writes. A reducer that returns `Err` is simply not enabled.

`simulate` is a sequence: world info, `mob_regeneration::maintain`, `accounts::maintain` (expired leases), the clock,
special areas and skills that come due, root motion, `combat::resolve_due_hits`, knockback, area scans, skill scans,
`combo::resolve_due_transitions`, movement, charges, buffs, `combat::simulate` (expiry, respawns, monsters,
`mob_regeneration::tick`), item effects, NPCs, quests and NPC spawns. Where the order matters a model keeps it: Combat
and Combo have a variable `phase` that shuts the client reducers out while the handlers run one after the other;
Accounts and Population make the tick a single action. What makes this code hard is that work is planned in one
transaction and carried out in a later one, on rows that may have died, respawned, left, re-entered, been stacked onto,
or been compiled against another registry in between.

**The operator's tools.** `storage_cleanup.py`, `share_server.py`, `playtest_gateway.py`, `deploy.py` and
`deploy/apply.sh` are processes beside the ones they act on. Nothing is transactional: between two of their steps a
database is published, a child exits, a connection breaks off, another deployment waits for the lock, or the tool itself
is killed. A step of these models is what happens between two points where that can be seen.

**The content tools.** Each is a program that reads files, checks them, and writes files the next one reads: archive,
tables and scripts, profile and payloads, converted models, effects, a packed client. Hard is what a reader does with a
text line by line against what the text says as a whole; what is left on disk when a tool dies between two copies; and
whether files written by different runs are still of one revision when they are packed.

## Inventory of components

| Component (source) | State | Operations | Interaction and what is hard | What makes it correct |
|---|---|---|---|---|
| Sessions, leases, control (`accounts.rs`, reducers of `lib.rs`) | `session`, `account_control` (lease), `account_state`, `account_character`, `player.online`, `controller` | connect, open, create, select, enter, leave, intents, disconnect, expiry in the tick | two connections of one account, late disconnects, leases that run out between ticks | one driver per avatar, under a lease; no eviction by someone else; an expired lease ends |
| Quest runtime (`quest.rs`, `content/profiles/classic-quests-opening.json`) | `quest_state`, `quest_objective`, `quest_selection` | login, level-up, kill, click, choose, suspend, expire | quests move one another; a question is answered minutes after it was asked; a trigger may fail half way | rewards with completion; tracker and question follow the state |
| NPC conversations (`npcs.rs`) | `npc_interaction` | interact, choose, close, expire | races the quest's own deadline | no conversation outlives its time |
| Items (`inventory.rs`, `item_security.rs`, `drops.rs`, `audit_items.py`) | `inventory_item`, `item_drop`, `inventory_state`, the audit table | move, equip, use, pick up, grants by kills, levels and quests, expiry | full bags, partial grants, stale panels, pickup races | no overlap, one weapon, conservation of quantities, a history that reconciles |
| Combat (`combat.rs`) | `player`, `controller` hit fields, `monster`, `monster_clock`, `monster_damage`, `loot` | attack, hits that fall due, deaths, respawns, loot, monsters' swings | several hits due in one late tick, deaths on both sides, lives and connections that changed since | no stale damage, one reward per life, a ledger that explains the wounds |
| Targeting (`targeting.rs`) | target fields of `controller`, `combat_target_view` | select, clear, fallback by a hit, clearing at death | the projection must follow the private row; a hit races the player's choice | what is shown is what is aimed at, and lives |
| Sword combo (`combo.rs`) | chain and link fields of `controller` | press, queued and direct links, due transitions, cancellations | a link is carried out ticks later without a caller | a link never outlives its target, weapon, life or selection |
| Population (`mob_regeneration.rs`, `regeneration.rs`, `monster_allocation.rs`, `monster_spawns.rs`) | `monster_regeneration`, its marker, `monster_spawn_group`, `monster_origin`, `monster_allocation_cursor` | initialize, reconcile, tick, destroy, respawn in place | rows outlive the build that wrote them; builds are told apart by the number of their entries; leaders and followers die in any order; an `Err` stops the world | capacity held by present leaders; the world fills up again |
| Charges, buffs, item effects (`charges.rs`, `charge_lifecycle.rs`, `player_buffs.rs`, `item_effects.rs`) | `active_charge`, `character_buff`, `item_recovery`, SP, the skill's revision and deadline | activate, strike, drink, pause, resume, maintenance in the tick | deaths, departures, re-entries and late ticks between activation and use; calls made on what was seen before | each ends with the stay, the life and the time it belongs to; nothing is paid twice |
| Skills, areas, threat, progression, movement, administration, chat (further files of `server/src`) | their own tables | see `PROJECT.json` | see "Not modelled" | |
| Storage reclamation (`storage_cleanup.py`) | the manifest; the server's entries, directories and log | `entries`, `files`, dry or with `--apply` | a directory is removed long after it was recorded; numbers are given out again | what is kept survives, the server comes back |
| Playtest session (`share_server.py`) | `session.json`, its lock, two children | install, start, stop | stops, dying children, killed launchers and second launchers at any point | one owner; no child left behind |
| Playtest gateway (`playtest_gateway.py`) | the handlers in progress | accept, handle, relay, close | either side may break off at every await; a place may be kept for good | one answer; the limit; every connection ends |
| Deployment (`deploy.py`, `deploy/apply.sh`) | images, containers, configuration, published module, Web client, recorded phase | check, stage, the ten phases, `finish` | any command may fail; several deployments at once | done or undone as a whole |
| Source archive (`metin_archive.py`) | the cache | inventory, threaded fetch with retries, resolve | half-written files, dead tools, wrong answers | only pinned content is used; the first pack wins |
| Drop tables (`metin_drops.py`, `build_drop_catalog.py`) | the catalogue of drops | read, look up, narrow, validate | nesting by braces alone; caps applied twice | rolls are those of the original tables |
| Client scripts (`content_formats.py`) | a tree of blocks | parse, read a motion, a race, an item | which block a field lands in | every line in the block whose braces are around it |
| Item catalogue (`item_definitions.py`) | the compiled rows | include, compile, validate | includes that meet or repeat; masks | every item once, worn by exactly whom the table allows |
| Profile and payloads (`content_compile.py`, `metin_root_motion.py`) | the normalised profile, the two payloads | normalise, derive, make, validate | names that collide; server and client read different halves | the chain can be played, weapons are held |
| Build and release (`content_compile.py`, `export_client.py`, `export_playable.py`) | the project's files, the release | build, reuse, stage, pack, audit, install | deaths between two copies; two builds on one disk | a release is of one build and one set of effects |
| Manifest (`export_client.py`) | the manifest | checked before, inside and after the pack | the same rules in two languages | they agree; every weapon ships whole |
| Target effects (`import_target_effects.py`, `blender_target_effects.py`, `target_effect_export.py`, `metin_effect_mesh.py`) | models, pictures, catalogue, pack | read, convert, audit, install, stage, import, pack | Blender's export may damage a model; an installation may die, or be run again while an exporter copies | what is shown is the original's frames |
| Effects of motions (`motion_effects.py`, `discover_skill_effects.py`, `resolve_skill_effects.py`, `build_motion_effect_catalog.py`) | rows, package, staged effects | discover, resolve, package, stage, each run at any time | characters replaced between two tools; shared texture names | exactly the motions of the skills, attached to bones that exist, with their own pixels |
| Godot client, account service, other content tools | outside | | | |

`PROJECT.json` lists every component with what is modelled of it, and under `hazards` what in this code is hard to reach
with a test, line by line.

## Modules

The server:

| Module | Models | Composition |
|---|---|---|
| `CharacterControl` | abstract: an avatar is driven by at most one live connection and is put down before another picks it up | refined by `Accounts` |
| `Accounts` | `accounts.rs` and the session and entry reducers | `Control == INSTANCE CharacterControl WITH ...`; `ImplementsControl` |
| `QuestCatalog`, `Quest` | the opening quests as data; the interpreter of `quest.rs` and the conversations of `npcs.rs` | `Quest` EXTENDS the catalogue |
| `Inventory` | `inventory.rs`, `item_security.rs`, `drop_items`, folded as `audit_items.py` folds it | |
| `Combat` | delayed hits, deaths, respawns, ledger and loot of `combat.rs` | |
| `Combo` | `combo.rs`, `targeting.rs` and whatever else writes those fields of a controller | |
| `Effects` | charges, buffs and potions: whatever outlives a call on one character | with `Combo` in `MCCombo`: the same character, other tables |
| `Population` | groups, capacity, corpses, hot swap | |

The operator's tools, all composed by `MCOperations`: `StorageCleanup`, `Playtest` (which binds the port of a gateway),
`Gateway`, `Deploy`.

The content tools, all composed by `MCContent`: `Archive`, `Drops`, `Scripts`, `Items`, `Profile` and `Payloads` (which
extends it), `Release`, `Manifest`, `EffectMesh` and `TargetEffects` (which extends it), `MotionEffects`; `ClientEffects`
puts the last four side by side and says what the effects of a client have to be.

Proofs: `AccountsProofs`, `CombatProofs`, `CharacterProofs` (`Quest`, `Combo` and `Effects`), `InventoryProofs`,
`PopulationProofs`, `ToolsProofs` (the four tools of the operator, and `Drops`), `ContentProofs` (the other content
tools), and `Induction` for the lemmas they share. Instances for TLC: `MC*`; in `MCContent` a module for each tool holds its inputs
(`MCEffectTools` those of both effect tools, `MCTables` those of drops and items), those of `Release` are in `MCContent` itself.

Reducers, handlers and functions keep their names where they can (`OpenAccount`, `EnterCharacter`, `PickupItemDrop`,
`Press` for `perform_attack`, `Transit` for one due transition, `InPlace` for a `destroy` that returns false); the `map`
of `PROJECT.json` gives the lines of every definition. Definitions named `...Fault` are plausible mistakes in the code
below them; putting one in the place of its original breaks the property it was written for, which shows that the
property depends on that code. They are used by no specification.

### How state corresponds to the code

- **Accounts**: one variable per table (`session`, `lease`, `state`, `roster`, `online`, `controller`); `token` is the
  expiry of a credential, `seen` the connection ids the host has handed out. A scheduled hit is represented by the
  connection that ordered it.
- **Quest**: `quest`, `tracker`, `question` (the `quest_selection` row) and `session` are rows; `granted` is history. A delivery works on a record `w`,
  as the code works inside one transaction; `w.err` is the `Err` that rolls it back, except in `on_kill` and
  `on_level_up`, which keep what was written. Deadlines are the minutes left.
- **Inventory**: `items`, `drops`, `started` are rows. The append-only audit table is kept as the offline checker folds
  it: last event of every entity, minted, burned, balance per pickup.
- **Combat**: `player`, `control`, `monster`, `clock`, `ledger`, `loot` and `purse` (the gold of a player row) are rows;
  `since`, `born`, `paid` and `struck` are history. `due` is the copied list `resolve_due_hits` walks through, `todo` the
  monsters still to visit.
- **Combo**: `sel`, `view`, `hold`, `chain`, `hit`, `until`, `next` are fields of the controller (and the projection row);
  `touched` is history.
- **Effects**: `charge`, `buff` and `recovery` are rows, `sp`, `ready_at` and `life` fields; `driver` is the connection of
  the controller, `leased` what `controller_has_active_lease` says of it. A buff keeps the ticks of its longest modifier,
  and `next` is 0 while it is paused. `queued` is a call on its way: its author, whether a charge was shown to him, and
  whether the revision it names is still the current one. `credit`, `used`, `breaks` and `healed_at` are history.
- **Population**: `row`, `group`, `origin`, `monster`, `cursor`, `marker` are rows; `installed` is the build that runs;
  `shape` is what the rows of a monster say it is (its mob, or the authored spawn with its home), which every tick
  compares with the build. The marker of the code is a text that is the same in all builds and the number of entries, so
  the model compares the numbers. Times are the ticks left. A failing `simulate` is the action `RolledBack`, which changes nothing.
- **StorageCleanup**: `attached` is the control database, `held` the replica directories, `log` the server log, `manifest`
  the file between the two commands; `tool` is the running command with what it has read, because it acts on what it read.
- **Playtest**: `step` is where `start` is, `gateway` and `tunnel` its children, `lock` and `session` the two files;
  `children` is the list the cleanup goes through, in which a child is entered one step after it was started;
  `stopper` is the launcher a stop command has verified and not yet signalled. `fate` is history: whether a launcher was
  killed, interrupted again in its cleanup ("cut"), or interrupted between starting and listing a child ("missed").
- **Gateway**: `stage` is where the coroutine of a connection is, `handlers` the registered tasks, `said` the heads that
  the player has been sent, `ended` the sides that have closed.
- **Deploy**: `phase` is what `record_phase` wrote; `image`, `container`, `runtime`, `conf`, `published`, `web`, `proxy`
  are the host; `attempt` is the backup of the deployment that last held the lock. The last commands, after which nothing is rolled
  back (`apply.sh:210-213`), are the phase "announcing".
- **Content tools**: a variable for the input (`tables`, `script`, `itemSource`, `archive`, `given`, `project`,
  `shipment`, `origin`, `work`), one for how far the tool is, and one for what it has made. A file is its content. A
  text is the sequence of its lines, a line the sequence of its tokens. Checks of a single value (a pattern, a hash, a
  finite number) are one flag of the input, "shaped", "plain" or "pinned", by name.
- **TargetEffects**: `te` is where the converter and installer is, `ex` the exporter, a process of its own; `place` is the
  directory of the client, `stage` the exporter's copy, `required` what `target_effect_requirements` returned to it. The
  editor may derive pictures from the models in `place` whenever it is open.
- **MotionEffects**: no program counter: `found`, `linked`, `package` and `shown` are the files the four tools write, and
  each tool runs whenever its input is there, on whatever characters are then installed (`current`). A tool that refuses
  its input has written nothing, which is no step. What is packaged is `rowList`, a bare list of rows that no tool of the
  repository writes (`build_motion_effect_catalog.py:118`): somebody takes the rows that were found or resolved, or
  writes others. `of` and `resolvedFor`, on the list and the package, are ghosts: no file says whose rows they are.

## Runs

A property listed under a run is often a conjunction; its conjuncts are definitions with comments of their own in the
module.

| Run | Bounds | Shows |
|---|---|---|
| `accounts_control` | one account with two characters, a guest, two connections, clock to 3 | ownership tables agree (`ControlAgreement`), hits are consumed under a lease only (`HitsUnderLease`), nobody is evicted by another connection (`NotEvicted`), the reducers implement `CharacterControl`, an expired lease ends (`ExpiredLeaseEnds`). Two connections are what a takeover needs; a credential, and with it a lease, ends at any time up to the bound, so three units hold an expiry, a takeover and its expiry |
| `quest_opening` | four quests, two dogs instead of nine, level cap 4, 13 entries per delivery instead of 64 (the fewest that are always enough, see Proofs), operator or not | `RewardsArePaid` (a main quest has paid iff it is complete, a side quest as far as its state says), `ProgressIsCurrent` (tracker and open question belong to the present state), `ExpiredIsRemoved`. The first kill that does not finish and the second that does are the two cases the counter has |
| `quest_reward_once` | the same, ordinary character | finding: a side quest pays again |
| `inventory_grid` | one character, a bag of two pages of 2x1 cells, revisions to 3, four items | `InventoryIsSound` (no overlap, within a page, one weapon), `RevisionAdvances`. Swords of height 2 and potions of height 1 make every kind of collision and page border happen |
| `inventory_ground` | two characters with full bags, two drops, four items, clock to 2 | `GoodsAreAccountedFor`: rewards are paid in full, and as long as no quest touched the stock the history is a chain, audited stock is live, and pickups and quantities balance. The clock spans reservation and expiry |
| `combat_duel` | one character, two monsters of one hit point, two connections, clock to 5 | `NoOrphanedHit`, `NoStaleDamage`, `TickSettles` (the fallen rise, scheduled swings are decided). Respawn takes one unit and a swing three, so lives change within a swing |
| `combat_raid` | two characters, one monster of three hit points, clock to 4 | `HitsAreSpaced`, `OneRewardPerLife`, `RewardsAreEarned` (gold comes from kills, the ledger explains the wounds). Symmetric in the characters; no liveness in this run |
| `combo_chain` | two monsters of two lives, one sword, three steps, clock to 6 (5 for the effects) | `ShownTargetIsLive`, `LinkIsSound`, `NoHitIsLost`, `NoLinkIsLate`, `TargetIsThePlayers` (the player's choice stands, and changes only as often as allowed). A step lasts four units, so six hold a step, a link that falls due and the next step; one hit window opens before the link and one after. Beside it, in behaviours of their own (`Effects` and `Combo` share no variable): two connections, two buffs, two lives, a second of two units, a charge of two units, buffs of two ticks. `EffectsAreSound`: a charge is used up exactly once and never in a later life; a buff runs exactly while its living owner is in the world and has paid a tick for each of its seconds, less than one per pause excepted; a recovery ends with its stay. `EffectsAreHonest`: no call uses or pays for what its author did not see, a level refills after the payment, potions act once a second. A tick has a monster's hit or a level won among its due hits, before the maintenance, or a monster's bite after it. Five units hold a charge that outlives a death or a re-entry, and the two ticks of a buff, on time or late, with a pause between them |
| `population_lifecycle` | an authored monster, an entry of pairs, one of up to two single monsters, two deaths; three builds: with both entries, with the first, with a smaller second one and neither the authored monster nor its mob | `CapacityIsHeld`; `FreezeIsExplained` (four reasons why the world stops, and no other: an entry with less room than its groups take, or disabled; a mob or an authored spawn the build does not have; a leader destroyed while its entry was not covered); `Repopulates` (no corpse and no free capacity stays for good while the world runs, but for entries that are overlooked because another build has as many). Two deaths let a leader and its follower die in both orders, with any builds published before, between and after; the two builds of one entry each are those `maintain` cannot tell apart |
| `population_swap` | two builds, one without the first entry | finding: the world stops |
| `operations_tools` | storage: three databases, one not ours and one kept, two directories, six log lines, two changing runs; playtest: two launchers of one database, each stopped, interrupted or killed at any step; gateway: two connections for one place; deployment: four releases of two databases, one exported for the wrong one | `CleanupIsSafe`, `SessionIsWhole`, `AnsweredOnce`, `ConnectionsEnd`, `DeployIsWhole`. Two directories are what it takes to give a number to somebody else; two launchers are one that leaves something behind and its successor, for which the gateway on the port answers; a limit of one makes the second connection the one refused; four releases let a failure follow a success of either database |
| `content_pipeline` | archive: three cached files in three packs, two threads, three attempts, two tools; drops: texts of up to four pieces, pairs of groups of all kinds, common rows in pairs; scripts: every arrangement of four lines and motions of three parts; items: every include graph of three documents and every set of anti-flags; profile: single changes to a warrior, a dog and two swords; release: three revisions of two geometries, four tools, one installation; manifest: single changes to a sound manifest, pack or catalogue; effects: three frames, two layers, each kind of damage | the eight properties named below |

`content_pipeline`: `DropsAreTheTables` (the reader's groups and common rows are those the text has as a whole, with
their items, counts and chances; the catalogue has every row of them whose item is registered and no other, in order and
as it was; a kill roll gives the first of these rows that it reaches), `BlocksAreBraces`, `CatalogIsSelected`, `CachedIsPinned`,
`BuildIsPlayable` (names stay apart, weapons are held, the chain can be played to its end), `ReleaseIsOneBuild`,
`ManifestIsWhole` (what the exporter accepts the engine's audit does not refuse, but for one field that is null; weapons
ship whole),
`ShippedEffectsAreWhole` (a release has one set of effects; what is shown of a target effect is the original's frame;
what is released of the motions of skills is for exactly those motions, with its times and its own pixels, and, when
the rows that were packaged are those that were resolved, with its bones). Where a tool is a function of its input, the property states the result
again from the whole input (the group a line is in is the nearest one that no brace has closed) and TLC compares the two
on every input of the instance; inputs hold every case that the code distinguishes, checked by the coverage of TLC:
no expression of these modules stays unevaluated. A behaviour of this run
exercises one tool: the 860 000 states are the sum over the tools.

Deadlock is checked except in `operations_tools` and `content_pipeline`, whose programs end. Bounds are named constants
(`MaxTime`, `MaxConn`, `MaxLife`, `MaxItem`, `MaxDrop`, `MaxKills`, `MaxLog`, `MaxRuns`, `MaxTools`, `MaxInstalls`,
`LastInstant`, `LastLife`); `MaxRevision` stands for `u32::MAX` and is not a bound but a limit the code handles. The limits of the
formats (`LevelCap`, `CountMax`, `MaxFrames`, ...) are constants of the code, given smaller values.

### Fairness

The only scheduled reducer is `simulate`; the host calls it again whatever became of the last call. So the specifications
of the server with liveness assume weak fairness of the tick, of the clock, and of nothing a client does: nobody has to
log in, press or answer. In Combat the clock is strongly fair because a long tick disables it again and again. In
Population weak fairness of `Simulate` is vacuous while `simulate` fails, and its liveness property says so; in Accounts
the tick is assumed not to fail for ever, because what makes it fail (Population, the findings) is not part of that model. In the
gateway the handler of a connection is weakly fair (the event loop resumes a coroutine that can go on; every await that
could wait for a silent peer has a timeout or ends with the other side); peers, the server and the operator are not.

## Findings

With a run:

1. `quest_reward_once` - completing `main_quest_lv1` puts `find_squareguard` back to `find` although it has paid, and it
   pays again (`quest.rs:1089`), against "Exactly-once behaviour comes from the state machine" (`quest.rs:20-22`). An
   operator's character reaches the same end another way: the pending answer of a question is applied to a quest that
   has completed since (`quest.rs:605`), and `set_state` does not refuse to leave completion.
2. `population_swap` - a leader whose corpse is destroyed while the registry does not cover its entry loses its origin
   but rises again (`mob_regeneration.rs:251`), and from then on every `simulate` fails and is rolled back, also after a
   covering build is published; `docs/development.md:2676-2680` says that corpse removal still completes. Population
   shows other ways to the same standstill, which no document denies: a build with less capacity for an entry than its
   groups take, or with the entry disabled, makes `EntryState::restore` fail in every tick; a build without the mob of a
   monster that is there, or without an authored monster (one with the original population authors none,
   `build.rs:1096`), makes `monster_spawns::resolve` fail (`FreezeIsExplained`).

Further disagreements, stated in the modules but not part of a run. Naming the definition as an INVARIANT of the
configuration in brackets, or changing the constant, makes TLC print the behaviour:

- `SelectionIsLive` (Combo, `MCCombo_chain`): a charge strike that kills the selected monster stores the copy of the
  controller it read before the kill (`charges.rs:250`): the dead life stays selected, without a projection, against
  `docs/architecture.md:749`.
- Inventory's `QuantitiesBalance` without its condition on `audit.quests` (`MCInventory_grid`): the audit row of a stack
  that a quest takes whole says its count did not change (`inventory.rs:469`), so `audit_items.py` finds stock that does
  not exist; `item_security.rs:1` calls the table a quantity history.
- `KillWeightsAreHonest` (Drops, `MCContent_pipeline`): the comment at `build_drop_catalog.py:281-284` says that dropping
  the rows of unregistered items keeps the remaining weights honest; the part of a dropped row goes to the one behind it.
  `RollsAreOriginal` therefore says which row a roll gives and nothing of how often.
- `ShippedGeometryIsCurrent` (Release, `MCContent_pipeline`): `--reuse-blender-report` is for "profile edits that cannot
  change converted geometry" (`content_compile.py:2481-2489`), but it checks that the recorded report is
  of a profile of that name (`content_compile.py:2495`), and geometry that changed in the profile ships as it was.
- `LinkIsClosed` (Playtest, `MCOperations_tools`): stopping the launcher closes its gateway and its tunnel
  (`docs/playtesting.md:57`), but the handler of SIGTERM raises `KeyboardInterrupt` wherever the launcher is
  (`share_server.py:159-162`): between `Popen` and `children.append` (`share_server.py:153-156`) the child that was just
  started is on no list, and inside the `finally` block a second stop leaves the rest of the list running.
- `AuditsAgree` without its condition on `M.adapted` (Manifest, `MCContent_pipeline`): `"adapted_motion_events": null`
  is an absent field for the exporter (`export_client.py:332-333`, `421`) and a wrong one for the engine's audit of the
  same manifest (`export_client.py:1001-1004`, `1068`).
- `DryManifests = TRUE` (StorageCleanup, `MCOperations_tools`): a dry run of `entries` given `--manifest-out` writes a
  manifest of entries that were never deleted (`storage_cleanup.py:651`), and a removal from it can take the files of a
  database that is live.
- `RuntimeBindsPublished` (Deploy, `MCOperations_tools`): the checksum of `mt2_server.wasm` on the host "binds the
  published bytes" (`docs/development.md:1917-1918`) only while one database is deployed to and no publication failed
  after it had taken effect.

## Proofs

All theorems hold for every value of the constants allowed by the named assumptions (`AccountsAssumption`, `QuestAssumption`,
`CombatAssumption`, `ComboAssumption`, `EffectsAssumption`, `InventoryAssumption`, `PopulationAssumption`,
`StorageAssumption`, `PlaytestAssumption`, `GatewayAssumption`, `DeployAssumption`, `ArchiveAssumption`,
`ReleaseAssumption`, `DropsAssumption`, `ScriptsAssumption`, `ItemsAssumption`, `ProfileAssumption`, `TargetAssumption`, `MotionAssumption`,
`ManifestAssumption`). They only say that sets are disjoint or finite, that
`None` is no member, how limits and timings are ordered, in `InventoryAssumption` what the item catalogue, the grid
and the rewards look like, in the two on effects that lists are lists, points are numbers and names are of one thing,
and in `ArchiveAssumption` and `ReleaseAssumption` that pages, contents and revisions are what their names say and
that an index is shorter than the place of a pack that is not in it (100000, `metin_archive.py:130`);
`ItemsAssumption` says that documents and tables are lists, that there is a first document and that a row has two
limits, each with a number; `ProfileAssumption` that what is declared in a list is a list, that every declared motion
file was read (the archive fetches it or fails) and that the catalogue has no identifier twice, which its validation
demands (`ItemCatalogIsSound` of Items); `ManifestAssumption` also has the server's row of the first sword carry the reviewed power, which the validation of the
payload demands (`CatalogAgrees` of Payloads). TLC evaluates them in every run. The bounds on the clock and on counters appear in guards only, so the theorems hold for every
bound. No theorem assumes a bound on the number of players, connections, monsters, items, releases or launchers.

- **Induction.** The models count and sum with the folds of the community modules, and what a fold returns is not a
  formula a first-order prover can unfold. So the module derives, once: induction over the numbers and over finite sets,
  stated for a set instead of a predicate (`SetInduction`, `SubsetInduction`); that a recursion over finite sets exists
  and is unique (`RecursionExists`, `PickInduction`); the laws of `SumFunctionOnSet` (`SumTakes`, `SumSplits`,
  `SumChanges`, ...); and two rules for folds. `FoldStays`: a set of states that contains the start and that no step
  leaves contains the result. `FoldWithinExists` is the same for a family of sets with an index for every subset already
  visited, which is what a fold needs whose result depends on how much has been taken.
- **AccountsProofs.** `TypeCorrect` first. `ControlAgreement` is not inductive: that two connections never drive one
  avatar rests on the fact that a connection id is handed out once (`Live(c) => c \in seen`), that an account in the
  world has its character online, that an avatar out of the world is disarmed, and that a scheduled hit belongs to the
  present driver. `Inv` is their conjunction, `InvStep` its preservation with one step per reducer, and the lemmas
  `StopStep`, `StopAll` and `EnterStep` collect what leaving and entering do, which six reducers and the tick share.
  `NotEvicted`, `HitsUnderLease` and the refinement `ImplementsControl` (every step is a step of `CharacterControl` or a
  stutter) follow from `Inv`.
- **CombatProofs.** `TypeCorrect`, then the invariant `Inv`: the history variables agree with the rows, every scheduled
  hit of a character (`BlowHolds`) and of a monster (`SwingHolds`) was begun in the present life and the present visit
  of its source, and a monster has paid for exactly the lives it has lost (`PaidHolds`). `NoOrphanedHit` alone is not
  inductive: it does not say since when the victim stands. `OneRewardPerLife` follows at once, `NoStaleDamage` because a
  hit that is taken off its row in this step was begun when both sides already stood. `Earned` is a second invariant,
  for `RewardsAreEarned` and `HitsAreSpaced`: the gold on the ground and in the purses is that of the paid lives, the
  ledger of a living monster adds up to its wounds (both by the laws of sums in `Induction`), and a monster that was
  just hit is shielded until a shield later (`SpacedHolds`).
- **CharacterProofs, quests.** `RewardsArePaid`, and `ProgressIsCurrent` in two halves, `QuestionIsCurrent` and the
  objective row (below), for the opening quests as the catalogue has them, whatever the number of dogs, the level cap, and the number of
  entries one delivery may run. A delivery is a fold over passes of a fold over quests of a fold over triggers of a fold
  over operations; each fold has a lemma that follows a family of sets from stage to stage (`RunWithin`,
  `DrainWithin`, `DeliveryWithin`, `AllDeliveredWithin`, `PassesWithin`), and every level of the interpreter then has
  one fact: it goes from `Works` to `Works`, or it fails (`Failed`). Most triggers only speak and move
  (`HarmlessDelivery`); those that pay are followed operation by operation (`PayingGoesOn`: a main quest that is paying
  has paid the kinds so far and none of the others), because a delivery that fails half way has paid some of what it
  owes, and only the reducer's rollback makes that harmless. That logins, level-ups and kills never fail
  (`QuietOutcome`) is what allows `on_kill` and `on_level_up` to ignore their errors. Neither property is inductive
  without `AskedNow`: the answer to the square guard's question pays and moves the quest without looking at its state,
  so it has to be known that a question that is still open belongs to the state `find`. `MainPaid` is conditional on
  the character not being an operator, as the property is.
  The objective row is a second invariant (`AtRest`), under the hypothesis that a delivery may run thirteen entries:
  the code allows 64 (`MAX_STATE_ENTERS`, `quest.rs:40`), and an entry beyond the last that may run is lost with the
  objective it should have set up or put away. Thirteen is derived, not guessed: a turn of a quest queues at most
  `Turn(q)` entries, because the moves of every list of operations are at its end (`Short`) and a turn that counts or
  asks moves once per trigger; the four turns make twelve (`AllTurns`), and one entry, the message that opens the first
  quest, moves on from within itself and makes one more (`Left`). Within a delivery the row may lag behind its state;
  `Follows` says how far: either it is that of its state (`Clean`), or the entry that will make it so is in the queue
  (`Pending`), and whoever hunts is short of the total, so that the entry does not put up an objective that is already
  reached. Each entry that runs leaves fewer to run (`DrainStep`), and when none is left `Follows` is `Clean`. In
  the hunt's own turn the triggers are tried one after the other on rows that an earlier one may have moved on, so the
  lemmas about it follow both cases (`Hunting`).
- **CharacterProofs, combo.** `ComboInv` is `TypeOK`, `ShownTargetIsLive`, `LinkIsSound` and `HitOfChain` (the hit of a
  running chain aims at the chain's target), which the fallback selection by a hit needs. The action properties of the
  run follow: `NoLinkIsLate` from that invariant, `TargetIsThePlayers` with the deadlines and holds that a step leaves
  behind (`Timed`), `NoHitIsLost` where the window of a hit closes before the cooldown of its action ends, as it does in
  the timings of the game (`combat.rs:1775-1779`); then a new action, which needs the cooldown to be over, cannot find a
  hit that is still open (`Closes`).
- **CharacterProofs, effects.** Three inductive invariants, each resting on the one before. `EffectsInv` has types,
  `ChargeIsOwed`, `BuffsArePaused` and `RecoveryIsOfThisStay`; it is where the order of the tick matters (charges before
  respawns, potions after hits). `PacedInv` counts: settling the due ticks leaves the difference between the time used
  and the ticks paid as it was, because the seconds of those ticks are exactly those between the two deadlines
  (`TicksAreSeconds`, `SettledInPace`), and a pause gives up less than the second it stops (`PausedInPace`); that a next
  tick is never more than a second away is needed for it and is not part of `BuffsArePaced`. `CallsAreCurrent` (a call
  that was made on a charge and is still current finds one) and `StepsAreApart` carry the rest of `EffectsAreHonest`. So
  both properties of the run are theorems (`EffectsSound`, `EffectsHonest`), for every length of a second, every policy
  and any number of buffs.
- **InventoryProofs.** `InventoryInv` joins the rows of the bags (in the grid, no two in one cell, one weapon in a
  hand), the rows on the ground, and the history of both. Neither property of the runs is inductive by itself: that the
  offline checker is content with the next event needs that the last event of every row names its present count
  (`Matches`), that the history is not ahead of a revision (`Aged`) and that what was minted is held, on the ground or
  burned (`Balanced`); that a revision is new needs that ids are taken from a counter. A grant is a fold over the stacks
  of a bag that tops them up and opens new ones; `Grants(n, v, c, d, m)` is the set of states its transaction may pass
  through when part of `n` is placed, and each step stays inside. The same is done for what a full bag spills
  (`Spills`), for what expires in a tick (`Cleared`) and for what a quest takes (`Collected`). The weapon swap is the
  one reducer that changes two rows whose cells depend on one another (`Swapped`).
- **PopulationProofs.** `CapacityIsHeld` says that leaders hold capacity; preserving it needs the converse as well: what
  has lost its origin still holds capacity (`StraysHold`), an origin leads to a group that covers it (`OriginsResolve`),
  and ids are given out in order, so that the groups of one tick neither overlap nor reach back (`IdsAreOrdered`,
  `IdsAreCovered`, about the sums that place them). `FreezeIsExplained` follows: each way in which `simulate` fails is
  traced to a build that lacks or limits something, or to an owner token whose monster has no origin any more.
- **ToolsProofs, storage.** `CleanupIsSafe` under the assumption `~DryManifests`. The log names the newest owner of
  every directory (`WorldHolds`), and whatever is on a manifest was seen detached and is in the log, so it is never
  attached again (`Gone`): between the two commands anything may be published, and this is what remains true. With
  `--force` directories are removed while the server listens (`storage_cleanup.py:706-711`), and one that was given to a
  new database after the run read the log goes with them: the theorem excepts exactly that (`Overtaken`). Without the
  assumption the theorem is false: see the findings.
- **ToolsProofs, playtest.** `SessionIsWhole` for any number of launchers, interrupted anywhere. The strengthening says
  what a launcher has started, and what of it is on its list, by the step it is at (`Processes`), and that the lock and
  the record are those of the one launcher alive (`Owns`, from which `OneIsLive`). What a launcher may leave behind
  depends on its fate: nothing, if it went through its cleanup with every child on its list; the one child that was not
  yet on it, if it was interrupted there ("missed"); anything, if it was killed or interrupted in its cleanup.
- **ToolsProofs, gateway.** `AnsweredOnce` is not inductive: that no step adds a second head needs that a handler
  still inside its exchange has said nothing (`Answers`), because `Fails` writes an error in exactly those stages. The
  limit of handlers is counted with the theorems on finite sets (`Bounded`). Each lemma on an action reduces it to one
  of three shapes: it fails, it goes on in silence, or it answers and leaves.
- **ToolsProofs, deployment.** `DeployIsWhole` for any number of releases and databases. `UnderWay(r, p)` says of
  each phase what of the host is already the new release's and what is still the backup's; a failing command is then
  seen to lead to the old host or to the standing one, and `HostWhole` (a container runs the image of its tag) is what a
  backup has to have for it to be worth restoring. A failure of the last two commands, when the new Web client already
  stays, leaves the whole new release in service under the phase "failed"; `FailureRestores` says so.
- **ToolsProofs, drop tables.** `DropsAreTheTables` for any text of lines (`DropsAssumption` only says that a text is a
  list of lines and that the limits are numbers). The reader has a stack of groups and skips the lines of a list at once;
  the property finds the owner of a line by counting braces in the whole text. Three invariants, one for each question.
  `TextInv`, while lines are read: the groups there are, in order, stand for the headings up to the last line that was
  read; each has the parent, the keys and the values the text gives it up to there (`ReadUpto`); and the stack holds
  exactly the headings that are still open, each with the balance of braces its place in the stack says (`StackHolds`).
  What a line adds to a balance is counted with the lemmas on finite sets; that one step over a list passes exactly the
  lines that `InList` says are in it is an induction over the lines. `GroupsInv`, while groups are read: the monsters and
  rows of the corpus are those of the text up to the heading of the last group read (`GroupsAreRead`); headings that are
  no child of the global group, are skipped, or come second for a monster add nothing, and the rows of merged groups are
  joined in the order of the text. `CommonInv` is the same for the common rows of each rank. `RollsInv`, until the catalogue is installed: what is
  kept of a list of rows is each registered one in order (`KeepsItems`, with the places they came from), and running
  percentages never fall, so that a roll finds the same first row among those kept as among the registered of all. The proof found that the model lacked the builder's check of
  `kill_drop` (`build_drop_catalog.py:447-453`): without it the reader's own test, which only refuses zero, lets a
  negative weight pass, and `RollsAreOriginal` does not follow. `GroupCompiles` has the check now, and the instance
  texts with such weights.
- **ContentProofs, archive.** `CachedIsPinned` for any inventory, cache, network and number of threads. `IsSettled`: a
  path that was asked for is queued, or some thread has it, or its file is what the inventory names, or the fetch is
  going to fail; `KnowsIts`: a thread that checks holds what is in the cache, unless another is writing it. No step uses
  that a path is fetched by one thread only. For precedence, `KeepsFirst` derives by induction what registering pack
  after pack without replacement leaves under a name, and `FirstWins` that this is what the ranks of the resolver choose
  (`FirstPackWins`).
- **ContentProofs, scripts.** `BlocksAreBraces` for any text of lines (`ScriptsAssumption` only says that a script is a
  list of lines). The property is about the whole text and the reader has a stack, so the invariant (`ScriptsInv`) is
  about the text up to the next line: the braces that are open there are the stack, from the outermost inwards, what a
  block was given so far are the lines said inside its braces so far, and a block that was left never changes again.
  The depth of a line is a count of braces and the place of a block a rank among the lines that open one, so what a line
  changes of either is counted with the lemmas on finite sets (`BracesGrow`, `BracesShrink`, `NumbersAreDistinct`).
- **ContentProofs, items.** `CatalogIsSelected` for any documents and tables. The property speaks of the least set of
  documents that is closed under inclusion, the reader walks a chain, so the invariant (`Gathered`) says that what was
  visited is in every closed set, and that each document but the one in hand has given its rows and named a document
  already visited: when the chain ends, what was visited is closed itself and therefore the least such set. Sorting by
  vnum is by ranks, and ranks are a bijection of the places (`PlacesAreOwn`), so it neither loses nor repeats a row
  (`SortingKeeps`). The compiled items are held against the selected rows place by place (`Compiling`); validation
  makes the vnums ascend strictly, so no row is there twice. A mask is a sum over the flags, and each of its bits is the
  absence of the one flag of that weight.
- **ContentProofs, profile and payloads.** `BuildIsPlayable` for any profile, client and table. `MotionsHold`: each
  normalised motion is that of the variant in its place, and none is there before all identifiers and names were
  compared. `HeldHold`: no item is held twice, although the written ones and the derived ones come from two places.
  `ServerHolds`: every action of the server is that of one motion; `ClientHolds`: the client has every motion as it is
  and every held item with the power of the weapon of its identifier. A check of the tools that counts ("as many values
  as entries") is turned into what it is for ("no two alike") by `DistinctAreApart`, a selection by a condition into
  places of the list it was taken from by `KeptAreThePlaces`. That as many items are shown as there are weapons is a
  bijection between the two.
- **ContentProofs, release.** `ReleaseIsOneBuild` and `EffectsAreTheirs` for any profile, models and number of tools.
  What a manifest or the record of a conversion says is of one geometry (`Recorded`); what the builder is about to
  record (`BuilderHolds`), what the exporter has staged (`ExporterHolds`) and the pack that is there (`PackHolds`)
  follow from it step by step. That no exporter runs beside a builder is part of the model (see "Not modelled").
- **ContentProofs, target effects.** `ShownIsConverted` for any frames, points, pinned geometries and layers, whatever
  Blender's export did to the models. The audit finds a geometry by the name of a material; that names are of one
  geometry (an assumption, which the pinned table meets) makes it the right one (`AuditShowsFrames`), and
  `OneFrameIsShown` computes the sum the engine forms of the base and the weighed targets, with the lemmas on sums of
  `Induction`: it is the base at the start and at the end of the loop and the one target's frame between. For the pack:
  what is installed is a complete copy or a truncated one (`InstalledHolds`), what an exporter copies is, too, and once
  it has held the copies against the catalogue they are complete (`StageHolds`), although the installer goes on.
- **ContentProofs, effects of motions.** `MotionEffectsAreWhole` for any motions, models, candidates and catalogues. The
  invariant says of each of the four files what it holds for the characters it was made for; it does not mention when
  the tools ran, which is why re-runs and replaced characters cannot break it. Of a package whose rows somebody wrote by
  hand it holds what the packager itself checks: skills, times and pixels. Assumed: inventory and rows are lists, and the
  original's names for textures are not names of packaged files (these are `assets/` and a digest).
- **ContentProofs, manifest.** `ManifestIsWhole` for any shipment. The invariant is that what the exporter accepted and
  what the engine's audit has seen so far stays true (`ManifestInv`); the work is in showing that the two lists of checks
  ask for the same. Where the two languages write a check in another way it is defined twice (waves, hair, the list of
  adapted events), and `FieldsAgree` shows that what the one accepts the other does. The exporter compares a set of paths and the length of a list where the audit looks at every place;
  that the two agree is counting: the places of the artifacts and the expected paths are in bijection
  (`ArtifactsAreCounted`), so every path has one place, and with `Once` every item has one row.
- **ContentProofs, both.** `ShippedEffectsAreWhole` of the three tools together, as a conjunction of their
  specifications: they share no variable, and each takes its steps whatever the others do.

Only model-checked: liveness (`TickSettles`, `ExpiredLeaseEnds`, `ExpiredIsRemoved`, `Repopulates`, `ConnectionsEnd`),
which rests on fairness and ENABLED. Every invariant and every other action property of a passing run is proved.

## Hazards no property covers

`stop_character` panics when pausing buffs fails, and in `client_disconnected` nobody catches it (`accounts.rs:449`);
`on_kill` and `on_level_up` drop the `Err` of a delivery without undoing what it wrote (`quest.rs:552`; Quest models it,
no property forbids it); a quest armed by a login is set back by the completion of another (`quest.rs:1075`); the experience of a kill is divided in f32
(`combat.rs:992`); textures of an actor are extracted from models beside whatever an earlier build left
(`content_compile.py:1778`); and a motion-effect package names the revision of the characters it was built beside, not of
those it was resolved for (`build_motion_effect_catalog.py:191`), nor whether its rows were resolved at all (`:66`, `:118`),
which `AttachmentsAreReal` therefore takes as its conditions.

## Not modelled, and why

Server: positions, sweeps, collision, knockback and root motion are floating-point geometry over compiled map data: a
model has "in reach" or "not" at every test, decided anew each time. Damage formulas, drops and group placement are
random draws, taken as any value of a set. Of charges and buffs the speed and the bonuses they give, the public copies of
their rows, and the cooldown of a buff are left out; of other skills their events and areas. Threat tables, the arithmetic
of experience and administrators' commands have models neither of their own nor as part of another: Combat lets a monster
pick any living character, Inventory lets a potion be refused, Combo knows of a cast and of a strike what they do to the
chain. Dialogue, names, appearance and projections that are rewritten together with the rows they show
are left out. Chat is one capped table nothing depends on.

Outside the server: the account service only signs credentials; a credential's expiry is an input of Accounts. The client
is outside the trust boundary: every reducer may be called at any time. Of the tools that are modelled: two processes that
fetch into one cache at once; an exporter that runs while a builder does, the archive of a release that is made last, the
audit of monsters and the packs of maps; whether the two languages of the manifest's checks agree on the form of a
single value; a removal of a directory that breaks off half way; in the gateway a connection that was accepted but whose handler has not begun
when the gateway closes; the packaging of a client for a playtest; the formats of particles; the rendered previews. A
sword's row has the power that the manifest demands because the payload's validation says so (Payloads); an actor
without motions passes the exporter's checks but not the engine's audit, which is why `PackedAsTheyAre` excludes it. The
remaining content tools convert single formats (maps, interface, navigation, NPCs, skills, quests): mostly parsing and
layout.

## Plan

Done, in this order: Accounts with its abstraction; Quest; Inventory; Combat; Combo; Population; the operator's tools;
the content tools; Effects; and the proofs of all of these, besides what "Only model-checked" lists.

What would come next:

1. **Areas**: fixed skill areas and the combo's special area: a life is hit once per event and cooldown.
2. **Aggro**: threat rows and retained victims, as a refinement of Combat's free choice of a victim.
