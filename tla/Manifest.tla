------------------------------- MODULE Manifest -------------------------------
(* What the manifest of a client may say, checked three times: by the        *)
(* exporter before it starts, then in the engine, out of the pack, with the  *)
(* models that were packed, and with the paths of what was packed.           *)
(*                                                                           *)
(* Source: tools/export_client.py, the audit_pack.gd that it writes          *)
(* included.  What one value must be by itself is the flag "shaped", for both *)
(* languages: whether they agree on it is not looked at.  Fields that are    *)
(* not of the schema, anywhere, are the flag "unknown": the lists of their   *)
(* names are the same twenty in both.  Where the two write a check in another *)
(* way, it is defined twice: hair is "absent", "whole", "float" or "other";  *)
(* a wave "none", "exact", "loose" (its values as numbers of other types) or *)
(* "wrong"; the list of adapted events "absent", "null", "event" or "other". *)
EXTENDS Integers, Sequences, SequencesExt, FiniteSetsExt

CONSTANTS
    Shipments,  \* [manifest, source, server, model, catalogues, paths, probe,
                \*  maps]
    WarriorId, DogMob, FirstSword,  \* P1_WARRIOR_ACTOR_ID, ...
    FixedPath,  \* P1_ARTIFACTS: [warrior, dog, sword]
    ItemPaths,  \* the paths that a model of an item may have
    SwordPower, \* P1_SWORD_PHYSICAL
    LastStrike  \* P1_COMBO4_ACTION_ID

IsList(s) == Len(s) \in Nat /\ DOMAIN s = 1 .. Len(s)

\* The catalogue of the server gives the first sword the power that is
\* reviewed (CatalogAgrees of Payloads).
ASSUME ManifestAssumption ==
    /\ FixedPath.warrior # FixedPath.dog
    /\ FixedPath.sword \notin {FixedPath.warrior, FixedPath.dog}
    /\ \A s \in Shipments :
         /\ IsList(s.manifest.artifacts) /\ IsList(s.manifest.actors)
         /\ IsList(s.manifest.items) /\ IsList(s.manifest.rows)
         /\ \A k \in DOMAIN s.server.rows :
              LET r == s.server.rows[k]
              IN r.id = FirstSword /\ r.kind = "weapon"
                   => r.power = SwordPower

VARIABLES
    shipment,
    looked      \* "manifest", "fields", "models", ..., "shipped", "refused"

shipmentVars == <<shipment, looked>>

M == shipment.manifest

ManifestStart == looked = "manifest"
ManifestInit == shipment \in Shipments /\ ManifestStart

Looks(sound, next) ==
    /\ looked' = IF sound THEN next ELSE "refused"
    /\ UNCHANGED shipment

-----------------------------------------------------------------------------
(* validate_p1_presentation_fields *)

\* Where a motion has a wave: the numbers of the actor and of its motion.
Waves == UNION {{k} \X {l \in DOMAIN M.actors[k].motions :
                          M.actors[k].motions[l].wave # "none"} :
                k \in DOMAIN M.actors}
WaveAt(w) == M.actors[w[1]].motions[w[2]]
WavesAreOne == \A v, w \in Waves : v = w

\* The one event that is adapted is there when a motion has its wave: at most
\* one, and only the last strike.  A null says that there is none.
WaveIsSound ==
    /\ M.adapted \in {"absent", "null", "event"}
    /\ \A w \in Waves : WaveAt(w).action = LastStrike /\ WaveAt(w).wave = "exact"
    /\ (M.adapted = "event") = (Waves # {}) /\ WavesAreOne

HairIsSound == \A a \in Range(M.actors) :
                 a.hair = IF a.id = WarriorId THEN "whole" ELSE "absent"
SocketsAreSound == \A a \in Range(M.actors) :
    a.id # WarriorId => a.sockets = {}

RowsFor(item) ==
    {k \in DOMAIN M.rows : /\ M.rows[k].id = item.id
                           /\ M.rows[k].vnum = item.vnum
                           /\ M.rows[k].kind = "weapon"}

PowerIsRegisteredFault(item) ==
    IF item.id = FirstSword THEN item.power = SwordPower
    ELSE Cardinality(RowsFor(item)) = 1

\* A weapon has the power of its one row of the catalogue.
PowerIsRegistered(item) ==
    IF item.id = FirstSword THEN item.power = SwordPower
    ELSE /\ Cardinality(RowsFor(item)) = 1
         /\ \A k \in RowsFor(item) : M.rows[k].class \in {"sword", "fan"}
                                      /\ item.power = M.rows[k].power

FieldsAreSound ==
    /\ ~M.unknown /\ WaveIsSound /\ HairIsSound /\ SocketsAreSound
    /\ \A item \in Range(M.items) : PowerIsRegistered(item)

-----------------------------------------------------------------------------
(* validate_p1_manifest and p1_profile_requirements *)

\* No two of the places have the same.
Once(places, Of(_)) == \A k, l \in places : Of(k) = Of(l) => k = l

WithId(s, id) == {x \in Range(s) : x.id = id}
ArtifactAt(path) == CHOOSE a \in Range(M.artifacts) : a.path = path
Artifacts == {a.path : a \in Range(M.artifacts)}

Fixed == {FixedPath.warrior, FixedPath.dog, FixedPath.sword}
OtherItems == {k \in DOMAIN M.items : M.items[k].id # FirstSword}
PathOfItem(k) == M.items[k].model.path
ArtifactPath(k) == M.artifacts[k].path
Expected == Fixed \cup {PathOfItem(k) : k \in OtherItems}

\* Exactly the models of the actors, of the sword and of the weapons, each of
\* a path of its own.
ArtifactsAreExact ==
    /\ Once(DOMAIN M.artifacts, ArtifactPath)
    /\ Once(OtherItems, PathOfItem)
    /\ \A k \in OtherItems : PathOfItem(k) \in ItemPaths \ Fixed
    /\ Artifacts = Expected

RefersTo(x, path) ==
    x.model = [path |-> path, artifact |-> ArtifactAt(path).id]

CountsAreSound ==
    /\ ArtifactAt(FixedPath.warrior).meshes = 4
    /\ ArtifactAt(FixedPath.warrior).textured = 4
    /\ \A p \in {FixedPath.warrior, FixedPath.dog} : ArtifactAt(p).bones > 0

ActorIsThere(id, number, path) ==
    /\ WithId(M.actors, id) # {}
    /\ \A a \in WithId(M.actors, id) :
         a.number = number /\ a.forward = "-Z" /\ RefersTo(a, path)

ItemId(k) == M.items[k].id
ActorId(k) == M.actors[k].id

ItemsAreOnceFault == TRUE

ItemsAreOnce == Once(DOMAIN M.items, ItemId)

EveryWeaponIsShown ==
    \A r \in Range(M.rows) : r.kind = "weapon" =>
      \E i \in Range(M.items) : i.id = r.id /\ i.vnum = r.vnum

ManifestIsSound ==
    /\ M.shaped /\ FieldsAreSound /\ ArtifactsAreExact
    /\ \A k \in OtherItems : RefersTo(M.items[k], PathOfItem(k))
    /\ CountsAreSound /\ Once(DOMAIN M.actors, ActorId) /\ ItemsAreOnce
    /\ ActorIsThere(WarriorId, 0, FixedPath.warrior)
    /\ ActorIsThere(DogMob, 101, FixedPath.dog)
    /\ EveryWeaponIsShown /\ WithId(M.items, FirstSword) # {}
    /\ \A sword \in WithId(M.items, FirstSword) :
         sword.vnum = 10 /\ RefersTo(sword, FixedPath.sword)

\* What is in the project is what the manifest names, and its rules are the
\* server's.
RequirementsAreMet ==
    /\ \A p \in Expected : /\ p \in DOMAIN shipment.source
                            /\ shipment.source[p] = ArtifactAt(p).sha
    /\ shipment.server.gameplay = M.gameplay
    /\ shipment.server.rows = M.rows

Preflight == looked = "manifest"
               /\ Looks(ManifestIsSound /\ RequirementsAreMet, "fields")

-----------------------------------------------------------------------------
(* audit_pack.gd: validate_presentation_fields, audit_p1_profile,            *)
(* verify_actor_metadata and has_required_entities                           *)

\* The engine asks whether the field is there, so that a null is an event that
\* is not one, and takes a number of any type.
PackedWaveIsSound ==
    /\ M.adapted \in {"absent", "event"}
    /\ \A w \in Waves :
         WaveAt(w).action = LastStrike /\ WaveAt(w).wave \in {"exact", "loose"}
    /\ (M.adapted # "absent") = (\E w \in Waves : Waves = {w}) /\ WavesAreOne

PackedHairIsSound == \A a \in Range(M.actors) :
    a.hair \in IF a.id = WarriorId THEN {"whole", "float"} ELSE {"absent"}

\* Sockets and powers are compared as before the export.
PackedFieldsAreSound ==
    /\ ~M.unknown /\ PackedWaveIsSound /\ PackedHairIsSound /\ SocketsAreSound
    /\ \A item \in Range(M.items) : PowerIsRegistered(item)

AuditFields == looked = "fields" /\ Looks(PackedFieldsAreSound, "models")

\* The first actor that has the model.
ActorsWith(artifact) ==
    {k \in DOMAIN M.actors : M.actors[k].model.artifact = artifact.id}
ActorOf(artifact) == M.actors[Min(ActorsWith(artifact))]

\* Every motion that is declared is an animation of the packed model, and
\* every socket one of its bones.
ActorIsWhole(actor, model) ==
    /\ actor.motions # <<>>
    /\ {m.clip : m \in Range(actor.motions)} \subseteq model.clips
    /\ actor.sockets \subseteq model.bones

ModelIsWhole(path) ==
    LET artifact == ArtifactAt(path)
        model == shipment.model[path]
    IN /\ path \in DOMAIN shipment.model
       /\ model.meshes = artifact.meshes /\ model.textured = artifact.textured
       /\ Cardinality(model.bones) = artifact.bones
       /\ path = FixedPath.warrior => model.meshes = 4 /\ model.textured = 4
       /\ path \in {FixedPath.warrior, FixedPath.dog} =>
            /\ model.skinned > 0 /\ ActorsWith(artifact) # {}
            /\ ActorIsWhole(ActorOf(artifact), model)

PackedPathsAreExact ==
    /\ Once(DOMAIN M.artifacts, ArtifactPath)
    /\ Once(OtherItems, PathOfItem)
    /\ \A k \in OtherItems : PathOfItem(k) \in ItemPaths \ Fixed
    /\ Cardinality(OtherItems) + 3 = Len(M.artifacts)
    /\ Expected \subseteq Artifacts

AuditModels ==
    /\ looked = "models"
    /\ Looks(PackedPathsAreExact /\ \A p \in Expected : ModelIsWhole(p),
             "entities")

ItemRefersToItsOwn(i) ==
    /\ i.model.path \in Artifacts
    /\ ArtifactAt(i.model.path).id = i.model.artifact

IsActor(x, id, number, path) ==
    /\ x.id = id /\ x.number = number
    /\ x.model.artifact = ArtifactAt(path).id

Shows(row) == \E i \in Range(M.items) : i.id = row.id /\ i.vnum = row.vnum

EntitiesAreThere ==
    /\ Once(DOMAIN M.items, ItemId)
    /\ \A i \in Range(M.items) : ItemRefersToItsOwn(i)
    /\ \A r \in Range(M.rows) : r.kind = "weapon" => Shows(r)
    /\ \E a \in Range(M.actors) : IsActor(a, WarriorId, 0, FixedPath.warrior)
    /\ \E a \in Range(M.actors) : IsActor(a, DogMob, 101, FixedPath.dog)
    /\ \E i \in Range(M.items) :
         /\ i.id = FirstSword /\ i.vnum = 10 /\ i.power = SwordPower
         /\ i.model.artifact = ArtifactAt(FixedPath.sword).id

AuditEntities == looked = "entities" /\ Looks(EntitiesAreThere, "catalogues")

-----------------------------------------------------------------------------
(* audit_npcs, audit_characters and audit_authored                           *)

AllSkinned(model) == /\ model.meshes > 0 /\ model.skinned = model.meshes
                     /\ model.textured = model.meshes

NpcIsWhole(npc) ==
    LET model == shipment.model[npc.path]
    IN /\ npc.path \in DOMAIN shipment.model /\ AllSkinned(model)
       /\ npc.clips \subseteq model.clips
       /\ npc.still => model.clips = {}
CharacterIsWhole(c) ==
    LET model == shipment.model[c.path]
    IN /\ c.path \in DOMAIN shipment.model /\ AllSkinned(model)
       /\ c.sockets \subseteq model.bones
       /\ {m.clip : m \in Range(c.motions)} \subseteq model.clips
TargetIsWhole(t) ==
    LET model == shipment.model[t.path]
    IN /\ t.path \in DOMAIN shipment.model /\ model.meshes > 0
       /\ ActorIsWhole(t, model)

\* Each is the catalogue that was expected, but only that of NPCs may be
\* missing.
CataloguesAreWhole ==
    LET c == shipment.catalogues
    IN /\ c.npcs.is = c.npcs.expected
       /\ \A n \in c.npcs.of : NpcIsWhole(n)
       /\ \A k \in {"characters", "targets"} :
            c[k].is = c[k].expected /\ c[k].is # "none"
       /\ Cardinality(c.characters.of) = 8
       /\ \A a \in c.characters.of : CharacterIsWhole(a)
       /\ \A t \in c.targets.of : TargetIsWhole(t)

AuditCatalogues == looked = "catalogues" /\ Looks(CataloguesAreWhole, "paths")

\* validate_pack_paths: nothing of the developers' or of the sources', a probe
\* only in a client for tests, and all the maps that were asked for.
AuditPaths ==
    /\ looked = "paths"
    /\ Looks(/\ "private" \notin shipment.paths
             /\ ("probe" \in shipment.paths) = shipment.probe
             /\ shipment.maps \subseteq shipment.paths, "shipped")

ManifestNext == \/ Preflight \/ AuditFields \/ AuditModels \/ AuditEntities
                \/ AuditCatalogues \/ AuditPaths

ManifestSpec == ManifestInit /\ [][ManifestNext]_shipmentVars

-----------------------------------------------------------------------------
\* A manifest that is accepted before the export is not refused after it by
\* the checks in the engine, when its models were packed as they are: what the
\* exporter asks of waves, hair, paths, models and entities implies what the
\* engine asks of them in its own way.  But the two disagree on a list of
\* adapted events that is null: the exporter takes it for an absent one, the
\* engine refuses it (export_client.py:332-333 and 421, 1001-1004 and 1068).
PackedAsTheyAre ==
    /\ \A a \in Range(M.actors) : a.motions # <<>>
    /\ \A a \in Range(M.artifacts) :
         LET model == shipment.model[a.path]
         IN /\ a.path \in DOMAIN shipment.model
            /\ model.meshes = a.meshes /\ model.textured = a.textured
            /\ Cardinality(model.bones) = a.bones /\ model.skinned > 0
            /\ \A k \in ActorsWith(a) : ActorIsWhole(M.actors[k], model)
AuditsAgree ==
    looked = "fields" /\ PackedAsTheyAre /\ M.adapted # "null"
      => PackedFieldsAreSound /\ PackedPathsAreExact /\ EntitiesAreThere
           /\ \A p \in Expected : ModelIsWhole(p)

\* In a client that ships, each weapon of the catalogue is in the hand of one
\* item, with a packed model that no other item has and with the power that
\* the server strikes with.
WeaponsShipWhole ==
    looked = "shipped" =>
      \A r \in {x \in Range(M.rows) : x.kind = "weapon"} :
        LET mine == {k \in DOMAIN M.items : M.items[k].vnum = r.vnum
                                              /\ M.items[k].id = r.id}
        IN /\ Cardinality(mine) = 1
           /\ \A k \in mine :
                /\ M.items[k].power = r.power
                /\ M.items[k].model.path \in DOMAIN shipment.model
                /\ \A other \in DOMAIN M.items \ {k} :
                     M.items[other].model.path # M.items[k].model.path

\* The checks agree, but on that null, and together they let no weapon be missing.
ManifestIsWhole == AuditsAgree /\ WeaponsShipWhole
=============================================================================
