------------------------------- MODULE Profile -------------------------------
(* What a content profile declares, checked against the original client and  *)
(* normalised: one motion per declared file, and one presentation per item   *)
(* that a character can hold.                                                *)
(*                                                                           *)
(* Source: tools/content_compile.py up to compile_normalized, and            *)
(* tools/metin_root_motion.py.  The files are verified before (Archive), the *)
(* scripts read (Scripts) and the items compiled (Items).  An identifier is  *)
(* the sequence of its words and separators.  The checks of one value, such  *)
(* as a pattern, a hash or a finite number, are the flag "shaped".           *)
EXTENDS Integers, Sequences, SequencesExt, FiniteSets, FiniteSetsExt

CONSTANTS
    Profiles,       \* what may be compiled: [profile, client, server, items]
    PlayerId, DogId \* PLAYER_ACTOR_ID and MOB_ACTOR_ID

\* The elements of a list that stand at these places, in their order.
Kept(s, places) ==
    [i \in 1 .. Cardinality(places) |->
       s[CHOOSE p \in places : Cardinality({q \in places : q <= p}) = i]]

Distinct(s) == Cardinality(Range(s)) = Len(s)
Each(s, Op(_)) == [i \in DOMAIN s |-> Op(s[i])]
IdOf(x) == x.id
OutputOf(x) == x.output
ActionOf(x) == x.action

\* What is declared in a list is a list, so are the windows of a motion, every
\* declared file was read, and the catalogue was validated (Items).
ASSUME ProfileAssumption ==
    /\ PlayerId \in Seq(STRING)
    /\ \A g \in Profiles :
         LET Lists(x) == x \in Seq(Range(x))
         IN /\ Lists(g.items) /\ Distinct(Each(g.items, IdOf))
            /\ Lists(g.profile.actors) /\ Lists(g.profile.items)
            /\ \A actor \in Range(g.profile.actors) :
                 /\ Lists(actor.modes)
                 /\ \A mode \in Range(actor.modes) :
                      /\ Lists(mode.motions)
                      /\ \A m \in Range(mode.motions) :
                           /\ Lists(m.files)
                           /\ Range(m.files) \subseteq DOMAIN g.client.motions
            /\ \A f \in DOMAIN g.client.motions :
                 Lists(g.client.motions[f].windows)

VARIABLES
    given,      \* the profile, the client and server files, the catalogue
    built,      \* how far it is
    motions,    \* the motions normalised so far
    held        \* the items normalised so far

profileVars == <<given, built, motions, held>>

Profile == given.profile
Client == given.client
Server == given.server

ProfileStart == built = "loading" /\ motions = <<>> /\ held = <<>>

ProfileInit == given \in Profiles /\ ProfileStart

Becomes(s) == built' = s /\ UNCHANGED given
RefuseProfile == Becomes("refused") /\ UNCHANGED <<motions, held>>
Unless(sound, s) == /\ Becomes(IF sound THEN s ELSE "refused")
                    /\ UNCHANGED <<motions, held>>

-----------------------------------------------------------------------------
(* load_profile *)

Dot == <<".">>
VariantName == <<"v1", "v2", "v3">>

\* One file alone has no variant in its name.
ActionId(actor, mode, motion, v) ==
    actor.id \o Dot \o mode.id \o Dot \o motion.action
      \o (IF Len(motion.files) = 1 THEN <<>> ELSE Dot \o <<VariantName[v]>>)

\* Every run of characters other than letters, digits and "_" becomes one
\* "_", and those at the ends go.
GodotName(id) ==
    LET Other(i) == id[i] \in {".", "-"}
        runs == Kept([i \in DOMAIN id |-> IF Other(i) THEN "_" ELSE id[i]],
                     {i \in DOMAIN id :
                        i > 1 /\ Other(i) => ~Other(i - 1)})
        words == {i \in DOMAIN runs : runs[i] # "_"}
    IN SubSeq(runs, Min(words), Max(words))

Weights(m) ==
    IF m.weights = <<>> /\ Len(m.files) = 1 THEN <<100>> ELSE m.weights

WeightsAreSound(m) ==
    /\ Weights(m) # <<>> /\ Len(Weights(m)) = Len(m.files)
    /\ \A w \in Range(Weights(m)) : w > 0
    /\ FoldSeq(+, 0, Weights(m)) = 100

\* All the declared files, in the order they are declared.
VariantsOf(actor, mode, motion) ==
    [v \in DOMAIN motion.files |->
       [id |-> ActionId(actor, mode, motion, v), actor |-> actor.id,
        mode |-> mode.id, action |-> motion.action, variant |-> v,
        weight |-> Weights(motion)[v], file |-> motion.files[v]]]
OfMode(actor, mode) ==
    FlattenSeq([k \in DOMAIN mode.motions |->
                  VariantsOf(actor, mode, mode.motions[k])])
OfActor(actor) ==
    FlattenSeq([m \in DOMAIN actor.modes |-> OfMode(actor, actor.modes[m])])
AllVariants ==
    FlattenSeq([a \in DOMAIN Profile.actors |-> OfActor(Profile.actors[a])])
NameOf(v) == GodotName(v.id)

ActorIsSound(actor) ==
    /\ Distinct(Each(actor.modes, IdOf))
    /\ \A mode \in Range(actor.modes) :
         /\ Distinct(Each(mode.motions, ActionOf))
         /\ \A m \in Range(mode.motions) : WeightsAreSound(m)

NamesAreDistinctFault == Distinct(Each(AllVariants, IdOf))

NamesAreDistinct == Distinct(Each(AllVariants, NameOf))

\* The fixed damage of older profiles is no longer allowed.
ProfileIsSound ==
    LET entries == Profile.actors \o Profile.items
    IN /\ Profile.shaped /\ Profile.legacy = {}
       /\ Distinct(Each(entries, IdOf)) /\ Distinct(Each(entries, OutputOf))
       /\ \A actor \in Range(Profile.actors) : ActorIsSound(actor)
       /\ Distinct(Each(AllVariants, IdOf)) /\ NamesAreDistinct

LoadProfile == built = "loading" /\ Unless(ProfileIsSound, "checking")

-----------------------------------------------------------------------------
(* _validate_catalogs and _selected_progression *)

ActorsOf(kind) ==
    Kept(Profile.actors, {a \in DOMAIN Profile.actors :
                            Profile.actors[a].kind = kind})
FilesOf(actor) == {v.file : v \in {w \in Range(AllVariants) :
                                     w.actor = actor.id}}

\* The lines of a vnum.
FirstOf(rows, v) == Kept(rows, {r \in DOMAIN rows : rows[r].vnum = v})

RaceSelects(actor) == Client.races[actor.race].model = actor.model

CatalogsAreSound ==
    LET dog == ActorsOf("mob")[1]
        warrior == ActorsOf("player")[1]
        lines == FirstOf(Client.npclist, dog.vnum)
    IN /\ lines # <<>> /\ lines[1].key = dog.key
       /\ Client.registered
       /\ RaceSelects(warrior) /\ RaceSelects(dog)
       /\ warrior.hair \in Client.races[warrior.race].hair
       /\ warrior.hair.index = 0
       /\ FilesOf(dog) \subseteq Client.listed

\* Both potions have to be what the rewards are meant to be.
ProgressionIsSound ==
    LET dogs == FirstOf(Server.mobs, 101)
        row(v) == Last(FirstOf(Server.items, v))
    IN /\ Profile.progression = "reviewed" /\ Server.stacks = 200
       /\ dogs # <<>> /\ dogs[1].level = 1 /\ dogs[1].experience = 15
       /\ \A v \in {27001, 27002} :
            /\ FirstOf(Server.items, v) # <<>>
            /\ row(v).kind = "potion" /\ row(v).stackable
            /\ Server.names[v] = "reviewed"

CheckCatalogs ==
    /\ built = "checking"
    /\ Unless(ActorsOf("mob") # <<>> /\ ActorsOf("player") # <<>>
                /\ CatalogsAreSound /\ ProgressionIsSound, "moving")

-----------------------------------------------------------------------------
(* _normalise_motions and extract_root_motion.  A point is <<x, z>>.         *)

\* A half turn, or none.
Turned(point, yaw) ==
    IF yaw = 180 THEN [i \in 1 .. 2 |-> -point[i]] ELSE point

Tolerance == 0
Differ(p, q) == \E i \in 1 .. 2 : p[i] - q[i] \notin -Tolerance .. Tolerance

ComboIds == [n \in 1 .. 4 |-> PlayerId \o Dot \o <<"onehand">> \o Dot
                                \o <<"combo", "_", <<"1", "2", "3", "4">>[n]>>]

\* What the script and the animation of the last strike say differs, and is
\* accepted as exactly these two.
TerminalRaw == <<0, 12>>
TerminalScript == <<-1, -11>>

\* The turn of the animation's end is fixed; that of the script's is the
\* actor's, and the two have to be the same.
RootMotionOf(id, parsed, yaw) ==
    [action |-> id, length |-> parsed.raw.length, pinned |-> parsed.raw.pinned,
     end |-> Turned(parsed.raw.end, 180), script |-> Turned(parsed.end, yaw)]

RootIsSound(root) ==
    IF root.action = ComboIds[4]
    THEN root.end = Turned(TerminalRaw, 180) /\ root.script = TerminalScript
    ELSE ~Differ(root.end, root.script)

RootMotionIsSound(id, parsed, yaw) ==
    id \in Range(ComboIds) =>
      /\ parsed.raw.pinned /\ parsed.raw.length = parsed.length /\ yaw = 180
      /\ RootIsSound(RootMotionOf(id, parsed, yaw))

ActorNamed(id) == CHOOSE a \in Range(Profile.actors) : a.id = id

NormaliseMotion ==
    /\ built = "moving"
    /\ IF Len(motions) = Len(AllVariants)
       THEN Becomes("holding") /\ UNCHANGED <<motions, held>>
       ELSE LET next == AllVariants[Len(motions) + 1]
                parsed == Client.motions[next.file]
                yaw == ActorNamed(next.actor).yaw
            IN IF parsed.is = "refused"
                    \/ ~RootMotionIsSound(next.id, parsed, yaw)
               THEN RefuseProfile
               ELSE /\ motions' = Append(motions,
                         [id |-> next.id, actor |-> next.actor,
                          mode |-> next.mode, action |-> next.action,
                          name |-> GodotName(next.id),
                          length |-> parsed.length, windows |-> parsed.windows,
                          areas |-> parsed.areas, combo |-> parsed.combo,
                          waves |-> parsed.waves,
                          root |-> IF next.id \notin Range(ComboIds) THEN <<>>
                                   ELSE <<RootMotionOf(next.id, parsed,
                                                       yaw)>>])
                    /\ UNCHANGED <<given, built, held>>

-----------------------------------------------------------------------------
(* _normalise_items and _derived_equipped_items *)

ItemIsSelected(item) ==
    LET script == Client.scripts[item.id]
    IN script.model = item.model /\ script.drop = item.model

AsHeld(item) == [id |-> item.id, vnum |-> item.vnum, mode |-> item.mode,
                 model |-> item.model, output |-> item.output]

NormaliseItems ==
    /\ built = "holding"
    /\ IF \E i \in Range(Profile.items) : ~ItemIsSelected(i)
       THEN RefuseProfile
       ELSE /\ Becomes("deriving") /\ UNCHANGED motions
            /\ held' = Each(Profile.items, AsHeld)

\* The items of the wanted kinds that nobody has written by hand.
ToDerive ==
    IF Profile.derived = <<>> THEN <<>>
    ELSE Kept(given.items, {r \in DOMAIN given.items :
           /\ given.items[r].kind \in Profile.derived[1].kinds
           /\ given.items[r].id \notin {i.id : i \in Range(Profile.items)}})

ListedFor(v) == FirstOf(Client.itemList, v)
ModelOf(v) == LET line == ListedFor(v)[1]
              IN IF line.columns = 4 THEN line.model ELSE "none"

DerivedIsSound(r) ==
    /\ Len(ListedFor(r.vnum)) = 1 /\ ListedFor(r.vnum)[1].columns \in {3, 4}
    /\ ModelOf(r.vnum) \in Client.models
    /\ r.class \in DOMAIN Profile.derived[1].modes
    /\ <<"items">> \o r.id \notin {i.output : i \in Range(held)}

AsDerived(r) ==
    [id |-> r.id, vnum |-> r.vnum, mode |-> Profile.derived[1].modes[r.class],
     model |-> ModelOf(r.vnum), output |-> <<"items">> \o r.id]

DeriveItems ==
    /\ built = "deriving"
    /\ IF \E r \in Range(ToDerive) : ~DerivedIsSound(r) THEN RefuseProfile
       ELSE /\ Becomes("normalised") /\ UNCHANGED motions
            /\ held' = held \o Each(ToDerive, AsDerived)

ProfileNext == \/ LoadProfile \/ CheckCatalogs \/ NormaliseMotion
               \/ NormaliseItems \/ DeriveItems

-----------------------------------------------------------------------------
\* No two motions of what was normalised have the same name in the engine,
\* whatever their actors, modes and actions are called.
NamesStayApart ==
    \A i, j \in DOMAIN motions :
      i # j => motions[i].name # motions[j].name
=============================================================================
