---------------------------- MODULE MotionEffects ----------------------------
(* The effects that the motions of skills show: found in the motions of the  *)
(* original client, attached to bones that its models and the converted ones *)
(* have, packaged with their particles, meshes and textures, and staged      *)
(* beside the characters and skills of a release.  Each step is a tool of    *)
(* its own, which may be run again, and the converted characters may be      *)
(* replaced between any two; the list that is packaged no tool writes, but   *)
(* somebody does.  A tool that refuses its input writes nothing, which here  *)
(* is no step.                                                               *)
(*                                                                           *)
(* Source: tools/motion_effects.py, discover_skill_effects.py,               *)
(* resolve_skill_effects.py, build_motion_effect_catalog.py and              *)
(* export_playable.py.  A catalogue is its place in the list of those that   *)
(* there are, which stands for its digest; a picture is its pixels.          *)
EXTENDS Integers, Sequences, SequencesExt, FiniteSets

CONSTANTS
    EffectWorks,    \* what there is to make a package of, see below
    MaxPerMotion    \* effects of one motion

\* The inventory is a list, and so are the rows that somebody writes; the names
\* that the original client has for textures are not those of packaged files.
ASSUME MotionAssumption ==
    \A w \in EffectWorks :
      /\ \A rows \in {w.inventory} \cup w.written :
           Len(rows) \in Nat /\ DOMAIN rows = 1 .. Len(rows)
      /\ \A c, d \in ToSet(w.candidates) : DOMAIN c.textures \cap d.meshes = {}

VARIABLES
    work,       \* the files that the tools are given: the inventory of skills
                \* with their motions, the bones of the original models, the
                \* candidates, the catalogues of skills and of characters,
                \* and lists of rows written by hand
    current,    \* which characters are installed in the client
    found,      \* what Discover wrote, or NoFile
    linked,     \* what ResolveBones wrote, or NoFile
    rowList,    \* the list of rows to be packaged, or NoFile: with whose they
                \* are and for which characters (0: for none), which no file says
    package,    \* what PackageEffects wrote, or NoFile
    shown       \* what a release has, or NoFile

motionVars == <<work, current, found, linked, rowList, package, shown>>

NoFile == [is |-> "nothing"]

MotionStart ==
    /\ current = 1 /\ found = NoFile /\ linked = NoFile
    /\ rowList = NoFile /\ package = NoFile /\ shown = NoFile

MotionInit == work \in EffectWorks /\ MotionStart

Characters == work.characters[current]

\* The converter installs other characters, from models with other bones.
ReplaceCharacters ==
    /\ current' \in DOMAIN work.characters
    /\ UNCHANGED <<work, found, linked, rowList, package, shown>>

-----------------------------------------------------------------------------
(* motion_effect: what one event of a motion asks for.  plain: its fields    *)
(* are those of an effect, with a path and a position within their bounds.   *)

ShowIsSound(event, duration) ==
    /\ event.plain /\ event.at = event.start /\ 0 <= event.start
    /\ event.start <= duration /\ event.bone # ""

Attachment(event) ==
    IF event.independent THEN "capture_root"
    ELSE IF ~event.attaching THEN "follow_root"
    ELSE IF event.following THEN "follow_bone" ELSE "capture_bone"

ToBone(attachment) == attachment \in {"follow_bone", "capture_bone"}

MotionEffect(event) ==
    [event |-> event.name, start |-> event.start, path |-> event.path,
     attachment |-> Attachment(event), enabled |-> TRUE,
     bone |-> IF ToBone(Attachment(event)) THEN event.bone ELSE ""]

ShowEvents(clip) == SelectSeq(clip.events, LAMBDA e : e.type = 1)

Rejected == [rejected |-> TRUE]

\* extract: an event that is not understood is listed as rejected.
Extract(clip) ==
    [i \in DOMAIN ShowEvents(clip) |->
       IF ShowIsSound(ShowEvents(clip)[i], clip.duration)
       THEN MotionEffect(ShowEvents(clip)[i]) ELSE Rejected]

\* A row for each skill and each appearance of its class.
Discover ==
    /\ \A i, j \in DOMAIN work.inventory :
         work.inventory[i].action = work.inventory[j].action => i = j
    /\ found' = [is |-> "inventory",
                 effects |-> [i \in DOMAIN work.inventory |->
                                Extract(work.inventory[i].clip)]]
    /\ UNCHANGED <<work, current, linked, rowList, package, shown>>

-----------------------------------------------------------------------------
(* resolve_skill_effects                                                     *)

\* joint_names: only joints of the skin count as bones, each with its name.
JointsAreSound(joints) ==
    joints # <<>> /\ IsInjective(joints) /\ "" \notin ToSet(joints)

AttachmentIsThereFault(effect, source, converted) ==
    ToBone(effect.attachment) =>
      (effect.bone \notin source => effect.bone \notin converted)

\* A bone is in both models or in none.
AttachmentIsThere(effect, source, converted) ==
    ToBone(effect.attachment) =>
      (effect.bone \in source <=> effect.bone \in converted)

\* A bone that the original model does not have: to follow it is to follow
\* the root, and what is placed at it once is not shown.
ResolveAttachment(effect, source) ==
    IF ~ToBone(effect.attachment) \/ effect.bone \in source THEN effect
    ELSE IF effect.attachment = "follow_bone"
    THEN [effect EXCEPT !.attachment = "follow_root", !.bone = ""]
    ELSE [effect EXCEPT !.enabled = FALSE]

SourceBones(i) == ToSet(work.source[work.inventory[i].actor])

RowIsResolvable(i) ==
    LET actor == work.inventory[i].actor
    IN /\ actor \in DOMAIN Characters.joints
       /\ IsInjective(work.source[actor])
       /\ JointsAreSound(Characters.joints[actor])
       /\ \A e \in DOMAIN found.effects[i] :
            /\ found.effects[i][e] # Rejected
            /\ AttachmentIsThere(found.effects[i][e], SourceBones(i),
                                 ToSet(Characters.joints[actor]))

\* The models read are those that the catalogue of characters names.
ResolveBones ==
    /\ found # NoFile /\ Characters.intact
    /\ \A i \in DOMAIN found.effects : RowIsResolvable(i)
    /\ linked' = [is |-> "links", characters |-> current,
         effects |-> [i \in DOMAIN found.effects |->
           [e \in DOMAIN found.effects[i] |->
              ResolveAttachment(found.effects[i][e], SourceBones(i))]]]
    /\ UNCHANGED <<work, current, found, rowList, package, shown>>

-----------------------------------------------------------------------------
(* The packager reads a bare list of rows, which neither tool writes.  What  *)
(* is asked for are the motions that were resolved (docs/development.md:2430), *)
(* but those that were only discovered look the same to it: what is rejected *)
(* is not among their effects, and what has no "enabled" is shown.           *)

Key(row) == <<row.actor, row.vnum>>

AsRow(i, effects) ==
    [actor |-> work.inventory[i].actor, vnum |-> work.inventory[i].vnum,
     effects |-> effects]

TakeResolved ==
    /\ linked # NoFile
    /\ rowList' = [of |-> "resolved", characters |-> linked.characters,
                   rows |-> [i \in DOMAIN linked.effects |->
                               AsRow(i, linked.effects[i])]]
    /\ UNCHANGED <<work, current, found, linked, package, shown>>

TakeDiscovered ==
    /\ found # NoFile
    /\ rowList' = [of |-> "discovered", characters |-> 0,
         rows |-> [i \in DOMAIN found.effects |->
           AsRow(i, SelectSeq(found.effects[i], LAMBDA e : e # Rejected))]]
    /\ UNCHANGED <<work, current, found, linked, package, shown>>

WriteRows ==
    /\ \E rows \in work.written :
         rowList' = [of |-> "written", characters |-> 0, rows |-> rows]
    /\ UNCHANGED <<work, current, found, linked, package, shown>>

-----------------------------------------------------------------------------
(* build_motion_effect_catalog: a candidate has effects, each with the names *)
(* of its textures, the pixels that it gives to names, and the pixels of its *)
(* meshes.  intact: its files are those that it names.                       *)

EffectCandidates == ToSet(work.candidates)
EffectPaths ==
    UNION {{e.path : e \in ToSet(c.effects)} : c \in EffectCandidates}

\* A motion of the installed characters shows at least one and at most so
\* many effects, and each of them while it lasts.
LinkIsSound(events, action) ==
    /\ action \in DOMAIN Characters.durations
    /\ Len(events) \in 1 .. MaxPerMotion
    /\ \A i, j \in DOMAIN events : events[i].event = events[j].event => i = j
    /\ \A i \in DOMAIN events :
         /\ events[i].path \in EffectPaths
         /\ events[i].start \in 0 .. Characters.durations[action]
         /\ events[i].attachment \in {"follow_root", "follow_bone",
                                     "capture_root", "capture_bone"}
         /\ (events[i].bone # "") = ToBone(events[i].attachment)

\* skills: of a catalogue, from an appearance of a skill to its motion.
LinksAreSound(skills) ==
    LET rows == rowList.rows
    IN /\ {Key(rows[i]) : i \in DOMAIN rows} = DOMAIN skills
       /\ \A i, j \in DOMAIN rows : Key(rows[i]) = Key(rows[j]) => i = j
       /\ \A i \in DOMAIN rows :
            LinkIsSound(rows[i].effects, skills[Key(rows[i])])

EffectsAreOnce ==
    LET places == UNION {{<<c, e>> : e \in DOMAIN work.candidates[c].effects} :
                           c \in DOMAIN work.candidates}
        PathAt(p) == work.candidates[p[1]].effects[p[2]].path
    IN \A p, q \in places : PathAt(p) = PathAt(q) => p = q

TexturesAgreeFault == TRUE

\* EffectCandidates that name the same texture have to show the same pixels.
TexturesAgree ==
    \A c, d \in EffectCandidates :
      \A t \in DOMAIN c.textures \cap DOMAIN d.textures :
        c.textures[t] = d.textures[t]

MeshPixels == UNION {c.meshes : c \in EffectCandidates}
TextureNames ==
    UNION {DOMAIN c.textures : c \in EffectCandidates} \cup MeshPixels

TexturesArePackaged ==
    \A c \in EffectCandidates : \A e \in ToSet(c.effects) :
      e.uses \subseteq TextureNames

\* A mesh is packaged with its pixels for a name, and a texture with those
\* of a candidate that names it.
Packaged(t) ==
    IF t \in MeshPixels THEN t
    ELSE (CHOOSE c \in EffectCandidates : t \in DOMAIN c.textures).textures[t]

\* Of the appearances that share a motion, the last says what it shows.
LinkOf(action, skills) ==
    LET rows == rowList.rows
        shares == {i \in DOMAIN rows : skills[Key(rows[i])] = action}
    IN rows[CHOOSE i \in shares : \A j \in shares : j <= i].effects

PackageEffects ==
    /\ rowList # NoFile
    /\ \E k \in DOMAIN work.skills :
         LET skills == work.skills[k]
         IN /\ LinksAreSound(skills) /\ EffectsAreOnce
            /\ \A c \in EffectCandidates : c.intact
            /\ TexturesAgree /\ TexturesArePackaged
            /\ package' = [is |-> "package", whole |-> TRUE,
                 characters |-> current, skills |-> k,
                 of |-> rowList.of, resolvedFor |-> rowList.characters,
                 links |-> [a \in {skills[s] : s \in DOMAIN skills} |->
                              LinkOf(a, skills)],
                 textures |-> [t \in TextureNames |-> Packaged(t)]]
    /\ UNCHANGED <<work, current, found, linked, rowList, shown>>

\* A file of the package is changed or lost.
DamagePackage ==
    /\ package # NoFile /\ package' = [package EXCEPT !.whole = FALSE]
    /\ UNCHANGED <<work, current, found, linked, rowList, shown>>

MadeForFault(p, characters, skills) == p.characters = characters

\* The package names the catalogues that it was made with.
MadeFor(p, characters, skills) ==
    p.characters = characters /\ p.skills = skills

\* stage_motion_effect_package: it replaces the effects that the release has,
\* when its files are what it says and there is something to show.
StagePackage ==
    /\ package # NoFile /\ package.whole
    /\ DOMAIN package.links # {} /\ DOMAIN package.textures # {}
    /\ \E k \in DOMAIN work.skills :
         /\ MadeFor(package, current, k)
         /\ shown' = [is |-> "release", characters |-> current, skills |-> k,
                      package |-> package]
    /\ UNCHANGED <<work, current, found, linked, rowList, package>>

MotionNext ==
    \/ ReplaceCharacters \/ Discover \/ ResolveBones
    \/ TakeResolved \/ TakeDiscovered \/ WriteRows
    \/ PackageEffects \/ DamagePackage \/ StagePackage

MotionSpec == MotionInit /\ [][MotionNext]_motionVars

-----------------------------------------------------------------------------
ShownCharacters == work.characters[shown.characters]
ShownSkills == work.skills[shown.skills]

\* What the effect of a released skill says is what the original client does
\* with the event: it is moved to the root or dropped only when the original
\* model does not have its bone.
IsAsAsked(effect, event, source) ==
    /\ (effect.attachment # Attachment(event)) =>
         Attachment(event) = "follow_bone" /\ event.bone \notin source
    /\ ~effect.enabled =>
         Attachment(event) = "capture_bone" /\ event.bone \notin source
    /\ (effect.enabled /\ ToBone(effect.attachment)) =>
         effect.bone = event.bone /\ event.bone \in source

\* When the rows that were packaged are those that were resolved, every event
\* of the motion of an appearance is shown as the original client shows it; and
\* at a joint of the released model, when they were resolved for it
\* (motion_effects.py, resolve_attachment).  Of other rows this cannot be said:
\* nothing in a package tells them apart (build_motion_effect_catalog.py:66 and
\* 118, tests/test_motion_effect_catalog.py:20-35), and an event that was
\* rejected is missing, one at a bone of no model is shown nowhere.
AttachmentsAreReal ==
    shown # NoFile /\ shown.package.of = "resolved" =>
      \A action \in DOMAIN shown.package.links :
        \E i \in DOMAIN work.inventory :
          LET effects == shown.package.links[action]
              events == ShowEvents(work.inventory[i].clip)
          IN /\ ShownSkills[Key(work.inventory[i])] = action
             /\ DOMAIN effects = DOMAIN events
             /\ \A e \in DOMAIN effects :
                  /\ IsAsAsked(effects[e], events[e], SourceBones(i))
                  /\ (/\ shown.package.resolvedFor = shown.characters
                      /\ effects[e].enabled
                      /\ ToBone(effects[e].attachment)) =>
                       effects[e].bone \in
                         ToSet(ShownCharacters.joints[work.inventory[i].actor])

\* A release has effects for exactly the motions of its skills, and each
\* begins while the motion of its characters lasts, whoever wrote the rows and
\* although characters, skills and effects come from tools run at different
\* times (build_motion_effect_catalog.py, validate_links; export_playable.py, stage_motion_effect_package).
SkillsAreCovered ==
    shown # NoFile =>
      /\ DOMAIN shown.package.links
           = {ShownSkills[s] : s \in DOMAIN ShownSkills}
      /\ \A action \in DOMAIN shown.package.links :
         \A e \in DOMAIN shown.package.links[action] :
           shown.package.links[action][e].start
             \in 0 .. ShownCharacters.durations[action]

\* Every effect that is released has the pixels that it was converted with,
\* although candidates share the names of textures
\* (build_motion_effect_catalog.py, particle_textures).
RecipesKeepTheirPixels ==
    shown # NoFile =>
      \A c \in EffectCandidates : \A e \in ToSet(c.effects) :
        \A t \in e.uses \cap DOMAIN c.textures :
          shown.package.textures[t] = c.textures[t]

\* From the motion to the pack, an effect keeps its time and its pixels, and
\* its bone when it was resolved.
MotionEffectsAreWhole ==
    AttachmentsAreReal /\ SkillsAreCovered /\ RecipesKeepTheirPixels
=============================================================================
