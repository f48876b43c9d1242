------------------------------- MODULE Release -------------------------------
(* From a content profile to a client that can be given out: a builder that  *)
(* leaves its results in the project one file after the other, an exporter   *)
(* that copies the project, has the engine pack it, looks into the pack and  *)
(* puts it in the place of the last release, and the installation of the     *)
(* target effects, which may happen meanwhile.  Each may die at any step.    *)
(*                                                                           *)
(* Source: the commands of tools/content_compile.py, tools/export_client.py  *)
(* (target "windows"), tools/export_playable.py (the other targets) and      *)
(* tools/target_effect_export.py.  A file is its content: a model has the    *)
(* geometry it was converted from, a catalogue its revision.  What a         *)
(* manifest may say is checked in Manifest.                                  *)
EXTENDS Integers, FiniteSets, Functions

CONSTANTS
    Revision,   \* of the content profile, positive numbers
    Gameplay, GeometryOf, \* revision -> what it says of each
    Glb,        \* the converted models
    Target,     \* what clients are exported for
    Projects,   \* the other catalogues: [characters, skills, motion]
    Candidates, \* packages an exporter may be given instead: the same
    MayReuse,   \* BOOLEAN: builders may be told --reuse-blender-report
    MaxRuns,    \* how many tools are started
    MaxInstalls \* how often the effects are installed

\* A revision has a gameplay and a geometry, which is a positive number.
ASSUME ReleaseAssumption ==
    /\ Revision \subseteq Nat \ {0}
    /\ DOMAIN GeometryOf = Revision /\ DOMAIN Gameplay = Revision
    /\ \A r \in Revision : GeometryOf[r] \in Nat \ {0}

VARIABLES
    disk,       \* what the builder leaves in the project
    project,    \* the other catalogues of the project
    effects,    \* the installed effects: [catalog, file]
    builder,    \* [is, revision, left, digests]
    exporter,   \* [is, target, expects, effects, stage]
    release,    \* target -> the pack that is there, or NoPack
    runs, installs

releaseVars == <<disk, project, effects, builder, exporter, release,
                 runs, installs>>

None == 0
Off == [is |-> "off"]
NoPack == [is |-> "none"]
Nowhere == [g \in Glb |-> None]
Effects(n) == [catalog |-> n, file |-> n]

\* report: <<status, revision>>; converted: what the recorded conversion says
\* of the models; client: the manifest.
ReleaseStart ==
    /\ disk = [normalized |-> None, server |-> None,
               report |-> <<"none", None>>, glb |-> Nowhere, png |-> Nowhere,
               converted |-> Nowhere,
               client |-> [revision |-> None, gameplay |-> None,
                           digests |-> Nowhere]]
    /\ effects = Effects(1) /\ builder = Off /\ exporter = Off
    /\ release = [t \in Target |-> NoPack] /\ runs = 0 /\ installs = 0

ReleaseInit == project \in Projects /\ ReleaseStart

-----------------------------------------------------------------------------
(* compile_command and build_command *)

Others == <<project, effects, exporter, release, runs, installs>>
Builds(s) == builder' = [builder EXCEPT !.is = s]
BuilderAt(s) == builder.is = s /\ UNCHANGED Others

Build == /\ builder = Off /\ exporter = Off /\ runs < MaxRuns
         /\ runs' = runs + 1
         /\ \E r \in Revision, how \in {"compile", "convert"} \cup
                       (IF MayReuse THEN {"reuse"} ELSE {}) :
              builder' = [is |-> "normalized", revision |-> r,
                          left |-> Glb, how |-> how, digests |-> Nowhere]
         /\ UNCHANGED <<disk, project, effects, exporter, release,
                        installs>>

WriteNormalized == /\ BuilderAt("normalized") /\ Builds("server")
                   /\ disk' = [disk EXCEPT !.normalized = builder.revision]
WriteServer == /\ BuilderAt("server") /\ Builds("report")
               /\ disk' = [disk EXCEPT !.server = builder.revision]
WriteReport ==
    /\ BuilderAt("report")
    /\ disk' = [disk EXCEPT !.report = <<"normalized", builder.revision>>]
    /\ IF builder.how = "compile" THEN builder' = Off ELSE Builds("convert")

\* What the recorded conversion has to be for its models to be used again:
\* that they are unchanged, and not that they are of this revision.
MayBeReused ==
    disk.converted # Nowhere /\ disk.glb = disk.converted

\* The engine converts what was just written; the models are checked in the
\* directory that is made for them, and then replaced one by one.
Convert ==
    /\ BuilderAt("convert") /\ UNCHANGED disk
    /\ IF builder.how = "convert"
       THEN \/ builder' = Off
            \/ builder' = [builder EXCEPT !.is = "copying",
                 !.digests = [g \in Glb |-> GeometryOf[disk.normalized]]]
       ELSE IF MayBeReused
       THEN builder' = [builder EXCEPT !.is = "extracting",
                                       !.digests = disk.converted]
       ELSE builder' = Off

CopyModel(g) ==
    /\ BuilderAt("copying") /\ g \in builder.left
    /\ disk' = [disk EXCEPT !.glb[g] = builder.digests[g]]
    /\ builder' = [builder EXCEPT !.left = @ \ {g},
                     !.is = IF builder.left = {g} THEN "extracting" ELSE @]

\* The textures of a model are taken out of it.
ExtractTextures ==
    /\ BuilderAt("extracting") /\ disk' = [disk EXCEPT !.png = disk.glb]
    /\ Builds(IF builder.how = "convert" THEN "recording" ELSE "client")

RecordConversion ==
    /\ BuilderAt("recording") /\ Builds("client")
    /\ disk' = [disk EXCEPT !.converted = builder.digests]

WriteClient ==
    /\ BuilderAt("client") /\ Builds("built")
    /\ disk' = [disk EXCEPT !.client =
                  [revision |-> builder.revision,
                   gameplay |-> Gameplay[builder.revision],
                   digests |-> builder.digests]]

\* Written before what was built is validated, and left when that fails.
WriteBuilt ==
    /\ BuilderAt("built") /\ builder' = Off
    /\ disk' = [disk EXCEPT !.report = <<"built", disk.report[2]>>]

BuilderDies == /\ builder # Off /\ builder' = Off
               /\ UNCHANGED <<disk, Others>>

-----------------------------------------------------------------------------
(* The effects are installed by another tool: all are removed, then the      *)
(* catalogue is copied, then its files, unless it dies before.               *)

InstallCatalog ==
    /\ installs < MaxInstalls
    /\ effects' = [catalog |-> effects.catalog + 1, file |-> None]
    /\ installs' = installs + 1
    /\ UNCHANGED <<disk, project, builder, exporter, release, runs>>
InstallFiles ==
    /\ effects.file = None /\ effects' = Effects(effects.catalog)
    /\ UNCHANGED <<disk, project, builder, exporter, release, runs,
                   installs>>

-----------------------------------------------------------------------------
(* The exporters *)

ExporterAt(s) ==
    exporter.is = s /\ UNCHANGED <<disk, project, effects, builder,
                                   runs, installs>>
Exports(s) == exporter' = [exporter EXCEPT !.is = s] /\ UNCHANGED release
FailExport == exporter' = Off /\ UNCHANGED release

MatchesManifestFault == disk.client.revision # None /\ disk.server # None
                          /\ Gameplay[disk.server] = disk.client.gameplay

\* The models are those of the manifest, and the manifest that of the server.
MatchesManifest ==
    /\ disk.client.revision # None /\ disk.server # None
    /\ disk.glb = disk.client.digests
    /\ Gameplay[disk.server] = disk.client.gameplay

EffectsAreInstalled == effects.file = effects.catalog

Export ==
    /\ builder = Off /\ exporter = Off /\ runs < MaxRuns
    /\ runs' = runs + 1
    /\ IF MatchesManifest
       THEN exporter' = [is |-> "requiring", expects |-> disk.client]
       ELSE UNCHANGED exporter
    /\ UNCHANGED <<disk, project, effects, builder, release,
                   installs>>

RequireEffects ==
    /\ ExporterAt("requiring")
    /\ IF EffectsAreInstalled
       THEN /\ UNCHANGED release
            /\ \E t \in Target :
                 exporter' = [is |-> "staging", expects |-> exporter.expects,
                              target |-> t, effects |-> effects]
       ELSE FailExport

\* The client's tree, without what is only for development.
StageProject ==
    /\ ExporterAt("staging") /\ UNCHANGED release
    /\ exporter' = [is |-> "choosing", expects |-> exporter.expects,
                    target |-> exporter.target, effects |-> exporter.effects,
                    stage |-> [client |-> disk.client, glb |-> disk.glb,
                               png |-> disk.png, effects |-> effects,
                               characters |-> project.characters,
                               skills |-> project.skills,
                               motion |-> project.motion]]

Staged == exporter.stage

\* Effects of motions belong to a catalogue of characters and one of skills.
MotionMatches(motion, where) ==
    motion = <<where.characters, where.skills>>

\* A client of the other targets may be given other skills, and effects that
\* have to match them once they are in their place.
StageCandidates ==
    /\ ExporterAt("choosing")
    /\ \/ Exports("copying")
       \/ /\ exporter.target # "windows"
          /\ \E c \in Candidates :
               LET with == [Staged EXCEPT !.skills = c.skills]
               IN \/ /\ exporter' = [exporter EXCEPT !.is = "copying",
                                                     !.stage = with]
                     /\ UNCHANGED release
                  \/ IF MotionMatches(c.motion, with)
                     THEN /\ exporter' = [exporter EXCEPT !.is = "copying",
                               !.stage = [with EXCEPT !.motion = c.motion]]
                          /\ UNCHANGED release
                     ELSE FailExport

\* Copied again, a file at a time: the catalogue, and later the files.
CopyEffectCatalog ==
    /\ ExporterAt("copying") /\ UNCHANGED release
    /\ exporter' = [exporter EXCEPT !.is = "effects",
                      !.stage.effects = [catalog |-> effects.catalog,
                                         file |-> None]]

StageEffectsFault ==
    /\ ExporterAt("effects")
    /\ IF effects.file = None THEN FailExport
       ELSE /\ exporter' =
                 [exporter EXCEPT !.is = "packing",
                                  !.stage.effects.file = effects.file]
            /\ UNCHANGED release

\* What is staged has to be what was there when the exporter started.
StageEffects ==
    /\ ExporterAt("effects")
    /\ LET staged == [Staged.effects EXCEPT !.file = effects.file]
       IN IF staged.file # None /\ staged = exporter.effects
          THEN /\ exporter' = [exporter EXCEPT !.is = "packing",
                                               !.stage.effects = staged]
               /\ UNCHANGED release
          ELSE FailExport

\* Imports, export: the engine packs what is staged, or one of its runs fails.
Pack == ExporterAt("packing") /\ (Exports("auditing") \/ FailExport)

AuditPackFault ==
    ExporterAt("auditing") /\ Exports("publishing")

\* The pack has the manifest that was expected, the catalogues of the project
\* it was made of, and, but for Windows, effects of motions that load with
\* them; its target effects are those that were staged.
AuditPack ==
    /\ ExporterAt("auditing")
    /\ IF /\ Staged.client = exporter.expects
          /\ \/ exporter.target = "windows"
              \/ MotionMatches(Staged.motion, Staged)
       THEN Exports("publishing") ELSE FailExport

\* The last release of the target goes first; a copy of the new one that is
\* not complete counts as none.
RemoveReleased ==
    /\ ExporterAt("publishing")
    /\ exporter' = [exporter EXCEPT !.is = "replacing"]
    /\ release' = [release EXCEPT ![exporter.target] = NoPack]

Replace ==
    /\ ExporterAt("replacing") /\ exporter' = Off
    /\ release' = [release EXCEPT ![exporter.target] = Staged]

ExporterDies == /\ exporter # Off /\ exporter' = Off
                /\ UNCHANGED <<disk, project, effects, builder,
                               release, runs, installs>>

ReleaseNext ==
    \/ Build \/ WriteNormalized \/ WriteServer \/ WriteReport
    \/ Convert \/ \E g \in Glb : CopyModel(g)
    \/ ExtractTextures \/ RecordConversion \/ WriteClient \/ WriteBuilt
    \/ BuilderDies \/ InstallCatalog \/ InstallFiles
    \/ Export \/ RequireEffects \/ StageProject \/ StageCandidates
    \/ CopyEffectCatalog \/ StageEffects \/ Pack \/ AuditPack
    \/ RemoveReleased \/ Replace \/ ExporterDies

ReleaseSpec == ReleaseInit /\ [][ReleaseNext]_releaseVars

-----------------------------------------------------------------------------
Released == {release[t] : t \in Target} \ {NoPack}

\* Whatever builders died halfway through, one after the other, the models of
\* a release are those that its manifest describes, all of one geometry.
ReleaseIsOneBuild ==
    \A pack \in Released :
      /\ pack.glb = pack.client.digests
      /\ \E n \in Range(GeometryOf) : \A g \in Glb : pack.glb[g] = n

\* The target effects of a release are those of one catalogue, although they
\* may be installed while it is made.
EffectsAreOneCatalog ==
    \A pack \in Released : pack.effects.file = pack.effects.catalog

\* The motions of a release for the web or for Linux show the effects that
\* were made for the characters and the skills released with them, whichever
\* of them were given to the exporter.
MotionsAreTheirs ==
    \A t \in Target \ {"windows"} :
      release[t] # NoPack => MotionMatches(release[t].motion, release[t])

\* A model that ships is converted from the profile that ships with it.  The
\* code does not keep this: --reuse-blender-report looks at the name of the
\* profile, never at what it says of the geometry (content_compile.py:2495).
ShippedGeometryIsCurrent ==
    disk.report[1] = "built" /\ builder = Off
      => \A g \in Glb : disk.glb[g] = GeometryOf[disk.client.revision]

\* The effects of a release, of targets and of motions, belong to it.
EffectsAreTheirs == EffectsAreOneCatalog /\ MotionsAreTheirs
=============================================================================
