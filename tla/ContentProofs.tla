---------------------------- MODULE ContentProofs ----------------------------
(* The content of a client: what a release is made of (Release.tla), what is *)
(* read of the archive of the original client (Archive.tla) and its scripts  *)
(* (Scripts.tla), its effects (TargetEffects.tla, MotionEffects.tla), its    *)
(* items (Items.tla), its profile (Payloads.tla) and its manifest            *)
(* (Manifest.tla).                                                           *)
EXTENDS ClientEffects, Archive, Manifest, Scripts, Items, Payloads,
        Induction

-----------------------------------------------------------------------------
(* Release.                                                                  *)

Revisions == Revision \cup {None}
Models == [Glb -> Range(GeometryOf) \cup {None}]
Clients == [revision : Revisions, gameplay : Range(Gameplay) \cup {None}, digests : Models]
Disks == [normalized : Revisions, server : Revisions,
          report : {"none", "normalized", "built"} \X Revisions,
          glb : Models, png : Models, converted : Models, client : Clients]
BuildSteps == {"normalized", "server", "report", "convert", "copying", "extracting",
               "recording", "client", "built"}
Builders == [is : BuildSteps, revision : Revision, left : SUBSET Glb,
             how : {"compile", "convert", "reuse"}, digests : Models]
EffectRows == [catalog : Nat \ {0}, file : Nat]
Stages == [client : Clients, glb : Models, png : Models, effects : EffectRows,
           characters : {p.characters : p \in Projects},
           skills : {p.skills : p \in Projects \cup Candidates},
           motion : {p.motion : p \in Projects \cup Candidates}]
ExportSteps == {"choosing", "copying", "effects", "packing", "auditing", "publishing",
                "replacing"}
Beginning == [is : {"requiring"}, expects : Clients]
Required == [is : {"staging"}, expects : Clients, target : Target, effects : EffectRows]
Staging == [is : ExportSteps, expects : Clients, target : Target, effects : EffectRows,
            stage : Stages]
Exporters == Beginning \cup Required \cup Staging

ReleaseTypes ==
    /\ project \in Projects /\ disk \in Disks /\ effects \in EffectRows
    /\ builder = Off \/ builder \in Builders
    /\ exporter = Off \/ exporter \in Exporters
    /\ release \in [Target -> {NoPack} \cup Stages]
    /\ runs \in Nat /\ installs \in Nat

\* Models of one geometry, that of some revision.
OfOneGeometry(models) == \E n \in Range(GeometryOf) : \A g \in Glb : models[g] = n

\* What a manifest or a record of a conversion says was converted in one go.
Recorded ==
    /\ disk.converted = Nowhere \/ OfOneGeometry(disk.converted)
    /\ disk.client.revision # None => OfOneGeometry(disk.client.digests)

\* What the builder is about to record.
BuilderHolds ==
    builder # Off =>
      /\ exporter = Off
      /\ builder.is # "normalized" => disk.normalized = builder.revision
      /\ builder.is \notin {"normalized", "server", "report", "convert"}
           => OfOneGeometry(builder.digests)

\* What the exporter expects is what is there, and what it has staged is that.
ExporterHolds ==
    exporter # Off =>
      /\ exporter.expects = disk.client /\ disk.glb = disk.client.digests
      /\ OfOneGeometry(disk.glb)
      /\ exporter.is # "requiring" => exporter.effects.file = exporter.effects.catalog
      /\ exporter.is \in ExportSteps =>
           /\ exporter.stage.glb = disk.glb /\ exporter.stage.client = disk.client
      /\ exporter.is \in {"packing", "auditing", "publishing", "replacing"}
           => exporter.stage.effects = exporter.effects
      /\ exporter.is \in {"publishing", "replacing"} /\ exporter.target # "windows"
           => MotionMatches(exporter.stage.motion, exporter.stage)

\* What was released.
PackHolds(t, pack) ==
    /\ pack.glb = pack.client.digests /\ OfOneGeometry(pack.glb)
    /\ pack.effects.file = pack.effects.catalog
    /\ t # "windows" => MotionMatches(pack.motion, pack)

ReleaseInv ==
    /\ ReleaseTypes /\ Recorded /\ BuilderHolds /\ ExporterHolds
    /\ \A t \in Target : release[t] # NoPack => PackHolds(t, release[t])

-----------------------------------------------------------------------------
USE ReleaseAssumption

LEMMA ReleaseInvHolds == ReleaseInv => ReleaseIsOneBuild /\ EffectsAreTheirs
  BY DEF ReleaseInv, ReleaseIsOneBuild, EffectsAreTheirs, EffectsAreOneCatalog,
         MotionsAreTheirs, PackHolds, OfOneGeometry, Released

LEMMA ReleaseBegins == ReleaseInit => ReleaseInv
<1> SUFFICES ASSUME ReleaseInit PROVE ReleaseInv
  OBVIOUS
<1>1. Nowhere \in Models /\ None \in Revisions  BY DEF Nowhere, Models, Revisions
<1>2. disk \in Disks
  <2>1. [revision |-> None, gameplay |-> None, digests |-> Nowhere] \in Clients
    BY <1>1 DEF Clients, Revisions
  <2>2. <<"none", None>> \in {"none", "normalized", "built"} \X Revisions  BY <1>1
  <2> QED BY <1>1, <2>1, <2>2 DEF Disks, ReleaseInit, ReleaseStart
<1>3. effects \in EffectRows  BY DEF EffectRows, ReleaseInit, ReleaseStart, Effects
<1>4. ReleaseTypes  BY <1>2, <1>3 DEF ReleaseTypes, ReleaseInit, ReleaseStart
<1> QED BY <1>4 DEF ReleaseInv, ReleaseInit, ReleaseStart, Recorded, BuilderHolds, ExporterHolds

LEMMA DiskFields ==
    ASSUME ReleaseTypes
    PROVE  /\ disk.normalized \in Revisions /\ disk.server \in Revisions
           /\ disk.report \in {"none", "normalized", "built"} \X Revisions
           /\ disk.glb \in Models /\ disk.png \in Models /\ disk.converted \in Models
           /\ disk.client \in Clients
           /\ disk.client.revision \in Revisions
           /\ disk.client.gameplay \in Range(Gameplay) \cup {None}
           /\ disk.client.digests \in Models
  BY DEF ReleaseTypes, Disks, Clients

LEMMA BuilderFields ==
    ASSUME ReleaseTypes, builder.is # "off"
    PROVE  /\ builder \in Builders /\ builder # Off
           /\ builder.is \in BuildSteps /\ builder.revision \in Revision
           /\ builder.left \in SUBSET Glb /\ builder.digests \in Models
           /\ builder.how \in {"compile", "convert", "reuse"}
  BY DEF ReleaseTypes, Builders, Off

\* A builder keeps its other fields when it goes on.
LEMMA BuilderIs ==
    /\ "server" \in BuildSteps /\ "report" \in BuildSteps /\ "convert" \in BuildSteps
    /\ "copying" \in BuildSteps /\ "extracting" \in BuildSteps
    /\ "recording" \in BuildSteps /\ "client" \in BuildSteps /\ "built" \in BuildSteps
  BY DEF BuildSteps

LEMMA BuilderGoes ==
    ASSUME NEW b \in Builders, NEW s \in BuildSteps
    PROVE  LET n == [b EXCEPT !.is = s]
           IN n \in Builders /\ n.is = s /\ n.revision = b.revision /\ n.digests = b.digests
  BY DEF Builders

\* No builder is off the list of its steps.
LEMMA WorkingIsNotOff ==
    /\ \A b \in Builders : b # Off /\ b.is # "off"
    /\ \A e \in Exporters : e # Off /\ e.is # "off"
  BY DEF Builders, Exporters, Beginning, Required, Staging, Off, BuildSteps, ExportSteps

\* A step of the builder that leaves models and manifest alone, and the
\* conversion on record too.
LEMMA BuilderStep ==
    ASSUME ReleaseInv, builder.is # "off", UNCHANGED Others, disk' \in Disks,
           disk'.converted = disk.converted \/ OfOneGeometry(disk'.converted),
           disk'.client = disk.client \/ OfOneGeometry(disk'.client.digests),
           builder' = Off \/ (builder' \in Builders /\ BuilderHolds')
    PROVE  ReleaseInv'
<1>1. builder # Off /\ exporter = Off  BY BuilderFields DEF ReleaseInv, BuilderHolds
<1>2. ReleaseTypes'  BY DEF ReleaseInv, ReleaseTypes, Others
<1>3. Recorded'  BY DEF ReleaseInv, Recorded
<1>4. BuilderHolds' /\ ExporterHolds'  BY <1>1 DEF Others, BuilderHolds, ExporterHolds
<1>5. (\A t \in Target : release[t] # NoPack => PackHolds(t, release[t]))'
  BY DEF ReleaseInv, Others, PackHolds
<1> QED BY <1>2, <1>3, <1>4, <1>5 DEF ReleaseInv

LEMMA BuildKeeps == ASSUME ReleaseInv, Build PROVE ReleaseInv'
<1>1. builder = Off /\ exporter = Off /\ UNCHANGED <<disk, project, effects, exporter, release>>
      /\ runs' = runs + 1 /\ installs' = installs
  BY DEF Build
<1>2. PICK r \in Revision, how \in {"compile", "convert", "reuse"} :
        builder' = [is |-> "normalized", revision |-> r, left |-> Glb, how |-> how,
                    digests |-> Nowhere]
  BY DEF Build
<1>3. builder' \in Builders /\ builder'.is = "normalized"
  BY <1>2 DEF Builders, BuildSteps, Nowhere, Models
<1>4. ReleaseTypes'  BY <1>1, <1>3 DEF ReleaseInv, ReleaseTypes
<1>5. BuilderHolds' /\ ExporterHolds' /\ Recorded'
  BY <1>1, <1>3 DEF ReleaseInv, Recorded, BuilderHolds, ExporterHolds
<1> QED BY <1>1, <1>4, <1>5 DEF ReleaseInv, PackHolds

LEMMA WriteNormalizedKeeps == ASSUME ReleaseInv, WriteNormalized PROVE ReleaseInv'
<1>1. builder.is = "normalized" /\ UNCHANGED Others
      /\ builder' = [builder EXCEPT !.is = "server"]
      /\ disk' = [disk EXCEPT !.normalized = builder.revision]
  BY DEF WriteNormalized, BuilderAt, Builds
<1>2. disk' \in Disks /\ disk'.converted = disk.converted /\ disk'.client = disk.client
      /\ disk'.normalized = builder.revision
  BY <1>1, DiskFields, BuilderFields DEF ReleaseInv, ReleaseTypes, Disks, Revisions
<1>3. builder' \in Builders /\ builder'.is = "server" /\ builder'.revision = builder.revision
  BY <1>1, BuilderFields, BuilderIs, BuilderGoes DEF ReleaseInv
<1>4. exporter = Off  BY <1>1, BuilderFields DEF ReleaseInv, BuilderHolds
<1>5. BuilderHolds'  BY <1>1, <1>2, <1>3, <1>4 DEF BuilderHolds, Others
<1> QED BY <1>1, <1>2, <1>3, <1>5, BuilderStep

LEMMA WriteServerKeeps == ASSUME ReleaseInv, WriteServer PROVE ReleaseInv'
<1>1. builder.is = "server" /\ UNCHANGED Others
      /\ builder' = [builder EXCEPT !.is = "report"]
      /\ disk' = [disk EXCEPT !.server = builder.revision]
  BY DEF WriteServer, BuilderAt, Builds
<1>2. disk' \in Disks /\ disk'.converted = disk.converted /\ disk'.client = disk.client
      /\ disk'.normalized = disk.normalized
  BY <1>1, DiskFields, BuilderFields DEF ReleaseInv, ReleaseTypes, Disks, Revisions
<1>3. builder' \in Builders /\ builder'.is = "report" /\ builder'.revision = builder.revision
  BY <1>1, BuilderFields, BuilderIs, BuilderGoes DEF ReleaseInv
<1>4. exporter = Off /\ disk.normalized = builder.revision
  BY <1>1, BuilderFields DEF ReleaseInv, BuilderHolds
<1>5. BuilderHolds'  BY <1>1, <1>2, <1>3, <1>4 DEF BuilderHolds, Others
<1> QED BY <1>1, <1>2, <1>3, <1>5, BuilderStep

LEMMA WriteReportKeeps == ASSUME ReleaseInv, WriteReport PROVE ReleaseInv'
<1>1. builder.is = "report" /\ UNCHANGED Others
      /\ disk' = [disk EXCEPT !.report = <<"normalized", builder.revision>>]
      /\ (builder' = Off \/ builder' = [builder EXCEPT !.is = "convert"])
  BY DEF WriteReport, BuilderAt, Builds
<1>2. disk' \in Disks /\ disk'.converted = disk.converted /\ disk'.client = disk.client
      /\ disk'.normalized = disk.normalized
  <2>1. <<"normalized", builder.revision>> \in {"none", "normalized", "built"} \X Revisions
    BY <1>1, BuilderFields DEF ReleaseInv, Revisions
  <2> QED BY <1>1, <2>1, DiskFields DEF ReleaseInv, ReleaseTypes, Disks
<1>3. exporter = Off /\ disk.normalized = builder.revision
  BY <1>1, BuilderFields DEF ReleaseInv, BuilderHolds
<1>4. CASE builder' = [builder EXCEPT !.is = "convert"]
  <2>1. builder' \in Builders /\ builder'.is = "convert"
        /\ builder'.revision = builder.revision
    BY <1>1, <1>4, BuilderFields, BuilderIs, BuilderGoes DEF ReleaseInv
  <2>2. BuilderHolds'  BY <1>1, <1>2, <1>3, <2>1 DEF BuilderHolds, Others
  <2> QED BY <1>1, <1>2, <2>1, <2>2, BuilderStep
<1>5. CASE builder' = Off  BY <1>1, <1>2, <1>5, BuilderStep
<1> QED BY <1>1, <1>4, <1>5

LEMMA ConvertKeeps == ASSUME ReleaseInv, Convert PROVE ReleaseInv'
<1> DEFINE fresh == [g \in Glb |-> GeometryOf[disk.normalized]]
<1>1. /\ builder.is = "convert" /\ UNCHANGED Others /\ disk' = disk
      /\ \/ builder' = Off
         \/ builder' = [builder EXCEPT !.is = "copying", !.digests = fresh]
         \/ MayBeReused /\ builder' = [builder EXCEPT !.is = "extracting",
                                                      !.digests = disk.converted]
  BY DEF Convert, BuilderAt
<1>2. exporter = Off /\ disk.normalized = builder.revision /\ builder.revision \in Revision
      /\ disk' \in Disks
  BY <1>1, BuilderFields DEF ReleaseInv, ReleaseTypes, BuilderHolds
<1>3. fresh \in Models /\ OfOneGeometry(fresh)  BY <1>2 DEF Models, OfOneGeometry, Range
<1> HIDE DEF fresh
<1>4. CASE builder' = Off  BY <1>1, <1>2, <1>4, BuilderStep
<1>5. CASE builder' = [builder EXCEPT !.is = "copying", !.digests = fresh]
  <2>1. builder' \in Builders /\ builder'.is = "copying" /\ builder'.digests = fresh
        /\ builder'.revision = builder.revision
    <3>1. builder \in Builders  BY <1>1, BuilderFields DEF ReleaseInv
    <3> QED BY <1>3, <1>5, <3>1, BuilderIs DEF Builders
  <2>2. BuilderHolds'  BY <1>1, <1>2, <1>3, <2>1 DEF BuilderHolds, Others
  <2> QED BY <1>1, <1>2, <2>1, <2>2, BuilderStep
<1>6. CASE /\ MayBeReused
           /\ builder' = [builder EXCEPT !.is = "extracting", !.digests = disk.converted]
  <2>1. disk.converted \in Models /\ OfOneGeometry(disk.converted)
    BY <1>6, DiskFields DEF ReleaseInv, Recorded, MayBeReused
  <2>2. builder' \in Builders /\ builder'.is = "extracting"
        /\ builder'.digests = disk.converted /\ builder'.revision = builder.revision
    <3>1. builder \in Builders  BY <1>1, BuilderFields DEF ReleaseInv
    <3> QED BY <1>6, <2>1, <3>1, BuilderIs DEF Builders
  <2>3. BuilderHolds'  BY <1>1, <1>2, <2>1, <2>2 DEF BuilderHolds, Others
  <2> QED BY <1>1, <1>2, <2>2, <2>3, BuilderStep
<1> QED BY <1>1, <1>4, <1>5, <1>6

LEMMA CopyModelKeeps == ASSUME ReleaseInv, NEW g \in Glb, CopyModel(g) PROVE ReleaseInv'
<1> DEFINE s == IF builder.left = {g} THEN "extracting" ELSE "copying"
<1>1. builder.is = "copying" /\ UNCHANGED Others
      /\ disk' = [disk EXCEPT !.glb[g] = builder.digests[g]]
      /\ builder' = [builder EXCEPT !.left = builder.left \ {g}, !.is = s]
  BY DEF CopyModel, BuilderAt
<1>2. s \in BuildSteps /\ s \in {"extracting", "copying"}  BY DEF BuildSteps
<1> HIDE DEF s
<1>3. exporter = Off /\ disk.normalized = builder.revision /\ OfOneGeometry(builder.digests)
  BY <1>1, BuilderFields DEF ReleaseInv, BuilderHolds
<1>4. disk' \in Disks /\ disk'.converted = disk.converted /\ disk'.client = disk.client
      /\ disk'.normalized = disk.normalized
  <2>1. [disk.glb EXCEPT ![g] = builder.digests[g]] \in Models
    BY <1>1, DiskFields, BuilderFields DEF ReleaseInv, Models
  <2>2. disk' = [disk EXCEPT !.glb = [disk.glb EXCEPT ![g] = builder.digests[g]]]
    BY <1>1
  <2> QED BY <2>1, <2>2, DiskFields DEF ReleaseInv, ReleaseTypes, Disks
<1>5. builder.left \ {g} \in SUBSET Glb /\ builder \in Builders
  BY <1>1, BuilderFields DEF ReleaseInv
<1>6. builder' \in Builders /\ builder'.is = s /\ builder'.digests = builder.digests
      /\ builder'.revision = builder.revision
  BY <1>1, <1>2, <1>5 DEF Builders
<1>7. BuilderHolds'  BY <1>1, <1>2, <1>3, <1>4, <1>6 DEF BuilderHolds, Others
<1> QED BY <1>1, <1>4, <1>6, <1>7, BuilderStep

LEMMA ExtractTexturesKeeps == ASSUME ReleaseInv, ExtractTextures PROVE ReleaseInv'
<1> DEFINE s == IF builder.how = "convert" THEN "recording" ELSE "client"
<1>1. builder.is = "extracting" /\ UNCHANGED Others
      /\ disk' = [disk EXCEPT !.png = disk.glb] /\ builder' = [builder EXCEPT !.is = s]
  BY DEF ExtractTextures, BuilderAt, Builds
<1>2. s \in BuildSteps /\ s \in {"recording", "client"}  BY DEF BuildSteps
<1> HIDE DEF s
<1>3. exporter = Off /\ disk.normalized = builder.revision /\ OfOneGeometry(builder.digests)
  BY <1>1, BuilderFields DEF ReleaseInv, BuilderHolds
<1>4. disk' \in Disks /\ disk'.converted = disk.converted /\ disk'.client = disk.client
      /\ disk'.normalized = disk.normalized
  BY <1>1, DiskFields DEF ReleaseInv, ReleaseTypes, Disks
<1>5. builder' \in Builders /\ builder'.is = s /\ builder'.digests = builder.digests
      /\ builder'.revision = builder.revision
  BY <1>1, <1>2, BuilderFields, BuilderGoes DEF ReleaseInv
<1>6. BuilderHolds'  BY <1>1, <1>2, <1>3, <1>4, <1>5 DEF BuilderHolds, Others
<1> QED BY <1>1, <1>4, <1>5, <1>6, BuilderStep

LEMMA RecordConversionKeeps == ASSUME ReleaseInv, RecordConversion PROVE ReleaseInv'
<1>1. builder.is = "recording" /\ UNCHANGED Others
      /\ disk' = [disk EXCEPT !.converted = builder.digests]
      /\ builder' = [builder EXCEPT !.is = "client"]
  BY DEF RecordConversion, BuilderAt, Builds
<1>2. exporter = Off /\ disk.normalized = builder.revision /\ OfOneGeometry(builder.digests)
  BY <1>1, BuilderFields DEF ReleaseInv, BuilderHolds
<1>3. disk' \in Disks /\ disk'.converted = builder.digests /\ disk'.client = disk.client
      /\ disk'.normalized = disk.normalized
  BY <1>1, DiskFields, BuilderFields DEF ReleaseInv, ReleaseTypes, Disks
<1>4. builder' \in Builders /\ builder'.is = "client" /\ builder'.digests = builder.digests
      /\ builder'.revision = builder.revision
  BY <1>1, BuilderFields, BuilderIs, BuilderGoes DEF ReleaseInv
<1>5. BuilderHolds'  BY <1>1, <1>2, <1>3, <1>4 DEF BuilderHolds, Others
<1> QED BY <1>1, <1>2, <1>3, <1>4, <1>5, BuilderStep

LEMMA WriteClientKeeps == ASSUME ReleaseInv, WriteClient PROVE ReleaseInv'
<1> DEFINE c == [revision |-> builder.revision, gameplay |-> Gameplay[builder.revision],
                 digests |-> builder.digests]
<1>1. builder.is = "client" /\ UNCHANGED Others /\ disk' = [disk EXCEPT !.client = c]
      /\ builder' = [builder EXCEPT !.is = "built"]
  BY DEF WriteClient, BuilderAt, Builds
<1>2. exporter = Off /\ disk.normalized = builder.revision /\ OfOneGeometry(builder.digests)
  BY <1>1, BuilderFields DEF ReleaseInv, BuilderHolds
<1>3. c \in Clients /\ c.digests = builder.digests
  BY <1>1, BuilderFields DEF ReleaseInv, Clients, Revisions, Range
<1> HIDE DEF c
<1>4. disk' \in Disks /\ disk'.converted = disk.converted /\ disk'.client = c
      /\ disk'.normalized = disk.normalized
  BY <1>1, <1>3, DiskFields DEF ReleaseInv, ReleaseTypes, Disks
<1>5. builder' \in Builders /\ builder'.is = "built" /\ builder'.digests = builder.digests
      /\ builder'.revision = builder.revision
  BY <1>1, BuilderFields, BuilderIs, BuilderGoes DEF ReleaseInv
<1>6. BuilderHolds'  BY <1>1, <1>2, <1>4, <1>5 DEF BuilderHolds, Others
<1> QED BY <1>1, <1>2, <1>3, <1>4, <1>5, <1>6, BuilderStep

LEMMA WriteBuiltKeeps == ASSUME ReleaseInv, WriteBuilt PROVE ReleaseInv'
<1>1. builder.is = "built" /\ UNCHANGED Others /\ builder' = Off
      /\ disk' = [disk EXCEPT !.report = <<"built", disk.report[2]>>]
  BY DEF WriteBuilt, BuilderAt
<1>2. <<"built", disk.report[2]>> \in {"none", "normalized", "built"} \X Revisions
  BY DiskFields DEF ReleaseInv
<1>3. disk' \in Disks /\ disk'.converted = disk.converted /\ disk'.client = disk.client
  BY <1>1, <1>2, DiskFields DEF ReleaseInv, ReleaseTypes, Disks
<1> QED BY <1>1, <1>3, BuilderStep

LEMMA BuilderDiesKeeps == ASSUME ReleaseInv, BuilderDies PROVE ReleaseInv'
<1>1. UNCHANGED <<disk, Others>> /\ builder' = Off /\ disk \in Disks /\ builder \in Builders
  BY DEF BuilderDies, ReleaseInv, ReleaseTypes
<1>2. builder.is # "off"  BY <1>1, WorkingIsNotOff
<1> QED BY <1>1, <1>2, BuilderStep

-----------------------------------------------------------------------------
LEMMA InstallKeeps == ASSUME ReleaseInv, InstallCatalog \/ InstallFiles PROVE ReleaseInv'
<1>1. effects' \in EffectRows /\ installs' \in Nat
  <2>1. effects.catalog \in Nat \ {0} /\ installs \in Nat
    BY DEF ReleaseInv, ReleaseTypes, EffectRows
  <2>2. CASE InstallCatalog
    <3>1. effects' = [catalog |-> effects.catalog + 1, file |-> None] /\ installs' = installs + 1
      BY <2>2 DEF InstallCatalog
    <3>2. effects.catalog + 1 \in Nat \ {0} /\ None \in Nat /\ installs + 1 \in Nat
      BY <2>1 DEF None
    <3> QED BY <3>1, <3>2 DEF EffectRows
  <2>3. CASE InstallFiles  BY <2>1, <2>3 DEF InstallFiles, Effects, EffectRows
  <2> QED BY <2>2, <2>3
<1>2. UNCHANGED <<disk, project, builder, exporter, release, runs>>
  BY DEF InstallCatalog, InstallFiles
<1>3. ReleaseTypes'  BY <1>1, <1>2 DEF ReleaseInv, ReleaseTypes
<1> QED BY <1>2, <1>3 DEF ReleaseInv, Recorded, BuilderHolds, ExporterHolds, PackHolds
-----------------------------------------------------------------------------
\* A step of the exporter changes nothing but the exporter and a release.
LEMMA ExporterStep ==
    ASSUME ReleaseInv, exporter # Off, UNCHANGED <<disk, project, effects, builder, installs>>,
           runs' \in Nat, release' \in [Target -> {NoPack} \cup Stages],
           \A t \in Target : release'[t] # NoPack => PackHolds(t, release'[t]),
           exporter' = Off \/ (exporter' \in Exporters /\ ExporterHolds')
    PROVE  ReleaseInv'
<1>1. builder = Off  BY DEF ReleaseInv, BuilderHolds
<1>2. ReleaseTypes'  BY DEF ReleaseInv, ReleaseTypes
<1>3. Recorded' /\ BuilderHolds' /\ ExporterHolds'
  BY <1>1 DEF ReleaseInv, Recorded, BuilderHolds, ExporterHolds
<1>4. (\A t \in Target : release[t] # NoPack => PackHolds(t, release[t]))'
  BY DEF PackHolds
<1> QED BY <1>2, <1>3, <1>4 DEF ReleaseInv

\* Until it publishes, the releases stay.
LEMMA ExporterGoesOn ==
    ASSUME ReleaseInv, exporter # Off,
           UNCHANGED <<disk, project, effects, builder, runs, installs, release>>,
           exporter' = Off \/ (exporter' \in Exporters /\ ExporterHolds')
    PROVE  ReleaseInv'
<1>1. /\ runs' \in Nat /\ release' \in [Target -> {NoPack} \cup Stages]
      /\ \A t \in Target : release'[t] # NoPack => PackHolds(t, release'[t])
  BY DEF ReleaseInv, ReleaseTypes
<1> QED BY <1>1, ExporterStep

LEMMA AtIsNotOff == ASSUME NEW s \in {"requiring", "staging"} \cup ExportSteps, ExporterAt(s)
                    PROVE  exporter # Off /\ exporter.is = s
  BY DEF ExporterAt, Off, ExportSteps

LEMMA StagingFields ==
    ASSUME ReleaseInv, exporter.is \in ExportSteps
    PROVE  /\ exporter \in Staging /\ exporter.expects \in Clients
           /\ exporter.target \in Target /\ exporter.effects \in EffectRows
           /\ exporter.stage \in Stages
           /\ exporter.effects.file = exporter.effects.catalog
           /\ exporter.stage.glb = disk.glb /\ exporter.stage.client = disk.client
           /\ exporter.expects = disk.client /\ disk.glb = disk.client.digests
           /\ OfOneGeometry(disk.glb)
<1>1. exporter \in Exporters /\ exporter # Off
  BY DEF ReleaseInv, ReleaseTypes, Off, ExportSteps
<1>2. exporter \in Staging  BY <1>1 DEF Exporters, Beginning, Required, ExportSteps
<1>3. exporter.is # "requiring"  BY DEF ExportSteps
<1>4. exporter.effects.file = exporter.effects.catalog
      /\ exporter.stage.glb = disk.glb /\ exporter.stage.client = disk.client
      /\ exporter.expects = disk.client /\ disk.glb = disk.client.digests
      /\ OfOneGeometry(disk.glb)
  BY <1>1, <1>3 DEF ReleaseInv, ExporterHolds
<1> QED BY <1>2, <1>4 DEF Staging

LEMMA ExportKeeps == ASSUME ReleaseInv, Export PROVE ReleaseInv'
<1>1. builder = Off /\ exporter = Off /\ runs' = runs + 1
      /\ UNCHANGED <<disk, project, effects, builder, release, installs>>
  BY DEF Export
<1>2. CASE MatchesManifest /\ exporter' = [is |-> "requiring", expects |-> disk.client]
  <2>1. exporter' \in Exporters /\ exporter'.is = "requiring"
        /\ exporter'.expects = disk.client
    BY <1>2, DiskFields DEF Exporters, Beginning, ReleaseInv
  <2>2. OfOneGeometry(disk.client.digests) /\ disk.glb = disk.client.digests
    BY <1>2 DEF ReleaseInv, Recorded, MatchesManifest
  <2>3. ReleaseTypes'  BY <1>1, <2>1 DEF ReleaseInv, ReleaseTypes
  <2>4. ExporterHolds'  BY <1>1, <2>1, <2>2 DEF ExporterHolds, ExportSteps
  <2>5. Recorded' /\ BuilderHolds'  BY <1>1 DEF ReleaseInv, Recorded, BuilderHolds
  <2> QED BY <1>1, <2>3, <2>4, <2>5 DEF ReleaseInv, PackHolds
<1>3. CASE UNCHANGED exporter
  <2>1. ReleaseTypes'  BY <1>1, <1>3 DEF ReleaseInv, ReleaseTypes
  <2> QED BY <1>1, <1>3, <2>1 DEF ReleaseInv, Recorded, BuilderHolds, ExporterHolds, PackHolds
<1> QED BY <1>2, <1>3 DEF Export

LEMMA RequireEffectsKeeps == ASSUME ReleaseInv, RequireEffects PROVE ReleaseInv'
<1>1. exporter # Off /\ exporter.is = "requiring"
      /\ UNCHANGED <<disk, project, effects, builder, runs, installs, release>>
  BY AtIsNotOff DEF RequireEffects, FailExport, ExporterAt
<1>2. CASE exporter' = Off  BY <1>1, <1>2, ExporterGoesOn
<1>3. CASE EffectsAreInstalled /\ exporter' # Off
  <2>1. PICK t \in Target :
          exporter' = [is |-> "staging", expects |-> exporter.expects, target |-> t,
                       effects |-> effects]
    BY <1>3 DEF RequireEffects, FailExport
  <2>2. exporter.expects = disk.client /\ disk.glb = disk.client.digests
        /\ OfOneGeometry(disk.glb)
    BY <1>1 DEF ReleaseInv, ExporterHolds
  <2>3. exporter' \in Exporters
    BY <2>1, <2>2, DiskFields DEF Exporters, Required, ReleaseInv, ReleaseTypes
  <2>4. ExporterHolds'
    BY <1>1, <1>3, <2>1, <2>2 DEF ExporterHolds, ExportSteps, EffectsAreInstalled
  <2> QED BY <1>1, <2>3, <2>4, ExporterGoesOn
<1> QED BY <1>2, <1>3 DEF RequireEffects, FailExport

LEMMA StageProjectKeeps == ASSUME ReleaseInv, StageProject PROVE ReleaseInv'
<1> DEFINE staged == [client |-> disk.client, glb |-> disk.glb, png |-> disk.png,
                      effects |-> effects, characters |-> project.characters,
                      skills |-> project.skills, motion |-> project.motion]
<1>1. exporter # Off /\ exporter.is = "staging"
      /\ UNCHANGED <<disk, project, effects, builder, runs, installs, release>>
  BY AtIsNotOff DEF StageProject, ExporterAt
<1>2. exporter' = [is |-> "choosing", expects |-> exporter.expects,
                   target |-> exporter.target, effects |-> exporter.effects,
                   stage |-> staged]
  BY DEF StageProject
<1>3. staged \in Stages /\ staged.glb = disk.glb /\ staged.client = disk.client
  BY DiskFields DEF Stages, ReleaseInv, ReleaseTypes
<1> HIDE DEF staged
<1>4. exporter.expects = disk.client /\ disk.glb = disk.client.digests
      /\ OfOneGeometry(disk.glb) /\ exporter.effects.file = exporter.effects.catalog
  BY <1>1 DEF ReleaseInv, ExporterHolds
<1>5. exporter.target \in Target /\ exporter.effects \in EffectRows
      /\ exporter.expects \in Clients
  BY <1>1 DEF ReleaseInv, ReleaseTypes, Exporters, Beginning, Required, Staging, ExportSteps
<1>6. exporter' \in Exporters  BY <1>2, <1>3, <1>5 DEF Exporters, Staging, ExportSteps
<1>7. ExporterHolds'  BY <1>1, <1>2, <1>3, <1>4 DEF ExporterHolds
<1> QED BY <1>1, <1>6, <1>7, ExporterGoesOn

\* An exporter that goes on with what it has staged.
LEMMA StagingGoes ==
    ASSUME NEW e \in Staging, NEW s \in ExportSteps
    PROVE  LET n == [e EXCEPT !.is = s]
           IN /\ n \in Staging /\ n.is = s /\ n.expects = e.expects /\ n.target = e.target
              /\ n.effects = e.effects /\ n.stage = e.stage
  BY DEF Staging

\* What it may stage in the place of what it had, before it is packed.
LEMMA StagedAgain ==
    ASSUME ReleaseInv, exporter.is \in ExportSteps, NEW w \in Stages,
           w.client = exporter.stage.client, w.glb = exporter.stage.glb,
           exporter' = [exporter EXCEPT !.is = "copying", !.stage = w]
             \/ exporter' = [exporter EXCEPT !.is = "effects", !.stage = w],
           UNCHANGED <<disk, project, effects, builder, runs, installs, release>>
    PROVE  ReleaseInv'
<1>1. PICK s \in {"copying", "effects"} : exporter' = [exporter EXCEPT !.is = s, !.stage = w]
  OBVIOUS
<1>2. s \in ExportSteps /\ exporter # Off /\ exporter \in Staging
  BY StagingFields DEF ExportSteps, Off
<1>3. /\ exporter' \in Staging /\ exporter'.is = s /\ exporter'.expects = exporter.expects
      /\ exporter'.target = exporter.target
      /\ exporter'.effects = exporter.effects /\ exporter'.stage = w
  BY <1>1, <1>2 DEF Staging
<1>4. ExporterHolds'  BY <1>3, StagingFields DEF ExporterHolds
<1>5. exporter' \in Exporters  BY <1>3 DEF Exporters
<1> QED BY <1>2, <1>4, <1>5, ExporterGoesOn
LEMMA StageCandidatesKeeps == ASSUME ReleaseInv, StageCandidates PROVE ReleaseInv'
<1>1. exporter # Off /\ exporter.is = "choosing" /\ exporter.is \in ExportSteps
      /\ UNCHANGED <<disk, project, effects, builder, runs, installs, release>>
  BY AtIsNotOff DEF StageCandidates, ExporterAt, Exports, FailExport, ExportSteps
<1>2. exporter.stage \in Stages /\ exporter \in Staging  BY <1>1, StagingFields
<1>3. CASE exporter' = Off  BY <1>1, <1>3, ExporterGoesOn
<1>4. CASE Exports("copying")
  <2>1. exporter' = [exporter EXCEPT !.is = "copying", !.stage = exporter.stage]
    BY <1>2, <1>4 DEF Exports, Staging
  <2> QED BY <1>1, <1>2, <2>1, StagedAgain
<1>5. ASSUME NEW c \in Candidates,
             LET with == [Staged EXCEPT !.skills = c.skills]
             IN \/ exporter' = [exporter EXCEPT !.is = "copying", !.stage = with]
                \/ exporter' = [exporter EXCEPT !.is = "copying",
                                  !.stage = [with EXCEPT !.motion = c.motion]]
      PROVE  ReleaseInv'
  <2> DEFINE with == [exporter.stage EXCEPT !.skills = c.skills]
             both == [with EXCEPT !.motion = c.motion]
  <2>1. \/ exporter' = [exporter EXCEPT !.is = "copying", !.stage = with]
        \/ exporter' = [exporter EXCEPT !.is = "copying", !.stage = both]
    BY <1>5 DEF Staged
  <2>2. with \in Stages /\ with.client = exporter.stage.client
        /\ with.glb = exporter.stage.glb
    BY <1>2 DEF Stages
  <2>3. both \in Stages /\ both.client = exporter.stage.client
        /\ both.glb = exporter.stage.glb
    <3> HIDE DEF with
    <3> QED BY <2>2 DEF Stages
  <2> HIDE DEF with, both
  <2>4. CASE exporter' = [exporter EXCEPT !.is = "copying", !.stage = with]
    BY <1>1, <2>2, <2>4, StagedAgain
  <2>5. CASE exporter' = [exporter EXCEPT !.is = "copying", !.stage = both]
    BY <1>1, <2>3, <2>5, StagedAgain
  <2> QED BY <2>1, <2>4, <2>5
<1> QED BY <1>3, <1>4, <1>5 DEF StageCandidates, FailExport

LEMMA CopyEffectCatalogKeeps == ASSUME ReleaseInv, CopyEffectCatalog PROVE ReleaseInv'
<1> DEFINE w == [exporter.stage EXCEPT !.effects = [catalog |-> effects.catalog, file |-> None]]
<1>1. exporter # Off /\ exporter.is = "copying" /\ exporter.is \in ExportSteps
      /\ UNCHANGED <<disk, project, effects, builder, runs, installs, release>>
  BY AtIsNotOff DEF CopyEffectCatalog, ExporterAt, ExportSteps
<1>2. exporter' = [exporter EXCEPT !.is = "effects", !.stage = w]
  BY DEF CopyEffectCatalog
<1>3. [catalog |-> effects.catalog, file |-> None] \in EffectRows
  BY DEF ReleaseInv, ReleaseTypes, EffectRows, None
<1>4. exporter.stage \in Stages  BY <1>1, StagingFields
<1>5. w \in Stages /\ w.client = exporter.stage.client /\ w.glb = exporter.stage.glb
  BY <1>3, <1>4 DEF Stages
<1> HIDE DEF w
<1> QED BY <1>1, <1>2, <1>5, StagedAgain

LEMMA StageEffectsKeeps == ASSUME ReleaseInv, StageEffects PROVE ReleaseInv'
<1> DEFINE staged == [exporter.stage.effects EXCEPT !.file = effects.file]
           w == [exporter.stage EXCEPT !.effects = staged]
<1>1. exporter # Off /\ exporter.is = "effects" /\ exporter.is \in ExportSteps
      /\ UNCHANGED <<disk, project, effects, builder, runs, installs, release>>
  BY AtIsNotOff DEF StageEffects, ExporterAt, FailExport, ExportSteps
<1>2. CASE exporter' = Off  BY <1>1, <1>2, ExporterGoesOn
<1>3. CASE staged = exporter.effects /\ exporter' = [exporter EXCEPT !.is = "packing",
                                                                     !.stage.effects = staged]
  <2>1. exporter' = [exporter EXCEPT !.is = "packing", !.stage = w]  BY <1>3
  <2>2. exporter.stage \in Stages /\ exporter \in Staging /\ exporter.effects \in EffectRows
    BY <1>1, StagingFields
  <2>3. w \in Stages /\ w.client = exporter.stage.client /\ w.glb = exporter.stage.glb
        /\ w.effects = exporter.effects
    <3> HIDE DEF staged
    <3> QED BY <1>3, <2>2 DEF Stages
  <2> HIDE DEF w
  <2>4. /\ exporter' \in Staging /\ exporter'.is = "packing"
        /\ exporter'.expects = exporter.expects /\ exporter'.target = exporter.target
        /\ exporter'.effects = exporter.effects /\ exporter'.stage = w
    BY <2>1, <2>2, <2>3 DEF Staging, ExportSteps
  <2>5. ExporterHolds'  BY <1>1, <2>3, <2>4, StagingFields DEF ExporterHolds
  <2>6. exporter' \in Exporters  BY <2>4 DEF Exporters
  <2> QED BY <1>1, <2>5, <2>6, ExporterGoesOn
<1> QED BY <1>2, <1>3 DEF StageEffects, FailExport, Staged

\* Going on with what is packed, with what the pack was found to have.
LEMMA PackedGoes ==
    ASSUME ReleaseInv, exporter.is \in {"packing", "auditing", "publishing", "replacing"},
           NEW s \in {"auditing", "publishing", "replacing"},
           s = "auditing" \/ exporter.target = "windows"
             \/ MotionMatches(exporter.stage.motion, exporter.stage),
           exporter' = [exporter EXCEPT !.is = s],
           UNCHANGED <<disk>>
    PROVE  exporter' \in Exporters /\ ExporterHolds'
<1>1. s \in ExportSteps /\ exporter.is \in ExportSteps /\ exporter # Off
  BY DEF ExportSteps, Off
<1>2. exporter \in Staging /\ exporter.stage.effects = exporter.effects
  BY <1>1, StagingFields DEF ReleaseInv, ExporterHolds
<1>3. /\ exporter' \in Staging /\ exporter'.is = s
      /\ exporter'.expects = exporter.expects /\ exporter'.target = exporter.target
      /\ exporter'.effects = exporter.effects /\ exporter'.stage = exporter.stage
  BY <1>1, <1>2, StagingGoes
<1>4. ExporterHolds'  BY <1>1, <1>2, <1>3, StagingFields DEF ExporterHolds
<1> QED BY <1>3, <1>4 DEF Exporters

LEMMA PackKeeps == ASSUME ReleaseInv, Pack \/ AuditPack PROVE ReleaseInv'
<1>1. exporter # Off /\ exporter.is \in {"packing", "auditing"}
      /\ UNCHANGED <<disk, project, effects, builder, runs, installs, release>>
  BY AtIsNotOff DEF Pack, AuditPack, ExporterAt, Exports, FailExport, ExportSteps
<1>2. CASE exporter' = Off  BY <1>1, <1>2, ExporterGoesOn
<1>3. CASE exporter' # Off /\ Pack
  <2>1. exporter' = [exporter EXCEPT !.is = "auditing"]
    BY <1>3 DEF Pack, Exports, FailExport
  <2> QED BY <1>1, <2>1, PackedGoes, ExporterGoesOn
<1>4. CASE exporter' # Off /\ AuditPack
  <2>1. exporter' = [exporter EXCEPT !.is = "publishing"]
        /\ (exporter.target = "windows" \/ MotionMatches(exporter.stage.motion, exporter.stage))
    BY <1>4 DEF AuditPack, Exports, FailExport, Staged
  <2> QED BY <1>1, <2>1, PackedGoes, ExporterGoesOn
<1> QED BY <1>2, <1>3, <1>4

LEMMA PublishKeeps == ASSUME ReleaseInv, RemoveReleased \/ Replace PROVE ReleaseInv'
<1>1. exporter # Off /\ exporter.is \in {"publishing", "replacing"}
      /\ UNCHANGED <<disk, project, effects, builder, runs, installs>>
  BY AtIsNotOff DEF RemoveReleased, Replace, ExporterAt, ExportSteps
<1>2. exporter.is \in ExportSteps /\ exporter.is # "requiring"  BY <1>1 DEF ExportSteps
<1>3. /\ exporter.target \in Target /\ exporter.stage \in Stages
      /\ exporter.effects.file = exporter.effects.catalog
      /\ exporter.stage.effects = exporter.effects
      /\ exporter.stage.glb = disk.glb /\ exporter.stage.client = disk.client
      /\ disk.glb = disk.client.digests /\ OfOneGeometry(disk.glb)
      /\ exporter.target # "windows" => MotionMatches(exporter.stage.motion, exporter.stage)
  BY <1>1, <1>2, StagingFields DEF ReleaseInv, ExporterHolds
<1>4. PackHolds(exporter.target, exporter.stage)  BY <1>3 DEF PackHolds
<1>5. release \in [Target -> {NoPack} \cup Stages] /\ runs' \in Nat
      /\ \A t \in Target : release[t] # NoPack => PackHolds(t, release[t])
  BY <1>1 DEF ReleaseInv, ReleaseTypes
<1>6. CASE RemoveReleased
  <2>1. exporter' = [exporter EXCEPT !.is = "replacing"]
        /\ release' = [release EXCEPT ![exporter.target] = NoPack]
    BY <1>6 DEF RemoveReleased
  <2>2. exporter' \in Exporters /\ ExporterHolds'  BY <1>1, <1>3, <2>1, PackedGoes
  <2>3. release' \in [Target -> {NoPack} \cup Stages]
        /\ \A t \in Target : release'[t] # NoPack => PackHolds(t, release'[t])
    BY <1>3, <1>5, <2>1
  <2> QED BY <1>1, <1>5, <2>2, <2>3, ExporterStep
<1>7. CASE Replace
  <2>1. exporter' = Off /\ release' = [release EXCEPT ![exporter.target] = exporter.stage]
    BY <1>7 DEF Replace, Staged
  <2>2. release' \in [Target -> {NoPack} \cup Stages]
        /\ \A t \in Target : release'[t] # NoPack => PackHolds(t, release'[t])
    BY <1>3, <1>4, <1>5, <2>1
  <2> QED BY <1>1, <1>5, <2>1, <2>2, ExporterStep
<1> QED BY <1>6, <1>7

LEMMA ExporterDiesKeeps == ASSUME ReleaseInv, ExporterDies PROVE ReleaseInv'
  BY ExporterGoesOn DEF ExporterDies

LEMMA ReleaseStep == ReleaseInv /\ [ReleaseNext]_releaseVars => ReleaseInv'
<1> SUFFICES ASSUME ReleaseInv, [ReleaseNext]_releaseVars PROVE ReleaseInv'
  OBVIOUS
<1>1. CASE UNCHANGED releaseVars
  BY <1>1 DEF releaseVars, ReleaseInv, ReleaseTypes, Recorded, BuilderHolds, ExporterHolds,
              PackHolds
<1>2. CASE Build \/ WriteNormalized \/ WriteServer \/ WriteReport \/ Convert
  BY <1>2, BuildKeeps, WriteNormalizedKeeps, WriteServerKeeps, WriteReportKeeps, ConvertKeeps
<1>3. CASE \E g \in Glb : CopyModel(g)  BY <1>3, CopyModelKeeps
<1>4. CASE \/ ExtractTextures \/ RecordConversion \/ WriteClient \/ WriteBuilt
           \/ BuilderDies \/ InstallCatalog \/ InstallFiles
  BY <1>4, ExtractTexturesKeeps, RecordConversionKeeps, WriteClientKeeps, WriteBuiltKeeps,
     BuilderDiesKeeps, InstallKeeps
<1>5. CASE \/ Export \/ RequireEffects \/ StageProject \/ StageCandidates
           \/ CopyEffectCatalog \/ StageEffects \/ Pack \/ AuditPack
  BY <1>5, ExportKeeps, RequireEffectsKeeps, StageProjectKeeps, StageCandidatesKeeps,
     CopyEffectCatalogKeeps, StageEffectsKeeps, PackKeeps
<1>6. CASE RemoveReleased \/ Replace \/ ExporterDies
  BY <1>6, PublishKeeps, ExporterDiesKeeps
<1> QED BY <1>1, <1>2, <1>3, <1>4, <1>5, <1>6 DEF ReleaseNext

\* Whatever builders died halfway and whatever conversion was used again, the
\* models of a release are those its manifest describes, of one geometry.
THEOREM ReleaseIsOneBuildCorrect == ReleaseSpec => []ReleaseIsOneBuild
  BY ReleaseBegins, ReleaseStep, ReleaseInvHolds, PTL DEF ReleaseSpec

\* The target effects of a release are of one catalogue, and its motions show
\* the effects made for the characters and skills released with them.
THEOREM EffectsAreTheirsCorrect == ReleaseSpec => []EffectsAreTheirs
  BY ReleaseBegins, ReleaseStep, ReleaseInvHolds, PTL DEF ReleaseSpec

HIDE ReleaseAssumption

-----------------------------------------------------------------------------
(* Archive: what is read.                                                    *)

Doing == {"idle", "asking", "checking", "writing", "raised"}
Threads == [is : Doing, path : Nat, content : Int, attempt : Int]
Busy(t) == thread[t].is \in {"asking", "checking", "writing"}

ArchiveTypes ==
    /\ archive \in Archives /\ asked \subseteq archive.asked
    /\ cached \in [DOMAIN cached -> Int] /\ archive.asked \subseteq DOMAIN cached
    /\ thread \in [Thread -> Threads]
    /\ \A t \in Thread : Busy(t) => thread[t].path \in archive.asked

Pinned(p) == EntryOf(p).content
Writes(t, p) == thread[t].is = "writing" /\ thread[t].path = p

\* A path that was asked for is still queued, or some thread has it, or it is
\* what the inventory says, unless the fetch is going to fail.
IsSettled(p) ==
    \/ p \in asked
    \/ \E t \in Thread : Busy(t) /\ thread[t].path = p
    \/ cached[p] = Pinned(p)
    \/ \E t \in Thread : thread[t].is = "raised"

\* What a thread that asks knows of the file, and one that checks.
IsPlain(p) ==
    cached[p] \in {Absent, Pinned(p)} \/ \E u \in Thread : Writes(u, p)
KnowsIts(t) ==
    /\ thread[t].is = "asking" => IsPlain(thread[t].path)
    /\ thread[t].is = "checking" =>
         IsPlain(thread[t].path) \/ cached[thread[t].path] = thread[t].content
    /\ thread[t].is = "writing" => thread[t].content = Pinned(thread[t].path)

ArchiveInv ==
    /\ ArchiveTypes
    /\ tool # "fetching" => \A t \in Thread : thread[t].is = "idle"
    /\ tool = "fetching" => \A p \in archive.asked : IsSettled(p)
    /\ tool = "reading" => \A p \in archive.asked : cached[p] = Pinned(p)
    /\ tool = "done" => \A p \in archive.asked : used[p] = Pinned(p)
    /\ \A t \in Thread : KnowsIts(t)

\* A thread steps: only its own record changes.
Alone(t) ==
    /\ tool = "fetching" /\ UNCHANGED <<archive, tool, tools, used>>
    /\ \E to \in Threads : Does(t, to)

LEMMA ArchiveStarts == ArchiveInit => ArchiveInv
<1> SUFFICES ASSUME ArchiveInit PROVE ArchiveInv
  OBVIOUS
<1>1. \A t \in Thread : thread[t] = Idle  BY DEF ArchiveInit, ArchiveStart
<1>2. Idle \in Threads  BY DEF Idle, Threads, Doing, Absent
<1>3. Idle.is = "idle"  BY DEF Idle
<1>4. thread \in [Thread -> Threads]  BY <1>2 DEF ArchiveInit, ArchiveStart
<1>5. tool = "inventory" /\ asked = {} /\ archive \in Archives /\ cached \in Caches
  BY DEF ArchiveInit, ArchiveStart
<1>6. cached \in [DOMAIN cached -> Int] /\ archive.asked \subseteq DOMAIN cached
  BY <1>5, ArchiveAssumption
<1> QED BY <1>1, <1>3, <1>4, <1>5, <1>6 DEF ArchiveInv, ArchiveTypes, Busy, KnowsIts

\* Neither the inventory of an archive nor what it pins changes.
LEMMA PinnedStays ==
    ASSUME UNCHANGED archive
    PROVE  \A p : Pinned(p)' = Pinned(p)
  BY DEF Pinned, EntryOf, ArchiveEntries

LEMMA TakeKeeps ==
    ASSUME ArchiveInv, NEW t \in Thread, Take(t)
    PROVE  ArchiveInv'
<1>0. PICK p : p = Min(asked)
  OBVIOUS
<1> DEFINE to == [is |-> IF cached[p] = Absent THEN "asking" ELSE "checking",
                  path |-> p, content |-> cached[p], attempt |-> 1]
<1>1. /\ tool = "fetching" /\ thread[t].is = "idle" /\ asked # {}
      /\ UNCHANGED <<archive, tool, tools, cached, used>>
      /\ thread' = [thread EXCEPT ![t] = to] /\ asked' = asked \ {p}
  BY <1>0 DEF Take, IsAt, Does
<1>2. archive \in Archives /\ asked \subseteq archive.asked /\ archive.asked \subseteq DOMAIN cached
      /\ cached \in [DOMAIN cached -> Int] /\ thread \in [Thread -> Threads]
  BY DEF ArchiveInv, ArchiveTypes
<1>3. asked \in SUBSET Nat  BY <1>2, ArchiveAssumption
<1>4. p \in asked  BY <1>0, <1>1, <1>3, MinIsLeast
<1>5. p \in Nat /\ p \in archive.asked /\ cached[p] \in Int  BY <1>2, <1>3, <1>4
<1>6. to \in Threads /\ to.path = p /\ to.content = cached[p]
      /\ to.is \in {"asking", "checking"} /\ (to.is = "asking" => cached[p] = Absent)
  BY <1>5 DEF Threads, Doing
<1> HIDE DEF to
<1>7. thread' \in [Thread -> Threads] /\ thread'[t] = to
      /\ \A u \in Thread \ {t} : thread'[u] = thread[u]
  BY <1>1, <1>2, <1>6
<1>8. \A q : Pinned(q)' = Pinned(q)  BY <1>1, PinnedStays
<1>9. ArchiveTypes'  BY <1>1, <1>2, <1>5, <1>6, <1>7 DEF ArchiveInv, ArchiveTypes, Busy
<1>10. ASSUME NEW q \in archive.asked PROVE IsSettled(q)'
  <2>1. IsSettled(q)  BY <1>1 DEF ArchiveInv
  <2>2. CASE q = p  BY <2>2, <1>6, <1>7 DEF IsSettled, Busy
  <2>3. CASE q # p  BY <2>1, <2>3, <1>1, <1>7, <1>8 DEF IsSettled, Busy
  <2> QED BY <2>2, <2>3
<1>11. \A q : IsPlain(q) => IsPlain(q)'
  <2>1. \A q : \A u \in Thread : Writes(u, q) => Writes(u, q)'  BY <1>1, <1>7 DEF Writes
  <2> QED BY <2>1, <1>1, <1>8 DEF IsPlain
<1>12. ASSUME NEW u \in Thread PROVE KnowsIts(u)'
  <2>1. CASE u = t
    <3>1. thread'[u].is = "asking" => IsPlain(p)'  BY <2>1, <1>1, <1>6, <1>7 DEF IsPlain
    <3> QED BY <3>1, <2>1, <1>1, <1>6, <1>7 DEF KnowsIts
  <2>2. CASE u # t
    <3>1. KnowsIts(u) /\ thread'[u] = thread[u]  BY <2>2, <1>7 DEF ArchiveInv
    <3> QED BY <3>1, <1>1, <1>8, <1>11 DEF KnowsIts
  <2> QED BY <2>1, <2>2
<1> QED BY <1>1, <1>9, <1>10, <1>12 DEF ArchiveInv

\* A thread that raises leaves nothing to be said of the paths.
LEMMA RaiseKeeps ==
    ASSUME ArchiveInv, NEW t \in Thread, tool = "fetching", Busy(t),
           thread[t].is # "writing", Raise(t),
           UNCHANGED <<archive, tool, tools, used>>
    PROVE  ArchiveInv'
<1> DEFINE to == [thread[t] EXCEPT !.is = "raised"]
<1>1. thread' = [thread EXCEPT ![t] = to] /\ asked' = {} /\ UNCHANGED cached
  BY DEF Raise, Does
<1>2. thread \in [Thread -> Threads]  BY DEF ArchiveInv, ArchiveTypes
<1>3. to \in Threads /\ to.is = "raised"  BY <1>2 DEF Threads, Doing
<1> HIDE DEF to
<1>4. thread' \in [Thread -> Threads] /\ thread'[t] = to
      /\ \A u \in Thread \ {t} : thread'[u] = thread[u]
  BY <1>1, <1>2, <1>3
<1>5. \A q : Pinned(q)' = Pinned(q)  BY PinnedStays
<1>6. ArchiveTypes'  BY <1>1, <1>3, <1>4 DEF ArchiveInv, ArchiveTypes, Busy
<1>7. \A q \in archive.asked : IsSettled(q)'  BY <1>3, <1>4 DEF IsSettled
<1>8. \A q : IsPlain(q) => IsPlain(q)'
  <2>1. \A q : \A u \in Thread : Writes(u, q) => Writes(u, q)'  BY <1>4 DEF Writes
  <2> QED BY <2>1, <1>1, <1>5 DEF IsPlain
<1>9. ASSUME NEW u \in Thread PROVE KnowsIts(u)'
  <2>1. CASE u = t  BY <2>1, <1>3, <1>4 DEF KnowsIts
  <2>2. CASE u # t
    <3>1. KnowsIts(u) /\ thread'[u] = thread[u]  BY <2>2, <1>4 DEF ArchiveInv
    <3> QED BY <3>1, <1>1, <1>5, <1>8 DEF KnowsIts
  <2> QED BY <2>1, <2>2
<1> QED BY <1>6, <1>7, <1>9 DEF ArchiveInv

\* A thread that goes on with the same path and has asked for it.
LEMMA GoesOnKeeps ==
    ASSUME ArchiveInv, NEW t \in Thread, NEW to \in Threads,
           thread[t].is = "asking", Does(t, to), to.path = thread[t].path,
           to.is \in {"asking", "checking"},
           UNCHANGED <<archive, tool, tools, used, cached, asked>>
    PROVE  ArchiveInv'
<1>1. thread \in [Thread -> Threads]  BY DEF ArchiveInv, ArchiveTypes
<1>2. thread' \in [Thread -> Threads] /\ thread'[t] = to
      /\ \A u \in Thread \ {t} : thread'[u] = thread[u]
  BY <1>1 DEF Does
<1>3. \A q : Pinned(q)' = Pinned(q)  BY PinnedStays
<1>4. \A u \in Thread : (Busy(u) <=> Busy(u)') /\ thread'[u].path = thread[u].path
  BY <1>2 DEF Busy
<1>5. ArchiveTypes'  BY <1>2, <1>4 DEF ArchiveInv, ArchiveTypes
<1>6. \A q : IsSettled(q) => IsSettled(q)'
  <2>1. \A u \in Thread : thread[u].is = "raised" => thread'[u].is = "raised"  BY <1>2
  <2> QED BY <2>1, <1>3, <1>4 DEF IsSettled
<1>7. \A q : IsPlain(q) => IsPlain(q)'
  <2>1. \A q : \A u \in Thread : Writes(u, q) => Writes(u, q)'  BY <1>2 DEF Writes
  <2> QED BY <2>1, <1>3 DEF IsPlain
<1>8. ASSUME NEW u \in Thread PROVE KnowsIts(u)'
  <2>1. CASE u = t  BY <2>1, <1>2, <1>7 DEF KnowsIts, ArchiveInv
  <2>2. CASE u # t
    <3>1. KnowsIts(u) /\ thread'[u] = thread[u]  BY <2>2, <1>2 DEF ArchiveInv
    <3> QED BY <3>1, <1>3, <1>7 DEF KnowsIts
  <2> QED BY <2>1, <2>2
<1>9. tool = "fetching"
  <2>1. thread[t].is # "idle"
    OBVIOUS
  <2> QED BY <2>1 DEF ArchiveInv
<1> QED BY <1>5, <1>6, <1>8, <1>9 DEF ArchiveInv

LEMMA AskKeeps ==
    ASSUME ArchiveInv, NEW t \in Thread, Ask(t)
    PROVE  ArchiveInv'
<1> DEFINE answer == archive.answers[thread[t].path]
           to == [thread[t] EXCEPT !.is = "checking", !.content = answer.bytes]
<1>1. tool = "fetching" /\ thread[t].is = "asking" /\ UNCHANGED <<archive, tool, tools, used>>
  BY DEF Ask, IsAt
<1>2. Busy(t)  BY <1>1 DEF Busy
<1>3. CASE Raise(t)  BY <1>1, <1>2, <1>3, RaiseKeeps
<1>4. CASE Does(t, to) /\ UNCHANGED <<asked, cached>>
  <2>1. thread[t] \in Threads /\ archive \in Archives /\ thread[t].path \in archive.asked
    BY <1>2 DEF ArchiveInv, ArchiveTypes
  <2>2. answer.bytes \in Int  BY <2>1, ArchiveAssumption
  <2>3. to \in Threads /\ to.path = thread[t].path /\ to.is = "checking"
    BY <2>1, <2>2 DEF Threads, Doing
  <2> HIDE DEF to, answer
  <2> QED BY <1>1, <1>4, <2>3, GoesOnKeeps
<1> QED BY <1>3, <1>4 DEF Ask

LEMMA AskAgainKeeps ==
    ASSUME ArchiveInv, NEW t \in Thread, AskAgain(t)
    PROVE  ArchiveInv'
<1> DEFINE to == [thread[t] EXCEPT !.attempt = @ + 1]
<1>1. tool = "fetching" /\ thread[t].is = "asking" /\ UNCHANGED <<archive, tool, tools, used>>
  BY DEF AskAgain, IsAt
<1>2. Busy(t)  BY <1>1 DEF Busy
<1>3. CASE Raise(t)  BY <1>1, <1>2, <1>3, RaiseKeeps
<1>4. CASE Does(t, to) /\ UNCHANGED <<asked, cached>>
  <2>1. thread[t] \in Threads  BY DEF ArchiveInv, ArchiveTypes
  <2>2. to \in Threads /\ to.path = thread[t].path /\ to.is = "asking"
    BY <1>1, <2>1 DEF Threads, Doing
  <2> HIDE DEF to
  <2> QED BY <1>1, <1>4, <2>2, GoesOnKeeps
<1> QED BY <1>3, <1>4 DEF AskAgain

\* A file that is what the inventory says needs no thread.
LEMMA RestsKeeps ==
    ASSUME ArchiveInv, NEW t \in Thread, thread[t].is = "checking", tool = "fetching",
           thread[t].content = Pinned(thread[t].path), cached[thread[t].path] # Absent,
           Does(t, Idle), UNCHANGED <<archive, tool, tools, used, asked, cached>>
    PROVE  ArchiveInv'
<1>1. thread \in [Thread -> Threads] /\ Idle \in Threads /\ Idle.is = "idle"
  BY DEF ArchiveInv, ArchiveTypes, Idle, Threads, Doing, Absent
<1>2. thread' \in [Thread -> Threads] /\ thread'[t] = Idle
      /\ \A u \in Thread \ {t} : thread'[u] = thread[u]
  BY <1>1 DEF Does
<1>3. \A q : Pinned(q)' = Pinned(q)  BY PinnedStays
<1>4. ArchiveTypes'  BY <1>1, <1>2 DEF ArchiveInv, ArchiveTypes, Busy
<1>5. PICK p : p = thread[t].path
  OBVIOUS
<1>6. cached[p] = Pinned(p) \/ \E u \in Thread : Writes(u, p)
  BY <1>5 DEF ArchiveInv, KnowsIts, IsPlain
<1>7. ASSUME NEW q \in archive.asked PROVE IsSettled(q)'
  <2>1. IsSettled(q)  BY DEF ArchiveInv
  <2>2. CASE q # p  BY <2>1, <2>2, <1>2, <1>3, <1>5 DEF IsSettled, Busy
  <2>3. CASE q = p /\ cached[p] = Pinned(p)  BY <2>3, <1>3 DEF IsSettled
  <2>4. CASE q = p /\ \E u \in Thread : Writes(u, p)
    <3>1. PICK u \in Thread : Writes(u, p)  BY <2>4
    <3>2. u # t  BY <3>1 DEF Writes
    <3>3. thread'[u].is = "writing" /\ thread'[u].path = q
      BY <3>1, <3>2, <1>2, <2>4 DEF Writes
    <3> QED BY <3>3 DEF IsSettled, Busy
  <2> QED BY <2>2, <2>3, <2>4, <1>6
<1>8. \A q : IsPlain(q) => IsPlain(q)'
  <2>1. \A q : \A u \in Thread : Writes(u, q) => Writes(u, q)'  BY <1>2 DEF Writes
  <2> QED BY <2>1, <1>3 DEF IsPlain
<1>9. ASSUME NEW u \in Thread PROVE KnowsIts(u)'
  <2>1. CASE u = t  BY <2>1, <1>1, <1>2 DEF KnowsIts
  <2>2. CASE u # t
    <3>1. KnowsIts(u) /\ thread'[u] = thread[u]  BY <2>2, <1>2 DEF ArchiveInv
    <3> QED BY <3>1, <1>3, <1>8 DEF KnowsIts
  <2> QED BY <2>1, <2>2
<1> QED BY <1>4, <1>7, <1>9 DEF ArchiveInv

\* A file is opened: it is partly written, and a thread writes it.
LEMMA OpensKeeps ==
    ASSUME ArchiveInv, NEW t \in Thread, thread[t].is = "checking", tool = "fetching",
           thread[t].content = Pinned(thread[t].path),
           Does(t, [thread[t] EXCEPT !.is = "writing"]),
           cached' = [cached EXCEPT ![thread[t].path] = Partial],
           UNCHANGED <<archive, tool, tools, used, asked>>
    PROVE  ArchiveInv'
<1> DEFINE to == [thread[t] EXCEPT !.is = "writing"]
<1>1. thread \in [Thread -> Threads]  BY DEF ArchiveInv, ArchiveTypes
<1>2. to \in Threads /\ to.is = "writing" /\ to.path = thread[t].path
      /\ to.content = thread[t].content
  BY <1>1 DEF Threads, Doing
<1>3. Does(t, to)
  OBVIOUS
<1> HIDE DEF to
<1>4. thread' \in [Thread -> Threads] /\ thread'[t] = to
      /\ \A u \in Thread \ {t} : thread'[u] = thread[u]
  BY <1>1, <1>2, <1>3 DEF Does
<1>5. \A q : Pinned(q)' = Pinned(q)  BY PinnedStays
<1>6. PICK p : p = thread[t].path
  OBVIOUS
<1>7. \A u \in Thread : (Busy(u) <=> Busy(u)') /\ thread'[u].path = thread[u].path
  BY <1>2, <1>4 DEF Busy
<1>8. p \in archive.asked /\ p \in DOMAIN cached /\ cached \in [DOMAIN cached -> Int]
  BY <1>6 DEF ArchiveInv, ArchiveTypes, Busy
<1>9. cached' \in [DOMAIN cached -> Int] /\ \A q \in DOMAIN cached \ {p} : cached'[q] = cached[q]
  BY <1>6, <1>8 DEF Partial
<1>10. ArchiveTypes'  BY <1>4, <1>7, <1>9 DEF ArchiveInv, ArchiveTypes
<1>11. Writes(t, p)'  BY <1>2, <1>4, <1>6 DEF Writes
<1>12. ASSUME NEW q \in archive.asked PROVE IsSettled(q)'
  <2>1. IsSettled(q)  BY DEF ArchiveInv
  <2>2. CASE q = p  BY <2>2, <1>11 DEF IsSettled, Writes, Busy
  <2>3. CASE q # p
    <3>1. q \in DOMAIN cached  BY DEF ArchiveInv, ArchiveTypes
    <3>2. cached'[q] = cached[q]  BY <2>3, <3>1, <1>9
    <3>3. \A u \in Thread : thread[u].is = "raised" => thread'[u].is = "raised"  BY <1>4
    <3> QED BY <2>1, <3>2, <3>3, <1>5, <1>7 DEF IsSettled
  <2> QED BY <2>2, <2>3
<1>13. ASSUME NEW q \in archive.asked PROVE q = p \/ cached'[q] = cached[q]
  BY <1>9 DEF ArchiveInv, ArchiveTypes
<1>14. ASSUME NEW q \in archive.asked, IsPlain(q) PROVE IsPlain(q)'
  <2>1. \A u \in Thread : Writes(u, q) => Writes(u, q)'  BY <1>4 DEF Writes
  <2> QED BY <2>1, <1>5, <1>11, <1>13, <1>14 DEF IsPlain
<1>15. IsPlain(p)'  BY <1>11 DEF IsPlain
<1>16. ASSUME NEW u \in Thread PROVE KnowsIts(u)'
  <2>1. CASE u = t  BY <2>1, <1>2, <1>4, <1>5 DEF KnowsIts
  <2>2. CASE u # t /\ Busy(u)
    <3>1. KnowsIts(u) /\ thread'[u] = thread[u] /\ thread[u].path \in archive.asked
      BY <2>2, <1>4 DEF ArchiveInv, ArchiveTypes
    <3> QED BY <3>1, <1>5, <1>13, <1>14, <1>15 DEF KnowsIts
  <2>3. CASE u # t /\ ~Busy(u)  BY <2>3, <1>4 DEF KnowsIts, Busy
  <2> QED BY <2>1, <2>2, <2>3
<1> QED BY <1>10, <1>12, <1>16 DEF ArchiveInv

LEMMA CheckKeeps ==
    ASSUME ArchiveInv, NEW t \in Thread, Check(t)
    PROVE  ArchiveInv'
<1>1. tool = "fetching" /\ thread[t].is = "checking" /\ UNCHANGED <<archive, tool, tools, used>>
  BY DEF Check, IsAt
<1>2. Busy(t)  BY <1>1 DEF Busy
<1>3. CASE thread[t].content # Pinned(thread[t].path)
  <2>1. Raise(t)  BY <1>3 DEF Check, Pinned
  <2> QED BY <2>1, <1>1, <1>2, RaiseKeeps
<1>4. CASE thread[t].content = Pinned(thread[t].path) /\ cached[thread[t].path] # Absent
  <2>1. Does(t, Idle) /\ UNCHANGED <<asked, cached>>  BY <1>4 DEF Check, Pinned
  <2> QED BY <2>1, <1>1, <1>4, RestsKeeps
<1>5. CASE thread[t].content = Pinned(thread[t].path) /\ cached[thread[t].path] = Absent
  <2>1. /\ cached' = [cached EXCEPT ![thread[t].path] = Partial]
        /\ Does(t, [thread[t] EXCEPT !.is = "writing"]) /\ UNCHANGED asked
    BY <1>5 DEF Check, Pinned
  <2> QED BY <2>1, <1>1, <1>5, OpensKeeps
<1> QED BY <1>3, <1>4, <1>5

LEMMA WriteKeeps ==
    ASSUME ArchiveInv, NEW t \in Thread, Write(t)
    PROVE  ArchiveInv'
<1>1. /\ tool = "fetching" /\ thread[t].is = "writing" /\ Does(t, Idle)
      /\ cached' = [cached EXCEPT ![thread[t].path] = thread[t].content]
      /\ UNCHANGED <<archive, tool, tools, asked, used>>
  BY DEF Write, IsAt
<1>2. thread \in [Thread -> Threads] /\ Idle \in Threads /\ Idle.is = "idle"
  BY DEF ArchiveInv, ArchiveTypes, Idle, Threads, Doing, Absent
<1>3. thread' \in [Thread -> Threads] /\ thread'[t] = Idle
      /\ \A u \in Thread \ {t} : thread'[u] = thread[u]
  BY <1>1, <1>2 DEF Does
<1>4. \A q : Pinned(q)' = Pinned(q)  BY <1>1, PinnedStays
<1>5. PICK p : p = thread[t].path
  OBVIOUS
<1>6. p \in archive.asked /\ p \in DOMAIN cached /\ cached \in [DOMAIN cached -> Int]
      /\ archive.asked \subseteq DOMAIN cached
  BY <1>1, <1>5 DEF ArchiveInv, ArchiveTypes, Busy
<1>7. thread[t].content \in Int /\ thread[t].content = Pinned(p)
  BY <1>1, <1>2, <1>5 DEF Threads, ArchiveInv, KnowsIts
<1>8. cached' \in [DOMAIN cached -> Int] /\ cached'[p] = Pinned(p)
      /\ \A q \in DOMAIN cached \ {p} : cached'[q] = cached[q]
  BY <1>1, <1>5, <1>6, <1>7
<1>9. ArchiveTypes'  BY <1>1, <1>2, <1>3, <1>8 DEF ArchiveInv, ArchiveTypes, Busy
<1>10. ASSUME NEW q \in archive.asked PROVE q = p \/ cached'[q] = cached[q]
  BY <1>6, <1>8
<1>11. ASSUME NEW q \in archive.asked PROVE IsSettled(q)'
  <2>1. IsSettled(q)  BY <1>1 DEF ArchiveInv
  <2>2. CASE q = p  BY <2>2, <1>4, <1>8 DEF IsSettled
  <2>3. CASE q # p  BY <2>1, <2>3, <1>1, <1>3, <1>4, <1>5, <1>10 DEF IsSettled, Busy
  <2> QED BY <2>2, <2>3
<1>12. ASSUME NEW q \in archive.asked, IsPlain(q) PROVE IsPlain(q)'
  <2>1. CASE q = p  BY <2>1, <1>4, <1>8 DEF IsPlain
  <2>2. CASE q # p
    <3>1. \A u \in Thread : Writes(u, q) => Writes(u, q)'
      BY <2>2, <1>3, <1>5 DEF Writes
    <3> QED BY <2>2, <3>1, <1>4, <1>10, <1>12 DEF IsPlain
  <2> QED BY <2>1, <2>2
<1>13. IsPlain(p)'  BY <1>4, <1>8 DEF IsPlain
<1>14. ASSUME NEW u \in Thread PROVE KnowsIts(u)'
  <2>1. CASE u = t  BY <2>1, <1>2, <1>3 DEF KnowsIts
  <2>2. CASE u # t /\ Busy(u)
    <3>1. KnowsIts(u) /\ thread'[u] = thread[u] /\ thread[u].path \in archive.asked
      BY <2>2, <1>3 DEF ArchiveInv, ArchiveTypes
    <3> QED BY <3>1, <1>1, <1>4, <1>10, <1>12, <1>13 DEF KnowsIts
  <2>3. CASE u # t /\ ~Busy(u)  BY <2>3, <1>3 DEF KnowsIts, Busy
  <2> QED BY <2>1, <2>2, <2>3
<1> QED BY <1>1, <1>9, <1>11, <1>14 DEF ArchiveInv

LEMMA IdleIsThread == Idle \in Threads
  BY DEF Idle, Threads, Doing, Absent

LEMMA ToolKeeps ==
    ASSUME ArchiveInv, Inventory \/ EndFetch \/ ReadFiles \/ Die \/ Restart
    PROVE  ArchiveInv'
<1>1. /\ archive \in Archives /\ asked \subseteq archive.asked
      /\ cached \in [DOMAIN cached -> Int] /\ archive.asked \subseteq DOMAIN cached
      /\ thread \in [Thread -> Threads] /\ UNCHANGED <<archive, cached>>
  BY DEF ArchiveInv, ArchiveTypes, Inventory, EndFetch, ReadFiles, Die, Restart, Takes
<1>2. \A q : Pinned(q)' = Pinned(q)  BY <1>1, PinnedStays
<1>4. ASSUME UNCHANGED thread, tool # "fetching"
      PROVE  /\ thread' \in [Thread -> Threads]
             /\ \A t \in Thread : thread'[t].is = "idle" /\ ~Busy(t)' /\ KnowsIts(t)'
  BY <1>1, <1>4 DEF ArchiveInv, Busy, KnowsIts
<1>5. ASSUME thread' = [t \in Thread |-> Idle]
      PROVE  /\ thread' \in [Thread -> Threads]
             /\ \A t \in Thread : thread'[t].is = "idle" /\ ~Busy(t)' /\ KnowsIts(t)'
  BY <1>5, IdleIsThread DEF Idle, Busy, KnowsIts
<1>6. CASE Inventory
  <2>1. /\ tool = "inventory" /\ tool' \in {"fetching", "failed"} /\ asked' = archive.asked
        /\ UNCHANGED <<thread, used>>
    BY <1>6 DEF Inventory, Takes
  <2>2. \A q \in archive.asked : IsSettled(q)'  BY <2>1 DEF IsSettled
  <2> QED BY <1>1, <1>4, <2>1, <2>2 DEF ArchiveInv, ArchiveTypes
<1>7. CASE EndFetch
  <2>1. /\ tool = "fetching" /\ asked = {} /\ \A t \in Thread : thread[t].is \in {"idle", "raised"}
        /\ tool' = (IF \E t \in Thread : thread[t].is = "raised" THEN "failed" ELSE "reading")
        /\ thread' = [t \in Thread |-> Idle] /\ UNCHANGED <<asked, used>>
    BY <1>7 DEF EndFetch, Takes
  <2>2. ASSUME tool' = "reading", NEW q \in archive.asked PROVE cached'[q] = Pinned(q)'
    <3>1. IsSettled(q)  BY <2>1 DEF ArchiveInv
    <3>2. \A t \in Thread : ~Busy(t) /\ thread[t].is # "raised"  BY <2>1, <2>2 DEF Busy
    <3> QED BY <3>1, <3>2, <2>1, <1>1, <1>2 DEF IsSettled
  <2>3. tool' \in {"failed", "reading"}  BY <2>1
  <2> QED BY <1>1, <1>5, <2>1, <2>2, <2>3 DEF ArchiveInv, ArchiveTypes
<1>8. CASE ReadFiles
  <2>1. /\ tool = "reading" /\ tool' = "done" /\ used' = [p \in archive.asked |-> cached[p]]
        /\ UNCHANGED <<thread, asked>>
    BY <1>8 DEF ReadFiles, Takes
  <2>2. \A q \in archive.asked : used'[q] = Pinned(q)'  BY <2>1, <1>2 DEF ArchiveInv
  <2> QED BY <1>1, <1>4, <2>1, <2>2 DEF ArchiveInv, ArchiveTypes
<1>9. CASE Die
  <2>1. tool' = "died" /\ thread' = [t \in Thread |-> Idle] /\ asked' = {}
    BY <1>9 DEF Die, Takes
  <2> QED BY <1>1, <1>5, <2>1 DEF ArchiveInv, ArchiveTypes
<1>10. CASE Restart
  <2>1. tool # "fetching" /\ tool' = "inventory" /\ UNCHANGED <<thread, asked>>
    BY <1>10 DEF Restart
  <2> QED BY <1>1, <1>4, <2>1 DEF ArchiveInv, ArchiveTypes
<1> QED BY <1>6, <1>7, <1>8, <1>9, <1>10

LEMMA ArchiveKeeps ==
    ASSUME ArchiveInv, [ArchiveNext]_archiveVars
    PROVE  ArchiveInv'
<1>1. CASE UNCHANGED archiveVars
  <2>1. UNCHANGED <<archive, tool, tools, cached, thread, asked, used>>
    BY <1>1 DEF archiveVars
  <2>2. \A q : Pinned(q)' = Pinned(q)  BY <2>1, PinnedStays
  <2>3. ArchiveTypes'  BY <2>1 DEF ArchiveInv, ArchiveTypes, Busy
  <2>4. \A q : (IsSettled(q) => IsSettled(q)') /\ (IsPlain(q) => IsPlain(q)')
    BY <2>1, <2>2 DEF IsSettled, IsPlain, Busy, Writes
  <2>5. \A t \in Thread : KnowsIts(t)'  BY <2>1, <2>2, <2>4 DEF ArchiveInv, KnowsIts
  <2> QED BY <2>1, <2>2, <2>3, <2>4, <2>5 DEF ArchiveInv
<1>2. CASE ArchiveNext
  BY <1>2, TakeKeeps, AskKeeps, AskAgainKeeps, CheckKeeps, WriteKeeps, ToolKeeps
     DEF ArchiveNext
<1> QED BY <1>1, <1>2

-----------------------------------------------------------------------------
(* Archive: which pack a name is taken from.                                 *)

\* The pages of an inventory make one sequence, with the entries of them all.
LEMMA PagesFlatten ==
    ASSUME NEW S, NEW s \in Seq(Seq(S))
    PROVE  FlattenSeq(s) \in Seq(S)
<1>1. CASE Len(s) = 0  BY <1>1 DEF FlattenSeq
<1>2. CASE Len(s) # 0
  <2> DEFINE n == Len(s)
             Is(g) == g = [i \in 1 .. n |-> IF i = 1 THEN s[i] ELSE g[i - 1] \o s[i]]
             D == [k \in 1 .. (n - 1) |-> [v \in Seq(S) |-> v \o s[k + 1]]]
  <2>1. n \in Nat \ {0} /\ \A i \in 1 .. n : s[i] \in Seq(S)  BY <1>2
  <2>2. \A k \in 1 .. (n - 1), v \in Seq(S) : D[k][v] = v \o s[k + 1] /\ D[k][v] \in Seq(S)
    <3>1. ASSUME NEW k \in 1 .. (n - 1), NEW v \in Seq(S) PROVE s[k + 1] \in Seq(S)
      BY <2>1
    <3> QED BY <3>1
  <2>3. Recurs(n - 1, Seq(S), s[1], D)
    <3>1. n - 1 \in Nat /\ s[1] \in Seq(S)  BY <2>1
    <3> HIDE DEF D, n
    <3> QED BY <3>1, <2>2, RecursionExists
  <2>4. PICK f \in [0 .. (n - 1) -> Seq(S)] :
           f[0] = s[1] /\ \A k \in 1 .. (n - 1) : f[k] = D[k][f[k - 1]]
    BY <2>3 DEF Recurs
  <2> DEFINE h == [i \in 1 .. n |-> f[i - 1]]
  <2>5. \A i \in 1 .. n : h[i] = IF i = 1 THEN s[i] ELSE h[i - 1] \o s[i]
    <3> SUFFICES ASSUME NEW i \in 1 .. n
                 PROVE  h[i] = IF i = 1 THEN s[i] ELSE h[i - 1] \o s[i]
      OBVIOUS
    <3>1. CASE i = 1  BY <3>1, <2>1, <2>4
    <3>2. CASE i # 1
      <4>1. i - 1 \in 1 .. (n - 1) /\ i - 1 \in 1 .. n /\ i - 2 \in 0 .. (n - 1)
            /\ (i - 1) - 1 = i - 2 /\ (i - 1) + 1 = i
        BY <3>2, <2>1
      <4>2. f[i - 1] = D[i - 1][f[i - 2]] /\ f[i - 2] \in Seq(S)  BY <4>1, <2>4
      <4>3. f[i - 1] = f[i - 2] \o s[i]  BY <4>1, <4>2, <2>2
      <4>4. h[i] = f[i - 1] /\ h[i - 1] = f[i - 2]  BY <4>1
      <4> QED BY <3>2, <4>3, <4>4
    <3> QED BY <3>1, <3>2
  <2>6. Is(h)  BY <2>5
  <2> DEFINE g == CHOOSE x : Is(x)
  <2>7. Is(g)
    <3>1. \E x : Is(x)  BY <2>6
    <3> HIDE DEF Is
    <3> QED BY <3>1
  <2>8. FlattenSeq(s) = g[n]  BY <1>2 DEF FlattenSeq
  <2> HIDE DEF g, n, D, h
  <2> DEFINE C == {k \in Nat : k + 1 \in 1 .. n => g[k + 1] \in Seq(S)}
  <2>9. 0 \in C
    <3>1. 1 \in 1 .. n => g[1] = s[1]  BY <2>7
    <3> QED BY <3>1, <2>1
  <2>10. \A k \in Nat : k \in C => k + 1 \in C
    <3> SUFFICES ASSUME NEW k \in Nat, k \in C, k + 2 \in 1 .. n
                 PROVE  g[k + 2] \in Seq(S)
      OBVIOUS
    <3>1. k + 1 \in 1 .. n /\ k + 2 # 1 /\ (k + 2) - 1 = k + 1  BY <2>1
    <3>2. g[k + 2] = g[k + 1] \o s[k + 2]  BY <2>7, <3>1
    <3>3. g[k + 1] \in Seq(S) /\ s[k + 2] \in Seq(S)  BY <2>1, <3>1
    <3> QED BY <3>2, <3>3
  <2>11. \A k \in Nat : k \in C
    <3> HIDE DEF C
    <3> QED BY <2>9, <2>10, SetInduction
  <2>12. n - 1 \in Nat /\ (n - 1) + 1 = n /\ n \in 1 .. n  BY <2>1
  <2>13. n - 1 \in C
    <3> HIDE DEF C
    <3> QED BY <2>11, <2>12
  <2> QED BY <2>8, <2>12, <2>13
<1> QED BY <1>1, <1>2

\* A name's packs: what the entries of that name in a pack hold.
Held(name, pack) == Contents({e \in Range(ArchiveEntries) : e.name = name /\ e.pack = pack})
Places == 0 .. Len(PackOrder)

\* What is known of the inventory of an archive.
Listing ==
    /\ IsFiniteSet(Range(ArchiveEntries))
    /\ \A e \in Range(ArchiveEntries) : e.content \in Nat
    /\ Len(PackOrder) \in Nat /\ Len(PackOrder) < Unindexed
    /\ DOMAIN PackOrder = 1 .. Len(PackOrder)

LEMMA SequenceOf ==
    ASSUME NEW R, NEW s \in Seq(R), NEW T, \A i \in DOMAIN s : s[i] \in T
    PROVE  s \in Seq(T)
  OBVIOUS

\* Every element of a page that is flattened is an element of one of the pages.
LEMMA ListingHolds == archive \in Archives => Listing
<1> SUFFICES ASSUME archive \in Archives PROVE Listing
  OBVIOUS
<1> DEFINE S == {e \in UNION {Range(archive.pages[i]) : i \in DOMAIN archive.pages} :
                   e.content \in Nat}
<1>1. /\ archive.pages \in Seq(Range(archive.pages))
      /\ \A i \in DOMAIN archive.pages :
           /\ archive.pages[i] \in Seq(Range(archive.pages[i]))
           /\ \A e \in Range(archive.pages[i]) : e.content \in Nat
      /\ archive.index \in Seq(Range(archive.index)) /\ 2 * Len(archive.index) < Unindexed
  BY ArchiveAssumption
<1>2. ASSUME NEW i \in DOMAIN archive.pages PROVE archive.pages[i] \in Seq(S)
  <2>1. Range(archive.pages[i]) \subseteq S  BY <1>1
  <2> HIDE DEF S
  <2>2. archive.pages[i] \in Seq(Range(archive.pages[i]))  BY <1>1
  <2>3. \A j \in 1 .. Len(archive.pages[i]) : archive.pages[i][j] \in S
    BY <2>1, <2>2 DEF Range
  <2> QED BY <2>2, <2>3
<1> HIDE DEF S
<1>3. archive.pages \in Seq(Seq(S))
  <2>1. archive.pages \in Seq(Range(archive.pages))  BY <1>1
  <2> QED BY <1>2, <2>1, SequenceOf
<1>4. ArchiveEntries \in Seq(S)  BY <1>3, PagesFlatten DEF ArchiveEntries
<1>5. Range(ArchiveEntries) \subseteq S  BY <1>4 DEF Range
<1>6. \A e \in Range(ArchiveEntries) : e.content \in Nat  BY <1>5 DEF S
<1>7. IsFiniteSet(Range(ArchiveEntries))
  <2>1. DOMAIN ArchiveEntries = 1 .. Len(ArchiveEntries) /\ Len(ArchiveEntries) \in Nat
    BY <1>4
  <2>2. IsFiniteSet(DOMAIN ArchiveEntries)  BY <2>1, FS_Interval
  <2>3. ArchiveEntries \in Surjection(DOMAIN ArchiveEntries, Range(ArchiveEntries))
    BY <1>4 DEF Surjection, Range
  <2> QED BY <2>2, <2>3, FS_Surjection
<1>8. Len(archive.index) \in Nat  BY <1>1
<1>9. DOMAIN PackOrder = 1 .. 2 * Len(archive.index)  BY DEF PackOrder
<1>10. Len(PackOrder) = 2 * Len(archive.index)  BY <1>8 DEF PackOrder
<1> QED BY <1>1, <1>6, <1>7, <1>8, <1>9, <1>10 DEF Listing

\* A recursion that keeps the first value that is not empty, in the order of H.
FirstAt(x, H, n) == \E k \in 1 .. n : x = H[k] /\ \A j \in 1 .. (k - 1) : H[j] = {}

LEMMA KeepsFirst ==
    ASSUME NEW n \in Nat, NEW g, NEW H, g[0] = {}, g[n] # {},
           \A k \in 1 .. n : g[k] = IF g[k - 1] # {} THEN g[k - 1] ELSE H[k]
    PROVE  FirstAt(g[n], H, n)
<1> DEFINE Is(m) == IF g[m] = {} THEN \A j \in 1 .. m : H[j] = {} ELSE FirstAt(g[m], H, n)
           C == {m \in Nat : m <= n => Is(m)}
<1>1. 0 \in C
  OBVIOUS
<1>2. ASSUME NEW m \in Nat, Is(m), m + 1 <= n PROVE Is(m + 1)
  <2>1. m + 1 \in 1 .. n /\ (m + 1) - 1 = m  BY <1>2
  <2>2. g[m + 1] = IF g[m] # {} THEN g[m] ELSE H[m + 1]  BY <2>1
  <2>3. CASE g[m] # {}  BY <1>2, <2>2, <2>3
  <2>4. CASE g[m] = {}
    <3>1. \A j \in 1 .. m : H[j] = {}  BY <1>2, <2>4
    <3>2. g[m + 1] = H[m + 1]  BY <2>2, <2>4
    <3>3. \A j \in 1 .. (m + 1) : j \in 1 .. m \/ j = m + 1
      OBVIOUS
    <3>4. CASE g[m + 1] = {}  BY <3>1, <3>2, <3>3, <3>4
    <3>5. CASE g[m + 1] # {}
      <4>1. FirstAt(g[m + 1], H, n)  BY <2>1, <3>1, <3>2 DEF FirstAt
      <4> QED BY <3>5, <4>1
    <3> QED BY <3>4, <3>5
  <2> QED BY <2>3, <2>4
<1> HIDE DEF Is
<1>3. \A m \in Nat : m \in C => m + 1 \in C  BY <1>2
<1>4. \A m \in Nat : m \in C
  <2> HIDE DEF C
  <2> QED BY <1>1, <1>3, SetInduction
<1>5. Is(n)  BY <1>4
<1> QED BY <1>5 DEF Is

\* A name that is registered holds what the first pack of the order that has
\* it holds.
LEMMA FirstRegisters ==
    ASSUME NEW name, Listing, RegisteredAs(name) # {}
    PROVE  \E k \in 1 .. Len(PackOrder) :
             /\ RegisteredAs(name) = Held(name, PackOrder[k])
             /\ \A j \in 1 .. (k - 1) : Held(name, PackOrder[j]) = {}
<1> DEFINE n == Len(PackOrder)
           V == {{}} \cup {Held(name, PackOrder[k]) : k \in 1 .. n}
           Is(g) == g = [k \in 0 .. n |->
                           IF k = 0 THEN {}
                           ELSE IF g[k - 1] # {} THEN g[k - 1]
                           ELSE Held(name, PackOrder[k])]
           D == [k \in 1 .. n |-> [v \in V |-> IF v # {} THEN v ELSE Held(name, PackOrder[k])]]
<1>1. n \in Nat  BY DEF Listing
<1>2. \A k \in 1 .. n, v \in V :
         D[k][v] = (IF v # {} THEN v ELSE Held(name, PackOrder[k])) /\ D[k][v] \in V
  <2> HIDE DEF n
  <2> QED OBVIOUS
<1>3. Recurs(n, V, {}, D)
  <2>1. {} \in V
    OBVIOUS
  <2> HIDE DEF D, V, n
  <2> QED BY <1>1, <1>2, <2>1, RecursionExists
<1>4. PICK f \in [0 .. n -> V] : f[0] = {} /\ \A k \in 1 .. n : f[k] = D[k][f[k - 1]]
  BY <1>3 DEF Recurs
<1>5. Is(f)
  <2> HIDE DEF V, D, n
  <2>1. ASSUME NEW k \in 1 .. n
        PROVE  f[k] = (IF f[k - 1] # {} THEN f[k - 1] ELSE Held(name, PackOrder[k]))
    <3>1. f[k - 1] \in V /\ f[k] = D[k][f[k - 1]]  BY <1>1, <1>4
    <3> QED BY <3>1, <1>2
  <2>2. \A k \in 0 .. n : k = 0 \/ k \in 1 .. n  BY <1>1
  <2> QED BY <1>4, <2>1, <2>2
<1> DEFINE g == CHOOSE x : Is(x)
<1>6. Is(g)
  <2>1. \E x : Is(x)  BY <1>5
  <2> HIDE DEF Is
  <2> QED BY <2>1
<1>7. RegisteredAs(name) = g[n]  BY DEF RegisteredAs, Held
<1> HIDE DEF g, n, V, D
<1>8. 0 \in 0 .. n /\ \A k \in 1 .. n : k \in 0 .. n /\ k # 0  BY <1>1
<1>9. g[0] = {}  BY <1>6, <1>8
<1>10. ASSUME NEW k \in 1 .. n
       PROVE  g[k] = IF g[k - 1] # {} THEN g[k - 1] ELSE Held(name, PackOrder[k])
  BY <1>6, <1>8
<1> HIDE DEF Is
<1> DEFINE H == [k \in 1 .. n |-> Held(name, PackOrder[k])]
<1>11. \A k \in 1 .. n : H[k] = Held(name, PackOrder[k])
  OBVIOUS
<1> HIDE DEF H
<1>12. FirstAt(g[n], H, n)
  <2>1. g[n] # {}  BY <1>7
  <2>2. \A k \in 1 .. n : g[k] = IF g[k - 1] # {} THEN g[k - 1] ELSE H[k]
    BY <1>10, <1>11
  <2> QED BY <1>1, <1>9, <2>1, <2>2, KeepsFirst
<1>13. PICK k \in 1 .. n : g[n] = H[k] /\ \A j \in 1 .. (k - 1) : H[j] = {}
  BY <1>12 DEF FirstAt
<1>14. \A j \in 1 .. (k - 1) : j \in 1 .. n  BY <1>1
<1>15. RegisteredAs(name) = Held(name, PackOrder[k])
       /\ \A j \in 1 .. (k - 1) : Held(name, PackOrder[j]) = {}
  BY <1>7, <1>11, <1>13, <1>14
<1> QED BY <1>15 DEF n

\* The place of a pack is the first at which the index lists it.
LEMMA RankIsFirst ==
    ASSUME NEW pack, Listing
    PROVE  /\ Rank(pack) \in Nat
           /\ Rank(pack) # Unindexed =>
                Rank(pack) \in 1 .. Len(PackOrder) /\ PackOrder[Rank(pack)] = pack
           /\ \A i \in 1 .. Len(PackOrder) : PackOrder[i] = pack => Rank(pack) <= i
<1> DEFINE T == {Unindexed} \cup {i \in DOMAIN PackOrder : PackOrder[i] = pack}
<1>1. T \in SUBSET Nat /\ T # {}  BY DEF Listing, Unindexed
<1>2. Rank(pack) = Min(T)  BY DEF Rank
<1>3. Rank(pack) \in T /\ \A i \in T : Rank(pack) <= i
  <2> HIDE DEF T
  <2> QED BY <1>1, <1>2, MinIsLeast
<1> QED BY <1>1, <1>3 DEF Listing

\* A set of one number has it as its least.
LEMMA MinOfOne ==
    ASSUME NEW T, IsFiniteSet(T), T \subseteq Nat, T # {}, Cardinality(T) <= 1
    PROVE  T = {Min(T)}
<1>1. Cardinality(T) \in Nat /\ Cardinality(T) # 0  BY FS_CardinalityType, FS_EmptySet
<1>2. Cardinality(T) = 1  BY <1>1
<1>3. PICK x : T = {x}  BY <1>2, FS_Singleton
<1>4. Min(T) = x  BY <1>3, MinIsLeast
<1> QED BY <1>3, <1>4

\* What some entries hold is no more than there are of them.
LEMMA ContentsAreFinite ==
    ASSUME Listing, NEW entries, entries \subseteq Range(ArchiveEntries)
    PROVE  IsFiniteSet(Contents(entries)) /\ Contents(entries) \subseteq Nat
<1> DEFINE f == [e \in entries |-> e.content]
<1>1. IsFiniteSet(entries)  BY FS_Subset DEF Listing
<1>2. f \in Surjection(entries, Contents(entries))  BY DEF Surjection, Contents
<1>3. IsFiniteSet(Contents(entries))  BY <1>1, <1>2, FS_Surjection
<1> QED BY <1>3 DEF Contents, Listing

LEMMA FirstWins == Listing => FirstPackWins
<1> SUFFICES ASSUME Listing, NEW name, RegisteredAs(name) # {}, ResolvedTo(name) # Conflict
             PROVE  RegisteredAs(name) = {ResolvedTo(name)}
  BY DEF FirstPackWins
<1>1. PICK k \in 1 .. Len(PackOrder) :
         /\ RegisteredAs(name) = Held(name, PackOrder[k])
         /\ \A j \in 1 .. (k - 1) : Held(name, PackOrder[j]) = {}
  BY FirstRegisters
<1> DEFINE named == {e \in Range(ArchiveEntries) : e.name = name}
           ranks == {Rank(e.pack) : e \in named}
           best == Min(ranks)
           tied == {e \in named : Rank(e.pack) = best}
<1>2. k \in Nat /\ k # Unindexed /\ k < Unindexed /\ Len(PackOrder) \in Nat
  BY DEF Listing, Unindexed
<1>3. PICK e0 \in named : e0.pack = PackOrder[k]  BY <1>1 DEF Held, Contents
<1>4. \A i \in 1 .. Len(PackOrder) : \A e \in named : PackOrder[i] = e.pack => k <= i
  <2> SUFFICES ASSUME NEW i \in 1 .. Len(PackOrder), NEW e \in named, PackOrder[i] = e.pack,
                      i < k
               PROVE  FALSE
    BY <1>2
  <2>1. e.content \in Held(name, PackOrder[i])  BY DEF Held, Contents
  <2>2. i \in 1 .. (k - 1)  BY <1>2
  <2> QED BY <1>1, <2>1, <2>2
<1>5. \A e \in named : Rank(e.pack) \in Nat /\ k <= Rank(e.pack)
  <2> SUFFICES ASSUME NEW e \in named PROVE Rank(e.pack) \in Nat /\ k <= Rank(e.pack)
    OBVIOUS
  <2> HIDE DEF named
  <2> QED BY <1>2, <1>4, RankIsFirst
<1>6. Rank(e0.pack) = k
  <2>1. Rank(e0.pack) <= k  BY <1>3, RankIsFirst
  <2> QED BY <1>2, <1>5, <2>1
<1>7. best = k
  <2>1. ranks \in SUBSET Nat /\ k \in ranks /\ \A r \in ranks : k <= r  BY <1>5, <1>6
  <2> HIDE DEF ranks
  <2>2. best \in ranks /\ best <= k  BY <2>1, MinIsLeast
  <2>3. k <= best /\ best \in Nat  BY <2>1, <2>2
  <2> HIDE DEF best
  <2> QED BY <1>2, <2>2, <2>3
<1>8. tied = {e \in named : e.pack = PackOrder[k]}
  <2>1. ASSUME NEW e \in named PROVE Rank(e.pack) = best <=> e.pack = PackOrder[k]
    <3>1. Rank(e.pack) = k => e.pack = PackOrder[k]  BY <1>2, RankIsFirst
    <3>2. e.pack = PackOrder[k] => Rank(e.pack) = k  BY <1>3, <1>6
    <3> QED BY <1>7, <3>1, <3>2
  <2> QED BY <2>1
<1>9. Contents(tied) = RegisteredAs(name)  BY <1>1, <1>8 DEF Held, Contents
<1>10. named # {} /\ named \subseteq Range(ArchiveEntries) /\ tied \subseteq named
  BY <1>3
<1>11. ResolvedTo(name) =
         (CASE named = {} -> Absent
            [] Cardinality(Contents(named)) = 1 -> Min(Contents(named))
            [] OTHER -> IF best = Unindexed \/ Cardinality(Contents(tied)) > 1
                        THEN Conflict ELSE Min(Contents(tied)))
  BY DEF ResolvedTo
<1>12. /\ IsFiniteSet(Contents(named)) /\ Contents(named) \subseteq Nat
       /\ IsFiniteSet(Contents(tied)) /\ Contents(tied) \subseteq Nat
       /\ Contents(tied) \subseteq Contents(named)
  <2> HIDE DEF named, tied
  <2> QED BY <1>10, ContentsAreFinite DEF Contents
<1> HIDE DEF named, tied, best
<1>13. Cardinality(Contents(named)) \in Nat /\ Cardinality(Contents(tied)) \in Nat
  BY <1>12, FS_CardinalityType
<1>14. CASE Cardinality(Contents(named)) = 1
  <2>1. ResolvedTo(name) = Min(Contents(named))  BY <1>10, <1>11, <1>14
  <2>2. Contents(named) = {Min(Contents(named))}  BY <1>9, <1>12, <1>14, MinOfOne
  <2> QED BY <1>9, <1>12, <2>1, <2>2
<1>15. CASE Cardinality(Contents(named)) # 1
  <2>1. ResolvedTo(name) = IF best = Unindexed \/ Cardinality(Contents(tied)) > 1
                           THEN Conflict ELSE Min(Contents(tied))
    BY <1>10, <1>11, <1>15
  <2>2. Cardinality(Contents(tied)) <= 1 /\ ResolvedTo(name) = Min(Contents(tied))
    BY <1>13, <2>1
  <2>3. Contents(tied) = {Min(Contents(tied))}  BY <1>9, <1>12, <2>2, MinOfOne
  <2> QED BY <1>9, <2>2, <2>3
<1> QED BY <1>14, <1>15

\* Whatever an archive holds, and whenever tools die, are restarted or find
\* what others left in the cache: a tool reads what the inventory names, and
\* the name of a file is the one the original client would find.
THEOREM CachedIsPinnedCorrect == ArchiveSpec => []CachedIsPinned
<1>1. ArchiveInv => CachedIsPinned
  <2>1. ArchiveInv => OnlyPinnedIsUsed  BY DEF ArchiveInv, OnlyPinnedIsUsed, Pinned
  <2>2. ArchiveInv => FirstPackWins
    BY ListingHolds, FirstWins DEF ArchiveInv, ArchiveTypes
  <2> QED BY <2>1, <2>2 DEF CachedIsPinned
<1> QED BY <1>1, ArchiveStarts, ArchiveKeeps, PTL DEF ArchiveSpec

-----------------------------------------------------------------------------
(* TargetEffects.                                                            *)

Converted == {"built", "installing", "installed"}
StagedWhole == {"importing", "preparing", "packing", "shipped"}

SourcesArePinned ==
    \A a \in Assets : MdeIsPinned(origin.mde[a]) /\ MseIsPinned(a, origin.mse[a])

PicturesAreTheirs == \A n \in DOMAIN pictures : pictures[n] = origin.texture[n]

\* The points of a geometry in every frame, as the engine has them.
FramesAsRead(geometry) ==
    [f \in 1 .. FrameCount |->
       [c \in DOMAIN CornersAt(geometry, f) |-> YUp(CornersAt(geometry, f)[c])]]

\* Every geometry has its primitive, with its points, and one frame at a time.
ShowsFrames(mde, glb) ==
    /\ \A g \in DOMAIN mde.geometries :
         LET i == CHOOSE i \in DOMAIN glb.primitives :
                    glb.primitives[i].material[2] = mde.geometries[g].name
         IN FramesOf(glb.primitives[i]) = FramesAsRead(mde.geometries[g])
    /\ WeightsAreACycle(glb.samplers[1])

\* What AuditConverted writes.
CatalogIsOfBuild ==
    /\ \A a \in Assets : ShowsFrames(origin.mde[a], model[a])
    /\ output = [is |-> "catalog", files |-> FilesOfBuild,
                 surfaces |-> [a \in Assets |-> SurfacesOf(a)], layers |-> Layers]

\* A copy that began is complete or not.
IsCopy(p, content) == content = Truncated \/ content = ContentOf(p)

InstalledHolds == \A p \in DOMAIN place : IsCopy(p, place[p]) \/ p[1] = "derived"

DerivedAreOfPinned ==
    \A p \in DOMAIN stage : p[1] = "derived" => PicturePath(p[3]) \in PinnedPaths

StageHolds ==
    /\ ex = "copying" => /\ DOMAIN stage \subseteq PackedPaths
                         /\ \A p \in DOMAIN stage : IsCopy(p, stage[p])
    /\ ex \in StagedWhole =>
         /\ CatalogPath \in DOMAIN stage /\ stage[CatalogPath] = output
         /\ DocumentIsPinned(output)
         /\ \A p \in PinnedPaths : p \in DOMAIN stage /\ stage[p] = output.files[p]
         /\ DerivedAreOfPinned
    /\ ex \in {"packing", "shipped"} => OthersAreDerived(stage)

TargetInv ==
    /\ origin \in EffectSources
    /\ te \notin {"sources", "reading", "refused"} => SourcesArePinned
    /\ te \in {"blender", "audit"} \cup Converted => PicturesAreTheirs
    /\ te \in Converted => CatalogIsOfBuild
    /\ te \notin Converted => place = << >> /\ ex = "start"
    /\ InstalledHolds /\ StageHolds

-----------------------------------------------------------------------------
LEMMA TargetBegins == TargetInit => TargetInv
  BY DEF TargetInit, TargetStart, TargetInv, InstalledHolds, StageHolds, Converted,
         StagedWhole

\* The converter's steps before the files are installed.
LEMMA ConverterStep ==
    ASSUME TargetInv, te \notin Converted, te' \notin Converted,
           UNCHANGED <<origin, place, exporterVars>>,
           te' \notin {"sources", "reading", "refused"} => SourcesArePinned,
           te' \in {"blender", "audit"} => PicturesAreTheirs'
    PROVE  TargetInv'
<1>1. place' = << >> /\ ex' = "start"  BY DEF TargetInv, exporterVars
<1>2. InstalledHolds' /\ StageHolds'
  BY <1>1 DEF InstalledHolds, StageHolds, StagedWhole
<1>3. SourcesArePinned => SourcesArePinned'  BY DEF SourcesArePinned
<1> QED BY <1>1, <1>2, <1>3 DEF TargetInv

LEMMA CheckSourcesKeeps == ASSUME TargetInv, CheckSources PROVE TargetInv'
  BY ConverterStep DEF CheckSources, At, Proceeds, Converted

LEMMA ReadSourcesKeeps == ASSUME TargetInv, ReadSources PROVE TargetInv'
<1>1. te' \notin {"sources", "reading", "refused"} => SourcesArePinned
  BY DEF ReadSources, At, Proceeds, SourcesArePinned
<1> QED BY <1>1, ConverterStep DEF ReadSources, At, Proceeds, Converted

LEMMA ConvertTexturesKeeps == ASSUME TargetInv, ConvertTextures PROVE TargetInv'
<1>1. PicturesAreTheirs'
  <2> DEFINE names == {Geometry(a, g).texture : a \in Assets,
                                                g \in 1 .. Len(PinnedShape)}
  <2>1. pictures' = [n \in names \cap DOMAIN origin.texture |-> origin.texture[n]]
    BY DEF ConvertTextures
  <2> HIDE DEF names
  <2> QED BY <2>1 DEF ConvertTextures, At, PicturesAreTheirs
<1>2. SourcesArePinned  BY DEF ConvertTextures, At, TargetInv
<1> QED BY <1>1, <1>2, ConverterStep DEF ConvertTextures, At, Proceeds, Converted

LEMMA RunBlenderKeeps == ASSUME TargetInv, RunBlender PROVE TargetInv'
<1>1. SourcesArePinned /\ PicturesAreTheirs  BY DEF RunBlender, At, TargetInv
<1>2. UNCHANGED <<origin, pictures, place, exporterVars>> /\ te = "blender"
      /\ te' \in {"audit", "refused"}
  BY DEF RunBlender, At
<1>3. PicturesAreTheirs'  BY <1>1, <1>2 DEF PicturesAreTheirs
<1> QED BY <1>1, <1>2, <1>3, ConverterStep DEF Converted

\* Names are of one geometry, so the primitive of a name is the one that the
\* audit compared with its frames.
LEMMA AuditShowsFrames ==
    ASSUME TargetInv, SourcesArePinned, NEW a \in Assets, NEW glb, AuditGlb(a, glb)
    PROVE  ShowsFrames(origin.mde[a], glb)
<1>1. MdeIsPinned(origin.mde[a]) /\ FramesAreThere(origin.mde[a])
  BY TargetAssumption DEF TargetInv, SourcesArePinned, Assets
<1>2. /\ Geometries(a) = DOMAIN PinnedShape
      /\ \A g, h \in Geometries(a) : Geometry(a, g).name = Geometry(a, h).name => g = h
  <2>1. Geometries(a) = DOMAIN PinnedShape
    BY <1>1, TargetAssumption DEF MdeIsPinned, FramesAreThere, Geometries
  <2>2. \A g \in Geometries(a) : PinnedShape[g][1] = Geometry(a, g).name
    BY <1>1 DEF MdeIsPinned, Geometries, Geometry
  <2> QED BY <2>1, <2>2, TargetAssumption
<1>3. ASSUME NEW g \in Geometries(a),
             NEW i, i = CHOOSE k \in DOMAIN glb.primitives :
                          glb.primitives[k].material[2] = Geometry(a, g).name
      PROVE  FramesOf(glb.primitives[i]) = FramesAsRead(Geometry(a, g))
  <2>1. \E k \in DOMAIN glb.primitives :
          glb.primitives[k].material[2] = Geometry(a, g).name
    BY DEF AuditGlb
  <2>2. /\ i \in DOMAIN glb.primitives
        /\ glb.primitives[i].material[2] = Geometry(a, g).name
    BY <1>3, <2>1
  <2>3. PICK h \in Geometries(a) :
          /\ glb.primitives[i].material[2] = Geometry(a, h).name
          /\ FramesOf(glb.primitives[i]) = FramesAsRead(Geometry(a, h))
    <3>1. PrimitiveIsSound(a, glb.primitives[i])  BY <2>2 DEF AuditGlb
    <3> QED BY <3>1 DEF PrimitiveIsSound, FramesAsRead
  <2> QED BY <1>2, <2>2, <2>3
<1>4. WeightsAreACycle(glb.samplers[1])  BY DEF AuditGlb
<1> QED BY <1>3, <1>4 DEF ShowsFrames, Geometries, Geometry

LEMMA AuditConvertedKeeps == ASSUME TargetInv, AuditConverted PROVE TargetInv'
<1>0. /\ te = "audit" /\ UNCHANGED <<origin, pictures, model, place, exporterVars>>
      /\ te' \in {"built", "refused"}
  BY DEF AuditConverted, At, Proceeds
<1>1. SourcesArePinned /\ PicturesAreTheirs /\ origin \in EffectSources
  BY <1>0 DEF TargetInv
<1>2. SourcesArePinned' /\ PicturesAreTheirs'
  BY <1>0, <1>1 DEF SourcesArePinned, PicturesAreTheirs
<1>3. CASE te' = "refused"  BY <1>0, <1>1, <1>2, <1>3, ConverterStep DEF Converted
<1>4. CASE te' = "built"
  <2>1. /\ \A a \in Assets : AuditGlb(a, model[a])
        /\ output' = [is |-> "catalog", files |-> FilesOfBuild,
                      surfaces |-> [a \in Assets |-> SurfacesOf(a)], layers |-> Layers]
    BY <1>4 DEF AuditConverted, Proceeds
  <2>2. CatalogIsOfBuild'
    <3>1. FilesOfBuild' = FilesOfBuild  BY <1>0 DEF FilesOfBuild
    <3>2. \A a : SurfacesOf(a)' = SurfacesOf(a)
      BY <1>0 DEF SurfacesOf, Geometries, Geometry
    <3>3. \A a \in Assets : ShowsFrames(origin.mde[a], model[a])
      BY <1>1, <2>1, AuditShowsFrames
    <3> QED BY <1>0, <2>1, <3>1, <3>2, <3>3 DEF CatalogIsOfBuild
  <2>3. place' = << >> /\ ex' = "start"  BY <1>0 DEF TargetInv, Converted, exporterVars
  <2>4. InstalledHolds' /\ StageHolds'
    BY <2>3 DEF InstalledHolds, StageHolds, StagedWhole
  <2> QED BY <1>0, <1>1, <1>2, <1>4, <2>2, <2>3, <2>4 DEF TargetInv, Converted
<1> QED BY <1>0, <1>3, <1>4

\* From then on what was converted stays.
LEMMA Installing ==
    ASSUME TargetInv, te \in Converted, te' \in Converted,
           UNCHANGED <<origin, pictures, model, output>>,
           InstalledHolds', StageHolds'
    PROVE  TargetInv'
<1>1. SourcesArePinned /\ PicturesAreTheirs /\ CatalogIsOfBuild
  BY DEF TargetInv, Converted
<1>2. SourcesArePinned' /\ PicturesAreTheirs'
  BY <1>1 DEF SourcesArePinned, PicturesAreTheirs
<1>3. CatalogIsOfBuild'
  <2>1. FilesOfBuild' = FilesOfBuild  BY DEF FilesOfBuild
  <2>2. \A a : SurfacesOf(a)' = SurfacesOf(a)  BY DEF SurfacesOf, Geometries, Geometry
  <2> QED BY <1>1, <2>1, <2>2 DEF CatalogIsOfBuild
<1> QED BY <1>2, <1>3 DEF TargetInv

\* The installer does not touch what is staged.
LEMMA InstallerStep ==
    ASSUME TargetInv, te \in Converted, te' \in Converted,
           UNCHANGED <<origin, pictures, model, output, exporterVars>>, InstalledHolds'
    PROVE  TargetInv'
<1>1. StageHolds  BY DEF TargetInv
<1>2. StageHolds'
  BY <1>1 DEF StageHolds, exporterVars, IsCopy, ContentOf, DerivedAreOfPinned
<1> QED BY <1>2, Installing DEF exporterVars

LEMMA AndAlsoHolds ==
    ASSUME NEW files, NEW others
    PROVE  /\ DOMAIN AndAlso(files, others) = DOMAIN files \cup DOMAIN others
           /\ \A q \in DOMAIN files : AndAlso(files, others)[q] = files[q]
  BY DEF AndAlso

LEMMA BeginInstallKeeps == ASSUME TargetInv, BeginInstall PROVE TargetInv'
<1>1. InstalledHolds'  BY DEF BeginInstall, InstalledHolds
<1> QED BY <1>1, InstallerStep DEF BeginInstall, Converted

LEMMA CopiesAFile ==
    ASSUME TargetInv, UNCHANGED output, NEW p, NEW content, IsCopy(p, content),
           place' = With(place, p, content)
    PROVE  InstalledHolds'
<1>1. \A q : ContentOf(q)' = ContentOf(q)  BY DEF ContentOf
<1>2. \A q \in DOMAIN place' : IsCopy(q, place'[q]) \/ q[1] = "derived"
  <2>1. /\ DOMAIN place' = DOMAIN place \cup {p} /\ place'[p] = content
        /\ \A q \in DOMAIN place : q # p => place'[q] = place[q]
    BY DEF With
  <2>2. \A q \in DOMAIN place : IsCopy(q, place[q]) \/ q[1] = "derived"
    BY DEF TargetInv, InstalledHolds
  <2> QED BY <2>1, <2>2
<1> QED BY <1>1, <1>2 DEF InstalledHolds, IsCopy

LEMMA InstallNextKeeps == ASSUME TargetInv, InstallNext PROVE TargetInv'
<1>1. InstalledHolds'  BY CopiesAFile DEF InstallNext, IsCopy
<1> QED BY <1>1, InstallerStep DEF InstallNext, At, Converted

LEMMA InstallDiesKeeps == ASSUME TargetInv, InstallDies PROVE TargetInv'
<1>1. CASE UNCHANGED place
  <2>1. InstalledHolds'
    BY <1>1 DEF TargetInv, InstallDies, InstalledHolds, IsCopy, ContentOf
  <2> QED BY <2>1, InstallerStep DEF InstallDies, At, Converted
<1>2. CASE place' = With(place, NextFile, Truncated)
  <2>1. InstalledHolds'  BY <1>2, CopiesAFile DEF InstallDies, IsCopy
  <2> QED BY <2>1, InstallerStep DEF InstallDies, At, Converted
<1> QED BY <1>1, <1>2 DEF InstallDies

\* Of pinned sources, what the engine derives has the name of a picture.
LEMMA GeometriesArePinned ==
    ASSUME TargetInv, te \in Converted, NEW a \in Assets
    PROVE  Geometries(a) = DOMAIN PinnedShape
<1>1. MdeIsPinned(origin.mde[a]) /\ FramesAreThere(origin.mde[a])
  BY TargetAssumption DEF TargetInv, SourcesArePinned, Converted, Assets
<1> QED BY <1>1, TargetAssumption DEF MdeIsPinned, FramesAreThere, Geometries

LEMMA DerivedIsOfPinned ==
    ASSUME TargetInv, te \in Converted, NEW files, NEW p \in DOMAIN DerivedFrom(files)
    PROVE  p[1] = "derived" /\ PicturePath(p[3]) \in PinnedPaths
<1>1. PICK a \in Assets : \E g \in Geometries(a) : p = Derived(a, TextureOf[a][g])
  BY DEF DerivedFrom
<1>3. PICK g \in Geometries(a) : p = Derived(a, TextureOf[a][g])  BY <1>1
<1>2. g \in DOMAIN TextureOf[a]  BY GeometriesArePinned, TargetAssumption DEF Assets
<1> QED BY <1>3, <1>2 DEF Derived, PinnedPaths

LEMMA EditorImportsKeeps == ASSUME TargetInv, EditorImports PROVE TargetInv'
<1>1. te \in Converted  BY DEF EditorImports, Converted
<1>2. \A q : ContentOf(q)' = ContentOf(q)  BY DEF EditorImports, ContentOf
<1>3. \A q \in DOMAIN place' : IsCopy(q, place'[q]) \/ q[1] = "derived"
  <2> DEFINE more == DerivedFrom(place)
  <2>1. place' = AndAlso(place, more)  BY DEF EditorImports
  <2>2. \A q \in DOMAIN more : q[1] = "derived"  BY <1>1, DerivedIsOfPinned
  <2> HIDE DEF more
  <2>3. /\ DOMAIN place' = DOMAIN place \cup DOMAIN more
        /\ \A q \in DOMAIN place : place'[q] = place[q]
    BY <2>1, AndAlsoHolds
  <2>4. \A q \in DOMAIN place : IsCopy(q, place[q]) \/ q[1] = "derived"
    BY DEF TargetInv, InstalledHolds
  <2> QED BY <2>2, <2>3, <2>4
<1>4. InstalledHolds'  BY <1>2, <1>3 DEF InstalledHolds, IsCopy
<1> QED BY <1>1, <1>4, InstallerStep DEF EditorImports

\* The exporter only works on what has been installed.
LEMMA ExporterWorks ==
    ASSUME TargetInv, te \in Converted, StageHolds',
           UNCHANGED <<origin, te, pictures, model, output, place>>
    PROVE  TargetInv'
<1>1. InstalledHolds'  BY DEF TargetInv, InstalledHolds, IsCopy, ContentOf
<1> QED BY <1>1, Installing

LEMMA ExportingIsConverted == ASSUME TargetInv, ex # "start" PROVE te \in Converted
  BY DEF TargetInv

LEMMA PathsDiffer ==
    /\ CatalogPath \notin PinnedPaths /\ CatalogPath \in PackedPaths
    /\ CatalogPath[1] # "derived"
    /\ \A p \in PinnedPaths : p \in PackedPaths /\ p[1] # "derived" /\ p # CatalogPath
<1>1. \A p \in PinnedPaths : p[1] = "model" \/ p[1] = "picture"
  BY DEF PinnedPaths, ModelPath, PicturePath
<1>2. CatalogPath[1] = "catalog"  BY DEF CatalogPath
<1> QED BY <1>1, <1>2 DEF PackedPaths

LEMMA MeetRequirementsKeeps == ASSUME TargetInv, MeetRequirements PROVE TargetInv'
<1>1. te \in Converted  BY DEF MeetRequirements, RequirementsAreMetBy, TargetInv
<1>2. StageHolds'  BY DEF MeetRequirements, ExporterTurns, StageHolds, StagedWhole
<1> QED BY <1>1, <1>2, ExporterWorks DEF MeetRequirements, ExporterTurns

LEMMA CopyInstalledKeeps == ASSUME TargetInv, CopyInstalled PROVE TargetInv'
<1>1. /\ ex = "copying" /\ ex' = "copying"
      /\ UNCHANGED <<origin, te, pictures, model, output, place>>
  BY DEF CopyInstalled, ExporterTurns
<1>2. PICK p \in PackedPaths : p \in DOMAIN place /\ stage' = With(stage, p, place[p])
  <2> DEFINE left == PackedPaths \ DOMAIN stage
             p == CHOOSE p \in left : \A q \in left : CopyRank(p) <= CopyRank(q)
  <2>1. left # {} /\ p \in DOMAIN place /\ stage' = With(stage, p, place[p])
    BY DEF CopyInstalled
  <2>2. \A q : CopyRank(q) \in {0, 1, 2}  BY DEF CopyRank
  <2>3. \E q \in left : \A r \in left : CopyRank(q) <= CopyRank(r)
    <3> HIDE DEF left
    <3>1. CASE \E q \in left : CopyRank(q) = 0  BY <2>2, <3>1
    <3>2. CASE (\A q \in left : CopyRank(q) # 0) /\ \E q \in left : CopyRank(q) = 1
      BY <2>2, <3>2
    <3>3. CASE \A q \in left : CopyRank(q) = 2  BY <2>1, <3>3
    <3> QED BY <2>2, <3>1, <3>2, <3>3
  <2>4. p \in left
    <3> HIDE DEF left
    <3> QED BY <2>3
  <2> HIDE DEF p
  <2> QED BY <2>1, <2>4
<1>3. IsCopy(p, place[p])
  BY <1>2, PathsDiffer DEF TargetInv, InstalledHolds, PackedPaths
<1>4. /\ DOMAIN stage' \subseteq PackedPaths
      /\ \A q \in DOMAIN stage' : IsCopy(q, stage'[q])
  <2>1. /\ DOMAIN stage' = DOMAIN stage \cup {p} /\ stage'[p] = place[p]
        /\ \A q \in DOMAIN stage : q # p => stage'[q] = stage[q]
    BY <1>2 DEF With
  <2>2. /\ DOMAIN stage \subseteq PackedPaths
        /\ \A q \in DOMAIN stage : IsCopy(q, stage[q])
    BY <1>1 DEF TargetInv, StageHolds
  <2> QED BY <1>3, <2>1, <2>2
<1>5. StageHolds'  BY <1>1, <1>4 DEF StageHolds, StagedWhole, IsCopy, ContentOf
<1> QED BY <1>1, <1>5, ExportingIsConverted, ExporterWorks

LEMMA StageInstalledKeeps == ASSUME TargetInv, StageInstalled PROVE TargetInv'
<1>1. /\ ex = "copying" /\ ex' = "importing" /\ UNCHANGED stage
      /\ UNCHANGED <<origin, te, pictures, model, output, place>>
  BY DEF StageInstalled, ExporterTurns
<1>2. /\ CatalogPath \in DOMAIN stage /\ stage[CatalogPath] # Truncated
      /\ DocumentIsPinned(stage[CatalogPath])
      /\ FilesAreTheirs(stage, stage[CatalogPath])
      /\ DOMAIN stage = PinnedPaths \cup {CatalogPath}
  BY DEF StageInstalled, RequirementsAreMetBy
<1>3. stage[CatalogPath] = output
  BY <1>1, <1>2 DEF TargetInv, StageHolds, IsCopy, ContentOf
<1>4. \A p \in PinnedPaths : p \in DOMAIN stage /\ stage[p] = output.files[p]
  BY <1>2, <1>3 DEF FilesAreTheirs
<1>5. DerivedAreOfPinned  BY <1>2, PathsDiffer DEF DerivedAreOfPinned
<1>6. StageHolds'  BY <1>1, <1>2, <1>3, <1>4, <1>5 DEF StageHolds, DerivedAreOfPinned
<1> QED BY <1>1, <1>6, ExportingIsConverted, ExporterWorks

LEMMA EngineImportsKeeps == ASSUME TargetInv, EngineImports PROVE TargetInv'
<1>1. /\ ex = "importing" /\ ex' = "preparing"
      /\ stage' = AndAlso(stage, DerivedFrom(stage))
      /\ UNCHANGED <<origin, te, pictures, model, output, place>>
  BY DEF EngineImports, ExporterTurns
<1>2. te \in Converted  BY <1>1, ExportingIsConverted
<1>3. /\ stage[CatalogPath] = output /\ DocumentIsPinned(output)
      /\ \A p \in PinnedPaths : p \in DOMAIN stage /\ stage[p] = output.files[p]
      /\ DerivedAreOfPinned
  BY <1>1 DEF TargetInv, StageHolds, StagedWhole
<1> DEFINE more == DerivedFrom(stage)
<1>4. \A q \in DOMAIN more : PicturePath(q[3]) \in PinnedPaths /\ q[1] = "derived"
  BY <1>2, DerivedIsOfPinned
<1>5. /\ DOMAIN stage' = DOMAIN stage \cup DOMAIN more
      /\ \A q \in DOMAIN stage : stage'[q] = stage[q]
  BY <1>1, AndAlsoHolds
<1> HIDE DEF more
<1>6. CatalogPath \in DOMAIN stage' /\ stage'[CatalogPath] = output
  <2>1. CatalogPath \in DOMAIN stage  BY <1>1 DEF TargetInv, StageHolds, StagedWhole
  <2> QED BY <1>3, <1>5, <2>1
<1>7. DerivedAreOfPinned'  BY <1>3, <1>4, <1>5 DEF DerivedAreOfPinned
<1>8. StageHolds'  BY <1>1, <1>3, <1>5, <1>6, <1>7 DEF StageHolds
<1> QED BY <1>1, <1>2, <1>8, ExporterWorks

LEMMA PrepareImportsKeeps == ASSUME TargetInv, PrepareImports PROVE TargetInv'
<1>1. /\ ex = "preparing" /\ ex' = "packing" /\ UNCHANGED stage
      /\ OthersAreDerived(stage)
      /\ UNCHANGED <<origin, te, pictures, model, output, place>>
  BY DEF PrepareImports, ExporterTurns
<1>2. StageHolds'  BY <1>1 DEF TargetInv, StageHolds, StagedWhole, DerivedAreOfPinned
<1> QED BY <1>1, <1>2, ExportingIsConverted, ExporterWorks

LEMMA AuditShippedKeeps == ASSUME TargetInv, AuditShipped PROVE TargetInv'
<1>1. /\ ex = "packing" /\ ex' = "shipped" /\ UNCHANGED stage
      /\ UNCHANGED <<origin, te, pictures, model, output, place>>
  BY DEF AuditShipped, ExporterTurns
<1>2. StageHolds'  BY <1>1 DEF TargetInv, StageHolds, StagedWhole, DerivedAreOfPinned
<1> QED BY <1>1, <1>2, ExportingIsConverted, ExporterWorks

LEMMA ExportFailsKeeps == ASSUME TargetInv, ExportFails PROVE TargetInv'
<1>1. /\ ex # "start" /\ ex' = "start"
      /\ UNCHANGED <<origin, te, pictures, model, output, place>>
  BY DEF ExportFails
<1>2. StageHolds'  BY <1>1 DEF StageHolds, StagedWhole
<1> QED BY <1>1, <1>2, ExportingIsConverted, ExporterWorks

LEMMA TargetStep == TargetInv /\ [TargetNext]_targetVars => TargetInv'
<1>1. ASSUME TargetInv, UNCHANGED targetVars PROVE TargetInv'
  <2>1. CASE te \in Converted
    <3>1. InstalledHolds'
      BY <1>1 DEF targetVars, TargetInv, InstalledHolds, IsCopy, ContentOf
    <3> QED BY <1>1, <2>1, <3>1, InstallerStep DEF targetVars
  <2>2. CASE te \notin Converted
    <3>1. SourcesArePinned => SourcesArePinned'
      BY <1>1 DEF targetVars, SourcesArePinned
    <3>2. PicturesAreTheirs => PicturesAreTheirs'
      BY <1>1 DEF targetVars, PicturesAreTheirs
    <3> QED BY <1>1, <2>2, <3>1, <3>2, ConverterStep DEF targetVars, TargetInv
  <2> QED BY <2>1, <2>2
<1> QED BY <1>1, CheckSourcesKeeps, ReadSourcesKeeps, ConvertTexturesKeeps,
           RunBlenderKeeps, AuditConvertedKeeps, BeginInstallKeeps, InstallNextKeeps,
           InstallDiesKeeps, EditorImportsKeeps, MeetRequirementsKeeps,
           CopyInstalledKeeps, StageInstalledKeeps, EngineImportsKeeps,
           PrepareImportsKeeps, AuditShippedKeeps, ExportFailsKeeps DEF TargetNext
-----------------------------------------------------------------------------
LEMMA PackedIsWhole == TargetInv => PackedEffectsAreWhole
<1> SUFFICES ASSUME TargetInv, ex \in {"packing", "shipped"}
             PROVE  /\ \A a \in Assets : \A m \in DOMAIN Layers[a] :
                         LET layer == Layers[a][m]
                             surfaces == stage[CatalogPath].surfaces[layer]
                             mesh == origin.mse[a].meshes[m]
                         IN /\ stage[ModelPath(layer)] = model[layer]
                            /\ mesh.file = FileOf[layer]
                            /\ \A g \in DOMAIN surfaces :
                                 /\ \A e \in DOMAIN mesh.elements :
                                      surfaces[g].blend = mesh.elements[e].destination
                                 /\ stage[PicturePath(surfaces[g].texture)]
                                      = Pixels(origin.texture[surfaces[g].texture])
                    /\ \A p \in DOMAIN stage : p[1] = "derived" =>
                         stage[p] = Pixels(origin.texture[p[3]])
  BY DEF PackedEffectsAreWhole
<1>1. /\ SourcesArePinned /\ PicturesAreTheirs /\ CatalogIsOfBuild
  BY DEF TargetInv, Converted
<1>2. /\ stage[CatalogPath] = output /\ DocumentIsPinned(output)
      /\ \A p \in PinnedPaths : p \in DOMAIN stage /\ stage[p] = output.files[p]
      /\ DerivedAreOfPinned /\ OthersAreDerived(stage)
  BY DEF TargetInv, StageHolds, StagedWhole
<1>3. output.files = FilesOfBuild /\ DOMAIN FilesOfBuild = PinnedPaths
  BY <1>1, <1>2 DEF CatalogIsOfBuild, DocumentIsPinned
<1>4. \A a \in Assets : ModelPath(a) \in PinnedPaths /\ stage[ModelPath(a)] = model[a]
  <2> TAKE a \in Assets
  <2>1. ModelPath(a) \in PinnedPaths  BY DEF PinnedPaths
  <2>2. FilesOfBuild[ModelPath(a)] = model[a]  BY <2>1, <1>3 DEF FilesOfBuild, ModelPath
  <2> QED BY <2>1, <2>2, <1>2, <1>3
<1>5. \A n : PicturePath(n) \in PinnedPaths =>
               stage[PicturePath(n)] = Pixels(origin.texture[n])
  <2> SUFFICES ASSUME NEW n, PicturePath(n) \in PinnedPaths
               PROVE  stage[PicturePath(n)] = Pixels(origin.texture[n])
    OBVIOUS
  <2>1. PicturePath(n) \in {ModelPath(a) : a \in Assets} \cup
                           {PicturePath(m) : m \in DOMAIN pictures}
    BY <1>3 DEF FilesOfBuild
  <2>2. n \in DOMAIN pictures  BY <2>1 DEF PicturePath, ModelPath
  <2>3. FilesOfBuild[PicturePath(n)] = Pixels(pictures[n])
    BY <1>3 DEF FilesOfBuild, PicturePath
  <2> QED BY <2>2, <2>3, <1>1, <1>2, <1>3 DEF PicturesAreTheirs
<1>6. ASSUME NEW a \in Assets, NEW m \in DOMAIN Layers[a]
      PROVE  LET layer == Layers[a][m]
                 surfaces == stage[CatalogPath].surfaces[layer]
                 mesh == origin.mse[a].meshes[m]
             IN /\ stage[ModelPath(layer)] = model[layer]
                /\ mesh.file = FileOf[layer]
                /\ \A g \in DOMAIN surfaces :
                     /\ \A e \in DOMAIN mesh.elements :
                          surfaces[g].blend = mesh.elements[e].destination
                     /\ stage[PicturePath(surfaces[g].texture)]
                          = Pixels(origin.texture[surfaces[g].texture])
  <2>1. PICK layer : layer = Layers[a][m]
    OBVIOUS
  <2>2. PICK surfaces : surfaces = stage[CatalogPath].surfaces[layer]
    OBVIOUS
  <2>3. PICK mesh : mesh = origin.mse[a].meshes[m]
    OBVIOUS
  <2>4. layer \in Assets  BY <2>1, TargetAssumption DEF Assets, Range
  <2>5. /\ [k \in DOMAIN origin.mse[a].meshes |-> origin.mse[a].meshes[k].file]
             = [k \in DOMAIN Layers[a] |-> FileOf[Layers[a][k]]]
        /\ \A k \in DOMAIN origin.mse[a].meshes :
             \A e \in DOMAIN origin.mse[a].meshes[k].elements :
               origin.mse[a].meshes[k].elements[e].destination = BlendOf[Layers[a][k]]
    BY <1>1 DEF SourcesArePinned, MseIsPinned
  <2>6. /\ mesh.file = FileOf[layer]
        /\ \A e \in DOMAIN mesh.elements : mesh.elements[e].destination = BlendOf[layer]
    <3>1. m \in DOMAIN origin.mse[a].meshes  BY <2>5
    <3> QED BY <3>1, <2>5, <2>1, <2>3
  <2>7. surfaces = [g \in DOMAIN PinnedShape |->
                      [geometry |-> PinnedShape[g][1], texture |-> TextureOf[layer][g],
                       blend |-> BlendOf[layer], alpha |-> PinnedAlpha[g]]]
    BY <1>2, <2>4, <2>2 DEF DocumentIsPinned
  <2>8. ASSUME NEW g \in DOMAIN surfaces
        PROVE  /\ surfaces[g].blend = BlendOf[layer]
               /\ PicturePath(surfaces[g].texture) \in PinnedPaths
    <3>1. g \in DOMAIN TextureOf[layer]  BY <2>4, <2>7, TargetAssumption DEF Assets
    <3>2. surfaces[g].blend = BlendOf[layer] /\ surfaces[g].texture = TextureOf[layer][g]
      BY <2>7
    <3> QED BY <2>4, <3>1, <3>2 DEF PinnedPaths
  <2>9. /\ stage[ModelPath(layer)] = model[layer]
        /\ mesh.file = FileOf[layer]
        /\ \A g \in DOMAIN surfaces :
             /\ \A e \in DOMAIN mesh.elements :
                  surfaces[g].blend = mesh.elements[e].destination
             /\ stage[PicturePath(surfaces[g].texture)]
                  = Pixels(origin.texture[surfaces[g].texture])
    BY <1>4, <1>5, <2>4, <2>6, <2>8
  <2> QED BY <2>1, <2>2, <2>3, <2>9
<1>7. ASSUME NEW p \in DOMAIN stage, p[1] = "derived"
      PROVE  stage[p] = Pixels(origin.texture[p[3]])
  <2>1. p \notin PinnedPaths \cup {CatalogPath}  BY <1>7, PathsDiffer
  <2>2. stage[p] = stage[PicturePath(p[3])] /\ PicturePath(p[3]) \in PinnedPaths
    BY <1>2, <1>7, <2>1 DEF OthersAreDerived, DerivedAreOfPinned
  <2> QED BY <1>5, <2>2
<1> QED BY <1>6, <1>7

-----------------------------------------------------------------------------
\* The base and the targets, of which one at most weighs one, make its frame.
LEMMA OneFrameIsShown ==
    ASSUME NEW frame, \A f \in 1 .. FrameCount : frame[f] \in Int,
           NEW active \in 1 .. FrameCount, NEW weights,
           \A f \in 1 .. FrameCount - 1 : weights[f] = IF f + 1 = active THEN 1 ELSE 0
    PROVE  frame[1] + SumFunction([f \in 1 .. FrameCount - 1 |->
                                     weights[f] * (frame[f + 1] - frame[1])])
             = frame[active]
<1> DEFINE S == 1 .. FrameCount - 1
           term == [f \in S |-> weights[f] * (frame[f + 1] - frame[1])]
<1>0. /\ FrameCount \in Nat /\ 2 <= FrameCount /\ IsFiniteSet(S)
      /\ DOMAIN term = S /\ SumFunction(term) = SumFunctionOnSet(term, S)
  <2>1. FrameCount \in Nat /\ 2 <= FrameCount BY TargetAssumption
  <2>2. IsFiniteSet(S) BY <2>1, FS_Interval
  <2>3. DOMAIN term = S OBVIOUS
  <2>4. SumFunction(term) = SumFunctionOnSet(term, S)  BY <2>3, Zenon DEF SumFunction
  <2> QED BY <2>1, <2>2, <2>3, <2>4, Zenon
<1>1. \A f \in S : term[f] = IF f + 1 = active THEN frame[active] - frame[1] ELSE 0
  <2> SUFFICES ASSUME NEW f \in S
               PROVE  term[f] = IF f + 1 = active THEN frame[active] - frame[1] ELSE 0
    OBVIOUS
  <2>1. PICK d \in Int : d = frame[f + 1] - frame[1]  BY <1>0
  <2>2. term[f] = weights[f] * d  BY <2>1
  <2>3. CASE f + 1 = active
    <3>1. weights[f] = 1  BY <2>3
    <3> QED BY <2>1, <2>2, <2>3, <3>1
  <2>4. CASE f + 1 # active
    <3>1. weights[f] = 0  BY <2>4
    <3> QED BY <2>1, <2>2, <2>4, <3>1
  <2> QED BY <2>3, <2>4
<1>2. frame[1] \in Int /\ frame[active] \in Int  BY <1>0
<1> HIDE DEF term
<1>3. CASE active = 1
  <2>1. \A f \in S : term[f] = 0  BY <1>0, <1>1, <1>3
  <2>2. SumFunctionOnSet(term, S) = 0  BY <1>0, <2>1, SumOfZeros
  <2> QED BY <1>0, <1>2, <1>3, <2>2 DEF term
<1>4. CASE active # 1
  <2>1. active - 1 \in S /\ \A f \in S \ {active - 1} : term[f] = 0  BY <1>0, <1>1, <1>4
  <2>2. term[active - 1] = frame[active] - frame[1] /\ \A f \in S : term[f] \in Int
    BY <1>0, <1>1, <1>2, <2>1
  <2> HIDE DEF S
  <2>3. SumFunctionOnSet(term, S)
          = term[active - 1] + SumFunctionOnSet(term, S \ {active - 1})
    BY <1>0, <2>1, <2>2, SumSplits
  <2>4. SumFunctionOnSet(term, S \ {active - 1}) = 0
    <3>1. IsFiniteSet(S \ {active - 1})  BY <1>0, FS_Subset
    <3> QED BY <2>1, <3>1, SumOfZeros
  <2>5. frame[1] + SumFunctionOnSet(term, S) = frame[active]  BY <1>2, <2>2, <2>3, <2>4
  <2> QED BY <1>0, <2>5 DEF term, S
<1> QED BY <1>3, <1>4

\* The points of a geometry that was read are numbers in every frame.
LEMMA FramesAreNumbers ==
    ASSUME NEW mde, MdeIsPinned(mde), FramesAreThere(mde),
           NEW g \in DOMAIN mde.geometries, NEW f \in 1 .. FrameCount
    PROVE  LET geometry == mde.geometries[g]
               frame == FramesAsRead(geometry)[f]
           IN /\ DOMAIN frame = 1 .. geometry.indices
              /\ frame = [c \in DOMAIN CornersAt(geometry, f) |->
                            YUp(CornersAt(geometry, f)[c])]
              /\ \A c \in DOMAIN frame :
                   /\ frame[c] = [axis \in 1 .. 3 |-> frame[c][axis]]
                   /\ \A axis \in 1 .. 3 : frame[c][axis] \in Int
<1> DEFINE geometry == mde.geometries[g]
           read == geometry.frames[f]
           corners == CornersAt(geometry, f)
<1>1. FramesAsRead(geometry)[f] = [c \in DOMAIN corners |-> YUp(corners[c])]
  BY DEF FramesAsRead
<1>2. DOMAIN corners = 1 .. geometry.indices  BY DEF CornersAt
<1>3. ASSUME NEW c \in 1 .. geometry.indices
      PROVE  \A axis \in 1 .. 3 : corners[c][axis] \in Int
  <2>1. f \in DOMAIN geometry.frames  BY DEF MdeIsPinned, FramesAreThere
  <2>2. FrameIsSound(geometry, read)
    BY <2>1 DEF MdeIsPinned, MdeIsRead, GeometryIsSound
  <2>3. geometry.vertices \in Nat /\ read.at[c] \in 0 .. geometry.vertices - 1
    BY <2>2 DEF FrameIsSound, FramesAreThere
  <2>4. \A axis \in 1 .. 3 : read.positions[read.at[c] + 1][axis] \in Int
    <3>1. read.at[c] + 1 \in 1 .. geometry.vertices  BY <2>3
    <3> QED BY <2>1, <3>1 DEF FramesAreThere
  <2>5. corners[c] = Placed(read.positions[read.at[c] + 1])  BY DEF CornersAt
  <2>6. \A axis \in 1 .. 3 : PinnedAt[axis] \in Int  BY TargetAssumption
  <2>7. PICK p : p = read.positions[read.at[c] + 1]
    OBVIOUS
  <2>8. \A axis \in 1 .. 3 : p[axis] \in Int  BY <2>4, <2>7
  <2>9. \A axis \in 1 .. 3 : Placed(p)[axis] \in Int  BY <2>6, <2>8 DEF Placed
  <2> QED BY <2>5, <2>7, <2>9
<1>4. ASSUME NEW p, \A axis \in 1 .. 3 : p[axis] \in Int
      PROVE  /\ YUp(p) = [axis \in 1 .. 3 |-> YUp(p)[axis]]
             /\ \A axis \in 1 .. 3 : YUp(p)[axis] \in Int
  <2>1. p[1] \in Int /\ p[2] \in Int /\ p[3] \in Int  BY <1>4
  <2> QED BY <2>1 DEF YUp
<1> HIDE DEF corners
<1>5. \A c \in 1 .. geometry.indices :
        /\ YUp(corners[c]) = [axis \in 1 .. 3 |-> YUp(corners[c])[axis]]
        /\ \A axis \in 1 .. 3 : YUp(corners[c])[axis] \in Int
  BY <1>3, <1>4
<1> QED BY <1>1, <1>2, <1>5 DEF corners

LEMMA ActiveFrameIsOfLoop ==
    ASSUME NEW time \in 1 .. FrameCount + 1
    PROVE  /\ ActiveFrame(time - 1) = ((time - 1) % FrameCount) + 1
           /\ ActiveFrame(time - 1) \in 1 .. FrameCount
<1>1. FrameCount \in Nat /\ 2 <= FrameCount  BY TargetAssumption
<1>2. CASE time - 1 < FrameCount  BY <1>1, <1>2 DEF ActiveFrame
<1>3. CASE time - 1 = FrameCount  BY <1>1, <1>3 DEF ActiveFrame
<1> QED BY <1>1, <1>2, <1>3

LEMMA FrameIsShown == TargetInv => ShownFrameIsSource
<1> SUFFICES ASSUME TargetInv, te = "built", NEW a \in Assets, NEW g \in Geometries(a),
                    NEW time \in 1 .. FrameCount + 1, NEW geometry,
                    geometry = Geometry(a, g), NEW i,
                    i = CHOOSE k \in DOMAIN model[a].primitives :
                          model[a].primitives[k].material[2] = geometry.name,
                    NEW corners,
                    corners = CornersAt(geometry, ((time - 1) % FrameCount) + 1)
             PROVE  ShownAt(model[a], i, time)
                      = [c \in DOMAIN corners |-> YUp(corners[c])]
  BY DEF ShownFrameIsSource
<1>1. SourcesArePinned /\ CatalogIsOfBuild  BY DEF TargetInv, Converted
<1>2. MdeIsPinned(origin.mde[a]) /\ FramesAreThere(origin.mde[a])
  BY <1>1, TargetAssumption DEF TargetInv, SourcesArePinned, Assets
<1>3. g \in DOMAIN origin.mde[a].geometries /\ geometry = origin.mde[a].geometries[g]
  BY DEF Geometries, Geometry
<1> DEFINE frames == FramesAsRead(geometry)
           weights == model[a].samplers[1][time]
           active == ActiveFrame(time - 1)
<1>4. /\ FramesOf(model[a].primitives[i]) = frames
      /\ \A f \in 1 .. FrameCount - 1 : weights[f] = IF f + 1 = active THEN 1 ELSE 0
  BY <1>1, <1>3 DEF CatalogIsOfBuild, ShowsFrames, WeightsAreACycle
<1>5. active \in 1 .. FrameCount /\ 1 \in 1 .. FrameCount
      /\ corners = CornersAt(geometry, active)
  BY ActiveFrameIsOfLoop, TargetAssumption
<1>6. \A f \in 1 .. FrameCount :
        /\ DOMAIN frames[f] = 1 .. geometry.indices
        /\ frames[f] = [c \in DOMAIN CornersAt(geometry, f) |->
                          YUp(CornersAt(geometry, f)[c])]
        /\ \A c \in DOMAIN frames[f] :
             /\ frames[f][c] = [axis \in 1 .. 3 |-> frames[f][c][axis]]
             /\ \A axis \in 1 .. 3 : frames[f][c][axis] \in Int
  <2> SUFFICES ASSUME NEW f \in 1 .. FrameCount
               PROVE  /\ DOMAIN frames[f] = 1 .. geometry.indices
                      /\ frames[f] = [c \in DOMAIN CornersAt(geometry, f) |->
                                        YUp(CornersAt(geometry, f)[c])]
                      /\ \A c \in DOMAIN frames[f] :
                           /\ frames[f][c] = [axis \in 1 .. 3 |-> frames[f][c][axis]]
                           /\ \A axis \in 1 .. 3 : frames[f][c][axis] \in Int
    OBVIOUS
  <2>1. PICK mde : mde = origin.mde[a]
    OBVIOUS
  <2>2. MdeIsPinned(mde) /\ FramesAreThere(mde) /\ g \in DOMAIN mde.geometries
        /\ geometry = mde.geometries[g]
    BY <1>2, <1>3, <2>1
  <2>3. LET known == mde.geometries[g]
            frame == FramesAsRead(known)[f]
        IN /\ DOMAIN frame = 1 .. known.indices
           /\ frame = [c \in DOMAIN CornersAt(known, f) |-> YUp(CornersAt(known, f)[c])]
           /\ \A c \in DOMAIN frame :
                /\ frame[c] = [axis \in 1 .. 3 |-> frame[c][axis]]
                /\ \A axis \in 1 .. 3 : frame[c][axis] \in Int
    BY <2>2, FramesAreNumbers
  <2> QED BY <2>2, <2>3
<1>7. ShownAt(model[a], i, time)
        = [c \in DOMAIN frames[1] |-> [axis \in 1 .. 3 |->
             frames[1][c][axis] + SumFunction([f \in 1 .. FrameCount - 1 |->
               weights[f] * (frames[f + 1][c][axis] - frames[1][c][axis])])]]
  BY <1>4 DEF ShownAt
<1> HIDE DEF frames, weights, active
<1>8. ASSUME NEW c \in 1 .. geometry.indices, NEW axis \in 1 .. 3
      PROVE  frames[1][c][axis] + SumFunction([f \in 1 .. FrameCount - 1 |->
               weights[f] * (frames[f + 1][c][axis] - frames[1][c][axis])])
               = frames[active][c][axis]
  <2> DEFINE line == [f \in 1 .. FrameCount |-> frames[f][c][axis]]
  <2>1. \A f \in 1 .. FrameCount : line[f] \in Int /\ line[f] = frames[f][c][axis]
    BY <1>6
  <2>2. [f \in 1 .. FrameCount - 1 |-> weights[f] * (line[f + 1] - line[1])]
          = [f \in 1 .. FrameCount - 1 |->
               weights[f] * (frames[f + 1][c][axis] - frames[1][c][axis])]
    <3>0. FrameCount \in Nat  BY TargetAssumption
    <3>1. \A f \in 1 .. FrameCount - 1 : f + 1 \in 1 .. FrameCount  BY ONLY <3>0
    <3>2. \A f \in 1 .. FrameCount - 1 : line[f + 1] = frames[f + 1][c][axis]  BY <3>1
    <3>3. line[1] = frames[1][c][axis]  BY <1>5
    <3> HIDE DEF line
    <3> QED BY <3>2, <3>3
  <2> HIDE DEF line
  <2>3. line[1] + SumFunction([f \in 1 .. FrameCount - 1 |->
                                 weights[f] * (line[f + 1] - line[1])]) = line[active]
    BY <1>4, <1>5, <2>1, OneFrameIsShown
  <2> QED BY <1>5, <2>1, <2>2, <2>3
<1>9. ShownAt(model[a], i, time)
        = [c \in 1 .. geometry.indices |-> [axis \in 1 .. 3 |-> frames[active][c][axis]]]
  <2>1. DOMAIN frames[1] = 1 .. geometry.indices  BY <1>5, <1>6
  <2>2. \A c \in 1 .. geometry.indices :
          [axis \in 1 .. 3 |->
             frames[1][c][axis] + SumFunction([f \in 1 .. FrameCount - 1 |->
               weights[f] * (frames[f + 1][c][axis] - frames[1][c][axis])])]
            = [axis \in 1 .. 3 |-> frames[active][c][axis]]
    BY <1>8
  <2> QED BY <1>7, <2>1, <2>2
<1>10. frames[active]
         = [c \in 1 .. geometry.indices |-> [axis \in 1 .. 3 |-> frames[active][c][axis]]]
  <2>1. PICK f \in 1 .. FrameCount : f = active  BY <1>5
  <2>2. /\ DOMAIN frames[f] = 1 .. geometry.indices
        /\ \A c \in 1 .. geometry.indices :
             frames[f][c] = [axis \in 1 .. 3 |-> frames[f][c][axis]]
    BY <1>6
  <2>3. frames[f] = [c \in 1 .. geometry.indices |-> frames[f][c]]  BY <1>6, <2>2
  <2> QED BY <2>1, <2>2, <2>3
<1>11. frames[active] = [c \in DOMAIN corners |-> YUp(corners[c])]  BY <1>5, <1>6
<1> QED BY <1>9, <1>10, <1>11

\* At every time of its loop an effect that was converted shows the points of
\* the original's frame, and what is packed of it is what was converted,
\* with the pixels and the blend of the original, although installations die,
\* are repeated while an exporter copies, and an editor is open
\* (import_target_effects.py, target_effect_export.py).
THEOREM ShownIsConvertedCorrect == TargetSpec => []ShownIsConverted
<1>1. TargetInv => ShownIsConverted  BY PackedIsWhole, FrameIsShown DEF ShownIsConverted
<1> QED BY <1>1, TargetBegins, TargetStep, PTL DEF TargetSpec

-----------------------------------------------------------------------------
(* MotionEffects.  What each of the files holds, from the one before it.     *)

BonesOf(w, i) == ToSet(w.source[w.inventory[i].actor])
JointsOf(w, r, i) == ToSet(w.characters[r].joints[w.inventory[i].actor])
EventsOf(w, i) == ShowEvents(w.inventory[i].clip)
KeyOf(w, i) == <<w.inventory[i].actor, w.inventory[i].vnum>>

\* An effect is the event's, at a joint of the characters r.
IsShown(w, effect, event, i, r) ==
    /\ IsAsAsked(effect, event, BonesOf(w, i))
    /\ effect.enabled /\ ToBone(effect.attachment)
         => effect.bone \in JointsOf(w, r, i)

\* The effects of row i of the inventory are those of its motion.
AreOf(w, shows, i, r) ==
    /\ DOMAIN shows = DOMAIN EventsOf(w, i)
    /\ \A e \in DOMAIN shows : IsShown(w, shows[e], EventsOf(w, i)[e], i, r)

\* What Discover, ResolveBones and PackageEffects write.
Discovered(w, f) ==
    f.effects = [i \in DOMAIN w.inventory |-> Extract(w.inventory[i].clip)]

Resolved(w, f) ==
    /\ DOMAIN f.effects = DOMAIN w.inventory
    /\ \A i \in DOMAIN f.effects : AreOf(w, f.effects[i], i, f.characters)

RowsAreOf(w, l) ==
    /\ \E n \in Nat : DOMAIN l.rows = 1 .. n
    /\ l.of = "resolved" =>
         /\ DOMAIN l.rows = DOMAIN w.inventory
         /\ \A i \in DOMAIN l.rows :
              /\ Key(l.rows[i]) = KeyOf(w, i)
              /\ AreOf(w, l.rows[i].effects, i, l.characters)

IsOfAction(w, p, a) ==
    /\ p.of = "resolved" =>
         \E i \in DOMAIN w.inventory :
           w.skills[p.skills][KeyOf(w, i)] = a /\ AreOf(w, p.links[a], i, p.resolvedFor)
    /\ \A e \in DOMAIN p.links[a] :
         p.links[a][e].start \in 0 .. w.characters[p.characters].durations[a]

KeepsPixels(w, p) ==
    \A c \in ToSet(w.candidates) : \A e \in ToSet(c.effects) :
      \A t \in e.uses \cap DOMAIN c.textures : p.textures[t] = c.textures[t]

PackageIsOf(w, p) ==
    /\ DOMAIN p.links
         = {w.skills[p.skills][s] : s \in DOMAIN w.skills[p.skills]}
    /\ \A a \in DOMAIN p.links : IsOfAction(w, p, a)
    /\ KeepsPixels(w, p)

MotionInv ==
    /\ work \in EffectWorks
    /\ found # NoFile => Discovered(work, found)
    /\ linked # NoFile => Resolved(work, linked)
    /\ rowList # NoFile => RowsAreOf(work, rowList)
    /\ package # NoFile => PackageIsOf(work, package)
    /\ shown # NoFile =>
         /\ PackageIsOf(work, shown.package)
         /\ shown.characters = shown.package.characters
         /\ shown.skills = shown.package.skills

-----------------------------------------------------------------------------
LEMMA MotionBegins == MotionInit => MotionInv
  BY DEF MotionInit, MotionStart, MotionInv

\* An event that was understood is resolved to what it asks for.
LEMMA ResolvesAsAsked ==
    ASSUME NEW ev, NEW source
    PROVE  LET effect == ResolveAttachment(MotionEffect(ev), source)
           IN /\ IsAsAsked(effect, ev, source)
              /\ effect.enabled /\ ToBone(effect.attachment)
                   => /\ effect.bone = ev.bone /\ ev.bone \in source
                      /\ effect = MotionEffect(ev)
<1> DEFINE f == MotionEffect(ev)
<1>1. /\ f.attachment = Attachment(ev) /\ f.enabled = TRUE
      /\ f.bone = IF ToBone(Attachment(ev)) THEN ev.bone ELSE ""
  BY DEF MotionEffect
<1>2. f = [event |-> f.event, start |-> f.start, path |-> f.path,
           attachment |-> f.attachment, enabled |-> f.enabled, bone |-> f.bone]
  BY DEF MotionEffect
<1>3. CASE ~ToBone(f.attachment) \/ f.bone \in source
  <2>1. ResolveAttachment(f, source) = f  BY <1>3 DEF ResolveAttachment
  <2> QED BY <1>1, <1>3, <2>1 DEF IsAsAsked
<1>4. CASE ToBone(f.attachment) /\ f.bone \notin source
  <2>0. f.bone = ev.bone  BY <1>1, <1>4
  <2>1. CASE f.attachment = "follow_bone"
    <3>1. ResolveAttachment(f, source)
            = [f EXCEPT !.attachment = "follow_root", !.bone = ""]
      BY <1>4, <2>1 DEF ResolveAttachment
    <3>2. /\ ResolveAttachment(f, source).attachment = "follow_root"
          /\ ResolveAttachment(f, source).enabled = TRUE
      <4> HIDE DEF f
      <4> QED BY <1>1, <1>2, <3>1
    <3> QED BY <1>1, <1>4, <2>0, <2>1, <3>2 DEF IsAsAsked, ToBone
  <2>2. CASE f.attachment # "follow_bone"
    <3>0. f.attachment = "capture_bone"  BY <1>4, <2>2 DEF ToBone
    <3>1. ResolveAttachment(f, source) = [f EXCEPT !.enabled = FALSE]
      BY <1>4, <2>2 DEF ResolveAttachment
    <3>2. /\ ResolveAttachment(f, source).attachment = f.attachment
          /\ ResolveAttachment(f, source).enabled = FALSE
      <4> HIDE DEF f
      <4> QED BY <1>1, <1>2, <3>1
    <3> QED BY <1>1, <1>4, <2>0, <3>0, <3>2 DEF IsAsAsked, ToBone
  <2> QED BY <2>1, <2>2
<1> QED BY <1>3, <1>4

LEMMA RowResolves ==
    ASSUME MotionInv, found # NoFile, NEW i \in DOMAIN found.effects, RowIsResolvable(i)
    PROVE  AreOf(work, [e \in DOMAIN found.effects[i] |->
                  ResolveAttachment(found.effects[i][e], SourceBones(i))], i, current)
<1> DEFINE shows == found.effects[i]
           evs == EventsOf(work, i)
<1>1. i \in DOMAIN work.inventory /\ shows = Extract(work.inventory[i].clip)
  BY DEF MotionInv, Discovered
<1>2. /\ DOMAIN shows = DOMAIN evs
      /\ \A e \in DOMAIN shows : shows[e] # Rejected => shows[e] = MotionEffect(evs[e])
  BY <1>1 DEF Extract, EventsOf
<1>3. ASSUME NEW e \in DOMAIN shows
      PROVE  IsShown(work, ResolveAttachment(shows[e], SourceBones(i)), evs[e], i, current)
  <2>1. shows[e] = MotionEffect(evs[e])  BY <1>2 DEF RowIsResolvable
  <2>2. AttachmentIsThere(shows[e], SourceBones(i), JointsOf(work, current, i))
    BY DEF RowIsResolvable, JointsOf, Characters
  <2>3. SourceBones(i) = BonesOf(work, i)  BY DEF SourceBones, BonesOf
  <2>4. LET effect == ResolveAttachment(shows[e], BonesOf(work, i))
        IN /\ IsAsAsked(effect, evs[e], BonesOf(work, i))
           /\ effect.enabled /\ ToBone(effect.attachment)
                => /\ effect.bone = evs[e].bone /\ evs[e].bone \in BonesOf(work, i)
                   /\ effect = shows[e]
    BY <2>1, ResolvesAsAsked
  <2> HIDE DEF shows, evs
  <2> QED BY <2>2, <2>3, <2>4 DEF IsShown, AttachmentIsThere
<1> HIDE DEF shows, evs
<1>4. AreOf(work, [e \in DOMAIN shows |-> ResolveAttachment(shows[e], SourceBones(i))],
            i, current)
  BY <1>2, <1>3 DEF AreOf, evs
<1> QED BY <1>4 DEF shows

LEMMA ResolveBonesKeeps == ASSUME MotionInv, ResolveBones PROVE MotionInv'
<1> DEFINE new == [is |-> "links", characters |-> current,
       effects |-> [i \in DOMAIN found.effects |->
         [e \in DOMAIN found.effects[i] |->
            ResolveAttachment(found.effects[i][e], SourceBones(i))]]]
<1>1. linked' = new /\ UNCHANGED <<work, current, found, rowList, package, shown>>
  BY DEF ResolveBones
<1>2. found # NoFile /\ \A i \in DOMAIN found.effects : RowIsResolvable(i)
  BY DEF ResolveBones
<1>3. \A i \in DOMAIN found.effects : AreOf(work, new.effects[i], i, current)
  BY <1>2, RowResolves
<1>4. DOMAIN found.effects = DOMAIN work.inventory  BY <1>2 DEF MotionInv, Discovered
<1>5. DOMAIN new.effects = DOMAIN found.effects /\ new.characters = current
  OBVIOUS
<1> HIDE DEF new
<1>6. Resolved(work, new)  BY <1>3, <1>4, <1>5 DEF Resolved
<1> QED BY <1>1, <1>6 DEF MotionInv

LEMMA DiscoverKeeps == ASSUME MotionInv, Discover PROVE MotionInv'
<1>1. Discovered(work, found')  BY DEF Discover, Discovered
<1> QED BY <1>1 DEF Discover, MotionInv

\* The rows that somebody takes or writes are a list.
LEMMA TakeResolvedKeeps == ASSUME MotionInv, TakeResolved PROVE MotionInv'
<1> DEFINE new == [of |-> "resolved", characters |-> linked.characters,
                   rows |-> [i \in DOMAIN linked.effects |->
                               AsRow(i, linked.effects[i])]]
<1>1. /\ linked # NoFile /\ rowList' = new
      /\ UNCHANGED <<work, current, found, linked, package, shown>>
  BY DEF TakeResolved
<1>2. Resolved(work, linked) /\ work \in EffectWorks  BY <1>1 DEF MotionInv
<1>3. new.characters = linked.characters /\ DOMAIN new.rows = DOMAIN work.inventory
  BY <1>2 DEF Resolved
<1>4. \A i \in DOMAIN new.rows :
        Key(new.rows[i]) = KeyOf(work, i) /\ new.rows[i].effects = linked.effects[i]
  BY DEF AsRow, Key, KeyOf
<1>5. \E n \in Nat : DOMAIN work.inventory = 1 .. n  BY <1>2, MotionAssumption
<1> HIDE DEF new
<1>6. RowsAreOf(work, new)  BY <1>2, <1>3, <1>4, <1>5 DEF RowsAreOf, Resolved
<1> QED BY <1>1, <1>6 DEF MotionInv

LEMMA TakeDiscoveredKeeps == ASSUME MotionInv, TakeDiscovered PROVE MotionInv'
<1>1. /\ found # NoFile /\ rowList'.of = "discovered"
      /\ DOMAIN rowList'.rows = DOMAIN found.effects
      /\ UNCHANGED <<work, current, found, linked, package, shown>>
  BY DEF TakeDiscovered
<1>2. DOMAIN found.effects = DOMAIN work.inventory /\ work \in EffectWorks
  BY <1>1 DEF MotionInv, Discovered
<1>3. \E n \in Nat : DOMAIN work.inventory = 1 .. n  BY <1>2, MotionAssumption
<1>4. PICK l : l = rowList'
  OBVIOUS
<1>5. l.of = "discovered" /\ DOMAIN l.rows = DOMAIN work.inventory  BY <1>1, <1>2, <1>4
<1>6. RowsAreOf(work, l)  BY <1>3, <1>5 DEF RowsAreOf
<1> QED BY <1>1, <1>4, <1>6 DEF MotionInv

LEMMA WriteRowsKeeps == ASSUME MotionInv, WriteRows PROVE MotionInv'
<1>1. PICK rows \in work.written :
        rowList' = [of |-> "written", characters |-> 0, rows |-> rows]
  BY DEF WriteRows
<1>2. UNCHANGED <<work, current, found, linked, package, shown>>  BY DEF WriteRows
<1>3. work \in EffectWorks  BY DEF MotionInv
<1>4. \E n \in Nat : DOMAIN rows = 1 .. n  BY <1>3, MotionAssumption
<1>5. PICK l : l = rowList'
  OBVIOUS
<1>6. l.of = "written" /\ l.rows = rows  BY <1>1, <1>5
<1>7. RowsAreOf(work, l)  BY <1>4, <1>6 DEF RowsAreOf
<1> QED BY <1>2, <1>5, <1>7 DEF MotionInv

\* LinkOf chooses one of the rows that share a motion.
LEMMA LinkIsOfARow ==
    ASSUME NEW n \in Nat, DOMAIN rowList.rows = 1 .. n, NEW skills, NEW action,
           {Key(rowList.rows[i]) : i \in DOMAIN rowList.rows} = DOMAIN skills,
           NEW s \in DOMAIN skills, action = skills[s]
    PROVE  \E i \in DOMAIN rowList.rows :
             /\ skills[Key(rowList.rows[i])] = action
             /\ LinkOf(action, skills) = rowList.rows[i].effects
<1> DEFINE shares == {i \in DOMAIN rowList.rows :
                        skills[Key(rowList.rows[i])] = action}
<1>1. n \in Nat /\ DOMAIN rowList.rows = 1 .. n
  OBVIOUS
<1>2. shares \in SUBSET Nat /\ \A y \in shares : y <= n  BY <1>1
<1>3. shares # {}
  <2>1. PICK i \in DOMAIN rowList.rows : Key(rowList.rows[i]) = s
    OBVIOUS
  <2> QED BY <2>1
<1>4. LinkOf(action, skills)
        = rowList.rows[CHOOSE i \in shares : \A j \in shares : j <= i].effects
  BY DEF LinkOf
<1>5. \E i \in shares : \A j \in shares : j <= i
  <2> HIDE DEF shares
  <2> QED BY <1>1, <1>2, <1>3, MaxIsGreatest
<1>6. PICK m \in shares : m = CHOOSE i \in shares : \A j \in shares : j <= i
  <2> HIDE DEF shares
  <2> QED BY <1>5
<1> QED BY <1>4, <1>6

\* Every texture that a candidate names is packaged with its pixels.
LEMMA PackagedKeeps ==
    ASSUME work \in EffectWorks, TexturesAgree, NEW c \in EffectCandidates,
           NEW t \in DOMAIN c.textures
    PROVE  t \in TextureNames /\ Packaged(t) = c.textures[t]
<1>1. t \in TextureNames  BY DEF TextureNames
<1>2. t \notin MeshPixels  BY MotionAssumption DEF MeshPixels, EffectCandidates
<1> DEFINE d == CHOOSE x \in EffectCandidates : t \in DOMAIN x.textures
<1>3. d \in EffectCandidates /\ t \in DOMAIN d.textures
  OBVIOUS
<1>4. Packaged(t) = d.textures[t]  BY <1>2 DEF Packaged
<1> HIDE DEF d
<1>5. d.textures[t] = c.textures[t]  BY <1>3 DEF TexturesAgree
<1> QED BY <1>1, <1>4, <1>5

LEMMA PackageEffectsKeeps == ASSUME MotionInv, PackageEffects PROVE MotionInv'
<1>1. PICK k \in DOMAIN work.skills :
       /\ LinksAreSound(work.skills[k]) /\ TexturesAgree
       /\ package' = [is |-> "package", whole |-> TRUE,
               characters |-> current, skills |-> k,
               of |-> rowList.of, resolvedFor |-> rowList.characters,
               links |-> [a \in {work.skills[k][s] : s \in DOMAIN work.skills[k]} |->
                            LinkOf(a, work.skills[k])],
               textures |-> [t \in TextureNames |-> Packaged(t)]]
  BY DEF PackageEffects
<1>2. rowList # NoFile /\ UNCHANGED <<work, current, found, linked, rowList, shown>>
  BY DEF PackageEffects
<1> DEFINE skills == work.skills[k]
           actions == {skills[s] : s \in DOMAIN skills}
<1>3. PICK p : p = package'
  OBVIOUS
<1>4. /\ p.characters = current /\ p.skills = k
      /\ p.of = rowList.of /\ p.resolvedFor = rowList.characters
      /\ p.links = [a \in actions |-> LinkOf(a, skills)]
      /\ p.textures = [t \in TextureNames |-> Packaged(t)]
  BY <1>1, <1>3
<1>5. DOMAIN p.links = actions /\ \A a \in actions : p.links[a] = LinkOf(a, skills)
  BY <1>4
<1>6. RowsAreOf(work, rowList) /\ work \in EffectWorks  BY <1>2 DEF MotionInv
<1>7. PICK n \in Nat : DOMAIN rowList.rows = 1 .. n  BY <1>6 DEF RowsAreOf
<1>8. ASSUME NEW a \in actions PROVE IsOfAction(work, p, a)
  <2>1. PICK s \in DOMAIN skills : a = skills[s]
    OBVIOUS
  <2>2. {Key(rowList.rows[i]) : i \in DOMAIN rowList.rows} = DOMAIN skills
    BY <1>1 DEF LinksAreSound
  <2> HIDE DEF skills, actions
  <2>3. PICK i \in DOMAIN rowList.rows :
          /\ skills[Key(rowList.rows[i])] = a
          /\ LinkOf(a, skills) = rowList.rows[i].effects
    BY <1>7, <2>1, <2>2, LinkIsOfARow
  <2>4. ASSUME p.of = "resolved"
        PROVE  /\ AreOf(work, p.links[a], i, p.resolvedFor)
               /\ i \in DOMAIN work.inventory
               /\ work.skills[p.skills][KeyOf(work, i)] = a
    <3>1. /\ i \in DOMAIN work.inventory /\ Key(rowList.rows[i]) = KeyOf(work, i)
          /\ AreOf(work, rowList.rows[i].effects, i, rowList.characters)
      BY <1>4, <1>6, <2>3, <2>4 DEF RowsAreOf
    <3>2. work.skills[p.skills][KeyOf(work, i)] = a  BY <1>4, <2>3, <3>1 DEF skills
    <3> QED BY <1>4, <1>5, <2>3, <3>1, <3>2
  <2>5. LinkIsSound(rowList.rows[i].effects, a)  BY <1>1, <2>3 DEF LinksAreSound, skills
  <2>6. \A e \in DOMAIN p.links[a] :
          p.links[a][e].start \in 0 .. work.characters[p.characters].durations[a]
    BY <1>4, <1>5, <2>3, <2>5 DEF LinkIsSound, Characters
  <2> QED BY <2>4, <2>6 DEF IsOfAction
<1>9. KeepsPixels(work, p)
  <2> SUFFICES ASSUME NEW c \in ToSet(work.candidates), NEW e \in ToSet(c.effects),
                      NEW t \in e.uses \cap DOMAIN c.textures
               PROVE  p.textures[t] = c.textures[t]
    BY DEF KeepsPixels
  <2>1. t \in TextureNames /\ Packaged(t) = c.textures[t]
    BY <1>1, <1>6, PackagedKeeps DEF EffectCandidates
  <2> QED BY <1>4, <2>1
<1>10. PackageIsOf(work, p)
  <2>1. actions = {work.skills[p.skills][s] : s \in DOMAIN work.skills[p.skills]}
    BY <1>4
  <2> HIDE DEF actions
  <2> QED BY <1>5, <1>8, <1>9, <2>1 DEF PackageIsOf
<1> QED BY <1>2, <1>3, <1>10 DEF MotionInv

LEMMA DamagePackageKeeps == ASSUME MotionInv, DamagePackage PROVE MotionInv'
<1>1. package # NoFile /\ UNCHANGED <<work, current, found, linked, rowList, shown>>
  BY DEF DamagePackage
<1>2. PICK p : p = package'
  OBVIOUS
<1>3. p = [package EXCEPT !.whole = FALSE]  BY <1>2 DEF DamagePackage
<1>4. PackageIsOf(work, package)  BY <1>1 DEF MotionInv
<1>5. /\ p.links = package.links /\ p.skills = package.skills
      /\ p.characters = package.characters /\ p.textures = package.textures
      /\ p.resolvedFor = package.resolvedFor /\ p.of = package.of
  BY <1>3
<1>6. PackageIsOf(work, p)  BY <1>4, <1>5 DEF PackageIsOf, IsOfAction, KeepsPixels
<1> QED BY <1>1, <1>2, <1>6 DEF MotionInv

LEMMA StagePackageKeeps == ASSUME MotionInv, StagePackage PROVE MotionInv'
<1>1. package # NoFile /\ UNCHANGED <<work, current, found, linked, rowList, package>>
  BY DEF StagePackage
<1>2. PICK k \in DOMAIN work.skills :
        /\ MadeFor(package, current, k)
        /\ shown' = [is |-> "release", characters |-> current, skills |-> k,
                     package |-> package]
  BY DEF StagePackage
<1>3. /\ shown'.package = package /\ shown'.characters = package.characters
      /\ shown'.skills = package.skills
  BY <1>2 DEF MadeFor
<1> QED BY <1>1, <1>3 DEF MotionInv

LEMMA MotionStep == MotionInv /\ [MotionNext]_motionVars => MotionInv'
<1>1. ASSUME MotionInv, ReplaceCharacters PROVE MotionInv'
  BY <1>1 DEF ReplaceCharacters, MotionInv
<1>2. ASSUME MotionInv, UNCHANGED motionVars PROVE MotionInv'
  BY <1>2 DEF motionVars, MotionInv
<1> QED BY <1>1, <1>2, DiscoverKeeps, ResolveBonesKeeps, TakeResolvedKeeps,
           TakeDiscoveredKeeps, WriteRowsKeeps, PackageEffectsKeeps,
           DamagePackageKeeps, StagePackageKeeps DEF MotionNext

LEMMA MotionInvShows == MotionInv => MotionEffectsAreWhole
<1> SUFFICES ASSUME MotionInv, shown # NoFile
             PROVE  AttachmentsAreReal /\ SkillsAreCovered /\ RecipesKeepTheirPixels
  BY DEF MotionEffectsAreWhole, AttachmentsAreReal, SkillsAreCovered,
         RecipesKeepTheirPixels
<1> DEFINE p == shown.package
<1>1. /\ PackageIsOf(work, p) /\ shown.characters = p.characters
      /\ shown.skills = p.skills
  BY DEF MotionInv
<1>2. AttachmentsAreReal
  <2> SUFFICES ASSUME p.of = "resolved", NEW action \in DOMAIN p.links
               PROVE  \E i \in DOMAIN work.inventory :
                 /\ ShownSkills[Key(work.inventory[i])] = action
                 /\ DOMAIN p.links[action] = DOMAIN ShowEvents(work.inventory[i].clip)
                 /\ \A e \in DOMAIN p.links[action] :
                      /\ IsAsAsked(p.links[action][e],
                                   ShowEvents(work.inventory[i].clip)[e], SourceBones(i))
                      /\ (/\ p.resolvedFor = shown.characters
                          /\ p.links[action][e].enabled
                          /\ ToBone(p.links[action][e].attachment)) =>
                           p.links[action][e].bone \in
                             ToSet(ShownCharacters.joints[work.inventory[i].actor])
    BY DEF AttachmentsAreReal
  <2>1. PICK i \in DOMAIN work.inventory :
          /\ work.skills[p.skills][KeyOf(work, i)] = action
          /\ AreOf(work, p.links[action], i, p.resolvedFor)
    BY <1>1 DEF PackageIsOf, IsOfAction
  <2>2. ShownSkills[Key(work.inventory[i])] = action
    BY <1>1, <2>1 DEF ShownSkills, Key, KeyOf
  <2>3. DOMAIN p.links[action] = DOMAIN ShowEvents(work.inventory[i].clip)
    BY <2>1 DEF AreOf, EventsOf
  <2>4. \A e \in DOMAIN p.links[action] :
          IsShown(work, p.links[action][e], ShowEvents(work.inventory[i].clip)[e],
                  i, p.resolvedFor)
    BY <2>1 DEF AreOf, EventsOf
  <2>5. /\ SourceBones(i) = BonesOf(work, i)
        /\ JointsOf(work, shown.characters, i)
             = ToSet(ShownCharacters.joints[work.inventory[i].actor])
    BY DEF SourceBones, BonesOf, JointsOf, ShownCharacters
  <2> HIDE DEF p
  <2> QED BY <2>2, <2>3, <2>4, <2>5 DEF IsShown
<1>3. SkillsAreCovered
  BY <1>1 DEF SkillsAreCovered, PackageIsOf, IsOfAction, ShownSkills, ShownCharacters
<1>4. RecipesKeepTheirPixels
  BY <1>1 DEF RecipesKeepTheirPixels, PackageIsOf, KeepsPixels, EffectCandidates
<1> QED BY <1>2, <1>3, <1>4

\* Every release has effects for exactly the motions of its skills, each with
\* its time and its pixels, whoever wrote the rows that were packaged; and of
\* rows that were resolved, each shows what the original client shows with the
\* event, at its bone.  This holds however often the tools are run and the characters replaced
\* (motion_effects.py, resolve_skill_effects.py,
\* build_motion_effect_catalog.py, export_playable.py).
THEOREM MotionEffectsAreWholeCorrect == MotionSpec => []MotionEffectsAreWhole
  BY MotionBegins, MotionStep, MotionInvShows, PTL DEF MotionSpec

-----------------------------------------------------------------------------
\* A release has one set of effects, the effects of a target show the frames
\* of the original and those of motions its events, whatever the three tools
\* do beside each other (export_playable.py, target_effect_export.py,
\* build_motion_effect_catalog.py).
THEOREM ShippedEffectsAreWholeCorrect == EffectTools => []ShippedEffectsAreWhole
  BY EffectsAreTheirsCorrect, ShownIsConvertedCorrect, MotionEffectsAreWholeCorrect, PTL
     DEF EffectTools, ShippedEffectsAreWhole

-----------------------------------------------------------------------------
(* The checks of a manifest.                                                 *)

\* What an accepted manifest and its pack have been found to be.
Accepted == ManifestIsSound /\ RequirementsAreMet
ModelsAreWhole == PackedPathsAreExact /\ \A p \in Expected : ModelIsWhole(p)

ManifestInv ==
    /\ shipment \in Shipments
    /\ looked \notin {"manifest", "refused"} => Accepted
    /\ looked \in {"entities", "catalogues", "paths", "shipped"}
         => ModelsAreWhole

LEMMA AcceptedStays ==
    ASSUME UNCHANGED shipment PROVE Accepted' = Accepted
<1>1. \A p : ArtifactAt(p)' = ArtifactAt(p)  BY DEF ArtifactAt, M
<1>2. \A x, p : RefersTo(x, p)' = RefersTo(x, p)  BY <1>1 DEF RefersTo
<1>3. ArtifactsAreExact' = ArtifactsAreExact
  BY DEF ArtifactsAreExact, Artifacts, Expected, OtherItems, PathOfItem, Once,
         ArtifactPath, M, Fixed
<1>4. FieldsAreSound' = FieldsAreSound
  BY DEF FieldsAreSound, WaveIsSound, WavesAreOne, WaveAt, Waves, HairIsSound,
         SocketsAreSound, PowerIsRegistered, RowsFor, M
<1>5. CountsAreSound' = CountsAreSound  BY <1>1 DEF CountsAreSound
<1>6. \A i, n, p : ActorIsThere(i, n, p)' = ActorIsThere(i, n, p)
  BY <1>2 DEF ActorIsThere, WithId, M
<1>7. (EveryWeaponIsShown)' = EveryWeaponIsShown  BY DEF EveryWeaponIsShown, M
<1>8. (Once(DOMAIN M.actors, ActorId) /\ ItemsAreOnce)'
        = (Once(DOMAIN M.actors, ActorId) /\ ItemsAreOnce)
  BY DEF ItemsAreOnce, ItemId, ActorId, Once, M
<1>9. RequirementsAreMet' = RequirementsAreMet
  BY <1>1 DEF RequirementsAreMet, Expected, OtherItems, PathOfItem, M, Fixed
<1> QED  BY <1>2, <1>3, <1>4, <1>5, <1>6, <1>7, <1>8, <1>9
     DEF Accepted, ManifestIsSound, OtherItems, PathOfItem, WithId, M

LEMMA ModelsStay ==
    ASSUME UNCHANGED shipment PROVE ModelsAreWhole' = ModelsAreWhole
<1>1. \A p : ArtifactAt(p)' = ArtifactAt(p)  BY DEF ArtifactAt, M
<1>2. \A a : ActorsWith(a)' = ActorsWith(a) /\ ActorOf(a)' = ActorOf(a)
  BY DEF ActorsWith, ActorOf, M
<1>3. \A p : ModelIsWhole(p)' = ModelIsWhole(p)  BY <1>1, <1>2 DEF ModelIsWhole
<1>4. PackedPathsAreExact' = PackedPathsAreExact /\ Expected' = Expected
  BY DEF PackedPathsAreExact, Artifacts, Expected, OtherItems, PathOfItem, Once,
         ArtifactPath, M, Fixed
<1> QED BY <1>3, <1>4 DEF ModelsAreWhole

LEMMA ManifestBegins == ManifestInit => ManifestInv
  BY DEF ManifestInit, ManifestStart, ManifestInv

LEMMA ManifestStep == ManifestInv /\ [ManifestNext]_shipmentVars => ManifestInv'
<1> SUFFICES ASSUME ManifestInv, [ManifestNext]_shipmentVars PROVE ManifestInv'
  OBVIOUS
<1>1. UNCHANGED shipment
  BY DEF ManifestNext, shipmentVars, Preflight, AuditFields, AuditModels,
         AuditEntities, AuditCatalogues, AuditPaths, Looks
<1>2. looked' \notin {"manifest", "refused"} => Accepted
  BY DEF ManifestNext, shipmentVars, Preflight, AuditFields, AuditModels,
         AuditEntities, AuditCatalogues, AuditPaths, Looks, Accepted, ManifestInv
<1>3. looked' \in {"entities", "catalogues", "paths", "shipped"} => ModelsAreWhole
  BY DEF ManifestNext, shipmentVars, Preflight, AuditFields, AuditModels,
         AuditEntities, AuditCatalogues, AuditPaths, Looks, ModelsAreWhole, ManifestInv
<1> QED BY <1>1, <1>2, <1>3, AcceptedStays, ModelsStay DEF ManifestInv

LEMMA SequencesAreLists ==
    ASSUME shipment \in Shipments
    PROVE  /\ IsList(M.artifacts) /\ IsList(M.actors) /\ IsList(M.items)
           /\ IsList(M.rows)
  BY ManifestAssumption DEF M

\* The artifact of a path that has one.
LEMMA ArtifactIsAt ==
    ASSUME NEW p \in Artifacts
    PROVE  ArtifactAt(p) \in Range(M.artifacts) /\ ArtifactAt(p).path = p
  BY DEF Artifacts, ArtifactAt

\* As many artifacts as weapons besides the first sword, and three.
LEMMA ArtifactsAreCounted ==
    ASSUME shipment \in Shipments, ArtifactsAreExact
    PROVE  Cardinality(OtherItems) + 3 = Len(M.artifacts)
<1> DEFINE others == {PathOfItem(k) : k \in OtherItems}
           ofItem == [k \in OtherItems |-> PathOfItem(k)]
           ofArtifact == [k \in DOMAIN M.artifacts |-> ArtifactPath(k)]
<1>1. IsFiniteSet(OtherItems)
  <2>1. Len(M.items) \in Nat /\ OtherItems \subseteq 1 .. Len(M.items)
    BY SequencesAreLists DEF IsList, OtherItems
  <2>2. IsFiniteSet(1 .. Len(M.items))  BY <2>1, FS_Interval
  <2> QED BY <2>1, <2>2, FS_Subset
<1>2. ofItem \in Bijection(OtherItems, others)
  <2>1. ofItem \in [OtherItems -> others]
    OBVIOUS
  <2>2. \A k, l \in OtherItems : ofItem[k] = ofItem[l] => k = l
    BY DEF ArtifactsAreExact, Once
  <2>3. \A x \in others : \E k \in OtherItems : ofItem[k] = x
    OBVIOUS
  <2> QED BY <2>1, <2>2, <2>3 DEF Bijection, Injection, Surjection, IsInjective
<1>3. IsFiniteSet(others) /\ Cardinality(others) = Cardinality(OtherItems)
  BY <1>1, <1>2, FS_Bijection DEF ExistsBijection
<1>4. ofArtifact \in Bijection(1 .. Len(M.artifacts), Expected)
  <2>1. DOMAIN M.artifacts = 1 .. Len(M.artifacts)  BY SequencesAreLists DEF IsList
  <2>2. Expected = {M.artifacts[k].path : k \in DOMAIN M.artifacts}
    BY DEF ArtifactsAreExact, Artifacts, Range
  <2>3. ofArtifact \in [1 .. Len(M.artifacts) -> Expected]
    BY <2>1, <2>2 DEF ArtifactPath
  <2>4. \A k, l \in DOMAIN M.artifacts : ofArtifact[k] = ofArtifact[l] => k = l
    BY DEF ArtifactsAreExact, Once
  <2>5. \A x \in Expected : \E k \in DOMAIN M.artifacts : ofArtifact[k] = x
    BY <2>2 DEF ArtifactPath
  <2> QED BY <2>1, <2>3, <2>4, <2>5 DEF Bijection, Injection, Surjection, IsInjective
<1>5. Cardinality(Expected) = Len(M.artifacts)
  <2>1. /\ IsFiniteSet(1 .. Len(M.artifacts))
        /\ Cardinality(1 .. Len(M.artifacts)) = Len(M.artifacts)
    <3>1. Len(M.artifacts) \in Nat  BY SequencesAreLists DEF IsList
    <3> QED BY <3>1, FS_Interval
  <2> QED BY <1>4, <2>1, FS_Bijection DEF ExistsBijection
<1>6. /\ FixedPath.warrior \notin others
      /\ FixedPath.dog \notin others \cup {FixedPath.warrior}
      /\ FixedPath.sword \notin (others \cup {FixedPath.warrior}) \cup {FixedPath.dog}
  BY ManifestAssumption DEF ArtifactsAreExact, Fixed
<1>7. Expected = ((others \cup {FixedPath.warrior}) \cup {FixedPath.dog})
                   \cup {FixedPath.sword}
  BY DEF Expected, Fixed
<1>8. Cardinality(Expected) = Cardinality(others) + 3
  <2> HIDE DEF others
  <2>1. /\ IsFiniteSet(others \cup {FixedPath.warrior})
        /\ Cardinality(others \cup {FixedPath.warrior}) = Cardinality(others) + 1
    BY <1>3, <1>6, FS_AddElement
  <2>2. /\ IsFiniteSet((others \cup {FixedPath.warrior}) \cup {FixedPath.dog})
        /\ Cardinality((others \cup {FixedPath.warrior}) \cup {FixedPath.dog})
             = Cardinality(others) + 1 + 1
    BY <2>1, <1>6, FS_AddElement
  <2>3. Cardinality(Expected) = Cardinality(others) + 1 + 1 + 1
    BY <2>2, <1>6, <1>7, FS_AddElement
  <2>4. Cardinality(others) \in Nat  BY <1>3, FS_CardinalityType
  <2> QED BY <2>3, <2>4
<1> QED BY <1>3, <1>5, <1>8

LEMMA PathsAgree ==
    ASSUME shipment \in Shipments, Accepted PROVE PackedPathsAreExact
  BY ArtifactsAreCounted
     DEF Accepted, ManifestIsSound, ArtifactsAreExact, PackedPathsAreExact

\* The models that the exporter knows are there as the engine asks.
LEMMA ModelsAgree ==
    ASSUME shipment \in Shipments, Accepted, PackedAsTheyAre,
           NEW p \in Expected
    PROVE  ModelIsWhole(p)
<1> DEFINE artifact == ArtifactAt(p)
<1>1. artifact \in Range(M.artifacts) /\ artifact.path = p
  BY ArtifactIsAt DEF Accepted, ManifestIsSound, ArtifactsAreExact
<1>2. /\ p \in DOMAIN shipment.model
      /\ shipment.model[p].meshes = artifact.meshes
      /\ shipment.model[p].textured = artifact.textured
      /\ Cardinality(shipment.model[p].bones) = artifact.bones
      /\ shipment.model[p].skinned > 0
      /\ \A k \in ActorsWith(artifact) : ActorIsWhole(M.actors[k], shipment.model[p])
  BY <1>1 DEF PackedAsTheyAre
<1>3. p = FixedPath.warrior => artifact.meshes = 4 /\ artifact.textured = 4
  BY DEF Accepted, ManifestIsSound, CountsAreSound
<1>4. ASSUME p \in {FixedPath.warrior, FixedPath.dog}
      PROVE  ActorsWith(artifact) # {}
  <2>1. \E id, n : ActorIsThere(id, n, p)  BY <1>4 DEF Accepted, ManifestIsSound
  <2>2. PICK a \in Range(M.actors) : RefersTo(a, p)  BY <2>1 DEF ActorIsThere, WithId
  <2>3. a.model.artifact = artifact.id  BY <2>2 DEF RefersTo
  <2>4. PICK k \in DOMAIN M.actors : M.actors[k] = a  BY DEF Range
  <2> QED BY <2>3, <2>4 DEF ActorsWith
<1>5. ASSUME p \in {FixedPath.warrior, FixedPath.dog}
      PROVE  ActorIsWhole(ActorOf(artifact), shipment.model[p])
  <2>1. ActorsWith(artifact) \in SUBSET Nat  BY SequencesAreLists DEF ActorsWith, IsList
  <2>2. Min(ActorsWith(artifact)) \in ActorsWith(artifact)
    BY <2>1, <1>4, <1>5, MinIsLeast
  <2> QED BY <2>2, <1>2 DEF ActorOf
<1> QED BY <1>2, <1>3, <1>4, <1>5 DEF ModelIsWhole

\* One item has the identifier of the first sword.
LEMMA EntitiesAgree ==
    ASSUME shipment \in Shipments, Accepted PROVE EntitiesAreThere
<1>1. PICK s \in DOMAIN M.items : M.items[s] \in WithId(M.items, FirstSword)
  BY DEF Accepted, ManifestIsSound, WithId, Range
<1>2. M.items[s].id = FirstSword /\ M.items[s].vnum = 10
      /\ RefersTo(M.items[s], FixedPath.sword)
  BY <1>1 DEF Accepted, ManifestIsSound, WithId
<1>3. \A k \in DOMAIN M.items : k \in OtherItems \/ k = s
  BY <1>2 DEF Accepted, ManifestIsSound, ItemsAreOnce, Once, ItemId, OtherItems
<1>4. \A k \in OtherItems :
        PathOfItem(k) \in Artifacts /\ RefersTo(M.items[k], PathOfItem(k))
  BY DEF Accepted, ManifestIsSound, ArtifactsAreExact, Expected
<1>5. FixedPath.sword \in Artifacts
  BY DEF Accepted, ManifestIsSound, ArtifactsAreExact, Expected, Fixed
<1>6. \A k \in DOMAIN M.items : ItemRefersToItsOwn(M.items[k])
  <2>1. ItemRefersToItsOwn(M.items[s])  BY <1>2, <1>5 DEF ItemRefersToItsOwn, RefersTo
  <2>2. ASSUME NEW k \in OtherItems PROVE ItemRefersToItsOwn(M.items[k])
    <3>1. RefersTo(M.items[k], PathOfItem(k)) /\ PathOfItem(k) \in Artifacts  BY <1>4
    <3>2. M.items[k].model.artifact = ArtifactAt(PathOfItem(k)).id  BY <3>1 DEF RefersTo
    <3> QED BY <3>1, <3>2 DEF ItemRefersToItsOwn, PathOfItem
  <2> QED BY <1>3, <2>1, <2>2
<1>7. \A r \in Range(M.rows) : r.kind = "weapon" => Shows(r)
  BY DEF Accepted, ManifestIsSound, EveryWeaponIsShown, Shows
<1>8. \E a \in Range(M.actors) : IsActor(a, WarriorId, 0, FixedPath.warrior)
  BY DEF Accepted, ManifestIsSound, ActorIsThere, WithId, IsActor, RefersTo
<1>9. \E a \in Range(M.actors) : IsActor(a, DogMob, 101, FixedPath.dog)
  BY DEF Accepted, ManifestIsSound, ActorIsThere, WithId, IsActor, RefersTo
<1>10. M.items[s].power = SwordPower /\ M.items[s] \in Range(M.items)
  BY <1>2 DEF Accepted, ManifestIsSound, FieldsAreSound, PowerIsRegistered, Range
<1>11. M.items[s].model.artifact = ArtifactAt(FixedPath.sword).id  BY <1>2 DEF RefersTo
<1>12. \A i \in Range(M.items) : ItemRefersToItsOwn(i)  BY <1>6 DEF Range
<1>13. Once(DOMAIN M.items, ItemId)  BY DEF Accepted, ManifestIsSound, ItemsAreOnce
<1> QED  BY <1>2, <1>7, <1>8, <1>9, <1>10, <1>11, <1>12, <1>13 DEF EntitiesAreThere

\* At most one wave and not none is one wave.
LEMMA FieldsAgree ==
    ASSUME FieldsAreSound, M.adapted # "null" PROVE PackedFieldsAreSound
<1>1. M.adapted \in {"absent", "event"}  BY DEF FieldsAreSound, WaveIsSound
<1>2. (\E w \in Waves : Waves = {w}) = (Waves # {})
  BY DEF FieldsAreSound, WaveIsSound, WavesAreOne
<1>3. (M.adapted = "event") = (Waves # {})  BY DEF FieldsAreSound, WaveIsSound
<1>4. (M.adapted # "absent") = (Waves # {})  BY <1>1, <1>3
<1>5. PackedWaveIsSound
  BY <1>1, <1>2, <1>4 DEF FieldsAreSound, WaveIsSound, PackedWaveIsSound
<1>6. PackedHairIsSound  BY DEF FieldsAreSound, HairIsSound, PackedHairIsSound
<1> QED BY <1>5, <1>6 DEF FieldsAreSound, PackedFieldsAreSound

LEMMA ManifestAgrees == ManifestInv => AuditsAgree
<1> SUFFICES ASSUME ManifestInv, looked = "fields", PackedAsTheyAre,
                    M.adapted # "null"
             PROVE  /\ PackedFieldsAreSound /\ PackedPathsAreExact
                    /\ EntitiesAreThere /\ \A p \in Expected : ModelIsWhole(p)
  BY DEF AuditsAgree
<1>1. shipment \in Shipments /\ Accepted  BY DEF ManifestInv
<1>2. PackedFieldsAreSound  BY <1>1, FieldsAgree DEF Accepted, ManifestIsSound
<1> QED  BY <1>1, <1>2, PathsAgree, ModelsAgree, EntitiesAgree

\* A weapon of the catalogue is one item.
LEMMA WeaponIsOneItem ==
    ASSUME shipment \in Shipments, Accepted,
           NEW r \in Range(M.rows), r.kind = "weapon"
    PROVE  \E k \in DOMAIN M.items :
             {l \in DOMAIN M.items : M.items[l].vnum = r.vnum /\ M.items[l].id = r.id} = {k}
<1>1. PICK k \in DOMAIN M.items : M.items[k].id = r.id /\ M.items[k].vnum = r.vnum
  BY DEF Accepted, ManifestIsSound, EveryWeaponIsShown, Range
<1>2. \A l \in DOMAIN M.items : M.items[l].id = r.id => l = k
  BY <1>1 DEF Accepted, ManifestIsSound, ItemsAreOnce, Once, ItemId
<1> QED BY <1>1, <1>2

LEMMA WeaponHasItsPower ==
    ASSUME shipment \in Shipments, Accepted,
           NEW r \in Range(M.rows), r.kind = "weapon",
           NEW k \in DOMAIN M.items, M.items[k].vnum = r.vnum, M.items[k].id = r.id
    PROVE  M.items[k].power = r.power
<1>1. PowerIsRegistered(M.items[k])
  BY DEF Accepted, ManifestIsSound, FieldsAreSound, Range
<1>2. PICK n \in DOMAIN M.rows : M.rows[n] = r  BY DEF Range
<1>3. CASE M.items[k].id = FirstSword
  <2>1. r.power = SwordPower
    BY <1>2, <1>3, ManifestAssumption DEF Accepted, RequirementsAreMet, M
  <2> QED BY <1>1, <1>3, <2>1 DEF PowerIsRegistered
<1>4. CASE M.items[k].id # FirstSword
  <2>1. n \in RowsFor(M.items[k])  BY <1>2 DEF RowsFor
  <2> QED BY <1>1, <1>2, <1>4, <2>1 DEF PowerIsRegistered
<1> QED BY <1>3, <1>4

\* Each item has a packed model of its own.
LEMMA ModelsAreTheirOwn ==
    ASSUME shipment \in Shipments, Accepted, ModelsAreWhole,
           NEW k \in DOMAIN M.items
    PROVE  /\ PathOfItem(k) \in DOMAIN shipment.model
           /\ \A other \in DOMAIN M.items \ {k} : PathOfItem(other) # PathOfItem(k)
<1>1. PICK s \in DOMAIN M.items : M.items[s] \in WithId(M.items, FirstSword)
  BY DEF Accepted, ManifestIsSound, WithId, Range
<1>2. M.items[s].id = FirstSword /\ PathOfItem(s) = FixedPath.sword
  BY <1>1 DEF Accepted, ManifestIsSound, WithId, RefersTo, PathOfItem
<1>3. \A l \in DOMAIN M.items : l \in OtherItems \/ l = s
  BY <1>2 DEF Accepted, ManifestIsSound, ItemsAreOnce, Once, ItemId, OtherItems
<1>4. \A l \in OtherItems : PathOfItem(l) \notin Fixed /\ PathOfItem(l) \in Expected
  BY DEF Accepted, ManifestIsSound, ArtifactsAreExact, Expected
<1>5. PathOfItem(s) \in Fixed /\ PathOfItem(s) \in Expected  BY <1>2 DEF Fixed, Expected
<1>6. PathOfItem(k) \in DOMAIN shipment.model
  BY <1>3, <1>4, <1>5 DEF ModelsAreWhole, ModelIsWhole
<1>7. \A l, m \in OtherItems : PathOfItem(l) = PathOfItem(m) => l = m
  BY DEF Accepted, ManifestIsSound, ArtifactsAreExact, Once
<1> QED BY <1>3, <1>4, <1>5, <1>6, <1>7

LEMMA ManifestShips == ManifestInv => WeaponsShipWhole
<1> SUFFICES ASSUME ManifestInv, looked = "shipped",
                    NEW r \in Range(M.rows), r.kind = "weapon"
             PROVE  LET mine == {k \in DOMAIN M.items : M.items[k].vnum = r.vnum
                                                          /\ M.items[k].id = r.id}
                    IN /\ Cardinality(mine) = 1
                       /\ \A k \in mine :
                            /\ M.items[k].power = r.power
                            /\ M.items[k].model.path \in DOMAIN shipment.model
                            /\ \A other \in DOMAIN M.items \ {k} :
                                 M.items[other].model.path # M.items[k].model.path
  BY DEF WeaponsShipWhole
<1>1. shipment \in Shipments /\ Accepted /\ ModelsAreWhole  BY DEF ManifestInv
<1> DEFINE mine == {k \in DOMAIN M.items : M.items[k].vnum = r.vnum
                                            /\ M.items[k].id = r.id}
<1>2. Cardinality(mine) = 1
  <2>1. PICK k : mine = {k}  BY <1>1, WeaponIsOneItem
  <2> QED BY <2>1, FS_Singleton
<1>3. ASSUME NEW k \in mine
      PROVE  /\ M.items[k].power = r.power
             /\ M.items[k].model.path \in DOMAIN shipment.model
             /\ \A other \in DOMAIN M.items \ {k} :
                  M.items[other].model.path # M.items[k].model.path
  BY <1>1, WeaponHasItsPower, ModelsAreTheirOwn DEF PathOfItem
<1> QED BY <1>2, <1>3

\* What the exporter accepts the engine does not refuse, and every weapon
\* ships whole, for every manifest and every pack.
THEOREM ManifestIsWholeCorrect == ManifestSpec => []ManifestIsWhole
<1>1. ManifestInv => ManifestIsWhole
  BY ManifestAgrees, ManifestShips DEF ManifestIsWhole
<1> QED BY <1>1, ManifestBegins, ManifestStep, PTL DEF ManifestSpec

-----------------------------------------------------------------------------
(* Scripts: what the first lines of a text say.  n is the next line.         *)

LineSet == {script.lines[i] : i \in DOMAIN script.lines}
BlockKinds == {"root"} \cup {l[1] : l \in LineSet}
BlockNames == {<<"">>} \cup {l[2] : l \in LineSet}
BlockSet ==
    [kind : BlockKinds, name : BlockNames,
     fields : Seq(LineSet), rows : Seq(LineSet), groups : Seq(Nat)]

Declaring(j) == {k \in 1 .. j : Declares(script.lines[k])}
BlockNo(d) == 1 + Cardinality(Declaring(d))
SaidBy(d, n) == {i \in 1 .. n - 1 : Said(i) /\ DeclaredAt(i) = d}
DeclaredBy(d, n) ==
    {i \in 1 .. n - 1 : Declares(script.lines[i]) /\ DeclaredAt(i) = d}
Declarer(o) ==
    IF Declares(script.lines[o]) THEN o ELSE Max(Declaring(o))
Around(n) ==
    {o \in 1 .. n - 1 : Opens(o) /\ \A k \in o .. n - 1 : Depth(o, k) >= 1}

\* open are the lines before n whose braces are open.
Braces(n, open) ==
    /\ open \in Seq(1 .. n - 1)
    /\ \A s, t \in 1 .. Len(open) : s < t => open[s] < open[t]
    /\ Around(n) = {open[s] : s \in 1 .. Len(open)}
    /\ \A s \in 1 .. Len(open) : Depth(open[s], n - 1) = Len(open) - s + 1
    /\ Depth(1, n - 1) = Len(open)

\* The blocks that the reader is in are those the open braces belong to.
Inside(open) ==
    /\ within \in Seq(Nat) /\ Len(within) = Len(open) + 1 /\ within[1] = 1
    /\ \A s \in 1 .. Len(open) :
         /\ Declarer(open[s]) \in Declaring(open[s])
         /\ within[s + 1] = BlockNo(Declarer(open[s]))

\* Every block has what the lines before n say of it.
Holds(n, d, b) ==
    /\ Len(Written(b)) = Cardinality(SaidBy(d, n))
    /\ \A i \in SaidBy(d, n) :
         Written(b)[Place(SaidBy(d, n), i)] = script.lines[i]
    /\ Len(b.groups) = Cardinality(DeclaredBy(d, n))
    /\ \A i \in DeclaredBy(d, n) :
         b.groups[Place(DeclaredBy(d, n), i)] = BlockNo(i)

BlocksHold(n) ==
    /\ blocks \in Seq(BlockSet) /\ Len(blocks) = BlockNo(n - 1)
    /\ pending \in {0, Len(blocks)}
    /\ pending # 0 => Declaring(n - 1) # {}
    /\ \A i \in 1 .. n - 1 : DeclaredAt(i) \in 0 .. i - 1
    /\ \A d \in {0} \cup Declaring(n - 1) :
         \A b : b = blocks[BlockNo(d)] => Holds(n, d, b)

ReadSoFar(n) ==
    /\ \E open \in Seq(1 .. n - 1) : Braces(n, open) /\ Inside(open)
    /\ BlocksHold(n)

ScriptsInv ==
    /\ script \in ScriptTexts
    /\ \/ /\ meaning.is = "unread"
          /\ \E n \in 1 .. Len(script.lines) + 1 : readAt = n /\ ReadSoFar(n)
       \/ /\ meaning.is # "unread" /\ readAt = 0
          /\ meaning.is # "refused" =>
               \E n \in 1 .. Len(script.lines) + 1 :
                 /\ n = Len(script.lines) + 1 /\ ReadSoFar(n)
                 /\ Len(within) = 1

-----------------------------------------------------------------------------
(* Counting the lines of a text                                              *)

\* The elements of a set up to n are those before n, and n if it is one.
LEMMA CountUpTo ==
    ASSUME NEW T, NEW a \in Int, NEW n \in Int
    PROVE  /\ IsFiniteSet(T \cap a .. n) /\ Cardinality(T \cap a .. n) \in Nat
           /\ n < a => Cardinality(T \cap a .. n) = 0
           /\ a <= n => Cardinality(T \cap a .. n)
                          = Cardinality(T \cap a .. n - 1)
                              + (IF n \in T THEN 1 ELSE 0)
<1>1. ASSUME NEW m \in Int PROVE IsFiniteSet(T \cap a .. m)
  <2>1. IsFiniteSet(a .. m) BY FS_Interval
  <2> QED BY <2>1, FS_Subset
<1>2. ASSUME NEW m \in Int PROVE Cardinality(T \cap a .. m) \in Nat
  BY <1>1, FS_CardinalityType
<1>3. ASSUME n < a PROVE Cardinality(T \cap a .. n) = 0
  <2>1. T \cap a .. n = {} BY <1>3
  <2> QED BY <2>1, FS_EmptySet
<1>4. ASSUME a <= n, n \in T
      PROVE  Cardinality(T \cap a .. n) = Cardinality(T \cap a .. n - 1) + 1
  <2>1. T \cap a .. n = (T \cap a .. n - 1) \cup {n} BY <1>4
  <2>2. n \notin T \cap a .. n - 1 OBVIOUS
  <2> QED BY <2>1, <2>2, <1>1, FS_AddElement
<1>5. ASSUME a <= n, n \notin T
      PROVE  T \cap a .. n = T \cap a .. n - 1
  BY <1>5
<1>6. ASSUME a <= n, n \notin T
      PROVE  Cardinality(T \cap a .. n) = Cardinality(T \cap a .. n - 1)
  BY <1>5, <1>6
<1>7. n - 1 \in Int OBVIOUS
<1> QED BY <1>1, <1>2, <1>3, <1>4, <1>6, <1>7

LEMMA CountIsNumber ==
    ASSUME NEW T, NEW a \in Int, NEW n \in Int
    PROVE  Cardinality(T \cap a .. n) \in Nat /\ IsFiniteSet(T \cap a .. n)
  BY CountUpTo

OpenLines == {k \in Nat : Opens(k)}
ShutLines == {k \in Nat : Shuts(k)}
DeclaringLines == {k \in Nat : Declares(script.lines[k])}

LEMMA LinesAreCounted ==
    ASSUME NEW i \in Nat, NEW j \in Int
    PROVE  /\ Depth(i, j) = Cardinality(OpenLines \cap i .. j)
                              - Cardinality(ShutLines \cap i .. j)
           /\ Declaring(j) = DeclaringLines \cap 1 .. j
<1>1. {k \in i .. j : Opens(k)} = OpenLines \cap i .. j  BY DEF OpenLines
<1>2. {k \in i .. j : Shuts(k)} = ShutLines \cap i .. j  BY DEF ShutLines
<1>3. Declaring(j) = DeclaringLines \cap 1 .. j  BY DEF Declaring, DeclaringLines
<1> QED BY <1>1, <1>2, <1>3 DEF Depth

\* A brace is one deeper or one less deep.
LEMMA DepthOfLine ==
    ASSUME NEW i \in Nat, NEW n \in Nat
    PROVE  /\ Depth(i, n) \in Int
           /\ n < i => Depth(i, n) = 0
           /\ i <= n => Depth(i, n) = Depth(i, n - 1)
                                        + (IF Opens(n) THEN 1 ELSE 0)
                                        - (IF Shuts(n) THEN 1 ELSE 0)
<1>1. n \in OpenLines <=> Opens(n) BY DEF OpenLines
<1>2. n \in ShutLines <=> Shuts(n) BY DEF ShutLines
<1> DEFINE o(m) == Cardinality(OpenLines \cap i .. m)
           s(m) == Cardinality(ShutLines \cap i .. m)
<1>3. Depth(i, n) = o(n) - s(n) /\ Depth(i, n - 1) = o(n - 1) - s(n - 1)
  BY LinesAreCounted
<1>4. o(n) \in Nat /\ s(n) \in Nat
  <2>1. i \in Int /\ n \in Int OBVIOUS
  <2>2. o(n) \in Nat BY ONLY <2>1, CountIsNumber
  <2>3. s(n) \in Nat BY ONLY <2>1, CountIsNumber
  <2> QED BY <2>2, <2>3
<1>5. n < i => o(n) = 0 /\ s(n) = 0 BY CountUpTo
<1>6. o(n - 1) \in Nat /\ s(n - 1) \in Nat
  <2>1. i \in Int /\ n - 1 \in Int OBVIOUS
  <2>2. o(n - 1) \in Nat BY ONLY <2>1, CountIsNumber
  <2>3. s(n - 1) \in Nat BY ONLY <2>1, CountIsNumber
  <2> QED BY <2>2, <2>3
<1>7. i <= n => o(n) = o(n - 1) + (IF n \in OpenLines THEN 1 ELSE 0)  BY CountUpTo
<1>8. i <= n => s(n) = s(n - 1) + (IF n \in ShutLines THEN 1 ELSE 0)  BY CountUpTo
<1> HIDE DEF o, s
<1> QED BY <1>1, <1>2, <1>3, <1>4, <1>5, <1>6, <1>7, <1>8

\* The blocks are numbered in the order of the lines that declare them.
LEMMA BlocksAreNumbered ==
    ASSUME NEW n \in Nat \ {0}
    PROVE  /\ BlockNo(0) = 1 /\ BlockNo(n) \in Nat /\ BlockNo(n - 1) \in Nat
           /\ BlockNo(n - 1) >= 1
           /\ Declares(script.lines[n]) =>
                BlockNo(n) = BlockNo(n - 1) + 1
                  /\ Declaring(n) = Declaring(n - 1) \cup {n}
           /\ ~Declares(script.lines[n]) =>
                BlockNo(n) = BlockNo(n - 1) /\ Declaring(n) = Declaring(n - 1)
<1>1. n \in DeclaringLines <=> Declares(script.lines[n])  BY DEF DeclaringLines
<1> DEFINE c(m) == Cardinality(DeclaringLines \cap 1 .. m)
<1>2. \A m \in Int : BlockNo(m) = 1 + c(m)  BY LinesAreCounted DEF BlockNo
<1>3. c(0) = 0 /\ c(n) \in Nat /\ c(n - 1) \in Nat
  <2>1. n \in Int /\ n - 1 \in Int /\ 0 \in Int /\ 0 < 1
          /\ 1 \in Int
    OBVIOUS
  <2>2. c(0) = 0 BY <2>1, CountUpTo
  <2>3. c(n) \in Nat BY ONLY <2>1, CountIsNumber
  <2>4. c(n - 1) \in Nat BY ONLY <2>1, CountIsNumber
  <2> QED BY <2>2, <2>3, <2>4
<1>4. c(n) = c(n - 1) + (IF n \in DeclaringLines THEN 1 ELSE 0)
  <2>1. n \in Int /\ 1 \in Int /\ 1 <= n OBVIOUS
  <2> QED BY <2>1, CountUpTo
<1>5. Declares(script.lines[n]) => Declaring(n) = Declaring(n - 1) \cup {n}
  BY DEF Declaring
<1>6. ~Declares(script.lines[n]) => Declaring(n) = Declaring(n - 1)  BY DEF Declaring
<1> HIDE DEF c
<1>7. BlockNo(n) = 1 + c(n) /\ BlockNo(n - 1) = 1 + c(n - 1)
        /\ BlockNo(0) = 1 + c(0)
  BY <1>2
<1> QED BY <1>1, <1>3, <1>4, <1>5, <1>6, <1>7

\* No two lines declare the same block, and none declares the root.
LEMMA NumbersAreDistinct ==
    ASSUME NEW n \in Nat, NEW d \in {0} \cup Declaring(n),
           NEW e \in {0} \cup Declaring(n), d < e
    PROVE  /\ BlockNo(d) \in Nat /\ BlockNo(e) \in Nat
           /\ 1 <= BlockNo(d) /\ BlockNo(d) < BlockNo(e)
           /\ BlockNo(e) <= BlockNo(n)
<1>1. d \in Nat /\ e \in 1 .. n /\ Declares(script.lines[e])  BY DEF Declaring
<1>2. BlockNo(e) = BlockNo(e - 1) + 1 /\ BlockNo(e - 1) \in Nat
  BY <1>1, BlocksAreNumbered
<1>3. ASSUME NEW i \in Nat, NEW j \in Nat, i <= j
      PROVE  /\ BlockNo(i) <= BlockNo(j) /\ 1 <= BlockNo(i)
             /\ BlockNo(i) \in Nat /\ BlockNo(j) \in Nat
  <2>1. Declaring(i) \subseteq Declaring(j) BY <1>3 DEF Declaring
  <2>2. IsFiniteSet(Declaring(j))
    <3>1. Declaring(j) = DeclaringLines \cap 1 .. j  BY DEF Declaring, DeclaringLines
    <3>2. IsFiniteSet(DeclaringLines \cap 1 .. j) BY CountIsNumber
    <3> QED BY <3>1, <3>2
  <2>3. /\ Cardinality(Declaring(i)) <= Cardinality(Declaring(j))
        /\ Cardinality(Declaring(i)) \in Nat
        /\ Cardinality(Declaring(j)) \in Nat
    BY <2>1, <2>2, FS_Subset, FS_CardinalityType
  <2> QED BY <2>3 DEF BlockNo
<1>4. BlockNo(d) <= BlockNo(e - 1) /\ 1 <= BlockNo(d) /\ BlockNo(d) \in Nat
  BY <1>1, <1>3
<1>5. BlockNo(e) <= BlockNo(n) /\ BlockNo(e) \in Nat BY <1>1, <1>3
<1> QED BY <1>2, <1>4, <1>5

-----------------------------------------------------------------------------
(* The braces                                                                *)

\* After a line, a brace is around the next if it was and has depth left; the
\* line's own brace is.
LEMMA AroundNext ==
    ASSUME NEW n \in Nat \ {0}
    PROVE  /\ \A o \in 1 .. n - 1 :
                o \in Around(n + 1) <=> o \in Around(n) /\ Depth(o, n) >= 1
           /\ n \in Around(n + 1) <=> Opens(n)
           /\ Around(n) \subseteq 1 .. n - 1 /\ Around(n + 1) \subseteq 1 .. n
           /\ Opens(n) => ~Shuts(n)
           /\ Opens(n) => Depth(n, n) = 1
<1>1. Opens(n) => ~Shuts(n)
  <2> DEFINE l == script.lines[n]
  <2>1. \A x, c : x = <<c>> => x[1] = c OBVIOUS
  <2>2. (l = <<"{">> => l[1] = "{") /\ (l = <<"}">> => l[1] = "}")  BY <2>1, Zenon
  <2>3. Declares(l) => l[1] = "Group" \/ l[1] = "List" BY DEF Declares
  <2> HIDE DEF l
  <2>4. (l = <<"{">> \/ Declares(l)) => l # <<"}">>  BY <2>2, <2>3, Zenon
  <2>5. (Opens(n) => l = <<"{">> \/ Declares(l)) /\ (Shuts(n) => l = <<"}">>)
    BY DEF Opens, Shuts, l
  <2> QED BY <2>4, <2>5
<1>2. Opens(n) => Depth(n, n) = 1
  <2>1. Depth(n, n - 1) = 0 /\ Depth(n, n - 1) \in Int  BY DepthOfLine
  <2>2. n \in Nat /\ n <= n OBVIOUS
  <2>3. Depth(n, n) = Depth(n, n - 1) + (IF Opens(n) THEN 1 ELSE 0)
                        - (IF Shuts(n) THEN 1 ELSE 0)
    BY <2>2, DepthOfLine
  <2> QED BY <2>1, <2>3, <1>1
<1>3. n \in Around(n + 1) <=> Opens(n)  BY <1>2 DEF Around
<1>4. ASSUME NEW o \in 1 .. n - 1
      PROVE  o \in Around(n + 1) <=> o \in Around(n) /\ Depth(o, n) >= 1
  <2>1. o .. n + 1 - 1 = (o .. n - 1) \cup {n} /\ o \in 1 .. n + 1 - 1
    OBVIOUS
  <2> QED BY <2>1 DEF Around
<1>5. Around(n) \subseteq 1 .. n - 1 /\ Around(n + 1) \subseteq 1 .. n  BY DEF Around
<1> QED BY <1>1, <1>2, <1>3, <1>4, <1>5

LEMMA DepthNext ==
    ASSUME NEW n \in Nat \ {0}, NEW o \in 1 .. n - 1
    PROVE  Depth(o, n) = Depth(o, n - 1) + (IF Opens(n) THEN 1 ELSE 0)
                           - (IF Shuts(n) THEN 1 ELSE 0)
<1>1. o \in Nat /\ n \in Nat /\ o <= n OBVIOUS
<1> QED BY <1>1, DepthOfLine

LEMMA DepthOfAll ==
    ASSUME NEW n \in Nat \ {0}
    PROVE  Depth(1, n) = Depth(1, n - 1) + (IF Opens(n) THEN 1 ELSE 0)
                           - (IF Shuts(n) THEN 1 ELSE 0)
<1>1. 1 \in Nat /\ n \in Nat /\ 1 <= n OBVIOUS
<1> QED BY <1>1, DepthOfLine

\* A line without a brace changes none.
LEMMA BracesStay ==
    ASSUME NEW n \in Nat \ {0}, NEW open, Braces(n, open),
           ~Opens(n), ~Shuts(n)
    PROVE  Braces(n + 1, open)
<1>1. /\ open \in Seq(1 .. n - 1) /\ Len(open) \in Nat
      /\ \A s \in 1 .. Len(open) : open[s] \in 1 .. n - 1
      /\ \A s \in 1 .. Len(open) : Depth(open[s], n - 1) = Len(open) - s + 1
  BY DEF Braces
<1>2. open \in Seq(1 .. n + 1 - 1)  BY <1>1
<1>3. \A s \in 1 .. Len(open) : Depth(open[s], n) = Len(open) - s + 1
  BY <1>1, DepthNext
<1>4. Around(n) = {open[s] : s \in 1 .. Len(open)}  BY DEF Braces
<1>5. \A o \in Around(n) : Depth(o, n) >= 1  BY <1>1, <1>3, <1>4
<1>6. Around(n + 1) = Around(n)
  <2>1. Around(n) \subseteq 1 .. n - 1 /\ Around(n + 1) \subseteq 1 .. n
          /\ n \notin Around(n + 1)
    BY AroundNext
  <2>2. \A o \in 1 .. n - 1 : o \in Around(n + 1) <=> o \in Around(n)
    BY <1>5, AroundNext
  <2>3. \A o \in 1 .. n : o # n => o \in 1 .. n - 1 OBVIOUS
  <2> QED BY <2>1, <2>2, <2>3
<1>7. Depth(1, n) = Len(open)  BY DepthOfAll DEF Braces
<1>8. n + 1 - 1 = n OBVIOUS
<1> QED BY <1>2, <1>3, <1>4, <1>6, <1>7, <1>8 DEF Braces

\* A brace that opens is the innermost.
LEMMA BracesGrow ==
    ASSUME NEW n \in Nat \ {0}, NEW open, Braces(n, open), Opens(n)
    PROVE  Braces(n + 1, Append(open, n))
<1> DEFINE more == Append(open, n)
<1>1. /\ open \in Seq(1 .. n - 1) /\ Len(open) \in Nat
      /\ \A s \in 1 .. Len(open) : open[s] \in 1 .. n - 1
      /\ \A s \in 1 .. Len(open) : Depth(open[s], n - 1) = Len(open) - s + 1
      /\ \A s, t \in 1 .. Len(open) : s < t => open[s] < open[t]
      /\ Around(n) = {open[s] : s \in 1 .. Len(open)}
  BY DEF Braces
<1>2. /\ more \in Seq(1 .. n) /\ Len(more) = Len(open) + 1
      /\ more[Len(open) + 1] = n
      /\ \A s \in 1 .. Len(open) : more[s] = open[s]
  BY <1>1
<1> HIDE DEF more
<1>3. ~Shuts(n) /\ Depth(n, n) = 1 /\ n \in Around(n + 1)  BY AroundNext
<1>4. \A s \in 1 .. Len(open) : Depth(open[s], n) = Len(open) - s + 2
  BY <1>1, <1>3, DepthNext
<1>5. ASSUME NEW s \in 1 .. Len(more)
      PROVE  Depth(more[s], n) = Len(more) - s + 1
  <2>1. CASE s \in 1 .. Len(open) BY <2>1, <1>1, <1>2, <1>4
  <2>2. CASE s = Len(open) + 1 BY <2>2, <1>1, <1>2, <1>3
  <2> QED BY <2>1, <2>2, <1>1, <1>2
<1>6. ASSUME NEW s \in 1 .. Len(more), NEW t \in 1 .. Len(more), s < t
      PROVE  more[s] < more[t]
  <2>0. s \in 1 .. Len(open) BY <1>1, <1>2, <1>6
  <2>1. s \in 1 .. Len(open) /\ more[s] = open[s] /\ open[s] \in 1 .. n - 1
    BY <2>0, <1>1, <1>2
  <2>2. CASE t = Len(open) + 1 BY <2>1, <2>2, <1>2
  <2>3. CASE t # Len(open) + 1
    <3>1. t \in 1 .. Len(open) BY <2>3, <1>1, <1>2
    <3> QED BY <3>1, <2>1, <1>1, <1>2, <1>6
  <2> QED BY <2>2, <2>3
<1>7. ASSUME NEW o \in Around(n) PROVE Depth(o, n) >= 1
  <2>1. PICK s \in 1 .. Len(open) : o = open[s] BY <1>1
  <2>2. Depth(o, n) = Len(open) - s + 2 BY <2>1, <1>4
  <2> QED BY <1>1, <2>1, <2>2
<1>8. Around(n + 1) = Around(n) \cup {n}
  <2>1. Around(n) \subseteq 1 .. n - 1 /\ Around(n + 1) \subseteq 1 .. n  BY AroundNext
  <2>2. \A o \in 1 .. n - 1 : o \in Around(n + 1) <=> o \in Around(n)
    BY <1>7, AroundNext
  <2>3. \A o \in 1 .. n : o # n => o \in 1 .. n - 1 OBVIOUS
  <2> QED BY <1>3, <2>1, <2>2, <2>3
<1>9. Around(n + 1) = {more[s] : s \in 1 .. Len(more)}
  <2>1. ASSUME NEW s \in 1 .. Len(more) PROVE more[s] \in Around(n + 1)
    <3>1. CASE s \in 1 .. Len(open)  BY <3>1, <1>1, <1>2, <1>8
    <3>2. CASE s = Len(open) + 1  BY <3>2, <1>2, <1>8
    <3> QED BY <3>1, <3>2, <1>1, <1>2
  <2>2. ASSUME NEW o \in Around(n + 1)
        PROVE  \E s \in 1 .. Len(more) : more[s] = o
    <3>0. /\ Len(open) + 1 \in 1 .. Len(more)
          /\ \A s \in 1 .. Len(open) : s \in 1 .. Len(more)
      BY <1>1, <1>2
    <3>1. CASE o = n BY <3>0, <3>1, <1>2
    <3>2. CASE o \in Around(n)
      <4>1. PICK s \in 1 .. Len(open) : o = open[s] BY <3>2, <1>1
      <4> QED BY <4>1, <3>0, <1>2
    <3> QED BY <3>1, <3>2, <1>8
  <2> QED BY <2>1, <2>2
<1>10. Depth(1, n) = Len(more)
  <2>1. Depth(1, n - 1) = Len(open) BY DEF Braces
  <2>2. Depth(1, n) = Depth(1, n - 1) + 1 - 0 BY <1>3, DepthOfAll
  <2> QED BY <2>1, <2>2, <1>1, <1>2
<1>11. n + 1 - 1 = n OBVIOUS
<1>12. Braces(n + 1, more)  BY <1>2, <1>5, <1>6, <1>9, <1>10, <1>11 DEF Braces
<1> QED BY <1>12 DEF more

\* A brace that closes closes the innermost.
LEMMA BracesShrink ==
    ASSUME NEW n \in Nat \ {0}, NEW open, Braces(n, open), Shuts(n),
           Len(open) >= 1
    PROVE  Braces(n + 1, Front(open))
<1> DEFINE less == Front(open)
<1>0. open \in Seq(1 .. n - 1)  BY DEF Braces
<1>1. /\ Len(open) \in Nat
      /\ \A s \in 1 .. Len(open) : open[s] \in 1 .. n - 1
      /\ \A s \in 1 .. Len(open) : Depth(open[s], n - 1) = Len(open) - s + 1
      /\ \A s, t \in 1 .. Len(open) : s < t => open[s] < open[t]
      /\ Around(n) = {open[s] : s \in 1 .. Len(open)}
  BY <1>0 DEF Braces
<1>2. /\ less \in Seq(1 .. n) /\ Len(less) = Len(open) - 1
      /\ \A s \in 1 .. Len(open) - 1 : less[s] = open[s]
  <2>1. open \in Seq(1 .. n) BY <1>0
  <2>2. Len(open) - 1 \in Nat /\ Len(open) - 1 <= Len(open) BY <1>1
  <2> DEFINE m == Len(open) - 1
  <2>3. m \in Nat /\ m <= Len(open) BY <2>2
  <2> HIDE DEF m
  <2>4. /\ SubSeq(open, 1, m) \in Seq(1 .. n) /\ Len(SubSeq(open, 1, m)) = m
        /\ \A s \in 1 .. m : SubSeq(open, 1, m)[s] = open[s]
    BY <2>1, <2>3
  <2> QED BY <2>4 DEF Front, m
<1> HIDE DEF less
<1>3. ~Opens(n) /\ n \notin Around(n + 1)  BY AroundNext
<1>4. \A s \in 1 .. Len(open) : Depth(open[s], n) = Len(open) - s
  BY <1>1, <1>3, DepthNext
<1>5. ASSUME NEW s \in 1 .. Len(less)
      PROVE  Depth(less[s], n) = Len(less) - s + 1
  <2>1. s \in 1 .. Len(open) - 1 /\ s \in 1 .. Len(open) BY <1>1, <1>2
  <2>2. less[s] = open[s] /\ Depth(open[s], n) = Len(open) - s  BY <2>1, <1>2, <1>4
  <2> QED BY <2>1, <2>2, <1>1, <1>2
<1>6. ASSUME NEW s \in 1 .. Len(less), NEW t \in 1 .. Len(less), s < t
      PROVE  less[s] < less[t]
  <2>1. s \in 1 .. Len(open) /\ t \in 1 .. Len(open) BY <1>1, <1>2
  <2>2. less[s] = open[s] /\ less[t] = open[t] BY <1>1, <1>2
  <2> QED BY <2>1, <2>2, <1>1, <1>6
<1>7. Around(n + 1) = {less[s] : s \in 1 .. Len(less)}
  <2>1. ASSUME NEW s \in 1 .. Len(less) PROVE less[s] \in Around(n + 1)
    <3>0. s \in 1 .. Len(open) - 1 BY <1>2
    <3>1. less[s] = open[s] /\ s \in 1 .. Len(open) /\ s < Len(open)
      BY <3>0, <1>1, <1>2
    <3>2. Depth(open[s], n) >= 1 /\ open[s] \in Around(n)
            /\ open[s] \in 1 .. n - 1
      BY <3>1, <1>1, <1>4
    <3> QED BY <3>1, <3>2, AroundNext
  <2>2. ASSUME NEW o \in Around(n + 1)
        PROVE  \E s \in 1 .. Len(less) : less[s] = o
    <3>1. o \in 1 .. n - 1 /\ o \in Around(n) /\ Depth(o, n) >= 1
      <4>1. o \in 1 .. n /\ o # n BY <1>3, AroundNext
      <4>2. o \in 1 .. n - 1 BY <4>1
      <4> QED BY <4>2, AroundNext
    <3>2. PICK s \in 1 .. Len(open) : o = open[s] BY <3>1, <1>1
    <3>3. s # Len(open) BY <3>1, <3>2, <1>1, <1>4
    <3>4. s \in 1 .. Len(open) - 1 BY <3>2, <3>3, <1>1
    <3> QED BY <3>2, <3>4, <1>2
  <2> QED BY <2>1, <2>2
<1>8. Depth(1, n) = Len(less)
  <2>1. Depth(1, n - 1) = Len(open) BY DEF Braces
  <2> QED BY <2>1, <1>1, <1>2, <1>3, DepthOfAll
<1>9. n + 1 - 1 = n OBVIOUS
<1>10. Braces(n + 1, less)  BY <1>2, <1>5, <1>6, <1>7, <1>8, <1>9 DEF Braces
<1> QED BY <1>10 DEF less

\* A line belongs to the block of the innermost brace.
LEMMA LineBelongs ==
    ASSUME NEW n \in Nat \ {0}, NEW open, Braces(n, open)
    PROVE  DeclaredAt(n) = IF Len(open) = 0 THEN 0
                           ELSE Declarer(open[Len(open)])
<1>1. /\ open \in Seq(1 .. n - 1) /\ Len(open) \in Nat
      /\ \A s \in 1 .. Len(open) : open[s] \in 1 .. n - 1
      /\ \A s, t \in 1 .. Len(open) : s < t => open[s] < open[t]
      /\ Around(n) = {open[s] : s \in 1 .. Len(open)}
  BY DEF Braces
<1>2. {o \in 1 .. n - 1 : Opens(o) /\ \A k \in o .. n - 1 : Depth(o, k) >= 1}
        = Around(n)
  BY DEF Around
<1>3. CASE Len(open) = 0
  <2>1. Around(n) = {} BY <1>1, <1>3
  <2> QED BY <1>2, <1>3, <2>1 DEF DeclaredAt
<1>4. CASE Len(open) # 0
  <2> DEFINE o == open[Len(open)]
  <2>1. o \in Around(n) /\ \A p \in Around(n) : p <= o
    <3>1. Len(open) \in 1 .. Len(open) BY <1>1, <1>4
    <3>2. ASSUME NEW p \in Around(n) PROVE p <= o
      <4>1. PICK s \in 1 .. Len(open) : p = open[s] BY <1>1
      <4>2. CASE s = Len(open) BY <4>1, <4>2, <1>1, <3>1
      <4>3. CASE s < Len(open) BY <4>1, <4>3, <1>1, <3>1
      <4> QED BY <4>1, <4>2, <4>3, <1>1
    <3> QED BY <1>1, <3>1, <3>2
  <2>2. Around(n) \in SUBSET Nat BY <1>2
  <2>3. Max(Around(n)) = o
    <3>1. o \in Nat BY <2>1, <2>2
    <3> HIDE DEF o
    <3>2. /\ Max(Around(n)) \in Around(n)
          /\ \A p \in Around(n) : p <= Max(Around(n))
      BY <2>1, <2>2, <3>1, MaxIsGreatest
    <3> QED BY <2>1, <2>2, <3>1, <3>2
  <2>4. Around(n) # {} BY <2>1
  <2> QED BY <1>2, <1>4, <2>3, <2>4 DEF DeclaredAt, Declarer, Declaring
<1> QED BY <1>3, <1>4

-----------------------------------------------------------------------------
(* The reader                                                                *)

\* The text is not written to.
LEMMA TextStays ==
    ASSUME script' = script
    PROVE  /\ \A i : (Opens(i))' = Opens(i) /\ (Shuts(i))' = Shuts(i)
           /\ \A i, j : (Depth(i, j))' = Depth(i, j)
           /\ \A j : (Declaring(j))' = Declaring(j)
           /\ \A j : (BlockNo(j))' = BlockNo(j)
           /\ \A o : (Declarer(o))' = Declarer(o)
           /\ \A i : (DeclaredAt(i))' = DeclaredAt(i)
           /\ \A i : (Said(i))' = Said(i)
           /\ \A n : (Around(n))' = Around(n)
           /\ \A d, n : /\ (SaidBy(d, n))' = SaidBy(d, n)
                        /\ (DeclaredBy(d, n))' = DeclaredBy(d, n)
           /\ BlockSet' = BlockSet
<1>1. \A i : (Opens(i))' = Opens(i) /\ (Shuts(i))' = Shuts(i)  BY DEF Opens, Shuts
<1>2. ASSUME NEW i, NEW j PROVE (Depth(i, j))' = Depth(i, j)
  <2>1. {k \in i .. j : Opens(k)}' = {k \in i .. j : Opens(k)} BY <1>1
  <2>2. {k \in i .. j : Shuts(k)}' = {k \in i .. j : Shuts(k)} BY <1>1
  <2> QED BY <2>1, <2>2 DEF Depth
<1>3. ASSUME NEW j
      PROVE  (Declaring(j))' = Declaring(j) /\ (BlockNo(j))' = BlockNo(j)
  <2>1. (Declaring(j))' = Declaring(j) BY DEF Declaring
  <2> QED BY <2>1 DEF BlockNo
<1>4. ASSUME NEW o PROVE (Declarer(o))' = Declarer(o)  BY <1>3 DEF Declarer
<1>5. ASSUME NEW i PROVE (DeclaredAt(i))' = DeclaredAt(i)  BY <1>1, <1>2 DEF DeclaredAt
<1>6. \A i : (Said(i))' = Said(i)  BY <1>1 DEF Said
<1>7. ASSUME NEW n PROVE (Around(n))' = Around(n)  BY <1>1, <1>2 DEF Around
<1>8. ASSUME NEW d, NEW n PROVE (SaidBy(d, n))' = SaidBy(d, n)  BY <1>5, <1>6 DEF SaidBy
<1>9. ASSUME NEW d, NEW n PROVE (DeclaredBy(d, n))' = DeclaredBy(d, n)
  BY <1>5 DEF DeclaredBy
<1>10. BlockSet' = BlockSet  BY DEF BlockSet, BlockKinds, BlockNames, LineSet
<1> QED BY <1>1, <1>2, <1>3, <1>4, <1>5, <1>6, <1>7, <1>8, <1>9, <1>10

\* A block has a number there is, and no two have the same.
LEMMA NumbersAreInRange ==
    ASSUME NEW n \in Nat, NEW d \in {0} \cup Declaring(n)
    PROVE  /\ BlockNo(d) \in 1 .. BlockNo(n) /\ BlockNo(n) \in Nat
           /\ \A e \in {0} \cup Declaring(n) :
                BlockNo(e) = BlockNo(d) => e = d
<1>1. d \in Nat /\ \A e \in {0} \cup Declaring(n) : e \in Nat  BY DEF Declaring
<1>2. ASSUME NEW e \in {0} \cup Declaring(n), BlockNo(e) = BlockNo(d)
      PROVE  e = d
  <2>1. e \in Nat BY <1>1
  <2>2. ASSUME d < e PROVE FALSE BY <1>2, <2>2, NumbersAreDistinct
  <2>3. ASSUME e < d PROVE FALSE BY <1>2, <2>3, NumbersAreDistinct
  <2> QED BY <2>1, <2>2, <2>3, <1>1
<1>3. BlockNo(n) \in Nat /\ BlockNo(n) >= 1
  <2>1. n + 1 \in Nat \ {0} /\ n + 1 - 1 = n OBVIOUS
  <2> QED BY <2>1, BlocksAreNumbered
<1>4. BlockNo(d) \in 1 .. BlockNo(n)
  <2>1. BlockNo(0) = 1
    <3>1. 1 \in Nat \ {0} OBVIOUS
    <3> QED BY <3>1, BlocksAreNumbered
  <2>2. CASE d = 0 BY <2>1, <2>2, <1>3
  <2>3. CASE d # 0
    <3>1. 0 \in {0} \cup Declaring(n) /\ 0 < d BY <2>3, <1>1
    <3> QED BY <3>1, <1>3, NumbersAreDistinct
  <2> QED BY <2>2, <2>3
<1> QED BY <1>2, <1>3, <1>4

\* The lines said by a block or declared in it.
LEMMA LinesNext ==
    ASSUME NEW n \in Nat \ {0}, NEW d
    PROVE  /\ SaidBy(d, n) \subseteq 1 .. n - 1
           /\ DeclaredBy(d, n) \subseteq 1 .. n - 1
           /\ Said(n) /\ DeclaredAt(n) = d =>
                SaidBy(d, n + 1) = SaidBy(d, n) \cup {n}
           /\ ~(Said(n) /\ DeclaredAt(n) = d) =>
                SaidBy(d, n + 1) = SaidBy(d, n)
           /\ Declares(script.lines[n]) /\ DeclaredAt(n) = d =>
                DeclaredBy(d, n + 1) = DeclaredBy(d, n) \cup {n}
           /\ ~(Declares(script.lines[n]) /\ DeclaredAt(n) = d) =>
                DeclaredBy(d, n + 1) = DeclaredBy(d, n)
<1>1. 1 .. n + 1 - 1 = (1 .. n - 1) \cup {n} OBVIOUS
<1>2. SaidBy(d, n + 1) = {i \in (1 .. n - 1) \cup {n} :
                           Said(i) /\ DeclaredAt(i) = d}
  BY <1>1 DEF SaidBy
<1>3. DeclaredBy(d, n + 1) = {i \in (1 .. n - 1) \cup {n} :
                           Declares(script.lines[i]) /\ DeclaredAt(i) = d}
  BY <1>1 DEF DeclaredBy
<1> QED BY <1>2, <1>3 DEF SaidBy, DeclaredBy

\* The places of the lines of a set, when one is added after all of them.
LEMMA PlacesStay ==
    ASSUME NEW n \in Nat \ {0}, NEW T \in SUBSET (1 .. n - 1)
    PROVE  /\ Cardinality(T) \in Nat
           /\ Cardinality(T \cup {n}) = Cardinality(T) + 1
           /\ Place(T \cup {n}, n) = Cardinality(T) + 1
           /\ \A i \in T : Place(T \cup {n}, i) = Place(T, i)
           /\ \A i \in T : Place(T, i) \in 1 .. Cardinality(T)
<1>1. IsFiniteSet(T)
  <2>1. IsFiniteSet(1 .. n - 1) BY FS_Interval
  <2> QED BY <2>1, FS_Subset
<1>2. Cardinality(T) \in Nat BY <1>1, FS_CardinalityType
<1>3. n \notin T OBVIOUS
<1>4. Cardinality(T \cup {n}) = Cardinality(T) + 1  BY <1>1, <1>3, FS_AddElement
<1>5. (T \cup {n}) \cap 1 .. n = T \cup {n}
  <2>1. \A i \in T \cup {n} : i \in 1 .. n OBVIOUS
  <2> QED BY <2>1
<1>6. ASSUME NEW i \in T PROVE Place(T \cup {n}, i) = Place(T, i)
  <2>1. (T \cup {n}) \cap 1 .. i = T \cap 1 .. i OBVIOUS
  <2> QED BY <2>1 DEF Place
<1>7. ASSUME NEW i \in T PROVE Place(T, i) \in 1 .. Cardinality(T)
  <2>1. T \cap 1 .. i \subseteq T OBVIOUS
  <2>2. /\ IsFiniteSet(T \cap 1 .. i)
        /\ Cardinality(T \cap 1 .. i) <= Cardinality(T)
    BY <1>1, <2>1, FS_Subset
  <2>3. Cardinality(T \cap 1 .. i) \in Nat BY <2>2, FS_CardinalityType
  <2>4. Cardinality(T \cap 1 .. i) # 0
    <3>1. i \in T \cap 1 .. i OBVIOUS
    <3>2. T \cap 1 .. i # {} BY <3>1
    <3> QED BY <2>2, <3>2, FS_EmptySet
  <2> QED BY <2>2, <2>3, <2>4, <1>2 DEF Place
<1> QED BY <1>2, <1>4, <1>5, <1>6, <1>7 DEF Place

\* A line that says nothing of a block leaves it whole.
LEMMA HoldsStill ==
    ASSUME NEW n \in Nat \ {0}, NEW d, NEW b, Holds(n, d, b),
           ~(Said(n) /\ DeclaredAt(n) = d),
           ~(Declares(script.lines[n]) /\ DeclaredAt(n) = d)
    PROVE  Holds(n + 1, d, b)
<1>1. /\ SaidBy(d, n + 1) = SaidBy(d, n)
      /\ DeclaredBy(d, n + 1) = DeclaredBy(d, n)
  BY LinesNext
<1> QED BY <1>1 DEF Holds

\* A line said by a block is written at its end.
LEMMA HoldsSaid ==
    ASSUME NEW n \in Nat \ {0}, NEW d, NEW b, Holds(n, d, b), NEW c,
           Said(n), DeclaredAt(n) = d, NEW S, Written(b) \in Seq(S),
           script.lines[n] \in S,
           Written(c) = Append(Written(b), script.lines[n]),
           c.groups = b.groups
    PROVE  Holds(n + 1, d, c)
<1> DEFINE T == SaidBy(d, n)
           w == Written(b)
           l == script.lines[n]
<1>1. /\ SaidBy(d, n + 1) = T \cup {n} /\ T \in SUBSET (1 .. n - 1)
      /\ DeclaredBy(d, n + 1) = DeclaredBy(d, n)
  BY LinesNext DEF Said
<1>2. Len(w) = Cardinality(T) /\ \A i \in T : w[Place(T, i)] = script.lines[i]
  BY DEF Holds
<1>3. w \in Seq(S) /\ l \in S OBVIOUS
<1> HIDE DEF T, w
<1>4. /\ Cardinality(T) \in Nat
      /\ Cardinality(T \cup {n}) = Cardinality(T) + 1
      /\ Place(T \cup {n}, n) = Cardinality(T) + 1
      /\ \A i \in T : Place(T \cup {n}, i) = Place(T, i)
      /\ \A i \in T : Place(T, i) \in 1 .. Cardinality(T)
  BY <1>1, PlacesStay
<1>5. /\ Len(Append(w, l)) = Len(w) + 1
      /\ Append(w, l)[Len(w) + 1] = l
      /\ \A k \in 1 .. Len(w) : Append(w, l)[k] = w[k]
  BY <1>3
<1>6. \A i \in T \cup {n} :
        Append(w, l)[Place(T \cup {n}, i)] = script.lines[i]
  BY <1>2, <1>4, <1>5
<1>7. Len(Append(w, l)) = Cardinality(T \cup {n})  BY <1>2, <1>4, <1>5
<1>8. Written(c) = Append(w, l) BY DEF w
<1>9. c.groups = b.groups OBVIOUS
<1> QED BY <1>1, <1>6, <1>7, <1>8, <1>9 DEF Holds

\* A block declared in a block comes after those declared before it.
LEMMA HoldsDeclared ==
    ASSUME NEW n \in Nat \ {0}, NEW d, NEW b, Holds(n, d, b), NEW c,
           ~Said(n), Declares(script.lines[n]), DeclaredAt(n) = d,
           b.groups \in Seq(Nat), BlockNo(n) \in Nat,
           Written(c) = Written(b), c.groups = Append(b.groups, BlockNo(n))
    PROVE  Holds(n + 1, d, c)
<1> DEFINE T == DeclaredBy(d, n)
           w == b.groups
           l == BlockNo(n)
<1>1. /\ DeclaredBy(d, n + 1) = T \cup {n} /\ T \in SUBSET (1 .. n - 1)
      /\ SaidBy(d, n + 1) = SaidBy(d, n)
  BY LinesNext
<1>2. Len(w) = Cardinality(T) /\ \A i \in T : w[Place(T, i)] = BlockNo(i)  BY DEF Holds
<1>3. w \in Seq(Nat) /\ l \in Nat OBVIOUS
<1> HIDE DEF T, w
<1>4. /\ Cardinality(T) \in Nat
      /\ Cardinality(T \cup {n}) = Cardinality(T) + 1
      /\ Place(T \cup {n}, n) = Cardinality(T) + 1
      /\ \A i \in T : Place(T \cup {n}, i) = Place(T, i)
      /\ \A i \in T : Place(T, i) \in 1 .. Cardinality(T)
  BY <1>1, PlacesStay
<1>5. /\ Len(Append(w, l)) = Len(w) + 1
      /\ Append(w, l)[Len(w) + 1] = l
      /\ \A k \in 1 .. Len(w) : Append(w, l)[k] = w[k]
  BY <1>3
<1>6. \A i \in T \cup {n} : Append(w, l)[Place(T \cup {n}, i)] = BlockNo(i)
  BY <1>2, <1>4, <1>5
<1>7. Len(Append(w, l)) = Cardinality(T \cup {n})  BY <1>2, <1>4, <1>5
<1>8. c.groups = Append(w, l) BY DEF w
<1>9. Written(c) = Written(b) OBVIOUS
<1> QED BY <1>1, <1>6, <1>7, <1>8, <1>9 DEF Holds

\* A new block holds nothing yet.
LEMMA HoldsNothing ==
    ASSUME NEW n \in Nat, NEW d, NEW b, b.fields = <<>>, b.rows = <<>>,
           b.groups = <<>>, \A i \in 1 .. n : DeclaredAt(i) # d
    PROVE  Holds(n + 1, d, b)
<1>1. SaidBy(d, n + 1) = {} /\ DeclaredBy(d, n + 1) = {}  BY DEF SaidBy, DeclaredBy
<1>2. Cardinality(SaidBy(d, n + 1)) = 0
        /\ Cardinality(DeclaredBy(d, n + 1)) = 0
  BY <1>1, FS_EmptySet
<1> QED BY <1>1, <1>2 DEF Holds, Written

\* What a block holds is said by the text alone.
LEMMA HoldsIsFixed ==
    ASSUME script' = script, NEW n, NEW d, NEW b, Holds(n, d, b)
    PROVE  (Holds(n, d, b))'
  BY TextStays DEF Holds, Written, Place

LEMMA BracesAreFixed ==
    ASSUME script' = script, NEW n, NEW open, Braces(n, open)
    PROVE  (Braces(n, open))'
  BY TextStays DEF Braces

\* The reader is in the block that the next line belongs to.
LEMMA ReaderIsThere ==
    ASSUME NEW n \in Nat \ {0}, NEW open, Braces(n, open), Inside(open)
    PROVE  /\ DeclaredAt(n) \in {0} \cup Declaring(n - 1)
           /\ DeclaredAt(n) \in 0 .. n - 1
           /\ Innermost = BlockNo(DeclaredAt(n))
<1>1. /\ open \in Seq(1 .. n - 1) /\ Len(open) \in Nat
      /\ \A s \in 1 .. Len(open) : open[s] \in 1 .. n - 1
  BY DEF Braces
<1>2. DeclaredAt(n) = IF Len(open) = 0 THEN 0 ELSE Declarer(open[Len(open)])
  BY LineBelongs
<1>3. BlockNo(0) = 1
  <2>1. 1 \in Nat \ {0} OBVIOUS
  <2> QED BY <2>1, BlocksAreNumbered
<1>4. Innermost = within[Len(open) + 1]  BY DEF Innermost, Last, Inside
<1>5. CASE Len(open) = 0  BY <1>2, <1>3, <1>4, <1>5 DEF Inside
<1>6. CASE Len(open) # 0
  <2>1. Len(open) \in 1 .. Len(open) BY <1>1, <1>6
  <2> DEFINE o == open[Len(open)]
  <2>2. /\ Declarer(o) \in Declaring(o) /\ o \in 1 .. n - 1
        /\ within[Len(open) + 1] = BlockNo(Declarer(o))
    BY <2>1, <1>1 DEF Inside
  <2>3. Declaring(o) \subseteq Declaring(n - 1)
          /\ Declaring(o) \subseteq 1 .. n - 1
    BY <2>2 DEF Declaring
  <2>4. DeclaredAt(n) = Declarer(o) BY <1>2, <1>6
  <2> HIDE DEF o
  <2> QED BY <2>2, <2>3, <2>4, <1>4
<1> QED BY <1>5, <1>6

\* A line that is only of braces, or empty.
LEMMA ContentsStay ==
    ASSUME NEW n \in Nat \ {0}, BlocksHold(n), script' = script,
           DeclaredAt(n) \in 0 .. n - 1, ~Said(n),
           ~Declares(script.lines[n]), blocks' = blocks,
           pending' \in {0, pending}
    PROVE  BlocksHold(n + 1)'
<1>1. Declaring(n) = Declaring(n - 1) /\ BlockNo(n) = BlockNo(n - 1)
  BY BlocksAreNumbered
<1>2. /\ BlockSet' = BlockSet
      /\ \A j : (Declaring(j))' = Declaring(j) /\ (BlockNo(j))' = BlockNo(j)
      /\ \A i : (DeclaredAt(i))' = DeclaredAt(i)
  BY TextStays
<1>3. n + 1 - 1 = n OBVIOUS
<1>4. \A i \in 1 .. n : DeclaredAt(i) \in 0 .. i - 1
  <2>1. \A i \in 1 .. n - 1 : DeclaredAt(i) \in 0 .. i - 1 BY DEF BlocksHold
  <2>2. \A i \in 1 .. n : i = n \/ i \in 1 .. n - 1 OBVIOUS
  <2> QED BY <2>1, <2>2
<1>5. ASSUME NEW d \in {0} \cup Declaring(n), NEW b,
             b = blocks[BlockNo(d)]
      PROVE  (Holds(n + 1, d, b))'
  <2>1. Holds(n, d, b) BY <1>1, <1>5 DEF BlocksHold
  <2>2. Holds(n + 1, d, b) BY <2>1, HoldsStill
  <2> QED BY <2>2, HoldsIsFixed
<1>6. /\ blocks' \in Seq(BlockSet) /\ Len(blocks') = BlockNo(n)
      /\ pending' \in {0, Len(blocks')}
      /\ pending' # 0 => Declaring(n) # {}
  BY <1>1 DEF BlocksHold
<1>8. /\ (Declaring(n + 1 - 1))' = Declaring(n)
      /\ (BlockNo(n + 1 - 1))' = BlockNo(n)
  BY <1>2, <1>3
<1>9. (\A i \in 1 .. n + 1 - 1 : DeclaredAt(i) \in 0 .. i - 1)'  BY <1>2, <1>3, <1>4
<1>10. (\A d \in {0} \cup Declaring(n + 1 - 1) :
          \A b : b = blocks[BlockNo(d)] => Holds(n + 1, d, b))'
  BY <1>2, <1>8, <1>5
<1>11. (/\ blocks \in Seq(BlockSet) /\ Len(blocks) = BlockNo(n + 1 - 1)
        /\ pending \in {0, Len(blocks)}
        /\ pending # 0 => Declaring(n + 1 - 1) # {})'
  BY <1>2, <1>8, <1>6
<1> QED BY <1>9, <1>10, <1>11 DEF BlocksHold

\* A line said by the block the reader is in.
LEMMA ContentsSaid ==
    ASSUME NEW n \in Nat \ {0}, BlocksHold(n), script' = script,
           NEW d0 \in {0} \cup Declaring(n - 1),
           DeclaredAt(n) = d0, d0 \in 0 .. n - 1, Said(n),
           ~Declares(script.lines[n]),
           blocks' \in Seq(BlockSet), Len(blocks') = Len(blocks),
           \A k \in 1 .. Len(blocks) :
             k # BlockNo(d0) => blocks'[k] = blocks[k],
           NEW b0, b0 = blocks[BlockNo(d0)],
           NEW c0, c0 = blocks'[BlockNo(d0)],
           Written(b0) \in Seq(LineSet), script.lines[n] \in LineSet,
           Written(c0) = Append(Written(b0), script.lines[n]),
           c0.groups = b0.groups, pending' = pending
    PROVE  BlocksHold(n + 1)'
<1>1. Declaring(n) = Declaring(n - 1) /\ BlockNo(n) = BlockNo(n - 1)
  BY BlocksAreNumbered
<1>2. /\ BlockSet' = BlockSet
      /\ \A j : (Declaring(j))' = Declaring(j) /\ (BlockNo(j))' = BlockNo(j)
      /\ \A i : (DeclaredAt(i))' = DeclaredAt(i)
  BY TextStays
<1>3. n + 1 - 1 = n OBVIOUS
<1>4. \A i \in 1 .. n : DeclaredAt(i) \in 0 .. i - 1
  <2>1. \A i \in 1 .. n - 1 : DeclaredAt(i) \in 0 .. i - 1 BY DEF BlocksHold
  <2>2. \A i \in 1 .. n : i = n \/ i \in 1 .. n - 1 OBVIOUS
  <2> QED BY <2>1, <2>2
<1>5. ASSUME NEW d \in {0} \cup Declaring(n), NEW c,
             c = blocks'[BlockNo(d)]
      PROVE  (Holds(n + 1, d, c))'
  <2>1. CASE d = d0
    <3>1. Holds(n, d, b0) BY <2>1, <1>1 DEF BlocksHold
    <3>2. c = c0 BY <2>1, <1>5
    <3>3. Holds(n + 1, d, c)  BY <2>1, <3>1, <3>2, HoldsSaid
    <3> QED BY <3>3, HoldsIsFixed
  <2>2. CASE d # d0
    <3>1. /\ BlockNo(d) \in 1 .. Len(blocks) /\ BlockNo(d) # BlockNo(d0)
      <4>1. n - 1 \in Nat /\ Len(blocks) = BlockNo(n - 1) BY DEF BlocksHold
      <4> QED BY <4>1, <2>2, <1>1, NumbersAreInRange
    <3>2. c = blocks[BlockNo(d)] BY <3>1, <1>5
    <3>3. Holds(n, d, c) BY <3>2, <1>1 DEF BlocksHold
    <3>4. Holds(n + 1, d, c) BY <3>3, <2>2, HoldsStill
    <3> QED BY <3>4, HoldsIsFixed
  <2> QED BY <2>1, <2>2
<1>6. /\ blocks' \in Seq(BlockSet) /\ Len(blocks') = BlockNo(n)
      /\ pending' \in {0, Len(blocks')}
      /\ pending' # 0 => Declaring(n) # {}
  BY <1>1 DEF BlocksHold
<1>8. /\ (Declaring(n + 1 - 1))' = Declaring(n)
      /\ (BlockNo(n + 1 - 1))' = BlockNo(n)
  BY <1>2, <1>3
<1>9. (\A i \in 1 .. n + 1 - 1 : DeclaredAt(i) \in 0 .. i - 1)'  BY <1>2, <1>3, <1>4
<1>10. (\A d \in {0} \cup Declaring(n + 1 - 1) :
          \A b : b = blocks[BlockNo(d)] => Holds(n + 1, d, b))'
  BY <1>2, <1>8, <1>5
<1>11. (/\ blocks \in Seq(BlockSet) /\ Len(blocks) = BlockNo(n + 1 - 1)
        /\ pending \in {0, Len(blocks)}
        /\ pending # 0 => Declaring(n + 1 - 1) # {})'
  BY <1>2, <1>8, <1>6
<1> QED BY <1>9, <1>10, <1>11 DEF BlocksHold

\* A block declared in the one the reader is in.
LEMMA ContentsDeclared ==
    ASSUME NEW n \in Nat \ {0}, BlocksHold(n), script' = script,
           NEW d0 \in {0} \cup Declaring(n - 1),
           DeclaredAt(n) = d0, d0 \in 0 .. n - 1, ~Said(n),
           Declares(script.lines[n]),
           blocks' \in Seq(BlockSet), Len(blocks') = Len(blocks) + 1,
           \A k \in 1 .. Len(blocks) :
             k # BlockNo(d0) => blocks'[k] = blocks[k],
           NEW b0, b0 = blocks[BlockNo(d0)],
           NEW c0, c0 = blocks'[BlockNo(d0)],
           b0.groups \in Seq(Nat), Written(c0) = Written(b0),
           c0.groups = Append(b0.groups, Len(blocks) + 1),
           NEW new, new = blocks'[Len(blocks) + 1],
           new.fields = <<>>, new.rows = <<>>, new.groups = <<>>,
           pending' \in {0, Len(blocks) + 1}
    PROVE  BlocksHold(n + 1)'
<1>1. /\ Declaring(n) = Declaring(n - 1) \cup {n}
      /\ BlockNo(n) = BlockNo(n - 1) + 1
      /\ BlockNo(n - 1) \in Nat
  BY BlocksAreNumbered
<1>2. /\ BlockSet' = BlockSet
      /\ \A j : (Declaring(j))' = Declaring(j) /\ (BlockNo(j))' = BlockNo(j)
      /\ \A i : (DeclaredAt(i))' = DeclaredAt(i)
  BY TextStays
<1>3. n + 1 - 1 = n /\ n - 1 \in Nat OBVIOUS
<1>4. \A i \in 1 .. n : DeclaredAt(i) \in 0 .. i - 1
  <2>1. \A i \in 1 .. n - 1 : DeclaredAt(i) \in 0 .. i - 1 BY DEF BlocksHold
  <2>2. \A i \in 1 .. n : i = n \/ i \in 1 .. n - 1 OBVIOUS
  <2> QED BY <2>1, <2>2
<1>5. Len(blocks) = BlockNo(n - 1) BY DEF BlocksHold
<1>6. ASSUME NEW d \in {0} \cup Declaring(n), NEW c,
             c = blocks'[BlockNo(d)]
      PROVE  (Holds(n + 1, d, c))'
  <2>1. CASE d = n
    <3>1. c = new BY <2>1, <1>1, <1>5, <1>6
    <3>2. \A i \in 1 .. n : DeclaredAt(i) # d BY <2>1, <1>4
    <3>3. Holds(n + 1, d, c)  BY <3>1, <3>2, HoldsNothing
    <3> QED BY <3>3, HoldsIsFixed
  <2>2. CASE d # n /\ d = d0
    <3>1. Holds(n, d, b0) BY <2>2, <1>1 DEF BlocksHold
    <3>2. c = c0 BY <2>2, <1>6
    <3>3. BlockNo(n) = Len(blocks) + 1 /\ BlockNo(n) \in Nat BY <1>1, <1>5
    <3>4. Holds(n + 1, d, c)  BY <2>2, <3>1, <3>2, <3>3, HoldsDeclared
    <3> QED BY <3>4, HoldsIsFixed
  <2>3. CASE d # n /\ d # d0
    <3>0. d \in {0} \cup Declaring(n - 1) BY <2>3, <1>1
    <3>1. BlockNo(d) \in 1 .. Len(blocks) /\ BlockNo(d) # BlockNo(d0)
      BY <2>3, <3>0, <1>3, <1>5, NumbersAreInRange
    <3>2. c = blocks[BlockNo(d)] BY <3>1, <1>6
    <3>3. Holds(n, d, c) BY <3>0, <3>2 DEF BlocksHold
    <3>4. Holds(n + 1, d, c) BY <3>3, <2>3, HoldsStill
    <3> QED BY <3>4, HoldsIsFixed
  <2> QED BY <2>1, <2>2, <2>3
<1>7. /\ blocks' \in Seq(BlockSet) /\ Len(blocks') = BlockNo(n)
      /\ pending' \in {0, Len(blocks')}
      /\ pending' # 0 => Declaring(n) # {}
  BY <1>1, <1>5
<1>8. /\ (Declaring(n + 1 - 1))' = Declaring(n)
      /\ (BlockNo(n + 1 - 1))' = BlockNo(n)
  BY <1>2, <1>3
<1>9. (\A i \in 1 .. n + 1 - 1 : DeclaredAt(i) \in 0 .. i - 1)'  BY <1>2, <1>3, <1>4
<1>10. (\A d \in {0} \cup Declaring(n + 1 - 1) :
          \A b : b = blocks[BlockNo(d)] => Holds(n + 1, d, b))'
  BY <1>2, <1>8, <1>6
<1>11. (/\ blocks \in Seq(BlockSet) /\ Len(blocks) = BlockNo(n + 1 - 1)
        /\ pending \in {0, Len(blocks)}
        /\ pending # 0 => Declaring(n + 1 - 1) # {})'
  BY <1>2, <1>8, <1>7
<1> QED BY <1>9, <1>10, <1>11 DEF BlocksHold

\* What a line can be.
LEMMA LineKinds ==
    ASSUME NEW n
    PROVE  LET l == script.lines[n]
           IN /\ l = <<>> => ~Opens(n) /\ ~Shuts(n) /\ ~Said(n) /\ ~Declares(l)
              /\ l = <<"{">> => Opens(n) /\ ~Said(n) /\ ~Declares(l)
              /\ l = <<"}">> => Shuts(n) /\ ~Said(n) /\ ~Declares(l)
              /\ Declares(l) => ~Said(n) /\ ~Shuts(n)
                                  /\ (Opens(n) <=> Len(l) = 3)
              /\ (l # <<>> /\ l # <<"{">> /\ l # <<"}">> /\ ~Declares(l)) =>
                   Said(n) /\ ~Opens(n) /\ ~Shuts(n)
<1> DEFINE l == script.lines[n]
<1>1. \A x, c : x = <<c>> => x[1] = c /\ x # <<>> OBVIOUS
<1>2. /\ l = <<"{">> => l[1] = "{" /\ l # <<>>
      /\ l = <<"}">> => l[1] = "}" /\ l # <<>>
  BY <1>1, Zenon
<1>3. Declares(l) <=> l # <<>> /\ (l[1] = "Group" \/ l[1] = "List")  BY DEF Declares
<1>4. Opens(n) <=> l = <<"{">> \/ (Declares(l) /\ Len(l) = 3) BY DEF Opens
<1>5. Shuts(n) <=> l = <<"}">> BY DEF Shuts
<1>6. Said(n) <=> l # <<>> /\ ~Opens(n) /\ ~Shuts(n) /\ ~Declares(l)  BY DEF Said
<1>7. l = <<"{">> => ~Declares(l) BY <1>2, <1>3, Zenon
<1>8. l = <<"}">> => ~Declares(l) BY <1>2, <1>3, Zenon
<1> HIDE DEF l
<1>9. l = <<>> => ~Opens(n) /\ ~Shuts(n) /\ ~Said(n) /\ ~Declares(l)
  BY <1>2, <1>3, <1>4, <1>5, <1>6, Zenon
<1>10. l = <<"{">> => Opens(n) /\ ~Said(n) /\ ~Declares(l)  BY <1>4, <1>6, <1>7, Zenon
<1>11. l = <<"}">> => Shuts(n) /\ ~Said(n) /\ ~Declares(l)  BY <1>5, <1>6, <1>8, Zenon
<1>12. Declares(l) => ~Said(n) /\ ~Shuts(n) /\ (Opens(n) <=> Len(l) = 3)
  BY <1>4, <1>5, <1>6, <1>7, <1>8, Zenon
<1>13. (l # <<>> /\ l # <<"{">> /\ l # <<"}">> /\ ~Declares(l)) =>
         Said(n) /\ ~Opens(n) /\ ~Shuts(n)
  BY <1>2, <1>4, <1>5, <1>6, Zenon
<1> QED BY <1>9, <1>10, <1>11, <1>12, <1>13, Zenon DEF l

\* The last declaration is that of the last block.
LEMMA LastDeclared ==
    ASSUME NEW n \in Nat, Declaring(n) # {}
    PROVE  /\ Max(Declaring(n)) \in Declaring(n)
           /\ BlockNo(Max(Declaring(n))) = BlockNo(n)
<1> DEFINE m == Max(Declaring(n))
<1>1. Declaring(n) \in SUBSET Nat /\ \A k \in Declaring(n) : k <= n  BY DEF Declaring
<1>2. m \in Declaring(n) /\ \A k \in Declaring(n) : k <= m  BY <1>1, MaxIsGreatest
<1> HIDE DEF m
<1>3. Declaring(m) = Declaring(n)
  <2>1. m \in 1 .. n BY <1>2 DEF Declaring
  <2>2. \A k \in Declaring(n) : k \in 1 .. m BY <1>2, <2>1 DEF Declaring
  <2> QED BY <2>1, <2>2 DEF Declaring
<1>4. BlockNo(m) = BlockNo(n) BY <1>3 DEF BlockNo
<1> QED BY <1>2, <1>4 DEF m

LEMMA InsideStays ==
    ASSUME NEW open, Inside(open), script' = script, within' = within
    PROVE  Inside(open)'
  BY TextStays DEF Inside

LEMMA InsideGrows ==
    ASSUME NEW n \in Nat \ {0}, NEW open \in Seq(1 .. n - 1), Inside(open),
           script' = script, Declarer(n) \in Declaring(n),
           BlockNo(Declarer(n)) \in Nat,
           within' = Append(within, BlockNo(Declarer(n)))
    PROVE  Inside(Append(open, n))'
<1> DEFINE more == Append(open, n)
<1>1. /\ Len(open) \in Nat /\ Len(more) = Len(open) + 1
      /\ more[Len(open) + 1] = n
      /\ \A s \in 1 .. Len(open) : more[s] = open[s]
  <2>1. open \in Seq(1 .. n) OBVIOUS
  <2> QED BY <2>1
<1> HIDE DEF more
<1>2. /\ within' \in Seq(Nat) /\ Len(within') = Len(within) + 1
      /\ within'[Len(within) + 1] = BlockNo(Declarer(n))
      /\ \A s \in 1 .. Len(within) : within'[s] = within[s]
  BY DEF Inside
<1>3. ASSUME NEW s \in 1 .. Len(more)
      PROVE  /\ Declarer(more[s]) \in Declaring(more[s])
             /\ within'[s + 1] = BlockNo(Declarer(more[s]))
  <2>1. CASE s \in 1 .. Len(open)
    <3>1. s + 1 \in 1 .. Len(within) BY <2>1, <1>1 DEF Inside
    <3> QED BY <2>1, <3>1, <1>1, <1>2 DEF Inside
  <2>2. CASE s = Len(open) + 1  BY <2>2, <1>1, <1>2 DEF Inside
  <2>3. s \in 1 .. Len(open) \/ s = Len(open) + 1 BY <1>1
  <2> QED BY <2>1, <2>2, <2>3
<1>4. Len(within') = Len(more) + 1 /\ within'[1] = 1  BY <1>1, <1>2 DEF Inside
<1>5. Inside(more)'  BY <1>2, <1>3, <1>4, TextStays DEF Inside
<1> QED BY <1>5 DEF more

LEMMA InsideShrinks ==
    ASSUME NEW n \in Nat, NEW open \in Seq(1 .. n), Inside(open),
           script' = script, Len(open) >= 1, within' = Front(within)
    PROVE  Inside(Front(open))'
<1> DEFINE less == Front(open)
           m == Len(open) - 1
<1>1. /\ m \in Nat /\ Len(less) = m
      /\ \A s \in 1 .. m : less[s] = open[s]
  <2>1. m \in Nat /\ m <= Len(open) OBVIOUS
  <2> HIDE DEF m
  <2>2. /\ Len(SubSeq(open, 1, m)) = m
        /\ \A s \in 1 .. m : SubSeq(open, 1, m)[s] = open[s]
    BY <2>1
  <2> QED BY <2>1, <2>2 DEF Front, m
<1>2. /\ within' \in Seq(Nat) /\ Len(within') = m + 1
      /\ \A s \in 1 .. m + 1 : within'[s] = within[s]
  <2> DEFINE k == Len(within) - 1
  <2>1. k = m + 1 /\ k \in Nat /\ k <= Len(within) /\ within \in Seq(Nat)
    BY <1>1 DEF Inside
  <2> HIDE DEF k, m
  <2>2. /\ SubSeq(within, 1, k) \in Seq(Nat)
        /\ Len(SubSeq(within, 1, k)) = k
        /\ \A s \in 1 .. k : SubSeq(within, 1, k)[s] = within[s]
    BY <2>1
  <2> QED BY <2>1, <2>2 DEF Front, k
<1>3. m <= Len(open) OBVIOUS
<1> HIDE DEF less, m
<1>4. ASSUME NEW s \in 1 .. Len(less)
      PROVE  /\ Declarer(less[s]) \in Declaring(less[s])
             /\ within'[s + 1] = BlockNo(Declarer(less[s]))
  <2>1. s \in 1 .. Len(open) /\ s + 1 \in 1 .. m + 1 /\ less[s] = open[s]  BY <1>1, <1>3
  <2> QED BY <2>1, <1>2 DEF Inside
<1>5. within'[1] = 1 BY <1>1, <1>2 DEF Inside
<1>6. Inside(less)'  BY <1>1, <1>2, <1>4, <1>5, TextStays DEF Inside
<1> QED BY <1>6 DEF less

\* An element put at the end of a sequence, and one put in place of another.
LEMMA AppendedTo ==
    ASSUME NEW S, NEW s \in Seq(S), NEW e \in S
    PROVE  /\ Append(s, e) \in Seq(S) /\ Len(Append(s, e)) = Len(s) + 1
           /\ Append(s, e)[Len(s) + 1] = e
           /\ \A k \in 1 .. Len(s) : Append(s, e)[k] = s[k]
  OBVIOUS

LEMMA ReplacedIn ==
    ASSUME NEW S, NEW s \in Seq(S), NEW i \in 1 .. Len(s), NEW e \in S
    PROVE  /\ [s EXCEPT ![i] = e] \in Seq(S)
           /\ Len([s EXCEPT ![i] = e]) = Len(s)
           /\ [s EXCEPT ![i] = e][i] = e
           /\ \A k \in 1 .. Len(s) : k # i => [s EXCEPT ![i] = e][k] = s[k]
  OBVIOUS

\* A line added to a block, and a block to those there are.
RowAdded(bs, i, l) == [bs EXCEPT ![i].rows = Append(@, l)]
FieldAdded(bs, i, l) == [bs EXCEPT ![i].fields = Append(@, l)]
BlockAdded(bs, i, l) ==
    Append([bs EXCEPT ![i].groups = Append(@, Len(bs) + 1)],
           NewBlock(l[1], l[2]))

LEMMA RowIsAdded ==
    ASSUME NEW bs \in Seq(BlockSet), NEW i \in 1 .. Len(bs),
           NEW l \in LineSet
    PROVE  /\ RowAdded(bs, i, l) \in Seq(BlockSet)
           /\ Len(RowAdded(bs, i, l)) = Len(bs)
           /\ \A k \in 1 .. Len(bs) : k # i => RowAdded(bs, i, l)[k] = bs[k]
           /\ RowAdded(bs, i, l)[i].rows = Append(bs[i].rows, l)
           /\ bs[i].rows \in Seq(LineSet)
           /\ RowAdded(bs, i, l)[i].kind = bs[i].kind
           /\ RowAdded(bs, i, l)[i].groups = bs[i].groups
<1> DEFINE cs == RowAdded(bs, i, l)
<1>1. bs[i] \in BlockSet OBVIOUS
<1> DEFINE c == [bs[i] EXCEPT !.rows = Append(@, l)]
<1>2. /\ c \in BlockSet /\ c.rows = Append(bs[i].rows, l)
      /\ bs[i].rows \in Seq(LineSet)
      /\ c.kind = bs[i].kind /\ c.groups = bs[i].groups
  <2>1. bs[i].rows \in Seq(LineSet) BY <1>1 DEF BlockSet
  <2>2. Append(bs[i].rows, l) \in Seq(LineSet) BY <2>1
  <2> QED BY <1>1, <2>1, <2>2 DEF BlockSet
<1>3. cs = [bs EXCEPT ![i] = c] BY DEF cs, RowAdded
<1> HIDE DEF c, cs
<1>4. /\ cs \in Seq(BlockSet) /\ Len(cs) = Len(bs) /\ cs[i] = c
      /\ \A k \in 1 .. Len(bs) : k # i => cs[k] = bs[k]
  <2>1. /\ [bs EXCEPT ![i] = c] \in Seq(BlockSet)
        /\ Len([bs EXCEPT ![i] = c]) = Len(bs)
        /\ [bs EXCEPT ![i] = c][i] = c
        /\ \A k \in 1 .. Len(bs) : k # i => [bs EXCEPT ![i] = c][k] = bs[k]
    BY <1>2, ReplacedIn
  <2> QED BY <1>3, <2>1, Zenon
<1> QED BY <1>2, <1>4 DEF cs

LEMMA FieldIsAdded ==
    ASSUME NEW bs \in Seq(BlockSet), NEW i \in 1 .. Len(bs),
           NEW l \in LineSet
    PROVE  /\ FieldAdded(bs, i, l) \in Seq(BlockSet)
           /\ Len(FieldAdded(bs, i, l)) = Len(bs)
           /\ \A k \in 1 .. Len(bs) : k # i => FieldAdded(bs, i, l)[k] = bs[k]
           /\ FieldAdded(bs, i, l)[i].fields = Append(bs[i].fields, l)
           /\ bs[i].fields \in Seq(LineSet)
           /\ FieldAdded(bs, i, l)[i].kind = bs[i].kind
           /\ FieldAdded(bs, i, l)[i].groups = bs[i].groups
<1> DEFINE cs == FieldAdded(bs, i, l)
<1>1. bs[i] \in BlockSet OBVIOUS
<1> DEFINE c == [bs[i] EXCEPT !.fields = Append(@, l)]
<1>2. /\ c \in BlockSet /\ c.fields = Append(bs[i].fields, l)
      /\ bs[i].fields \in Seq(LineSet)
      /\ c.kind = bs[i].kind /\ c.groups = bs[i].groups
  <2>1. bs[i].fields \in Seq(LineSet) BY <1>1 DEF BlockSet
  <2>2. Append(bs[i].fields, l) \in Seq(LineSet) BY <2>1
  <2> QED BY <1>1, <2>1, <2>2 DEF BlockSet
<1>3. cs = [bs EXCEPT ![i] = c] BY DEF cs, FieldAdded
<1> HIDE DEF c, cs
<1>4. /\ cs \in Seq(BlockSet) /\ Len(cs) = Len(bs) /\ cs[i] = c
      /\ \A k \in 1 .. Len(bs) : k # i => cs[k] = bs[k]
  <2>1. /\ [bs EXCEPT ![i] = c] \in Seq(BlockSet)
        /\ Len([bs EXCEPT ![i] = c]) = Len(bs)
        /\ [bs EXCEPT ![i] = c][i] = c
        /\ \A k \in 1 .. Len(bs) : k # i => [bs EXCEPT ![i] = c][k] = bs[k]
    BY <1>2, ReplacedIn
  <2> QED BY <1>3, <2>1, Zenon
<1> QED BY <1>2, <1>4 DEF cs

LEMMA BlockIsAdded ==
    ASSUME NEW bs \in Seq(BlockSet), NEW i \in 1 .. Len(bs),
           NEW l \in LineSet
    PROVE  /\ BlockAdded(bs, i, l) \in Seq(BlockSet)
           /\ Len(BlockAdded(bs, i, l)) = Len(bs) + 1
           /\ \A k \in 1 .. Len(bs) : k # i => BlockAdded(bs, i, l)[k] = bs[k]
           /\ BlockAdded(bs, i, l)[i].groups = Append(bs[i].groups, Len(bs) + 1)
           /\ bs[i].groups \in Seq(Nat)
           /\ Written(BlockAdded(bs, i, l)[i]) = Written(bs[i])
           /\ BlockAdded(bs, i, l)[Len(bs) + 1].fields = <<>>
           /\ BlockAdded(bs, i, l)[Len(bs) + 1].rows = <<>>
           /\ BlockAdded(bs, i, l)[Len(bs) + 1].groups = <<>>
<1> DEFINE cs == BlockAdded(bs, i, l)
<1>1. bs[i] \in BlockSet /\ Len(bs) + 1 \in Nat OBVIOUS
<1> DEFINE c == [bs[i] EXCEPT !.groups = Append(@, Len(bs) + 1)]
           new == NewBlock(l[1], l[2])
           ds == [bs EXCEPT ![i] = c]
<1>2. /\ c \in BlockSet /\ c.groups = Append(bs[i].groups, Len(bs) + 1)
      /\ bs[i].groups \in Seq(Nat)
      /\ c.kind = bs[i].kind /\ c.rows = bs[i].rows
      /\ c.fields = bs[i].fields
  <2>1. bs[i].groups \in Seq(Nat) BY <1>1 DEF BlockSet
  <2>2. Append(bs[i].groups, Len(bs) + 1) \in Seq(Nat) BY <1>1, <2>1
  <2> QED BY <1>1, <2>1, <2>2 DEF BlockSet
<1>3. /\ new \in BlockSet /\ new.fields = <<>> /\ new.rows = <<>>
      /\ new.groups = <<>>
  <2>1. l[1] \in BlockKinds /\ l[2] \in BlockNames  BY DEF BlockKinds, BlockNames
  <2>2. <<>> \in Seq(LineSet) /\ <<>> \in Seq(Nat) OBVIOUS
  <2>3. NewBlock(l[1], l[2]) \in BlockSet  BY <2>1, <2>2 DEF BlockSet, NewBlock
  <2> QED BY <2>3 DEF NewBlock
<1>4. [bs EXCEPT ![i].groups = Append(@, Len(bs) + 1)] = ds OBVIOUS
<1>5. cs = Append(ds, new) BY <1>4 DEF cs, BlockAdded
<1> HIDE DEF c, cs, new
<1>6. /\ ds \in Seq(BlockSet) /\ Len(ds) = Len(bs) /\ ds[i] = c
      /\ \A k \in 1 .. Len(bs) : k # i => ds[k] = bs[k]
  BY <1>2
<1> HIDE DEF ds
<1>7. /\ cs \in Seq(BlockSet) /\ Len(cs) = Len(bs) + 1
      /\ cs[Len(bs) + 1] = new
      /\ \A k \in 1 .. Len(bs) : cs[k] = ds[k]
  <2>1. /\ Append(ds, new) \in Seq(BlockSet)
        /\ Len(Append(ds, new)) = Len(ds) + 1
        /\ Append(ds, new)[Len(ds) + 1] = new
        /\ \A k \in 1 .. Len(ds) : Append(ds, new)[k] = ds[k]
    BY <1>3, <1>6, AppendedTo
  <2> QED BY <1>5, <1>6, <2>1, Zenon
<1>8. cs[i] = c BY <1>6, <1>7
<1>9. Written(c) = Written(bs[i]) BY <1>2 DEF Written
<1> QED BY <1>2, <1>3, <1>6, <1>7, <1>8, <1>9 DEF cs

\* What the next line leaves behind, put together.
LEMMA NextIsRead ==
    ASSUME NEW n \in Nat \ {0}, script' = script, NEW open,
           Braces(n + 1, open), Inside(open)', BlocksHold(n + 1)'
    PROVE  ReadSoFar(n + 1)'
<1>1. Braces(n + 1, open)' BY BracesAreFixed
<1>2. open \in Seq(1 .. n + 1 - 1) BY DEF Braces
<1> QED BY <1>1, <1>2 DEF ReadSoFar

\* Empty lines, and the braces.
LEMMA SkipCommentReads ==
    ASSUME script \in ScriptTexts, NEW n \in 1 .. Len(script.lines) + 1,
           readAt = n, NEW open \in Seq(1 .. n - 1), Braces(n, open),
           Inside(open), BlocksHold(n), SkipComment
    PROVE  \/ readAt' = 0 /\ meaning' = [is |-> "refused"] /\ script' = script
           \/ /\ n <= Len(script.lines) /\ readAt' = n + 1
              /\ script' = script /\ meaning' = meaning
              /\ ReadSoFar(n + 1)'
<1>1. n \in Nat \ {0} /\ n \in 1 .. Len(script.lines) /\ Reading
  <2>1. Reading BY DEF SkipComment, Reads
  <2>2. /\ Len(script.lines) \in Nat
        /\ DOMAIN script.lines = 1 .. Len(script.lines)
    BY ScriptsAssumption
  <2>3. n \in DOMAIN script.lines BY <2>1 DEF Reading
  <2> QED BY <2>1, <2>2, <2>3
<1>2. /\ DeclaredAt(n) \in {0} \cup Declaring(n - 1)
      /\ DeclaredAt(n) \in 0 .. n - 1
      /\ Innermost = BlockNo(DeclaredAt(n))
  BY <1>1, ReaderIsThere
<1>3. /\ readAt' = n + 1 /\ script' = script /\ meaning' = meaning
      /\ blocks' = blocks /\ within' = within /\ pending' = pending
      /\ script.lines[n] = <<>>
  BY DEF SkipComment, Reads, Tokens
<1>4. ~Opens(n) /\ ~Shuts(n) /\ ~Said(n) /\ ~Declares(script.lines[n])
  BY <1>3, LineKinds
<1>5. Braces(n + 1, open) BY <1>1, <1>4, BracesStay
<1>6. Inside(open)' BY <1>3, InsideStays
<1>7. BlocksHold(n + 1)' BY <1>1, <1>2, <1>3, <1>4, ContentsStay
<1> QED BY <1>1, <1>3, <1>5, <1>6, <1>7, NextIsRead

\* The brace of the block declared before it.
LEMMA OpenBraceReads ==
    ASSUME script \in ScriptTexts, NEW n \in 1 .. Len(script.lines) + 1,
           readAt = n, NEW open \in Seq(1 .. n - 1), Braces(n, open),
           Inside(open), BlocksHold(n), OpenBrace
    PROVE  \/ readAt' = 0 /\ meaning' = [is |-> "refused"] /\ script' = script
           \/ /\ n <= Len(script.lines) /\ readAt' = n + 1
              /\ script' = script /\ meaning' = meaning
              /\ ReadSoFar(n + 1)'
<1>1. n \in Nat \ {0} /\ n \in 1 .. Len(script.lines) /\ Reading
  <2>1. Reading BY DEF OpenBrace
  <2>2. /\ Len(script.lines) \in Nat
        /\ DOMAIN script.lines = 1 .. Len(script.lines)
    BY ScriptsAssumption
  <2>3. n \in DOMAIN script.lines BY <2>1 DEF Reading
  <2> QED BY <2>1, <2>2, <2>3
<1>2. /\ DeclaredAt(n) \in {0} \cup Declaring(n - 1)
      /\ DeclaredAt(n) \in 0 .. n - 1
      /\ Innermost = BlockNo(DeclaredAt(n))
  BY <1>1, ReaderIsThere
<1>3. CASE pending = 0  BY <1>3 DEF OpenBrace, Reject
<1>4. ASSUME pending # 0
      PROVE  /\ readAt' = n + 1 /\ script' = script /\ meaning' = meaning
             /\ ReadSoFar(n + 1)'
  <2>1. /\ readAt' = n + 1 /\ script' = script /\ meaning' = meaning
        /\ blocks' = blocks /\ within' = Append(within, pending)
        /\ pending' = 0 /\ script.lines[n] = <<"{">>
    BY <1>4 DEF OpenBrace, Reads, Tokens
  <2>2. Opens(n) /\ ~Said(n) /\ ~Declares(script.lines[n])  BY <2>1, LineKinds
  <2>3. Declaring(n) = Declaring(n - 1) /\ BlockNo(n) = BlockNo(n - 1)
          /\ BlockNo(n) \in Nat
    BY <1>1, <2>2, BlocksAreNumbered
  <2>4. pending = BlockNo(n) /\ Declaring(n) # {}  BY <1>4, <2>3 DEF BlocksHold
  <2>5. Declarer(n) = Max(Declaring(n)) BY <2>2 DEF Declarer
  <2>6. Declarer(n) \in Declaring(n) /\ BlockNo(Declarer(n)) = pending
    BY <1>1, <2>4, <2>5, LastDeclared
  <2>7. Braces(n + 1, Append(open, n)) BY <1>1, <2>2, BracesGrow
  <2>8. Inside(Append(open, n))'  BY <1>1, <2>1, <2>3, <2>4, <2>6, InsideGrows
  <2>9. BlocksHold(n + 1)' BY <1>1, <1>2, <2>1, <2>2, ContentsStay
  <2>10. ReadSoFar(n + 1)' BY <1>1, <2>1, <2>7, <2>8, <2>9, NextIsRead
  <2> QED BY <2>1, <2>10
<1> QED BY <1>1, <1>3, <1>4

\* A brace closes the block the reader is in.
LEMMA CloseBraceReads ==
    ASSUME script \in ScriptTexts, NEW n \in 1 .. Len(script.lines) + 1,
           readAt = n, NEW open \in Seq(1 .. n - 1), Braces(n, open),
           Inside(open), BlocksHold(n), CloseBrace
    PROVE  \/ readAt' = 0 /\ meaning' = [is |-> "refused"] /\ script' = script
           \/ /\ n <= Len(script.lines) /\ readAt' = n + 1
              /\ script' = script /\ meaning' = meaning
              /\ ReadSoFar(n + 1)'
<1>1. n \in Nat \ {0} /\ n \in 1 .. Len(script.lines) /\ Reading
  <2>1. Reading BY DEF CloseBrace
  <2>2. /\ Len(script.lines) \in Nat
        /\ DOMAIN script.lines = 1 .. Len(script.lines)
    BY ScriptsAssumption
  <2>3. n \in DOMAIN script.lines BY <2>1 DEF Reading
  <2> QED BY <2>1, <2>2, <2>3
<1>2. /\ DeclaredAt(n) \in {0} \cup Declaring(n - 1)
      /\ DeclaredAt(n) \in 0 .. n - 1
      /\ Innermost = BlockNo(DeclaredAt(n))
  BY <1>1, ReaderIsThere
<1>3. CASE pending # 0 \/ Len(within) = 1  BY <1>3 DEF CloseBrace, Reject
<1>4. ASSUME ~(pending # 0 \/ Len(within) = 1)
      PROVE  /\ readAt' = n + 1 /\ script' = script /\ meaning' = meaning
             /\ ReadSoFar(n + 1)'
  <2>1. /\ readAt' = n + 1 /\ script' = script /\ meaning' = meaning
        /\ blocks' = blocks /\ within' = Front(within)
        /\ pending' = pending /\ script.lines[n] = <<"}">>
    BY <1>4 DEF CloseBrace, Reads, Tokens
  <2>2. Shuts(n) /\ ~Said(n) /\ ~Declares(script.lines[n])  BY <2>1, LineKinds
  <2>3. Len(open) >= 1
    <3>1. Len(open) \in Nat OBVIOUS
    <3> QED BY <3>1, <1>4 DEF Inside
  <2>4. Braces(n + 1, Front(open)) BY <1>1, <2>2, <2>3, BracesShrink
  <2>5. Inside(Front(open))'
    <3>1. n - 1 \in Nat BY <1>1
    <3> QED BY <3>1, <2>1, <2>3, InsideShrinks
  <2>6. BlocksHold(n + 1)' BY <1>1, <1>2, <2>1, <2>2, ContentsStay
  <2>7. ReadSoFar(n + 1)' BY <1>1, <2>1, <2>4, <2>5, <2>6, NextIsRead
  <2> QED BY <2>1, <2>7
<1> QED BY <1>1, <1>3, <1>4

\* A declaration adds a block to the one the reader is in.
LEMMA DeclareReads ==
    ASSUME script \in ScriptTexts, NEW n \in 1 .. Len(script.lines) + 1,
           readAt = n, NEW open \in Seq(1 .. n - 1), Braces(n, open),
           Inside(open), BlocksHold(n), Declare
    PROVE  \/ readAt' = 0 /\ meaning' = [is |-> "refused"] /\ script' = script
           \/ /\ n <= Len(script.lines) /\ readAt' = n + 1
              /\ script' = script /\ meaning' = meaning
              /\ ReadSoFar(n + 1)'
<1>1. n \in Nat \ {0} /\ n \in 1 .. Len(script.lines) /\ Reading
  <2>1. Reading BY DEF Declare
  <2>2. /\ Len(script.lines) \in Nat
        /\ DOMAIN script.lines = 1 .. Len(script.lines)
    BY ScriptsAssumption
  <2>3. n \in DOMAIN script.lines BY <2>1 DEF Reading
  <2> QED BY <2>1, <2>2, <2>3
<1>2. /\ DeclaredAt(n) \in {0} \cup Declaring(n - 1)
      /\ DeclaredAt(n) \in 0 .. n - 1
      /\ Innermost = BlockNo(DeclaredAt(n))
  BY <1>1, ReaderIsThere
<1> DEFINE l == script.lines[n]
           bad == \/ Len(l) \notin {2, 3} \/ pending # 0
                  \/ (Len(l) = 3 /\ l[3] # "{")
<1>3. CASE bad  BY <1>3 DEF Declare, Reject, Tokens
<1>4. ASSUME ~bad
      PROVE  /\ readAt' = n + 1 /\ script' = script /\ meaning' = meaning
             /\ ReadSoFar(n + 1)'
  <2> DEFINE i == Innermost
             d0 == DeclaredAt(n)
             new == Len(blocks) + 1
  <2>1. /\ readAt' = n + 1 /\ script' = script /\ meaning' = meaning
        /\ blocks' = BlockAdded(blocks, i, l)
        /\ within' = IF Len(l) = 3 THEN Append(within, new) ELSE within
        /\ pending' = IF Len(l) = 3 THEN 0 ELSE new
        /\ Declares(l)
    BY <1>4 DEF Declare, Reads, Tokens, BlockAdded
  <2>2. ~Said(n) /\ ~Shuts(n) /\ (Opens(n) <=> Len(l) = 3)  BY <2>1, LineKinds
  <2>3. /\ Declaring(n) = Declaring(n - 1) \cup {n}
        /\ BlockNo(n) = BlockNo(n - 1) + 1 /\ BlockNo(n) \in Nat
    BY <1>1, <2>1, BlocksAreNumbered
  <2>4. new = BlockNo(n) /\ blocks \in Seq(BlockSet)
          /\ Len(blocks) = BlockNo(n - 1)
    BY <2>3 DEF BlocksHold
  <2>5. Declarer(n) = n /\ Declarer(n) \in Declaring(n)  BY <2>1, <2>3 DEF Declarer
  <2>6. i \in 1 .. Len(blocks) /\ i = BlockNo(d0)
    <3>1. n - 1 \in Nat BY <1>1
    <3> QED BY <3>1, <1>2, <2>4, NumbersAreInRange
  <2>7. l \in LineSet  BY <1>1 DEF LineSet
  <2> HIDE DEF i, d0, l
  <2>8. /\ blocks' \in Seq(BlockSet) /\ Len(blocks') = Len(blocks) + 1
        /\ \A k \in 1 .. Len(blocks) : k # i => blocks'[k] = blocks[k]
        /\ blocks'[i].groups = Append(blocks[i].groups, Len(blocks) + 1)
        /\ blocks[i].groups \in Seq(Nat)
        /\ Written(blocks'[i]) = Written(blocks[i])
        /\ blocks'[Len(blocks) + 1].fields = <<>>
        /\ blocks'[Len(blocks) + 1].rows = <<>>
        /\ blocks'[Len(blocks) + 1].groups = <<>>
    BY <2>1, <2>4, <2>6, <2>7, BlockIsAdded
  <2>9. pending' \in {0, Len(blocks) + 1} BY <2>1
  <2>10. BlocksHold(n + 1)'
    BY <1>1, <1>2, <2>1, <2>2, <2>6, <2>8, <2>9, ContentsDeclared DEF l, d0
  <2>11. CASE Len(l) = 3
    <3>1. Opens(n) /\ within' = Append(within, BlockNo(Declarer(n)))
      BY <2>1, <2>2, <2>4, <2>5, <2>11
    <3>2. Braces(n + 1, Append(open, n)) BY <1>1, <3>1, BracesGrow
    <3>3. Inside(Append(open, n))'  BY <1>1, <2>1, <2>3, <2>5, <3>1, InsideGrows
    <3>4. ReadSoFar(n + 1)' BY <1>1, <2>1, <2>10, <3>2, <3>3, NextIsRead
    <3> QED BY <2>1, <3>4
  <2>12. CASE Len(l) # 3
    <3>1. ~Opens(n) /\ within' = within BY <2>1, <2>2, <2>12
    <3>2. Braces(n + 1, open) BY <1>1, <2>2, <3>1, BracesStay
    <3>3. Inside(open)' BY <2>1, <3>1, InsideStays
    <3>4. ReadSoFar(n + 1)' BY <1>1, <2>1, <2>10, <3>2, <3>3, NextIsRead
    <3> QED BY <2>1, <3>4
  <2> QED BY <2>11, <2>12
<1> HIDE DEF bad, l
<1> QED BY <1>1, <1>3, <1>4

\* Any other line is written to the block the reader is in.
LEMMA ReadFieldReads ==
    ASSUME script \in ScriptTexts, NEW n \in 1 .. Len(script.lines) + 1,
           readAt = n, NEW open \in Seq(1 .. n - 1), Braces(n, open),
           Inside(open), BlocksHold(n), ReadField
    PROVE  \/ readAt' = 0 /\ meaning' = [is |-> "refused"] /\ script' = script
           \/ /\ n <= Len(script.lines) /\ readAt' = n + 1
              /\ script' = script /\ meaning' = meaning
              /\ ReadSoFar(n + 1)'
<1>1. n \in Nat \ {0} /\ n \in 1 .. Len(script.lines) /\ Reading
  <2>1. Reading BY DEF ReadField
  <2>2. /\ Len(script.lines) \in Nat
        /\ DOMAIN script.lines = 1 .. Len(script.lines)
    BY ScriptsAssumption
  <2>3. n \in DOMAIN script.lines BY <2>1 DEF Reading
  <2> QED BY <2>1, <2>2, <2>3
<1>2. /\ DeclaredAt(n) \in {0} \cup Declaring(n - 1)
      /\ DeclaredAt(n) \in 0 .. n - 1
      /\ Innermost = BlockNo(DeclaredAt(n))
  BY <1>1, ReaderIsThere
<1> DEFINE l == script.lines[n]
           i == Innermost
           d0 == DeclaredAt(n)
           bad == \/ pending # 0
                  \/ /\ blocks[i].kind # "List"
                     /\ \/ Len(l) < 2
                        \/ \E k \in DOMAIN blocks[i].fields :
                             blocks[i].fields[k][1] = l[1]
<1>3. CASE bad  BY <1>3 DEF ReadField, Reject, Tokens
<1>4. ASSUME ~bad
      PROVE  /\ readAt' = n + 1 /\ script' = script /\ meaning' = meaning
             /\ ReadSoFar(n + 1)'
  <2>1. /\ readAt' = n + 1 /\ script' = script /\ meaning' = meaning
        /\ within' = within /\ pending' = pending
        /\ l # <<>> /\ l # <<"{">> /\ l # <<"}">> /\ ~Declares(l)
        /\ blocks[i].kind = "List" =>
             blocks' = RowAdded(blocks, i, l)
        /\ blocks[i].kind # "List" =>
             blocks' = FieldAdded(blocks, i, l)
    BY <1>4 DEF ReadField, Reads, Tokens, RowAdded, FieldAdded
  <2>2. Said(n) /\ ~Opens(n) /\ ~Shuts(n)  BY <2>1, LineKinds
  <2>3. blocks \in Seq(BlockSet) /\ Len(blocks) = BlockNo(n - 1)  BY DEF BlocksHold
  <2>4. i \in 1 .. Len(blocks) /\ i = BlockNo(d0)
    <3>1. n - 1 \in Nat BY <1>1
    <3> QED BY <3>1, <1>2, <2>3, NumbersAreInRange
  <2>5. l \in LineSet  BY <1>1 DEF LineSet
  <2> HIDE DEF i, d0, l
  <2>6. /\ blocks' \in Seq(BlockSet) /\ Len(blocks') = Len(blocks)
        /\ \A k \in 1 .. Len(blocks) : k # i => blocks'[k] = blocks[k]
        /\ Written(blocks'[i]) = Append(Written(blocks[i]), l)
        /\ Written(blocks[i]) \in Seq(LineSet)
        /\ blocks'[i].groups = blocks[i].groups
    <3>1. CASE blocks[i].kind = "List"
      <4>1. blocks' = RowAdded(blocks, i, l) BY <2>1, <3>1
      <4>2. /\ RowAdded(blocks, i, l) \in Seq(BlockSet)
            /\ Len(RowAdded(blocks, i, l)) = Len(blocks)
            /\ \A k \in 1 .. Len(blocks) :
                 k # i => RowAdded(blocks, i, l)[k] = blocks[k]
            /\ RowAdded(blocks, i, l)[i].rows = Append(blocks[i].rows, l)
            /\ blocks[i].rows \in Seq(LineSet)
            /\ RowAdded(blocks, i, l)[i].kind = blocks[i].kind
            /\ RowAdded(blocks, i, l)[i].groups = blocks[i].groups
        BY <2>3, <2>4, <2>5, RowIsAdded
      <4>3. blocks'[i].kind = "List" /\ blocks[i].kind = "List"  BY <4>1, <4>2, <3>1
      <4>4. /\ Written(blocks'[i]) = blocks'[i].rows
            /\ Written(blocks[i]) = blocks[i].rows
        BY <4>3 DEF Written
      <4> QED BY <4>1, <4>2, <4>4
    <3>2. CASE blocks[i].kind # "List"
      <4>1. blocks' = FieldAdded(blocks, i, l) BY <2>1, <3>2
      <4>2. /\ FieldAdded(blocks, i, l) \in Seq(BlockSet)
            /\ Len(FieldAdded(blocks, i, l)) = Len(blocks)
            /\ \A k \in 1 .. Len(blocks) :
                 k # i => FieldAdded(blocks, i, l)[k] = blocks[k]
            /\ FieldAdded(blocks, i, l)[i].fields = Append(blocks[i].fields, l)
            /\ blocks[i].fields \in Seq(LineSet)
            /\ FieldAdded(blocks, i, l)[i].kind = blocks[i].kind
            /\ FieldAdded(blocks, i, l)[i].groups = blocks[i].groups
        BY <2>3, <2>4, <2>5, FieldIsAdded
      <4>3. blocks'[i].kind # "List" /\ blocks[i].kind # "List"  BY <4>1, <4>2, <3>2
      <4>4. /\ Written(blocks'[i]) = blocks'[i].fields
            /\ Written(blocks[i]) = blocks[i].fields
        BY <4>3 DEF Written
      <4> QED BY <4>1, <4>2, <4>4
    <3> QED BY <3>1, <3>2
  <2>7. BlocksHold(n + 1)'
    BY <1>1, <1>2, <2>1, <2>2, <2>4, <2>5, <2>6, ContentsSaid DEF l, d0
  <2>8. Braces(n + 1, open) BY <1>1, <2>2, BracesStay
  <2>9. Inside(open)' BY <2>1, InsideStays
  <2>10. ReadSoFar(n + 1)' BY <1>1, <2>1, <2>7, <2>8, <2>9, NextIsRead
  <2> QED BY <2>1, <2>10
<1> QED BY <1>1, <1>3, <1>4
\* What was read stays read.
LEMMA ReadStays ==
    ASSUME NEW n, ReadSoFar(n),
           UNCHANGED <<script, blocks, within, pending>>
    PROVE  ReadSoFar(n)'
<1>1. PICK open \in Seq(1 .. n - 1) : Braces(n, open) /\ Inside(open)  BY DEF ReadSoFar
<1>2. Braces(n, open)' /\ Inside(open)'  BY <1>1, BracesAreFixed, InsideStays
<1>3. BlocksHold(n)'
  <2>1. BlocksHold(n) BY DEF ReadSoFar
  <2>2. /\ BlockSet' = BlockSet
        /\ \A j : (Declaring(j))' = Declaring(j)
        /\ \A j : (BlockNo(j))' = BlockNo(j)
        /\ \A i : (DeclaredAt(i))' = DeclaredAt(i)
    BY TextStays
  <2>3. (\A d \in {0} \cup Declaring(n - 1) :
           \A b : b = blocks[BlockNo(d)] => Holds(n, d, b))'
    BY <2>1, <2>2, HoldsIsFixed DEF BlocksHold
  <2>4. (\A i \in 1 .. n - 1 : DeclaredAt(i) \in 0 .. i - 1)'
    BY <2>1, <2>2 DEF BlocksHold
  <2>5. (/\ blocks \in Seq(BlockSet) /\ Len(blocks) = BlockNo(n - 1)
         /\ pending \in {0, Len(blocks)}
         /\ pending # 0 => Declaring(n - 1) # {})'
    BY <2>1, <2>2 DEF BlocksHold
  <2> QED BY <2>3, <2>4, <2>5 DEF BlocksHold
<1> QED BY <1>1, <1>2, <1>3 DEF ReadSoFar

\* What is made of a script is never unread.
LEMMA MeaningsAreNamed ==
    ASSUME NEW root
    PROVE  /\ ReadMotion(root).is \in {"refused", "motion"}
           /\ ReadRace(root).is \in {"refused", "race"}
           /\ ReadItem(root).is \in {"refused", "item"}
<1>1. ReadMotion(root).is \in {"refused", "motion"} BY DEF ReadMotion
<1>2. ReadRace(root).is \in {"refused", "race"} BY DEF ReadRace
<1>3. ReadItem(root).is \in {"refused", "item"} BY DEF ReadItem
<1> QED BY <1>1, <1>2, <1>3

\* A script is only understood when it was read to its end.
LEMMA EndScriptReads ==
    ASSUME script \in ScriptTexts, NEW n \in 1 .. Len(script.lines) + 1,
           readAt = n, ReadSoFar(n), EndScript
    PROVE  ScriptsInv'
<1>1. n = Len(script.lines) + 1 BY DEF EndScript
<1> DEFINE bad == \/ pending # 0 \/ Len(within) # 1
                  \/ ~One(blocks[1], "ScriptType")
<1>2. ASSUME bad PROVE ScriptsInv'
  <2>1. /\ readAt' = 0 /\ meaning' = [is |-> "refused"] /\ script' = script
    BY <1>2 DEF EndScript, Reject
  <2>2. meaning'.is = "refused" BY <2>1
  <2> QED BY <2>1, <2>2 DEF ScriptsInv
<1>3. ASSUME ~bad PROVE ScriptsInv'
  <2>1. /\ readAt' = 0 /\ UNCHANGED <<script, blocks, within, pending>>
        /\ Len(within) = 1
    BY <1>3 DEF EndScript
  <2>2. meaning'.is # "unread"
    <3> DEFINE type == Value(blocks[1], "ScriptType", "")
               root == blocks[1]
    <3>1. meaning' = CASE type = "MotionData" -> ReadMotion(root)
                       [] type = "RaceDataScript" -> ReadRace(root)
                       [] type = "ItemDataScript" -> ReadItem(root)
                       [] OTHER -> [is |-> "refused"]
      BY <1>3 DEF EndScript
    <3> HIDE DEF type, root
    <3>2. /\ ReadMotion(root).is # "unread" /\ ReadRace(root).is # "unread"
          /\ ReadItem(root).is # "unread"
      BY MeaningsAreNamed
    <3>3. [is |-> "refused"].is # "unread" OBVIOUS
    <3> QED BY <3>1, <3>2, <3>3
  <2>3. ReadSoFar(n)' BY <2>1, ReadStays
  <2>4. \E m \in 1 .. Len(script.lines) + 1 :
          m = Len(script.lines) + 1 /\ (ReadSoFar(m))'
    BY <1>1, <2>3
  <2> QED BY <2>1, <2>2, <2>4 DEF ScriptsInv
<1> QED BY <1>2, <1>3

LEMMA ScriptsInvHolds == ScriptsSpec => []ScriptsInv
<1>1. ScriptsInit => ScriptsInv
  <2> SUFFICES ASSUME ScriptsInit PROVE ScriptsInv
    OBVIOUS
  <2>1. /\ script \in ScriptTexts /\ readAt = 1
        /\ blocks = <<NewBlock("root", <<"">>)>> /\ within = <<1>>
        /\ pending = 0 /\ meaning.is = "unread"
    BY DEF ScriptsInit, ScriptsStart
  <2>2. Len(script.lines) \in Nat BY <2>1, ScriptsAssumption
  <2>3. Declaring(0) = {} /\ BlockNo(0) = 1
    <3>1. Declaring(0) = {} BY DEF Declaring
    <3> QED BY <3>1, FS_EmptySet DEF BlockNo
  <2>4. Braces(1, <<>>)
    <3>1. Around(1) = {} BY DEF Around
    <3>2. Depth(1, 0) = 0
      <4>1. 1 \in Nat /\ 0 \in Nat /\ 0 < 1 OBVIOUS
      <4> QED BY <4>1, DepthOfLine
    <3>3. <<>> \in Seq(1 .. 1 - 1) /\ Len(<<>>) = 0 OBVIOUS
    <3>4. 1 - 1 = 0 OBVIOUS
    <3> QED BY <3>1, <3>2, <3>3, <3>4 DEF Braces
  <2>5. Inside(<<>>)
    <3>1. /\ within \in Seq(Nat) /\ Len(within) = 1 /\ within[1] = 1
          /\ Len(<<>>) = 0
      <4>1. <<1>> \in Seq(Nat) /\ Len(<<1>>) = 1 /\ <<1>>[1] = 1
              /\ Len(<<>>) = 0
        OBVIOUS
      <4>2. within = <<1>> BY <2>1
      <4> QED BY <4>1, <4>2, Zenon
    <3>2. \A s \in 1 .. Len(<<>>) : FALSE BY <3>1
    <3> QED BY <3>1, <3>2 DEF Inside
  <2>6. BlocksHold(1)
    <3> DEFINE root == NewBlock("root", <<"">>)
    <3>1. root \in BlockSet
      <4>1. "root" \in BlockKinds /\ <<"">> \in BlockNames
        BY DEF BlockKinds, BlockNames
      <4>2. <<>> \in Seq(LineSet) /\ <<>> \in Seq(Nat) OBVIOUS
      <4> QED BY <4>1, <4>2 DEF BlockSet, NewBlock
    <3>2. /\ root.fields = <<>> /\ root.rows = <<>> /\ root.groups = <<>>
      BY DEF NewBlock
    <3>3. Holds(0 + 1, 0, root)
      <4>1. 0 \in Nat /\ \A i \in 1 .. 0 : DeclaredAt(i) # 0 OBVIOUS
      <4> HIDE DEF root
      <4> QED BY <3>2, <4>1, HoldsNothing
    <3>4. blocks = <<root>> BY <2>1
    <3> HIDE DEF root
    <3>5. blocks \in Seq(BlockSet) /\ Len(blocks) = 1 /\ blocks[1] = root  BY <3>1, <3>4
    <3>6. 1 - 1 = 0 /\ 0 + 1 = 1 OBVIOUS
    <3>7. \A i \in 1 .. 1 - 1 : DeclaredAt(i) \in 0 .. i - 1 OBVIOUS
    <3>8. \A d \in {0} \cup Declaring(1 - 1) :
            \A b : b = blocks[BlockNo(d)] => Holds(1, d, b)
      BY <2>3, <3>3, <3>5, <3>6
    <3> QED BY <2>1, <2>3, <3>5, <3>6, <3>7, <3>8 DEF BlocksHold
  <2>7. <<>> \in Seq(1 .. 1 - 1) OBVIOUS
  <2>8. ReadSoFar(1) BY <2>4, <2>5, <2>6, <2>7 DEF ReadSoFar
  <2>9. \E n \in 1 .. Len(script.lines) + 1 : readAt = n /\ ReadSoFar(n)
    <3>1. 1 \in 1 .. Len(script.lines) + 1 BY <2>2
    <3> QED BY <2>1, <2>8, <3>1
  <2> QED BY <2>1, <2>9 DEF ScriptsInv
<1>2. ScriptsInv /\ [ScriptsNext]_scriptVars => ScriptsInv'
  <2> SUFFICES ASSUME ScriptsInv, [ScriptsNext]_scriptVars PROVE ScriptsInv'
    OBVIOUS
  <2>1. script \in ScriptTexts /\ Len(script.lines) \in Nat
          /\ DOMAIN script.lines = 1 .. Len(script.lines)
    BY ScriptsAssumption DEF ScriptsInv
  <2>2. ASSUME UNCHANGED scriptVars PROVE ScriptsInv'
    <3>1. /\ UNCHANGED <<script, blocks, within, pending>>
          /\ readAt' = readAt /\ meaning' = meaning
      BY <2>2 DEF scriptVars
    <3>2. \A n : ReadSoFar(n) => (ReadSoFar(n))' BY <3>1, ReadStays
    <3> QED BY <3>1, <3>2 DEF ScriptsInv
  <2>3. ASSUME ScriptsNext, meaning.is # "unread" PROVE FALSE
    <3>1. readAt = 0 BY <2>3 DEF ScriptsInv
    <3>2. ~Reading BY <2>1, <3>1 DEF Reading
    <3>3. readAt # Len(script.lines) + 1 BY <2>1, <3>1
    <3> QED BY <2>3, <3>2, <3>3 DEF ScriptsNext, SkipComment, OpenBrace,
               CloseBrace, Declare, ReadField, EndScript, Reads
  <2>4. ASSUME ScriptsNext, meaning.is = "unread" PROVE ScriptsInv'
    <3>1. PICK n \in 1 .. Len(script.lines) + 1 :
            readAt = n /\ ReadSoFar(n)
      BY <2>4 DEF ScriptsInv
    <3>2. PICK open \in Seq(1 .. n - 1) : Braces(n, open) /\ Inside(open)
      BY <3>1 DEF ReadSoFar
    <3>3. BlocksHold(n) BY <3>1 DEF ReadSoFar
    <3>4. ASSUME \/ SkipComment \/ OpenBrace \/ CloseBrace \/ Declare
                 \/ ReadField
          PROVE  ScriptsInv'
      <4>1. \/ /\ readAt' = 0 /\ meaning' = [is |-> "refused"]
               /\ script' = script
            \/ /\ n <= Len(script.lines) /\ readAt' = n + 1
               /\ script' = script /\ meaning' = meaning
               /\ ReadSoFar(n + 1)'
        <5>1. CASE SkipComment  BY <2>1, <3>1, <3>2, <3>3, <5>1, SkipCommentReads
        <5>2. CASE OpenBrace  BY <2>1, <3>1, <3>2, <3>3, <5>2, OpenBraceReads
        <5>3. CASE CloseBrace  BY <2>1, <3>1, <3>2, <3>3, <5>3, CloseBraceReads
        <5>4. CASE Declare  BY <2>1, <3>1, <3>2, <3>3, <5>4, DeclareReads
        <5>5. CASE ReadField  BY <2>1, <3>1, <3>2, <3>3, <5>5, ReadFieldReads
        <5> QED BY <3>4, <5>1, <5>2, <5>3, <5>4, <5>5
      <4>2. ASSUME readAt' = 0, meaning' = [is |-> "refused"],
                   script' = script
            PROVE  ScriptsInv'
        <5>1. meaning'.is = "refused" BY <4>2
        <5> QED BY <4>2, <5>1, <2>1 DEF ScriptsInv
      <4>3. ASSUME n <= Len(script.lines), readAt' = n + 1,
                   script' = script, meaning' = meaning, ReadSoFar(n + 1)'
            PROVE  ScriptsInv'
        <5>1. n + 1 \in 1 .. Len(script.lines) + 1 BY <4>3, <2>1
        <5>2. (\E m \in 1 .. Len(script.lines) + 1 :
                 readAt = m /\ ReadSoFar(m))'
          BY <4>3, <5>1
        <5> QED BY <2>1, <2>4, <4>3, <5>2 DEF ScriptsInv
      <4> QED BY <4>1, <4>2, <4>3
    <3>5. ASSUME EndScript PROVE ScriptsInv'  BY <2>1, <3>1, <3>5, EndScriptReads
    <3> QED BY <2>4, <3>4, <3>5 DEF ScriptsNext
  <2> QED BY <2>2, <2>3, <2>4
<1> QED BY <1>1, <1>2, PTL DEF ScriptsSpec

\* Scripts: in a script that is understood every line belongs to the block
\* whose braces are around it, every block to the one its declaration stands
\* in, in the order they were written, and every brace is closed
\* (content_formats.py, parse_legacy_script): the stack of open blocks, kept
\* line by line, is the nesting that the text has as a whole.
THEOREM BlocksAreBracesCorrect == ScriptsSpec => []BlocksAreBraces
<1>1. ScriptsInv => BlocksAreBraces
  <2> SUFFICES ASSUME ScriptsInv, meaning.is \notin {"unread", "refused"}
               PROVE  BlocksAreBraces
    BY DEF BlocksAreBraces
  <2> DEFINE size == Len(script.lines)
  <2>1. size \in Nat /\ DOMAIN script.lines = 1 .. size
    BY ScriptsAssumption DEF ScriptsInv
  <2>2. PICK n \in 1 .. size + 1 :
          n = size + 1 /\ ReadSoFar(n) /\ Len(within) = 1
    BY DEF ScriptsInv
  <2> HIDE DEF size
  <2>3. PICK open \in Seq(1 .. n - 1) : Braces(n, open) /\ Inside(open)
    BY <2>2 DEF ReadSoFar
  <2>4. BlocksHold(n) /\ n - 1 = size /\ n \in Nat \ {0}  BY <2>1, <2>2 DEF ReadSoFar
  <2>5. Depth(1, size) = 0
    <3>0. Len(open) \in Nat BY <2>3
    <3>1. Len(open) \in Nat /\ Len(open) + 1 = 1
      <4>1. Len(within) = Len(open) + 1 BY <2>3 DEF Inside
      <4> QED BY <2>2, <3>0, <4>1
    <3> QED BY <2>3, <2>4, <3>1 DEF Braces
  <2>6. \A d \in Nat : BlockOf(d) = blocks[BlockNo(d)]
    <3>1. BlockNo(0) = 1
      <4>1. 1 \in Nat \ {0} OBVIOUS
      <4> QED BY <4>1, BlocksAreNumbered
    <3> QED BY <3>1 DEF BlockOf, BlockNo, Declaring
  <2>7. ASSUME NEW d \in {0} \cup {k \in DOMAIN script.lines :
                                    Declares(script.lines[k])}
        PROVE  LET said == SaidIn(d)
                   inner == DeclaredIn(d)
                   b == BlockOf(d)
               IN /\ Len(Written(b)) = Cardinality(said)
                  /\ \A i \in said :
                       Written(b)[Place(said, i)] = script.lines[i]
                  /\ Len(b.groups) = Cardinality(inner)
                  /\ \A i \in inner :
                       Inner(b)[Place(inner, i)] = BlockOf(i)
    <3> DEFINE b == blocks[BlockNo(d)]
    <3>1. d \in {0} \cup Declaring(size) /\ d \in Nat  BY <2>1 DEF Declaring
    <3>2. BlockOf(d) = b BY <2>6, <3>1
    <3>3. Holds(n, d, b)
      <4>1. d \in {0} \cup Declaring(n - 1) BY <2>4, <3>1
      <4> QED BY <2>4, <4>1 DEF BlocksHold
    <3>4. /\ SaidBy(d, n) = SaidIn(d)
          /\ DeclaredBy(d, n) = DeclaredIn(d)
      BY <2>1, <2>4 DEF SaidBy, SaidIn, DeclaredBy, DeclaredIn
    <3>5. b \in BlockSet
      <4>1. BlockNo(d) \in 1 .. BlockNo(size)  BY <2>1, <3>1, NumbersAreInRange
      <4>2. blocks \in Seq(BlockSet) /\ Len(blocks) = BlockNo(n - 1)
        BY <2>4 DEF BlocksHold
      <4> QED BY <2>4, <4>1, <4>2
    <3>6. b.groups \in Seq(Nat) BY <3>5 DEF BlockSet
    <3> HIDE DEF b
    <3>7. ASSUME NEW i \in DeclaredIn(d)
          PROVE  Inner(b)[Place(DeclaredIn(d), i)] = BlockOf(i)
      <4> DEFINE p == Place(DeclaredIn(d), i)
      <4>1. DeclaredIn(d) \in SUBSET (1 .. n - 1)  BY <2>1, <2>4 DEF DeclaredIn
      <4>2. p \in 1 .. Cardinality(DeclaredIn(d)) BY <2>4, <4>1, PlacesStay
      <4>3. b.groups[p] = BlockNo(i) /\ Len(b.groups) = Cardinality(DeclaredIn(d))
        BY <3>3, <3>4 DEF Holds
      <4> HIDE DEF p
      <4>4. p \in DOMAIN b.groups BY <3>6, <4>2, <4>3
      <4>5. Inner(b)[p] = blocks[BlockNo(i)] BY <4>3, <4>4 DEF Inner
      <4>6. i \in Nat BY <4>1
      <4> QED BY <2>6, <4>5, <4>6 DEF p
    <3> QED BY <3>2, <3>3, <3>4, <3>7 DEF Holds
  <2> QED BY <2>5, <2>7 DEF BlocksAreBraces, size
<1> QED BY <1>1, ScriptsInvHolds, PTL

-----------------------------------------------------------------------------
(* The catalogue of items                                                    *)

SelectedRow == [id : STRING, vnum : Int]
Visited == {"profile"} \cup Range(resolved)
RowsWanted(docs) == UNION {Range(Docs[d].items) : d \in docs}

\* The documents so far are among those that are included, and each but the
\* one being expanded has given its rows and named the next.
Gathered ==
    /\ itemSource \in ItemSources
    /\ resolved \in Seq(DOMAIN Docs) /\ document \in Visited
    /\ \A docs \in SUBSET DOMAIN Docs : IsClosed(docs) => Visited \subseteq docs
    /\ selected \in Seq(SelectedRow)
    /\ itemStage = "expanding" =>
         /\ Range(selected) = RowsWanted(Visited \ {document})
         /\ \A d \in Visited \ {document} :
              Docs[d].include # <<>> => Docs[d].include[1] \in Visited
    /\ itemStage \in {"sorting", "compiling", "validating", "compiled"} =>
         Range(selected) = RowsWanted(Visited) /\ IsClosed(Visited)

\* A compiled item is that of the selected row in its place.
IsCompiled(k) ==
    LET v == selected[k].vnum
    IN /\ RowIsComplete(v) /\ RowIsSupported(OnlyRow(v))
       /\ items[k] = Compiled(selected[k], OnlyRow(v))

Compiling ==
    /\ \E T : items \in Seq(T)
    /\ itemStage \in {"expanding", "sorting"} => items = <<>>
    /\ itemStage = "compiling" => Len(items) < Len(selected)
    /\ itemStage \in {"validating", "compiled"} => Len(items) = Len(selected)
    /\ itemStage \in {"compiling", "validating", "compiled"} =>
         \A k \in DOMAIN items : IsCompiled(k)
    /\ itemStage = "compiled" => ItemCatalogIsSound(items)

ItemStages == {"expanding", "sorting", "compiling", "validating", "compiled",
               "refused"}

ItemsInv == itemStage \in ItemStages /\ Gathered /\ Compiling

LEMMA SourceIsTyped ==
    ASSUME itemSource \in ItemSources
    PROVE  /\ "profile" \in DOMAIN Docs
           /\ \A d \in DOMAIN Docs : Docs[d].items \in Seq(SelectedRow)
           /\ itemSource.proto \in Seq(Range(itemSource.proto))
           /\ \A row \in Range(itemSource.proto) :
                /\ DOMAIN row.limits = {1, 2}
                /\ \A l \in Range(row.limits) : l[2] \in Int
  BY ItemsAssumption DEF Docs, SelectedRow

LEMMA RangeOfAppended ==
    ASSUME NEW S, NEW s \in Seq(S), NEW t \in Seq(S)
    PROVE  s \o t \in Seq(S) /\ Range(s \o t) = Range(s) \cup Range(t)
<1>1. s \o t \in Seq(S) OBVIOUS
<1>2. ASSUME NEW x \in Range(s \o t) PROVE x \in Range(s) \cup Range(t)  BY DEF Range
<1>3. ASSUME NEW x \in Range(s) PROVE x \in Range(s \o t)
  <2>1. PICK i \in DOMAIN s : x = s[i] BY DEF Range
  <2>2. i \in DOMAIN (s \o t) /\ (s \o t)[i] = x BY <2>1
  <2> QED BY <2>2 DEF Range
<1>4. ASSUME NEW x \in Range(t) PROVE x \in Range(s \o t)
  <2>1. PICK i \in DOMAIN t : x = t[i] BY DEF Range
  <2>2. i + Len(s) \in DOMAIN (s \o t) /\ (s \o t)[i + Len(s)] = x BY <2>1
  <2> QED BY <2>2 DEF Range
<1> QED BY <1>1, <1>2, <1>3, <1>4

\* The rows that go before one are fewer than all, and fewer than those that
\* go before one behind it.
RowsBefore(rows, a) == {b \in DOMAIN rows : GoesBefore(rows, b, a)}

LEMMA RowsAreNumbered ==
    ASSUME NEW rows \in Seq(SelectedRow)
    PROVE  /\ DOMAIN rows = 1 .. Len(rows) /\ Len(rows) \in Nat
           /\ IsFiniteSet(DOMAIN rows) /\ Cardinality(DOMAIN rows) = Len(rows)
           /\ \A a \in DOMAIN rows : rows[a] \in SelectedRow
                                       /\ rows[a].vnum \in Int
<1>1. DOMAIN rows = 1 .. Len(rows) /\ Len(rows) \in Nat OBVIOUS
<1>2. /\ IsFiniteSet(1 .. Len(rows))
      /\ Cardinality(1 .. Len(rows)) = Len(rows)
  BY <1>1, FS_Interval
<1>3. \A a \in DOMAIN rows : rows[a] \in SelectedRow OBVIOUS
<1>4. \A r \in SelectedRow : r.vnum \in Int BY DEF SelectedRow
<1> QED BY <1>1, <1>2, <1>3, <1>4

LEMMA PlaceIsWithin ==
    ASSUME NEW rows \in Seq(SelectedRow), NEW a \in DOMAIN rows
    PROVE  /\ IsFiniteSet(RowsBefore(rows, a))
           /\ Cardinality(RowsBefore(rows, a)) \in Nat
           /\ PlaceInOrder(rows, a) = 1 + Cardinality(RowsBefore(rows, a))
           /\ PlaceInOrder(rows, a) \in DOMAIN rows
<1>1. RowsBefore(rows, a) \subseteq DOMAIN rows \ {a}
  BY RowsAreNumbered DEF RowsBefore, GoesBefore
<1>2. /\ IsFiniteSet(DOMAIN rows \ {a})
      /\ Cardinality(DOMAIN rows \ {a}) = Len(rows) - 1
  BY RowsAreNumbered, FS_RemoveElement
<1>3. /\ IsFiniteSet(RowsBefore(rows, a))
      /\ Cardinality(RowsBefore(rows, a)) <= Cardinality(DOMAIN rows \ {a})
  BY ONLY <1>1, <1>2, FS_Subset
<1>4. Cardinality(RowsBefore(rows, a)) \in Nat  BY ONLY <1>3, FS_CardinalityType
<1>5. PlaceInOrder(rows, a) = 1 + Cardinality(RowsBefore(rows, a))
  BY DEF PlaceInOrder, RowsBefore
<1>6. DOMAIN rows = 1 .. Len(rows) /\ Len(rows) \in Nat  BY RowsAreNumbered
<1> QED BY <1>2, <1>3, <1>4, <1>5, <1>6

\* Every row of a list has a place of its own in the order.
LEMMA PlacesAreOwn ==
    ASSUME NEW rows \in Seq(SelectedRow)
    PROVE  \A i \in DOMAIN rows : \E a \in DOMAIN rows :
             /\ PlaceInOrder(rows, a) = i
             /\ \A b \in DOMAIN rows : PlaceInOrder(rows, b) = i => b = a
<1> DEFINE order == [a \in DOMAIN rows |-> PlaceInOrder(rows, a)]
<1>1. ASSUME NEW a \in DOMAIN rows, NEW c \in DOMAIN rows,
             GoesBefore(rows, a, c)
      PROVE  PlaceInOrder(rows, a) # PlaceInOrder(rows, c)
  <2>1. a \notin RowsBefore(rows, a)  BY RowsAreNumbered DEF RowsBefore, GoesBefore
  <2>2. RowsBefore(rows, a) \cup {a} \subseteq RowsBefore(rows, c)
    BY <1>1, RowsAreNumbered DEF RowsBefore, GoesBefore
  <2>3. Cardinality(RowsBefore(rows, a) \cup {a})
          = Cardinality(RowsBefore(rows, a)) + 1
    BY <2>1, PlaceIsWithin, FS_AddElement
  <2>4. Cardinality(RowsBefore(rows, a) \cup {a})
          <= Cardinality(RowsBefore(rows, c))
    BY <2>2, PlaceIsWithin, FS_Subset
  <2>5. /\ Cardinality(RowsBefore(rows, a)) \in Nat
        /\ Cardinality(RowsBefore(rows, c)) \in Nat
        /\ PlaceInOrder(rows, a) = 1 + Cardinality(RowsBefore(rows, a))
        /\ PlaceInOrder(rows, c) = 1 + Cardinality(RowsBefore(rows, c))
    BY PlaceIsWithin
  <2> QED BY <2>3, <2>4, <2>5
<1>2. \A a, c \in DOMAIN rows : a # c =>
        GoesBefore(rows, a, c) \/ GoesBefore(rows, c, a)
  BY RowsAreNumbered DEF GoesBefore
<1>3. \A a \in DOMAIN rows : PlaceInOrder(rows, a) \in DOMAIN rows  BY PlaceIsWithin
<1>4. order \in Injection(DOMAIN rows, DOMAIN rows)
  BY <1>1, <1>2, <1>3 DEF Injection, IsInjective
<1>5. order \in Surjection(DOMAIN rows, DOMAIN rows)
  BY <1>4, RowsAreNumbered, FS_Injection
<1>6. /\ \A a, c \in DOMAIN rows : order[a] = order[c] => a = c
      /\ \A i \in DOMAIN rows : \E a \in DOMAIN rows : order[a] = i
  BY <1>4, <1>5 DEF Injection, IsInjective, Surjection
<1> QED BY <1>6

\* Sorting neither loses nor repeats a row.
LEMMA SortingKeeps ==
    ASSUME NEW rows \in Seq(SelectedRow)
    PROVE  /\ SortByVnum(rows) \in Seq(SelectedRow)
           /\ Len(SortByVnum(rows)) = Len(rows)
           /\ Range(SortByVnum(rows)) = Range(rows)
<1> DEFINE at(i) == CHOOSE a \in DOMAIN rows : PlaceInOrder(rows, a) = i
<1>1. \A i \in DOMAIN rows : at(i) \in DOMAIN rows  BY PlacesAreOwn
<1>2. \A a \in DOMAIN rows : \E i \in DOMAIN rows : at(i) = a
  <2> TAKE a \in DOMAIN rows
  <2>1. PlaceInOrder(rows, a) \in DOMAIN rows BY PlaceIsWithin
  <2>2. at(PlaceInOrder(rows, a)) = a  BY <2>1, PlacesAreOwn
  <2> QED BY <2>1, <2>2
<1> HIDE DEF at
<1>3. SortByVnum(rows) = [i \in DOMAIN rows |-> rows[at(i)]]  BY DEF SortByVnum, at
<1>4. DOMAIN rows = 1 .. Len(rows) /\ Len(rows) \in Nat OBVIOUS
<1>5. SortByVnum(rows) \in [1 .. Len(rows) -> SelectedRow]  BY <1>1, <1>3, <1>4
<1>6. SortByVnum(rows) \in Seq(SelectedRow) /\ Len(SortByVnum(rows)) = Len(rows)
  BY <1>4, <1>5
<1>7. \A i \in DOMAIN rows : SortByVnum(rows)[i] = rows[at(i)]  BY <1>3
<1>8. DOMAIN SortByVnum(rows) = DOMAIN rows BY <1>3
<1>9. Range(SortByVnum(rows)) = Range(rows)  BY <1>1, <1>2, <1>7, <1>8 DEF Range
<1> QED BY <1>6, <1>9

-----------------------------------------------------------------------------
(* What is gathered                                                          *)

LEMMA ItemsBegin == ItemsInit => ItemsInv
<1> SUFFICES ASSUME ItemsInit PROVE ItemsInv
  OBVIOUS
<1> USE DEF ItemsInit, ItemsStart
<1>1. resolved = <<>> /\ Range(resolved) = {} BY DEF Range
<1>2. Visited = {"profile"} /\ document = "profile" BY <1>1 DEF Visited
<1>3. selected = <<>> /\ Range(selected) = {} BY DEF Range
<1>4. RowsWanted(Visited \ {document}) = {} BY <1>2 DEF RowsWanted
<1>5. \A docs \in SUBSET DOMAIN Docs : IsClosed(docs) => Visited \subseteq docs
  BY <1>2 DEF IsClosed
<1>6. Gathered
  <2>1. resolved \in Seq(DOMAIN Docs) /\ selected \in Seq(SelectedRow)  BY <1>1, <1>3
  <2>2. Visited \ {document} = {} BY <1>2
  <2>3. document \in Visited /\ Range(selected) = RowsWanted(Visited \ {document})
    BY <1>2, <1>3, <1>4
  <2> QED BY <2>1, <2>2, <2>3, <1>5 DEF Gathered
<1>7. items = <<>> /\ items \in Seq({}) OBVIOUS
<1>8. Compiling BY <1>7 DEF Compiling
<1> QED BY <1>6, <1>8 DEF ItemsInv, ItemStages

LEMMA DocumentsAreThere ==
    ASSUME Gathered
    PROVE  Visited \subseteq DOMAIN Docs /\ itemSource \in ItemSources
  BY SourceIsTyped DEF Gathered, Visited, Range

LEMMA ExpandDocumentKeeps ==
    ASSUME ItemsInv, ExpandDocument PROVE ItemsInv'
<1> USE DEF ItemsInv
<1>1. CASE RefuseItems
  <2>1. UNCHANGED <<itemSource, document, resolved, selected, items>>
          /\ itemStage' = "refused"
    BY <1>1 DEF RefuseItems, Turns
  <2>2. Gathered'  BY <2>1 DEF Gathered, Visited, Docs, RowsWanted, IsClosed
  <2>3. Compiling' BY <2>1 DEF Compiling
  <2> QED BY <2>1, <2>2, <2>3 DEF ItemStages
<1>2. ASSUME ~RefuseItems PROVE ItemsInv'
  <2>1. /\ itemStage = "expanding" /\ selected' = selected \o Doc.items
        /\ items' = items /\ itemSource' = itemSource
    BY <1>2 DEF ExpandDocument, Turns
  <2>2. /\ document \in DOMAIN Docs /\ selected \in Seq(SelectedRow)
        /\ Doc.items \in Seq(SelectedRow)
    BY DocumentsAreThere, SourceIsTyped DEF Gathered, Doc
  <2>3. /\ selected' \in Seq(SelectedRow)
        /\ Range(selected') = Range(selected) \cup Range(Doc.items)
    BY <2>1, <2>2, RangeOfAppended
  <2>4. Range(selected') = RowsWanted(Visited)
    <3>1. Range(selected) = RowsWanted(Visited \ {document})  BY <2>1 DEF Gathered
    <3>2. document \in Visited BY DEF Gathered
    <3> QED BY <2>3, <3>1, <3>2 DEF RowsWanted, Doc
  <2>5. \A d \in Visited \ {document} :
          Docs[d].include # <<>> => Docs[d].include[1] \in Visited
    BY <2>1 DEF Gathered
  <2>6. items = <<>> BY <2>1 DEF Compiling
  <2>7. ASSUME Doc.include = <<>> PROVE ItemsInv'
    <3>1. UNCHANGED <<itemSource, document, resolved>> /\ itemStage' = "sorting"
      BY <1>2, <2>7 DEF ExpandDocument, Turns
    <3>2. Visited' = Visited /\ Docs' = Docs BY <3>1 DEF Visited, Docs
    <3>3. IsClosed(Visited)  BY <2>5, <2>7 DEF IsClosed, Visited, Doc
    <3>4. IsClosed(Visited)' BY <3>2, <3>3 DEF IsClosed
    <3>5. RowsWanted(Visited)' = RowsWanted(Visited)  BY <3>2 DEF RowsWanted
    <3>6. (\A docs \in SUBSET DOMAIN Docs :
             IsClosed(docs) => Visited \subseteq docs)'
      BY <3>2 DEF Gathered, IsClosed
    <3>7. Gathered'  BY <2>3, <2>4, <3>1, <3>2, <3>4, <3>5, <3>6 DEF Gathered
    <3>8. Compiling' BY <2>1, <2>6, <3>1 DEF Compiling
    <3> QED BY <3>1, <3>7, <3>8 DEF ItemStages
  <2>8. ASSUME Doc.include # <<>> PROVE ItemsInv'
    <3> DEFINE next == Doc.include[1]
    <3>1. /\ document' = next /\ resolved' = Append(resolved, next)
          /\ UNCHANGED <<itemSource, itemStage>> /\ IncludeIsSound(next)
      BY <1>2, <2>8 DEF ExpandDocument
    <3>2. next \in DOMAIN Docs /\ next \notin Visited
      BY <3>1 DEF IncludeIsSound, Visited
    <3>3. resolved \in Seq(DOMAIN Docs) BY DEF Gathered
    <3>4. /\ resolved' \in Seq(DOMAIN Docs)
          /\ Range(resolved') = Range(resolved) \cup {next}
      <4> HIDE DEF next
      <4>1. <<next>> \in Seq(DOMAIN Docs) /\ Range(<<next>>) = {next}  BY <3>2 DEF Range
      <4>2. Append(resolved, next) = resolved \o <<next>>  BY <3>2, <3>3
      <4>3. /\ resolved \o <<next>> \in Seq(DOMAIN Docs)
            /\ Range(resolved \o <<next>>) = Range(resolved) \cup Range(<<next>>)
        BY <3>3, <4>1, RangeOfAppended
      <4> QED BY <3>1, <4>1, <4>2, <4>3
    <3>5. Visited' = Visited \cup {next} /\ Docs' = Docs
      BY <3>1, <3>4 DEF Visited, Docs
    <3>6. Visited' \ {document'} = Visited BY <3>1, <3>2, <3>5
    <3>7. RowsWanted(Visited \ {document})' = RowsWanted(Visited)
      BY <3>5, <3>6 DEF RowsWanted
    <3>8. \A d \in Visited : Docs[d].include # <<>> =>
            Docs[d].include[1] \in Visited'
      BY <2>5, <3>5 DEF Doc
    <3>9. ASSUME NEW docs \in SUBSET DOMAIN Docs, IsClosed(docs)
          PROVE  Visited' \subseteq docs
      <4>1. Visited \subseteq docs BY <3>9 DEF Gathered
      <4>2. document \in docs BY <4>1 DEF Gathered
      <4>3. next \in docs BY <2>8, <3>9, <4>2 DEF IsClosed, Doc
      <4> QED BY <3>5, <4>1, <4>3
    <3>10. (\A docs \in SUBSET DOMAIN Docs :
              IsClosed(docs) => Visited \subseteq docs)'
      BY <3>5, <3>9 DEF IsClosed
    <3>11. (\A d \in Visited \ {document} : Docs[d].include # <<>> =>
              Docs[d].include[1] \in Visited)'
      BY <3>5, <3>6, <3>8
    <3>12. itemStage' = "expanding" /\ document' \in Visited'  BY <2>1, <3>1, <3>5
    <3>13. Gathered'  BY <2>1, <2>3, <2>4, <3>1, <3>4, <3>5, <3>7, <3>10, <3>11, <3>12,
         DocumentsAreThere
      DEF Gathered
    <3>14. Compiling' BY <2>1, <2>6, <3>1 DEF Compiling
    <3> QED BY <3>12, <3>13, <3>14 DEF ItemStages
  <2> QED BY <2>7, <2>8
<1> QED BY <1>1, <1>2

\* What was gathered stays when the rows stay and the stage is a later one.
LEMMA GatheredStays ==
    ASSUME Gathered, itemStage \in {"sorting", "compiling", "validating",
                                    "compiled"},
           UNCHANGED <<itemSource, document, resolved>>,
           itemStage' \in ItemStages \ {"expanding"},
           selected' \in Seq(SelectedRow), Range(selected') = Range(selected)
    PROVE  Gathered'
<1>1. Visited' = Visited /\ Docs' = Docs BY DEF Visited, Docs
<1>2. /\ RowsWanted(Visited)' = RowsWanted(Visited)
      /\ IsClosed(Visited)' <=> IsClosed(Visited)
  BY <1>1 DEF RowsWanted, IsClosed
<1>3. (\A docs \in SUBSET DOMAIN Docs :
         IsClosed(docs) => Visited \subseteq docs)'
  BY <1>1 DEF Gathered, IsClosed
<1>4. Range(selected) = RowsWanted(Visited) /\ IsClosed(Visited)  BY DEF Gathered
<1> QED BY <1>1, <1>2, <1>3, <1>4 DEF Gathered, ItemStages

LEMMA RefusedHolds ==
    ASSUME ItemsInv, itemStage # "expanding", itemStage # "refused", RefuseItems
    PROVE  ItemsInv'
<1>1. /\ UNCHANGED <<itemSource, document, resolved, selected, items>>
      /\ itemStage' = "refused"
  BY DEF RefuseItems, Turns
<1>2. selected \in Seq(SelectedRow) BY DEF ItemsInv, Gathered
<1>3. Gathered'  BY <1>1, <1>2, GatheredStays DEF ItemsInv, ItemStages
<1>4. Compiling' BY <1>1 DEF ItemsInv, Compiling
<1> QED BY <1>1, <1>3, <1>4 DEF ItemsInv, ItemStages

LEMMA SortSelectionKeeps ==
    ASSUME ItemsInv, SortSelection PROVE ItemsInv'
<1>1. itemStage = "sorting" BY DEF SortSelection
<1>2. CASE RefuseItems BY <1>1, <1>2, RefusedHolds
<1>3. ASSUME ~RefuseItems PROVE ItemsInv'
  <2>1. /\ UNCHANGED <<itemSource, document, resolved, items>>
        /\ selected' = SortByVnum(selected)
        /\ itemStage' = (IF selected = <<>> THEN "refused" ELSE "compiling")
    BY <1>3 DEF SortSelection, Turns
  <2>2. selected \in Seq(SelectedRow) BY DEF ItemsInv, Gathered
  <2>3. /\ selected' \in Seq(SelectedRow) /\ Len(selected') = Len(selected)
        /\ Range(selected') = Range(selected)
    BY <2>1, <2>2, SortingKeeps
  <2>4. itemStage' \in {"refused", "compiling"} BY <2>1
  <2>5. Gathered'  BY <1>1, <2>1, <2>3, <2>4, GatheredStays DEF ItemsInv, ItemStages
  <2>6. items' = <<>> BY <1>1, <2>1 DEF ItemsInv, Compiling
  <2>7. itemStage' = "compiling" => Len(items') < Len(selected')
    BY <2>1, <2>2, <2>3, <2>6
  <2>8. items' \in Seq({}) /\ DOMAIN items' = {} BY <2>6
  <2>9. Compiling' BY <2>4, <2>6, <2>7, <2>8 DEF Compiling
  <2> QED BY <2>4, <2>5, <2>9 DEF ItemsInv, ItemStages
<1> QED BY <1>2, <1>3

LEMMA CompileItemKeeps ==
    ASSUME ItemsInv, CompileItem PROVE ItemsInv'
<1> DEFINE s == selected[Len(items) + 1]
<1>1. itemStage = "compiling" BY DEF CompileItem
<1>2. CASE RefuseItems BY <1>1, <1>2, RefusedHolds
<1>3. ASSUME ~RefuseItems PROVE ItemsInv'
  <2>1. /\ UNCHANGED <<itemSource, document, resolved, selected>>
        /\ items' = Append(items, Compiled(s, OnlyRow(s.vnum)))
        /\ itemStage' = (IF Len(items') = Len(selected) THEN "validating"
                         ELSE "compiling")
        /\ RowIsComplete(s.vnum) /\ RowIsSupported(OnlyRow(s.vnum))
    BY <1>3 DEF CompileItem, Turns
  <2> DEFINE new == Compiled(s, OnlyRow(s.vnum))
  <2>2. PICK T : items \in Seq(T) BY DEF ItemsInv, Compiling
  <2>3. selected \in Seq(SelectedRow) BY DEF ItemsInv, Gathered
  <2>4. /\ items' \in Seq(T \cup {new}) /\ Len(items') = Len(items) + 1
        /\ items'[Len(items) + 1] = new
        /\ \A k \in DOMAIN items : items'[k] = items[k]
        /\ DOMAIN items' = DOMAIN items \cup {Len(items) + 1}
    <3> HIDE DEF new, s
    <3>1. items' = Append(items, new) BY <2>1 DEF new
    <3>2. items \in Seq(T \cup {new}) BY <2>2
    <3> QED BY <3>1, <3>2
  <2>5. Len(items) < Len(selected) /\ Len(items) \in Nat /\ Len(selected) \in Nat
    BY <1>1, <2>2, <2>3 DEF ItemsInv, Compiling
  <2>6. itemStage' \in {"validating", "compiling"} BY <2>1
  <2>7. Gathered'  BY <1>1, <2>1, <2>3, <2>6, GatheredStays DEF ItemsInv, ItemStages
  <2>8. ASSUME NEW k \in DOMAIN items' PROVE IsCompiled(k)'
    <3>1. \A v : /\ RowIsComplete(v)' <=> RowIsComplete(v)
                 /\ OnlyRow(v)' = OnlyRow(v)
      BY <2>1 DEF RowIsComplete, OnlyRow, RowsOf, NamesOf
    <3>2. CASE k = Len(items) + 1  BY <2>1, <2>4, <3>1, <3>2 DEF IsCompiled
    <3>3. CASE k \in DOMAIN items
      <4>1. IsCompiled(k) BY <1>1, <3>3 DEF ItemsInv, Compiling
      <4> QED BY <2>1, <2>4, <3>1, <3>3, <4>1 DEF IsCompiled
    <3> QED BY <2>4, <3>2, <3>3
  <2>9. itemStage' = "validating" => Len(items') = Len(selected')  BY <2>1
  <2>10. itemStage' = "compiling" => Len(items') < Len(selected')  BY <2>1, <2>4, <2>5
  <2>11. Compiling'
    <3> HIDE DEF new, s
    <3> QED BY <2>4, <2>6, <2>8, <2>9, <2>10 DEF Compiling
  <2> QED BY <2>6, <2>7, <2>11 DEF ItemsInv, ItemStages
<1> QED BY <1>2, <1>3

LEMMA ItemsStay ==
    ASSUME UNCHANGED <<itemSource, selected, items>>
    PROVE  \A k : IsCompiled(k)' <=> IsCompiled(k)
<1>1. \A v : /\ RowIsComplete(v)' <=> RowIsComplete(v)
             /\ OnlyRow(v)' = OnlyRow(v)
  BY DEF RowIsComplete, OnlyRow, RowsOf, NamesOf
<1> QED BY <1>1 DEF IsCompiled

LEMMA ValidateCatalogKeeps ==
    ASSUME ItemsInv, ValidateCatalog PROVE ItemsInv'
<1>1. /\ itemStage = "validating"
      /\ UNCHANGED <<itemSource, document, resolved, selected, items>>
      /\ itemStage' = (IF ItemCatalogIsSound(items) THEN "compiled"
                       ELSE "refused")
  BY DEF ValidateCatalog, Turns
<1>2. itemStage' \in {"compiled", "refused"} BY <1>1
<1>3. selected \in Seq(SelectedRow) BY DEF ItemsInv, Gathered
<1>4. Gathered'  BY <1>1, <1>2, <1>3, GatheredStays DEF ItemsInv, ItemStages
<1>5. \A k \in DOMAIN items' : IsCompiled(k)'
  BY <1>1, ItemsStay DEF ItemsInv, Compiling
<1>6. itemStage' = "compiled" => ItemCatalogIsSound(items)'
  BY <1>1 DEF ItemCatalogIsSound
<1>7. Compiling'  BY <1>1, <1>2, <1>5, <1>6 DEF ItemsInv, Compiling
<1> QED BY <1>2, <1>4, <1>7 DEF ItemsInv, ItemStages

LEMMA ItemsStutter ==
    ASSUME ItemsInv, UNCHANGED itemVars PROVE ItemsInv'
<1> USE DEF itemVars
<1>1. Gathered'  BY DEF ItemsInv, Gathered, Visited, Docs, RowsWanted, IsClosed
<1>2. \A k : IsCompiled(k)' <=> IsCompiled(k) BY ItemsStay
<1>3. ItemCatalogIsSound(items)' <=> ItemCatalogIsSound(items)
  BY DEF ItemCatalogIsSound
<1>4. Compiling' BY <1>2, <1>3 DEF ItemsInv, Compiling
<1> QED BY <1>1, <1>4 DEF ItemsInv

LEMMA ItemsStep == ItemsInv /\ [ItemsNext]_itemVars => ItemsInv'
  BY ExpandDocumentKeeps, SortSelectionKeeps, CompileItemKeeps,
     ValidateCatalogKeeps, ItemsStutter
  DEF ItemsNext

-----------------------------------------------------------------------------
(* What was compiled                                                         *)

\* Four sums of the values of bits.
LEMMA BitsAdd ==
    ASSUME NEW S \in SUBSET (1 .. 4)
    PROVE  SumFunctionOnSet(Shifted, S)
             = (IF 1 \in S THEN 1 ELSE 0) + (IF 2 \in S THEN 2 ELSE 0)
                 + (IF 3 \in S THEN 4 ELSE 0) + (IF 4 \in S THEN 8 ELSE 0)
<1>1. /\ Shifted[1] = 1 /\ Shifted[2] = 2 /\ Shifted[3] = 4
      /\ Shifted[4] = 8
  BY DEF Shifted
<1>2. \A T \in SUBSET (1 .. 4) : IsFiniteSet(T)
  <2>1. \A n \in Nat : IsFiniteSet(1 .. n) BY FS_Interval
  <2>2. IsFiniteSet(1 .. 4) BY <2>1
  <2> QED BY <2>2, FS_Subset
<1> DEFINE Sum(T) == SumFunctionOnSet(Shifted, T)
           Term(x, T) == IF x \in T THEN Shifted[x] ELSE 0
<1>3. ASSUME NEW T \in SUBSET (1 .. 4)
      PROVE  /\ Sum(T) \in Int
             /\ \A x \in 1 .. 4 : Sum(T) = Term(x, T) + Sum(T \ {x})
  <2>1. \A y \in T : Shifted[y] \in Int BY <1>1
  <2>2. /\ Sum(T) \in Int
        /\ \A x \in T : Sum(T) = Shifted[x] + Sum(T \ {x})
    BY <1>2, <2>1, SumSplits
  <2>3. ASSUME NEW x \in (1 .. 4) \ T PROVE Sum(T) = 0 + Sum(T \ {x})
    <3>1. T \ {x} = T OBVIOUS
    <3> HIDE DEF Sum
    <3> QED BY <2>2, <3>1
  <2> HIDE DEF Sum
  <2> QED BY <2>2, <2>3
<1>4. Sum({}) = 0 BY SumOfNone
<1> DEFINE S1 == S \ {1}
           S2 == S1 \ {2}
           S3 == S2 \ {3}
           S4 == S3 \ {4}
<1>5. /\ S1 \in SUBSET (1 .. 4) /\ S2 \in SUBSET (1 .. 4)
      /\ S3 \in SUBSET (1 .. 4) /\ S4 = {}
  OBVIOUS
<1>6. Term(2, S1) = Term(2, S) /\ Term(3, S2) = Term(3, S)
        /\ Term(4, S3) = Term(4, S)
  OBVIOUS
<1> HIDE DEF Sum, Term
<1>7. /\ Sum(S) = Term(1, S) + Sum(S1) /\ Sum(S1) = Term(2, S1) + Sum(S2)
      /\ Sum(S2) = Term(3, S2) + Sum(S3) /\ Sum(S3) = Term(4, S3) + Sum(S4)
  <2>1. 1 \in 1 .. 4 /\ 2 \in 1 .. 4 /\ 3 \in 1 .. 4 /\ 4 \in 1 .. 4
    OBVIOUS
  <2> QED BY <1>3, <1>5, <2>1
<1> HIDE DEF S1, S2, S3, S4
<1>11. Sum(S) = Term(1, S) + (Term(2, S) + (Term(3, S) + (Term(4, S) + 0)))
  BY <1>4, <1>5, <1>6, <1>7
<1>12. /\ Term(1, S) = (IF 1 \in S THEN 1 ELSE 0)
       /\ Term(2, S) = (IF 2 \in S THEN 2 ELSE 0)
       /\ Term(3, S) = (IF 3 \in S THEN 4 ELSE 0)
       /\ Term(4, S) = (IF 4 \in S THEN 8 ELSE 0)
  BY <1>1 DEF Term
<1>13. Sum(S) = (IF 1 \in S THEN 1 ELSE 0) + (IF 2 \in S THEN 2 ELSE 0)
                  + (IF 3 \in S THEN 4 ELSE 0) + (IF 4 \in S THEN 8 ELSE 0)
  BY <1>11, <1>12
<1> QED BY <1>13 DEF Sum

\* The mask of the classes, and that of the sexes, has the bits of those that
\* no flag excludes.
LEMMA MasksSayWho ==
    ASSUME NEW flags
    PROVE  /\ \A c \in Classes : Bit(MaskWithout(flags, AntiClass), c)
                                   <=> AntiClass[c + 1] \notin flags
           /\ \A s \in Sexes : Bit(MaskWithout(flags, AntiSex), s)
                                 <=> AntiSex[s + 1] \notin flags
<1>1. /\ Shifted[1] = 1 /\ Shifted[2] = 2 /\ Shifted[3] = 4
      /\ Shifted[4] = 8
  BY DEF Shifted
<1>2. DOMAIN AntiClass = 1 .. 4 /\ Len(AntiClass) = 4  BY DEF AntiClass
<1>3. DOMAIN AntiSex = 1 .. 2 /\ Len(AntiSex) = 2  BY DEF AntiSex
<1>4. AllBits(AntiClass) = 15 /\ AllBits(AntiSex) = 3  BY <1>1, <1>2, <1>3 DEF AllBits
<1> DEFINE On(i, T) == IF i \in T THEN 1 ELSE 0
           Mask(all, T) == all - (On(1, T) + 2 * On(2, T) + 4 * On(3, T)
                                    + 8 * On(4, T))
           ofClass == {j \in DOMAIN AntiClass : AntiClass[j] \in flags}
           ofSex == {j \in DOMAIN AntiSex : AntiSex[j] \in flags}
<1>5. ASSUME NEW T \in SUBSET (1 .. 4)
      PROVE  SumFunctionOnSet(Shifted, T)
               = On(1, T) + 2 * On(2, T) + 4 * On(3, T) + 8 * On(4, T)
  BY BitsAdd
<1>6. ofClass \in SUBSET (1 .. 4) /\ ofSex \in SUBSET (1 .. 2)  BY <1>2, <1>3
<1>7. /\ MaskWithout(flags, AntiClass) = Mask(15, ofClass)
      /\ MaskWithout(flags, AntiSex) = Mask(3, ofSex)
  BY <1>4, <1>5, <1>6 DEF MaskWithout
<1>8. /\ \A i \in 1 .. 4 : i \in ofClass <=> AntiClass[i] \in flags
      /\ \A i \in 1 .. 2 : i \in ofSex <=> AntiSex[i] \in flags
  BY <1>2, <1>3
<1>9. \A T : \A i \in 1 .. 4 : On(i, T) \in {0, 1} /\ (On(i, T) = 1 <=> i \in T)
  OBVIOUS
<1> HIDE DEF On, ofClass, ofSex
<1>10. ASSUME NEW T
       PROVE  /\ (Mask(15, T) \div 1) % 2 = 1 <=> 1 \notin T
              /\ (Mask(15, T) \div 2) % 2 = 1 <=> 2 \notin T
              /\ (Mask(15, T) \div 4) % 2 = 1 <=> 3 \notin T
              /\ (Mask(15, T) \div 8) % 2 = 1 <=> 4 \notin T
  BY <1>9
<1>11. ASSUME NEW T \in SUBSET (1 .. 2)
       PROVE  /\ (Mask(3, T) \div 1) % 2 = 1 <=> 1 \notin T
              /\ (Mask(3, T) \div 2) % 2 = 1 <=> 2 \notin T
  BY <1>9
<1> HIDE DEF Mask
<1>12. \A c \in Classes : Bit(Mask(15, ofClass), c) <=> c + 1 \notin ofClass
  BY <1>1, <1>10 DEF Bit, Classes
<1>13. \A s \in Sexes : Bit(Mask(3, ofSex), s) <=> s + 1 \notin ofSex
  BY <1>1, <1>6, <1>11 DEF Bit, Sexes
<1>14. /\ \A c \in Classes : c + 1 \in 1 .. 4
       /\ \A s \in Sexes : s + 1 \in 1 .. 2
  BY DEF Classes, Sexes
<1> QED BY <1>7, <1>8, <1>12, <1>13, <1>14

\* A vnum that the table has once has one row.
LEMMA RowIsTheOnly ==
    ASSUME itemSource \in ItemSources, NEW v, RowIsComplete(v)
    PROVE  /\ OnlyRow(v) \in Range(itemSource.proto)
           /\ OnlyRow(v) = CHOOSE r \in Range(itemSource.proto) : r.vnum = v
<1>1. itemSource.proto \in Seq(Range(itemSource.proto))  BY SourceIsTyped
<1>2. DOMAIN itemSource.proto = 1 .. Len(itemSource.proto)
        /\ Len(itemSource.proto) \in Nat
  BY <1>1
<1>3. IsFiniteSet(RowsOf(v))
  <2>1. IsFiniteSet(1 .. Len(itemSource.proto)) BY <1>2, FS_Interval
  <2> QED BY <1>2, <2>1, FS_Subset DEF RowsOf
<1>4. Cardinality(RowsOf(v)) = 1 BY DEF RowIsComplete
<1>5. PICK k : RowsOf(v) = {k}  BY <1>3, <1>4, FS_Singleton
<1>6. OnlyRow(v) = itemSource.proto[k] BY <1>5 DEF OnlyRow
<1>7. /\ k \in DOMAIN itemSource.proto /\ itemSource.proto[k].vnum = v
      /\ \A l \in DOMAIN itemSource.proto : itemSource.proto[l].vnum = v => l = k
  BY <1>5 DEF RowsOf
<1>8. /\ OnlyRow(v) \in Range(itemSource.proto) /\ OnlyRow(v).vnum = v
      /\ \A r \in Range(itemSource.proto) : r.vnum = v => r = OnlyRow(v)
  BY <1>6, <1>7 DEF Range
<1> QED BY <1>8

\* No limit of a supported row is above the level that was made of them.
LEMMA LevelKeepsLimits ==
    ASSUME itemSource \in ItemSources, NEW row \in Range(itemSource.proto),
           RowIsSupported(row)
    PROVE  \A l \in Range(row.limits) : LevelOf(row) >= l[2]
<1>1. /\ Range(row.limits) = {row.limits[1], row.limits[2]}
      /\ \A l \in Range(row.limits) : l[2] \in Int
  BY SourceIsTyped DEF Range
<1> DEFINE levels == {l[2] : l \in {k \in Range(row.limits) : k[1] = "LEVEL"}}
<1>3. \A T : T \subseteq {0, row.limits[1][2], row.limits[2][2]} /\ 0 \in T =>
        \E m \in T : \A n \in T : m >= n
  BY <1>1
<1>4. levels \subseteq {row.limits[1][2], row.limits[2][2]}  BY <1>1
<1>5. \E m \in {0} \cup levels : \A n \in {0} \cup levels : m >= n  BY <1>3, <1>4
<1>6. LevelOf(row) \in {0} \cup levels
        /\ \A n \in {0} \cup levels : LevelOf(row) >= n
  BY <1>5 DEF LevelOf, Max
<1>7. \A l \in Range(row.limits) : l[1] = "LEVEL" \/ l[2] = 0
  BY DEF RowIsSupported, LimitsAreSound
<1>8. \A l \in Range(row.limits) : l[2] \in {0} \cup levels  BY <1>7
<1> QED BY <1>6, <1>8

LEMMA SelectedIsShown == ItemsInv => CatalogIsSelected
<1> SUFFICES ASSUME ItemsInv, itemStage = "compiled" PROVE CatalogIsSelected
  BY DEF CatalogIsSelected
<1> DEFINE wanted == UNION {Range(Docs[d].items) : d \in Included}
<1>1. itemSource \in ItemSources BY DEF ItemsInv, Gathered
<1>2. PICK T : items \in Seq(T) BY DEF ItemsInv, Compiling
<1>3. selected \in Seq(SelectedRow) BY DEF ItemsInv, Gathered
<1>4. /\ Len(items) = Len(selected) /\ Len(items) \in Nat
      /\ DOMAIN items = 1 .. Len(items) /\ DOMAIN selected = 1 .. Len(items)
  BY <1>2, <1>3 DEF ItemsInv, Compiling
<1>5. Included = Visited
  <2>1. Visited \in SUBSET DOMAIN Docs /\ IsClosed(Visited)
    BY DocumentsAreThere DEF ItemsInv, Gathered
  <2>2. \A docs \in SUBSET DOMAIN Docs : IsClosed(docs) => Visited \subseteq docs
    BY DEF ItemsInv, Gathered
  <2> QED BY <2>1, <2>2 DEF Included
<1>6. Range(selected) = wanted  BY <1>5 DEF ItemsInv, Gathered, RowsWanted
<1>7. \A k \in DOMAIN items :
        /\ items[k].id = selected[k].id /\ items[k].vnum = selected[k].vnum
        /\ selected[k] = [id |-> items[k].id, vnum |-> items[k].vnum]
  <2>1. \A k \in DOMAIN items : selected[k] \in SelectedRow BY <1>3, <1>4
  <2>2. \A r \in SelectedRow : r = [id |-> r.id, vnum |-> r.vnum]  BY DEF SelectedRow
  <2>3. \A k \in DOMAIN items :
          items[k].id = selected[k].id /\ items[k].vnum = selected[k].vnum
    BY DEF ItemsInv, Compiling, IsCompiled, Compiled
  <2> QED BY <2>1, <2>2, <2>3
<1>8. \A k, l \in DOMAIN items : k < l =>
        items[k].vnum < items[l].vnum /\ items[k].vnum \in Int
          /\ items[l].vnum \in Int
  <2>1. \A k \in DOMAIN items : selected[k].vnum \in Int  BY <1>3, <1>4, RowsAreNumbered
  <2> QED BY <1>7, <2>1 DEF ItemsInv, Compiling, ItemCatalogIsSound
<1>9. Len(items) = Cardinality(wanted)
  <2>1. \A k, l \in DOMAIN items : selected[k] = selected[l] => k = l
    <3>1. SUFFICES ASSUME NEW k \in DOMAIN items, NEW l \in DOMAIN items, k < l
                   PROVE  selected[k] # selected[l]
      BY <1>4
    <3>2. items[k].vnum # items[l].vnum BY <1>8, <3>1
    <3> QED BY <1>7, <3>2
  <2>2. selected \in Bijection(1 .. Len(items), wanted)
    <3>1. selected \in [1 .. Len(items) -> wanted]  BY <1>3, <1>4, <1>6 DEF Range
    <3>2. \A x \in wanted : \E k \in 1 .. Len(items) : selected[k] = x
      BY <1>4, <1>6 DEF Range
    <3> QED BY <1>4, <2>1, <3>1, <3>2
          DEF Bijection, Injection, Surjection, IsInjective
  <2>3. /\ IsFiniteSet(1 .. Len(items))
        /\ Cardinality(1 .. Len(items)) = Len(items)
    <3> DEFINE n == Len(items)
    <3>1. n \in Nat BY <1>4
    <3> HIDE DEF n
    <3>2. IsFiniteSet(1 .. n) /\ Cardinality(1 .. n) = n  BY ONLY <3>1, FS_Interval
    <3> QED BY ONLY <3>2 DEF n
  <2> QED BY <2>2, <2>3, FS_Bijection DEF ExistsBijection
<1>10. {[id |-> i.id, vnum |-> i.vnum] : i \in Range(items)} = wanted
  <2>1. {[id |-> i.id, vnum |-> i.vnum] : i \in Range(items)}
          = {[id |-> items[k].id, vnum |-> items[k].vnum] : k \in DOMAIN items}
    BY DEF Range
  <2>2. {[id |-> items[k].id, vnum |-> items[k].vnum] : k \in DOMAIN items}
          = {selected[k] : k \in DOMAIN items}
    BY <1>7
  <2>3. {selected[k] : k \in DOMAIN items} = Range(selected)  BY <1>4 DEF Range
  <2> QED BY <1>6, <2>1, <2>2, <2>3
<1>11. ASSUME NEW k \in DOMAIN items
       PROVE  LET item == items[k]
                  row == CHOOSE r \in Range(itemSource.proto) :
                           r.vnum = item.vnum
              IN /\ \A c \in Classes : Bit(item.classes, c)
                                         <=> AntiClass[c + 1] \notin row.flags
                 /\ \A s \in Sexes : Bit(item.sexes, s)
                                       <=> AntiSex[s + 1] \notin row.flags
                 /\ \A l \in Range(row.limits) : item.level >= l[2]
                 /\ k > 1 => items[k - 1].vnum < item.vnum
  <2> DEFINE row == OnlyRow(items[k].vnum)
  <2>1. /\ RowIsComplete(items[k].vnum) /\ RowIsSupported(row)
        /\ items[k] = Compiled(selected[k], row)
    BY <1>7 DEF ItemsInv, Compiling, IsCompiled
  <2>2. /\ row \in Range(itemSource.proto)
        /\ row = CHOOSE r \in Range(itemSource.proto) : r.vnum = items[k].vnum
    BY <1>1, <2>1, RowIsTheOnly
  <2>3. /\ items[k].classes = MaskWithout(row.flags, AntiClass)
        /\ items[k].sexes = MaskWithout(row.flags, AntiSex)
        /\ items[k].level = LevelOf(row)
    BY <2>1 DEF Compiled
  <2>4. k > 1 => items[k - 1].vnum < items[k].vnum  BY <1>4, <1>8
  <2>5. \A l \in Range(row.limits) : items[k].level >= l[2]
    BY <1>1, <2>1, <2>2, <2>3, LevelKeepsLimits
  <2>6. /\ \A c \in Classes : Bit(items[k].classes, c)
                                <=> AntiClass[c + 1] \notin row.flags
        /\ \A s \in Sexes : Bit(items[k].sexes, s)
                              <=> AntiSex[s + 1] \notin row.flags
    BY <2>3, MasksSayWho
  <2> HIDE DEF row
  <2> QED BY <2>2, <2>4, <2>5, <2>6
<1> HIDE DEF wanted
<1> QED BY <1>9, <1>10, <1>11 DEF CatalogIsSelected, wanted

\* For every set of documents and every table: a compiled catalogue has every
\* item of every included document once, in the order of their vnums; who may
\* wear one is exactly whom no anti-flag of its only row excludes; and no
\* limit of that row is lost (compile_catalog).
THEOREM CatalogIsSelectedCorrect == ItemsSpec => []CatalogIsSelected
<1>1. ItemsInit => ItemsInv BY ItemsBegin
<1>2. ItemsInv /\ [ItemsNext]_itemVars => ItemsInv' BY ItemsStep
<1>3. ItemsInv => CatalogIsSelected BY SelectedIsShown
<1> QED BY <1>1, <1>2, <1>3, PTL DEF ItemsSpec
-----------------------------------------------------------------------------
(* The profile and its payloads                                              *)

Listed(s) == \E T : s \in Seq(T)

\* What is kept of a list are the elements at the places, each once.
LEMMA KeptAreThePlaces ==
    ASSUME NEW s, Listed(s), NEW places \in SUBSET DOMAIN s
    PROVE  /\ IsFiniteSet(places) /\ Cardinality(places) \in Nat
           /\ Listed(Kept(s, places))
           /\ Len(Kept(s, places)) = Cardinality(places)
           /\ DOMAIN Kept(s, places) = 1 .. Cardinality(places)
           /\ \E f \in [1 .. Cardinality(places) -> places] :
                /\ \A i \in 1 .. Cardinality(places) :
                     Kept(s, places)[i] = s[f[i]]
                /\ \A i, j \in 1 .. Cardinality(places) :
                     f[i] = f[j] => i = j
                /\ \A p \in places : \E i \in 1 .. Cardinality(places) :
                     f[i] = p
<1>1. PICK T : s \in Seq(T) BY DEF Listed
<1>2. /\ Len(s) \in Nat /\ DOMAIN s = 1 .. Len(s)
      /\ \A p \in places : p \in Nat /\ p \in 1 .. Len(s)
  BY <1>1
<1>3. IsFiniteSet(places)
  <2>1. IsFiniteSet(1 .. Len(s)) BY <1>2, FS_Interval
  <2> QED BY <1>2, <2>1, FS_Subset
<1> DEFINE n == Cardinality(places)
           Upto(p) == {q \in places : q <= p}
           rank == [p \in places |-> Cardinality(Upto(p))]
           f == [i \in 1 .. n |-> CHOOSE p \in places : Cardinality(Upto(p)) = i]
<1>4. n \in Nat BY <1>3, FS_CardinalityType
<1>5. ASSUME NEW p \in places
      PROVE  IsFiniteSet(Upto(p)) /\ rank[p] \in 1 .. n
  <2>1. Upto(p) \subseteq places /\ p \in Upto(p) BY <1>2
  <2>2. /\ IsFiniteSet(Upto(p)) /\ Cardinality(Upto(p)) \in Nat
        /\ Cardinality(Upto(p)) <= n
    BY <1>3, <2>1, FS_Subset, FS_CardinalityType
  <2>3. Cardinality(Upto(p)) # 0 BY <2>1, <2>2, FS_EmptySet
  <2> QED BY <1>4, <2>2, <2>3
<1>6. ASSUME NEW p \in places, NEW q \in places, p < q
      PROVE  rank[p] # rank[q]
  <2>1. Upto(p) \cup {q} \subseteq Upto(q) /\ q \notin Upto(p)  BY <1>2, <1>6
  <2>2. Cardinality(Upto(p) \cup {q}) = Cardinality(Upto(p)) + 1
    BY <1>5, <2>1, FS_AddElement
  <2>3. Cardinality(Upto(p) \cup {q}) <= Cardinality(Upto(q))  BY <1>5, <2>1, FS_Subset
  <2>4. rank[p] \in Nat /\ rank[q] \in Nat /\ rank[p] = Cardinality(Upto(p))
          /\ rank[q] = Cardinality(Upto(q))
    BY <1>4, <1>5
  <2> QED BY <2>2, <2>3, <2>4
<1>7. rank \in Injection(places, 1 .. n)
  <2>1. \A p, q \in places : p # q => p < q \/ q < p BY <1>2
  <2>2. rank \in [places -> 1 .. n] BY <1>5
  <2> HIDE DEF rank
  <2> QED BY <1>6, <2>1, <2>2 DEF Injection, IsInjective
<1>8. rank \in Surjection(places, 1 .. n)
  <2>1. IsFiniteSet(1 .. n) /\ Cardinality(1 .. n) = n  BY <1>4, FS_Interval
  <2> HIDE DEF rank
  <2> QED BY <1>3, <1>7, <2>1, FS_Injection
<1>9. ASSUME NEW i \in 1 .. n PROVE f[i] \in places /\ rank[f[i]] = i
  <2>1. \E p \in places : rank[p] = i
    <3> HIDE DEF rank
    <3> QED BY <1>8 DEF Surjection
  <2>2. \A p \in places : rank[p] = Cardinality(Upto(p)) OBVIOUS
  <2> HIDE DEF rank, Upto
  <2>3. f[i] = CHOOSE p \in places : Cardinality(Upto(p)) = i OBVIOUS
  <2> HIDE DEF f
  <2> QED BY <2>1, <2>2, <2>3
<1>10. ASSUME NEW p \in places PROVE rank[p] \in 1 .. n /\ f[rank[p]] = p
  <2>1. rank[p] \in 1 .. n BY <1>5
  <2>2. f[rank[p]] \in places /\ rank[f[rank[p]]] = rank[p] BY <1>9, <2>1
  <2> HIDE DEF rank, f
  <2> QED BY <1>7, <2>1, <2>2 DEF Injection, IsInjective
<1>11. Kept(s, places) = [i \in 1 .. n |-> s[f[i]]]  BY DEF Kept
<1>12. Kept(s, places) \in Seq(T)
  <2> HIDE DEF f, n, rank, Upto
  <2>1. \A i \in 1 .. n : f[i] \in places BY <1>9
  <2>2. \A i \in 1 .. n : s[f[i]] \in T BY <1>1, <1>2, <2>1
  <2> QED BY <1>4, <1>11, <2>2
<1> HIDE DEF f, rank
<1>13. f \in [1 .. n -> places] BY <1>9 DEF f
<1>14. \A i, j \in 1 .. n : f[i] = f[j] => i = j
  <2> HIDE DEF n
  <2> QED BY <1>9
<1>15. \A p \in places : \E i \in 1 .. n : f[i] = p
  <2> HIDE DEF n
  <2> QED BY <1>10
<1>16. /\ DOMAIN Kept(s, places) = 1 .. n /\ Len(Kept(s, places)) = n
       /\ \A i \in 1 .. n : Kept(s, places)[i] = s[f[i]]
  <2> HIDE DEF n
  <2> QED BY <1>4, <1>11, <1>12
<1> QED BY <1>3, <1>4, <1>12, <1>13, <1>14, <1>15, <1>16 DEF Listed

\* As many values as elements: no two elements are equal.
LEMMA DistinctAreApart ==
    ASSUME NEW s, Listed(s), Distinct(s)
    PROVE  \A i, j \in DOMAIN s : s[i] = s[j] => i = j
<1>1. PICK T : s \in Seq(T) BY DEF Listed
<1>2. Len(s) \in Nat /\ DOMAIN s = 1 .. Len(s) BY <1>1
<1>3. IsFiniteSet(DOMAIN s) /\ Cardinality(DOMAIN s) = Len(s)
  <2> DEFINE n == Len(s)
  <2> HIDE DEF n
  <2>2. n \in Nat BY <1>2 DEF n
  <2>3. IsFiniteSet(1 .. n) /\ Cardinality(1 .. n) = n  BY <2>2, FS_Interval
  <2>1. IsFiniteSet(1 .. Len(s)) /\ Cardinality(1 .. Len(s)) = Len(s)  BY <2>3 DEF n
  <2> QED BY <1>2, <2>1
<1>4. s \in Surjection(DOMAIN s, Range(s))  BY <1>1, <1>2 DEF Surjection, Range
<1>5. s \in Injection(DOMAIN s, Range(s))
  BY <1>3, <1>4, FS_SurjSameCardinalityImpliesInj DEF Distinct
<1> QED BY <1>5 DEF Injection, IsInjective

\* A list of lists makes one list.
LEMMA ListsFlatten ==
    ASSUME NEW S, NEW s, Listed(s), \A k \in DOMAIN s : s[k] \in Seq(S)
    PROVE  FlattenSeq(s) \in Seq(S)
<1>1. PICK T : s \in Seq(T) BY DEF Listed
<1>2. /\ Len(s) \in Nat /\ DOMAIN s = 1 .. Len(s)
      /\ s = [i \in 1 .. Len(s) |-> s[i]]
  BY <1>1
<1>3. s \in Seq(Seq(S)) BY <1>2
<1> QED BY <1>3, PagesFlatten

\* A list in which every element was replaced.
LEMMA MappedIsListed ==
    ASSUME NEW s, Listed(s), NEW t, DOMAIN t = DOMAIN s,
           t = [i \in DOMAIN s |-> t[i]]
    PROVE  Listed(t) /\ Len(t) = Len(s)
<1>1. PICK T : s \in Seq(T) BY DEF Listed
<1>2. Len(s) \in Nat /\ DOMAIN s = 1 .. Len(s) BY <1>1
<1>3. t \in [1 .. Len(s) -> Range(t)] BY <1>2 DEF Range
<1>4. t \in Seq(Range(t)) /\ Len(t) = Len(s) BY <1>2, <1>3
<1> QED BY <1>4 DEF Listed

\* What is kept is empty, or begins with one of the elements.
LEMMA FirstIsKept ==
    ASSUME NEW s, Listed(s), NEW places \in SUBSET DOMAIN s,
           Kept(s, places) # <<>>
    PROVE  \E p \in places : Kept(s, places)[1] = s[p]
<1>1. PICK T : Kept(s, places) \in Seq(T) BY KeptAreThePlaces DEF Listed
<1>2. Len(Kept(s, places)) = Cardinality(places)  BY KeptAreThePlaces
<1>3. Len(Kept(s, places)) # 0 BY <1>1
<1>4. 1 \in 1 .. Cardinality(places)  BY <1>2, <1>3, KeptAreThePlaces
<1> QED BY <1>4, KeptAreThePlaces

\* Nothing is kept of no places.
LEMMA NoneIsKept ==
    ASSUME NEW s, Listed(s), NEW places \in SUBSET DOMAIN s,
           Len(Kept(s, places)) = 0
    PROVE  Kept(s, places) = <<>> /\ places = {}
<1>1. PICK T : Kept(s, places) \in Seq(T) BY KeptAreThePlaces DEF Listed
<1>2. Cardinality(places) = 0 /\ IsFiniteSet(places) BY KeptAreThePlaces
<1> QED BY <1>1, <1>2, FS_EmptySet

USE ProfileAssumption

Declared ==
    UNION {UNION {UNION {Range(VariantsOf(actor, mode, motion)) :
                           motion \in Range(mode.motions)} :
                    mode \in Range(actor.modes)} :
             actor \in Range(Profile.actors)}

LEMMA GivenIsSound ==
    ASSUME given \in Profiles
    PROVE  /\ Listed(given.items) /\ Distinct(Each(given.items, IdOf))
           /\ Listed(Profile.actors) /\ Listed(Profile.items)
           /\ \A actor \in Range(Profile.actors) :
                /\ Listed(actor.modes)
                /\ \A mode \in Range(actor.modes) :
                     /\ Listed(mode.motions)
                     /\ \A m \in Range(mode.motions) :
                          /\ Listed(m.files)
                          /\ Range(m.files) \subseteq DOMAIN Client.motions
           /\ \A f \in DOMAIN Client.motions :
                Listed(Client.motions[f].windows)
  BY DEF Listed, Profile, Client

\* The variants are a list, and the file of each was read.
LEMMA VariantsAreListed ==
    ASSUME given \in Profiles
    PROVE  /\ AllVariants \in Seq(Declared)
           /\ \A v \in Declared : Listed(Client.motions[v.file].windows)
<1>1. ASSUME NEW actor \in Range(Profile.actors),
             NEW mode \in Range(actor.modes),
             NEW motion \in Range(mode.motions)
      PROVE  VariantsOf(actor, mode, motion) \in Seq(Declared)
  <2> DEFINE t == VariantsOf(actor, mode, motion)
  <2>1. Listed(motion.files) BY GivenIsSound
  <2>2. DOMAIN t = DOMAIN motion.files BY DEF VariantsOf
  <2>3. t = [v \in DOMAIN motion.files |-> t[v]] BY DEF VariantsOf
  <2>4. Range(t) \subseteq Declared BY DEF Declared
  <2> HIDE DEF t
  <2>5. Listed(t) BY <2>1, <2>2, <2>3, MappedIsListed
  <2>6. PICK T : t \in Seq(T) BY <2>5 DEF Listed
  <2>7. /\ Len(t) \in Nat /\ DOMAIN t = 1 .. Len(t)
        /\ t = [i \in 1 .. Len(t) |-> t[i]]
    BY <2>6
  <2>8. \A i \in 1 .. Len(t) : t[i] \in Declared  BY <2>4, <2>7 DEF Range
  <2>9. t \in Seq(Declared) BY <2>7, <2>8
  <2> QED BY <2>9 DEF t
<1>2. ASSUME NEW actor \in Range(Profile.actors),
             NEW mode \in Range(actor.modes)
      PROVE  OfMode(actor, mode) \in Seq(Declared)
  <2> DEFINE t == [k \in DOMAIN mode.motions |->
                     VariantsOf(actor, mode, mode.motions[k])]
  <2>1. Listed(mode.motions) BY GivenIsSound
  <2>2. /\ DOMAIN t = DOMAIN mode.motions
        /\ t = [k \in DOMAIN mode.motions |-> t[k]]
    OBVIOUS
  <2>3. \A k \in DOMAIN t : t[k] \in Seq(Declared) BY <1>1 DEF Range
  <2>4. OfMode(actor, mode) = FlattenSeq(t) BY DEF OfMode
  <2> HIDE DEF t
  <2>5. Listed(t) BY <2>1, <2>2, MappedIsListed
  <2> QED BY <2>3, <2>4, <2>5, ListsFlatten
<1>3. ASSUME NEW actor \in Range(Profile.actors)
      PROVE  OfActor(actor) \in Seq(Declared)
  <2> DEFINE t == [m \in DOMAIN actor.modes |->
                     OfMode(actor, actor.modes[m])]
  <2>1. Listed(actor.modes) BY GivenIsSound
  <2>2. /\ DOMAIN t = DOMAIN actor.modes
        /\ t = [k \in DOMAIN actor.modes |-> t[k]]
    OBVIOUS
  <2>3. \A k \in DOMAIN t : t[k] \in Seq(Declared) BY <1>2 DEF Range
  <2>4. OfActor(actor) = FlattenSeq(t) BY DEF OfActor
  <2> HIDE DEF t
  <2>5. Listed(t) BY <2>1, <2>2, MappedIsListed
  <2> QED BY <2>3, <2>4, <2>5, ListsFlatten
<1>4. AllVariants \in Seq(Declared)
  <2> DEFINE t == [a \in DOMAIN Profile.actors |->
                     OfActor(Profile.actors[a])]
  <2>1. Listed(Profile.actors) BY GivenIsSound
  <2>2. /\ DOMAIN t = DOMAIN Profile.actors
        /\ t = [k \in DOMAIN Profile.actors |-> t[k]]
    OBVIOUS
  <2>3. \A k \in DOMAIN t : t[k] \in Seq(Declared) BY <1>3 DEF Range
  <2>4. AllVariants = FlattenSeq(t) BY DEF AllVariants
  <2> HIDE DEF t
  <2>5. Listed(t) BY <2>1, <2>2, MappedIsListed
  <2> QED BY <2>3, <2>4, <2>5, ListsFlatten
<1>5. ASSUME NEW v \in Declared
      PROVE  Listed(Client.motions[v.file].windows)
  <2>1. PICK actor \in Range(Profile.actors) :
          \E mode \in Range(actor.modes) : \E motion \in Range(mode.motions) :
            v \in Range(VariantsOf(actor, mode, motion))
    BY DEF Declared
  <2>2. PICK mode \in Range(actor.modes) :
          \E motion \in Range(mode.motions) :
            v \in Range(VariantsOf(actor, mode, motion))
    BY <2>1
  <2>5. PICK motion \in Range(mode.motions) :
          v \in Range(VariantsOf(actor, mode, motion))
    BY <2>2
  <2>6. PICK k \in DOMAIN motion.files :
          v = VariantsOf(actor, mode, motion)[k]
    BY <2>5 DEF Range, VariantsOf
  <2>7. v.file = motion.files[k] BY <2>6 DEF VariantsOf
  <2>3. v.file \in Range(motion.files) BY <2>7 DEF Range
  <2>4. Range(motion.files) \subseteq DOMAIN Client.motions  BY GivenIsSound
  <2> QED BY <2>3, <2>4, GivenIsSound
<1> QED BY <1>4, <1>5

\* How far a profile and its payloads are.
ProfileStages == {"loading", "checking", "moving", "holding", "deriving",
                  "normalised", "serving", "presenting", "validating",
                  "built", "refused"}

\* Each motion so far is of the variant in its place, and none is there before
\* the names were compared.
MotionsHold ==
    /\ Listed(motions) /\ Len(motions) <= Len(AllVariants)
    /\ \A k \in DOMAIN motions :
         /\ motions[k].id = AllVariants[k].id
         /\ motions[k].name = NameOf(AllVariants[k])
         /\ Listed(motions[k].windows)
    /\ built \notin {"loading", "refused"} \/ motions # <<>> => ProfileIsSound

\* The items of the profile are held, then also those of the catalogue that
\* the profile does not have.
HeldHold ==
    /\ built = "deriving" => held = Each(Profile.items, AsHeld)
    /\ built \in {"normalised", "serving", "presenting", "validating",
                  "built"} =>
         Listed(held) /\ \A i, j \in DOMAIN held : held[i].id = held[j].id => i = j

IsActionOf(a, m) ==
    /\ a.id = m.id /\ a.length = m.length /\ a.strikes = Strikes(m)
    /\ m.id \in {ComboIds[n] : n \in 1 .. 3} => a.input = m.combo

\* Every action is that of a motion, and what is read was validated.
ServerHolds ==
    built \in {"serving", "presenting", "validating", "built"} =>
      /\ payload[1].items = given.items
      /\ \A a \in payload[1].actions : \E m \in Range(motions) : IsActionOf(a, m)
      /\ built # "serving" => PayloadIsSound

\* The client has the motions as they are, and each held item with the power
\* of the weapon it is.
ClientHolds ==
    built \in {"validating", "built"} =>
      /\ manifest[1].motions = Each(motions, ClientMotion)
      /\ manifest[1].items = Each(held, InHand)
      /\ \A i \in Range(held) : WeaponRow(i.id) # <<>>
      /\ built = "built" => \A r \in Range(payload[1].items) :
                              r.kind = "weapon" => Presented(r)

PayloadsInv ==
    /\ given \in Profiles /\ built \in ProfileStages
    /\ MotionsHold /\ HeldHold /\ ServerHolds /\ ClientHolds

\* What comes of the checks of load_profile: no two variants have the same
\* identifier or name, and no two items the same identifier.
LEMMA SoundIsApart ==
    ASSUME given \in Profiles, ProfileIsSound
    PROVE  /\ \A i, j \in DOMAIN AllVariants :
                \/ AllVariants[i].id = AllVariants[j].id
                \/ NameOf(AllVariants[i]) = NameOf(AllVariants[j])
                => i = j
           /\ \A i, j \in DOMAIN Profile.items :
                Profile.items[i].id = Profile.items[j].id => i = j
<1>1. /\ Distinct(Each(Profile.actors \o Profile.items, IdOf))
      /\ Distinct(Each(AllVariants, IdOf))
      /\ Distinct(Each(AllVariants, NameOf))
  BY DEF ProfileIsSound, NamesAreDistinct
<1>2. ASSUME NEW s, Listed(s), Distinct(Each(s, IdOf))
      PROVE  \A i, j \in DOMAIN s : s[i].id = s[j].id => i = j
  <2> DEFINE t == Each(s, IdOf)
  <2>1. /\ DOMAIN t = DOMAIN s /\ t = [i \in DOMAIN s |-> t[i]]
        /\ \A i \in DOMAIN s : t[i] = s[i].id
    BY DEF Each, IdOf
  <2> HIDE DEF t
  <2>2. Listed(t) BY <1>2, <2>1, MappedIsListed
  <2>3. Distinct(t) BY <1>2 DEF t
  <2>4. \A i, j \in DOMAIN t : t[i] = t[j] => i = j  BY <2>2, <2>3, DistinctAreApart
  <2> QED BY <2>1, <2>4
<1>3. ASSUME NEW s, Listed(s), Distinct(Each(s, NameOf))
      PROVE  \A i, j \in DOMAIN s : NameOf(s[i]) = NameOf(s[j]) => i = j
  <2> DEFINE t == Each(s, NameOf)
  <2>1. /\ DOMAIN t = DOMAIN s /\ t = [i \in DOMAIN s |-> t[i]]
        /\ \A i \in DOMAIN s : t[i] = NameOf(s[i])
    BY DEF Each
  <2> HIDE DEF t
  <2>2. Listed(t) BY <1>3, <2>1, MappedIsListed
  <2>3. Distinct(t) BY <1>3 DEF t
  <2>4. \A i, j \in DOMAIN t : t[i] = t[j] => i = j  BY <2>2, <2>3, DistinctAreApart
  <2> QED BY <2>1, <2>4
<1>4. Listed(AllVariants) BY VariantsAreListed DEF Listed
<1>5. PICK S : Profile.actors \in Seq(S) BY GivenIsSound DEF Listed
<1>6. PICK T : Profile.items \in Seq(T) BY GivenIsSound DEF Listed
<1> DEFINE entries == Profile.actors \o Profile.items
           n == Len(Profile.actors)
<1>7. /\ n \in Nat
      /\ entries \in Seq(S \cup T)
      /\ \A i \in DOMAIN Profile.items :
           i \in Nat /\ n + i \in DOMAIN entries /\ entries[n + i] = Profile.items[i]
  <2> DEFINE a == Profile.actors
             b == Profile.items
             U == S \cup T
  <2>1. a \in Seq(U) /\ b \in Seq(U) BY <1>5, <1>6
  <2> HIDE DEF a, b, U
  <2>2. Len(a) \in Nat /\ Len(b) \in Nat /\ DOMAIN b = 1 .. Len(b)  BY <2>1
  <2>3. a \o b \in Seq(U) /\ Len(a \o b) = Len(a) + Len(b)  BY <2>1
  <2>4. \A i \in 1 .. Len(b) : (a \o b)[Len(a) + i] = b[i]  BY <2>1, <2>2
  <2>5. \A i \in DOMAIN b : i \in Nat /\ Len(a) + i \in DOMAIN (a \o b)  BY <2>2, <2>3
  <2> QED BY <2>2, <2>3, <2>4, <2>5 DEF a, b, U
<1> HIDE DEF entries, n
<1>8. \A i, j \in DOMAIN entries : entries[i].id = entries[j].id => i = j
  <2>1. Listed(entries) BY <1>7 DEF Listed
  <2>2. Distinct(Each(entries, IdOf)) BY <1>1 DEF entries
  <2> QED BY <1>2, <2>1, <2>2
<1>9. ASSUME NEW i \in DOMAIN Profile.items, NEW j \in DOMAIN Profile.items,
             Profile.items[i].id = Profile.items[j].id
      PROVE  i = j
  <2>1. n + i = n + j BY <1>7, <1>8, <1>9
  <2> QED BY <1>7, <2>1
<1>10. \A i, j \in DOMAIN AllVariants :
         \/ AllVariants[i].id = AllVariants[j].id
         \/ NameOf(AllVariants[i]) = NameOf(AllVariants[j])
         => i = j
  BY <1>1, <1>2, <1>3, <1>4
<1> QED BY <1>9, <1>10

\* What depends on what is given only.
LEMMA GivenStays ==
    ASSUME given' = given
    PROVE  /\ Profile' = Profile /\ AllVariants' = AllVariants
           /\ (ProfileIsSound <=> ProfileIsSound')
<1>1. Profile' = Profile BY DEF Profile
<1>2. AllVariants' = AllVariants
  BY <1>1 DEF AllVariants, OfActor, OfMode, VariantsOf, ActionId
<1>3. NamesAreDistinct <=> NamesAreDistinct'  BY <1>2 DEF NamesAreDistinct, Each, NameOf
<1>4. ProfileIsSound <=> ProfileIsSound'
  BY <1>1, <1>2, <1>3 DEF ProfileIsSound, ActorIsSound
<1> QED BY <1>1, <1>2, <1>4

\* What depends on the server's payload, and on the client's manifest, only.
LEMMA PayloadStays ==
    ASSUME given' = given, payload' = payload
    PROVE  /\ PayloadIsSound <=> PayloadIsSound'
           /\ \A id : WeaponRow(id)' = WeaponRow(id)
           /\ \A i : InHand(i)' = InHand(i)
<1>1. \A id : /\ ItemCalled(id)' = ItemCalled(id)
              /\ ItemOfVnum(id)' = ItemOfVnum(id)
              /\ WeaponRow(id)' = WeaponRow(id)
  BY DEF ItemCalled, ItemOfVnum, WeaponRow, Called, FirstOf
<1>2. CatalogAgrees <=> CatalogAgrees'  BY <1>1 DEF CatalogAgrees, Server
<1>3. DamageIsReviewed <=> DamageIsReviewed' BY DEF DamageIsReviewed
<1>4. PayloadIsSound <=> PayloadIsSound'
  BY <1>2, <1>3 DEF PayloadIsSound, ActionIsSound
<1>5. \A i : InHand(i)' = InHand(i) BY <1>1 DEF InHand
<1> QED BY <1>1, <1>4, <1>5

LEMMA ProfileBegins == PayloadsInit => PayloadsInv
<1> SUFFICES ASSUME PayloadsInit PROVE PayloadsInv OBVIOUS
<1>1. /\ given \in Profiles /\ built = "loading" /\ motions = <<>>
      /\ held = <<>>
  BY DEF PayloadsInit, PayloadsStart, ProfileStart
<1>2. Listed(<<>>) /\ Len(<<>>) = 0 /\ DOMAIN <<>> = {}
  <2>1. <<>> \in Seq({}) OBVIOUS
  <2> QED BY <2>1 DEF Listed
<1>3. Len(AllVariants) \in Nat BY <1>1, VariantsAreListed
<1> QED BY <1>1, <1>2, <1>3 DEF PayloadsInv, MotionsHold, HeldHold,
     ServerHolds, ClientHolds, ProfileStages

\* A step that makes no motion, and goes no further than it may.
LEMMA MotionsStay ==
    ASSUME PayloadsInv, given' = given, motions' = motions,
           \/ built' = "refused"
           \/ built = "loading" /\ ProfileIsSound
           \/ built \notin {"loading", "refused"}
    PROVE  MotionsHold'
<1>1. /\ AllVariants' = AllVariants /\ (ProfileIsSound <=> ProfileIsSound')
  BY GivenStays
<1>2. /\ Listed(motions') /\ Len(motions') <= Len(AllVariants')
      /\ \A k \in DOMAIN motions' :
           /\ motions'[k].id = AllVariants'[k].id
           /\ motions'[k].name = NameOf(AllVariants'[k])
           /\ Listed(motions'[k].windows)
  BY <1>1 DEF PayloadsInv, MotionsHold
<1>3. built' \notin {"loading", "refused"} \/ motions' # <<>> => ProfileIsSound'
  BY <1>1 DEF PayloadsInv, MotionsHold
<1>4. Listed(motions)' <=> Listed(motions') BY DEF Listed
<1>5. \A k : Listed(motions[k].windows)' <=> Listed(motions'[k].windows)  BY DEF Listed
<1> QED BY <1>2, <1>3, <1>4, <1>5 DEF MotionsHold

LEMMA LoadKeeps ==
    ASSUME PayloadsInv, LoadProfile, UNCHANGED <<payload, manifest>>
    PROVE  PayloadsInv'
<1>1. /\ built = "loading" /\ UNCHANGED <<given, motions, held>>
      /\ \/ built' = "checking" /\ ProfileIsSound
         \/ built' = "refused"
  BY DEF LoadProfile, Unless, Becomes
<1>2. MotionsHold' BY <1>1, MotionsStay
<1> QED BY <1>1, <1>2 DEF PayloadsInv, HeldHold, ServerHolds, ClientHolds,
     ProfileStages

LEMMA CheckCatalogsKeeps ==
    ASSUME PayloadsInv, CheckCatalogs, UNCHANGED <<payload, manifest>>
    PROVE  PayloadsInv'
<1>1. /\ built = "checking" /\ UNCHANGED <<given, motions, held>>
      /\ built' \in {"moving", "refused"}
  BY DEF CheckCatalogs, Unless, Becomes
<1>2. MotionsHold' BY <1>1, MotionsStay
<1> QED BY <1>1, <1>2 DEF PayloadsInv, HeldHold, ServerHolds, ClientHolds,
     ProfileStages

LEMMA NormaliseMotionKeeps ==
    ASSUME PayloadsInv, NormaliseMotion, UNCHANGED <<payload, manifest>>
    PROVE  PayloadsInv'
<1> DEFINE n == Len(motions) + 1
           next == AllVariants[n]
           parsed == Client.motions[next.file]
<1>1. /\ built = "moving" /\ given' = given /\ held' = held
      /\ given \in Profiles
  BY DEF NormaliseMotion, Becomes, RefuseProfile, PayloadsInv
<1>2. CASE motions' = motions /\ built' \in {"holding", "refused"}
  <2>1. MotionsHold' BY <1>1, <1>2, MotionsStay
  <2> QED BY <1>1, <1>2, <2>1 DEF PayloadsInv, HeldHold, ServerHolds,
       ClientHolds, ProfileStages
<1>3. CASE Len(motions) # Len(AllVariants) /\ built' = built
  <2>1. \E m : /\ motions' = Append(motions, m) /\ m.id = next.id
               /\ m.name = GodotName(next.id)
               /\ m.windows = parsed.windows
    BY <1>1, <1>3 DEF NormaliseMotion, Becomes, RefuseProfile
  <2>2. PICK m : /\ motions' = Append(motions, m) /\ m.id = next.id
                 /\ m.name = GodotName(next.id)
                 /\ m.windows = parsed.windows
    BY <2>1
  <2>3. PICK T : motions \in Seq(T) BY DEF PayloadsInv, MotionsHold, Listed
  <2>4. /\ AllVariants \in Seq(Declared) /\ Len(motions) <= Len(AllVariants)
        /\ \A v \in Declared : Listed(Client.motions[v.file].windows)
    BY <1>1, VariantsAreListed DEF PayloadsInv, MotionsHold
  <2>5. /\ Len(motions) \in Nat /\ n \in 1 .. Len(AllVariants)
        /\ next \in Declared /\ DOMAIN motions = 1 .. Len(motions)
    BY <1>3, <2>3, <2>4
  <2>6. Listed(parsed.windows) BY <2>4, <2>5
  <2> HIDE DEF parsed, next
  <2>7. /\ motions' \in Seq(T \cup {m}) /\ DOMAIN motions' = 1 .. n
        /\ Len(motions') = n /\ motions'[n] = m
        /\ \A k \in 1 .. Len(motions) : motions'[k] = motions[k]
    <3>1. motions \in Seq(T \cup {m}) BY <2>3
    <3> QED BY <2>2, <2>3, <2>5, <3>1
  <2>8. \A k \in 1 .. n : k = n \/ k \in DOMAIN motions BY <2>5
  <2>9. /\ AllVariants' = AllVariants /\ ProfileIsSound'
    BY <1>1, GivenStays DEF PayloadsInv, MotionsHold
  <2>10. m.id = AllVariants[n].id /\ m.name = NameOf(AllVariants[n])
           /\ Listed(m.windows)
    BY <2>2, <2>6 DEF next, NameOf
  <2>11. \A k \in DOMAIN motions :
           /\ motions[k].id = AllVariants[k].id
           /\ motions[k].name = NameOf(AllVariants[k])
           /\ Listed(motions[k].windows)
    BY DEF PayloadsInv, MotionsHold
  <2> HIDE DEF n
  <2>12. \A k \in DOMAIN motions' :
           /\ motions'[k].id = AllVariants'[k].id
           /\ motions'[k].name = NameOf(AllVariants'[k])
           /\ Listed(motions'[k].windows)
    <3> SUFFICES ASSUME NEW k \in DOMAIN motions'
                 PROVE  /\ motions'[k].id = AllVariants[k].id
                        /\ motions'[k].name = NameOf(AllVariants[k])
                        /\ Listed(motions'[k].windows)
      BY <2>9
    <3>1. CASE k = n BY <2>7, <2>10, <3>1
    <3>2. CASE k \in DOMAIN motions BY <2>5, <2>7, <2>11, <3>2
    <3> QED BY <2>7, <2>8, <3>1, <3>2
  <2>13. Listed(motions') /\ Len(motions') <= Len(AllVariants')
    BY <2>5, <2>7, <2>9 DEF Listed
  <2>14. Listed(motions)' <=> Listed(motions') BY DEF Listed
  <2>15. \A k : Listed(motions[k].windows)' <=> Listed(motions'[k].windows)
    BY DEF Listed
  <2>16. MotionsHold' BY <2>9, <2>12, <2>13, <2>14, <2>15 DEF MotionsHold
  <2> QED BY <1>1, <1>3, <2>16 DEF PayloadsInv, HeldHold, ServerHolds,
       ClientHolds, ProfileStages
<1> QED BY <1>1, <1>2, <1>3 DEF NormaliseMotion, Becomes, RefuseProfile

\* Two lists without an identifier twice, or in both.
LEMMA JoinedAreApart ==
    ASSUME NEW s, Listed(s), NEW t, Listed(t),
           \A i, j \in DOMAIN s : s[i].id = s[j].id => i = j,
           \A i, j \in DOMAIN t : t[i].id = t[j].id => i = j,
           \A i \in DOMAIN s, j \in DOMAIN t : s[i].id # t[j].id
    PROVE  /\ Listed(s \o t)
           /\ \A i, j \in DOMAIN (s \o t) :
                (s \o t)[i].id = (s \o t)[j].id => i = j
<1>1. PICK S : s \in Seq(S) BY DEF Listed
<1>2. PICK T : t \in Seq(T) BY DEF Listed
<1> DEFINE U == S \cup T
           m == Len(s)
           n == Len(t)
           both == s \o t
<1>3. s \in Seq(U) /\ t \in Seq(U) BY <1>1, <1>2
<1> HIDE DEF U
<1>4. /\ m \in Nat /\ n \in Nat /\ DOMAIN s = 1 .. m /\ DOMAIN t = 1 .. n  BY <1>3
<1>5. both \in Seq(U) /\ DOMAIN both = 1 .. (m + n) BY <1>3
<1>6. \A i \in 1 .. m : both[i] = s[i] BY <1>3
<1>7. \A i \in 1 .. n : both[m + i] = t[i] BY <1>3
<1> HIDE DEF both, m, n
<1>8. ASSUME NEW i \in 1 .. (m + n)
      PROVE  i \in 1 .. m \/ \E k \in 1 .. n : i = m + k
  <2>1. CASE i <= m BY <1>4, <2>1
  <2>2. CASE ~(i <= m)
    <3>1. i - m \in 1 .. n /\ i = m + (i - m) BY <1>4, <2>2
    <3> QED BY <3>1
  <2> QED BY <2>1, <2>2
<1>9. ASSUME NEW i \in DOMAIN both, NEW j \in DOMAIN both,
             both[i].id = both[j].id
      PROVE  i = j
  <2>1. CASE i \in 1 .. m /\ j \in 1 .. m BY <1>4, <1>6, <1>9, <2>1
  <2>2. ASSUME NEW a \in 1 .. m, NEW k \in 1 .. n
        PROVE  both[a].id # both[m + k].id
    <3>1. both[a] = s[a] /\ both[m + k] = t[k] BY <1>6, <1>7
    <3>2. s[a].id # t[k].id BY <1>4
    <3> QED BY <3>1, <3>2
  <2>3. ~(i \in 1 .. m /\ \E k \in 1 .. n : j = m + k)
          /\ ~(j \in 1 .. m /\ \E k \in 1 .. n : i = m + k)
    BY <1>9, <2>2
  <2>4. ASSUME NEW k \in 1 .. n, NEW l \in 1 .. n, i = m + k, j = m + l
        PROVE  i = j
    <3>1. t[k].id = t[l].id BY <1>7, <1>9, <2>4
    <3>2. k = l BY <1>4, <3>1
    <3> QED BY <2>4, <3>2
  <2> QED BY <1>5, <1>8, <2>1, <2>2, <2>3, <2>4
<1> QED BY <1>5, <1>9 DEF Listed, both

LEMMA NormaliseItemsKeeps ==
    ASSUME PayloadsInv, NormaliseItems, UNCHANGED <<payload, manifest>>
    PROVE  PayloadsInv'
<1>1. /\ built = "holding" /\ UNCHANGED <<given, motions>>
      /\ \/ built' = "refused" /\ held' = held
         \/ built' = "deriving" /\ held' = Each(Profile.items, AsHeld)
  BY DEF NormaliseItems, Becomes, RefuseProfile
<1>2. MotionsHold' BY <1>1, MotionsStay
<1>3. Each(Profile.items, AsHeld)' = Each(Profile.items, AsHeld)
  BY <1>1, GivenStays DEF Each, AsHeld
<1> QED BY <1>1, <1>2, <1>3 DEF PayloadsInv, HeldHold, ServerHolds,
     ClientHolds, ProfileStages

\* Two elements of what is kept were at two places.
LEMMA KeptAreApart ==
    ASSUME NEW s, Listed(s), NEW places \in SUBSET DOMAIN s
    PROVE  /\ Listed(Kept(s, places))
           /\ \A i, j \in DOMAIN Kept(s, places) : \E p, q \in places :
                /\ Kept(s, places)[i] = s[p] /\ Kept(s, places)[j] = s[q]
                /\ p = q => i = j
<1> DEFINE n == Cardinality(places)
<1>1. DOMAIN Kept(s, places) = 1 .. n /\ Listed(Kept(s, places))  BY KeptAreThePlaces
<1>2. PICK f \in [1 .. n -> places] :
             /\ \A i \in 1 .. n : Kept(s, places)[i] = s[f[i]]
             /\ \A i, j \in 1 .. n : f[i] = f[j] => i = j
  BY KeptAreThePlaces
<1> HIDE DEF n
<1>3. ASSUME NEW i \in 1 .. n, NEW j \in 1 .. n
      PROVE  \E p, q \in places :
               /\ Kept(s, places)[i] = s[p] /\ Kept(s, places)[j] = s[q]
               /\ p = q => i = j
  <2>1. f[i] \in places /\ f[j] \in places BY <1>2
  <2> QED BY <1>2, <2>1
<1> QED BY <1>1, <1>3

\* What is derived are items of the catalogue, each once, and none of those
\* that the profile has.
LEMMA DerivedAreApart ==
    ASSUME given \in Profiles
    PROVE  /\ Listed(ToDerive)
           /\ \A i, j \in DOMAIN ToDerive :
                ToDerive[i].id = ToDerive[j].id => i = j
           /\ \A i \in DOMAIN ToDerive, j \in DOMAIN Profile.items :
                ToDerive[i].id # Profile.items[j].id
<1>1. Listed(<<>>) /\ DOMAIN <<>> = {}
  <2>1. <<>> \in Seq({}) OBVIOUS
  <2> QED BY <2>1 DEF Listed
<1>2. CASE Profile.derived = <<>> BY <1>1, <1>2 DEF ToDerive
<1>3. CASE Profile.derived # <<>>
  <2> DEFINE wanted == {r \in DOMAIN given.items :
           /\ given.items[r].kind \in Profile.derived[1].kinds
           /\ given.items[r].id \notin {i.id : i \in Range(Profile.items)}}
  <2>1. ToDerive = Kept(given.items, wanted) BY <1>3 DEF ToDerive
  <2>2. \A i, j \in DOMAIN given.items :
          given.items[i].id = given.items[j].id => i = j
    <3> DEFINE t == Each(given.items, IdOf)
    <3>1. /\ DOMAIN t = DOMAIN given.items
          /\ t = [i \in DOMAIN given.items |-> t[i]]
          /\ \A i \in DOMAIN given.items : t[i] = given.items[i].id
      BY DEF Each, IdOf
    <3>2. Distinct(t) /\ Listed(given.items) BY GivenIsSound
    <3> HIDE DEF t
    <3>3. Listed(t) BY <3>1, <3>2, MappedIsListed
    <3>4. \A i, j \in DOMAIN t : t[i] = t[j] => i = j  BY <3>2, <3>3, DistinctAreApart
    <3> QED BY <3>1, <3>4
  <2>3. /\ wanted \in SUBSET DOMAIN given.items
        /\ \A r \in wanted, j \in DOMAIN Profile.items :
             given.items[r].id # Profile.items[j].id
    BY DEF Range
  <2> HIDE DEF wanted
  <2>4. Listed(given.items) BY GivenIsSound
  <2>5. /\ Listed(ToDerive)
        /\ \A i, j \in DOMAIN ToDerive : \E p, q \in wanted :
             /\ ToDerive[i] = given.items[p] /\ ToDerive[j] = given.items[q]
             /\ p = q => i = j
    <3> DEFINE kept == Kept(given.items, wanted)
    <3>1. /\ Listed(kept)
          /\ \A i, j \in DOMAIN kept : \E p, q \in wanted :
               /\ kept[i] = given.items[p] /\ kept[j] = given.items[q]
               /\ p = q => i = j
      BY ONLY <2>3, <2>4, KeptAreApart
    <3>2. ToDerive = kept BY <2>1
    <3> HIDE DEF kept
    <3> QED BY <3>1, <3>2
  <2>6. \A i, j \in DOMAIN ToDerive :
          ToDerive[i].id = ToDerive[j].id => i = j
    BY <2>2, <2>3, <2>5
  <2>7. \A i \in DOMAIN ToDerive, j \in DOMAIN Profile.items :
          ToDerive[i].id # Profile.items[j].id
    BY <2>3, <2>5
  <2> QED BY <2>5, <2>6, <2>7
<1> QED BY <1>2, <1>3

LEMMA DeriveItemsKeeps ==
    ASSUME PayloadsInv, DeriveItems, UNCHANGED <<payload, manifest>>
    PROVE  PayloadsInv'
<1>1. /\ built = "deriving" /\ UNCHANGED <<given, motions>>
      /\ given \in Profiles /\ ProfileIsSound
      /\ held = Each(Profile.items, AsHeld)
      /\ \/ built' = "refused" /\ held' = held
         \/ /\ built' = "normalised"
            /\ held' = held \o Each(ToDerive, AsDerived)
  BY DEF DeriveItems, Becomes, RefuseProfile, PayloadsInv, HeldHold,
         MotionsHold
<1>2. MotionsHold' BY <1>1, MotionsStay
<1>3. CASE built' = "refused"
  BY <1>1, <1>2, <1>3 DEF PayloadsInv, HeldHold, ServerHolds, ClientHolds,
     ProfileStages
<1>4. CASE built' = "normalised"
  <2> DEFINE t == Each(ToDerive, AsDerived)
  <2>1. /\ DOMAIN held = DOMAIN Profile.items
        /\ held = [i \in DOMAIN Profile.items |-> held[i]]
        /\ \A i \in DOMAIN Profile.items : held[i].id = Profile.items[i].id
    BY <1>1 DEF Each, AsHeld
  <2>2. /\ DOMAIN t = DOMAIN ToDerive
        /\ t = [i \in DOMAIN ToDerive |-> t[i]]
        /\ \A i \in DOMAIN ToDerive : t[i].id = ToDerive[i].id
    BY DEF Each, AsDerived
  <2> HIDE DEF t
  <2>3. Listed(held) BY <1>1, <2>1, MappedIsListed, GivenIsSound
  <2>4. Listed(t) BY <1>1, <2>2, MappedIsListed, DerivedAreApart
  <2>5. \A i, j \in DOMAIN held : held[i].id = held[j].id => i = j
    BY <1>1, <2>1, SoundIsApart
  <2>10. \A i, j \in DOMAIN t : t[i].id = t[j].id => i = j
    BY <1>1, <2>2, DerivedAreApart
  <2>11. \A i \in DOMAIN ToDerive, j \in DOMAIN Profile.items :
           ToDerive[i].id # Profile.items[j].id
    BY <1>1, DerivedAreApart
  <2>12. ASSUME NEW i \in DOMAIN held, NEW j \in DOMAIN t
         PROVE  held[i].id # t[j].id
    <3>1. held[i].id = Profile.items[i].id /\ i \in DOMAIN Profile.items  BY <2>1
    <3>2. t[j].id = ToDerive[j].id /\ j \in DOMAIN ToDerive BY <2>2
    <3> QED BY <2>11, <3>1, <3>2
  <2>6. /\ \A i, j \in DOMAIN t : t[i].id = t[j].id => i = j
        /\ \A i \in DOMAIN held, j \in DOMAIN t : held[i].id # t[j].id
    BY <2>10, <2>12
  <2>7. held' = held \o t BY <1>1, <1>4 DEF t
  <2>8. /\ Listed(held')
        /\ \A i, j \in DOMAIN held' : held'[i].id = held'[j].id => i = j
    BY <2>3, <2>4, <2>5, <2>6, <2>7, JoinedAreApart
  <2>9. Listed(held)' <=> Listed(held') BY DEF Listed
  <2> QED BY <1>1, <1>2, <1>4, <2>8, <2>9 DEF PayloadsInv, HeldHold,
       ServerHolds, ClientHolds, ProfileStages
<1> QED BY <1>1, <1>3, <1>4

\* The first motion of a mode and an action is one that was normalised.
LEMMA FirstMotionIsOne ==
    ASSUME Listed(motions), NEW actor, NEW mode, NEW action,
           MotionsOf(actor, mode, action) # <<>>
    PROVE  MotionsOf(actor, mode, action)[1] \in Range(motions)
<1> DEFINE places == {m \in DOMAIN motions : /\ motions[m].actor = actor
                                             /\ motions[m].mode = mode
                                             /\ motions[m].action = action}
<1>1. MotionsOf(actor, mode, action) = Kept(motions, places)  BY DEF MotionsOf
<1>2. places \in SUBSET DOMAIN motions OBVIOUS
<1> HIDE DEF places
<1>3. \E p \in places : Kept(motions, places)[1] = motions[p]
  BY <1>1, <1>2, FirstIsKept
<1> QED BY <1>1, <1>2, <1>3 DEF Range

LEMMA MakeServerKeeps ==
    ASSUME PayloadsInv, MakeServer
    PROVE  PayloadsInv'
<1>1. /\ built = "normalised" /\ UNCHANGED <<given, motions, held, manifest>>
      /\ \/ built' = "refused"
         \/ /\ built' = "serving"
            /\ PrefixIsSound /\ PrimariesAreSound /\ DogIsSound
            /\ payload'[1].items = given.items
            /\ payload'[1].actions = ServerActions
  BY DEF MakeServer, Becomes
<1>2. MotionsHold' BY <1>1, MotionsStay
<1>3. Listed(held)' <=> Listed(held) BY <1>1 DEF Listed
<1>4. HeldHold' BY <1>1, <1>3 DEF PayloadsInv, HeldHold
<1>5. CASE built' = "refused"
  BY <1>1, <1>2, <1>4, <1>5 DEF PayloadsInv, ServerHolds, ClientHolds,
     ProfileStages
<1>6. CASE built' = "serving"
  <2>1. /\ PrefixIsSound /\ PrimariesAreSound /\ DogIsSound
        /\ payload'[1].items = given.items
        /\ payload'[1].actions = ServerActions
    BY <1>1, <1>6
  <2>2. Listed(motions) BY DEF PayloadsInv, MotionsHold
  <2>3. ASSUME NEW m, NEW worn
        PROVE  IsActionOf(ActionFor(m, worn), m)
    BY DEF IsActionOf, ActionFor
  <2>4. ASSUME NEW mode \in DOMAIN Profile.primary
        PROVE  PrimaryOf(mode)[1] \in Range(motions)
    <3>1. PrimaryOf(mode) # <<>> BY <2>1 DEF PrimariesAreSound
    <3> QED BY <2>2, <3>1, FirstMotionIsOne DEF PrimaryOf
  <2>5. ASSUME NEW n \in 2 .. 4
        PROVE  MotionsOf(PlayerId, <<"onehand">>, Chain[n])[1]
                 \in Range(motions)
    <3>1. Len(MotionsOf(PlayerId, <<"onehand">>, Chain[n])) = 1
      BY <2>1 DEF PrefixIsSound
    <3>2. MotionsOf(PlayerId, <<"onehand">>, Chain[n]) # <<>> BY <3>1
    <3> QED BY <2>2, <3>2, FirstMotionIsOne
  <2>6. MotionsOf(DogId, <<"general">>, <<"normal", "_", "attack">>)[1]
          \in Range(motions)
    <3>1. MotionsOf(DogId, <<"general">>, <<"normal", "_", "attack">>)
            # <<>>
      BY <2>1 DEF DogIsSound
    <3> QED BY <2>2, <3>1, FirstMotionIsOne
  <2>7. ASSUME NEW a \in ServerActions
        PROVE  \E m \in Range(motions) : IsActionOf(a, m)
    <3>1. CASE \E mode \in DOMAIN Profile.primary :
                 a = ActionFor(PrimaryOf(mode)[1], ModeNamed(mode)[1].required)
      BY <2>3, <2>4, <3>1
    <3>2. CASE \E n \in 2 .. 4 :
                 a = ActionFor(MotionsOf(PlayerId, <<"onehand">>, Chain[n])[1],
                               OneHand[1].required)
      BY <2>3, <2>5, <3>2
    <3>3. CASE a = ActionFor(MotionsOf(DogId, <<"general">>,
                                       <<"normal", "_", "attack">>)[1], <<>>)
      BY <2>3, <2>6, <3>3
    <3> QED BY <3>1, <3>2, <3>3 DEF ServerActions
  <2>8. \A a, m : IsActionOf(a, m)' <=> IsActionOf(a, m)  BY DEF IsActionOf, Strikes
  <2>9. ServerHolds'
    <3>1. /\ payload'[1].items = given'.items
          /\ \A a \in payload'[1].actions :
               \E m \in Range(motions') : IsActionOf(a, m)
      BY <1>1, <2>1, <2>7
    <3> QED BY <1>6, <2>8, <3>1 DEF ServerHolds
  <2> QED BY <1>1, <1>2, <1>4, <1>6, <2>9 DEF PayloadsInv, ClientHolds,
       ProfileStages
<1> QED BY <1>1, <1>5, <1>6

\* A step after the payload was made, that leaves it alone.
LEMMA ServerStays ==
    ASSUME PayloadsInv, UNCHANGED <<given, motions, held, payload>>,
           built \in {"serving", "presenting", "validating", "built"},
           built' \in {"presenting", "validating", "built", "refused"},
           built # "serving" \/ built' = "refused" \/ PayloadIsSound
    PROVE  ServerHolds' /\ HeldHold'
<1>1. PayloadIsSound <=> PayloadIsSound' BY PayloadStays
<1>2. \A a, m : IsActionOf(a, m)' <=> IsActionOf(a, m)  BY DEF IsActionOf, Strikes
<1>3. /\ payload'[1].items = given'.items
      /\ \A a \in payload'[1].actions :
           \E m \in Range(motions') : IsActionOf(a, m)
      /\ Listed(held) /\ \A i, j \in DOMAIN held : held[i].id = held[j].id => i = j
  BY DEF PayloadsInv, ServerHolds, HeldHold
<1>4. Listed(held)' <=> Listed(held) BY DEF Listed
<1>5. built' # "refused" => PayloadIsSound  BY DEF PayloadsInv, ServerHolds
<1> QED BY <1>1, <1>2, <1>3, <1>4, <1>5 DEF ServerHolds, HeldHold

LEMMA ValidateServerKeeps ==
    ASSUME PayloadsInv, ValidateServer
    PROVE  PayloadsInv'
<1>1. /\ built = "serving" /\ UNCHANGED <<given, motions, held, payload>>
      /\ \/ built' = "presenting" /\ PayloadIsSound
         \/ built' = "refused"
  BY DEF ValidateServer, Unless, Becomes
<1>2. MotionsHold' BY <1>1, MotionsStay
<1>3. ServerHolds' /\ HeldHold'  BY <1>1, ServerStays
<1> QED BY <1>1, <1>2, <1>3 DEF PayloadsInv, ClientHolds, ProfileStages

LEMMA MakeClientKeeps ==
    ASSUME PayloadsInv, MakeClient
    PROVE  PayloadsInv'
<1>1. /\ built = "presenting" /\ UNCHANGED <<given, motions, held, payload>>
      /\ \/ built' = "refused"
         \/ /\ built' = "validating"
            /\ \A i \in Range(held) : WeaponRow(i.id) # <<>>
            /\ manifest'[1].motions = Each(motions, ClientMotion)
            /\ manifest'[1].items = Each(held, InHand)
  BY DEF MakeClient, Becomes
<1>2. MotionsHold' BY <1>1, MotionsStay
<1>3. ServerHolds' /\ HeldHold'  BY <1>1, ServerStays
<1>4. /\ \A id : WeaponRow(id)' = WeaponRow(id)
      /\ \A i : InHand(i)' = InHand(i)
  BY <1>1, PayloadStays
<1>5. /\ Each(motions, ClientMotion)' = Each(motions, ClientMotion)
      /\ Each(held, InHand)' = Each(held, InHand)
  BY <1>1, <1>4 DEF Each, ClientMotion
<1>6. ClientHolds' BY <1>1, <1>4, <1>5 DEF ClientHolds
<1> QED BY <1>1, <1>2, <1>3, <1>6 DEF PayloadsInv, ProfileStages

LEMMA ValidateBuiltKeeps ==
    ASSUME PayloadsInv, ValidateBuilt
    PROVE  PayloadsInv'
<1>1. /\ built = "validating"
      /\ UNCHANGED <<given, motions, held, payload, manifest>>
      /\ \/ built' = "refused"
         \/ /\ built' = "built"
            /\ \A r \in Range(payload[1].items) :
                 r.kind = "weapon" => Presented(r)
  BY DEF ValidateBuilt, Unless, Becomes
<1>2. MotionsHold' BY <1>1, MotionsStay
<1>3. ServerHolds' /\ HeldHold'  BY <1>1, ServerStays
<1>4. /\ \A id : WeaponRow(id)' = WeaponRow(id)
      /\ \A i : InHand(i)' = InHand(i)
  BY <1>1, PayloadStays
<1>5. /\ Each(motions, ClientMotion)' = Each(motions, ClientMotion)
      /\ Each(held, InHand)' = Each(held, InHand)
  BY <1>1, <1>4 DEF Each, ClientMotion
<1>6. \A r : Presented(r)' <=> Presented(r) BY <1>1 DEF Presented
<1>7. ClientHolds'  BY <1>1, <1>4, <1>5, <1>6 DEF PayloadsInv, ClientHolds
<1> QED BY <1>1, <1>2, <1>3, <1>7 DEF PayloadsInv, ProfileStages

LEMMA PayloadsStutter ==
    ASSUME PayloadsInv, UNCHANGED payloadVars
    PROVE  PayloadsInv'
<1>1. UNCHANGED <<given, built, motions, held, payload, manifest>>
  BY DEF payloadVars, profileVars
<1>2. /\ AllVariants' = AllVariants /\ (ProfileIsSound <=> ProfileIsSound')
      /\ Profile' = Profile
  BY <1>1, GivenStays
<1>3. /\ \A id : WeaponRow(id)' = WeaponRow(id)
      /\ \A i : InHand(i)' = InHand(i)
      /\ (PayloadIsSound <=> PayloadIsSound')
  BY <1>1, PayloadStays
<1>4. /\ Each(motions, ClientMotion)' = Each(motions, ClientMotion)
      /\ Each(held, InHand)' = Each(held, InHand)
      /\ Each(Profile.items, AsHeld)' = Each(Profile.items, AsHeld)
  BY <1>1, <1>2, <1>3 DEF Each, ClientMotion, AsHeld
<1>5. /\ \A r : Presented(r)' <=> Presented(r)
      /\ \A a, m : IsActionOf(a, m)' <=> IsActionOf(a, m)
  BY <1>1 DEF Presented, IsActionOf, Strikes
<1>6. /\ Listed(held)' <=> Listed(held)
      /\ Listed(motions)' <=> Listed(motions)
      /\ \A k : Listed(motions[k].windows)' <=> Listed(motions[k].windows)
  BY <1>1 DEF Listed
<1>7. MotionsHold' BY <1>1, <1>2, <1>6 DEF PayloadsInv, MotionsHold
<1>8. HeldHold' BY <1>1, <1>4, <1>6 DEF PayloadsInv, HeldHold
<1>9. ServerHolds' BY <1>1, <1>3, <1>5 DEF PayloadsInv, ServerHolds
<1>10. ClientHolds'  BY <1>1, <1>3, <1>4, <1>5 DEF PayloadsInv, ClientHolds
<1> QED BY <1>1, <1>7, <1>8, <1>9, <1>10 DEF PayloadsInv

LEMMA NamesAreApart ==
    ASSUME PayloadsInv
    PROVE  NamesStayApart
<1> SUFFICES ASSUME NEW i \in DOMAIN motions, NEW j \in DOMAIN motions,
                    i # j, motions[i].name = motions[j].name
             PROVE  FALSE
  BY DEF NamesStayApart
<1>1. PICK T : motions \in Seq(T) BY DEF PayloadsInv, MotionsHold, Listed
<1>2. motions # <<>> BY <1>1
<1>3. ProfileIsSound /\ given \in Profiles  BY <1>2 DEF PayloadsInv, MotionsHold
<1>4. AllVariants \in Seq(Declared) BY <1>3, VariantsAreListed
<1>5. DOMAIN motions \subseteq DOMAIN AllVariants
  <2>1. Len(motions) <= Len(AllVariants) BY DEF PayloadsInv, MotionsHold
  <2>2. /\ Len(motions) \in Nat /\ Len(AllVariants) \in Nat
        /\ DOMAIN motions = 1 .. Len(motions)
        /\ DOMAIN AllVariants = 1 .. Len(AllVariants)
    BY <1>1, <1>4
  <2> QED BY <2>1, <2>2
<1>6. NameOf(AllVariants[i]) = NameOf(AllVariants[j])  BY DEF PayloadsInv, MotionsHold
<1> QED BY <1>3, <1>5, <1>6, SoundIsApart

\* No two motions are of one identifier.
LEMMA MotionsAreApart ==
    ASSUME PayloadsInv
    PROVE  \A m, n \in Range(motions) : m.id = n.id => m = n
<1> SUFFICES ASSUME NEW i \in DOMAIN motions, NEW j \in DOMAIN motions,
                    motions[i].id = motions[j].id
             PROVE  i = j
  BY DEF Range
<1>1. PICK T : motions \in Seq(T) BY DEF PayloadsInv, MotionsHold, Listed
<1>2. motions # <<>> BY <1>1
<1>3. ProfileIsSound /\ given \in Profiles  BY <1>2 DEF PayloadsInv, MotionsHold
<1>4. AllVariants \in Seq(Declared) BY <1>3, VariantsAreListed
<1>5. DOMAIN motions \subseteq DOMAIN AllVariants
  <2>1. Len(motions) <= Len(AllVariants) BY DEF PayloadsInv, MotionsHold
  <2>2. /\ Len(motions) \in Nat /\ Len(AllVariants) \in Nat
        /\ DOMAIN motions = 1 .. Len(motions)
        /\ DOMAIN AllVariants = 1 .. Len(AllVariants)
    BY <1>1, <1>4
  <2> QED BY <2>1, <2>2
<1>6. AllVariants[i].id = AllVariants[j].id  BY DEF PayloadsInv, MotionsHold
<1> QED BY <1>3, <1>5, <1>6, SoundIsApart

LEMMA WeaponsAreShown ==
    ASSUME PayloadsInv
    PROVE  WeaponsAreHeld
<1> DEFINE rows == given.items
           weapons == {r \in Range(rows) : r.kind = "weapon"}
           inHand == manifest[1].items
<1> SUFFICES ASSUME built = "built"
             PROVE  /\ Len(inHand) = Cardinality(weapons)
                    /\ \A r \in weapons :
                         \E k \in DOMAIN inHand :
                           /\ inHand[k].vnum = r.vnum
                           /\ inHand[k].power = r.power
  BY DEF WeaponsAreHeld, PayloadsInv, ServerHolds
<1>1. /\ given \in Profiles /\ payload[1].items = rows /\ Listed(held)
      /\ \A i, j \in DOMAIN held : held[i].id = held[j].id => i = j
      /\ inHand = Each(held, InHand)
      /\ \A i \in Range(held) : WeaponRow(i.id) # <<>>
      /\ \A r \in Range(rows) : r.kind = "weapon" => Presented(r)
  BY DEF PayloadsInv, HeldHold, ServerHolds, ClientHolds
<1>2. /\ DOMAIN inHand = DOMAIN held
      /\ inHand = [k \in DOMAIN held |-> inHand[k]]
      /\ \A k \in DOMAIN held : /\ inHand[k].id = held[k].id
                                /\ inHand[k].vnum = held[k].vnum
                                /\ inHand[k].power = Last(WeaponRow(held[k].id)).power
  BY <1>1 DEF Each, InHand
<1> HIDE DEF inHand
<1>3. Listed(rows) /\ \A i, j \in DOMAIN rows : rows[i].id = rows[j].id => i = j
  <2> DEFINE t == Each(rows, IdOf)
  <2>1. /\ DOMAIN t = DOMAIN rows /\ t = [i \in DOMAIN rows |-> t[i]]
        /\ \A i \in DOMAIN rows : t[i] = rows[i].id
    BY DEF Each, IdOf
  <2>2. Distinct(t) /\ Listed(rows) BY <1>1, GivenIsSound
  <2> HIDE DEF t
  <2>3. Listed(t) BY <2>1, <2>2, MappedIsListed
  <2>4. \A i, j \in DOMAIN t : t[i] = t[j] => i = j  BY <2>2, <2>3, DistinctAreApart
  <2> QED BY <2>1, <2>2, <2>4
<1> HIDE DEF rows
<1>4. ASSUME NEW k \in DOMAIN held
      PROVE  \E r \in weapons : /\ r.id = held[k].id
                                /\ Last(WeaponRow(held[k].id)) = r
  <2> DEFINE id == held[k].id
             places == {p \in DOMAIN rows : /\ rows[p].id = id
                                            /\ rows[p].kind = "weapon"}
  <2>1. WeaponRow(id) = Kept(rows, places) BY <1>1 DEF WeaponRow
  <2>2. WeaponRow(id) # <<>> BY <1>1 DEF Range
  <2>3. /\ places \in SUBSET DOMAIN rows
        /\ \A p \in places : rows[p] \in weapons /\ rows[p].id = id
    BY DEF Range
  <2> HIDE DEF places, id, weapons
  <2> DEFINE kept == Kept(rows, places)
  <2>4. PICK T : kept \in Seq(T)  BY ONLY <1>3, <2>3, KeptAreApart DEF Listed
  <2>5. Len(kept) \in DOMAIN kept /\ Last(kept) = kept[Len(kept)]
    <3>1. kept # <<>> BY <2>1, <2>2
    <3> HIDE DEF kept
    <3> QED BY <2>4, <3>1 DEF Last
  <2>6. \A i \in DOMAIN kept : \E p \in places : kept[i] = rows[p]
    BY ONLY <1>3, <2>3, KeptAreApart
  <2> HIDE DEF kept
  <2>7. PICK p \in places : Last(kept) = rows[p] BY <2>5, <2>6
  <2>8. Last(WeaponRow(id)) = rows[p] BY <2>1, <2>7 DEF kept
  <2> QED BY <2>3, <2>8 DEF id
<1>5. ASSUME NEW r \in weapons, NEW q \in weapons, r.id = q.id
      PROVE  r = q
  BY <1>3, <1>5 DEF Range
<1>6. ASSUME NEW r \in weapons
      PROVE  \E k \in DOMAIN held : held[k].id = r.id /\ held[k].vnum = r.vnum
  <2>1. Presented(r) BY <1>1
  <2>2. PICK k \in DOMAIN inHand : inHand[k].id = r.id /\ inHand[k].vnum = r.vnum
    BY <2>1 DEF Presented, Range, inHand
  <2> QED BY <1>2, <2>2
<1>7. \A r \in weapons : \E k \in DOMAIN inHand :
        inHand[k].vnum = r.vnum /\ inHand[k].power = r.power
  <2> SUFFICES ASSUME NEW r \in weapons
               PROVE  \E k \in DOMAIN inHand :
                        inHand[k].vnum = r.vnum /\ inHand[k].power = r.power
    OBVIOUS
  <2>1. PICK k \in DOMAIN held : held[k].id = r.id /\ held[k].vnum = r.vnum  BY <1>6
  <2>2. PICK q \in weapons : /\ q.id = held[k].id
                             /\ Last(WeaponRow(held[k].id)) = q
    BY <1>4
  <2>3. q = r BY <1>5, <2>1, <2>2
  <2> QED BY <1>2, <2>1, <2>2, <2>3
<1> HIDE DEF weapons
<1> DEFINE row == [k \in DOMAIN held |->
                     CHOOSE r \in weapons : r.id = held[k].id]
<1>8. \A k \in DOMAIN held : row[k] \in weapons /\ row[k].id = held[k].id
  <2> SUFFICES ASSUME NEW k \in DOMAIN held
               PROVE  row[k] \in weapons /\ row[k].id = held[k].id
    OBVIOUS
  <2>1. \E r \in weapons : r.id = held[k].id BY <1>4
  <2> QED BY <2>1
<1>9. row \in [DOMAIN held -> weapons]  BY <1>8
<1> HIDE DEF row
<1>10. ASSUME NEW i \in DOMAIN held, NEW j \in DOMAIN held, row[i] = row[j]
       PROVE  i = j
  BY <1>1, <1>8, <1>10
<1>11. ASSUME NEW r \in weapons PROVE \E k \in DOMAIN held : row[k] = r
  <2>1. PICK k \in DOMAIN held : held[k].id = r.id BY <1>6
  <2> QED BY <1>5, <1>8, <2>1
<1>12. row \in Bijection(DOMAIN held, weapons)
  BY <1>9, <1>10, <1>11 DEF Bijection, Injection, IsInjective, Surjection
<1>13. IsFiniteSet(DOMAIN held) /\ Cardinality(DOMAIN held) = Len(held)
  <2> DEFINE n == Len(held)
  <2>1. PICK T : held \in Seq(T) BY <1>1 DEF Listed
  <2>2. n \in Nat BY <2>1
  <2>3. DOMAIN held = 1 .. n BY <2>1
  <2> HIDE DEF n
  <2>4. IsFiniteSet(1 .. n) /\ Cardinality(1 .. n) = n  BY ONLY <2>2, FS_Interval
  <2> QED BY <2>3, <2>4 DEF n
<1>14. Cardinality(weapons) = Len(held)
  BY <1>12, <1>13, FS_Bijection DEF ExistsBijection
<1>15. Len(inHand) = Len(held) BY <1>1, <1>2, MappedIsListed
<1> QED BY <1>7, <1>14, <1>15

\* The last strike is none of the others.
LEMMA LastStrikeIsOther ==
    \A n \in 1 .. 3 : ComboIds[n] # ComboIds[4]
<1> DEFINE before == PlayerId \o Dot \o <<"onehand">> \o Dot
<1> DEFINE words == STRING \cup {".", "onehand"}
<1>1. before \in Seq(words)
  <2>1. PlayerId \in Seq(words)
    <3>1. PlayerId \in Seq(STRING) BY DEF ProfileAssumption
    <3> QED BY <3>1
  <2>2. "." \in words /\ "onehand" \in words OBVIOUS
  <2> HIDE DEF words
  <2>3. Dot \in Seq(words) /\ <<"onehand">> \in Seq(words)  BY ONLY <2>2 DEF Dot
  <2>4. PlayerId \o Dot \in Seq(words) BY ONLY <2>1, <2>3
  <2>5. PlayerId \o Dot \o <<"onehand">> \in Seq(words)  BY ONLY <2>3, <2>4
  <2> QED BY ONLY <2>3, <2>5 DEF before
<1> HIDE DEF before, words
<1>2. ASSUME NEW d
      PROVE  (before \o <<"combo", "_", d>>)[Len(before) + 3] = d
  <2> DEFINE U == words \cup {"combo", "_", d}
             t == <<"combo", "_", d>>
  <2>1. words \subseteq U OBVIOUS
  <2>2. "combo" \in U /\ "_" \in U /\ d \in U OBVIOUS
  <2> HIDE DEF U
  <2>3. before \in Seq(U) BY ONLY <1>1, <2>1
  <2>8. \A a, b, c \in U : <<a, b, c>> \in Seq(U) OBVIOUS
  <2>4. t \in Seq(U) BY ONLY <2>2, <2>8
  <2>5. Len(t) = 3 /\ t[3] = d OBVIOUS
  <2> HIDE DEF t
  <2>6. \A k \in 1 .. Len(t) : (before \o t)[Len(before) + k] = t[k]  BY ONLY <2>3, <2>4
  <2>7. (before \o t)[Len(before) + 3] = t[3] BY ONLY <2>5, <2>6
  <2> QED BY ONLY <2>5, <2>7 DEF t
<1>3. \A n \in 1 .. 4 :
        ComboIds[n] = before \o <<"combo", "_", <<"1", "2", "3", "4">>[n]>>
  BY DEF ComboIds, before
<1>6. \A n \in 1 .. 4 :
        ComboIds[n][Len(before) + 3] = <<"1", "2", "3", "4">>[n]
  BY <1>2, <1>3
<1>4. /\ ComboIds[1][Len(before) + 3] = "1"
      /\ ComboIds[2][Len(before) + 3] = "2"
      /\ ComboIds[3][Len(before) + 3] = "3"
      /\ ComboIds[4][Len(before) + 3] = "4"
  BY <1>6
<1>5. \A n \in 1 .. 3 : n = 1 \/ n = 2 \/ n = 3 OBVIOUS
<1> QED BY <1>4, <1>5

LEMMA ChainIsPlayed ==
    ASSUME PayloadsInv
    PROVE  ChainIsPlayable
<1> SUFFICES ASSUME built = "built", NEW n \in 1 .. 4
             PROVE  LET a == CHOOSE x \in payload[1].actions : x.id = ComboIds[n]
                        played == {m \in Range(manifest[1].motions) : m.id = a.id}
                    IN /\ Cardinality(played) = 1
                       /\ \A m \in played :
                            /\ m.length = a.length
                            /\ Range(a.strikes) \subseteq Range(m.windows)
                            /\ \A s \in Range(a.strikes) : s.to <= m.length
                            /\ n < 4 => /\ Len(a.strikes) = 1 /\ a.input = m.combo
                                        /\ a.input[1].direct < a.input[1].limit
                                        /\ a.input[1].limit <= m.length
                            /\ n = 4 => a.strikes = <<>> /\ a.input = <<>>
  BY DEF ChainIsPlayable
<1> DEFINE a == CHOOSE x \in payload[1].actions : x.id = ComboIds[n]
           played == {m \in Range(manifest[1].motions) : m.id = a.id}
<1>1. /\ PayloadIsSound /\ manifest[1].motions = Each(motions, ClientMotion)
      /\ \A x \in payload[1].actions : \E m \in Range(motions) : IsActionOf(x, m)
      /\ \A k \in DOMAIN motions : Listed(motions[k].windows)
  BY DEF PayloadsInv, ServerHolds, ClientHolds, MotionsHold
<1>2. ComboIds[n] \in Range(ComboIds)  BY DEF ComboIds, Range
<1>3. a \in payload[1].actions /\ a.id = ComboIds[n]
  <2>1. ComboIds[n] \in {x.id : x \in payload[1].actions}
    BY <1>1, <1>2 DEF PayloadIsSound, ExpectedIds
  <2>2. \E x \in payload[1].actions : x.id = ComboIds[n] BY <2>1
  <2> QED BY <2>2
<1> HIDE DEF a
<1>4. ActionIsSound(a) BY <1>1, <1>3 DEF PayloadIsSound
<1>5. PICK m \in Range(motions) : IsActionOf(a, m) BY <1>1, <1>3
<1>6. /\ a.id = m.id /\ a.length = m.length /\ a.strikes = Strikes(m)
      /\ m.id \in {ComboIds[i] : i \in 1 .. 3} => a.input = m.combo
  BY <1>5 DEF IsActionOf
<1>7. Range(Each(motions, ClientMotion)) = {ClientMotion(o) : o \in Range(motions)}
  BY DEF Range, Each
<1>8. \A o : /\ ClientMotion(o).id = o.id /\ ClientMotion(o).length = o.length
             /\ ClientMotion(o).windows = o.windows
             /\ ClientMotion(o).combo = o.combo
  BY DEF ClientMotion
<1>9. played = {ClientMotion(m)}
  <2>1. ClientMotion(m) \in played BY <1>1, <1>6, <1>7, <1>8
  <2>2. ASSUME NEW o \in Range(motions), o.id = a.id PROVE o = m
    BY <1>6, <2>2, MotionsAreApart
  <2>3. \A c \in played : \E o \in Range(motions) : c = ClientMotion(o) /\ o.id = a.id
    BY <1>1, <1>7, <1>8
  <2> HIDE DEF played
  <2> QED BY <2>1, <2>2, <2>3
<1>10. Cardinality(played) = 1 BY <1>9, FS_Singleton
<1> DEFINE places == {w \in DOMAIN m.windows :
                        m.windows[w].from < m.windows[w].to}
<1>11. Listed(m.windows) BY <1>1 DEF Range
<1>12. /\ a.strikes = Kept(m.windows, places) /\ places \in SUBSET DOMAIN m.windows
  BY <1>6 DEF Strikes
<1> HIDE DEF places
<1>13. Range(a.strikes) \subseteq Range(m.windows)
  <2>1. \A i \in DOMAIN Kept(m.windows, places) : \E p \in places :
          Kept(m.windows, places)[i] = m.windows[p]
    BY <1>11, <1>12, KeptAreApart
  <2> QED BY <1>12, <2>1 DEF Range
<1>14. \A s \in Range(a.strikes) : s.to <= a.length  BY <1>4 DEF ActionIsSound
<1>15. a.id \in Range(ComboIds) BY <1>2, <1>3
<1>16. ASSUME n < 4
       PROVE  /\ Len(a.strikes) = 1 /\ a.input = m.combo
              /\ a.input[1].direct < a.input[1].limit
              /\ a.input[1].limit <= a.length
  <2>1. n \in 1 .. 3 BY <1>16
  <2>2. a.id # ComboIds[4] BY <1>3, <2>1, LastStrikeIsOther
  <2>3. Len(a.strikes) = 1 /\ InputIsSound(a.input, a.length)
    BY <1>4, <1>15, <2>2 DEF ActionIsSound
  <2>4. a.input = m.combo BY <1>3, <1>6, <2>1
  <2> QED BY <2>3, <2>4 DEF InputIsSound
<1>17. ASSUME n = 4 PROVE a.strikes = <<>> /\ a.input = <<>>
  <2>1. a.id = ComboIds[4] BY <1>3, <1>17
  <2>2. Len(a.strikes) = 0 /\ a.input = <<>>  BY <1>4, <1>15, <2>1 DEF ActionIsSound
  <2>3. a.strikes = <<>> BY <1>11, <1>12, <2>2, NoneIsKept
  <2> QED BY <2>2, <2>3
<1>18. \A c \in played :
         /\ c.length = a.length
         /\ Range(a.strikes) \subseteq Range(c.windows)
         /\ \A s \in Range(a.strikes) : s.to <= c.length
         /\ n < 4 => /\ Len(a.strikes) = 1 /\ a.input = c.combo
                     /\ a.input[1].direct < a.input[1].limit
                     /\ a.input[1].limit <= c.length
         /\ n = 4 => a.strikes = <<>> /\ a.input = <<>>
  <2> SUFFICES ASSUME NEW c \in played, c = ClientMotion(m)
               PROVE  /\ c.length = a.length
                      /\ Range(a.strikes) \subseteq Range(c.windows)
                      /\ \A s \in Range(a.strikes) : s.to <= c.length
                      /\ n < 4 => /\ Len(a.strikes) = 1 /\ a.input = c.combo
                                  /\ a.input[1].direct < a.input[1].limit
                                  /\ a.input[1].limit <= c.length
                      /\ n = 4 => a.strikes = <<>> /\ a.input = <<>>
    BY <1>9
  <2>1. c.length = a.length /\ c.windows = m.windows /\ c.combo = m.combo  BY <1>6, <1>8
  <2> QED BY <1>13, <1>14, <1>16, <1>17, <2>1
<1> QED BY <1>10, <1>18 DEF a

\* For every profile and client: no two motions that were normalised have one
\* name in the engine; and once all is built, every weapon that the server may
\* give is played once with its power, and the chain that the client shows is
\* the one that the server strikes with.
THEOREM BuildIsPlayableCorrect == ProfileSpec => []BuildIsPlayable
<1>1. PayloadsInit => PayloadsInv BY ProfileBegins
<1>2. PayloadsInv /\ [PayloadsNext]_payloadVars => PayloadsInv'
  <2> SUFFICES ASSUME PayloadsInv, [PayloadsNext]_payloadVars
               PROVE  PayloadsInv'
    OBVIOUS
  <2>1. CASE ProfileNext /\ UNCHANGED <<payload, manifest>>
    BY <2>1, LoadKeeps, CheckCatalogsKeeps, NormaliseMotionKeeps,
       NormaliseItemsKeeps, DeriveItemsKeeps DEF ProfileNext
  <2>2. CASE UNCHANGED payloadVars BY <2>2, PayloadsStutter
  <2> QED BY <2>1, <2>2, MakeServerKeeps, ValidateServerKeeps,
       MakeClientKeeps, ValidateBuiltKeeps DEF PayloadsNext
<1>3. PayloadsInv => BuildIsPlayable
  BY NamesAreApart, WeaponsAreShown, ChainIsPlayed DEF BuildIsPlayable
<1> QED BY <1>1, <1>2, <1>3, PTL DEF ProfileSpec
=============================================================================
