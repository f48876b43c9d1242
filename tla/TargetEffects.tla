---------------------------- MODULE TargetEffects ----------------------------
(* The effects of a selected target, from the files of the original client   *)
(* to the pack of a client: read, rebuilt by Blender as morph targets,       *)
(* checked against the source, installed, staged by an exporter, imported by *)
(* the engine and packed.                                                    *)
(*                                                                           *)
(* The installer and an exporter are processes of their own: files are       *)
(* installed again while an exporter copies them, and the editor may be open.*)
(*                                                                           *)
(* Source: tools/import_target_effects.py, blender_target_effects.py,        *)
(* target_effect_export.py and audit_target_effect_pack.gd.  A file is its   *)
(* content, which stands for its digest; lengths are in centimetres.         *)
EXTENDS EffectMesh, FiniteSetsExt, Functions

CONSTANTS
    EffectSources,  \* [mde, mse, texture, pinned, audit], see CheckSources
    Damages,        \* what Blender's export may do to a model
    Asset,          \* the two effects, in their order
    BlendOf, FileOf, TextureOf, \* what is pinned of each: see below
    Layers,         \* effect -> its assets, in their order
    FrameCount,     \* of both animations, at least 2
    PinnedShape,    \* the geometries: <<name, points, corners>>
    PinnedAt,       \* where the meshes are placed
    PinnedAlpha     \* geometry -> the bytes of its visibility, by frame

VARIABLES
    origin,     \* the files, as they are on disk
    te,         \* which step the converter and installer is at
    ex,         \* which step the exporter is at
    pictures,   \* converted: path -> its pixels
    model,      \* what Blender exported, by asset
    output,     \* the catalogue for the client, or NoCatalog
    place,      \* what is installed: path -> content
    stage,      \* what is staged for the pack: path -> content
    required    \* what the exporter found installed when it began

\* A pinned name is of one geometry; a geometry that was read has its frames,
\* and a frame its points.
FramesAreThere(mde) ==
    /\ Len(mde.geometries) \in Nat
    /\ DOMAIN mde.geometries = 1 .. Len(mde.geometries)
    /\ \A g \in DOMAIN mde.geometries :
         LET geometry == mde.geometries[g]
         IN /\ geometry.indices \in Nat /\ geometry.vertices \in Nat
            /\ 1 .. mde.frames \subseteq DOMAIN geometry.frames
            /\ \A f \in DOMAIN geometry.frames :
               \A v \in 1 .. geometry.vertices : \A axis \in 1 .. 3 :
                 geometry.frames[f].positions[v][axis] \in Int

ASSUME TargetAssumption ==
    /\ FrameCount \in Nat /\ 2 <= FrameCount
    /\ DOMAIN PinnedShape = 1 .. Len(PinnedShape)
    /\ \A g, h \in DOMAIN PinnedShape :
         PinnedShape[g][1] = PinnedShape[h][1] => g = h
    /\ \A axis \in 1 .. 3 : PinnedAt[axis] \in Int
    /\ \A a \in Range(Asset) :
         /\ DOMAIN TextureOf[a] = DOMAIN PinnedShape
         /\ Range(Layers[a]) \subseteq Range(Asset)
         /\ \A source \in EffectSources : FramesAreThere(source.mde[a])

exporterVars == <<ex, stage, required>>
targetVars == <<origin, te, pictures, model, output, place, exporterVars>>

NoCatalog == [is |-> "nothing"]
Pixels(n) == [pixels |-> n]
CatalogPath == <<"catalog">>
ModelPath(a) == <<"model", a>>
PicturePath(name) == <<"picture", name>>
Derived(a, name) == <<"derived", a, name>>  \* a model's, found by the engine

TargetStart ==
    /\ te = "sources" /\ pictures = << >> /\ model = << >>
    /\ output = NoCatalog /\ place = << >>
    /\ ex = "start" /\ stage = << >> /\ required = << >>

TargetInit == origin \in EffectSources /\ TargetStart

At(s) == te = s /\ UNCHANGED <<origin, exporterVars>>
Proceeds(ok, next) == te' = IF ok THEN next ELSE "refused"
Assets == Range(Asset)
Geometries(a) == DOMAIN origin.mde[a].geometries
Geometry(a, g) == origin.mde[a].geometries[g]

-----------------------------------------------------------------------------
(* The files have to be the pinned ones, and so does a report that is given. *)

CheckSources ==
    /\ At("sources")
    /\ Proceeds(origin.pinned /\ origin.audit # "other", "reading")
    /\ UNCHANGED <<pictures, model, output, place>>

MdeIsPinned(mde) ==
    /\ MdeIsRead(mde) /\ mde.frames = FrameCount
    /\ Len(mde.geometries) = Len(PinnedShape)
    /\ \A g \in DOMAIN mde.geometries :
         LET geometry == mde.geometries[g]
         IN PinnedShape[g] = <<geometry.name, geometry.vertices,
                               geometry.indices>>

\* plays: from the start, in a loop without end.
MseIsPinned(a, mse) ==
    /\ MseIsRead(mse, {<<5, 2>>, <<5, 6>>})
    /\ [m \in DOMAIN mse.meshes |-> mse.meshes[m].file]
         = [m \in DOMAIN Layers[a] |-> FileOf[Layers[a][m]]]
    /\ \A m \in DOMAIN mse.meshes :
         LET mesh == mse.meshes[m]
         IN /\ mesh.plays /\ mesh.delay = 20 /\ Len(mesh.events) = 1
            /\ mesh.events[1].at = PinnedAt
            /\ Len(mesh.elements) = 2
            /\ \A e \in DOMAIN mesh.elements :
                 LET element == mesh.elements[e]
                 IN /\ element.plays /\ element.source = 5
                    /\ element.operation = 4 /\ element.tint = Full
                    /\ element.destination = BlendOf[Layers[a][m]]
                    /\ element.alphas = <<>>

ReadSources ==
    /\ At("reading")
    /\ Proceeds(\A a \in Assets : MdeIsPinned(origin.mde[a])
                              /\ MseIsPinned(a, origin.mse[a]), "textures")
    /\ UNCHANGED <<pictures, model, output, place>>

\* Every texture is one of the pinned files, converted once for its name.
ConvertTextures ==
    LET names == {Geometry(a, g).texture : a \in Assets,
                                          g \in 1 .. Len(PinnedShape)}
    IN /\ At("textures")
       /\ Proceeds(names \subseteq DOMAIN origin.texture, "blender")
       /\ pictures' = [n \in names \cap DOMAIN origin.texture |->
                         origin.texture[n]]
       /\ UNCHANGED <<model, output, place>>

-----------------------------------------------------------------------------
(* build_mesh: a point for every corner, the first frame as the base, a      *)
(* morph target for every other, and keys that show one of them at a time.   *)
(* The exporter turns the axes and the v of the texture, and writes the      *)
(* targets as differences from the base.                                     *)

Placed(p) == [axis \in 1 .. 3 |-> p[axis] + PinnedAt[axis]]
YUp(p) == <<p[1], p[3], -p[2]>>
Minus(p, q) == [axis \in 1 .. 3 |-> p[axis] - q[axis]]
Plus(p, q) == [axis \in 1 .. 3 |-> p[axis] + q[axis]]

CornersAt(geometry, f) ==
    LET frame == geometry.frames[f]
    IN [c \in 1 .. geometry.indices |->
          Placed(frame.positions[frame.at[c] + 1])]

CornerUvs(geometry) ==
    [c \in 1 .. geometry.indices |->
       geometry.frames[1].uv[geometry.frames[1].uvAt[c] + 1]]

\* The frame that the keys show at a time of the timeline, from 1.
ActiveFrame(time) == IF time < FrameCount THEN time + 1 ELSE 1

BuildMesh(a) ==
    [primitives |->
       [g \in Geometries(a) |->
          LET base == CornersAt(Geometry(a, g), 1)
          IN [material |-> <<a, Geometry(a, g).name>>,
              uv |-> CornerUvs(Geometry(a, g)), base |-> base,
              targets |-> [f \in 1 .. FrameCount - 1 |->
                LET frame == CornersAt(Geometry(a, g), f + 1)
                IN [c \in DOMAIN frame |-> Minus(frame[c], base[c])]]]],
     keys |-> [time \in 1 .. FrameCount + 1 |->
                 [f \in 1 .. FrameCount - 1 |->
                    IF f + 1 = ActiveFrame(time - 1) THEN 1 ELSE 0]],
     pictures |-> [g \in Geometries(a) |->
                     pictures[Geometry(a, g).texture]]]

StoredAs(points) == [count |-> Len(points), dense |-> points,
                     slots |-> <<>>, values |-> <<>>]
\* Only the points that move are stored of a target.
Sparse(points) ==
    LET moved == {c \in DOMAIN points : points[c] # <<0, 0, 0>>}
        slots == SetToSortSeq(moved, <)
    IN [count |-> Len(points), dense |-> <<>>, slots |-> slots,
        values |-> [i \in DOMAIN slots |-> points[slots[i]]]]

Exported(mesh) ==
    [nodes |-> <<"mesh at identity">>, interpolation |-> {"STEP"},
     times |-> <<0, FrameCount>>, samplers |-> <<mesh.keys>>,
     pictures |-> mesh.pictures,
     primitives |-> [g \in DOMAIN mesh.primitives |->
       LET p == mesh.primitives[g]
           Up(points) == [c \in DOMAIN points |-> YUp(points[c])]
       IN [material |-> p.material, base |-> StoredAs(Up(p.base)),
           uv |-> [c \in DOMAIN p.uv |-> <<p.uv[c][1], 1 - p.uv[c][2]>>],
           targets |-> [f \in DOMAIN p.targets |->
                          Sparse(Up(p.targets[f]))]]]]

\* An exporter of another version, or a file that was changed: Blender is
\* run, and what it wrote is read as anything that may be there.
Damaged(glb, how) ==
    CASE how = "linear" -> [glb EXCEPT !.interpolation = {"STEP", "LINEAR"}]
      [] how = "short" -> [glb EXCEPT !.times = <<0, FrameCount - 1>>]
      [] how = "stuck" -> [glb EXCEPT !.samplers[1][FrameCount + 1] =
                             glb.samplers[1][FrameCount]]
      [] how = "two animations" ->
           [glb EXCEPT !.samplers = <<glb.samplers[1], glb.samplers[1]>>]
      [] how = "moved" -> [glb EXCEPT !.nodes = <<"mesh moved">>]
      [] how = "extra node" -> [glb EXCEPT !.nodes = Append(@, "camera")]
      [] how = "lost" -> [glb EXCEPT !.primitives = Front(@)]
      [] how = "swapped" -> [glb EXCEPT !.primitives = Reverse(@)]
      [] how = "twice" -> [glb EXCEPT !.primitives[1] = glb.primitives[2]]
      [] how = "frames" -> [glb EXCEPT !.primitives[1].targets = Reverse(@)]
      [] how = "target lost" -> [glb EXCEPT !.primitives[2].targets =
                                   Front(@)]
      [] how = "slots" -> [glb EXCEPT !.primitives[1].targets[1].slots =
                             Reverse(@)]
      [] how = "view" -> [glb EXCEPT !.primitives[1].targets[1].values = <<>>]
      [] how = "uv" -> [glb EXCEPT !.primitives[1].uv[1][2] = 1 - @]
      [] how = "pixels" -> [glb EXCEPT !.pictures[1] = @ + 100]
      [] OTHER -> glb

RunBlender ==
    /\ At("blender")
    /\ \E how \in [Assets -> Damages \cup {"none"}] :
         /\ Cardinality({a \in Assets : how[a] # "none"}) <= 1
         /\ model' = [a \in Assets |-> Damaged(Exported(BuildMesh(a)), how[a])]
    /\ \/ te' = "audit" \/ te' = "refused"
    /\ UNCHANGED <<pictures, output, place>>

-----------------------------------------------------------------------------
(* audit_glb *)

\* accessor_floats: the stored points, and over them those of the slots.
AccessorIsSound(x) ==
    /\ x.dense = <<>> \/ Len(x.dense) = x.count
    /\ Len(x.slots) <= x.count /\ Len(x.values) = Len(x.slots)
    /\ \A i \in DOMAIN x.slots : x.slots[i] \in 1 .. x.count
    /\ \A i \in 2 .. Len(x.slots) : x.slots[i - 1] < x.slots[i]

AccessorFloats(x) ==
    [c \in 1 .. x.count |->
       IF \E i \in DOMAIN x.slots : x.slots[i] = c
       THEN x.values[CHOOSE i \in DOMAIN x.slots : x.slots[i] = c]
       ELSE IF x.dense = <<>> THEN <<0, 0, 0>> ELSE x.dense[c]]

\* The points of a primitive in every frame: the base, and it with a target.
FramesOf(p) ==
    LET base == AccessorFloats(p.base)
    IN <<base>> \o [f \in DOMAIN p.targets |->
         LET delta == AccessorFloats(p.targets[f])
         IN [c \in DOMAIN base |-> Plus(base[c], delta[c])]]

\* A primitive is of the geometry that its material is named after, and every
\* geometry has to have one.
PrimitiveIsSound(a, p) ==
    /\ AccessorIsSound(p.base)
    /\ \A f \in DOMAIN p.targets : AccessorIsSound(p.targets[f])
    /\ \E g \in Geometries(a) :
         LET geometry == Geometry(a, g)
             uvs == CornerUvs(geometry)
             wanted == [f \in 1 .. FrameCount |->
                            LET corners == CornersAt(geometry, f)
                            IN [c \in DOMAIN corners |-> YUp(corners[c])]]
         IN /\ p.material[2] = geometry.name
            /\ p.uv = [c \in DOMAIN uvs |-> <<uvs[c][1], 1 - uvs[c][2]>>]
            /\ Len(p.targets) = FrameCount - 1
            /\ FramesOf(p) = wanted

WeightsAreACycleFault(weights) ==
    \A time \in 1 .. FrameCount : \A f \in 1 .. FrameCount - 1 :
      weights[time][f] = IF f + 1 = ActiveFrame(time - 1) THEN 1 ELSE 0

WeightsAreACycle(weights) ==
    /\ Len(weights) = FrameCount + 1
    /\ \A time \in 1 .. FrameCount + 1 : \A f \in 1 .. FrameCount - 1 :
         weights[time][f] = IF f + 1 = ActiveFrame(time - 1) THEN 1 ELSE 0

AuditGlb(a, glb) ==
    /\ Len(glb.primitives) = Len(origin.mde[a].geometries)
    /\ glb.nodes = <<"mesh at identity">>
    /\ \A g \in DOMAIN glb.primitives : PrimitiveIsSound(a, glb.primitives[g])
    /\ \A g \in Geometries(a) : \E i \in DOMAIN glb.primitives :
         glb.primitives[i].material[2] = Geometry(a, g).name
    /\ glb.interpolation = {"STEP"}
    /\ Min(Range(glb.times)) = 0 /\ Max(Range(glb.times)) = FrameCount
    /\ Len(glb.samplers) = 1 /\ WeightsAreACycle(glb.samplers[1])

\* material_sidecar and runtime_catalog: the surfaces of a model in the order
\* of its geometries.  The blend is the asset's, which the script agrees with.
SurfacesOf(a) ==
    [g \in Geometries(a) |->
       [geometry |-> Geometry(a, g).name, texture |-> Geometry(a, g).texture,
        blend |-> IF a = Asset[1] THEN 6 ELSE 2,
        alpha |-> [f \in 1 .. FrameCount |->
                     ColorByte(Geometry(a, g).frames[f].visibility)]]]

FilesOfBuild ==
    [p \in {ModelPath(a) : a \in Assets} \cup
           {PicturePath(n) : n \in DOMAIN pictures} |->
       IF p[1] = "model" THEN model[p[2]] ELSE Pixels(pictures[p[2]])]

AuditConverted ==
    /\ At("audit") /\ UNCHANGED <<pictures, model, place>>
    /\ Proceeds(\A a \in Assets : AuditGlb(a, model[a]), "built")
    /\ output' = IF te' = "refused" THEN output
                 ELSE [is |-> "catalog", files |-> FilesOfBuild,
                       surfaces |-> [a \in Assets |-> SurfacesOf(a)],
                       layers |-> Layers]

-----------------------------------------------------------------------------
(* install_runtime: all is removed, then the catalogue is copied, then its   *)
(* files, models before textures.  It may die at any of them, which is then  *)
(* there in part, and be run again.                                          *)

Truncated == [is |-> "truncated"]

\* A file is written; files are added to those that are there.
With(files, p, content) ==
    [q \in DOMAIN files \cup {p} |-> IF q = p THEN content ELSE files[q]]
AndAlso(files, others) ==
    [q \in DOMAIN files \cup DOMAIN others |->
       IF q \in DOMAIN files THEN files[q] ELSE others[q]]

ToInstall == (DOMAIN output.files \cup {CatalogPath}) \ DOMAIN place
ContentOf(p) == IF p = CatalogPath THEN output ELSE output.files[p]
CopyRank(p) == CASE p[1] = "catalog" -> 0 [] p[1] = "model" -> 1 [] OTHER -> 2
NextFile ==
    CHOOSE p \in ToInstall : \A q \in ToInstall : CopyRank(p) <= CopyRank(q)

BeginInstall ==
    /\ te \in {"built", "installed"} /\ te' = "installing" /\ place' = << >>
    /\ UNCHANGED <<origin, pictures, model, output, exporterVars>>

InstallNext ==
    /\ At("installing") /\ UNCHANGED <<pictures, model, output>>
    /\ place' = With(place, NextFile, ContentOf(NextFile))
    /\ te' = IF ToInstall = {NextFile} THEN "installed" ELSE te

InstallDies ==
    /\ At("installing") /\ te' = "installed"
    /\ \/ UNCHANGED place
       \/ place' = With(place, NextFile, Truncated)
    /\ UNCHANGED <<pictures, model, output>>

\* The engine takes the pictures that are embedded in a model out of it.
DerivedFrom(files) ==
    LET models == {a \in Assets : /\ ModelPath(a) \in DOMAIN files
                                  /\ files[ModelPath(a)] # Truncated}
        derived == UNION {{Derived(a, TextureOf[a][g]) : g \in Geometries(a)} :
                            a \in models}
    IN [d \in derived |->
          Pixels(files[ModelPath(d[2])].pictures[
            CHOOSE g \in Geometries(d[2]) : TextureOf[d[2]][g] = d[3]])]

\* A developer opens the project in the editor.
EditorImports ==
    /\ te \in {"installing", "installed"}
    /\ place' = AndAlso(place, DerivedFrom(place))
    /\ UNCHANGED <<origin, te, pictures, model, output, exporterVars>>

-----------------------------------------------------------------------------
(* target_effect_requirements: what the exporters take *)

PinnedPaths ==
    {ModelPath(a) : a \in Assets} \cup
    UNION {{PicturePath(TextureOf[a][g]) : g \in DOMAIN TextureOf[a]} :
             a \in Assets}

DocumentIsPinned(catalog) ==
    /\ DOMAIN catalog.files = PinnedPaths
    /\ \A a \in Assets :
         catalog.surfaces[a] = [g \in DOMAIN PinnedShape |->
           [geometry |-> PinnedShape[g][1], texture |-> TextureOf[a][g],
            blend |-> BlendOf[a], alpha |-> PinnedAlpha[g]]]
    /\ catalog.layers = Layers

FilesAreTheirs(files, catalog) ==
    \A p \in PinnedPaths : p \in DOMAIN files /\ files[p] = catalog.files[p]

OthersAreDerivedFault(files) ==
    \A p \in DOMAIN files \ (PinnedPaths \cup {CatalogPath}) :
      p[1] = "derived"

\* Nothing else is there but what the engine derives, and that only as the
\* picture that it is named after.
OthersAreDerived(files) ==
    \A p \in DOMAIN files \ (PinnedPaths \cup {CatalogPath}) :
      p[1] = "derived" /\ files[p] = files[PicturePath(p[3])]

RequirementsAreMetBy(files, derivatives) ==
    /\ CatalogPath \in DOMAIN files
    /\ files[CatalogPath] # Truncated
    /\ DocumentIsPinned(files[CatalogPath])
    /\ FilesAreTheirs(files, files[CatalogPath])
    /\ IF derivatives THEN OthersAreDerived(files)
       ELSE DOMAIN files = PinnedPaths \cup {CatalogPath}

\* The six files and their catalogue: what an exporter holds the staged ones
\* and the pack against.
PackedPaths == PinnedPaths \cup {CatalogPath}
Requirements(files) == [p \in PackedPaths |-> files[p]]

ExporterTurns(at, next) ==
    /\ ex = at /\ ex' = next
    /\ UNCHANGED <<origin, te, pictures, model, output, place>>

MeetRequirements ==
    /\ ExporterTurns("start", "copying") /\ RequirementsAreMetBy(place, TRUE)
    /\ required' = Requirements(place) /\ stage' = << >>

\* The exporters copy the seven files, one after the other, and nothing that
\* the editor derived; the installer may be at work.
CopyInstalled ==
    /\ ExporterTurns("copying", "copying") /\ UNCHANGED required
    /\ LET left == PackedPaths \ DOMAIN stage
       IN /\ left # {}
          /\ LET p == CHOOSE p \in left :
                        \A q \in left : CopyRank(p) <= CopyRank(q)
             IN p \in DOMAIN place /\ stage' = With(stage, p, place[p])

\* stage_target_effects, at its end.
StageInstalled ==
    /\ ExporterTurns("copying", "importing") /\ UNCHANGED <<stage, required>>
    /\ PackedPaths \subseteq DOMAIN stage
    /\ RequirementsAreMetBy(stage, FALSE) /\ Requirements(stage) = required

EngineImports ==
    /\ ExporterTurns("importing", "preparing") /\ UNCHANGED required
    /\ stage' = AndAlso(stage, DerivedFrom(stage))

\* Every picture is imported without loss, derived ones too, once they are
\* known to be the authored ones.
PrepareImports ==
    /\ ExporterTurns("preparing", "packing") /\ UNCHANGED <<stage, required>>
    /\ OthersAreDerived(stage)

\* What is in the pack is loaded: the catalogue and the pictures are the
\* expected ones, and the models play their frames by name, one at a time.
PackIsQualified ==
    /\ \A p \in PackedPaths : p[1] # "model" => stage[p] = required[p]
    /\ \A a \in Assets :
         LET glb == stage[ModelPath(a)]
         IN /\ Len(glb.nodes) = 1 /\ Len(glb.primitives) = 2
            /\ Len(glb.samplers) = 1 /\ glb.interpolation = {"STEP"}
            /\ \A p \in DOMAIN glb.primitives :
                 Len(glb.primitives[p].targets) = FrameCount - 1
            /\ Max(Range(glb.times)) = FrameCount
            /\ \A time \in 1 .. FrameCount : \A f \in 1 .. FrameCount - 1 :
                 glb.samplers[1][time][f] = IF time = f + 1 THEN 1 ELSE 0
    /\ \A p \in DOMAIN stage : p[1] = "derived" =>
         stage[p] = required[PicturePath(p[3])]

AuditShipped ==
    /\ ExporterTurns("packing", "shipped") /\ UNCHANGED <<stage, required>>
    /\ PackIsQualified

\* An exporter that cannot go on removes what it staged; it may be run again.
ExportFails ==
    /\ ex \notin {"start", "shipped"} /\ ex' = "start"
    /\ stage' = << >> /\ required' = << >>
    /\ UNCHANGED <<origin, te, pictures, model, output, place>>

TargetNext ==
    \/ CheckSources \/ ReadSources \/ ConvertTextures \/ RunBlender
    \/ AuditConverted \/ BeginInstall \/ InstallNext \/ InstallDies
    \/ EditorImports \/ MeetRequirements \/ CopyInstalled \/ StageInstalled
    \/ EngineImports \/ PrepareImports \/ AuditShipped \/ ExportFails

TargetSpec == TargetInit /\ [][TargetNext]_targetVars

-----------------------------------------------------------------------------
\* Where a corner of a surface is at a time of the timeline: the base, and
\* the targets with their weights.
ShownAt(glb, g, time) ==
    LET p == glb.primitives[g]
        frames == FramesOf(p)
        weights == glb.samplers[1][time]
    IN [c \in DOMAIN frames[1] |-> [axis \in 1 .. 3 |->
          frames[1][c][axis] + SumFunction(
            [f \in 1 .. FrameCount - 1 |->
               weights[f] * (frames[f + 1][c][axis] - frames[1][c][axis])])]]

\* At every time of its loop, also at the last, where it begins again, an
\* effect that is ready to be installed shows the points of the frame of the
\* original file (import_target_effects.py, audit_glb).
ShownFrameIsSource ==
    te = "built" =>
      \A a \in Assets : \A g \in Geometries(a) :
      \A time \in 1 .. FrameCount + 1 :
        LET glb == model[a]
            geometry == Geometry(a, g)
            corners == CornersAt(geometry, ((time - 1) % FrameCount) + 1)
            i == CHOOSE i \in DOMAIN glb.primitives :
                   glb.primitives[i].material[2] = geometry.name
        IN ShownAt(glb, i, time) = [c \in DOMAIN corners |-> YUp(corners[c])]

\* What is packed, after installations that may have died, while others ran
\* and an editor was open, is whole: every model and picture of the
\* conversion, blended as the script says of the layer, and no picture that
\* was not the original's (target_effect_export.py).
PackedEffectsAreWhole ==
    ex \in {"packing", "shipped"} =>
      /\ \A a \in Assets : \A m \in DOMAIN Layers[a] :
           LET layer == Layers[a][m]
               surfaces == stage[CatalogPath].surfaces[layer]
               mesh == origin.mse[a].meshes[m]
           IN /\ stage[ModelPath(layer)] = model[layer]
              /\ mesh.file = FileOf[layer]
              /\ \A g \in DOMAIN surfaces :
                   /\ \A e \in DOMAIN mesh.elements :
                        surfaces[g].blend = mesh.elements[e].destination
                   /\ stage[PicturePath(surfaces[g].texture)]
                        = Pixels(origin.texture[surfaces[g].texture])
      /\ \A p \in DOMAIN stage : p[1] = "derived" =>
           stage[p] = Pixels(origin.texture[p[3]])

\* From the original file to the pack, the effect stays what it was.
ShownIsConverted == ShownFrameIsSource /\ PackedEffectsAreWhole
=============================================================================
