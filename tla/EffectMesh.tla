------------------------------ MODULE EffectMesh ------------------------------
(* The two formats of an animated mesh effect: its frames (MDE) and the      *)
(* script that places and blends them (MSE).  Both readers refuse what they  *)
(* do not know.                                                              *)
(*                                                                           *)
(* Source: tools/metin_effect_mesh.py.  A point is a triple of integers, a   *)
(* text is a string, one without its end "unterminated"; visibility is       *)
(* counted in units of which Full make the whole.                            *)
EXTENDS Integers, Sequences, SequencesExt, FiniteSets

CONSTANTS
    MaxGeometries, MaxFrames, MaxVertices, MaxIndices, MaxTextureVertices,
    MaxScriptMeshes, MaxTimeEvents,
    Full        \* the visibility that is 1.0

NotFinite == 999999
IsText(t) == t \notin {"", "unterminated", "padded"}

\* A count that is read has to be within its bounds.
Bounded(n, low, high) == low <= n /\ n <= high

\* The byte that a renderer makes of a visibility, rounded half up.
ColorByte(v) == CASE v <= 0 -> 0
                  [] v >= Full -> 255
                  [] OTHER -> (510 * v + Full) \div (2 * Full)

-----------------------------------------------------------------------------
(* parse_mde.  surplus: the words left when all that was declared is read,   *)
(* negative when some are missing.                                           *)

Points(frame) == frame.positions
Corners(frame) == frame.at

FrameIsSound(geometry, frame) ==
    /\ frame.visibility # NotFinite
    /\ \A p \in DOMAIN Points(frame) :
         \A axis \in 1 .. 3 : Points(frame)[p][axis] # NotFinite
    /\ \A c \in 1 .. geometry.indices :
         /\ frame.at[c] \in 0 .. geometry.vertices - 1
         /\ frame.uvAt[c] \in 0 .. geometry.uvs - 1

\* Only the points and the visibility of a geometry are animated.
TopologyIsKept(geometry) ==
    \A f \in DOMAIN geometry.frames :
      LET frame == geometry.frames[f]
          first == geometry.frames[1]
      IN /\ frame.at = first.at /\ frame.uvAt = first.uvAt
         /\ frame.uv = first.uv

GeometryIsSound(geometry) ==
    /\ IsText(geometry.name) /\ IsText(geometry.texture)
    /\ Bounded(geometry.vertices, 1, MaxVertices)
    /\ Bounded(geometry.indices, 3, MaxIndices) /\ geometry.indices % 3 = 0
    /\ Bounded(geometry.uvs, 1, MaxTextureVertices)
    /\ \A f \in DOMAIN geometry.frames :
         FrameIsSound(geometry, geometry.frames[f])
    /\ TopologyIsKept(geometry)

MdeIsRead(mde) ==
    /\ mde.header = "EffectData"
    /\ Bounded(Len(mde.geometries), 1, MaxGeometries)
    /\ Bounded(mde.frames, 1, MaxFrames)
    /\ mde.surplus = 0
    /\ \A g \in DOMAIN mde.geometries : GeometryIsSound(mde.geometries[g])

-----------------------------------------------------------------------------
(* parse_mse: its meshes, each with events that move it and with numbered    *)
(* elements that blend its geometries.  plain: it has only the fields and    *)
(* groups that are read.                                                     *)

TimesIncrease(events) ==
    \A i \in 2 .. Len(events) : events[i - 1].time < events[i].time

EventsAreRead(events) ==
    /\ Len(events) <= MaxTimeEvents /\ TimesIncrease(events)
    /\ \A i \in DOMAIN events : events[i].time >= 0

PositionEventsAreRead(events) ==
    /\ events # <<>> /\ EventsAreRead(events)
    /\ \A i \in DOMAIN events : events[i].type = "direct"

ElementIsRead(element, pairs) ==
    /\ element.plain /\ element.billboard \in {0, 3}
    /\ <<element.source, element.destination>> \in pairs
    /\ element.operation \in {3, 4, 6}
    /\ Bounded(element.tint, 0, Full)
    /\ EventsAreRead(element.alphas)

\* As many elements as are declared, numbered from zero.
MeshIsRead(mesh, pairs) ==
    /\ mesh.plain /\ IsText(mesh.file) /\ mesh.delay > 0
    /\ Bounded(mesh.declared, 1, MaxGeometries)
    /\ Len(mesh.elements) = mesh.declared
    /\ {mesh.elements[i].number : i \in DOMAIN mesh.elements}
         = 0 .. mesh.declared - 1
    /\ PositionEventsAreRead(mesh.events)
    /\ \A i \in DOMAIN mesh.elements : ElementIsRead(mesh.elements[i], pairs)

MseIsRead(mse, pairs) ==
    /\ mse.plain /\ Bounded(Len(mse.meshes), 1, MaxScriptMeshes)
    /\ \A m \in DOMAIN mse.meshes : MeshIsRead(mse.meshes[m], pairs)
=============================================================================
