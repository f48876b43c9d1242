--------------------------- MODULE MCEffectTools ---------------------------
(* Inputs of the two tools that convert effects, for TLC.                    *)
EXTENDS TargetEffects, MotionEffects, TLC
-----------------------------------------------------------------------------
(* Target effects                                                            *)
AssetNames == <<"hover", "target">>
McBlends == [hover |-> 6, target |-> 2]
McFiles == [hover |-> "hover.mde", target |-> "target.mde"]
McTextures == [hover |-> <<"h1", "h2">>, target |-> <<"t1", "t2">>]
McLayers == [hover |-> <<"hover">>, target |-> <<"hover", "target">>]
McShape == << <<"Cylinder01", 2, 3>>, <<"Plane01", 1, 3>> >>
McAlpha == << <<255, 128, 0>>, <<255, 255, 0>> >>
McAt == <<0, 0, 41>>
OneFrame(visibility, points, at) ==
    [visibility |-> visibility, positions |-> points, at |-> at,
     uv |-> << <<0, 1>>, <<1, 0>> >>, uvAt |-> <<0, 1, 1>>]
Cylinder(t, n) ==
    [name |-> "Cylinder01", texture |-> t, vertices |-> 2, indices |-> 3,
     uvs |-> 2, frames |->
       <<OneFrame(4, << <<1, n, 3>>, <<0, 5, 0>> >>, <<0, 1, 1>>),
         OneFrame(2, << <<1, n, 4>>, <<0, 5, 0>> >>, <<0, 1, 1>>),
         OneFrame(0, << <<2, n, 5>>, <<7, 5, n>> >>, <<0, 1, 1>>)>>]
Plane(t, n) ==
    [name |-> "Plane01", texture |-> t, vertices |-> 1, indices |-> 3,
     uvs |-> 2, frames |->
       <<OneFrame(5, << <<n, 0, 0>> >>, <<0, 0, 0>>),
         OneFrame(4, << <<n, 0, 0>> >>, <<0, 0, 0>>),
         OneFrame(-1, << <<n, n, 0>> >>, <<0, 0, 0>>)>>]
Mde(t, n) == [header |-> "EffectData", frames |-> 3, surplus |-> 0,
              geometries |-> <<Cylinder(t[1], n), Plane(t[2], n)>>]
Element(n, d) == [number |-> n, destination |-> d, source |-> 5,
                  operation |-> 4, tint |-> 4, billboard |-> 0,
                  alphas |-> <<>>,
                  plain |-> TRUE, plays |-> TRUE]
Script(f, d) == [file |-> f, delay |-> 20, plain |-> TRUE, plays |-> TRUE,
                 declared |-> 2, elements |-> <<Element(1, d), Element(0, d)>>,
                 events |-> <<[time |-> 0, type |-> "direct", at |-> McAt]>>]
PlainSource == [pinned |-> TRUE, audit |-> "same",
          texture |-> [h1 |-> 1, h2 |-> 2, t1 |-> 3, t2 |-> 4],
          mde |-> [hover |-> Mde(<<"h1", "h2">>, 1),
                   target |-> Mde(<<"t1", "t2">>, 2)],
          mse |-> [hover |-> [plain |-> TRUE,
                              meshes |-> <<Script("hover.mde", 6)>>],
                   target |-> [plain |-> TRUE,
                               meshes |-> <<Script("hover.mde", 6),
                                            Script("target.mde", 2)>>]]]
SourceChoices ==
    {PlainSource, [PlainSource EXCEPT !.audit = "other"],
     [PlainSource EXCEPT !.pinned = FALSE],
     [PlainSource EXCEPT !.texture = [h1 |-> 1, h2 |-> 2, t1 |-> 3]],
     [PlainSource EXCEPT !.mde.hover.surplus = -1],
     [PlainSource EXCEPT !.mde.hover.surplus = 1],
     [PlainSource EXCEPT !.mde.hover.header = "MDEData002"],
     [PlainSource EXCEPT !.mde.hover.frames = 0],
     [PlainSource EXCEPT !.mde.target.geometries = Reverse(@)],
     [PlainSource EXCEPT !.mde.target.geometries[1].name = "unterminated"],
     [PlainSource EXCEPT !.mde.target.geometries[1].indices = 2],
     [PlainSource EXCEPT !.mde.target.geometries[1].frames[2].at[1] = 2],
     [PlainSource EXCEPT !.mde.target.geometries[1].frames[2].at[1] = 1],
     [PlainSource EXCEPT !.mde.target.geometries[1].frames[2].uv[1][1] = 1],
     [PlainSource EXCEPT !.mde.target.geometries[1].frames[2].positions[1][1] =
        NotFinite],
     [PlainSource EXCEPT !.mde.target.geometries[2].texture = "h2"],
     [PlainSource EXCEPT !.mde.target.geometries[2].frames[1].visibility = 3],
     [PlainSource EXCEPT !.mse.target.meshes = Reverse(@)],
     [PlainSource EXCEPT !.mse.target.meshes[1].events[1].at[3] = 0],
     [PlainSource EXCEPT !.mse.target.meshes[1].events = <<>>],
     [PlainSource EXCEPT !.mse.target.meshes[1].elements[1].destination = 2],
     [PlainSource EXCEPT !.mse.target.meshes[1].elements[1].destination = 8],
     [PlainSource EXCEPT !.mse.target.meshes[1].elements[1].number = 0]}
DamageChoices == {"linear", "short", "stuck", "two animations", "moved",
    "extra node", "lost", "swapped", "twice", "frames", "target lost",
    "slots", "view", "uv", "pixels"}
-----------------------------------------------------------------------------
(* Effects of motions                                                        *)
ShowsAt(name, start, flags, bone, path) ==
    [type |-> 1, name |-> name, start |-> start, at |-> start, plain |-> TRUE,
     independent |-> flags[1], attaching |-> flags[2], following |-> flags[3],
     bone |-> bone, path |-> path]
Clip(events) == [duration |-> 10, events |-> events]
Sound7 == [type |-> 7]
Known(actor, vnum, action, events) ==
    [actor |-> actor, vnum |-> vnum, action |-> action, clip |-> Clip(events)]
Effect(path, uses) == [path |-> path, uses |-> uses]
Candidate1 == [effects |-> <<Effect("fire", {"flame", "spark"})>>,
               textures |-> [flame |-> "red", spark |-> "gray"], meshes |-> {},
               intact |-> TRUE]
Candidate2(n) == [effects |-> <<Effect("bash", {"flame"})>>,
                  textures |-> [flame |-> n], meshes |-> {n, "gold"},
                  intact |-> TRUE]
Converted(m, f, durations) ==
    [joints |-> [m |-> m, f |-> f], durations |-> durations, intact |-> TRUE]
Durations == [m1 |-> 10, f1 |-> 10, other |-> 5]
Install(skill) == (<<"m", 1>> :> "m1") @@ (<<"f", 1>> :> skill)
WorkOf(events, flags, bone, candidates) ==
    [inventory |-> <<Known("m", 1, "m1", events \o
                       <<Sound7, ShowsAt("e2", 4, flags, bone, "fire")>>),
                     Known("f", 1, "f1",
                       <<ShowsAt("e1", 3, flags, bone, "bash")>>)>>,
     source |-> [m |-> <<"head", "hand">>, f |-> <<"head">>],
     skills |-> <<Install("f1"), Install("m1"), <<"m", 1>> :> "m1">>,
     characters |-> <<Converted(<<"head", "hand">>, <<"head">>, Durations),
                      Converted(<<"head">>, <<"head">>, Durations),
                      Converted(<<"head", "hand">>, <<"head", "tail">>,
                                [Durations EXCEPT !.m1 = 3])>>,
     candidates |-> candidates, written |-> {}]
ByHand(attachment, bone, start) ==
    [actor |-> "m", vnum |-> 1, effects |->
       <<[event |-> "e", start |-> start, path |-> "fire", bone |-> bone,
          attachment |-> attachment, enabled |-> TRUE]>>]
WorkFlags == {<<TRUE, TRUE, TRUE>>, <<FALSE, FALSE, TRUE>>,
              <<FALSE, TRUE, FALSE>>, <<FALSE, TRUE, TRUE>>}
Whole == <<Candidate1, Candidate2("red")>>
OneWork == WorkOf(<<>>, <<FALSE, TRUE, TRUE>>, "head", Whole)
Attached == <<FALSE, TRUE, FALSE>>
WorkChoices ==
    {WorkOf(<<>>, flags, bone, Whole) :
       flags \in WorkFlags, bone \in {"head", "hand", "tail"}}
    \cup {WorkOf(<<ShowsAt("e1", 0, Attached, bone, "bash")>>,
                 <<FALSE, TRUE, TRUE>>, "head", Whole) : bone \in {"hand", ""}}
    \cup {WorkOf(<<>>, <<FALSE, TRUE, TRUE>>, "head", c) :
            c \in {<<Candidate1>>, <<Candidate1, Candidate2("blue")>>,
                   <<Candidate2("blue"), Candidate1>>,
                   <<Candidate1, Candidate2("red"), Candidate1>>,
                   <<[Candidate1 EXCEPT !.intact = FALSE], Candidate2("red")>>,
                   <<Candidate2("red"),
                     [Candidate1 EXCEPT !.textures = [flame |-> "red"]]>>}}
    \cup {WorkOf(e, <<FALSE, TRUE, TRUE>>, "head", Whole) :
            e \in {<<ShowsAt("e2", 0, Attached, "hand", "bash")>>,
                   <<ShowsAt("e1", 11, Attached, "hand", "bash")>>,
                   <<ShowsAt("e1", 1, Attached, "hand", "x")>>}}
    \cup {[OneWork EXCEPT !.skills =
             <<Install("f1") @@ (<<"m", 2>> :> "m2")>>],
          [OneWork EXCEPT !.characters[1].durations = [m1 |-> 10]],
          [OneWork EXCEPT !.characters[1].intact = FALSE],
          [OneWork EXCEPT !.source.f = <<"head", "head">>],
          [OneWork EXCEPT !.characters[2].joints.f = <<>>],
          [OneWork EXCEPT !.characters[2].joints.f = <<"head", "head">>],
          [OneWork EXCEPT !.characters[2].joints = [m |-> <<"head">>]],
          [OneWork EXCEPT !.inventory[2].action = "m1"],
          [OneWork EXCEPT !.written =
             {<<ByHand("follow_root", "", 3)>>, <<ByHand("follow_bone", "x", 3)>>,
              <<ByHand("follow_bone", "", 3)>>, <<ByHand("follow_root", "", 4),
                ByHand("follow_root", "", 4)>>}]}
=============================================================================
