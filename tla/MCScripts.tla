------------------------------ MODULE MCScripts ------------------------------
EXTENDS Scripts, TLC

F(f, v) == <<f, v>>
G(n) == <<"Group", <<n>>, "{">>
Of(type) == F("ScriptType", type)
End == <<"}">>
ItemLines == <<Of("ItemDataScript"), F("Type", 1), F("ModelFileName", 1),
          F("DropModelFileName", 1)>>

\* Every arrangement of four lines.
ScriptPieces == {<<"Group", <<"a">>>>, <<"List", <<"b">>, "{">>, <<"{">>, End,
                 F("f", 1), F("}", 1), <<>>}
Nested == {[lines |-> ItemLines \o s, post |-> FALSE, unlinked |-> FALSE] :
             s \in UNION {[1 .. n -> ScriptPieces] : n \in 0 .. 4}}

\* Motions of ten microseconds, each part of them there or not, sound or not.
ComboLines(link) ==
    <<G("ComboInputData"), F("PreInputTime", 2), F("DirectInputTime", 5),
      F("InputLimitTime", 20), F("LinkTime", link), End>>
Hit(n, from, to) ==
    << <<"Group", <<"HitData", n>>>>, <<"{">>, F("AttackingStartTime", from),
       F("AttackingEndTime", to), <<"List", <<"HitPosition">>, "{">>,
       <<"at", from, 0, 0, 0, 0, 0, 0>>, End, End>>
AttackLines == {<<>>, <<G("AttackingData"), F("AttackingStartTime", 1),
                        F("AttackingEndTime", 19), End>>,
                <<G("AttackingData"), F("HitDataCount", 0), End>>,
                <<G("AttackingData"), F("HitDataCount", 0),
                  F("AttackingStartTime", 1), F("AttackingEndTime", 2), End>>,
                <<G("AttackingData"), F("HitDataCount", 2)>>
                  \o Hit(1, 2, 4) \o Hit(2, 6, 20) \o <<End>>,
                <<G("AttackingData"), F("HitDataCount", 2)>>
                  \o Hit(1, 2, 4) \o <<End>>,
                <<G("AttackingData")>> \o Hit(1, 2, 24) \o <<End>>,
                <<G("AttackingData"), F("AttackingStartTime", 1), End>>}
EventLines(type, during, spheres) ==
    <<G("MotionEventData"), F("MotionEventDataCount", 1),
      <<"Group", <<"Event", 1>>, "{">>, F("MotionEventType", type),
      F("StartingTime", 7), F("DuringTime", during), F("HittingType", 0),
      F("SphereDataCount", spheres), <<"Group", <<"SphereData", 0>>, "{">>,
      F("Radius", 1), <<"Position", 1, 2, 3>>, End, End, End>>
AreaLines == {<<>>} \cup {EventLines(t, d, s) :
                         t \in {1, 4}, d \in {1, 14, 80}, s \in {1, 2}}
MotionLines(combo, attack, areas) ==
    <<Of("MotionData"), F("MotionFileName", 1), F("MotionDuration", 19)>>
      \o combo \o attack \o areas
Motions == {[lines |-> MotionLines(c, a, e), post |-> p, unlinked |-> u] :
              c \in {<<>>, ComboLines(8), ComboLines(30)}, a \in AttackLines,
              e \in AreaLines, p, u \in BOOLEAN}
OtherScripts ==
    { <<Of("RaceDataScript"), F("BaseModelFileName", 1), G("HairData"),
        F("PathName", 1), F("HairDataCount", n),
        <<"Group", <<"HairData", 0>>, "{">>, F("HairIndex", 0), End, End,
        G("AttachingData"), F("AttachingDataCount", 1),
        <<"Group", <<"AttachingData", 0>>, "{">>, F("SphereDataCount", m),
        F("CollisionType", 1), <<"Group", <<"SphereData", 0>>, "{">>,
        F("Radius", r), <<"Position", 1, 2, 3>>, End, End, End>> :
          n, m \in {0, 1}, r \in {-1, 1}}
      \cup {<<Of("OtherScript")>>, <<>>, <<Of("ItemDataScript")>>,
            MotionLines(<<F("Speed", 1)>>, <<>>, <<>>),
            MotionLines(ComboLines(8) \o ComboLines(8), <<>>, <<>>)}
ScriptSources == Nested \cup Motions
                   \cup {[lines |-> o, post |-> FALSE, unlinked |-> FALSE] :
                           o \in OtherScripts}
=============================================================================
