------------------------------ MODULE Scripts ------------------------------
(* The scripts of the original client: blocks of fields, lists and further   *)
(* blocks, read line by line, and the motion, race or item read out of them. *)
(*                                                                           *)
(* Source: tools/content_formats.py.  A line is the sequence of its tokens;  *)
(* the name of a block is a pair, so that <<"HitData", 1>> starts with       *)
(* "HitData"; a row of seven numbers has "at" before them.  A time is a      *)
(* whole number of half microseconds in the script and of microseconds once  *)
(* read.  Characters, paths, lengths, points and the numbers that are only   *)
(* copied are left out.                                                      *)
EXTENDS Integers, Sequences, SequencesExt, FiniteSets, FiniteSetsExt

CONSTANTS
    ScriptTexts,    \* what may be read: [lines, post, unlinked]
    MaxTime,        \* the longest time, an hour
    SplashTime      \* how long an area may live, ten seconds

\* A text is a list of lines.
ASSUME ScriptsAssumption ==
    \A t \in ScriptTexts :
      Len(t.lines) \in Nat /\ DOMAIN t.lines = 1 .. Len(t.lines)

VARIABLES
    script,     \* the text and what its profile allows
    readAt,     \* the next line, or 0
    blocks,     \* the blocks, in the order of their lines, the root first
    within,     \* those that are open
    pending,    \* one declared, its brace still to come, or 0
    meaning     \* what was read out of it

scriptVars == <<script, readAt, blocks, within, pending, meaning>>

NewBlock(kind, name) ==
    [kind |-> kind, name |-> name, fields |-> <<>>, rows |-> <<>>,
     groups |-> <<>>]

ScriptsStart ==
    /\ readAt = 1
    /\ blocks = <<NewBlock("root", <<"">>)>> /\ within = <<1>> /\ pending = 0
    /\ meaning = [is |-> "unread"]

ScriptsInit == script \in ScriptTexts /\ ScriptsStart

-----------------------------------------------------------------------------
(* parse_legacy_script *)

Tokens == script.lines[readAt]
Reading == readAt \in DOMAIN script.lines
Reads == Reading /\ readAt' = readAt + 1 /\ UNCHANGED <<script, meaning>>
Reject == /\ readAt' = 0 /\ meaning' = [is |-> "refused"]
          /\ UNCHANGED <<script, blocks, within, pending>>
InnermostFault == 1

Innermost == Last(within)

SkipComment ==
    Reads /\ Tokens = <<>> /\ UNCHANGED <<blocks, within, pending>>

OpenBrace ==
    /\ Reading /\ Tokens = <<"{">>
    /\ IF pending = 0 THEN Reject
       ELSE /\ Reads /\ within' = Append(within, pending) /\ pending' = 0
            /\ UNCHANGED blocks

CloseBrace ==
    /\ Reading /\ Tokens = <<"}">>
    /\ IF pending # 0 \/ Len(within) = 1 THEN Reject
       ELSE Reads /\ within' = Front(within) /\ UNCHANGED <<blocks, pending>>

Declares(tokens) == tokens # <<>> /\ tokens[1] \in {"Group", "List"}

\* The brace may be on the same line.
Declare ==
    /\ Reading /\ Declares(Tokens)
    /\ LET braced == Len(Tokens) = 3
           new == Len(blocks) + 1
       IN IF \/ Len(Tokens) \notin {2, 3} \/ pending # 0
             \/ braced /\ Tokens[3] # "{"
          THEN Reject
          ELSE /\ Reads
               /\ blocks' = Append([blocks EXCEPT ![Innermost].groups =
                                      Append(@, new)],
                                   NewBlock(Tokens[1], Tokens[2]))
               /\ within' = IF braced THEN Append(within, new) ELSE within
               /\ pending' = IF braced THEN 0 ELSE new

\* A list takes any line, one with more than a brace too; a field of a block has a value and is there once.
ReadField ==
    /\ Reading /\ Tokens # <<>> /\ Tokens # <<"{">> /\ Tokens # <<"}">>
    /\ ~Declares(Tokens)
    /\ LET block == blocks[Innermost]
       IN CASE pending # 0 -> Reject
            [] pending = 0 /\ block.kind = "List" ->
                 /\ blocks' = [blocks EXCEPT ![Innermost].rows =
                                 Append(@, Tokens)]
                 /\ Reads /\ UNCHANGED <<within, pending>>
            [] OTHER ->
                 IF \/ Len(Tokens) < 2
                    \/ \E i \in DOMAIN block.fields :
                         block.fields[i][1] = Tokens[1]
                 THEN Reject
                 ELSE /\ blocks' = [blocks EXCEPT ![Innermost].fields =
                                      Append(@, Tokens)]
                      /\ Reads /\ UNCHANGED <<within, pending>>

-----------------------------------------------------------------------------
(* Fields and times *)

Has(b, f) == \E i \in DOMAIN b.fields : b.fields[i][1] = f
Values(b, f) ==
    Tail(b.fields[CHOOSE i \in DOMAIN b.fields : b.fields[i][1] = f])
One(b, f) == Has(b, f) /\ Len(Values(b, f)) = 1
NoneOrOne(b, f) == Has(b, f) => One(b, f)
Value(b, f, default) == IF Has(b, f) THEN Values(b, f)[1] ELSE default

IsTime(h) == h \in 0 .. 2 * MaxTime
Us(h) == (h + 1) \div 2
OneTime(b, f) == One(b, f) /\ IsTime(Value(b, f, 0))
NoneOrTime(b, f) == Has(b, f) => OneTime(b, f)

Inner(b) == [i \in DOMAIN b.groups |-> blocks[b.groups[i]]]
Named(b, n) == SelectSeq(Inner(b), LAMBDA g : g.name = <<n>>)
Starting(b, n) == SelectSeq(Inner(b), LAMBDA g : g.name[1] = n)
AtMostOneGroup(b, n) == Len(Named(b, n)) <= 1

-----------------------------------------------------------------------------
(* parse_msa *)

Length(root) == Us(Value(root, "MotionDuration", 0))

\* Without further blocks the group is its own window, unless it says zero.
AttackRecords(a) ==
    LET hits == Starting(a, "HitData")
    IN IF hits = <<>> /\ Value(a, "HitDataCount", 1) # 0 THEN <<a>> ELSE hits

HasWindow(r) == Has(r, "AttackingStartTime") \/ Has(r, "AttackingEndTime")
From(r) == Us(Value(r, "AttackingStartTime", 0))
To(r) == Us(Value(r, "AttackingEndTime", 0))
Samples(r) == IF Named(r, "HitPosition") = <<>> THEN <<>>
              ELSE Named(r, "HitPosition")[1].rows

WindowIsSound(r, length) ==
    HasWindow(r) =>
      /\ OneTime(r, "AttackingStartTime") /\ OneTime(r, "AttackingEndTime")
      /\ From(r) <= To(r) /\ To(r) <= length
      /\ AtMostOneGroup(r, "HitPosition")
      /\ \A i \in DOMAIN Samples(r) :
           LET row == Samples(r)[i]
           IN Len(row) = 8 /\ IsTime(row[2])
                /\ From(r) <= Us(row[2]) /\ Us(row[2]) <= To(r)

AttackIsSound(a, length) ==
    /\ NoneOrOne(a, "HitDataCount")
    /\ Value(a, "HitDataCount", 1) = 0 => ~HasWindow(a)
    /\ Has(a, "HitDataCount") =>
         Value(a, "HitDataCount", 0) = Len(AttackRecords(a))
    /\ \A i \in DOMAIN AttackRecords(a) :
         WindowIsSound(AttackRecords(a)[i], length)

Windows(a) ==
    LET timed == SelectSeq(AttackRecords(a), HasWindow)
    IN [i \in DOMAIN timed |->
          [from |-> From(timed[i]), to |-> To(timed[i]),
           samples |-> [j \in DOMAIN Samples(timed[i]) |->
                          Us(Samples(timed[i])[j][2])]]]

\* Only attack areas are understood; one may outlive the clip if allowed.
EventStart(e) == Us(Value(e, "StartingTime", 0))
EventEnd(e) == EventStart(e) + Us(Value(e, "DuringTime", 0))
IsArea(e) == Value(e, "MotionEventType", 0) = 4

SphereIsSound(s) ==
    /\ One(s, "Radius") /\ Has(s, "Position")
    /\ Value(s, "Radius", 0) >= 0 /\ Len(Values(s, "Position")) = 3

SpheresAreSound(e) ==
    LET spheres == Starting(e, "SphereData")
    IN /\ One(e, "SphereDataCount")
       /\ Value(e, "SphereDataCount", 0) = Len(spheres)
       /\ \A i \in DOMAIN spheres : SphereIsSound(spheres[i])

EventIsSound(e, length) ==
    /\ One(e, "MotionEventType") /\ OneTime(e, "StartingTime")
    /\ NoneOrTime(e, "DuringTime")
    /\ EventStart(e) <= length
    /\ EventEnd(e) <= (IF script.post /\ IsArea(e)
                       THEN EventStart(e) + SplashTime ELSE length)
    /\ IsArea(e) => SpheresAreSound(e) /\ One(e, "HittingType")

EventsAreSound(m, length) ==
    LET events == Starting(m, "Event")
    IN /\ One(m, "MotionEventDataCount")
       /\ Value(m, "MotionEventDataCount", 0) = Len(events)
       /\ \A i \in DOMAIN events : EventIsSound(events[i], length)

Areas(m) ==
    LET areas == SelectSeq(Starting(m, "Event"), IsArea)
    IN [i \in DOMAIN areas |->
          [from |-> EventStart(areas[i]), to |-> EventEnd(areas[i]),
           spheres |-> Len(Starting(areas[i], "SphereData"))]]

\* A link time counts unless the profile says it is obsolete; bounds after
\* the clip are kept, as unsupported, if allowed.
Combo(c) ==
    [pre |-> Us(Value(c, "PreInputTime", 0)),
     direct |-> Us(Value(c, "DirectInputTime", 0)),
     limit |-> Us(Value(c, "InputLimitTime", 0)),
     link |-> IF Has(c, "LinkTime") /\ ~script.unlinked
              THEN <<Us(Value(c, "LinkTime", 0))>> ELSE <<>>]

PostClip(c, length) ==
    \E t \in {c.pre, c.direct, c.limit} \cup Range(c.link) : t > length

ComboIsSound(c, length) ==
    /\ \A f \in {"PreInputTime", "DirectInputTime", "InputLimitTime"} :
         OneTime(c, f)
    /\ NoneOrOne(c, "LinkTime")
    /\ Has(c, "LinkTime") /\ ~script.unlinked => OneTime(c, "LinkTime")
    /\ PostClip(Combo(c), length) => script.post

KnownFields == {"ScriptType", "MotionFileName", "MotionDuration",
                "Accumulation", "CancelEnableSkill"}
Groups3 == {"ComboInputData", "AttackingData", "MotionEventData"}

ReadMotion(root) ==
    LET attack == Named(root, "AttackingData")
        combo == Named(root, "ComboInputData")
        events == Named(root, "MotionEventData")
        sound ==
          /\ OneTime(root, "MotionDuration") /\ Length(root) > 0
          /\ One(root, "MotionFileName")
          /\ Has(root, "Accumulation") =>
               Len(Values(root, "Accumulation")) = 3
          /\ \A n \in Groups3 : AtMostOneGroup(root, n)
          /\ attack # <<>> => AttackIsSound(attack[1], Length(root))
          /\ combo # <<>> => ComboIsSound(combo[1], Length(root))
          /\ events # <<>> => EventsAreSound(events[1], Length(root))
    IN IF ~sound THEN [is |-> "refused"]
       ELSE [is |-> "motion", length |-> Length(root),
             windows |-> IF attack = <<>> THEN <<>> ELSE Windows(attack[1]),
             areas |-> IF events = <<>> THEN <<>> ELSE Areas(events[1]),
             combo |-> [i \in DOMAIN combo |-> Combo(combo[i])],
             unsupported |->
               \/ {f[1] : f \in Range(root.fields)} \ KnownFields # {}
               \/ {Inner(root)[i].name : i \in DOMAIN Inner(root)}
                    \ {<<n>> : n \in Groups3} # {}
               \/ combo # <<>> /\ PostClip(Combo(combo[1]), Length(root))
               \/ /\ events # <<>>
                  /\ Len(Areas(events[1])) < Len(Starting(events[1],
                                                          "Event"))]

-----------------------------------------------------------------------------
(* parse_race_script and parse_item_script *)

CountedSpheres(a) ==
    /\ One(a, "SphereDataCount") /\ One(a, "CollisionType")
    /\ Value(a, "SphereDataCount", 0) = Len(Starting(a, "SphereData"))
    /\ \A i \in DOMAIN Starting(a, "SphereData") :
         SphereIsSound(Starting(a, "SphereData")[i])

ReadRace(root) ==
    LET hair == Named(root, "HairData")
        attached == Named(root, "AttachingData")
        heads == IF hair = <<>> THEN <<>> ELSE Starting(hair[1], "HairData")
        bones == IF attached = <<>> THEN <<>>
                 ELSE Starting(attached[1], "AttachingData")
        sound ==
          /\ One(root, "BaseModelFileName")
          /\ AtMostOneGroup(root, "HairData")
          /\ AtMostOneGroup(root, "AttachingData")
          /\ hair # <<>> =>
               /\ One(hair[1], "PathName") /\ One(hair[1], "HairDataCount")
               /\ Value(hair[1], "HairDataCount", 0) = Len(heads)
               /\ \A i \in DOMAIN heads : One(heads[i], "HairIndex")
          /\ attached # <<>> =>
               /\ One(attached[1], "AttachingDataCount")
               /\ Value(attached[1], "AttachingDataCount", 0) = Len(bones)
               /\ \A i \in DOMAIN bones : CountedSpheres(bones[i])
    IN IF ~sound THEN [is |-> "refused"]
       ELSE [is |-> "race", hair |-> Len(heads), bones |-> Len(bones)]

ReadItem(root) ==
    IF \A f \in {"Type", "ModelFileName", "DropModelFileName"} : One(root, f)
    THEN [is |-> "item", type |-> Value(root, "Type", 0)]
    ELSE [is |-> "refused"]

EndScript ==
    /\ readAt = Len(script.lines) + 1
    /\ IF pending # 0 \/ Len(within) # 1 \/ ~One(blocks[1], "ScriptType")
       THEN Reject
       ELSE LET type == Value(blocks[1], "ScriptType", "")
            IN /\ readAt' = 0
               /\ meaning' = CASE type = "MotionData" -> ReadMotion(blocks[1])
                               [] type = "RaceDataScript" ->
                                    ReadRace(blocks[1])
                               [] type = "ItemDataScript" ->
                                    ReadItem(blocks[1])
                               [] OTHER -> [is |-> "refused"]
               /\ UNCHANGED <<script, blocks, within, pending>>

ScriptsNext ==
    \/ SkipComment \/ OpenBrace \/ CloseBrace \/ Declare \/ ReadField
    \/ EndScript

ScriptsSpec == ScriptsInit /\ [][ScriptsNext]_scriptVars

-----------------------------------------------------------------------------
(* What the text says as a whole *)

Opens(i) == \/ script.lines[i] = <<"{">>
            \/ Declares(script.lines[i]) /\ Len(script.lines[i]) = 3
Shuts(i) == script.lines[i] = <<"}">>
Depth(i, j) == Cardinality({k \in i .. j : Opens(k)})
                 - Cardinality({k \in i .. j : Shuts(k)})

\* The line that declares the block whose braces are around line i.
DeclaredAt(i) ==
    LET around == {o \in 1 .. i - 1 :
                     Opens(o) /\ \A k \in o .. i - 1 : Depth(o, k) >= 1}
        last == Max(around)
    IN IF around = {} THEN 0
       ELSE IF Declares(script.lines[last]) THEN last
       ELSE Max({d \in 1 .. last : Declares(script.lines[d])})

Said(i) == script.lines[i] # <<>> /\ ~Opens(i) /\ ~Shuts(i)
             /\ ~Declares(script.lines[i])

\* The block whose declaration is line d: the blocks are numbered in order.
BlockOf(d) ==
    IF d = 0 THEN blocks[1]
    ELSE blocks[1 + Cardinality({k \in 1 .. d : Declares(script.lines[k])})]

SaidIn(d) ==
    {i \in DOMAIN script.lines : Said(i) /\ DeclaredAt(i) = d}
DeclaredIn(d) ==
    {i \in DOMAIN script.lines :
       Declares(script.lines[i]) /\ DeclaredAt(i) = d}
Written(b) == IF b.kind = "List" THEN b.rows ELSE b.fields
Place(lines, i) == Cardinality(lines \cap 1 .. i)

\* In a script that is understood every line belongs to the block whose
\* braces are around it, every block to the one its declaration stands in,
\* in the order they were written, and every brace is closed.
BlocksAreBraces ==
    meaning.is \notin {"unread", "refused"} =>
      /\ Depth(1, Len(script.lines)) = 0
      /\ \A d \in {0} \cup {k \in DOMAIN script.lines :
                              Declares(script.lines[k])} :
           LET said == SaidIn(d)
               inner == DeclaredIn(d)
               b == BlockOf(d)
           IN /\ Len(Written(b)) = Cardinality(said)
              /\ \A i \in said :
                   Written(b)[Place(said, i)] = script.lines[i]
              /\ Len(b.groups) = Cardinality(inner)
              /\ \A i \in inner :
                   Inner(b)[Place(inner, i)] = BlockOf(i)
=============================================================================
