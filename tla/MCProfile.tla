------------------------------ MODULE MCProfile ------------------------------
EXTENDS Payloads, TLC
Warrior == <<"warrior">>
WildDog == <<"dog">>
Mode(id, ms, req, chains) == [id |-> id, motions |-> ms, required |-> req,
                              chains |-> chains]
MotionOf(a, files, ws) == [action |-> a, files |-> files, weights |-> ws]
Attack == <<"normal", "_", "attack">>
FrontDown == <<"front">>
Dogs(extra) ==
    [id |-> WildDog, kind |-> "mob", vnum |-> 101, key |-> "wild_dog",
     race |-> "dog", hair |-> [index |-> 0], model |-> "dog.gr2",
     output |-> <<"dog">>, yaw |-> 0,
     modes |-> <<Mode(<<"general">>,
                      <<MotionOf(Attack, <<"d1", "d2">>, <<50, 50>>),
                        MotionOf(FrontDown, <<"d3">>, <<>>)>> \o extra,
                      <<>>, <<>>)>>]
Ch == <<"combo", "_", "1">>
Warriors(extraModes, extraMotions, chains) ==
    [id |-> Warrior, kind |-> "player", vnum |-> 0, key |-> "", race |-> "w",
     hair |-> [index |-> 0], model |-> "w.gr2", output |-> <<"w">>,
     yaw |-> 180,
     modes |-> <<Mode(<<"general">>,
                      <<MotionOf(Attack, <<"g1", "g2">>, <<60, 40>>)>>
                        \o extraMotions, <<>>, <<>>),
                 Mode(<<"onehand">>,
                      [n \in 1 .. 4 |-> MotionOf(Chain[n],
                          <<<<"c1", "c2", "c3", "c4">>[n]>>, <<>>)],
                      <<10>>, chains)>> \o extraModes]
OwnChain == <<Chain>>
Sword == <<"sword", "-", "10">>
ItemOf(id, v, out) == [id |-> id, vnum |-> v, mode |-> <<"onehand">>,
                     model |-> "s", output |-> out]
Src(p) == [path |-> p, identity |-> "reviewed"]
Prof(actors, items, derived, revision) ==
    [shaped |-> TRUE, legacy |-> {}, revision |-> revision,
     derived |-> derived, actors |-> actors, items |-> items,
     progression |-> "reviewed",
     primary |-> (<<"general">> :> Attack) @@ (<<"onehand">> :> Chain[1]),
     sources |-> << Src("battle"), Src("items"), Src("mobs"),
                    Src("display") >>]
Win(f, t) == [from |-> f, to |-> t, samples |-> 1, invisible |-> 1]
In(p, d, l) == [pre |-> p, direct |-> d, limit |-> l, link |-> <<1>>]
Raw(e) == [length |-> 10, pinned |-> TRUE, end |-> e]
Mot(len, win, combo, e, re) ==
    [is |-> "read", length |-> len, windows |-> win, areas |-> <<>>,
     combo |-> combo, waves |-> <<>>, end |-> e, raw |-> Raw(re)]
\* End of file: script end turned by 180 equals raw end turned by 180.
Plain(win) == Mot(10, win, <<>>, <<0, 0>>, <<0, 0>>)
Step(k, c) == Mot(10, <<Win(2, 4)>>, <<c>>, <<0, k>>, <<0, k>>)
Terminal == In(2, 4, 8)
Motions0 ==
    ("d1" :> Plain(<<Win(2, 4)>>)) @@ ("d2" :> Plain(<<Win(2, 4)>>))
    @@ ("d3" :> Plain(<<>>)) @@ ("d4" :> Plain(<<>>))
    @@ ("g1" :> Plain(<<Win(2, 4)>>)) @@ ("g2" :> Plain(<<Win(2, 4)>>))
    @@ ("c1" :> Step(1, In(2, 4, 8))) @@ ("c2" :> Step(2, In(2, 4, 8)))
    @@ ("c3" :> Step(3, In(2, 4, 8)))
    @@ ("c4" :> [Mot(10, <<[from |-> 0, to |-> 0, samples |-> 0,
                            invisible |-> 1]>>, <<Terminal>>,
                     <<1, 11>>, <<0, 12>>)
                 EXCEPT !.areas = <<"area">>, !.waves = <<"wave">>])
Scr == [i \in {Sword, <<"sword", "-", "11">>} |->
           [model |-> "s", drop |-> "s"]]
ListLine(v, c) == [vnum |-> v, columns |-> c, model |-> "s"]
Clients(m, converted) ==
    [npclist |-> <<[vnum |-> 101, key |-> "wild_dog"]>>, registered |-> TRUE,
     races |-> [r \in {"w", "dog"} |->
        [model |-> IF r = "w" THEN "w.gr2" ELSE "dog.gr2",
         hair |-> {[index |-> 0]}, defends |-> <<"sphere">>]],
     listed |-> {"d1", "d2", "d3", "d4"}, motions |-> m, scripts |-> Scr,
     itemList |-> <<ListLine(10, 4), ListLine(11, 4), ListLine(12, 3)>>,
     models |-> {"s"},
     converted |-> {Warrior, WildDog} \cup converted, icons |-> {"i"},
     iconless |-> {"n"}]
RowWith(id, v, kind, cls, icon) ==
    [id |-> id, vnum |-> v, kind |-> kind, class |-> cls,
     power |-> IF v = 10 THEN "reviewed" ELSE "other",
     stack |-> IF kind = "weapon" THEN 1 ELSE 200, icon |-> icon]
Potions == <<RowWith(<<"p1">>, 27001, "potion", "none", "i"),
             RowWith(<<"p2">>, 27002, "potion", "none", "n")>>
Sword11 == <<"sword", "-", "11">>
Rows0 == <<RowWith(Sword, 10, "weapon", "sword", "i")>> \o Potions
Rows1 == Rows0 \o <<RowWith(Sword11, 11, "weapon", "sword", "i")>>
SrvItem(v, k, s) == [vnum |-> v, kind |-> k, stackable |-> s,
                     power |-> "reviewed"]
Servers0 == [whole |-> TRUE,
             mobs |-> <<[vnum |-> 101, level |-> 1, experience |-> 15,
                         power |-> "reviewed"]>>,
             items |-> <<SrvItem(10, "sword", FALSE),
                         SrvItem(27001, "potion", TRUE),
                         SrvItem(27002, "potion", TRUE)>>,
             names |-> [v \in {27001, 27002} |-> "reviewed"], stacks |-> 200]
Given(p, c, i) == [profile |-> p, client |-> c, server |-> Servers0,
                   items |-> i]
P0 == Prof(<<Warriors(<<>>, <<>>, OwnChain), Dogs(<<>>)>>,
           <<ItemOf(Sword, 10, <<"o">>)>>, <<>>, "reviewed")
Deriv == <<[kinds |-> {"weapon"}, modes |-> "sword" :> <<"onehand">>]>>
P1 == [P0 EXCEPT !.derived = Deriv]
PX == [P1 EXCEPT !.items = <<ItemOf(Sword, 10, <<"o">>),
                             ItemOf(Sword11, 12, <<"o2">>)>>]
C0 == Clients(Motions0, {Sword})
C1 == Clients(Motions0, {Sword, Sword11})
\* With some of its motions changed; with other motions of the warrior.
CM(m) == Given(P0, Clients(m @@ Motions0, {Sword}), Rows0)
WithMotions(x) ==
    Given([P0 EXCEPT !.actors = <<Warriors(<<>>, x, OwnChain), Dogs(<<>>)>>],
          C0, Rows0)
ProfileChoices ==
    {Given(P0, C0, Rows0), Given(P1, C1, Rows1), Given(PX, C1, Rows1),
     Given(P0, C1, Rows1), Given(P0, C0, Rows1)}
    \cup {CM("c1" :> Step(1, In(a, b, c))) :
            a \in {-1, 2}, b \in {2, 4}, c \in {4, 10, 11}}
    \cup {CM(f :> [Step(1, In(2, 4, 8)) EXCEPT !.windows = w]) :
            f \in {"c1", "c2"}, w \in {<<>>, <<Win(2, 2)>>, <<Win(3, 11)>>,
                                      <<Win(1, 2), Win(3, 4)>>}}
    \cup {CM("c3" :> [Step(3, In(2, 4, 8)) EXCEPT !.raw = r]) :
            r \in {Raw(<<0, 4>>), [Raw(<<0, 3>>) EXCEPT !.length = 9],
                   [Raw(<<0, 3>>) EXCEPT !.pinned = FALSE]}}
    \cup {WithMotions(x) :
            x \in {<<MotionOf(<<"a", "_", "b">>, <<"g1">>, <<>>),
                     MotionOf(<<"a", "-", "b">>, <<"g2">>, <<>>)>>,
                   <<MotionOf(<<"a">>, <<"g1">>, <<>>),
                     MotionOf(<<"a">>, <<"g2">>, <<>>)>>,
                   <<MotionOf(<<"a">>, <<"g1">>, <<50>>)>>,
                   <<MotionOf(<<"a">>, <<"g1", "g2">>, <<100, 0>>)>>,
                   <<MotionOf(<<"a">>, <<"g1", "g2">>, <<30, 70>>)>>}}
McReactions == FrontDown :> 10
McInvulnerable == [n \in 0 .. 5 |-> 1]
=============================================================================
