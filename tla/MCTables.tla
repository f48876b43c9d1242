------------------------------ MODULE MCTables ------------------------------
(* Inputs of the readers of the original's tables, for TLC.                  *)
EXTENDS Drops, Items
-----------------------------------------------------------------------------
(* Tables of drops                                                           *)

\* Three items, the second with a name longer than is stored, the third a
\* range; only the first two are registered.
N(n) == <<"#", n>>
Proto == << [from |-> 20, to |-> 20, name |-> <<"b", "b", "c">>],
            [from |-> 10, to |-> 10, name |-> <<"a">>],
            [from |-> 30, to |-> 32, name |-> <<"a", "a">>] >>

L(head, values) == [head |-> head, values |-> values]
OpenOf(kind, mob) ==
    << L("group", << <<"g">> >>), L("{", <<>>), L("type", << <<kind>> >>),
       L("mob", <<N(mob)>>), L("kill_drop", <<N(2)>>),
       L("level_limit", <<N(3)>>) >>
RowLine(key, token, count, percent, rare) ==
    L(key, <<token, N(count), percent, N(rare)>>)

A1 == RowLine("1", <<"a">>, 1, N(60), 0)
B1 == RowLine("1", <<"b">>, 70000, N(40), 101)
B2 == RowLine("2", <<"b", "b">>, 1, N(30), 1)
R2 == RowLine("2", <<"#", 31>>, 2, <<"#", 1, 1638>>, 1)
Closing == L("}", <<>>)

\* Texts put together from pieces, in any order.
Pieces == { OpenOf("drop", 1), <<A1>>, <<B1, L("", <<>>)>>, <<B2>>,
            <<Closing>>,
            << L("list", << <<"2">> >>), L("{", <<>>), L("b", <<N(4), N(5)>>),
               Closing >> }
Texts == {OpenOf("drop", 2) \o FlattenSeq(s) :
            s \in UNION {[1 .. n -> Pieces] : n \in 1 .. 4}}

\* Two groups of any kinds, of one monster or two.
Bodies == {<<A1>>, <<A1, B2>>, <<A1, R2>>, <<R2>>,
           <<RowLine("1", <<"#", 31>>, 1, N(60), 0), B2>>,
           <<A1, RowLine("2", <<"b">>, 1, N(-1), 0)>>,
           <<RowLine("1", <<"b">>, 0, N(1), 0)>>,
           <<L("1", << <<"a">>, N(1) >>)>>,
           <<L("kill_drop", <<N(0)>>), A1>>}
Body(kind, mob, lines) == OpenOf(kind, mob) \o lines \o <<Closing>>
Pairs == {Body(k, 1, a) \o Body(l, m, b) :
            k, l \in Range(Kinds), m \in {1, 2}, a, b \in Bodies}
Broken == { << L("group", <<>>) >>, << L("list", <<>>), L("x", <<>>) >>,
            OpenOf("other", 1), << L("group", << <<"g">> >>) >>,
            << L("group", << <<"g">> >>), L("type", << <<"kill">> >>),
               L("mob", <<N(1)>>) >> }

\* A group of kills that has no weight, or less.
Weightless(n) ==
    << L("group", << <<"g">> >>), L("type", << <<"kill">> >>),
       L("mob", <<N(1)>>), L("kill_drop", <<N(n)>>), A1, Closing >>

\* A common line for one rank, then another.
Cells(from, to, percent, token) ==
    <<<<>>, N(from), N(to), percent, token, N(1)>>
GoodCells == Cells(1, 3, N(2), <<"a">>)
CommonLine == {GoodCells \o GoodCells, <<>>, GoodCells,
               Cells(2, 9, <<"#", 0, 1638>>, <<"b", "b", "c">>)
                 \o Cells(0, 1, N(1), <<"a">>),
               Cells(7, 9, N(1), <<"b">>) \o Cells(3, 2, N(1), <<"b">>),
               Cells(1, 1, N(1), <<"z">>) \o GoodCells,
               Cells(1, 2, N(1), <<"#", 31>>) \o GoodCells,
               GoodCells \o Cells(-1, 2, N(1), <<"a">>),
               Tail(Cells(3, 4, N(2), <<"a">>)) \o GoodCells}
GoodText == OpenOf("kill", 1) \o <<A1, B2, Closing>>
Good == [proto |-> Proto, common |-> <<GoodCells \o GoodCells>>,
         mob |-> GoodText,
         mobs |-> <<[vnum |-> 1, ranked |-> TRUE]>>,
         registry |-> <<10, 20>>,
         delta |-> [declared |-> <<"d">>, digest |-> "d", values |-> 31,
                    bounded |-> TRUE]]
Sources ==
    {[Good EXCEPT !.mob = t] : t \in Texts \cup Pairs \cup Broken
        \cup {Weightless(n) \o b : n \in {0, -1}, b \in {<<>>, GoodText}}}
      \cup {[Good EXCEPT !.common = <<a, GoodCells \o GoodCells, b>>] :
              a, b \in CommonLine}
      \cup {[Good EXCEPT !.common = <<a>>] : a \in CommonLine}
      \cup { [Good EXCEPT !.proto = <<>>],
             [Good EXCEPT !.proto = Append(@, @[1])],
             [Good EXCEPT !.proto[1].to = 19],
             [Good EXCEPT !.mobs = Append(@, @[1])],
             [Good EXCEPT !.mobs[1].ranked = FALSE],
             [Good EXCEPT !.mobs[1].vnum = 7],
             [Good EXCEPT !.registry = <<10, 10>>],
             [Good EXCEPT !.registry = <<10>>],
             [Good EXCEPT !.registry = <<10>>, !.mob = OpenOf("kill", 1) \o
                <<B1, RowLine("2", <<"a">>, 1, N(30), 1), Closing>>],
             [Good EXCEPT !.delta.digest = "e"],
             [Good EXCEPT !.delta.declared = <<>>] }
-----------------------------------------------------------------------------
(* Tables of items                                                           *)

Sel(v) == [id |-> ToString(v), vnum |-> v]
Document(rows, include) == [items |-> rows, include |-> include,
                            shaped |-> TRUE]
ProtoRow(v) == [vnum |-> v, columns |-> 33, type |-> "ITEM_WEAPON",
           sub |-> "WEAPON_SWORD", wear |-> "WEAR_WEAPON", flags |-> {},
           limits |-> << <<"LEVEL", 5>>, <<"LIMIT_NONE", 0>> >>,
           stackable |-> FALSE, applies |-> << <<"APPLY_NONE", 0>> >>,
           power |-> <<1, 2, 3>>]
AllFlags == Range(AntiClass) \cup Range(AntiSex)
OneDoc == [d \in {"profile"} |-> Document(<<Sel(1)>>, <<>>)]
Includes == {<<>>, <<"a">>, <<"b">>, <<"c">>, <<"gone">>, <<"profile">>}
Graphs == [{"profile", "a", "b"} -> {Document(r, i) : i \in Includes,
             r \in {<<>>, <<Sel(2), Sel(1)>>, <<Sel(3)>>}}]
ChainOfDocs == [d \in {"profile", "a", "b", "c"} |->
            CASE d = "profile" -> Document(<<Sel(3)>>, <<"a">>)
              [] d = "a" -> Document(<<Sel(1)>>, <<"b">>)
              [] d = "b" -> Document(<<>>, <<"c">>)
              [] d = "c" -> Document(<<Sel(2)>>, <<>>)]
Rows123 == <<ProtoRow(1), ProtoRow(2), ProtoRow(3)>>
Table(docs, proto) == [docs |-> docs, proto |-> proto,
                       names |-> <<1, 2, 3>>]
Variants == {[ProtoRow(1) EXCEPT !.flags = f] : f \in SUBSET AllFlags}
  \cup {[ProtoRow(1) EXCEPT !.type = k[1], !.sub = k[2], !.wear = k[3],
                       !.stackable = b, !.applies = <<a, a>>] :
          k \in {<<"ITEM_WEAPON", "WEAPON_SWORD", "WEAR_WEAPON">>,
                 <<"ITEM_WEAPON", "WEAPON_BOW", "WEAR_WEAPON">>,
                 <<"ITEM_USE", "USE_POTION", "NONE">>,
                 <<"ITEM_ARMOR", "ARMOR_BODY", "WEAR_BODY">>,
                 <<"ITEM_NONE", "NONE", "NONE">>}, b \in BOOLEAN,
          a \in {<<"APPLY_ATT_SPEED", 8>>, <<"APPLY_STR", 1>>,
                 <<"unknown", 1>>}}
  \cup {[ProtoRow(1) EXCEPT !.limits = <<k, l>>, !.power = p] :
          k, l \in {<<"LEVEL", 5>>, <<"LEVEL", 300>>, <<"LIMIT_NONE", 0>>,
                    <<"STR", 1>>},
          p \in {<<1, 2, 3>>, <<3, 2, 1>>, <<0, 65535, 1>>}}
  \cup {[ProtoRow(1) EXCEPT !.columns = 32],
          [ProtoRow(1) EXCEPT !.flags = {"ANTI_DROP"}]}
ItemTables ==
    {Table(g, Rows123) : g \in Graphs \cup {ChainOfDocs}}
      \cup {Table(OneDoc, <<v>>) : v \in Variants}
      \cup {Table(OneDoc, <<>>), Table(OneDoc, <<ProtoRow(1), ProtoRow(1)>>),
            [Table(OneDoc, Rows123) EXCEPT !.names = <<1, 1>>],
            Table([OneDoc EXCEPT !["profile"].shaped = FALSE], Rows123),
            Table([OneDoc EXCEPT !["profile"].items = <<Sel(0)>>], Rows123)}
=============================================================================
