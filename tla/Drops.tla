------------------------------- MODULE Drops -------------------------------
(* From the drop tables of the original server to the catalogue of drops the *)
(* module rolls: the reader of its text files, the lookup of item names, the *)
(* common rows by rank, the groups of a monster, and their narrowing to the  *)
(* selected monsters and registered items.                                   *)
(*                                                                           *)
(* Source: tools/metin_drops.py and tools/build_drop_catalog.py.  One step   *)
(* is one line or one table.  A token is the sequence of its letters; a      *)
(* number is <<"#", n>>, and <<"#", n, k>> is n + k / 2^14 (which binary32   *)
(* holds exactly).  Characters, letter case, quotes, statistics, hashes and  *)
(* diagnostics are left out; numbers fit a machine word.                     *)
EXTENDS Integers, Sequences, SequencesExt, FiniteSets, FiniteSetsExt

CONSTANTS
    DropSources,    \* what may be compiled
    Ranks,          \* the ranks that have common rows
    RowKeyLimit,    \* rows are probed up to this key
    NameMax,        \* letters of a stored item name
    LevelCap,       \* PLAYER_MAX_LEVEL
    CountMax,       \* the largest stack
    PercentMax      \* the largest part or rare percent

\* A text is a list of lines.
ASSUME DropsAssumption ==
    /\ RowKeyLimit \in Nat /\ LevelCap \in Nat /\ CountMax \in Nat \ {0}
    /\ \A source \in DropSources : /\ source.mob \in Seq(Range(source.mob))
                                   /\ source.common \in Seq(Range(source.common))

VARIABLES
    tables,     \* the source being compiled
    dropStage,      \* what is being read
    at,         \* the next line, node or table
    nodes,      \* the groups of the text file, the global one first
    open,       \* the groups whose brace is still open
    corpus,     \* [items, common, groups]
    catalog     \* [common, groups]

dropVars == <<tables, dropStage, at, nodes, open, corpus, catalog>>

Kinds == <<"drop", "kill", "limit", "thiefgloves">>
NoToken == <<"none">>
NoItem == 0
Nothing == <<>>

\* A function that has one value more, unless it has one there.
Added(f, x, value) ==
    [y \in DOMAIN f \cup {x} |-> IF y \in DOMAIN f THEN f[y] ELSE value]

\* The elements of a list that stand at these places, in their order.
Nth(places, i) ==
    CHOOSE p \in places : Cardinality({q \in places : q <= p}) = i
Those(s, places) == [i \in 1 .. Cardinality(places) |-> s[Nth(places, i)]]

-----------------------------------------------------------------------------
(* Tokens and item names *)

\* atol: the integer a token starts with, 0 when it starts with none.
Number(t) == IF Len(t) > 1 /\ t[1] = "#" /\ t[2] \in Int THEN t[2] ELSE 0

\* Ten-thousandths, truncated.
Percent10k(t) ==
    10000 * Number(t)
      + (IF Len(t) = 3 /\ t[1] = "#" THEN (10000 * t[3]) \div 16384 ELSE 0)

\* A word of more than one letter is no key or kind that is asked for.
Word(t) == IF Len(t) = 1 THEN t[1] ELSE ""

Stored(name) == SubSeq(name, 1, Min({Len(name), NameMax}))

\* item_proto.txt: a row has a vnum, or an inclusive range of them.
ItemRow(row) == [vnum |-> row.from, name |-> Stored(row.name),
                 span |-> IF row.to = row.from THEN 0 ELSE row.to - row.from]

ItemTableIsSound(rows) ==
    /\ rows # <<>>
    /\ \A i \in DOMAIN rows : rows[i].to >= rows[i].from
    /\ \A i, j \in DOMAIN rows : rows[i].from = rows[j].from => i = j

\* The prototype of the lowest vnum whose name starts with the token.
ByOriginalName(items, t) ==
    LET named == {i \in items : IsPrefix(t, i.name)}
    IN IF named = {} THEN NoItem ELSE Min({i.vnum : i \in named})

IsPrototype(items, v) ==
    \E i \in items : v = i.vnum \/ (i.vnum < v /\ v < i.vnum + i.span)

Resolve(items, t) ==
    LET named == ByOriginalName(items, t)
    IN IF named # NoItem THEN named
       ELSE IF IsPrototype(items, Number(t)) THEN Number(t) ELSE NoItem

-----------------------------------------------------------------------------
Arrives(s) == dropStage' = s /\ at' = 1
Refuse == /\ dropStage' = "refused"
          /\ UNCHANGED <<tables, at, nodes, open, corpus, catalog>>

DropsStart ==
    /\ dropStage = "items" /\ at = 1
    /\ nodes = <<[name |-> "global", parent |-> 0, rows |-> Nothing]>>
    /\ open = <<1>>
    /\ corpus = [items |-> {}, common |-> [r \in Ranks |-> <<>>],
                 groups |-> [k \in Range(Kinds) |-> Nothing]]
    /\ catalog = [common |-> [r \in Ranks |-> <<>>], groups |-> Nothing]

DropsInit == tables \in DropSources /\ DropsStart

ReadItems ==
    /\ dropStage = "items"
    /\ IF ItemTableIsSound(tables.proto)
       THEN /\ Arrives("common")
            /\ corpus' = [corpus EXCEPT !.items =
                            {ItemRow(r) : r \in Range(tables.proto)}]
            /\ UNCHANGED <<tables, nodes, open, catalog>>
       ELSE Refuse

-----------------------------------------------------------------------------
(* common_drop_item.txt: six fields for each rank, behind one cursor *)

\* A field the line does not reach is empty.
Block(line, rank) ==
    LET Cell(f) == IF 6 * (rank - 1) + f > Len(line) THEN <<>>
                   ELSE line[6 * (rank - 1) + f]
    IN [from |-> Number(Cell(2)), to |-> Number(Cell(3)),
        percent |-> Percent10k(Cell(4)), name |-> Stored(Cell(5))]

Reachable(from, to) == from <= LevelCap /\ from <= to

CommonRow(b) ==
    [from |-> b.from, to |-> b.to, percent |-> b.percent,
     vnum |-> Resolve(corpus.items, b.name),
     reachable |-> Reachable(b.from, b.to)]

\* Rows are kept by the end of their band, equal ones as they came.
Insert(rows, row) ==
    Those(rows, {i \in DOMAIN rows : rows[i].to <= row.to}) \o <<row>>
      \o Those(rows, {i \in DOMAIN rows : rows[i].to > row.to})

\* A name is looked up even for a block that was not reached.
ReadCommonLine ==
    /\ dropStage = "common" /\ at <= Len(tables.common)
    /\ LET line == tables.common[at]
           blocks == [r \in Ranks |-> Block(line, r)]
       IN IF line # <<>> /\ \E r \in Ranks :
                              Resolve(corpus.items, blocks[r].name) = NoItem
          THEN Refuse
          ELSE /\ at' = at + 1
               /\ corpus' = [corpus EXCEPT !.common =
                    [r \in Ranks |->
                       IF line = <<>> \/ blocks[r].from = 0 THEN @[r]
                       ELSE Insert(@[r], CommonRow(blocks[r]))]]
               /\ UNCHANGED <<tables, dropStage, nodes, open, catalog>>

EndCommon ==
    /\ dropStage = "common" /\ at > Len(tables.common) /\ Arrives("lines")
    /\ UNCHANGED <<tables, nodes, open, corpus, catalog>>

-----------------------------------------------------------------------------
(* CTextFileLoader: groups by their keyword, closed by a brace *)

Line == tables.mob[at]
Loading == dropStage = "lines" /\ at <= Len(tables.mob)

\* The first row of a key wins.
KeepRowFault(key, values) ==
    nodes' = [nodes EXCEPT ![Last(open)].rows =
               [k \in DOMAIN @ \cup {key} |-> IF k = key THEN values ELSE @[k]]]

KeepRow(key, values) ==
    nodes' = [nodes EXCEPT ![Last(open)].rows = Added(@, key, values)]

\* Comments and opening braces mean nothing.
SkipLine ==
    /\ Loading /\ Line.head \in {"", "{"} /\ at' = at + 1
    /\ UNCHANGED <<tables, dropStage, nodes, open, corpus, catalog>>

\* A brace that closes nothing ends the reading.
CloseGroup ==
    /\ Loading /\ Line.head = "}"
    /\ IF Len(open) = 1 THEN Arrives("groups") /\ UNCHANGED open
       ELSE open' = Front(open) /\ at' = at + 1 /\ UNCHANGED dropStage
    /\ UNCHANGED <<tables, nodes, corpus, catalog>>

OpenGroup ==
    /\ Loading /\ Line.head = "group"
    /\ IF Len(Line.values) # 1 THEN Refuse
       ELSE /\ nodes' = Append(nodes, [name |-> Line.values[1],
                                       parent |-> Last(open),
                                       rows |-> Nothing])
            /\ open' = Append(open, Len(nodes) + 1) /\ at' = at + 1
            /\ UNCHANGED <<tables, dropStage, corpus, catalog>>

\* Every token up to the next closing brace is a value of the list.
ListEnd(i) ==
    Min({j \in i + 1 .. Len(tables.mob) + 1 :
           j = Len(tables.mob) + 1 \/ tables.mob[j].head = "}"})

ListValues(i) ==
    LET in == Those(tables.mob, {j \in i + 1 .. ListEnd(i) - 1 :
                                   tables.mob[j].head \notin {"", "{"}})
    IN FlattenSeq([j \in DOMAIN in |-> <<<<in[j].head>>>> \o in[j].values])

ReadList ==
    /\ Loading /\ Line.head = "list"
    /\ IF Len(Line.values) # 1 THEN at' = at + 1 /\ UNCHANGED nodes
       ELSE /\ KeepRow(Word(Line.values[1]), ListValues(at))
            /\ at' = ListEnd(at) + 1
    /\ UNCHANGED <<tables, dropStage, open, corpus, catalog>>

Marks == {"", "{", "}", "group", "list"}

ReadRow ==
    /\ Loading /\ Line.head \notin Marks
    /\ IF Line.values = <<>> THEN Refuse
       ELSE /\ KeepRow(Line.head, Line.values) /\ at' = at + 1
            /\ UNCHANGED <<tables, dropStage, open, corpus, catalog>>

EndLines ==
    /\ dropStage = "lines" /\ at > Len(tables.mob) /\ Arrives("groups")
    /\ UNCHANGED <<tables, nodes, open, corpus, catalog>>

-----------------------------------------------------------------------------
(* ReadMonsterDropItemGroup: the groups right below the global one *)

Children == Those(nodes, {n \in DOMAIN nodes : nodes[n].parent = 1})

Field(node, key) ==
    IF key \in DOMAIN node.rows /\ node.rows[key] # <<>>
    THEN node.rows[key][1] ELSE NoToken

KindOf(node) == Word(Field(node, "type"))

RowKey(k) == ToString(k)

\* Rows are probed from 1 up to the first key that is missing.
FirstGap(node) ==
    Min({k \in 1 .. RowKeyLimit + 1 :
           k = RowKeyLimit + 1 \/ RowKey(k) \notin DOMAIN node.rows})
RowOf(node, k) == node.rows[RowKey(k)]

GroupIsSound(node) ==
    /\ KindOf(node) \in Range(Kinds) /\ Field(node, "mob") # NoToken
    /\ KindOf(node) = "kill" => Field(node, "kill_drop") # NoToken
    /\ KindOf(node) = "limit" => Field(node, "level_limit") # NoToken

SkippedGroup(node) ==
    KindOf(node) = "kill" /\ Number(Field(node, "kill_drop")) = 0

RowIsSound(node, row) ==
    /\ row # <<>> /\ Resolve(corpus.items, row[1]) # NoItem
    /\ Len(row) >= (IF KindOf(node) = "kill" THEN 4 ELSE 3)
    /\ Number(row[2]) >= 1
    /\ KindOf(node) = "kill" => Number(row[3]) # 0

\* The parts of the rows of a kill group add up along it.
PartsUpto(node) ==
    LET up[k \in 0 .. FirstGap(node) - 1] ==
          IF k = 0 THEN 0 ELSE up[k - 1] + Number(RowOf(node, k)[3])
    IN up

GroupItems(node) ==
    LET up == PartsUpto(node)
        Item(k) ==
          LET row == RowOf(node, k)
              kill == KindOf(node) = "kill"
          IN [vnum |-> Resolve(corpus.items, row[1]), count |-> Number(row[2]),
              percent |-> IF kill THEN 0 ELSE Percent10k(row[3]),
              part |-> IF kill THEN Number(row[3]) ELSE 0,
              upto |-> IF kill THEN up[k] ELSE 0,
              rare |-> IF kill THEN Max({0, Min({Number(row[4]), 100})})
                       ELSE 0]
    IN [k \in 1 .. FirstGap(node) - 1 |-> Item(k)]

NewGroup(node) ==
    [items |-> GroupItems(node),
     kill_drop |-> IF KindOf(node) = "kill"
                   THEN Number(Field(node, "kill_drop")) ELSE 1,
     level_limit |-> IF KindOf(node) = "limit"
                     THEN Number(Field(node, "level_limit")) ELSE 0]

\* A second drop group of a monster is merged; of another kind the first wins.
Installed(groups, node) ==
    LET kind == KindOf(node)
        mob == Number(Field(node, "mob"))
    IN IF kind = "drop" /\ mob \in DOMAIN groups[kind]
       THEN [groups EXCEPT ![kind][mob].items = @ \o GroupItems(node)]
       ELSE [groups EXCEPT ![kind] = Added(@, mob, NewGroup(node))]

ReadGroup ==
    /\ dropStage = "groups" /\ at <= Len(Children)
    /\ LET node == Children[at]
       IN IF \/ ~GroupIsSound(node)
             \/ /\ ~SkippedGroup(node)
                /\ \E k \in 1 .. FirstGap(node) - 1 :
                     ~RowIsSound(node, RowOf(node, k))
          THEN Refuse
          ELSE /\ at' = at + 1
               /\ corpus' = IF SkippedGroup(node) THEN corpus
                            ELSE [corpus EXCEPT !.groups = Installed(@, node)]
               /\ UNCHANGED <<tables, dropStage, nodes, open, catalog>>

EndGroups ==
    /\ dropStage = "groups" /\ at > Len(Children) /\ Arrives("ranks")
    /\ UNCHANGED <<tables, nodes, open, corpus, catalog>>

-----------------------------------------------------------------------------
(* The catalogue *)

\* Every monster of the package once, each of a rank there is.
MobRanksAreSound(mobs) ==
    /\ mobs # <<>>
    /\ \A i \in DOMAIN mobs : mobs[i].vnum >= 1 /\ mobs[i].ranked
    /\ \A i, j \in DOMAIN mobs : mobs[i].vnum = mobs[j].vnum => i = j

\* The percentages come from the file the profile pins, if it pins one.
LevelDeltaIsSound(delta) ==
    /\ delta.declared \in {<<>>, <<delta.digest>>}
    /\ delta.values = 31 /\ delta.bounded

RegistryIsSound(vnums) ==
    /\ \A i \in DOMAIN vnums : vnums[i] >= 1
    /\ \A i, j \in DOMAIN vnums : vnums[i] = vnums[j] => i = j

Registered(v) == v \in Range(tables.registry)

CommonRowIsSound(r) ==
    /\ r.from \in Nat /\ r.to \in Nat
    /\ r.reachable = (1 <= r.from /\ Reachable(r.from, r.to))
    /\ r.reachable => r.percent \in Nat /\ IsPrototype(corpus.items, r.vnum)

\* Unreachable rows and those of items nobody registered are dropped; a band
\* ends at the last level there is.
CommonEntriesFault(rows) ==
    LET kept == Those(rows, {i \in DOMAIN rows : rows[i].reachable})
    IN [i \in DOMAIN kept |-> [kept[i] EXCEPT !.to = Min({@, LevelCap})]]

Offered(rows) ==
    Those(rows, {i \in DOMAIN rows :
                   rows[i].reachable /\ Registered(rows[i].vnum)})

CommonEntries(rows) ==
    LET kept == Offered(rows)
    IN [i \in DOMAIN kept |-> [kept[i] EXCEPT !.to = Min({@, LevelCap})]]

CompileRanks ==
    /\ dropStage = "ranks"
    /\ IF /\ MobRanksAreSound(tables.mobs) /\ LevelDeltaIsSound(tables.delta)
          /\ RegistryIsSound(tables.registry)
          /\ \A r \in Ranks :
               /\ \A i \in DOMAIN corpus.common[r] :
                    CommonRowIsSound(corpus.common[r][i])
               /\ CommonEntries(corpus.common[r]) # <<>>
       THEN /\ Arrives("kinds")
            /\ catalog' = [catalog EXCEPT !.common =
                 [r \in Ranks |-> CommonEntries(corpus.common[r])]]
            /\ UNCHANGED <<tables, nodes, open, corpus>>
       ELSE Refuse

EntryIsSound(kind, e) ==
    /\ e.count \in Nat \ {0} /\ e.percent \in Nat /\ IsPrototype(corpus.items, e.vnum)
    /\ kind = "kill" => /\ e.part \in 1 .. PercentMax
                        /\ e.rare \in 0 .. PercentMax
                        /\ e.upto \in Nat /\ e.upto >= e.part

\* The rows of registered items, with their running percentages as they were.
Entries(items) ==
    LET kept == Those(items, {i \in DOMAIN items :
                                 Registered(items[i].vnum)})
    IN [i \in DOMAIN kept |-> [kept[i] EXCEPT !.count = Min({@, CountMax})]]

GroupCompiles(kind, g) ==
    /\ g.items # <<>>
    /\ \A i \in DOMAIN g.items : EntryIsSound(kind, g.items[i])
    /\ LET e == Entries(g.items)
       IN \A i, j \in DOMAIN e : i <= j => e[i].upto <= e[j].upto
    /\ Entries(g.items) # <<>> =>
         /\ kind = "kill" => g.kill_drop \in Nat \ {0}
         /\ kind = "limit" => g.level_limit \in 0 .. LevelCap

Slot(groups, mob) ==
    IF mob \in DOMAIN groups THEN groups[mob]
    ELSE [kill_drop |-> 0, level_limit |-> 0,
          rows |-> [k \in Range(Kinds) |-> <<>>]]

Fill(slot, kind, g) ==
    [kill_drop |-> IF kind = "kill" THEN g.kill_drop ELSE slot.kill_drop,
     level_limit |-> IF kind = "limit" THEN g.level_limit
                     ELSE slot.level_limit,
     rows |-> [slot.rows EXCEPT ![kind] = Entries(g.items)]]

Selected == {m.vnum : m \in Range(tables.mobs)}

CompileKind ==
    /\ dropStage = "kinds" /\ at <= Len(Kinds)
    /\ LET kind == Kinds[at]
           groups == corpus.groups[kind]
           mobs == DOMAIN groups \cap Selected
           filled == {m \in mobs : Entries(groups[m].items) # <<>>}
       IN IF \E m \in mobs : ~GroupCompiles(kind, groups[m]) THEN Refuse
          ELSE /\ catalog' = [catalog EXCEPT !.groups =
                    [m \in filled \cup DOMAIN @ |->
                       IF m \in filled THEN Fill(Slot(@, m), kind, groups[m])
                       ELSE @[m]]]
               /\ at' = at + 1
               /\ UNCHANGED <<tables, dropStage, nodes, open, corpus>>

\* A catalogue without one group is not published.
BuildDrops ==
    /\ dropStage = "kinds" /\ at > Len(Kinds)
    /\ IF catalog.groups = Nothing THEN Refuse
       ELSE Arrives("installed") /\ UNCHANGED <<tables, nodes, open, corpus,
                                             catalog>>

DropsNext ==
    \/ ReadItems \/ ReadCommonLine \/ EndCommon
    \/ SkipLine \/ CloseGroup \/ OpenGroup \/ ReadList \/ ReadRow \/ EndLines
    \/ ReadGroup \/ EndGroups \/ CompileRanks \/ CompileKind \/ BuildDrops

DropsSpec == DropsInit /\ [][DropsNext]_dropVars

-----------------------------------------------------------------------------
(* What the tables say, read as a whole *)

\* Lines that are read as part of a list: those below its keyword, to the
\* brace that closes it.
InList[i \in 0 .. Len(tables.mob) + 1] ==
    /\ i > 1
    /\ LET above == tables.mob[i - 1]
       IN IF InList[i - 1] THEN above.head # "}"
          ELSE above.head = "list" /\ Len(above.values) = 1

Heads(i, j) == {k \in i .. j : tables.mob[k].head = "group" /\ ~InList[k]}
Closes(i, j) == {k \in i .. j : tables.mob[k].head = "}" /\ ~InList[k]}
Balance(i, j) == Cardinality(Heads(i, j)) - Cardinality(Closes(i, j))
LastLine ==
    Min({Len(tables.mob)} \cup
        {i - 1 : i \in {j \in DOMAIN tables.mob : Balance(1, j) < 0}})

\* The group a line is in: the nearest one above that no brace has closed.
IsOpen(h, i) == \A k \in h + 1 .. i - 1 : Balance(h + 1, k) >= 0
OwnerOf(i) == Max({0} \cup {h \in Heads(1, i - 1) : IsOpen(h, i)})

\* A line that gives the values of a key.
Gives(i, key) ==
    /\ ~InList[i]
    /\ \/ tables.mob[i].head = key /\ key \notin Marks
       \/ /\ tables.mob[i].head = "list" /\ Len(tables.mob[i].values) = 1
          /\ Word(tables.mob[i].values[1]) = key
ValuesAt(i) == IF tables.mob[i].head = "list" THEN ListValues(i)
               ELSE tables.mob[i].values

\* The values of the first line of a group with that key.
ValuesOf(h, key) ==
    LET lines == {i \in h + 1 .. LastLine : Gives(i, key) /\ OwnerOf(i) = h}
    IN IF lines = {} THEN <<>> ELSE ValuesAt(Min(lines))

\* The groups that count, each of a monster.
IsGroup(h, kind) ==
    /\ OwnerOf(h) = 0 /\ Word(ValuesOf(h, "type")[1]) = kind
    /\ kind = "kill" => Number(ValuesOf(h, "kill_drop")[1]) # 0
MobOf(h) == Number(ValuesOf(h, "mob")[1])
IsGroupOf(h, kind, mob) == IsGroup(h, kind) /\ MobOf(h) = mob

\* Of the drop groups of a monster all count, of the others the first.
TableGroups(kind, mob) ==
    LET all == {h \in Heads(1, LastLine) : IsGroupOf(h, kind, mob)}
    IN IF kind = "drop" \/ all = {} THEN all ELSE {Min(all)}

TableRows(h) ==
    LET gap == Min({k \in 1 .. RowKeyLimit + 1 :
                      k > RowKeyLimit \/ ValuesOf(h, RowKey(k)) = <<>>})
    IN [k \in 1 .. gap - 1 |-> ValuesOf(h, RowKey(k))]

RowsOfMob(kind, mob) ==
    LET groups == TableGroups(kind, mob)
    IN FlattenSeq([i \in 1 .. LastLine |->
                     IF i \in groups THEN TableRows(i) ELSE <<>>])

\* The lines of the common table that have a row for a rank.
CommonLines(r) == {l \in DOMAIN tables.common :
                     tables.common[l] # <<>> /\ Block(tables.common[l], r).from # 0}

\* The rows of a rank are those of the lines, one for each.
CommonIsRead(r) ==
    LET rows == corpus.common[r]
    IN \E line \in [DOMAIN rows -> CommonLines(r)] :
         /\ \A i, j \in DOMAIN rows : line[i] = line[j] => i = j
         /\ \A l \in CommonLines(r) : \E i \in DOMAIN rows : line[i] = l
         /\ \A i \in DOMAIN rows :
              rows[i] = CommonRow(Block(tables.common[line[i]], r))

\* What a row of a group says by itself, and what the item made of it says.
RowSays(kind, protos, row) ==
    <<Resolve(protos, row[1]), Number(row[2]),
      IF kind = "kill" THEN <<Number(row[3]), Max({0, Min({Number(row[4]), 100})})>>
      ELSE <<Percent10k(row[3])>> >>
ItemSays(kind, e) ==
    <<e.vnum, e.count,
      IF kind = "kill" THEN <<e.part, e.rare>> ELSE <<e.percent>> >>

\* The kills or the level a group of the text asks for.
Asks(kind, g, h) ==
    /\ kind = "kill" => g.kill_drop = Number(ValuesOf(h, "kill_drop")[1])
    /\ kind = "limit" => g.level_limit = Number(ValuesOf(h, "level_limit")[1])

\* The last percentage of a row is its part beyond that of the row before.
AddsUp(items) ==
    \A i \in DOMAIN items :
      items[i].upto = (IF i = 1 THEN 0 ELSE items[i - 1].upto) + items[i].part

\* What the reader made of the text, line by line, is what the text says as a
\* whole: the common rows of every rank, and of every kind the monsters that
\* have a group, with what it asks for and the rows of the groups that count,
\* with their items, counts and chances, each key once, in order, and no row of
\* a group nested in another.
CorpusIsTheText ==
    dropStage \in {"ranks", "installed"} =>
      /\ \A r \in Ranks : CommonIsRead(r)
      /\ \A kind \in Range(Kinds) :
           /\ DOMAIN corpus.groups[kind]
                = {MobOf(h) : h \in {g \in Heads(1, LastLine) : IsGroup(g, kind)}}
           /\ \A mob \in DOMAIN corpus.groups[kind] :
                LET g == corpus.groups[kind][mob]
                    rows == RowsOfMob(kind, mob)
                IN /\ [i \in DOMAIN g.items |-> ItemSays(kind, g.items[i])]
                        = [i \in DOMAIN rows |-> RowSays(kind, corpus.items, rows[i])]
                   /\ \A h \in TableGroups(kind, mob) : Asks(kind, g, h)
                   /\ kind = "kill" => AddsUp(g.items)

\* A list is what is kept of another, in its order.
PlaceIn(kept, i) == Cardinality({j \in kept : j <= i})

\* At every level a rank offers the rows of the table for that level whose item
\* is registered.
AtSomeLevel(row) ==
    \E level \in 1 .. LevelCap : row.from <= level /\ level <= row.to

KeepsCommon(made, rows) ==
    LET kept == {i \in DOMAIN rows : AtSomeLevel(rows[i]) /\ Registered(rows[i].vnum)}
    IN /\ DOMAIN made = 1 .. Cardinality(kept)
       /\ \A i \in kept : made[PlaceIn(kept, i)]
                            = [rows[i] EXCEPT !.to = Min({@, LevelCap})]

Capped(item) == [item EXCEPT !.count = Min({@, CountMax})]
KeepsItems(made, items) ==
    LET kept == {i \in DOMAIN items : Registered(items[i].vnum)}
    IN /\ DOMAIN made = 1 .. Cardinality(kept)
       /\ \A i \in kept : made[PlaceIn(kept, i)] = Capped(items[i])

ItemsOf(kind, mob) == IF mob \in DOMAIN corpus.groups[kind]
                      THEN corpus.groups[kind][mob].items ELSE <<>>
Offers(kind, mob) ==
    \E i \in DOMAIN ItemsOf(kind, mob) : Registered(ItemsOf(kind, mob)[i].vnum)

\* The row a kill group gives for a roll of 1 to its last percentage.
Picked(rows, roll) ==
    rows[Min({i \in DOMAIN rows : rows[i].upto >= roll})]

\* An installed catalogue has, of the original tables, every row whose item the
\* module has a prototype for and no other, as it was and in its order but for
\* the ends of bands and the stacks beyond what there can be: the rows of every
\* rank, and those of every kind of every selected monster, with the kills or
\* the level they ask for.  A roll of a kill group gives the first of these rows
\* that the roll reaches: the original's row if its item is registered,
\* otherwise the next registered one.
RollsAreOriginal ==
    dropStage = "installed" =>
      /\ \A r \in Ranks : KeepsCommon(catalog.common[r], corpus.common[r])
      /\ DOMAIN catalog.groups
           = {mob \in Selected : \E kind \in Range(Kinds) : Offers(kind, mob)}
      /\ \A mob \in DOMAIN catalog.groups :
           LET slot == catalog.groups[mob]
               kills == slot.rows["kill"]
               items == ItemsOf("kill", mob)
           IN /\ \A kind \in Range(Kinds) :
                   KeepsItems(slot.rows[kind], ItemsOf(kind, mob))
              /\ Offers("kill", mob) =>
                   slot.kill_drop = corpus.groups["kill"][mob].kill_drop
              /\ Offers("limit", mob) =>
                   slot.level_limit = corpus.groups["limit"][mob].level_limit
              /\ kills # <<>> => \A roll \in 1 .. Last(kills).upto :
                   Picked(kills, roll) =
                     Capped(items[Min({i \in DOMAIN items :
                                         /\ Registered(items[i].vnum)
                                         /\ items[i].upto >= roll})])

\* Dropping the rows of unregistered items keeps the weights of the others.
\* The code does not keep this: their part goes to the row that comes next
\* (build_drop_catalog.py:281-286).
KillWeightsAreHonest ==
    dropStage = "installed" =>
      \A mob \in DOMAIN catalog.groups :
        LET rows == catalog.groups[mob].rows["kill"]
        IN \A i \in DOMAIN rows :
             Cardinality({roll \in 1 .. Last(rows).upto :
                            Picked(rows, roll) = rows[i]}) = rows[i].part

\* What is installed is what the original tables say of the registered items
\* and the selected monsters, nothing more and nothing less.
DropsAreTheTables == CorpusIsTheText /\ RollsAreOriginal
=============================================================================
