------------------------------- MODULE Items -------------------------------
(* The catalogue of items: a selection with the documents it includes, each  *)
(* selected item compiled from its row of the original table and its name,   *)
(* and the validation that every reader of the catalogue repeats.            *)
(*                                                                           *)
(* Source: tools/item_definitions.py.  A row of 33 columns stands for what   *)
(* is read of it; the patterns of identifiers, icons, names and hashes, the  *)
(* bounds of single numbers and the values of potions are left out.          *)
EXTENDS Integers, Sequences, SequencesExt, FiniteSets, FiniteSetsExt,
        Functions

CONSTANTS
    ItemSources,    \* what may be compiled: [docs, proto, names]
    MaxDepth        \* MAX_INCLUDE_DEPTH

\* There is a document to begin with, documents and tables are lists, and a
\* row has two limits, each with a number.
ASSUME ItemsAssumption ==
    \A s \in ItemSources :
      /\ "profile" \in DOMAIN s.docs
      /\ \A d \in DOMAIN s.docs :
           s.docs[d].items \in Seq([id : STRING, vnum : Int])
      /\ s.proto \in Seq(Range(s.proto))
      /\ \A row \in Range(s.proto) :
           /\ DOMAIN row.limits = {1, 2}
           /\ \A l \in Range(row.limits) : l[2] \in Int

VARIABLES
    itemSource,     \* what is compiled
    itemStage,      \* "expanding", "sorting", "compiling", "validating", ...
    document,       \* the selection document being expanded
    resolved,       \* the documents included so far
    selected,       \* the rows selected so far
    items           \* the items compiled so far

itemVars == <<itemSource, itemStage, document, resolved, selected, items>>

Classes == {0, 1, 2, 3}
Sexes == {0, 1}
AntiClass == <<"ANTI_MUSA", "ANTI_ASSASSIN", "ANTI_SURA", "ANTI_MUDANG">>
AntiSex == <<"ANTI_MALE", "ANTI_FEMALE">>

ItemsStart ==
    /\ itemStage = "expanding" /\ document = "profile"
    /\ resolved = <<>> /\ selected = <<>> /\ items = <<>>

ItemsInit == itemSource \in ItemSources /\ ItemsStart

Turns(s) == itemStage' = s /\ UNCHANGED <<itemSource, document, resolved>>
RefuseItems == Turns("refused") /\ UNCHANGED <<selected, items>>

-----------------------------------------------------------------------------
(* expand_selection *)

Docs == itemSource.docs
Doc == Docs[document]

\* The profile's own selection is at depth 0.
DocumentIsSound == Doc.shaped /\ Len(resolved) <= MaxDepth

IncludeIsSound(d) ==
    d \in DOMAIN Docs /\ d # "profile" /\ d \notin Range(resolved)

ExpandDocument ==
    /\ itemStage = "expanding"
    /\ IF ~DocumentIsSound \/ (Doc.include # <<>> /\
                               ~IncludeIsSound(Doc.include[1]))
       THEN RefuseItems
       ELSE /\ selected' = selected \o Doc.items
            /\ IF Doc.include = <<>> THEN Turns("sorting")
               ELSE /\ document' = Doc.include[1]
                    /\ resolved' = Append(resolved, Doc.include[1])
                    /\ UNCHANGED <<itemSource, itemStage>>
            /\ UNCHANGED items

\* The rows of all documents in the order of their vnums, equal ones as they
\* came.
GoesBefore(rows, a, b) == \/ rows[a].vnum < rows[b].vnum
                          \/ rows[a].vnum = rows[b].vnum /\ a < b
PlaceInOrder(rows, a) ==
    1 + Cardinality({b \in DOMAIN rows : GoesBefore(rows, b, a)})
SortByVnum(rows) ==
    [i \in DOMAIN rows |->
       rows[CHOOSE a \in DOMAIN rows : PlaceInOrder(rows, a) = i]]

SortSelection ==
    /\ itemStage = "sorting"
    /\ IF \E r \in Range(selected) : r.vnum < 1 THEN RefuseItems
       ELSE /\ Turns(IF selected = <<>> THEN "refused" ELSE "compiling")
            /\ selected' = SortByVnum(selected) /\ UNCHANGED items

-----------------------------------------------------------------------------
(* compile_catalog *)

\* Where the table has a vnum, and where the names have it.
RowsOf(v) == {k \in DOMAIN itemSource.proto : itemSource.proto[k].vnum = v}
NamesOf(v) == {k \in DOMAIN itemSource.names : itemSource.names[k] = v}
OnlyRow(v) == itemSource.proto[CHOOSE k \in RowsOf(v) : TRUE]

\* The anti-flags that stand in the way, out of a mask with every bit set.
Shifted == <<1, 2, 4, 8>>
AllBits(names) == 2 * Shifted[Len(names)] - 1

MaskWithoutFault(flags, names) ==
    AllBits(names) - Cardinality(flags \cap Range(names))

MaskWithout(flags, names) ==
    AllBits(names)
      - SumFunctionOnSet(Shifted, {j \in DOMAIN names : names[j] \in flags})

\* The highest level asked for; every other limit has to be empty.
LimitsAreSound(row) ==
    \A l \in Range(row.limits) :
      l[1] = "LEVEL" \/ (l[1] = "LIMIT_NONE" /\ l[2] = 0)
LevelOf(row) == Max({0} \cup {l[2] : l \in {k \in Range(row.limits) :
                                              k[1] = "LEVEL"}})

KindOfItem(row) ==
    CASE /\ row.type = "ITEM_WEAPON" /\ row.wear = "WEAR_WEAPON"
         /\ row.sub \in {"WEAPON_SWORD", "WEAPON_FAN"} -> "weapon"
      [] /\ row.type = "ITEM_USE" /\ row.sub = "USE_POTION"
         /\ row.wear = "NONE" -> "recovery"
      [] row.type = "ITEM_ARMOR" /\ row.wear # "NONE" -> "armor"
      [] row.type = "ITEM_NONE" -> "narrative"
      [] OTHER -> "unsupported"

\* A weapon may only quicken attacks; an armour's bonuses have to be known.
AppliesAreSound(row) ==
    \A a \in Range(row.applies) :
      \/ a = <<"APPLY_NONE", 0>>
      \/ CASE KindOfItem(row) = "weapon" -> a[1] = "APPLY_ATT_SPEED"
           [] KindOfItem(row) = "armor" -> a[1] # "unknown"
           [] OTHER -> TRUE

QuickensBy(row) ==
    IF KindOfItem(row) # "weapon" THEN 0
    ELSE FoldSeq(LAMBDA a, sum : sum + (IF a[1] = "APPLY_ATT_SPEED"
                                        THEN a[2] ELSE 0), 0, row.applies)

RowIsComplete(v) ==
    /\ Cardinality(RowsOf(v)) = 1 /\ OnlyRow(v).columns = 33
    /\ Cardinality(NamesOf(v)) = 1

RowIsSupported(row) ==
    /\ row.flags \subseteq Range(AntiClass) \cup Range(AntiSex)
    /\ LimitsAreSound(row) /\ KindOfItem(row) # "unsupported"
    /\ AppliesAreSound(row)

Compiled(s, row) ==
    [id |-> s.id, vnum |-> s.vnum, kind |-> KindOfItem(row),
     level |-> LevelOf(row), stack |-> IF row.stackable THEN 200 ELSE 1,
     classes |-> MaskWithout(row.flags, AntiClass),
     sexes |-> MaskWithout(row.flags, AntiSex),
     quickens |-> QuickensBy(row), power |-> row.power]

CompileItem ==
    /\ itemStage = "compiling"
    /\ LET s == selected[Len(items) + 1]
           row == OnlyRow(s.vnum)
       IN IF ~RowIsComplete(s.vnum) \/ ~RowIsSupported(row) THEN RefuseItems
          ELSE /\ items' = Append(items, Compiled(s, row))
               /\ Turns(IF Len(items') = Len(selected) THEN "validating"
                        ELSE "compiling")
               /\ UNCHANGED selected

-----------------------------------------------------------------------------
(* validate_catalog *)

ItemIsSound(i) ==
    /\ i.level \in 0 .. 255
    /\ i.classes \in 1 .. 15 /\ i.sexes \in 1 .. 3 /\ i.quickens \in 0 .. 1000
    /\ i.kind = "weapon" =>
         /\ i.stack = 1 /\ i.power[1] <= i.power[2]
         /\ i.power[2] + i.power[3] <= 65535

ItemCatalogIsSound(catalogue) ==
    /\ \A k \in DOMAIN catalogue : ItemIsSound(catalogue[k])
    /\ \A k, l \in DOMAIN catalogue :
         k < l => /\ catalogue[k].vnum < catalogue[l].vnum
                  /\ catalogue[k].id # catalogue[l].id

ValidateCatalog ==
    /\ itemStage = "validating" /\ UNCHANGED <<selected, items>>
    /\ Turns(IF ItemCatalogIsSound(items) THEN "compiled" ELSE "refused")

ItemsNext == \/ ExpandDocument \/ SortSelection \/ CompileItem
             \/ ValidateCatalog

ItemsSpec == ItemsInit /\ [][ItemsNext]_itemVars

-----------------------------------------------------------------------------
(* What the documents and the table ask for *)

\* The profile's selection and what its documents include, and no more.
IsClosed(docs) ==
    /\ "profile" \in docs
    /\ \A d \in docs : Docs[d].include # <<>> => Docs[d].include[1] \in docs
Included == {d \in DOMAIN Docs : \A docs \in SUBSET DOMAIN Docs :
                                   IsClosed(docs) => d \in docs}

Bit(mask, b) == (mask \div Shifted[b + 1]) % 2 = 1

\* A compiled catalogue has every item of every included document once, in
\* the order of their vnums; who may wear one is exactly whom no anti-flag
\* of its only row excludes; and no limit of that row is lost.
CatalogIsSelected ==
    itemStage = "compiled" =>
      LET wanted == UNION {Range(Docs[d].items) : d \in Included}
      IN /\ Len(items) = Cardinality(wanted)
         /\ {[id |-> i.id, vnum |-> i.vnum] : i \in Range(items)} = wanted
         /\ \A k \in DOMAIN items :
              LET item == items[k]
                  row == CHOOSE r \in Range(itemSource.proto) :
                           r.vnum = item.vnum
              IN /\ \A c \in Classes :
                      Bit(item.classes, c)
                        <=> AntiClass[c + 1] \notin row.flags
                 /\ \A s \in Sexes :
                      Bit(item.sexes, s) <=> AntiSex[s + 1] \notin row.flags
                 /\ \A l \in Range(row.limits) : item.level >= l[2]
                 /\ k > 1 => items[k - 1].vnum < item.vnum
=============================================================================
