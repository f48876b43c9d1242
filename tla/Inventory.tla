----------------------------- MODULE Inventory -----------------------------
(* Item instances: the bag grid, the weapon slot, ground drops and the       *)
(* quantity history kept about them.                                         *)
(*                                                                           *)
(* Source: server/src/inventory.rs, item_security.rs and drops.rs            *)
(* (drop_items).  A reducer that returns Err rolls every stack change and    *)
(* audit row back, so a grant that does not fit is not enabled.              *)
(*                                                                           *)
(* The audit table is append-only.  It is kept here the way                  *)
(* tools/audit_items.py folds it: the last event of every entity, what was   *)
(* minted and burned, and the balance of every pickup.                       *)
(*                                                                           *)
(* Abstracted: positions (a pickup out of reach is refused), level, class    *)
(* and sex requirements and the recovery pool (an item that may not be used  *)
(* now is refused), the account (fixed by the owner), the display            *)
(* projections.                                                              *)
EXTENDS Integers, FiniteSetsExt, Functions

CONSTANTS
    Character,
    Vnum,               \* item definitions
    Height, Limit,      \* [Vnum -> Nat]: grid cells and the stack limit
    Weapon,             \* the vnums of kind weapon
    StarterWeapon,      \* starter_weapon_vnum
    Potion,             \* RED_POTION
    StarterPotions,     \* how many of them a new character gets
    Pages, Rows, Columns,
    Reserved, Expires,  \* drop windows
    MaxRevision,        \* stands for u32::MAX
    Rewards,            \* <<vnum, count>> pairs that a kill or a level may pay
    Quests,             \* whether quests pay and take items
    MaxItem, MaxDrop,   \* bounds on instances created
    MaxTime             \* bound on the clock

EquippedCell == 255

ASSUME InventoryAssumption ==
    /\ Pages \in Nat \ {0} /\ Rows \in Nat \ {0} /\ Columns \in Nat \ {0}
    /\ Pages * (Rows * Columns) <= EquippedCell
    /\ Height \in [Vnum -> 1..Rows] /\ Limit \in [Vnum -> Nat \ {0}]
    /\ Weapon \subseteq Vnum /\ StarterWeapon \in Weapon /\ Potion \in Vnum \ Weapon
    /\ \A v \in Weapon : Limit[v] = 1
    /\ Rewards \subseteq Vnum \X (Nat \ {0})
    /\ StarterPotions \in Nat /\ Reserved \in Nat /\ Expires \in Nat /\ Quests \in BOOLEAN
    /\ MaxRevision \in Nat \ {0} /\ MaxItem \in Nat /\ MaxDrop \in Nat /\ MaxTime \in Nat

VARIABLES
    now,
    active,     \* characters in the world with a live controller
    started,    \* inventory_state rows: the starter kit was given
    items,      \* inventory_item rows by id
    nextItem,   \* the next auto_inc id
    drops,      \* item_drop rows by id
    nextDrop,
    audit,      \* item_audit, folded
    awarded     \* history: the quantity of every vnum the game gave out

vars == <<now, active, started, items, nextItem, drops, nextDrop, audit, awarded>>

PageCells == Rows * Columns
Cells == 0..(Pages * PageCells - 1)

-----------------------------------------------------------------------------
(* Rows by id, and the grid.                                                 *)

\* A row inserted, or written over.
With(table, id, row) ==
    [x \in DOMAIN table \cup {id} |-> IF x = id THEN row ELSE table[x]]

Without(table, S) == Restrict(table, DOMAIN table \ S)

\* The height test of footprint: an item stays inside one page.
Fits(v, c) == c \in Cells /\ (c % PageCells) \div Columns + Height[v] <= Rows

Footprint(v, c) == {c + Columns * k : k \in 0..(Height[v] - 1)}

Owned(s, p) == {i \in DOMAIN s : s[i].owner = p}
Bag(s, p) == {i \in Owned(s, p) : ~s[i].equipped}

\* Fault: only the anchor cell is compared.
CanPlaceFault(s, p, v, c, except) ==
    Fits(v, c) /\ \A i \in Bag(s, p) \ except : s[i].cell # c

CanPlace(s, p, v, c, except) ==
    /\ Fits(v, c)
    /\ \A i \in Bag(s, p) \ except :
           Footprint(s[i].vnum, s[i].cell) \cap Footprint(v, c) = {}

FreeCells(s, p, v, except) == {c \in Cells : CanPlace(s, p, v, c, except)}

-----------------------------------------------------------------------------
(* The quantity history.                                                     *)

Event(item, drop, row, before, after, revision, cause) ==
    [item |-> item, drop |-> drop, vnum |-> row.vnum, before |-> before,
     after |-> after, revision |-> revision, cause |-> cause]

Entity(e) == IF e.item # 0 THEN <<"inventory", e.item>> ELSE <<"drops", e.drop>>

\* The entity's first event creates it; a later one continues the last.
Continues(a, e) ==
    IF Entity(e) \in DOMAIN a.last
    THEN LET prior == a.last[Entity(e)] IN
         /\ prior.count # 0 /\ prior.count = e.before
         /\ e.item # 0 => e.revision > prior.revision
    ELSE e.before = 0 /\ e.after # 0 /\ (e.item # 0 => e.revision = 1)

\* What each cause may do to a quantity.  The tool predates the cause "quest"
\* and rejects it; here a quest may mint and burn stacks of the bag.  Left out
\* are checks of the tool (audit_items.py:54, 61-65, 69, 79, 111-115) that the
\* rows of this model pass by their shape: one account and one owner, a vnum
\* that never changes and is within its limit, monsters that mint drops and
\* starter grants that mint items, drops named by pickups only.
CauseFits(a, e) ==
    CASE e.cause \in {"starter", "progression", "monster"} -> e.after > e.before
      [] e.cause = "quest" -> e.item # 0
      [] e.cause = "consume" -> e.item # 0 /\ e.after = e.before - 1
      [] e.cause = "expiry" -> e.item = 0 /\ e.after = 0 /\ e.before # 0
      [] e.cause = "pickup" ->
             IF e.item = 0 THEN e.after = 0 /\ e.before # 0
             ELSE LET source == <<"drops", e.drop>> IN
                  /\ e.after > e.before
                  /\ source \in DOMAIN a.last /\ a.last[source].count # 0

Gain(e) == IF e.cause # "pickup" /\ e.after > e.before THEN e.after - e.before ELSE 0
Loss(e) == IF e.cause # "pickup" /\ e.after < e.before THEN e.before - e.after ELSE 0
Owed(e) == IF e.cause = "pickup" THEN e.after - e.before ELSE 0

\* One row appended to item_audit.
Recorded(a, e) ==
    [last |-> With(a.last, Entity(e), [count |-> e.after, revision |-> e.revision]),
     minted |-> [a.minted EXCEPT ![e.vnum] = @ + Gain(e)],
     burned |-> [a.burned EXCEPT ![e.vnum] = @ + Loss(e)],
     balance |-> [a.balance EXCEPT ![e.drop] = @ + Owed(e)],
     sound |-> a.sound /\ Continues(a, e) /\ CauseFits(a, e),
     quests |-> a.quests \/ e.cause = "quest"]

EmptyAudit ==
    [last |-> [x \in {} |-> 0], minted |-> [v \in Vnum |-> 0], burned |-> [v \in Vnum |-> 0],
     balance |-> [d \in 0..MaxDrop |-> 0], sound |-> TRUE, quests |-> FALSE]

-----------------------------------------------------------------------------
(* Grants.  w is the state of the transaction: the rows, the history and the *)
(* quantity left to place; ok turns FALSE where the code returns Err.        *)

Lesser(a, b) == IF a < b THEN a ELSE b

Work(n) == [items |-> items, next |-> nextItem, audit |-> audit, left |-> n, ok |-> TRUE]

\* Stacks are visited in grid order; the fold over a set puts the last one
\* outermost.
Before(s, i, j) == s[i].cell < s[j].cell \/ (s[i].cell = s[j].cell /\ i < j)

Hindmost(s, S) == CHOOSE i \in S : \A j \in S \ {i} : Before(s, j, i)

\* Fault: a stack is topped up without a new revision.
ToppedFault(w, i, cause, drop) ==
    LET row == w.items[i]
        n == Lesser(w.left, Limit[row.vnum] - row.count)
    IN  IF w.left = 0 THEN w
        ELSE [w EXCEPT !.items[i].count = @ + n, !.left = @ - n,
                       !.audit = Recorded(@, Event(i, drop, row, row.count,
                                                   row.count + n, row.revision + 1, cause))]

\* One stack filled up to its limit.
Topped(w, i, cause, drop) ==
    LET row == w.items[i]
        n == Lesser(w.left, Limit[row.vnum] - row.count)
    IN  IF w.left = 0 THEN w
        ELSE [w EXCEPT !.items = [@ EXCEPT ![i] = [row EXCEPT !.count = @ + n, !.revision = @ + 1]],
                       !.left = @ - n, !.ok = @ /\ row.revision < MaxRevision,
                       !.audit = Recorded(@, Event(i, drop, row, row.count,
                                                   row.count + n, row.revision + 1, cause))]

\* Fault: a new stack takes the whole remainder, whatever the limit.
InsertedFault(w, p, v, cause, drop) ==
    LET free == FreeCells(w.items, p, v, {})
        row == [owner |-> p, vnum |-> v, count |-> w.left, revision |-> 1,
                cell |-> Min(free), equipped |-> FALSE]
    IN  IF w.left = 0 \/ free = {} THEN w
        ELSE [w EXCEPT !.items = With(@, w.next, row), !.next = @ + 1, !.left = 0,
                       !.audit = Recorded(@, Event(w.next, drop, row, 0, w.left, 1, cause))]

\* One new stack in the first free cell; nothing when the bag is full.
Inserted(w, p, v, cause, drop) ==
    LET free == FreeCells(w.items, p, v, {})
        n == Lesser(w.left, Limit[v])
        row == [owner |-> p, vnum |-> v, count |-> n, revision |-> 1,
                cell |-> Min(free), equipped |-> FALSE]
    IN  IF w.left = 0 \/ free = {} THEN w
        ELSE [w EXCEPT !.items = With(@, w.next, row), !.next = @ + 1, !.left = @ - n,
                       !.audit = Recorded(@, Event(w.next, drop, row, 0, n, 1, cause))]

Filled(w, partial, cause, drop) ==
    MapThenFoldSet(LAMBDA i, u : Topped(u, i, cause, drop), w, LAMBDA i : i,
                   LAMBDA S : Hindmost(w.items, S), partial)

Opened(w, p, v, cause, drop) ==
    FoldSet(LAMBDA k, u : Inserted(u, p, v, cause, drop), w, 1..w.left)

\* Fill the unfinished stacks in grid order, then open new ones.
Bagged(w, p, v, cause, drop) ==
    LET partial == {i \in Bag(w.items, p) :
                        w.items[i].vnum = v /\ w.items[i].count < Limit[v]}
    IN  Opened(Filled(w, partial, cause, drop), p, v, cause, drop)

Placed(w) == w.ok /\ w.left = 0

\* The transaction commits.
Commit(w) ==
    /\ w.ok /\ w.next <= MaxItem + 1
    /\ items' = w.items /\ nextItem' = w.next

DropRow(p, v, n) ==
    [owner |-> p, vnum |-> v, count |-> n,
     reserved |-> now + Reserved, expires |-> now + Expires]

\* u.left goes to the ground in stacks reserved for p.
Grounded(u, p, v, cause) ==
    LET n == Lesser(u.left, Limit[v])
        row == DropRow(p, v, n)
    IN  IF u.left = 0 \/ u.next > MaxDrop THEN u
        ELSE [u EXCEPT !.drops = With(@, u.next, row), !.next = @ + 1, !.left = @ - n,
                       !.audit = Recorded(@, Event(0, u.next, row, 0, n, 0, cause))]

Ground(w) == [drops |-> drops, next |-> nextDrop, audit |-> w.audit, left |-> w.left]

-----------------------------------------------------------------------------
(* Reducers of the inventory panel.  A client may claim any revision: the    *)
(* one it saw last, an old one, one of another life of the item.             *)

\* owned_item: a live controller, the owner, the current revision and room
\* for the next one.
Addresses(p, i, revision) ==
    /\ p \in active /\ i \in Owned(items, p)
    /\ items[i].revision = revision /\ revision < MaxRevision

Unmoved == UNCHANGED <<now, active, started, drops, nextDrop, audit, awarded>>

MoveItem(p, i, cell, revision) ==
    /\ Addresses(p, i, revision) /\ ~items[i].equipped
    /\ CanPlace(items, p, items[i].vnum, cell, {i})
    /\ items' = [items EXCEPT ![i].cell = cell, ![i].revision = @ + 1]
    /\ UNCHANGED nextItem /\ Unmoved

\* Fault: the weapon in hand stays there.
DisplacedFault(p, i, w) == items

\* The weapon in hand goes back to the bag, into the cells i gives up if need be.
Displaced(p, i, w) ==
    [items EXCEPT ![w].equipped = FALSE,
                  ![w].cell = Min(FreeCells(items, p, items[w].vnum, {w, i})),
                  ![w].revision = @ + 1]

\* Equipping what is already equipped changes nothing.
EquipItem(p, i, revision) ==
    LET held == {w \in Owned(items, p) : items[w].equipped}
        bag == IF held = {} THEN items
               ELSE Displaced(p, i, CHOOSE w \in held : TRUE)
    IN  /\ Addresses(p, i, revision) /\ ~items[i].equipped
        /\ items[i].vnum \in Weapon /\ items[i].count = 1
        /\ \A w \in held : /\ items[w].revision < MaxRevision
                           /\ FreeCells(items, p, items[w].vnum, {w, i}) # {}
        /\ items' = [bag EXCEPT ![i].equipped = TRUE, ![i].cell = EquippedCell,
                                ![i].revision = @ + 1]
        /\ UNCHANGED nextItem /\ Unmoved

UnequipItem(p, i, cell, revision) ==
    /\ Addresses(p, i, revision) /\ items[i].equipped
    /\ CanPlace(items, p, items[i].vnum, cell, {i})
    /\ items' = [items EXCEPT ![i].equipped = FALSE, ![i].cell = cell,
                              ![i].revision = @ + 1]
    /\ UNCHANGED nextItem /\ Unmoved

\* Fault: the last unit of a stack leaves without a trace.
ConsumedFault(p, i) ==
    [s |-> Without(items, {i}), a |-> audit]

\* One unit of stack i: the row is rewritten, or deleted with its last unit.
Consumed(p, i) ==
    LET row == items[i] IN
    [s |-> IF row.count = 1 THEN Without(items, {i})
           ELSE [items EXCEPT ![i].count = @ - 1, ![i].revision = @ + 1],
     a |-> Recorded(audit, Event(i, 0, row, row.count, row.count - 1,
                                 row.revision + 1, "consume"))]

\* Only recovery items have an effect.
UseItem(p, i, revision) ==
    /\ Addresses(p, i, revision) /\ ~items[i].equipped /\ items[i].vnum \notin Weapon
    /\ items' = Consumed(p, i).s /\ audit' = Consumed(p, i).a
    /\ UNCHANGED <<now, active, started, nextItem, drops, nextDrop, awarded>>

\* Fault: what does not fit in the bag is lost.
PickupItemDropFault(p, d) ==
    LET row == drops[d]
        w == Bagged(Work(row.count), p, row.vnum, "pickup", d)
    IN  /\ p \in active /\ now < row.expires
        /\ row.owner = p \/ now >= row.reserved
        /\ Commit(w)
        /\ audit' = Recorded(w.audit, Event(0, d, row, row.count, 0, 0, "pickup"))
        /\ drops' = Without(drops, {d})
        /\ UNCHANGED <<now, active, started, nextDrop, awarded>>

PickupItemDrop(p, d) ==
    LET row == drops[d]
        w == Bagged(Work(row.count), p, row.vnum, "pickup", d)
    IN  /\ p \in active /\ now < row.expires
        /\ row.owner = p \/ now >= row.reserved
        /\ Placed(w) /\ Commit(w)
        /\ audit' = Recorded(w.audit, Event(0, d, row, row.count, 0, 0, "pickup"))
        /\ drops' = Without(drops, {d})
        /\ UNCHANGED <<now, active, started, nextDrop, awarded>>

-----------------------------------------------------------------------------
(* What the rest of the server gives and takes.                              *)

Award(v, n) == awarded' = [awarded EXCEPT ![v] = @ + n]

\* enter_character: the starter kit once, with the first entry.
Enter(p) ==
    LET weapon == Bagged(Work(1), p, StarterWeapon, "starter", 0)
        kit == Bagged([weapon EXCEPT !.left = StarterPotions], p, Potion, "starter", 0)
    IN  /\ p \notin active /\ active' = active \cup {p}
        /\ IF p \in started THEN UNCHANGED <<started, items, nextItem, audit, awarded>>
           ELSE /\ weapon.left = 0 /\ Placed(kit) /\ Commit(kit)
                /\ started' = started \cup {p} /\ audit' = kit.audit
                /\ awarded' = [awarded EXCEPT ![StarterWeapon] = @ + 1,
                                              ![Potion] = @ + StarterPotions]
        /\ UNCHANGED <<now, drops, nextDrop>>

Leave(p) ==
    /\ p \in active /\ active' = active \ {p}
    /\ UNCHANGED <<now, started, items, nextItem, drops, nextDrop, audit, awarded>>

\* Fault: what the bag cannot hold is forgotten.
OverflowFault(w, p, v) == [Ground(w) EXCEPT !.left = 0]

\* The rest of an automatic grant: stacks on the ground beside the character.
Overflow(w, p, v) ==
    FoldSet(LAMBDA k, u : Grounded(u, p, v, "progression"), Ground(w), 1..w.left)

\* grant_automatic_progression: a quarter-step reward does not wait for room.
GrantAutomaticProgression(p, v, n) ==
    LET w == Bagged(Work(n), p, v, "progression", 0)
        u == Overflow(w, p, v)
    IN  /\ p \in started /\ Commit(w) /\ u.left = 0
        /\ drops' = u.drops /\ nextDrop' = u.next /\ audit' = u.audit
        /\ Award(v, n)
        /\ UNCHANGED <<now, active, started>>

\* drop_items, one rolled row.
DropItems(p, v, n) ==
    LET row == DropRow(p, v, n) IN
    /\ p \in started /\ nextDrop <= MaxDrop
    /\ drops' = With(drops, nextDrop, row) /\ nextDrop' = nextDrop + 1
    /\ audit' = Recorded(audit, Event(0, nextDrop, row, 0, n, 0, "monster"))
    /\ Award(v, n)
    /\ UNCHANGED <<now, active, started, items, nextItem>>

\* The give and reward operations of a quest.
QuestGrant(p, v, n) ==
    LET w == Bagged(Work(n), p, v, "quest", 0) IN
    /\ Quests /\ p \in active /\ Placed(w) /\ Commit(w)
    /\ audit' = w.audit /\ Award(v, n)
    /\ UNCHANGED <<now, active, started, drops, nextDrop>>

\* One stack of consume_owned.  The event of a whole stack is written from the
\* row as it was, so its count before and after is the same.
Taken(w, i) ==
    LET row == w.items[i]
        n == Lesser(w.left, row.count)
        gone == n = row.count
        event == IF gone THEN Event(i, 0, row, row.count, row.count, row.revision, "quest")
                 ELSE Event(i, 0, row, row.count, row.count - n, row.revision + 1, "quest")
    IN  IF w.left = 0 THEN w
        ELSE [w EXCEPT !.items = IF gone THEN Without(@, {i})
                                 ELSE [@ EXCEPT ![i] = [row EXCEPT !.count = @ - n, !.revision = @ + 1]],
                       !.left = @ - n, !.ok = @ /\ row.revision < MaxRevision,
                       !.audit = Recorded(@, event)]

TakenAll(n, held) ==
    MapThenFoldSet(LAMBDA i, u : Taken(u, i), Work(n), LAMBDA i : i,
                   LAMBDA S : Hindmost(items, S), held)

\* consume_owned: in grid order, equipped items last.
ConsumeOwned(p, v, n) ==
    LET held == {i \in Owned(items, p) : items[i].vnum = v}
        w == TakenAll(n, held)
    IN  /\ Quests /\ p \in active /\ Placed(w) /\ Commit(w)
        /\ audit' = w.audit
        /\ UNCHANGED <<now, active, started, drops, nextDrop, awarded>>

\* Fault: an expired drop is deleted without a record.
ExpiredFault(a, d) == a

Expired(a, d) == Recorded(a, Event(0, d, drops[d], drops[d].count, 0, 0, "expiry"))

Swept(late) == FoldSet(LAMBDA d, a : Expired(a, d), audit, late)

\* expire_drops, inside simulate.
ExpireDrops ==
    LET late == {d \in DOMAIN drops : now >= drops[d].expires} IN
    /\ late # {}
    /\ drops' = Without(drops, late)
    /\ audit' = Swept(late)
    /\ UNCHANGED <<now, active, started, items, nextItem, nextDrop, awarded>>

Tick ==
    /\ now < MaxTime /\ now' = now + 1
    /\ UNCHANGED <<active, started, items, nextItem, drops, nextDrop, audit, awarded>>

Init ==
    /\ now = 0 /\ active = {} /\ started = {}
    /\ items = [x \in {} |-> 0] /\ nextItem = 1 /\ drops = [x \in {} |-> 0] /\ nextDrop = 1
    /\ audit = EmptyAudit /\ awarded = [v \in Vnum |-> 0]

Panel(p) ==
    \E i \in Owned(items, p), revision \in 1..MaxRevision :
        \/ EquipItem(p, i, revision)
        \/ UseItem(p, i, revision)
        \/ \E cell \in Cells : \/ MoveItem(p, i, cell, revision)
                               \/ UnequipItem(p, i, cell, revision)

World(p) ==
    \E reward \in Rewards :
        \/ GrantAutomaticProgression(p, reward[1], reward[2])
        \/ DropItems(p, reward[1], reward[2])
        \/ QuestGrant(p, reward[1], reward[2])
        \/ ConsumeOwned(p, reward[1], reward[2])

Next ==
    \/ Tick \/ ExpireDrops
    \/ \E p \in Character :
           \/ Enter(p) \/ Leave(p) \/ Panel(p) \/ World(p)
           \/ \E d \in DOMAIN drops : PickupItemDrop(p, d)

Spec == Init /\ [][Next]_vars

-----------------------------------------------------------------------------
(* Properties.                                                               *)

ItemRow ==
    [owner : Character, vnum : Vnum, count : Nat, revision : 1..MaxRevision,
     cell : Cells \cup {EquippedCell}, equipped : BOOLEAN]
GroundRow ==
    [owner : Character, vnum : Vnum, count : Nat \ {0}, reserved : Nat, expires : Nat]

\* Besides the types: validate_items finds nothing wrong with any stack, and
\* only an equipped item has the cell 255.
TypeOK ==
    /\ now \in 0..MaxTime /\ active \subseteq started /\ started \subseteq Character
    /\ nextItem \in Nat \ {0} /\ DOMAIN items \subseteq 1..(nextItem - 1)
    /\ nextDrop \in 1..(MaxDrop + 1) /\ DOMAIN drops \subseteq 1..(nextDrop - 1)
    /\ items \in [DOMAIN items -> ItemRow] /\ drops \in [DOMAIN drops -> GroundRow]
    /\ \A i \in DOMAIN items :
           /\ items[i].count \in 1..Limit[items[i].vnum]
           /\ items[i].equipped <=> items[i].cell = EquippedCell
    /\ awarded \in [Vnum -> Nat]

\* The items of a bag lie inside one page and never share a cell, whatever the
\* order of moves, stacking, pickups, consumption and weapon swaps; a character
\* holds one weapon at most, and it is a weapon.
BagIsSound ==
    /\ \A p \in Character : \A i, j \in Bag(items, p) :
        /\ Fits(items[i].vnum, items[i].cell)
        /\ i # j => Footprint(items[i].vnum, items[i].cell)
                        \cap Footprint(items[j].vnum, items[j].cell) = {}
    /\ \A i, j \in DOMAIN items :
        items[i].equipped =>
            /\ items[i].vnum \in Weapon
            /\ items[j].equipped /\ items[i].owner = items[j].owner => i = j

\* A revision names one state of one item: a row that changes gets a higher
\* one, and the id of a row that is gone never comes back.  So two requests
\* built from the same observation cannot both take effect.
RevisionAdvances ==
    [][ /\ \A i \in DOMAIN items \cap DOMAIN items' :
               items'[i] # items[i] => items'[i].revision > items[i].revision
        /\ \A i \in DOMAIN items' \ DOMAIN items : i >= nextItem ]_vars

\* The history of every stack and drop is a chain: it starts with a creation,
\* every event continues the last, and each cause moves a quantity its way.
HistoryIsAChain == audit.sound

\* How many of v the rows of a table hold.
Stock(table, v) ==
    SumFunctionOnSet([i \in DOMAIN table |-> IF table[i].vnum = v THEN table[i].count ELSE 0],
                     DOMAIN table)

Quantity(v) == Stock(items, v) + Stock(drops, v)

\* The history and the stock agree on what exists and how many there are.
AuditedStockIsLive ==
    {<<e, audit.last[e].count>> : e \in {x \in DOMAIN audit.last : audit.last[x].count # 0}}
        = {<<<<"inventory", i>>, items[i].count>> : i \in DOMAIN items}
          \cup {<<<<"drops", d>>, drops[d].count>> : d \in DOMAIN drops}

\* A pickup credits to the bag what it takes from the ground, over several
\* stacks if need be.
PickupsBalance == \A d \in DOMAIN audit.balance : audit.balance[d] = 0

\* Minted quantities are held, on the ground, or burned: nothing is duplicated
\* and nothing lost.
QuantitiesBalance == \A v \in Vnum : audit.minted[v] = Quantity(v) + audit.burned[v]

\* A reward is paid in full, a full bag or not, and the kit once.
AwardsArePaid == audit.minted = awarded

\* tools/audit_items.py is content with the history that the server wrote, for
\* as long as no quest has touched the stock: it refuses the cause "quest",
\* and a stack that a quest takes whole stays in the history.
GoodsAreAccountedFor ==
    /\ AwardsArePaid
    /\ ~audit.quests =>
         /\ HistoryIsAChain /\ AuditedStockIsLive
         /\ PickupsBalance /\ QuantitiesBalance

\* The bag of a character, with the types.
InventoryIsSound == TypeOK /\ BagIsSound
=============================================================================
