---------------------------- MODULE QuestCatalog ----------------------------
(* The opening quests as data, from                                          *)
(* content/profiles/classic-quests-opening.json: for every quest and state    *)
(* the operations run on entry and the triggers.  Dialogue text is dropped;   *)
(* an operation that only speaks is Say.                                      *)
EXTENDS Naturals, Sequences

CONSTANT Dogs       \* kills that killdog asks for (9 in the catalog)

COMPLETE == "__COMPLETE__"

Order == <<"main_quest_lv1", "main_quest_lv2", "main_quest_lv3", "find_squareguard">>
QuestId == {Order[i] : i \in 1..Len(Order)}

\* initial_state: the state a joining character waits in.
InitialState(q) == IF q = "main_quest_lv1" THEN "start" ELSE "run"

(* Operations: a kind and its argument.                                      *)
Do(op, arg) == [op |-> op, arg |-> arg]
Say == Do("say", "")
Letter == Do("letter", "")
ClearLetter == Do("clear_letter", "")
Mark == Do("target", "")
Objective(total) == Do("objective", total)
Count(total, onReached) == Do("count", [total |-> total, on_reached |-> onReached])
Ask(branches) == Do("select", branches)
SetState(st) == Do("set_state", st)
SetQuestState(q, st) == Do("set_quest_state", [quest |-> q, state |-> st])
Give(kind) == Do("give", kind)      \* give_exp, give_money, give_item, random_item
RemoveItem == Do("remove_item", "")

(* Triggers: an event and the conditions under which it fires.               *)
AnyNpc == 0
When(event, vnum, ops) ==
    [event |-> event, vnum |-> vnum, level |-> Nat, amount |-> Nat, held |-> Nat,
     operator |-> FALSE, ops |-> ops]

Doc(enter, triggers) == [enter |-> enter, triggers |-> triggers]
Journey == <<Letter, Mark, Say>>            \* how most states open
Silent == Doc(<< >>, << >>)

Lv1 ==
    [start |-> Doc(<< >>,
        <<[When("login", AnyNpc, <<SetState("gotoinfomation")>>) EXCEPT !.level = {1}]>>),
     gotoinfomation |-> Doc(<<Letter, Say, SetState("gototeacher")>>, << >>),
     gototeacher |-> Doc(<<Mark, Say>>,
        <<When("npc_click", 20354,
               <<Say, ClearLetter, SetState(COMPLETE),
                 SetQuestState("find_squareguard", "find"),
                 SetQuestState("main_quest_lv2", "run")>>)>>),
     __COMPLETE__ |-> Silent]

Lv2 ==
    [start |-> Silent,
     run |-> Doc(<< >>,
        <<[When("login", AnyNpc, <<SetState("gototeacher")>>) EXCEPT !.level = Nat \ {0, 1}],
          [When("levelup", AnyNpc, <<SetState("gototeacher")>>) EXCEPT !.level = Nat \ {0, 1}],
          [When("npc_chat", 20354, <<Say>>) EXCEPT !.level = {1}]>>),
     gototeacher |-> Doc(Journey,
        <<When("npc_click", 20354, <<Say, SetState("killdog")>>)>>),
     killdog |-> Doc(<<Letter, Objective(Dogs), Say>>,
        <<When("kill", 101, <<Count(Dogs, <<Say, SetState("gototeacher2")>>)>>),
          [When("npc_chat", 20354, <<Say>>) EXCEPT !.amount = 0..(Dogs - 1)],
          [When("npc_chat", 20354, <<Say, Ask(<< <<SetState("gototeacher2")>>, << >> >>)>>)
               EXCEPT !.amount = 0..(Dogs - 1), !.operator = TRUE],
          [When("npc_chat", 20354, <<Say, SetState("gototeacher2")>>)
               EXCEPT !.amount = Nat \ (0..(Dogs - 1))]>>),
     gototeacher2 |-> Doc(Journey,
        <<When("npc_click", 20354,
               <<Say, Give("exp"), Give("money"), Give("item"), ClearLetter,
                 SetState(COMPLETE), SetQuestState("main_quest_lv3", "run")>>)>>),
     __COMPLETE__ |-> Silent]

Lv3 ==
    [start |-> Silent,
     run |-> Doc(<< >>,
        <<[When("login", AnyNpc, <<SetState("gototeacher")>>) EXCEPT !.level = Nat \ (0..2)],
          [When("levelup", AnyNpc, <<SetState("gototeacher")>>) EXCEPT !.level = Nat \ (0..2)],
          When("npc_chat", 20354, <<Say>>)>>),
     gototeacher |-> Doc(Journey,
        <<When("npc_click", 20354, <<Say, SetState("gotogood")>>)>>),
     gotogood |-> Doc(Journey,
        <<When("npc_click", 9003, <<Say, SetState("gotodefend")>>)>>),
     gotodefend |-> Doc(Journey,
        <<When("npc_click", 9002,
               <<Say, Give("exp"), Give("money"), Give("item"), ClearLetter,
                 SetState(COMPLETE), SetQuestState("main_quest_lv6", "run")>>)>>),
     __COMPLETE__ |-> Silent]

Squareguard ==
    [start |-> Silent,
     run |-> Doc(<< >>,
        <<[When("login", AnyNpc, <<SetState("find")>>) EXCEPT !.level = 0..5]>>),
     find |-> Doc(Journey,
        <<When("npc_click", 11000,
               <<Say, Ask(<< <<Say, Give("money"), SetState("buy")>> >>)>>)>>),
     buy |-> Doc(Journey,
        <<When("npc_chat", 11000, <<Say>>),
          When("npc_click", 9003, <<Say, Give("item"), SetState("deliver")>>)>>),
     deliver |-> Doc(Journey,
        <<[When("npc_click", 11000, <<Say, ClearLetter, SetState(COMPLETE)>>)
               EXCEPT !.held = {0}],
          [When("npc_click", 11000,
                <<Say, RemoveItem, Give("random"), ClearLetter, SetState(COMPLETE)>>)
               EXCEPT !.held = Nat \ {0}]>>),
     __COMPLETE__ |-> Silent]

Document(q) ==
    CASE q = "main_quest_lv1" -> Lv1
      [] q = "main_quest_lv2" -> Lv2
      [] q = "main_quest_lv3" -> Lv3
      [] q = "find_squareguard" -> Squareguard

StateName(q) == DOMAIN Document(q)
StateDoc(q, st) == Document(q)[st]

Npc == {20354, 9003, 9002, 11000}
=============================================================================
