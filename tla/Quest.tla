------------------------------- MODULE Quest -------------------------------
(* The quest runtime of one character and its conversation with an NPC.      *)
(*                                                                           *)
(* Source: server/src/quest.rs and server/src/npcs.rs.  A gameplay event     *)
(* (login, level-up, kill, conversation) is delivered to every quest in      *)
(* catalog order, several passes long, inside one reducer; w is the working  *)
(* copy of the rows during such a delivery.  A reducer that returns Err      *)
(* changes nothing; the handlers of kills and level-ups keep what was        *)
(* written before the error.                                                 *)
(*                                                                           *)
(* Abstracted: what the dialogue says; experience within a level; the number *)
(* of potions carried (0: none, 1: some).  Time passes in minutes, and the   *)
(* deadline of a row is the number of minutes it has left.                   *)
EXTENDS QuestCatalog

CONSTANTS
    Nothing,
    MaxLevel,           \* the level cap
    MaxStateEnters,     \* MAX_STATE_ENTERS
    Operator            \* the values is_operator may have: {FALSE}, {TRUE} or both

ASSUME QuestAssumption ==
    /\ MaxLevel \in Nat \ {0} /\ MaxStateEnters \in Nat
    /\ Operator \subseteq BOOLEAN /\ Dogs \in Nat \ {0}
    /\ \A q \in QuestId : Nothing \notin StateName(q)

SelectionLife == 2      \* SELECTION_US, in minutes
SessionLife == 1        \* SESSION_US

VARIABLES
    operator,    \* is_operator of the character
    inWorld,      \* the character is in the world
    level,
    held,        \* potions carried: 0 none, 1 some
    quest,       \* quest_state rows: the state of each quest, Nothing before entry
    tracker,     \* quest_objective rows
    question,   \* the quest_selection row, or Nothing
    session,     \* the npc_interaction row, or Nothing
    granted      \* history: how often each quest paid each reward

questVars == <<operator, inWorld, level, held, quest, tracker, question, session, granted>>

NoTracker == [letter |-> FALSE, label |-> FALSE, amount |-> 0, total |-> 0]
RewardKind == {"exp", "money", "item", "random"}

QuestTypeOK ==
    /\ operator \in BOOLEAN
    /\ inWorld \in BOOLEAN
    /\ level \in 1..MaxLevel
    /\ held \in 0..1
    /\ \A q \in QuestId : quest[q] \in StateName(q) \cup {Nothing}
    /\ tracker \in [QuestId -> [letter : BOOLEAN, label : BOOLEAN,
                                amount : 0..Dogs, total : {0, Dogs}]]
    /\ question # Nothing => /\ question.npc \in Npc
                           /\ question.quest \in QuestId
                           /\ question.left \in 0..SelectionLife
    /\ session = Nothing \/ session \in [npc : Npc, offered : BOOLEAN, left : 0..SessionLife]
    /\ granted \in [QuestId -> [RewardKind -> 0..2]]

QuestInit ==
    /\ operator \in Operator
    /\ inWorld = FALSE
    /\ level = 1
    /\ held = 0
    /\ quest = [q \in QuestId |-> Nothing]
    /\ tracker = [q \in QuestId |-> NoTracker]
    /\ question = Nothing
    /\ session = Nothing
    /\ granted = [q \in QuestId |-> [k \in RewardKind |-> 0]]

\* The community modules' FoldLeft picks a maximum at every step; a delivery
\* folds hundreds of times.
FoldLeft(f(_, _), base, seq) ==
    LET upTo[i \in 0..Len(seq)] == IF i = 0 THEN base ELSE f(upTo[i - 1], seq[i])
    IN  upTo[Len(seq)]

-----------------------------------------------------------------------------
(* A delivery: its working rows, and what it has collected so far.           *)

Working ==
    [level |-> level, held |-> held, quest |-> quest, tracker |-> tracker,
     question |-> question, granted |-> granted,
     queue |-> << >>,           \* states whose enter operations are due
     fired |-> {},              \* triggers this delivery has run
     said |-> FALSE,            \* the dialogue is not empty
     offered |-> FALSE,         \* the dialogue asks a question
     progressed |-> FALSE,      \* the current pass ran a trigger
     err |-> FALSE]             \* an operation returned Err

\* What the rows outside the quest tables decide: whether an experience reward
\* raises the level, whether the bag and the purse have room, whether the
\* potion removed is the last one.  No delivery pays experience and takes a
\* potion, so one bit decides both.
World == {[gain |-> g, room |-> r, last |-> g = 1] : g \in 0..1, r \in BOOLEAN}

\* Logins, level-ups and kills neither give nor take anything, so the world
\* has no say in them.
Quiet == [gain |-> 0, room |-> TRUE, last |-> FALSE]

ASSUME QuietAssumption ==
    \A q \in QuestId : \A st \in StateName(q) :
        LET doc == StateDoc(q, st)
            Rewards(ops) == \E i \in DOMAIN ops : ops[i].op \in {"give", "remove_item"}
        IN  /\ ~Rewards(doc.enter)
            /\ \A i \in DOMAIN doc.triggers :
                   doc.triggers[i].event \in {"login", "levelup", "kill"}
                       => ~Rewards(doc.triggers[i].ops)

\* Fault: the tracker of a completed quest is kept.
MovedToFault(w, q, st) ==
    [w EXCEPT !.quest[q] = st, !.queue = Append(@, <<q, st>>)]

MovedTo(w, q, st) ==
    [w EXCEPT !.quest[q] = st,
              !.tracker[q] = IF st = COMPLETE THEN NoTracker ELSE @,
              !.queue = Append(@, <<q, st>>)]

\* Fault: a completed quest can be unlocked again.
UnlockableFault(w, q, st) ==
    q \in QuestId /\ st \in StateName(q) /\ w.quest[q] \notin {Nothing, st}

\* The guard of set_quest_state.
Unlockable(w, q, st) ==
    q \in QuestId /\ st \in StateName(q) /\ w.quest[q] \notin {Nothing, st, COMPLETE}

\* Fault: a reward that cannot be granted is skipped.
RewardFault(w, q, kind, env) ==
    IF IF kind = "exp" THEN w.level = MaxLevel ELSE ~env.room
    THEN w
    ELSE [w EXCEPT !.granted[q][kind] = IF @ < 2 THEN @ + 1 ELSE 2,
                   !.level = IF kind = "exp" /\ @ < MaxLevel THEN @ + env.gain ELSE @,
                   !.held = IF kind = "item" THEN 1 ELSE @]

\* give_exp (refused at the cap), give_money, give_item, random_item.
Reward(w, q, kind, env) ==
    IF IF kind = "exp" THEN w.level = MaxLevel ELSE ~env.room
    THEN [w EXCEPT !.err = TRUE]
    ELSE [w EXCEPT !.granted[q][kind] = IF @ < 2 THEN @ + 1 ELSE 2,
                   !.level = IF kind = "exp" THEN @ + env.gain ELSE @,
                   !.held = IF kind = "item" THEN 1 ELSE @]

\* One operation of quest q, other than count.
Perform(w, q, op, npc, env) ==
    CASE op.op = "say" -> [w EXCEPT !.said = TRUE]
      [] op.op = "letter" -> [w EXCEPT !.tracker[q].letter = TRUE]
      [] op.op = "clear_letter" -> [w EXCEPT !.tracker[q].letter = FALSE]
      [] op.op = "target" -> [w EXCEPT !.tracker[q].label = TRUE]
      [] op.op = "objective" ->
            [w EXCEPT !.tracker[q] = [letter |-> @.letter, label |-> TRUE,
                                      amount |-> IF @.amount < op.arg THEN @.amount ELSE op.arg,
                                      total |-> op.arg]]
      [] op.op = "select" ->
            [w EXCEPT !.said = TRUE, !.offered = TRUE,
                      !.question = [npc |-> npc, quest |-> q, asked |-> w.quest[q],
                                     branches |-> op.arg, left |-> SelectionLife]]
      [] op.op = "set_state" ->
            IF w.quest[q] = op.arg THEN w ELSE MovedTo(w, q, op.arg)
      [] op.op = "set_quest_state" ->
            IF Unlockable(w, op.arg.quest, op.arg.state)
            THEN MovedTo(w, op.arg.quest, op.arg.state) ELSE w
      [] op.op = "give" -> Reward(w, q, op.arg, env)
      [] op.op = "remove_item" ->
            IF w.held = 0 THEN [w EXCEPT !.err = TRUE]
            ELSE [w EXCEPT !.held = IF env.last THEN 0 ELSE 1]

Flat(w, q, op, npc, env) == IF w.err THEN w ELSE Perform(w, q, op, npc, env)

RunFlat(w, q, ops, npc, env) ==
    FoldLeft(LAMBDA v, op : Flat(v, q, op, npc, env), w, ops)

\* Fault: the objective is reached one kill late.
ReachedFault(amount, total) == amount > total

Reached(amount, total) == amount >= total

\* count: one more, and at the total the operations that wait for it.
Counted(w, q, arg, npc, env) ==
    LET before == IF w.tracker[q].amount < arg.total THEN w.tracker[q].amount ELSE arg.total
        current == IF before < arg.total THEN before + 1 ELSE arg.total
        counted == [w EXCEPT !.tracker[q].amount = current, !.tracker[q].total = arg.total]
    IN  IF Reached(current, arg.total) THEN RunFlat(counted, q, arg.on_reached, npc, env)
        ELSE counted

\* run_ops
RunOp(w, q, op, npc, env) ==
    CASE w.err -> w
      [] ~w.err /\ op.op = "count" -> Counted(w, q, op.arg, npc, env)
      [] OTHER -> Perform(w, q, op, npc, env)

RunOps(w, q, ops, npc, env) ==
    FoldLeft(LAMBDA v, op : RunOp(v, q, op, npc, env), w, ops)

\* clear_tracker_progress
ForgetProgress(w, q) ==
    [w EXCEPT !.tracker[q].amount = 0, !.tracker[q].total = 0]

\* apply_state_enter, unless a later transition superseded this one.
EnterState(w, q, st, npc, env) ==
    LET ops == StateDoc(q, st).enter
        hasObjective == \E i \in DOMAIN ops : ops[i].op = "objective"
        Entered(v) == IF hasObjective \/ v.err THEN v ELSE ForgetProgress(v, q)
    IN  IF w.quest[q] # st THEN w ELSE Entered(RunOps(w, q, ops, npc, env))

\* drain_enters
DrainOne(w, npc, env) ==
    IF w.err \/ w.queue = << >> THEN w
    ELSE EnterState([w EXCEPT !.queue = Tail(@)], Head(w.queue)[1], Head(w.queue)[2],
                    npc, env)

EntriesRun(w, npc, env) ==
    FoldLeft(LAMBDA v, i : DrainOne(v, npc, env), w, [i \in 1..MaxStateEnters |-> i])

\* The entry after the last one that may run is taken from the queue and lost.
WithoutNext(w) == IF w.err \/ w.queue = << >> THEN w ELSE [w EXCEPT !.queue = Tail(@)]

DrainEnters(w, npc, env) == WithoutNext(EntriesRun(w, npc, env))

\* conditions_hold; the level is the one at the start of the delivery.
Holds(t, event, vnum, lvl, w, q) ==
    /\ t.event = event
    /\ t.vnum \in {AnyNpc, vnum}
    /\ t.operator => operator
    /\ lvl \in t.level
    /\ w.tracker[q].amount \in t.amount
    /\ w.held \in t.held

\* The triggers of the state the quest was in when the pass came to it.
Fired(w, q, i) == [w EXCEPT !.fired = @ \cup {<<q, i>>}, !.progressed = TRUE]

TryTrigger(w, q, i, t, event, vnum, lvl, env) ==
    IF w.err \/ <<q, i>> \in w.fired \/ ~Holds(t, event, vnum, lvl, w, q) THEN w
    ELSE RunOps(Fired(w, q, i), q, t.ops, vnum, env)

DeliverTo(w, q, event, vnum, lvl, env) ==
    LET triggers == StateDoc(q, w.quest[q]).triggers
    IN  IF w.quest[q] \in {Nothing, COMPLETE} THEN w
        ELSE FoldLeft(LAMBDA v, i : TryTrigger(v, q, i, triggers[i], event, vnum, lvl, env),
                      w, [i \in 1..Len(triggers) |-> i])

DeliverAll(w, event, vnum, lvl, env) ==
    FoldLeft(LAMBDA v, q : DeliverTo(v, q, event, vnum, lvl, env), w, Order)

Pass(w, i, event, vnum, lvl, env) ==
    IF w.err \/ (i > 1 /\ ~w.progressed) THEN w
    ELSE DrainEnters(DeliverAll([w EXCEPT !.progressed = FALSE], event, vnum, lvl, env),
                     vnum, env)

\* Passes over the quests until none of them runs a trigger.
Passes(w, event, vnum, lvl, passes, env) ==
    FoldLeft(LAMBDA v, i : Pass(v, i, event, vnum, lvl, env), w, [i \in 1..passes |-> i])

\* dispatch
Dispatch(w, event, vnum, passes, env) ==
    [Passes(w, event, vnum, w.level, passes, env) EXCEPT !.fired = {}, !.queue = << >>]

\* The delivery becomes the state.
Commit(w) ==
    /\ level' = w.level
    /\ held' = w.held
    /\ quest' = w.quest
    /\ tracker' = w.tracker
    /\ question' = w.question
    /\ granted' = w.granted

-----------------------------------------------------------------------------
(* Entering and leaving the world.                                           *)

\* quest::enter: missing rows, then the login triggers.  Entering again while
\* in the world delivers the login again.
EnterQuests ==
    LET rows == [Working EXCEPT
                    !.quest = [q \in QuestId |->
                                  IF @[q] = Nothing THEN InitialState(q) ELSE @[q]]]
        w == Dispatch(rows, "login", AnyNpc, 6, Quiet)
    IN  /\ ~w.err
        /\ Commit(w)
        /\ inWorld' = TRUE
        /\ UNCHANGED session

\* Fault: the question survives the logout.
DroppedFault(row) == row

\* suspend: a pending question does not outlive the visit.
Dropped(row) == Nothing

\* stop_character: the conversation and the question are dropped.
LeaveWorld ==
    /\ inWorld
    /\ inWorld' = FALSE
    /\ session' = Nothing
    /\ question' = Dropped(question)
    /\ UNCHANGED <<level, held, quest, tracker, granted>>

-----------------------------------------------------------------------------
(* Gameplay events.                                                          *)

\* The rows after a level gained in combat: on_level_up ignores errors.
Leveled(w) == Dispatch([w EXCEPT !.level = @ + 1], "levelup", AnyNpc, 6, Quiet)

\* An operator's command or a kill that is no quest target raises the level.
OnLevelUp ==
    /\ inWorld /\ level < MaxLevel
    /\ Commit(Leveled(Working))
    /\ UNCHANGED <<inWorld, session>>

\* kill_monster: experience first, then on_kill, whose errors are ignored.
OnKill(gain) ==
    /\ inWorld /\ level + gain <= MaxLevel
    /\ LET paid == IF gain = 1 THEN Leveled(Working) ELSE Working
       IN  Commit(Dispatch([paid EXCEPT !.err = FALSE], "kill", 101, 1, Quiet))
    /\ UNCHANGED <<inWorld, session>>

\* Potions are drunk, dropped, picked up and bought elsewhere.
Carry(n) ==
    /\ inWorld /\ n # held
    /\ held' = n
    /\ UNCHANGED <<inWorld, level, quest, tracker, question, session, granted>>

-----------------------------------------------------------------------------
(* Conversations.                                                            *)

\* options_for: a live question of this NPC is shown again.
Shown(w, npc) == w.offered \/ (w.question # Nothing /\ w.question.npc = npc)

\* interact_npc: a click first, the conversation if the click said nothing.
InteractNpc(npc, env) ==
    LET clicked == Dispatch(Working, "npc_click", npc, 10, env)
        w == IF clicked.said \/ clicked.err THEN clicked
             ELSE Dispatch(clicked, "npc_chat", npc, 6, env)
    IN  /\ inWorld
        /\ session # Nothing => session.npc = npc /\ session.left > 0
        /\ ~w.err
        /\ Commit(w)
        /\ session' = [npc |-> npc, offered |-> Shown(w, npc), left |-> SessionLife]
        /\ UNCHANGED inWorld

\* on_npc_choose: the question lives, belongs to this NPC and has this answer.
Answerable(option) ==
    /\ question # Nothing /\ question.left > 0
    /\ question.npc = session.npc
    /\ option \in DOMAIN question.branches

\* Fault: the answered question stays.
AnsweredFault == Working

Answered == [Working EXCEPT !.question = Nothing]

NpcChoose(option, env) ==
    /\ inWorld
    /\ session # Nothing /\ session.left > 0
    /\ Answerable(option)
    /\ LET q == question.quest
           w == DrainEnters(RunOps(Answered, q, question.branches[option], session.npc, env),
                            session.npc, env)
       IN  /\ ~w.err
           /\ Commit(w)
           /\ session' = [session EXCEPT !.offered = w.offered, !.left = SessionLife]
    /\ UNCHANGED inWorld

CloseNpcInteraction ==
    /\ inWorld /\ session # Nothing
    /\ session' = Nothing
    /\ UNCHANGED <<inWorld, level, held, quest, tracker, question, granted>>

Lapsed(row) == row # Nothing /\ row.left = 0

\* Fault: expired rows are not collected.
WithoutLapsedFault(row) == row

WithoutLapsed(row) == IF Lapsed(row) THEN Nothing ELSE row

\* npcs::maintain and quest::maintain; away: the character is out of reach of
\* the NPC or dead.
Maintain(away) ==
    /\ session' = IF away THEN Nothing ELSE WithoutLapsed(session)
    /\ question' = WithoutLapsed(question)
    /\ UNCHANGED <<inWorld, level, held, quest, tracker, granted>>

\* Fault: the deadline of an expired row moves on.
OlderFault(row) == IF row = Nothing THEN row ELSE [row EXCEPT !.left = @ - 1]

Older(row) ==
    IF row = Nothing \/ row.left = 0 THEN row ELSE [row EXCEPT !.left = @ - 1]

\* A minute passes.
Advance ==
    /\ session' = Older(session)
    /\ question' = Older(question)
    /\ UNCHANGED <<inWorld, level, held, quest, tracker, granted>>

-----------------------------------------------------------------------------
Step ==
    \/ EnterQuests
    \/ LeaveWorld
    \/ OnLevelUp
    \/ \E gain \in 0..1 : OnKill(gain)
    \/ \E n \in 0..1 : Carry(n)
    \/ \E npc \in Npc, env \in World : InteractNpc(npc, env)
    \/ \E option \in 1..2, env \in World : NpcChoose(option, env)
    \/ CloseNpcInteraction
    \/ \E away \in BOOLEAN : Maintain(away)
    \/ Advance

QuestNext == Step /\ UNCHANGED operator

QuestSpec == QuestInit /\ [][QuestNext]_questVars

\* The host runs simulate, and time passes.
QuestFairSpec == QuestSpec /\ WF_questVars(Maintain(FALSE) /\ UNCHANGED operator)
                /\ WF_questVars(Advance /\ UNCHANGED operator)

-----------------------------------------------------------------------------
(* What the runtime promises.                                                *)

Paid(q, kinds) == \A k \in kinds : granted[q][k] >= 1
Unpaid(q) == \A k \in RewardKind : granted[q][k] = 0

\* A main quest pays exactly when it completes, everything it owes and once:
\* it never advances without its reward, however bag and level stand, never
\* pays before, and never leaves its completion.  (An operator's shortcut
\* breaks this.)
RewardIffComplete ==
    ~operator => \A q \in {"main_quest_lv2", "main_quest_lv3"} :
        IF quest[q] = COMPLETE
        THEN \A k \in RewardKind \ {"random"} : granted[q][k] = 1
        ELSE Unpaid(q)

\* The side quest is past a reward only with the reward.
SideRewardPaid ==
    LET q == "find_squareguard"
    IN  /\ quest[q] = "buy" => Paid(q, {"money"})
        /\ quest[q] \in {"deliver", COMPLETE} => Paid(q, {"money", "item"})

\* The objective row follows the state: it counts exactly while the dogs are
\* hunted, never stands at its total (reaching it moves the quest on), and a
\* completed quest leaves nothing in the letter list.
TrackerMatchesState ==
    \A q \in QuestId :
        /\ quest[q] \in {Nothing, COMPLETE} => tracker[q] = NoTracker
        /\ IF quest[q] = "killdog"
           THEN tracker[q].total = Dogs /\ tracker[q].amount < Dogs
           ELSE tracker[q].total = 0 /\ tracker[q].amount = 0

\* A pending question belongs to this visit, and the quest is still in the
\* state that asked it: answering cannot move the quest from somewhere else.
\* (The operator's question outlives its state.)
QuestionIsCurrent ==
    question # Nothing =>
        inWorld /\ (operator \/ quest[question.quest] = question.asked)

\* Every reward is paid at most once in the life of a character.
RewardOnce == \A q \in QuestId, k \in RewardKind : granted[q][k] <= 1

\* An expired conversation or question is removed.
ExpiredIsRemoved ==
    /\ Lapsed(session) ~> ~Lapsed(session)
    /\ Lapsed(question) ~> ~Lapsed(question)

\* Rewards are paid with the completion that earns them, in a state of the
\* tables that is well formed.
RewardsArePaid == QuestTypeOK /\ RewardIffComplete /\ SideRewardPaid

\* What the player sees of a quest, its objective row and the question that is
\* open, belongs to the state the quest is in.
ProgressIsCurrent == TrackerMatchesState /\ QuestionIsCurrent
=============================================================================
