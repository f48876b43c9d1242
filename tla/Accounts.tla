------------------------------ MODULE Accounts ------------------------------
(* Connections, account leases and the right to drive a character.          *)
(*                                                                           *)
(* Source: server/src/accounts.rs and the session, entry and movement        *)
(* reducers of server/src/lib.rs.  Every reducer is one serializable         *)
(* transaction, so every reducer is one action; a reducer that returns Err   *)
(* changes nothing and is simply not enabled.  Reducers of different         *)
(* connections, the passing of time and the scheduled simulate reducer       *)
(* interleave freely.                                                        *)
(*                                                                           *)
(* Abstracted: names, empires and appearance; the direction and target of a  *)
(* movement; the health test of active_controller (an action that may be     *)
(* refused for one more reason).  A scheduled hit is represented by the      *)
(* connection whose perform_attack scheduled it.                             *)
EXTENDS Naturals

CONSTANTS
    Account,            \* identities signed by the account issuer
    Guest,              \* guest identities; {} when MT2_ALLOW_GUESTS is unset
    Character,          \* (account, slot) identities: four per account at most
    CharacterAccount,   \* [Character -> Account]: the account inside character_id
    Connection,         \* connection ids; each is handed out once
    None,               \* an absent row, Identity::ZERO
    MaxTime             \* bound on the clock

ASSUME AccountsAssumption ==
    /\ CharacterAccount \in [Character -> Account]
    /\ Account \cap Guest = {}
    /\ Character \cap Guest = {}
    /\ None \notin Account \cup Guest \cup Character \cup Connection
    /\ MaxTime \in Nat

Identity == Account \cup Guest
Avatar == Character \cup Guest      \* a guest's character id is its identity

Owner(p) == IF p \in Character THEN CharacterAccount[p] ELSE p

VARIABLES
    now,          \* ctx.timestamp
    session,      \* session rows: the identity of a live connection, or None
    token,        \* the expiry of the credential each connection presented
    seen,         \* connection ids already handed out by the host
    roster,       \* account_character rows (with their player rows)
    lease,        \* account_control rows
    state,        \* account_state rows
    online,       \* avatars whose player row has online = true
    controller,   \* controller rows
    caller        \* history: the connection whose reducer ran last, or None

accountVars == <<session, token, seen, roster, lease, state>>
vars == <<now, accountVars, online, controller, caller>>

LeaseRow == [conn : Connection \cup {None}, expires : Nat]
StateRow == [selected : Character \cup {None}, in_world : BOOLEAN]
\* mode 0: stopped, 1: held direction, 2: destination
ControllerRow ==
    [conn : Connection \cup {None}, mode : 0..2, pending : Connection \cup {None}]

\* Besides the types: an account selects only characters of its own roster.
TypeOK ==
    /\ now \in Nat
    /\ session \in [Connection -> Identity \cup {None}]
    /\ token \in [Connection -> Nat]
    /\ seen \in SUBSET Connection
    /\ roster \in SUBSET Character
    /\ lease \in [Account -> LeaseRow]
    /\ state \in [Account -> StateRow]
    /\ online \in SUBSET Avatar
    /\ controller \in [Avatar -> ControllerRow]
    /\ caller \in Connection \cup {None}
    /\ \A a \in Account :
           state[a].selected \in {p \in roster : CharacterAccount[p] = a} \cup {None}

Init ==
    /\ now = 0
    /\ session = [c \in Connection |-> None]
    /\ token = [c \in Connection |-> 0]
    /\ seen = {}
    /\ roster = {}
    /\ lease = [a \in Account |-> [conn |-> None, expires |-> 0]]
    /\ state = [a \in Account |-> [selected |-> None, in_world |-> FALSE]]
    /\ online = {}
    /\ controller = [p \in Avatar |-> [conn |-> None, mode |-> 0, pending |-> None]]
    /\ caller = None

-----------------------------------------------------------------------------
(* Guards shared by the reducers.                                            *)

Live(c) == session[c] # None

\* authenticated_account: a live session and an unexpired credential.
Authenticated(c, a) == session[c] = a /\ a \in Account /\ token[c] > now

\* controlled_account: the account's lease names this connection and runs on.
Controls(c, a) ==
    /\ Authenticated(c, a)
    /\ lease[a].conn = c
    /\ lease[a].expires > now

\* own_character
Owns(a, p) == p \in roster /\ CharacterAccount[p] = a

\* selected_character: the character this connection speaks for.
Selected(c, p) ==
    \/ \E a \in Account :
           Controls(c, a) /\ state[a].in_world /\ state[a].selected = p /\ Owns(a, p)
    \/ p \in Guest /\ session[c] = p

\* active_controller, the gate of every gameplay reducer.
ActiveController(c, p) ==
    Selected(c, p) /\ controller[p].conn = c /\ p \in online

-----------------------------------------------------------------------------
(* Effects shared by the reducers.                                           *)

\* Fault: the scheduled hit survives the stop.
StoppedArmedFault(row) == [row EXCEPT !.mode = 0]

Stopped(row) == [conn |-> row.conn, mode |-> 0, pending |-> None]

\* stop_character, for every avatar of S.
StopCharacters(S) ==
    /\ online' = online \ S
    /\ controller' =
           [p \in Avatar |-> IF p \in S THEN Stopped(controller[p]) ELSE controller[p]]

\* The characters that stop_account stops.
InWorldOf(A) == {state[a].selected : a \in {b \in A : state[b].in_world}}

\* Fault: the account is not told that its character was stopped.
LeftWorldFault(A) == state

LeftWorld(A) ==
    [a \in Account |->
        IF a \in A THEN [selected |-> state[a].selected, in_world |-> FALSE]
                 ELSE state[a]]

\* stop_account, for every account of A.
StopAccounts(A) ==
    /\ StopCharacters(InWorldOf(A))
    /\ state' = LeftWorld(A)

\* Fault: the other connection is not considered.
EnterCharacterFault(c, p) ==
    /\ online' = online \cup {p}
    /\ controller' = [controller EXCEPT ![p] =
                        [conn |-> c, mode |-> 0, pending |-> @.pending]]

\* enter_character: refused while another live connection plays the character.
EnterCharacter(c, p) ==
    /\ ~ /\ controller[p].conn \notin {None, c}
         /\ p \in online
         /\ Live(controller[p].conn)
    /\ online' = online \cup {p}
    /\ controller' = [controller EXCEPT ![p] =
                        [conn |-> c, mode |-> 0, pending |-> @.pending]]

-----------------------------------------------------------------------------
(* Lifecycle of a connection.                                                *)

\* client_connected: the credential is checked once more, then a session row.
ClientConnected(c, who, expiry) ==
    /\ c \notin seen
    /\ IF who \in Account THEN expiry > now ELSE expiry = MaxTime + 1
    /\ seen' = seen \cup {c}
    /\ session' = [session EXCEPT ![c] = who]
    /\ token' = [token EXCEPT ![c] = expiry]
    /\ UNCHANGED <<now, roster, lease, state, online, controller>>

\* Fault: the lease is not compared with the connection that closes.
HeldByAnyFault(c) == {a \in Account : a = session[c]}

\* The account that the closing connection controls.
HeldBy(c) == {a \in Account : a = session[c] /\ lease[a].conn = c}

\* Fault: the guest keeps playing.
DrivenByFault(c) == {}

\* The guest character that the closing connection controls.
DrivenBy(c) == {g \in Guest : g = session[c] /\ controller[g].conn = c}

\* client_disconnected: only the connection that holds control stops anything.
ClientDisconnected(c) ==
    /\ Live(c)
    /\ session' = [session EXCEPT ![c] = None]
    /\ token' = [token EXCEPT ![c] = 0]
    /\ StopCharacters(InWorldOf(HeldBy(c)) \cup DrivenBy(c))
    /\ state' = LeftWorld(HeldBy(c))
    /\ UNCHANGED <<now, seen, roster, lease>>

-----------------------------------------------------------------------------
(* Account reducers.                                                         *)

\* The lease is another connection's.
Moves(c, a) == lease[a].conn \notin {None, c}

\* Fault: the previous holder's character is left in the world.
TakenOverFault(c, a) == {}

\* The account to stop before the lease changes hands.
TakenOver(c, a) == IF Moves(c, a) THEN {a} ELSE {}

\* open_account: take the lease unless another live connection holds it.
OpenAccount(c, a) ==
    /\ Authenticated(c, a)
    /\ ~(Moves(c, a) /\ lease[a].expires > now /\ Live(lease[a].conn))
    /\ StopAccounts(TakenOver(c, a))
    /\ lease' = [lease EXCEPT ![a] = [conn |-> c, expires |-> token[c]]]
    /\ UNCHANGED <<now, session, token, seen, roster>>

\* create_character: a free slot of an account that is not in the world.
CreateCharacter(c, a, p) ==
    /\ Controls(c, a)
    /\ CharacterAccount[p] = a
    /\ p \notin roster
    /\ ~state[a].in_world
    /\ roster' = roster \cup {p}
    /\ state' = [state EXCEPT ![a].selected = p]
    /\ UNCHANGED <<now, session, token, seen, lease, online, controller>>

\* select_character stops the character in the world, whichever it is.
SelectCharacter(c, a, p) ==
    /\ Controls(c, a)
    /\ Owns(a, p)
    /\ StopCharacters(InWorldOf({a}))
    /\ state' = [state EXCEPT ![a] = [selected |-> p, in_world |-> FALSE]]
    /\ UNCHANGED <<now, session, token, seen, roster, lease>>

EnterSelectedCharacter(c, a) ==
    /\ Controls(c, a)
    /\ Owns(a, state[a].selected)
    /\ EnterCharacter(c, state[a].selected)
    /\ state' = [state EXCEPT ![a] = [selected |-> @.selected, in_world |-> TRUE]]
    /\ UNCHANGED <<now, session, token, seen, roster, lease>>

\* enter_world: the guest path, without an account.
EnterWorld(c, g) ==
    /\ session[c] = g
    /\ EnterCharacter(c, g)
    /\ UNCHANGED <<now, accountVars>>

\* Fault: the guest's controlling connection is not compared.
LeaveGuestFault(c, g) == session[c] = g

LeaveGuest(c, g) == session[c] = g /\ controller[g].conn \in {None, c}

LeaveWorld(c) ==
    \/ \E a \in Account :
           /\ Controls(c, a)
           /\ StopAccounts({a})
           /\ UNCHANGED <<now, session, token, seen, roster, lease>>
    \/ \E g \in Guest :
           /\ LeaveGuest(c, g)
           /\ StopCharacters({g})
           /\ UNCHANGED <<now, accountVars>>

-----------------------------------------------------------------------------
(* Gameplay reducers, as far as they arm something that acts later.          *)

SetController(p, mode, pending) ==
    /\ controller' = [controller EXCEPT ![p] =
                        [conn |-> @.conn, mode |-> mode, pending |-> pending]]
    /\ UNCHANGED <<now, accountVars, online>>

\* set_move_input: a zero direction ends held input, never a destination.
SetMoveInput(c, p, held) ==
    /\ ActiveController(c, p)
    /\ held \/ controller[p].mode = 1
    /\ SetController(p, IF held THEN 1 ELSE 0, controller[p].pending)

MoveTo(c, p) ==
    ActiveController(c, p) /\ SetController(p, 2, controller[p].pending)

StopMoving(c, p) ==
    ActiveController(c, p) /\ SetController(p, 0, controller[p].pending)

\* perform_attack replaces the scheduled hit; without a target there is none.
PerformAttack(c, p, hit) ==
    ActiveController(c, p) /\ SetController(p, 0, hit)

-----------------------------------------------------------------------------
(* The scheduled reducer and the clock.                                      *)

\* Fault: a lease that runs out this instant is kept.
ExpiredLateFault ==
    {a \in Account : /\ lease[a].conn # None
                     /\ lease[a].expires < now
                     /\ state[a].in_world}

\* accounts::maintain
ExpiredInWorld ==
    {a \in Account : /\ lease[a].conn # None
                     /\ lease[a].expires <= now
                     /\ state[a].in_world}

\* simulate: leases first, then due hits, then movement.  Which hits are due
\* and which movements end is left open.
Simulate(due, arrived) ==
    LET gone == InWorldOf(ExpiredInWorld)
        Ticked(p) ==
            LET row == IF p \in gone THEN Stopped(controller[p]) ELSE controller[p]
            IN  [conn |-> row.conn,
                 mode |-> IF p \in arrived \cap (online \ gone) THEN 0 ELSE row.mode,
                 pending |-> IF p \in due THEN None ELSE row.pending]
    IN  /\ online' = online \ gone
        /\ state' = LeftWorld(ExpiredInWorld)
        /\ controller' = [p \in Avatar |-> Ticked(p)]
        /\ UNCHANGED <<now, session, token, seen, roster, lease>>

Tick ==
    /\ caller' = None
    /\ \E due \in SUBSET {p \in Avatar : controller[p].pending # None} :
       \E arrived \in SUBSET {p \in online : controller[p].mode # 0} :
           Simulate(due, arrived)

Advance ==
    /\ now < MaxTime
    /\ now' = now + 1
    /\ caller' = None
    /\ UNCHANGED <<accountVars, online, controller>>

\* Reducers that connection c calls, and its lifecycle.
Called(c) ==
    /\ caller' = c
    /\ \/ \E who \in Identity, expiry \in 1..(MaxTime + 1) :
              ClientConnected(c, who, expiry)
       \/ ClientDisconnected(c)
       \/ \E a \in Account : OpenAccount(c, a)
       \/ \E a \in Account, p \in Character : CreateCharacter(c, a, p)
       \/ \E a \in Account, p \in Character : SelectCharacter(c, a, p)
       \/ \E a \in Account : EnterSelectedCharacter(c, a)
       \/ \E g \in Guest : EnterWorld(c, g)
       \/ LeaveWorld(c)
       \/ \E p \in Avatar, held \in BOOLEAN : SetMoveInput(c, p, held)
       \/ \E p \in Avatar : MoveTo(c, p)
       \/ \E p \in Avatar : StopMoving(c, p)
       \/ \E p \in Avatar, hit \in {c, None} : PerformAttack(c, p, hit)

Next ==
    \/ \E c \in Connection : Called(c)
    \/ Tick
    \/ Advance

Spec == Init /\ [][Next]_vars

\* The host runs simulate on a repeating schedule; nothing else is owed a turn.
FairSpec == Spec /\ WF_vars(Tick)

-----------------------------------------------------------------------------
(* What the module promises.                                                 *)

\* The row holds an unexpired lease, as scheduled work sees it
\* (controller_has_active_lease): guests hold no lease and never expire.
HoldsLease(c, p) ==
    /\ session[c] = Owner(p)
    /\ p \in Character => LET a == CharacterAccount[p]
                          IN  /\ lease[a].conn = c
                              /\ lease[a].expires > now
                              /\ state[a].in_world
                              /\ state[a].selected = p

\* An online avatar is driven by a live connection of its owner; for an
\* account that connection is the lease's, and the avatar is the character the
\* account has selected and brought into the world.  Five tables written by
\* six reducers agree.
ControlAgreement ==
    \A p \in online :
        /\ controller[p].conn # None
        /\ session[controller[p].conn] = Owner(p)
        /\ p \in Character =>
               /\ p \in roster
               /\ lease[CharacterAccount[p]].conn = controller[p].conn
               /\ state[CharacterAccount[p]] = [selected |-> p, in_world |-> TRUE]

\* An account that says it is in the world has its character online: no path
\* stops the character and leaves the account believing it still plays.
InWorldIsOnline ==
    \A a \in Account : state[a].in_world => state[a].selected \in online

\* An offline avatar has nothing armed: no movement and no scheduled hit is
\* left behind for the tick to carry out.
OfflineDisarmed ==
    \A p \in Avatar \ online : controller[p].mode = 0 /\ controller[p].pending = None

\* A scheduled hit was ordered by the connection that drives the avatar now.
HitByDriver ==
    \A p \in Avatar :
        controller[p].pending \in {None, controller[p].conn}

\* The inductive strengthening: the promises above hold together, and every
\* live connection has been handed out, so a new one never aliases a driver.
Inv ==
    /\ TypeOK
    /\ \A c \in Connection : Live(c) => c \in seen
    /\ ControlAgreement
    /\ InWorldIsOnline
    /\ OfflineDisarmed
    /\ HitByDriver

\* A scheduled hit of an avatar that stays online is consumed only under a
\* lease that is still held: the tick ends expired leases before it resolves
\* hits.
HitsUnderLease ==
    [][\A p \in online' :
           controller[p].pending # None /\ controller'[p].pending = None
               => HoldsLease(controller[p].pending, p)]_vars

\* An avatar never passes from one connection to another while it is online.
NoHandover ==
    [][\A p \in online \cap online' : controller'[p].conn = controller[p].conn]_vars

\* While its driver holds the lease, an avatar leaves the world only by a call
\* of the driver (or by the driver's disconnect): no other connection, new or
\* late, of the same or another identity, and no tick can stop it.
NotEvicted ==
    [][\A p \in online \ online' :
           HoldsLease(controller[p].conn, p) => caller' = controller[p].conn]_vars

\* An account whose lease ran out leaves the world, or the lease is renewed:
\* under ticks that succeed (a tick that simulate refuses rolls the end of the
\* lease back with the rest; Population has what makes it refuse for ever).
ExpiredLeaseEnds ==
    \A a \in Account : a \in ExpiredInWorld ~> a \notin ExpiredInWorld

\* The abstract promise: avatars are exclusive resources of live connections.
Holder == [p \in Avatar |-> IF p \in online THEN controller[p].conn ELSE None]
Control == INSTANCE CharacterControl
               WITH live <- {c \in Connection : Live(c)}, holder <- Holder

ImplementsControl == Control!Spec
=============================================================================
