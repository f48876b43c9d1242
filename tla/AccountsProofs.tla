--------------------------- MODULE AccountsProofs ---------------------------
(* Proofs about Accounts, for every set of accounts, guests, characters and  *)
(* connections.                                                              *)
EXTENDS Accounts, TLAPS

USE AccountsAssumption DEF Identity, Avatar, LeaseRow, StateRow, ControllerRow

-----------------------------------------------------------------------------
(* Type correctness.                                                         *)

\* Stopping a controller row disarms it and leaves it with its connection.
LEMMA StoppedRow ==
    ASSUME NEW row \in ControllerRow
    PROVE  /\ Stopped(row) \in ControllerRow
           /\ Stopped(row).conn = row.conn
           /\ Stopped(row).mode = 0
           /\ Stopped(row).pending = None
  BY DEF Stopped

\* Stopping characters keeps the types of the two tables it writes.
LEMMA StopType ==
    ASSUME TypeOK, NEW S, StopCharacters(S)
    PROVE  /\ online' \in SUBSET Avatar
           /\ controller' \in [Avatar -> ControllerRow]
<1>1. ASSUME NEW p \in Avatar PROVE controller[p] \in ControllerRow  BY <1>1 DEF TypeOK
<1>2. online' \in SUBSET Avatar  BY DEF TypeOK, StopCharacters
<1> QED  BY <1>1, <1>2, StoppedRow DEF StopCharacters

\* stop_account keeps the selection of every account.
LEMMA LeftWorldType ==
    ASSUME TypeOK, NEW A
    PROVE  /\ LeftWorld(A) \in [Account -> StateRow]
           /\ \A a \in Account : LeftWorld(A)[a].selected = state[a].selected
  BY DEF TypeOK, LeftWorld

\* Every table keeps its type, and an account selects only its own characters.
LEMMA TypeStep == TypeOK /\ [Next]_vars => TypeOK'
<1> SUFFICES ASSUME TypeOK, [Next]_vars PROVE TypeOK'
  OBVIOUS
<1>1. ASSUME NEW c \in Connection, Called(c) PROVE TypeOK'
  <2> USE <1>1 DEF Called
  <2>1. ASSUME NEW who \in Identity, NEW expiry \in 1..(MaxTime + 1),
               ClientConnected(c, who, expiry)
        PROVE  TypeOK'
    BY <2>1 DEF TypeOK, ClientConnected
  <2>2. CASE ClientDisconnected(c)
    BY <2>2, StopType, LeftWorldType DEF TypeOK, ClientDisconnected
  <2>3. ASSUME NEW a \in Account, OpenAccount(c, a) PROVE TypeOK'
    BY <2>3, StopType, LeftWorldType DEF TypeOK, OpenAccount, StopAccounts
  <2>4. ASSUME NEW a \in Account, NEW p \in Character, CreateCharacter(c, a, p)
        PROVE  TypeOK'
    BY <2>4 DEF TypeOK, CreateCharacter
  <2>5. ASSUME NEW a \in Account, NEW p \in Character, SelectCharacter(c, a, p)
        PROVE  TypeOK'
    BY <2>5, StopType DEF TypeOK, SelectCharacter, Owns
  <2>6. ASSUME NEW a \in Account, EnterSelectedCharacter(c, a) PROVE TypeOK'
    BY <2>6 DEF TypeOK, EnterSelectedCharacter, EnterCharacter, Owns
  <2>7. ASSUME NEW g \in Guest, EnterWorld(c, g) PROVE TypeOK'
    BY <2>7 DEF TypeOK, EnterWorld, EnterCharacter, accountVars
  <2>8. CASE LeaveWorld(c)
    <3>1. ASSUME NEW a \in Account, StopAccounts({a}),
                 UNCHANGED <<now, session, token, seen, roster, lease>>
          PROVE  TypeOK'
      BY <3>1, StopType, LeftWorldType DEF TypeOK, StopAccounts
    <3>2. ASSUME NEW g \in Guest, StopCharacters({g}), UNCHANGED <<now, accountVars>>
          PROVE  TypeOK'
      BY <3>2, StopType DEF TypeOK, accountVars
    <3> QED  BY <2>8, <3>1, <3>2 DEF LeaveWorld
  <2>9. ASSUME NEW p \in Avatar, NEW mode \in 0..2, NEW hit \in Connection \cup {None},
               SetController(p, mode, hit)
        PROVE  TypeOK'
    BY <2>9 DEF TypeOK, SetController, accountVars
  <2>10. \A p \in Avatar : controller[p].pending \in Connection \cup {None}
    BY DEF TypeOK
  <2>11. ASSUME NEW p \in Avatar, NEW held \in BOOLEAN, SetMoveInput(c, p, held)
         PROVE  TypeOK'
    BY <2>9, <2>10, <2>11 DEF SetMoveInput
  <2>12. ASSUME NEW p \in Avatar, MoveTo(c, p) \/ StopMoving(c, p) PROVE TypeOK'
    BY <2>9, <2>10, <2>12 DEF MoveTo, StopMoving
  <2>13. ASSUME NEW p \in Avatar, NEW hit \in {c, None}, PerformAttack(c, p, hit)
         PROVE  TypeOK'
    BY <2>9, <2>13 DEF PerformAttack
  <2> QED  BY <2>1, <2>2, <2>3, <2>4, <2>5, <2>6, <2>7, <2>8, <2>11, <2>12, <2>13
<1>2. CASE Tick
  <2>1. PICK due, arrived : Simulate(due, arrived)  BY <1>2 DEF Tick
  <2>2. controller' \in [Avatar -> ControllerRow]  BY <2>1 DEF TypeOK, Simulate, Stopped
  <2> QED  BY <1>2, <2>1, <2>2, LeftWorldType DEF TypeOK, Simulate, Tick
<1>3. CASE Advance  BY <1>3 DEF TypeOK, Advance, accountVars
<1>4. CASE UNCHANGED vars  BY <1>4 DEF TypeOK, vars, accountVars
<1> QED  BY <1>1, <1>2, <1>3, <1>4 DEF Next

\* Every table keeps its type in every reachable state.
THEOREM TypeCorrect == Spec => []TypeOK
<1>1. Init => TypeOK  BY DEF Init, TypeOK
<1> QED  BY <1>1, TypeStep, PTL DEF Spec

-----------------------------------------------------------------------------
(* The tables agree.                                                         *)

LEMMA StopEffect ==
    ASSUME TypeOK, NEW S, StopCharacters(S)
    PROVE  /\ online' = online \ S
           /\ \A p \in Avatar :
                 /\ controller'[p].conn = controller[p].conn
                 /\ p \in S => controller'[p].mode = 0 /\ controller'[p].pending = None
                 /\ p \notin S => controller'[p] = controller[p]
  BY DEF TypeOK, StopCharacters, Stopped

LEMMA LeftWorldEffect ==
    ASSUME TypeOK, NEW A, NEW a \in Account
    PROVE  /\ a \in A => ~LeftWorld(A)[a].in_world
           /\ a \notin A => LeftWorld(A)[a] = state[a]
  BY DEF TypeOK, LeftWorld

\* What Inv says of one online avatar.
LEMMA OnlineAvatar ==
    ASSUME Inv, NEW p \in online
    PROVE  /\ p \in Avatar
           /\ controller[p].conn \in Connection
           /\ session[controller[p].conn] = Owner(p)
           /\ Owner(p) \in Identity
           /\ Live(controller[p].conn)
           /\ controller[p].conn \in seen
<1>1. p \in Avatar  BY DEF Inv, TypeOK
<1>2. controller[p].conn \in Connection
  <2>1. controller[p].conn # None  BY DEF Inv, ControlAgreement
  <2>2. controller[p] \in ControllerRow  BY <1>1 DEF Inv, TypeOK
  <2> QED  BY <2>1, <2>2
<1>3. session[controller[p].conn] = Owner(p)  BY DEF Inv, ControlAgreement
<1>4. Owner(p) \in Identity  BY <1>1 DEF Owner
<1> QED  BY <1>1, <1>2, <1>3, <1>4 DEF Live, Inv

LEMMA OnlineCharacter ==
    ASSUME Inv, NEW p \in online, p \in Character
    PROVE  /\ CharacterAccount[p] \in Account
           /\ p \in roster
           /\ lease[CharacterAccount[p]].conn = controller[p].conn
           /\ state[CharacterAccount[p]] = [selected |-> p, in_world |-> TRUE]
           /\ state[CharacterAccount[p]].selected = p
           /\ state[CharacterAccount[p]].in_world
  BY DEF Inv, ControlAgreement

\* Whoever stops accounts A (and guests D): what stays online is untouched and
\* belongs to no account of A, and what goes offline is disarmed.
LEMMA StopStep ==
    ASSUME Inv, NEW A \in SUBSET Account, NEW D \in SUBSET Guest,
           online' = online \ (InWorldOf(A) \cup D), state' = LeftWorld(A)
    PROVE  /\ \A p \in online' \cap Character :
                 /\ CharacterAccount[p] \notin A
                 /\ state'[CharacterAccount[p]] = state[CharacterAccount[p]]
           /\ \A a \in Account : state'[a].in_world => state'[a].selected \in online'
<1>1. ASSUME NEW p \in online' \cap Character
      PROVE  /\ CharacterAccount[p] \notin A
             /\ state'[CharacterAccount[p]] = state[CharacterAccount[p]]
  <2> p \in online /\ p \in Character  BY <1>1
  <2>1. /\ CharacterAccount[p] \in Account
        /\ state[CharacterAccount[p]].in_world
        /\ state[CharacterAccount[p]].selected = p
    BY OnlineCharacter
  <2>2. CharacterAccount[p] \notin A  BY <1>1, <2>1 DEF InWorldOf
  <2> QED  BY <2>1, <2>2, LeftWorldEffect DEF Inv
<1>2. ASSUME NEW a \in Account, state'[a].in_world
      PROVE  state'[a].selected \in online'
  <2>1. a \notin A /\ state'[a] = state[a]  BY <1>2, LeftWorldEffect DEF Inv
  <2>2. state[a].selected \in online  BY <1>2, <2>1 DEF Inv, InWorldIsOnline
  <2>3. state[a].selected \in Character /\ CharacterAccount[state[a].selected] = a
    BY <2>2 DEF Inv, TypeOK
  <2>4. ASSUME NEW b \in A PROVE state[b].selected # state[a].selected
    <3>1. b \in Account /\ b # a  BY <2>1, <2>4
    <3>2. state[b].selected = None \/ CharacterAccount[state[b].selected] = b
      BY <3>1 DEF Inv, TypeOK
    <3> QED  BY <2>3, <3>1, <3>2
  <2>5. state[a].selected \notin InWorldOf(A)  BY <2>4 DEF InWorldOf
  <2> QED  BY <2>1, <2>2, <2>3, <2>5
<1> QED  BY <1>1, <1>2

\* Stopping through stop_character keeps what concerns the avatars themselves.
LEMMA DisarmStep ==
    ASSUME Inv, NEW S, StopCharacters(S)
    PROVE  OfflineDisarmed' /\ HitByDriver'
  BY StopEffect DEF Inv, OfflineDisarmed, HitByDriver

\* Stopping accounts A and guests D through stop_character keeps everything
\* except what depends on the sessions and leases the caller changes as well.
LEMMA StopAll ==
    ASSUME Inv, NEW A \in SUBSET Account, NEW D \in SUBSET Guest,
           StopCharacters(InWorldOf(A) \cup D), state' = LeftWorld(A), roster' = roster
    PROVE  /\ OfflineDisarmed' /\ HitByDriver' /\ InWorldIsOnline'
           /\ \A p \in online' :
                 /\ p \in online /\ p \notin D /\ controller'[p] = controller[p]
                 /\ p \in Character =>
                       /\ CharacterAccount[p] \notin A
                       /\ p \in roster'
                       /\ state'[CharacterAccount[p]] = [selected |-> p, in_world |-> TRUE]
<1>1. OfflineDisarmed' /\ HitByDriver'  BY DisarmStep
<1>2. online' = online \ (InWorldOf(A) \cup D)  BY DEF StopCharacters
<1>3. InWorldIsOnline'  BY <1>2, StopStep DEF InWorldIsOnline
<1>4. ASSUME NEW p \in online'
      PROVE  p \in online /\ p \notin D /\ controller'[p] = controller[p]
  <2>1. p \in online /\ p \in Avatar /\ p \notin InWorldOf(A) \cup D
    BY <1>2, <1>4 DEF Inv, TypeOK
  <2> QED  BY <2>1, StopEffect DEF Inv
<1>5. ASSUME NEW p \in online', p \in Character
      PROVE  /\ CharacterAccount[p] \notin A
             /\ p \in roster'
             /\ state'[CharacterAccount[p]] = [selected |-> p, in_world |-> TRUE]
  <2> p \in online  BY <1>4, <1>5
  <2>1. /\ CharacterAccount[p] \notin A
        /\ state'[CharacterAccount[p]] = state[CharacterAccount[p]]
    BY <1>2, <1>5, StopStep
  <2> QED  BY <1>5, <2>1, OnlineCharacter
<1> QED  BY <1>1, <1>3, <1>4, <1>5

\* Entering keeps everything, once the session and the account agree on p.
LEMMA EnterStep ==
    ASSUME Inv, NEW c \in Connection, NEW p \in Avatar,
           EnterCharacter(c, p), session[c] = Owner(p), UNCHANGED session
    PROVE  /\ OfflineDisarmed' /\ HitByDriver'
           /\ online' = online \cup {p}
           /\ controller'[p].conn = c
           /\ \A q \in Avatar \ {p} : controller'[q] = controller[q]
<1>1. controller[p] \in ControllerRow  BY DEF Inv, TypeOK
<1>2. /\ online' = online \cup {p}
      /\ controller'[p] = [conn |-> c, mode |-> 0, pending |-> controller[p].pending]
      /\ \A q \in Avatar \ {p} : controller'[q] = controller[q]
  BY DEF EnterCharacter, Inv, TypeOK
<1>3. controller[p].pending \in {None, c}
  <2>1. CASE p \notin online  BY <2>1 DEF Inv, OfflineDisarmed
  <2>2. CASE p \in online
    <3>1. controller[p].conn = c  BY <2>2, OnlineAvatar DEF EnterCharacter
    <3> QED  BY <3>1 DEF Inv, HitByDriver
  <2> QED  BY <2>1, <2>2
<1>4. OfflineDisarmed'  BY <1>2 DEF Inv, OfflineDisarmed
<1>5. HitByDriver'  BY <1>2, <1>3 DEF Inv, HitByDriver
<1> QED  BY <1>2, <1>4, <1>5

\* A step that only rewrites intents of an online avatar keeps the invariant.
LEMMA IntentStep ==
    ASSUME Inv, TypeOK', NEW c \in Connection, NEW p \in Avatar, NEW mode, NEW hit,
           ActiveController(c, p), SetController(p, mode, hit),
           hit \in {None, controller[p].conn}
    PROVE  Inv'
<1>1. /\ controller'[p] = [conn |-> controller[p].conn, mode |-> mode, pending |-> hit]
      /\ \A q \in Avatar \ {p} : controller'[q] = controller[q]
      /\ UNCHANGED <<now, session, token, seen, roster, lease, state, online>>
  BY DEF SetController, accountVars, Inv, TypeOK
<1>2. \A q \in Avatar : controller'[q].conn = controller[q].conn  BY <1>1
<1>3. ControlAgreement'
  <2> SUFFICES ASSUME NEW q \in online PROVE q \in Avatar
    BY <1>1, <1>2 DEF Inv, ControlAgreement, Owner
  <2> QED  BY DEF Inv, TypeOK
<1>4. p \in online  BY DEF ActiveController
<1>5. OfflineDisarmed'  BY <1>1, <1>4 DEF Inv, OfflineDisarmed
<1>6. HitByDriver'  BY <1>1, <1>2 DEF Inv, HitByDriver
<1> QED  BY <1>1, <1>3, <1>5, <1>6 DEF Inv, InWorldIsOnline, Live

\* The whole invariant is preserved by every step.
LEMMA InvStep == Inv /\ [Next]_vars => Inv'
<1> SUFFICES ASSUME Inv, [Next]_vars PROVE Inv'
  OBVIOUS
<1>0. TypeOK'  BY TypeStep DEF Inv
<1>1. ASSUME NEW c \in Connection, Called(c) PROVE Inv'
  <2>1. ASSUME NEW who \in Identity, NEW expiry \in 1..(MaxTime + 1),
               ClientConnected(c, who, expiry)
        PROVE  Inv'
    <3>1. ASSUME NEW p \in online PROVE controller[p].conn # c
      BY <2>1, <3>1, OnlineAvatar DEF ClientConnected
    <3>2. ControlAgreement'
      <4> SUFFICES ASSUME NEW p \in online
                   PROVE  session'[controller[p].conn] = Owner(p)
        BY <2>1 DEF Inv, ControlAgreement, ClientConnected, Owner
      <4> QED  BY <2>1, <3>1, OnlineAvatar DEF Inv, TypeOK, ClientConnected
    <3> QED
      BY <1>0, <2>1, <3>2 DEF Inv, TypeOK, Live, InWorldIsOnline, OfflineDisarmed,
                              HitByDriver, ClientConnected
  <2>2. CASE ClientDisconnected(c)
    <3>1. HeldBy(c) \in SUBSET Account /\ DrivenBy(c) \in SUBSET Guest
      BY DEF HeldBy, DrivenBy
    <3>2. /\ OfflineDisarmed' /\ HitByDriver' /\ InWorldIsOnline'
          /\ \A p \in online' :
                /\ p \in online /\ p \notin DrivenBy(c) /\ controller'[p] = controller[p]
                /\ p \in Character =>
                      /\ CharacterAccount[p] \notin HeldBy(c)
                      /\ p \in roster'
                      /\ state'[CharacterAccount[p]] = [selected |-> p, in_world |-> TRUE]
      BY <2>2, <3>1, StopAll DEF ClientDisconnected
    <3>3. ASSUME NEW p \in online'
          PROVE  /\ controller[p].conn # c
                 /\ p \in Character =>
                       lease'[CharacterAccount[p]].conn = controller[p].conn
      <4>1. p \in online  BY <3>2, <3>3
      <4>2. CASE p \in Guest
        BY <3>2, <3>3, <4>1, <4>2, OnlineAvatar DEF DrivenBy, Owner
      <4>3. CASE p \in Character
        <5>1. /\ session[controller[p].conn] = CharacterAccount[p]
              /\ lease[CharacterAccount[p]].conn = controller[p].conn
              /\ CharacterAccount[p] \in Account
          BY <4>1, <4>3, OnlineAvatar, OnlineCharacter DEF Owner
        <5>2. CharacterAccount[p] \notin HeldBy(c)  BY <3>2, <3>3, <4>3
        <5>3. UNCHANGED lease  BY <2>2 DEF ClientDisconnected
        <5> QED  BY <5>1, <5>2, <5>3 DEF HeldBy
      <4> QED  BY <4>1, <4>2, <4>3, OnlineAvatar
    <3>4. ControlAgreement'
      <4> SUFFICES ASSUME NEW p \in online'
                   PROVE  /\ controller[p].conn # None
                          /\ session'[controller[p].conn] = Owner(p)
        BY <3>2, <3>3 DEF ControlAgreement, Owner
      <4>1. p \in online /\ controller[p].conn # c  BY <3>2, <3>3
      <4>2. /\ controller[p].conn \in Connection
            /\ session[controller[p].conn] = Owner(p)
        BY <4>1, OnlineAvatar
      <4>3. session' = [session EXCEPT ![c] = None]  BY <2>2 DEF ClientDisconnected
      <4> QED  BY <4>1, <4>2, <4>3 DEF Inv, TypeOK
    <3> QED  BY <1>0, <2>2, <3>2, <3>4 DEF Inv, TypeOK, Live, ClientDisconnected
  <2>3. ASSUME NEW a \in Account, OpenAccount(c, a) PROVE Inv'
    <3>1. /\ StopCharacters(InWorldOf(TakenOver(c, a)) \cup {})
          /\ state' = LeftWorld(TakenOver(c, a))
          /\ UNCHANGED <<session, seen, roster>>
      <4> InWorldOf(TakenOver(c, a)) \cup {} = InWorldOf(TakenOver(c, a))
        OBVIOUS
      <4> QED  BY <2>3 DEF OpenAccount, StopAccounts
    <3>2. TakenOver(c, a) \in SUBSET Account  BY DEF TakenOver
    <3>3. /\ OfflineDisarmed' /\ HitByDriver' /\ InWorldIsOnline'
          /\ \A p \in online' :
                /\ p \in online /\ controller'[p] = controller[p]
                /\ p \in Character =>
                      /\ CharacterAccount[p] \notin TakenOver(c, a)
                      /\ p \in roster'
                      /\ state'[CharacterAccount[p]] = [selected |-> p, in_world |-> TRUE]
      BY <3>1, <3>2, StopAll
    <3>4. ASSUME NEW p \in online', p \in Character
          PROVE  lease'[CharacterAccount[p]].conn = controller[p].conn
      <4> p \in online  BY <3>3, <3>4
      <4>1. /\ lease[CharacterAccount[p]].conn = controller[p].conn
            /\ controller[p].conn \in Connection
        BY <3>4, OnlineAvatar, OnlineCharacter
      <4>2. CASE CharacterAccount[p] = a
        <5>1. lease[a].conn = c  BY <3>3, <3>4, <4>1, <4>2 DEF TakenOver, Moves
        <5>2. lease'[a].conn = c  BY <2>3 DEF OpenAccount, Inv, TypeOK
        <5> QED  BY <4>1, <4>2, <5>1, <5>2
      <4>3. CASE CharacterAccount[p] # a
        BY <2>3, <4>1, <4>3 DEF OpenAccount, Inv, TypeOK
      <4> QED  BY <4>2, <4>3
    <3>5. ControlAgreement'
      BY <3>1, <3>3, <3>4, OnlineAvatar DEF ControlAgreement, Owner, Inv
    <3> QED  BY <1>0, <3>1, <3>3, <3>5 DEF Inv, Live
  <2>4. ASSUME NEW a \in Account, NEW p \in Character, CreateCharacter(c, a, p)
        PROVE  Inv'
    <3>1. ASSUME NEW q \in online, q \in Character
          PROVE  state'[CharacterAccount[q]] = state[CharacterAccount[q]]
      BY <2>4, <3>1, OnlineCharacter DEF CreateCharacter, Inv, TypeOK
    <3>2. ControlAgreement'
      BY <2>4, <3>1 DEF CreateCharacter, Inv, ControlAgreement, Owner
    <3>3. InWorldIsOnline'  BY <2>4 DEF CreateCharacter, Inv, InWorldIsOnline, TypeOK
    <3> QED  BY <1>0, <2>4, <3>2, <3>3
         DEF Inv, Live, OfflineDisarmed, HitByDriver, CreateCharacter
  <2>5. ASSUME NEW a \in Account, NEW p \in Character, SelectCharacter(c, a, p)
        PROVE  Inv'
    <3>1. /\ StopCharacters(InWorldOf({a}))
          /\ UNCHANGED <<now, session, token, seen, roster, lease>>
          /\ state'[a].in_world = FALSE
          /\ \A b \in Account \ {a} : state'[b] = state[b]
      BY <2>5 DEF SelectCharacter, Inv, TypeOK
    <3>2. OfflineDisarmed' /\ HitByDriver'  BY <3>1, DisarmStep
    <3>3. ASSUME NEW q \in online'
          PROVE  /\ q \in online /\ controller'[q] = controller[q]
                 /\ q \in Character => CharacterAccount[q] # a
      <4>1. q \in online /\ q \in Avatar /\ q \notin InWorldOf({a})
        BY <3>1, <3>3 DEF StopCharacters, Inv, TypeOK
      <4>2. controller'[q] = controller[q]  BY <3>1, <4>1, StopEffect DEF Inv
      <4>3. q \in Character => CharacterAccount[q] # a
        <5> SUFFICES ASSUME q \in Character, CharacterAccount[q] = a PROVE FALSE
          OBVIOUS
        <5>1. state[a].in_world /\ state[a].selected = q  BY <4>1, OnlineCharacter
        <5> QED  BY <4>1, <5>1 DEF InWorldOf
      <4> QED  BY <4>1, <4>2, <4>3
    <3>4. ControlAgreement'
      <4> SUFFICES ASSUME NEW q \in online'
                   PROVE  /\ controller'[q].conn # None
                          /\ session'[controller'[q].conn] = Owner(q)
                          /\ q \in Character =>
                               /\ q \in roster'
                               /\ lease'[CharacterAccount[q]].conn = controller'[q].conn
                               /\ state'[CharacterAccount[q]] =
                                     [selected |-> q, in_world |-> TRUE]
        BY DEF ControlAgreement, Owner
      <4>1. q \in online /\ controller'[q] = controller[q]  BY <3>3
      <4>2. /\ controller[q].conn \in Connection
            /\ session[controller[q].conn] = Owner(q)
        BY <4>1, OnlineAvatar
      <4>3. ASSUME q \in Character
            PROVE  /\ q \in roster
                   /\ lease[CharacterAccount[q]].conn = controller[q].conn
                   /\ state'[CharacterAccount[q]] = [selected |-> q, in_world |-> TRUE]
        BY <3>1, <3>3, <4>1, <4>3, OnlineCharacter
      <4> QED  BY <3>1, <4>1, <4>2, <4>3
    <3>5. InWorldIsOnline'
      <4> SUFFICES ASSUME NEW b \in Account, state'[b].in_world
                   PROVE  state'[b].selected \in online'
        BY DEF InWorldIsOnline
      <4>1. b # a /\ state'[b] = state[b] /\ state[b].selected \in online
        BY <3>1 DEF Inv, InWorldIsOnline
      <4>2. state[b].selected \notin InWorldOf({a})  BY <4>1 DEF InWorldOf, Inv, TypeOK
      <4> QED  BY <3>1, <4>1, <4>2 DEF StopCharacters
    <3> QED  BY <1>0, <3>1, <3>2, <3>4, <3>5 DEF Inv, Live
  <2>6. ASSUME NEW a \in Account, EnterSelectedCharacter(c, a) PROVE Inv'
    <3> DEFINE p == state[a].selected
    <3>1. /\ p \in Character /\ p \in roster /\ CharacterAccount[p] = a
          /\ session[c] = a /\ lease[a].conn = c
          /\ EnterCharacter(c, p)
          /\ UNCHANGED <<now, session, token, seen, roster, lease>>
      BY <2>6 DEF EnterSelectedCharacter, Controls, Authenticated, Owns, Inv, TypeOK
    <3>2. /\ state'[a] = [selected |-> p, in_world |-> TRUE]
          /\ \A b \in Account \ {a} : state'[b] = state[b]
      BY <2>6 DEF EnterSelectedCharacter, Inv, TypeOK
    <3>3. /\ OfflineDisarmed' /\ HitByDriver'
          /\ online' = online \cup {p}
          /\ controller'[p].conn = c
          /\ \A q \in Avatar \ {p} : controller'[q] = controller[q]
      BY <3>1, EnterStep DEF Owner
    <3>4. ASSUME NEW q \in online', q # p
          PROVE  /\ q \in online /\ controller'[q] = controller[q]
                 /\ q \in Character => CharacterAccount[q] # a
      BY <3>3, <3>4, OnlineAvatar, OnlineCharacter
    <3>5. ControlAgreement'
      <4> SUFFICES ASSUME NEW q \in online'
                   PROVE  /\ controller'[q].conn # None
                          /\ session'[controller'[q].conn] = Owner(q)
                          /\ q \in Character =>
                               /\ q \in roster'
                               /\ lease'[CharacterAccount[q]].conn = controller'[q].conn
                               /\ state'[CharacterAccount[q]] =
                                     [selected |-> q, in_world |-> TRUE]
        BY DEF ControlAgreement, Owner
      <4>1. CASE q = p  BY <3>1, <3>2, <3>3, <4>1 DEF Owner
      <4>2. CASE q # p  BY <3>1, <3>2, <3>4, <4>2, OnlineAvatar, OnlineCharacter
      <4> QED  BY <4>1, <4>2
    <3>6. InWorldIsOnline'  BY <3>2, <3>3 DEF Inv, InWorldIsOnline
    <3> QED  BY <1>0, <3>1, <3>3, <3>5, <3>6 DEF Inv, Live
  <2>7. ASSUME NEW g \in Guest, EnterWorld(c, g) PROVE Inv'
    <3>1. /\ session[c] = g /\ EnterCharacter(c, g)
          /\ UNCHANGED <<session, seen, roster, lease, state>>
      BY <2>7 DEF EnterWorld, accountVars
    <3>2. /\ OfflineDisarmed' /\ HitByDriver'
          /\ online' = online \cup {g}
          /\ controller'[g].conn = c
          /\ \A q \in Avatar \ {g} : controller'[q] = controller[q]
      BY <3>1, EnterStep DEF Owner
    <3>3. ControlAgreement'
      <4> SUFFICES ASSUME NEW q \in online'
                   PROVE  /\ controller'[q].conn # None
                          /\ session'[controller'[q].conn] = Owner(q)
                          /\ q \in Character =>
                               /\ q \in roster'
                               /\ lease'[CharacterAccount[q]].conn = controller'[q].conn
                               /\ state'[CharacterAccount[q]] =
                                     [selected |-> q, in_world |-> TRUE]
        BY DEF ControlAgreement, Owner
      <4>1. CASE q = g  BY <3>1, <3>2, <4>1 DEF Owner
      <4>2. CASE q # g  BY <3>1, <3>2, <4>2, OnlineAvatar, OnlineCharacter
      <4> QED  BY <4>1, <4>2
    <3> QED  BY <1>0, <3>1, <3>2, <3>3 DEF Inv, Live, InWorldIsOnline
  <2>8. CASE LeaveWorld(c)
    <3>1. ASSUME NEW A \in SUBSET Account, NEW D \in SUBSET Guest,
                 StopCharacters(InWorldOf(A) \cup D), state' = LeftWorld(A),
                 UNCHANGED <<session, seen, roster, lease>>
          PROVE  Inv'
      <4>1. /\ OfflineDisarmed' /\ HitByDriver' /\ InWorldIsOnline'
            /\ \A p \in online' :
                  /\ p \in online /\ controller'[p] = controller[p]
                  /\ p \in Character =>
                        /\ p \in roster'
                        /\ state'[CharacterAccount[p]] = [selected |-> p, in_world |-> TRUE]
        BY <3>1, StopAll
      <4>2. ControlAgreement'
        <5> SUFFICES ASSUME NEW q \in online'
                     PROVE  /\ controller'[q].conn # None
                            /\ session'[controller'[q].conn] = Owner(q)
                            /\ q \in Character =>
                                 /\ q \in roster'
                                 /\ lease'[CharacterAccount[q]].conn = controller'[q].conn
                                 /\ state'[CharacterAccount[q]] =
                                       [selected |-> q, in_world |-> TRUE]
          BY DEF ControlAgreement, Owner
        <5>1. q \in online /\ controller'[q] = controller[q]  BY <4>1
        <5>2. /\ controller[q].conn \in Connection
              /\ session[controller[q].conn] = Owner(q)
          BY <5>1, OnlineAvatar
        <5>3. q \in Character => lease[CharacterAccount[q]].conn = controller[q].conn
          BY <5>1, OnlineCharacter
        <5> QED  BY <3>1, <4>1, <5>1, <5>2, <5>3
      <4> QED  BY <1>0, <3>1, <4>1, <4>2 DEF Inv, Live
    <3>2. ASSUME NEW a \in Account, StopAccounts({a}),
                 UNCHANGED <<now, session, token, seen, roster, lease>>
          PROVE  Inv'
      <4> InWorldOf({a}) \cup {} = InWorldOf({a})
        OBVIOUS
      <4> QED  BY <3>1, <3>2 DEF StopAccounts
    <3>3. ASSUME NEW g \in Guest, StopCharacters({g}), UNCHANGED <<now, accountVars>>
          PROVE  Inv'
      <4>1. InWorldOf({}) \cup {g} = {g}  BY DEF InWorldOf
      <4>2. state' = LeftWorld({})  BY <3>3 DEF LeftWorld, accountVars, Inv, TypeOK
      <4> QED  BY <3>1, <3>3, <4>1, <4>2 DEF accountVars
    <3> QED  BY <2>8, <3>2, <3>3 DEF LeaveWorld
  <2>9. ASSUME NEW p \in Avatar, NEW held \in BOOLEAN, SetMoveInput(c, p, held)
        PROVE  Inv'
    BY <1>0, <2>9, IntentStep DEF SetMoveInput, Inv, HitByDriver
  <2>10. ASSUME NEW p \in Avatar, MoveTo(c, p) \/ StopMoving(c, p) PROVE Inv'
    BY <1>0, <2>10, IntentStep DEF MoveTo, StopMoving, Inv, HitByDriver
  <2>11. ASSUME NEW p \in Avatar, NEW hit \in {c, None}, PerformAttack(c, p, hit)
         PROVE  Inv'
    BY <1>0, <2>11, IntentStep DEF PerformAttack, ActiveController
  <2> QED  BY <1>1, <2>1, <2>2, <2>3, <2>4, <2>5, <2>6, <2>7, <2>8, <2>9, <2>10, <2>11
       DEF Called
<1>2. CASE Tick
  <2>1. PICK due, arrived : Simulate(due, arrived)  BY <1>2 DEF Tick
  <2> DEFINE gone == InWorldOf(ExpiredInWorld)
  <2>2. /\ online' = online \ gone
        /\ state' = LeftWorld(ExpiredInWorld)
        /\ UNCHANGED <<now, session, token, seen, roster, lease>>
    BY <2>1 DEF Simulate
  <2>3. ASSUME NEW p \in Avatar
        PROVE  /\ controller'[p].conn = controller[p].conn
               /\ controller'[p].mode \in {0, controller[p].mode}
               /\ controller'[p].pending \in {None, controller[p].pending}
               /\ p \in gone => controller'[p].mode = 0 /\ controller'[p].pending = None
    BY <2>1, <2>3 DEF Simulate, Stopped
  <2>4. /\ \A p \in online' \cap Character :
              state'[CharacterAccount[p]] = state[CharacterAccount[p]]
        /\ \A a \in Account : state'[a].in_world => state'[a].selected \in online'
    <3> ExpiredInWorld \in SUBSET Account  BY DEF ExpiredInWorld
    <3> online' = online \ (InWorldOf(ExpiredInWorld) \cup {})  BY <2>2
    <3> QED  BY <2>2, StopStep
  <2>5. ControlAgreement'
    <3> SUFFICES ASSUME NEW q \in online'
                 PROVE  /\ controller'[q].conn # None
                        /\ session'[controller'[q].conn] = Owner(q)
                        /\ q \in Character =>
                             /\ q \in roster'
                             /\ lease'[CharacterAccount[q]].conn = controller'[q].conn
                             /\ state'[CharacterAccount[q]] =
                                   [selected |-> q, in_world |-> TRUE]
      BY DEF ControlAgreement, Owner
    <3>1. q \in online /\ q \in Avatar  BY <2>2 DEF Inv, TypeOK
    <3>2. controller'[q].conn = controller[q].conn  BY <2>3, <3>1
    <3>3. /\ controller[q].conn \in Connection
          /\ session[controller[q].conn] = Owner(q)
      BY <3>1, OnlineAvatar
    <3>4. ASSUME q \in Character
          PROVE  /\ q \in roster
                 /\ lease[CharacterAccount[q]].conn = controller[q].conn
                 /\ state'[CharacterAccount[q]] = [selected |-> q, in_world |-> TRUE]
      BY <2>4, <3>1, <3>4, OnlineCharacter
    <3> QED  BY <2>2, <3>2, <3>3, <3>4
  <2>6. OfflineDisarmed' /\ HitByDriver'
    BY <2>2, <2>3 DEF Inv, OfflineDisarmed, HitByDriver
  <2> QED  BY <1>0, <2>2, <2>4, <2>5, <2>6 DEF Inv, Live, InWorldIsOnline
<1>3. CASE Advance
  BY <1>0, <1>3 DEF Advance, accountVars, Inv, Live, ControlAgreement, InWorldIsOnline,
                    OfflineDisarmed, HitByDriver
<1>4. CASE UNCHANGED vars
  BY <1>0, <1>4 DEF vars, accountVars, Inv, Live, ControlAgreement, InWorldIsOnline,
                    OfflineDisarmed, HitByDriver
<1> QED  BY <1>1, <1>2, <1>3, <1>4 DEF Next

\* Whoever drives an avatar, however leases, sessions and rosters changed, all
\* five tables agree, and nothing stays armed for an avatar that is offline.
THEOREM InvCorrect == Spec => []Inv
<1>1. Init => Inv
  BY DEF Init, Inv, TypeOK, Live, ControlAgreement, InWorldIsOnline, OfflineDisarmed,
         HitByDriver
<1> QED  BY <1>1, InvStep, PTL DEF Spec

\* An online avatar is driven by a live connection of its owner, under the
\* owner's lease, as the character the owner brought into the world.
THEOREM ControlCorrect == Spec => []ControlAgreement
<1>1. Inv => ControlAgreement  BY DEF Inv
<1> QED  BY <1>1, InvCorrect, PTL

-----------------------------------------------------------------------------
(* What no step does.                                                        *)

\* An avatar that accounts of A have in the world belongs to one of them.
LEMMA InWorldMember ==
    ASSUME Inv, NEW A \in SUBSET Account, NEW p \in InWorldOf(A), p \in online
    PROVE  p \in Character /\ CharacterAccount[p] \in A
<1>1. PICK a \in A : p = state[a].selected  BY DEF InWorldOf
<1>2. a \in Account /\ p # None  BY OnlineAvatar DEF Owner
<1> QED  BY <1>1, <1>2 DEF Inv, TypeOK

\* No step gives an avatar that stays online to another connection.
LEMMA HandoverStep ==
    ASSUME Inv, [Next]_vars, NEW p \in online, p \in online'
    PROVE  controller'[p].conn = controller[p].conn
<1>0. p \in Avatar /\ TypeOK  BY OnlineAvatar DEF Inv
<1>1. ASSUME NEW S, StopCharacters(S) PROVE controller'[p].conn = controller[p].conn
  BY <1>0, <1>1, StopEffect
<1>2. ASSUME NEW c \in Connection, NEW q \in Avatar, EnterCharacter(c, q)
      PROVE  controller'[p].conn = controller[p].conn
  <2>1. CASE p = q
    <3>1. controller[p].conn = c
      BY <1>2, <2>1, OnlineAvatar, AccountsAssumption DEF EnterCharacter
    <3>2. controller'[p].conn = c  BY <1>0, <1>2, <2>1 DEF EnterCharacter, TypeOK
    <3> QED  BY <3>1, <3>2
  <2>2. CASE p # q  BY <1>0, <1>2, <2>2 DEF EnterCharacter, TypeOK
  <2> QED  BY <2>1, <2>2
<1>3. ASSUME NEW q \in Avatar, NEW mode, NEW hit, SetController(q, mode, hit)
      PROVE  controller'[p].conn = controller[p].conn
  <2>1. CASE p = q  BY <1>0, <1>3, <2>1 DEF SetController, TypeOK
  <2>2. CASE p # q  BY <1>0, <1>3, <2>2 DEF SetController, TypeOK
  <2> QED  BY <2>1, <2>2
<1>4. ASSUME NEW c \in Connection, Called(c)
      PROVE  controller'[p].conn = controller[p].conn
  <2>1. CASE \E who \in Identity, expiry \in 1..(MaxTime + 1) :
                 ClientConnected(c, who, expiry)
    BY <2>1 DEF ClientConnected
  <2>2. CASE ClientDisconnected(c)  BY <1>1, <2>2 DEF ClientDisconnected
  <2>3. CASE \E a \in Account : OpenAccount(c, a)
    BY <1>1, <2>3 DEF OpenAccount, StopAccounts
  <2>4. CASE \E a \in Account, q \in Character : CreateCharacter(c, a, q)
    BY <2>4 DEF CreateCharacter
  <2>5. CASE \E a \in Account, q \in Character : SelectCharacter(c, a, q)
    BY <1>1, <2>5 DEF SelectCharacter
  <2>6. CASE \E a \in Account : EnterSelectedCharacter(c, a)
    BY <1>0, <1>2, <2>6 DEF EnterSelectedCharacter, TypeOK, Owns
  <2>7. CASE \E g \in Guest : EnterWorld(c, g)  BY <1>2, <2>7 DEF EnterWorld
  <2>8. CASE LeaveWorld(c)  BY <1>1, <2>8 DEF LeaveWorld, StopAccounts
  <2> QED  BY <1>3, <1>4, <2>1, <2>2, <2>3, <2>4, <2>5, <2>6, <2>7, <2>8
       DEF Called, SetMoveInput, MoveTo, StopMoving, PerformAttack
<1>5. CASE Tick  BY <1>0, <1>5 DEF Tick, Simulate, Stopped
<1> QED  BY <1>4, <1>5 DEF Next, Advance, vars

\* An avatar never passes from one connection to another while it is online:
\* a takeover, a re-entry and a character switch all put it down first.
THEOREM NoHandoverCorrect == Spec => NoHandover
<1>1. Inv /\ [Next]_vars =>
          [\A p \in online \cap online' :
               controller'[p].conn = controller[p].conn]_vars
  BY HandoverStep
<1> QED  BY <1>1, InvCorrect, PTL DEF Spec, NoHandover

\* Only the driver's own call takes an avatar away from it under a lease.
LEMMA EvictionStep ==
    ASSUME Inv, [Next]_vars, NEW p \in online, p \notin online',
           HoldsLease(controller[p].conn, p)
    PROVE  caller' = controller[p].conn
<1> DEFINE d == controller[p].conn
<1>0. /\ p \in Avatar /\ TypeOK
      /\ d \in Connection /\ Live(d) /\ session[d] = Owner(p)
  BY OnlineAvatar DEF Inv
<1>1. ASSUME NEW a \in Account, p \in InWorldOf({a})
      PROVE  lease[a].conn = d /\ lease[a].expires > now
  <2>1. p \in Character /\ CharacterAccount[p] = a  BY <1>1, InWorldMember
  <2> QED  BY <2>1 DEF HoldsLease
<1>2. ASSUME NEW c \in Connection, Called(c) PROVE c = d
  <2>1. CASE ClientDisconnected(c)
    <3>1. p \in InWorldOf(HeldBy(c)) \cup DrivenBy(c)
      BY <2>1 DEF ClientDisconnected, StopCharacters
    <3>2. CASE p \in InWorldOf(HeldBy(c))
      <4>1. PICK a \in HeldBy(c) : p \in InWorldOf({a})  BY <3>2 DEF InWorldOf
      <4> QED  BY <1>1, <4>1 DEF HeldBy
    <3>3. CASE p \in DrivenBy(c)  BY <3>3 DEF DrivenBy
    <3> QED  BY <3>1, <3>2, <3>3
  <2>2. ASSUME NEW a \in Account, OpenAccount(c, a) PROVE c = d
    <3>1. p \in InWorldOf(TakenOver(c, a))
      BY <2>2 DEF OpenAccount, StopAccounts, StopCharacters
    <3>2. TakenOver(c, a) = {a} /\ Moves(c, a)  BY <3>1 DEF TakenOver, InWorldOf
    <3>3. lease[a].conn = d /\ lease[a].expires > now  BY <1>1, <3>1, <3>2
    <3> QED  BY <1>0, <2>2, <3>2, <3>3 DEF OpenAccount
  <2>3. ASSUME NEW a \in Account, NEW q \in Character, SelectCharacter(c, a, q)
        PROVE  c = d
    <3>1. p \in InWorldOf({a})  BY <2>3 DEF SelectCharacter, StopCharacters
    <3> QED  BY <1>1, <2>3, <3>1 DEF SelectCharacter, Controls
  <2>4. CASE LeaveWorld(c)
    <3>1. ASSUME NEW a \in Account, Controls(c, a), StopAccounts({a}) PROVE c = d
      <4>1. p \in InWorldOf({a})  BY <3>1 DEF StopAccounts, StopCharacters
      <4> QED  BY <1>1, <3>1, <4>1 DEF Controls
    <3>2. ASSUME NEW g \in Guest, LeaveGuest(c, g), StopCharacters({g}) PROVE c = d
      <4>1. p = g  BY <3>2 DEF StopCharacters
      <4> QED  BY <1>0, <3>2, <4>1, AccountsAssumption DEF LeaveGuest
    <3> QED  BY <2>4, <3>1, <3>2 DEF LeaveWorld
  <2>5. ASSUME NEW q, EnterCharacter(c, q) PROVE FALSE  BY <2>5 DEF EnterCharacter
  <2>6. ASSUME NEW q, NEW mode, NEW hit, SetController(q, mode, hit) PROVE FALSE
    BY <2>6 DEF SetController
  <2> QED  BY <1>2, <2>1, <2>2, <2>3, <2>4, <2>5, <2>6
       DEF Called, ClientConnected, CreateCharacter, EnterSelectedCharacter, EnterWorld,
           SetMoveInput, MoveTo, StopMoving, PerformAttack
<1>3. CASE Tick
  <2>1. p \in InWorldOf(ExpiredInWorld)  BY <1>3 DEF Tick, Simulate
  <2>2. PICK a \in ExpiredInWorld : p \in InWorldOf({a})
    BY <2>1 DEF InWorldOf, ExpiredInWorld
  <2>3. a \in Account /\ lease[a].expires <= now  BY <2>2 DEF ExpiredInWorld
  <2>4. lease[a].expires \in Nat /\ now \in Nat  BY <1>0, <2>3 DEF TypeOK
  <2> QED  BY <1>1, <2>2, <2>3, <2>4
<1> QED  BY <1>2, <1>3 DEF Next, Called, Advance, vars

\* While its driver holds the lease, only the driver's own call (or its own
\* disconnect) takes an avatar out of the world.
THEOREM NotEvictedCorrect == Spec => NotEvicted
<1>1. Inv /\ [Next]_vars =>
          [\A p \in online \ online' :
               HoldsLease(controller[p].conn, p) => caller' = controller[p].conn]_vars
  BY EvictionStep
<1> QED  BY <1>1, InvCorrect, PTL DEF Spec, NotEvicted

\* A hit that was scheduled is consumed only while its connection holds the
\* lease under which it was ordered.
LEMMA HitStep ==
    ASSUME Inv, [Next]_vars, NEW p \in online',
           controller[p].pending # None, controller'[p].pending = None
    PROVE  HoldsLease(controller[p].pending, p)
<1> DEFINE d == controller[p].conn
<1>0. p \in Avatar  BY TypeStep DEF Inv, TypeOK
<1>1. /\ p \in online
      /\ controller[p].pending = d
      /\ TypeOK
  BY <1>0 DEF Inv, OfflineDisarmed, HitByDriver
<1>2. /\ d \in Connection
      /\ session[d] = Owner(p)
  BY <1>1, OnlineAvatar
<1>3. p \in Character =>
          /\ CharacterAccount[p] \in Account
          /\ lease[CharacterAccount[p]].conn = d
          /\ state[CharacterAccount[p]].in_world
          /\ state[CharacterAccount[p]].selected = p
  BY <1>1, OnlineCharacter
<1>4. SUFFICES ASSUME p \in Character PROVE lease[CharacterAccount[p]].expires > now
  BY <1>1, <1>2, <1>3 DEF HoldsLease
<1>5. controller'[p].pending # controller[p].pending
  OBVIOUS
<1>6. ASSUME NEW S, StopCharacters(S) PROVE FALSE
  <2>1. p \notin S  BY <1>6 DEF StopCharacters
  <2> QED  BY <1>0, <1>1, <1>5, <1>6, <2>1, StopEffect
<1>7. ASSUME NEW c \in Connection, NEW q \in Avatar, EnterCharacter(c, q) PROVE FALSE
  <2>1. controller'[p].pending = controller[p].pending
    BY <1>0, <1>1, <1>7 DEF EnterCharacter, TypeOK
  <2> QED  BY <1>5, <2>1
<1>8. ASSUME NEW q \in Avatar, NEW mode, NEW hit, SetController(q, mode, hit),
             q # p \/ hit = controller[q].pending
      PROVE  FALSE
  <2>1. controller'[p].pending = controller[p].pending
    BY <1>0, <1>1, <1>8 DEF SetController, TypeOK
  <2> QED  BY <1>5, <2>1
<1>9. ASSUME NEW c \in Connection, Called(c)
      PROVE  lease[CharacterAccount[p]].expires > now
  <2>1. CASE \E q \in Avatar, hit \in {c, None} : PerformAttack(c, q, hit)
    <3>1. PICK q \in Avatar, hit \in {c, None} : PerformAttack(c, q, hit)  BY <2>1
    <3>2. q = p  BY <1>8, <3>1 DEF PerformAttack
    <3>3. Selected(c, p)  BY <3>1, <3>2 DEF PerformAttack, ActiveController
    <3>4. PICK a \in Account : Controls(c, a) /\ Owns(a, p)
      BY <1>4, <3>3, AccountsAssumption DEF Selected
    <3> QED  BY <3>4 DEF Controls, Owns
  <2>2. CASE \E q \in Avatar, held \in BOOLEAN : SetMoveInput(c, q, held)
    BY <1>8, <2>2 DEF SetMoveInput
  <2>3. CASE \E q \in Avatar : MoveTo(c, q) \/ StopMoving(c, q)
    BY <1>8, <2>3 DEF MoveTo, StopMoving
  <2>4. CASE \E a \in Account : EnterSelectedCharacter(c, a)
    BY <1>1, <1>7, <2>4 DEF EnterSelectedCharacter, Owns, TypeOK
  <2>5. CASE \E g \in Guest : EnterWorld(c, g)  BY <1>7, <2>5 DEF EnterWorld
  <2>6. CASE ClientDisconnected(c)  BY <1>6, <2>6 DEF ClientDisconnected
  <2>7. CASE LeaveWorld(c)  BY <1>6, <2>7 DEF LeaveWorld, StopAccounts
  <2>8. CASE \E a \in Account : OpenAccount(c, a)
    BY <1>6, <2>8 DEF OpenAccount, StopAccounts
  <2>9. CASE \E a \in Account, q \in Character : SelectCharacter(c, a, q)
    BY <1>6, <2>9 DEF SelectCharacter
  <2>10. CASE \E a \in Account, q \in Character : CreateCharacter(c, a, q)
    BY <1>5, <2>10 DEF CreateCharacter
  <2>11. CASE \E who \in Identity, expiry \in 1..(MaxTime + 1) :
                  ClientConnected(c, who, expiry)
    BY <1>5, <2>11 DEF ClientConnected
  <2> QED
    BY <1>9, <2>1, <2>2, <2>3, <2>4, <2>5, <2>6, <2>7, <2>8, <2>9, <2>10, <2>11 DEF Called
<1>10. CASE Tick
  <2> DEFINE a == CharacterAccount[p]
  <2>1. p \notin InWorldOf(ExpiredInWorld)  BY <1>10 DEF Tick, Simulate
  <2>2. a \notin ExpiredInWorld  BY <1>3, <1>4, <2>1 DEF InWorldOf
  <2>3. lease[a].conn # None /\ state[a].in_world /\ a \in Account
    BY <1>2, <1>3, <1>4, AccountsAssumption
  <2>4. ~(lease[a].expires <= now)  BY <2>2, <2>3 DEF ExpiredInWorld
  <2> QED  BY <1>1, <2>3, <2>4 DEF TypeOK
<1> QED  BY <1>5, <1>9, <1>10 DEF Next, Advance, vars

\* Every scheduled hit that is resolved or replaced is resolved or replaced
\* under the lease of the connection that ordered it: the tick expires leases
\* before it resolves hits.
THEOREM HitsUnderLeaseCorrect == Spec => HitsUnderLease
<1>1. Inv /\ [Next]_vars =>
          [\A p \in online' :
              controller[p].pending # None /\ controller'[p].pending = None
                  => HoldsLease(controller[p].pending, p)]_vars
  BY HitStep
<1> QED  BY <1>1, InvCorrect, PTL DEF Spec, HitsUnderLease

-----------------------------------------------------------------------------
(* Leases, credentials and rows implement exclusive control.                 *)

\* Holder names the driver of an online avatar and nobody for the others.
LEMMA HolderIs ==
    ASSUME NEW p \in Avatar
    PROVE  /\ p \in online => Holder[p] = controller[p].conn
           /\ p \notin online => Holder[p] = None
  BY DEF Holder

\* A step that keeps the open connections, brings nobody online and keeps the
\* driver of whoever stays online puts avatars down.
LEMMA ReleaseStep ==
    ASSUME UNCHANGED session, online' \subseteq online,
           \A p \in online' : p \in Avatar => controller'[p].conn = controller[p].conn
    PROVE  \E S \in SUBSET Avatar : Control!Release(S)
<1> DEFINE S == Avatar \ online'
<1>1. Holder' = [p \in Avatar |-> IF p \in S THEN None ELSE Holder[p]]  BY DEF Holder
<1>2. Control!Release(S)  BY <1>1 DEF Control!Release, Control!Avatar, Live
<1> QED  BY <1>2

\* Entering picks up an avatar nobody drives, whose owner plays no other, or
\* changes nothing.
LEMMA AcquireStep ==
    ASSUME Inv, NEW c \in Connection, NEW p \in Avatar,
           EnterCharacter(c, p), session[c] = Owner(p), UNCHANGED session,
           \A q \in online : Owner(q) = Owner(p) => q = p
    PROVE  Control!Acquire(c, p) \/ UNCHANGED Holder
<1>1. /\ online' = online \cup {p}
      /\ controller'[p].conn = c
      /\ \A q \in Avatar \ {p} : controller'[q] = controller[q]
  BY EnterStep
<1>2. CASE p \in online
  <2>1. controller[p].conn = c  BY <1>2, OnlineAvatar DEF EnterCharacter
  <2> QED  BY <1>1, <1>2, <2>1 DEF Holder
<1>3. CASE p \notin online
  <2>1. \A q \in Avatar : Owner(q) = Owner(p) => Holder[q] = None  BY <1>3, HolderIs
  <2>2. Holder' = [Holder EXCEPT ![p] = c]  BY <1>1 DEF Holder
  <2>3. Live(c)  BY DEF Live, Owner
  <2> QED
    BY <2>1, <2>2, <2>3 DEF Control!Acquire, Control!Avatar, Control!Owner, Owner, Live
<1> QED  BY <1>2, <1>3

\* A disconnect stops exactly the avatars the connection drives.
LEMMA DisconnectStep ==
    ASSUME Inv, NEW c \in Connection, ClientDisconnected(c)
    PROVE  Control!Close(c)
<1> DEFINE S == InWorldOf(HeldBy(c)) \cup DrivenBy(c)
<1>1. ASSUME NEW p \in online PROVE p \in S <=> controller[p].conn = c
  <2>1. CASE p \in Character
    <3>1. /\ CharacterAccount[p] \in Account
          /\ lease[CharacterAccount[p]].conn = controller[p].conn
          /\ state[CharacterAccount[p]].selected = p
          /\ state[CharacterAccount[p]].in_world
          /\ session[controller[p].conn] = CharacterAccount[p]
      BY <2>1, OnlineCharacter, OnlineAvatar DEF Owner
    <3>2. ASSUME p \in S PROVE controller[p].conn = c
      <4>1. p \in InWorldOf(HeldBy(c))  BY <2>1, <3>2 DEF DrivenBy
      <4>2. CharacterAccount[p] \in HeldBy(c)  BY <4>1, InWorldMember DEF HeldBy
      <4> QED  BY <3>1, <4>2 DEF HeldBy
    <3>3. ASSUME controller[p].conn = c PROVE p \in S
      BY <3>1, <3>3 DEF HeldBy, InWorldOf
    <3> QED  BY <3>2, <3>3
  <2>2. CASE p \in Guest
    <3>1. session[controller[p].conn] = p  BY <2>2, OnlineAvatar DEF Owner
    <3>2. p \notin InWorldOf(HeldBy(c))  BY <2>2, InWorldMember DEF HeldBy
    <3> QED  BY <2>2, <3>1, <3>2 DEF DrivenBy
  <2> QED  BY <2>1, <2>2, OnlineAvatar
<1>2. /\ online' = online \ S
      /\ \A p \in Avatar : controller'[p].conn = controller[p].conn
  BY StopEffect DEF ClientDisconnected, Inv, StopCharacters
<1>3. Holder' = [p \in Avatar |-> IF Holder[p] = c THEN None ELSE Holder[p]]
  <2>1. ASSUME NEW p \in Avatar
        PROVE  (IF p \in online' THEN controller'[p].conn ELSE None)
                   = (IF Holder[p] = c THEN None ELSE Holder[p])
    BY <1>1, <1>2, <2>1, HolderIs
  <2> QED  BY <2>1 DEF Holder
<1>4. {d \in Connection : Live(d)}' = {d \in Connection : Live(d)} \ {c}
  BY DEF ClientDisconnected, Live, Inv, TypeOK
<1>5. Live(c)  BY DEF ClientDisconnected
<1> QED  BY <1>3, <1>4, <1>5 DEF Control!Close, Control!Avatar

\* Every step of the tables is a step of the abstract control, or changes
\* nothing it can see.
LEMMA ControlStep ==
    ASSUME Inv, [Next]_vars
    PROVE  [Control!Next]_<<{c \in Connection : Live(c)}, Holder>>
<1>1. ASSUME UNCHANGED session, online' \subseteq online
      PROVE  Control!Next
  BY <1>1, HandoverStep, ReleaseStep DEF Control!Next, Control!Avatar
<1>2. ASSUME NEW c \in Connection, Called(c)
      PROVE  [Control!Next]_<<{d \in Connection : Live(d)}, Holder>>
  <2>1. CASE \E who \in Identity, expiry \in 1..(MaxTime + 1) :
                 ClientConnected(c, who, expiry)
    <3>1. ~Live(c)  BY <2>1 DEF ClientConnected, Inv
    <3>2. {d \in Connection : Live(d)}' = {d \in Connection : Live(d)} \cup {c}
      BY <2>1 DEF ClientConnected, Live, Inv, TypeOK
    <3>3. UNCHANGED Holder  BY <2>1 DEF ClientConnected, Holder
    <3> QED  BY <3>1, <3>2, <3>3 DEF Control!Next, Control!Open
  <2>2. CASE ClientDisconnected(c)  BY <2>2, DisconnectStep DEF Control!Next
  <2>3. ASSUME NEW a \in Account, EnterSelectedCharacter(c, a)
        PROVE  [Control!Next]_<<{d \in Connection : Live(d)}, Holder>>
    <3> DEFINE p == state[a].selected
    <3>1. /\ p \in Character /\ Owner(p) = a /\ session[c] = a
          /\ EnterCharacter(c, p) /\ UNCHANGED session
      BY <2>3 DEF EnterSelectedCharacter, Owns, Owner, Controls, Authenticated, Inv, TypeOK
    <3>2. ASSUME NEW q \in online, Owner(q) = Owner(p) PROVE q = p
      <4>1. q \in Character /\ CharacterAccount[q] = a
        BY <3>1, <3>2, OnlineAvatar, AccountsAssumption DEF Owner
      <4> QED  BY <3>2, <4>1, OnlineCharacter
    <3>3. Control!Acquire(c, p) \/ UNCHANGED Holder
      <4> HIDE DEF p
      <4> QED  BY <3>1, <3>2, AcquireStep
    <3> QED  BY <3>1, <3>3 DEF Control!Next, Control!Avatar, Live
  <2>4. ASSUME NEW g \in Guest, EnterWorld(c, g)
        PROVE  [Control!Next]_<<{d \in Connection : Live(d)}, Holder>>
    <3>1. Owner(g) = g /\ session[c] = g /\ EnterCharacter(c, g) /\ UNCHANGED session
      BY <2>4, AccountsAssumption DEF EnterWorld, Owner, accountVars
    <3>2. ASSUME NEW q \in online, Owner(q) = Owner(g) PROVE q = g
      BY <3>1, <3>2, OnlineAvatar, AccountsAssumption DEF Owner
    <3>3. Control!Acquire(c, g) \/ UNCHANGED Holder  BY <3>1, <3>2, AcquireStep
    <3> QED  BY <3>1, <3>3 DEF Control!Next, Control!Avatar, Live
  <2>5. CASE LeaveWorld(c)
    BY <1>1, <2>5 DEF LeaveWorld, StopAccounts, StopCharacters, accountVars
  <2>6. CASE \E a \in Account : OpenAccount(c, a)
    BY <1>1, <2>6 DEF OpenAccount, StopAccounts, StopCharacters
  <2>7. CASE \E a \in Account, p \in Character :
                 CreateCharacter(c, a, p) \/ SelectCharacter(c, a, p)
    BY <1>1, <2>7 DEF CreateCharacter, SelectCharacter, StopCharacters
  <2>8. ASSUME NEW p, NEW mode, NEW hit, SetController(p, mode, hit)
        PROVE  Control!Next
    BY <1>1, <2>8 DEF SetController, accountVars
  <2> QED  BY <1>2, <2>1, <2>2, <2>3, <2>4, <2>5, <2>6, <2>7, <2>8
       DEF Called, SetMoveInput, MoveTo, StopMoving, PerformAttack
<1>3. CASE Tick  BY <1>1, <1>3 DEF Tick, Simulate
<1>4. CASE Advance  BY <1>1, <1>4 DEF Advance, accountVars
<1>5. CASE UNCHANGED vars  BY <1>5 DEF vars, accountVars, Holder, Live
<1> QED  BY <1>2, <1>3, <1>4, <1>5 DEF Next

\* The sessions, leases, account rows and controllers implement exclusive
\* control of avatars by live connections.
THEOREM ControlImplemented == Spec => ImplementsControl
<1>1. Init => Control!Init  BY DEF Init, Control!Init, Holder, Live, Control!Avatar
<1> QED  BY <1>1, ControlStep, InvCorrect, PTL DEF Spec, ImplementsControl, Control!Spec
=============================================================================
