------------------------------ MODULE Payloads ------------------------------
(* What the server and the client are given out of a normalised profile: the *)
(* actions of the server, with their strikes, inputs and ends, and the       *)
(* manifest of the client, with its motions and the weapons to be held; each *)
(* made, then validated as it will be read.                                  *)
(*                                                                           *)
(* Source: tools/content_compile.py from _events_for_server to               *)
(* make_client_payload, and its validate_command.  Evidence that has to be   *)
(* exactly as reviewed is compared with one record of it.                    *)
EXTENDS Profile

CONSTANTS
    MaxLength,      \* MAX_COMBO_TIME_US
    PinnedArea,     \* the area of the last strike
    PinnedWave,     \* its screen wave
    PinnedTerminal, \* its input times
    PinnedSphere,   \* where the dog is hit
    Reactions,      \* MOB_REACTION_DURATIONS_US, by action
    Invulnerable    \* ORDINARY_HIT_INVULNERABILITY_US, by place in the chain,
                    \* 0 for the general attack, 5 for the dog's

VARIABLES
    payload,    \* the server's, or <<>>
    manifest    \* the client's, or <<>>

payloadVars == <<profileVars, payload, manifest>>

PayloadsStart == ProfileStart /\ payload = <<>> /\ manifest = <<>>

PayloadsInit == given \in Profiles /\ PayloadsStart

Refused == RefuseProfile /\ UNCHANGED <<payload, manifest>>

-----------------------------------------------------------------------------
(* What the server is given *)

Chain == [n \in 1 .. 4 |-> <<"combo", "_", <<"1", "2", "3", "4">>[n]>>]
GeneralId == PlayerId \o Dot \o <<"general">> \o Dot
               \o <<"normal", "_", "attack">> \o Dot \o <<"v1">>
DogAttackId == DogId \o Dot \o <<"general">> \o Dot
                 \o <<"normal", "_", "attack">> \o Dot \o <<"v1">>
ExpectedIds == Range(ComboIds) \cup {GeneralId, DogAttackId}

PlaceOf(id) == IF id = DogAttackId THEN 5
               ELSE IF id = GeneralId THEN 0
               ELSE CHOOSE n \in 1 .. 4 : ComboIds[n] = id

\* Windows that open and close at the same time are no strikes.
Strikes(motion) ==
    Kept(motion.windows, {w \in DOMAIN motion.windows :
                            motion.windows[w].from < motion.windows[w].to})

\* The last strike of the chain has an empty record, and never counts.
Protects(motion) ==
    /\ Len(motion.windows) = 1
    /\ IF motion.id = ComboIds[4]
       THEN motion.windows[1].samples = 0 /\ motion.windows[1].invisible = 1
       ELSE motion.windows[1].invisible = Invulnerable[PlaceOf(motion.id)]

MotionsOf(actor, mode, action) ==
    Kept(motions, {m \in DOMAIN motions : /\ motions[m].actor = actor
                                          /\ motions[m].mode = mode
                                          /\ motions[m].action = action})

Called(rows, id) == Kept(rows, {r \in DOMAIN rows : rows[r].id = id})
ModeNamed(mode) == Called(ActorsOf("player")[1].modes, mode)
OneHand == ModeNamed(<<"onehand">>)

PrefixIsSound ==
    /\ Len(OneHand) = 1 /\ OneHand[1].required = <<10>>
    /\ LET chains == OneHand[1].chains
       IN /\ chains # <<>> /\ \A c \in Range(chains) : Len(c) >= 3
          /\ Len(chains[1]) >= 4 /\ SubSeq(chains[1], 1, 4) = Chain
          /\ \A c \in Range(chains) : SubSeq(c, 1, 3) = SubSeq(Chain, 1, 3)
    /\ \A n \in 1 .. 4 : Len(MotionsOf(PlayerId, <<"onehand">>, Chain[n])) = 1

InputIsSoundFault(combo, length) ==
    /\ combo # <<>> /\ length \in 1 .. MaxLength /\ combo[1].link # <<>>
    /\ 0 <= combo[1].pre /\ combo[1].pre < combo[1].direct
    /\ combo[1].direct < combo[1].limit

InputIsSound(combo, length) ==
    /\ combo # <<>> /\ length \in 1 .. MaxLength /\ combo[1].link # <<>>
    /\ 0 <= combo[1].pre /\ combo[1].pre < combo[1].direct
    /\ combo[1].direct < combo[1].limit /\ combo[1].limit <= length

RootIsAuthored(root, length) ==
    /\ root # <<>> /\ root[1].pinned /\ root[1].length = length
    /\ RootIsSound(root[1])

EndOf(root) == root.end

\* The motion of the chain, or the general attack: the first of its variants.
ActionFor(motion, items) ==
    [id |-> motion.id, length |-> motion.length, strikes |-> Strikes(motion),
     items |-> items,
     input |-> IF motion.id \in {ComboIds[n] : n \in 1 .. 3}
               THEN motion.combo ELSE <<>>,
     end |-> Each(motion.root, EndOf)]

PrimaryOf(mode) ==
    MotionsOf(PlayerId, mode, Profile.primary[mode])

PrimariesAreSound ==
    \A mode \in DOMAIN Profile.primary :
      /\ Len(ModeNamed(mode)) = 1 /\ PrimaryOf(mode) # <<>>
      /\ LET m == PrimaryOf(mode)[1]
         IN /\ Strikes(m) # <<>> /\ m.id \in ExpectedIds /\ Protects(m)
            /\ mode = <<"onehand">> =>
                 InputIsSound(m.combo, m.length) /\ RootIsAuthored(m.root,
                                                                   m.length)

ChainIsSound ==
    \A n \in 2 .. 4 :
      LET m == MotionsOf(PlayerId, <<"onehand">>, Chain[n])[1]
      IN /\ m.id = ComboIds[n] /\ Protects(m)
         /\ RootIsAuthored(m.root, m.length)
         /\ IF n < 4
            THEN Strikes(m) # <<>> /\ InputIsSound(m.combo, m.length)
            ELSE /\ Strikes(m) = <<>> /\ m.combo = <<PinnedTerminal>>
                 /\ m.areas = <<PinnedArea>> /\ m.waves = <<PinnedWave>>

DogIsSound ==
    LET attacks == MotionsOf(DogId, <<"general">>, <<"normal", "_", "attack">>)
    IN /\ attacks # <<>> /\ Strikes(attacks[1]) # <<>>
       /\ attacks[1].id \in ExpectedIds /\ Protects(attacks[1])
       /\ Client.races[ActorsOf("mob")[1].race].defends = <<PinnedSphere>>
       /\ \A r \in DOMAIN Reactions :
            LET m == MotionsOf(DogId, <<"general">>, r)
            IN m # <<>> /\ m[1].id = DogId \o Dot \o <<"general">> \o Dot \o r
                 /\ m[1].length = Reactions[r]

\* The one sword and the one dog whose damage was reviewed.
PhysicalIsSound ==
    /\ Profile.revision = "reviewed" /\ Server.whole
    /\ Len(FirstOf(Server.items, 10)) = 1 /\ Len(FirstOf(Server.mobs, 101)) = 1
    /\ LET sword == FirstOf(Server.items, 10)[1]
       IN sword.kind = "sword" /\ sword.power = "reviewed"
    /\ FirstOf(Server.mobs, 101)[1].power = "reviewed"
    /\ \A p \in {"battle", "items", "mobs", "display"} :
         Kept(Profile.sources, {r \in DOMAIN Profile.sources :
                                  Profile.sources[r].path = p})
           = << [path |-> p, identity |-> "reviewed"] >>

ServerActions ==
    {ActionFor(PrimaryOf(m)[1], ModeNamed(m)[1].required) :
       m \in DOMAIN Profile.primary}
    \cup {ActionFor(MotionsOf(PlayerId, <<"onehand">>, Chain[n])[1],
                    OneHand[1].required) : n \in 2 .. 4}
    \cup {ActionFor(MotionsOf(DogId, <<"general">>,
                              <<"normal", "_", "attack">>)[1], <<>>)}

ActorsAreSelected ==
    /\ Len(ActorsOf("player")) = 1 /\ ActorsOf("player")[1].id = PlayerId
    /\ Len(ActorsOf("mob")) = 1 /\ ActorsOf("mob")[1].id = DogId

MakeServer ==
    /\ built = "normalised" /\ UNCHANGED <<motions, held, manifest>>
    /\ IF /\ PhysicalIsSound /\ ActorsAreSelected
          /\ <<"onehand">> \in DOMAIN Profile.primary
          /\ Profile.primary[<<"onehand">>] = Chain[1]
          /\ PrefixIsSound /\ PrimariesAreSound /\ ChainIsSound /\ DogIsSound
       THEN /\ Becomes("serving")
            /\ payload' = <<[actions |-> ServerActions, items |-> given.items,
                             damage |-> {"sword", "dog"} \X {"reviewed"},
                             primary |-> [m \in DOMAIN Profile.primary |->
                                            PrimaryOf(m)[1].id]]>>
       ELSE Becomes("refused") /\ UNCHANGED payload

-----------------------------------------------------------------------------
(* validate_server_payload *)

SwordId == <<"sword", "-", "10">>
ItemCalled(id) == Called(payload[1].items, id)
ItemOfVnum(v) == FirstOf(payload[1].items, v)

\* The reviewed sword has to be in the catalogue, and both rewards.
CatalogAgrees ==
    /\ ItemCalled(SwordId) # <<>>
    /\ LET sword == Last(ItemCalled(SwordId))
       IN sword.vnum = 10 /\ sword.class = "sword" /\ sword.power = "reviewed"
    /\ \A v \in {27001, 27002} :
         ItemOfVnum(v) # <<>> /\ Last(ItemOfVnum(v)).stack = Server.stacks

ActionIsSound(a) ==
    LET last == a.id = ComboIds[4]
        chained == a.id \in Range(ComboIds)
    IN /\ a.length \in 1 .. MaxLength
       /\ Len(a.strikes) = (IF last THEN 0 ELSE 1)
       /\ \A s \in Range(a.strikes) :
            0 <= s.from /\ s.from < s.to /\ s.to <= a.length
       /\ a.items = (IF chained THEN <<10>> ELSE <<>>)
       /\ IF chained /\ ~last THEN InputIsSound(a.input, a.length)
          ELSE a.input = <<>>
       /\ (a.end # <<>>) = chained

\* The sword, the dog and the sources of both, as reviewed, and nothing else.
DamageIsReviewed ==
    payload[1].damage = {"sword", "dog"} \X {"reviewed"}

PayloadIsSound ==
    /\ CatalogAgrees /\ DamageIsReviewed
    /\ Cardinality(payload[1].actions) = 6
    /\ {a.id : a \in payload[1].actions} = ExpectedIds
    /\ payload[1].primary[<<"onehand">>] = ComboIds[1]
    /\ \A a \in payload[1].actions : ActionIsSound(a)

ValidateServer ==
    built = "serving" /\ Unless(PayloadIsSound, "presenting")
      /\ UNCHANGED <<payload, manifest>>

-----------------------------------------------------------------------------
(* make_client_payload and validate_command *)

WeaponRow(id) ==
    Kept(payload[1].items, {r \in DOMAIN payload[1].items :
                              /\ payload[1].items[r].id = id
                              /\ payload[1].items[r].kind = "weapon"})

\* A motion has the wave of the trusted action of the same name.
ClientMotion(m) ==
    [id |-> m.id, length |-> m.length, windows |-> m.windows,
     combo |-> m.combo,
     waves |-> IF m.id = ComboIds[4] THEN <<PinnedWave>> ELSE <<>>]

InHand(i) == [id |-> i.id, vnum |-> i.vnum, mode |-> i.mode,
              power |-> Last(WeaponRow(i.id)).power]

MakeClient ==
    /\ built = "presenting" /\ UNCHANGED <<motions, held, payload>>
    /\ IF /\ Client.converted = {a.id : a \in Range(Profile.actors)}
                                  \cup {i.id : i \in Range(held)}
          /\ \A i \in Range(held) : WeaponRow(i.id) # <<>>
       THEN /\ Becomes("validating")
            /\ manifest' = <<[motions |-> Each(motions, ClientMotion),
                              catalogue |-> payload[1].items,
                              items |-> Each(held, InHand)]>>
       ELSE Becomes("refused") /\ UNCHANGED manifest

PresentedFault(r) == \E i \in Range(manifest[1].items) : i.id = r.id

Presented(r) ==
    \E i \in Range(manifest[1].items) : i.id = r.id /\ i.vnum = r.vnum

IconIsThere(r) == r.icon \in Client.icons \/ r.icon \in Client.iconless

ValidateBuilt ==
    /\ built = "validating" /\ UNCHANGED <<payload, manifest>>
    /\ Unless(/\ PayloadIsSound /\ manifest[1].catalogue = payload[1].items
              /\ \A r \in Range(payload[1].items) :
                   IconIsThere(r) /\ (r.kind = "weapon" => Presented(r)),
              "built")

PayloadsNext == \/ ProfileNext /\ UNCHANGED <<payload, manifest>>
                \/ MakeServer \/ ValidateServer \/ MakeClient \/ ValidateBuilt

ProfileSpec == PayloadsInit /\ [][PayloadsNext]_payloadVars

-----------------------------------------------------------------------------
\* Once built, every weapon that the server may give out is shown in the
\* hand of who holds it, once, with the power that the server strikes with,
\* and nothing else is shown as a weapon.
WeaponsAreHeld ==
    built = "built" =>
      LET shown == manifest[1].items
          weapons == {r \in Range(payload[1].items) : r.kind = "weapon"}
      IN /\ Len(shown) = Cardinality(weapons)
         /\ \A r \in weapons :
              \E k \in DOMAIN shown :
                shown[k].vnum = r.vnum /\ shown[k].power = r.power

\* Once built, the chain can be played to its end: each of its strikes but
\* the last waits for input that comes after the one before it and is over
\* by the end of the motion that the client plays, hits once, inside that
\* motion, and only when the script says so; the last only ends.
ChainIsPlayable ==
    built = "built" =>
      \A n \in 1 .. 4 :
        LET a == CHOOSE x \in payload[1].actions : x.id = ComboIds[n]
            shown == {m \in Range(manifest[1].motions) : m.id = a.id}
        IN /\ Cardinality(shown) = 1
           /\ \A m \in shown :
                /\ m.length = a.length
                /\ Range(a.strikes) \subseteq Range(m.windows)
                /\ \A s \in Range(a.strikes) : s.to <= m.length
                /\ n < 4 => /\ Len(a.strikes) = 1 /\ a.input = m.combo
                            /\ a.input[1].direct < a.input[1].limit
                            /\ a.input[1].limit <= m.length
                /\ n = 4 => a.strikes = <<>> /\ a.input = <<>>

\* What client and server are given of one profile can be played together.
BuildIsPlayable == NamesStayApart /\ WeaponsAreHeld /\ ChainIsPlayable
=============================================================================
