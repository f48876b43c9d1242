------------------------------ MODULE Gateway -------------------------------
(* The gateway of a shared playtest: one handler per connection, which lets  *)
(* through a health check, the creation of an identity and the WebSocket of  *)
(* one database, and relays the latter between the player and the server.    *)
(*                                                                           *)
(* Source: tools/playtest_gateway.py.  Handlers interleave at every await.   *)
(* The player and the server may close, stall or answer anything; every wait *)
(* but those of the relay has a timeout, which is one of the outcomes of the *)
(* step.  Bytes, header syntax and the text of errors are left out; answers  *)
(* are shorter than the write buffer, so that writing one fails only if the  *)
(* player is gone.                                                           *)
EXTENDS Integers, FiniteSets, TLC

CONSTANTS
    Connection,     \* connections, each accepted once
    MaxConnections  \* MAX_CONNECTIONS

ASSUME GatewayAssumption == MaxConnections \in Nat \ {0}

VARIABLES
    closing,    \* the server was told to stop: it accepts nothing any more
    handlers,   \* connections whose handler is registered
    stage,      \* connection -> what its handler waits for
    kind,       \* connection -> the kind of its request
    upstream,   \* connection -> whether it has a connection to the server
    said,       \* connection -> the heads written to the player
    ended       \* connection -> the sides that closed: "player", "server"

gatewayVars == <<closing, handlers, stage, kind, upstream, said, ended>>

Kind == {"none", "health", "identity", "identity_chunked", "websocket"}
Stage == {"new", "accepted", "head", "body", "connect", "answer", "upgrade",
          "relay", "draining", "finally", "closed"}

GatewayTypeOK ==
    /\ closing \in BOOLEAN /\ handlers \subseteq Connection
    /\ stage \in [Connection -> Stage] /\ kind \in [Connection -> Kind]
    /\ upstream \in [Connection -> BOOLEAN]
    /\ said \in [Connection -> SUBSET {"response", "upgrade", "error"}]
    /\ ended \in [Connection -> SUBSET {"player", "server"}]
    /\ Cardinality(handlers) <= MaxConnections

GatewayInit ==
    /\ closing = FALSE /\ handlers = {}
    /\ stage = [c \in Connection |-> "new"]
    /\ kind = [c \in Connection |-> "none"]
    /\ upstream = [c \in Connection |-> FALSE]
    /\ said = [c \in Connection |-> {}]
    /\ ended = [c \in Connection |-> {}]

-----------------------------------------------------------------------------
(* What a request is; a request is refused by the first check it fails *)

Request ==
    [wellFormed : BOOLEAN,      \* HTTP/1.1, a host and a target in ASCII
     method : {"GET", "POST"},
     target : {"/health", "/v1/identity", "subscribe", "other"},
     framing : {"empty", "length", "chunked", "other"},
     upgrade : BOOLEAN,         \* the WebSocket headers of the game's protocol
     query : BOOLEAN]           \* no parameter but the four, each valid

ClassifyRequest(r) ==
    LET posts == r.method = "POST" /\ r.target = "/v1/identity"
    IN IF ~r.wellFormed THEN "refused"
       ELSE IF posts /\ r.framing = "chunked" THEN "identity_chunked"
       ELSE IF r.framing # "empty" THEN "refused"
       ELSE IF r.method = "GET" /\ r.target = "/health" THEN "health"
       ELSE IF posts THEN "identity"
       ELSE IF /\ r.method = "GET" /\ r.target = "subscribe"
               /\ r.upgrade /\ r.query THEN "websocket"
       ELSE "refused"

Outcomes == {ClassifyRequest(r) : r \in Request}

-----------------------------------------------------------------------------
(* The handler *)

Goes(c, s) == stage' = [stage EXCEPT ![c] = s]

\* What is written reaches a player that has not gone.
Says(c, head) ==
    said' = [said EXCEPT ![c] =
               IF "player" \in ended[c] THEN @ ELSE @ \cup {head}]

\* An HttpError, a timeout or a lost connection: the player is told, unless
\* its connection was upgraded; then the finally block.
FailsFault(c) ==
    /\ Goes(c, "finally") /\ Says(c, "error")
    /\ UNCHANGED <<closing, handlers, kind, upstream, ended>>

Fails(c) ==
    /\ Goes(c, "finally")
    /\ IF stage[c] \in {"relay", "draining"} THEN UNCHANGED said
                                             ELSE Says(c, "error")
    /\ UNCHANGED <<closing, handlers, kind, upstream, ended>>

\* A connection is accepted; its handler has not run yet.
Accept(c) ==
    /\ stage[c] = "new" /\ ~closing /\ Goes(c, "accepted")
    /\ UNCHANGED <<closing, handlers, kind, upstream, said, ended>>

\* The handler starts: it registers unless the gateway is full.
BeginFault(c) ==
    /\ stage[c] = "accepted"
    /\ handlers' = handlers \cup {c} /\ Goes(c, "head")
    /\ UNCHANGED <<closing, kind, upstream, said, ended>>

Begin(c) ==
    /\ stage[c] = "accepted"
    /\ IF Cardinality(handlers) >= MaxConnections THEN Fails(c)
       ELSE /\ handlers' = handlers \cup {c} /\ Goes(c, "head")
            /\ UNCHANGED <<closing, kind, upstream, said, ended>>

ReadHead(c) ==
    /\ stage[c] = "head"
    /\ \/ Fails(c)
       \/ \E k \in Outcomes \ {"refused"} :
            /\ kind' = [kind EXCEPT ![c] = k]
            /\ Goes(c, IF k = "identity_chunked" THEN "body" ELSE "connect")
            /\ UNCHANGED <<closing, handlers, upstream, said, ended>>

\* A chunked creation of an identity must have an empty body.
ReadEmptyIdentityBody(c) ==
    /\ stage[c] = "body"
    /\ \/ Fails(c)
       \/ /\ kind' = [kind EXCEPT ![c] = "identity"] /\ Goes(c, "connect")
          /\ UNCHANGED <<closing, handlers, upstream, said, ended>>

\* The server is reached or not; a health check says which.
OpenUpstream(c) ==
    /\ stage[c] = "connect"
    /\ \/ kind[c] # "health" /\ Fails(c)
       \/ /\ upstream' \in {[upstream EXCEPT ![c] = b] : b \in BOOLEAN}
          /\ kind[c] # "health" => upstream'[c]
          /\ IF kind[c] = "health"
             THEN Says(c, "response") /\ Goes(c, "finally")
             ELSE UNCHANGED said /\ Goes(c, "answer")
          /\ UNCHANGED <<closing, handlers, kind, ended>>

\* The server's answer: another status is passed on with its bounded body,
\* only a WebSocket may be upgraded.
ReadAnswer(c) ==
    /\ stage[c] = "answer"
    /\ \/ Fails(c)
       \/ /\ \/ Says(c, "response") /\ Goes(c, "finally")
             \/ kind[c] = "websocket" /\ Goes(c, "upgrade") /\ UNCHANGED said
          /\ UNCHANGED <<closing, handlers, kind, upstream, ended>>

\* The upgrade is written; upgraded is set once it is drained.
Upgrade(c) ==
    /\ stage[c] = "upgrade"
    /\ \/ "player" \in ended[c] /\ Fails(c)
       \/ /\ Says(c, "upgrade") /\ Goes(c, "relay")
          /\ UNCHANGED <<closing, handlers, kind, upstream, ended>>

\* relay: two pumps.  The first that reaches an end starts the timeout of the
\* other; one that fails ends both.
PumpEnds(c) ==
    /\ stage[c] = "relay" /\ ended[c] # {} /\ Goes(c, "draining")
    /\ UNCHANGED <<closing, handlers, kind, upstream, said, ended>>

PumpFails(c) == stage[c] \in {"relay", "draining"} /\ Fails(c)

EofTimeoutFault(c) ==
    /\ stage[c] = "draining" /\ ended[c] = {"player", "server"} /\ Fails(c)

EofTimeout(c) == stage[c] = "draining" /\ Fails(c)

\* finally: both streams are closed, or aborted after a second.
CloseStreams(c) ==
    /\ stage[c] = "finally" /\ Goes(c, "closed")
    /\ upstream' = [upstream EXCEPT ![c] = FALSE]
    /\ handlers' = handlers \ {c}
    /\ UNCHANGED <<closing, kind, said, ended>>

-----------------------------------------------------------------------------
(* The ends of the connections, and of the gateway *)

Ends(c, side) ==
    /\ stage[c] \notin {"new", "finally", "closed"} /\ side \notin ended[c]
    /\ side = "server" => upstream[c]
    /\ ended' = [ended EXCEPT ![c] = @ \cup {side}]
    /\ UNCHANGED <<closing, handlers, stage, kind, upstream, said>>

\* close: every registered handler is cancelled where it waits; a cancelled
\* handler writes nothing and runs its finally block.
Close ==
    /\ ~closing /\ closing' = TRUE
    /\ stage' = [c \in Connection |->
                   IF c \in handlers THEN "finally" ELSE stage[c]]
    /\ UNCHANGED <<handlers, kind, upstream, said, ended>>

Handle(c) ==
    \/ Begin(c) \/ ReadHead(c) \/ ReadEmptyIdentityBody(c) \/ OpenUpstream(c)
    \/ ReadAnswer(c) \/ Upgrade(c) \/ PumpEnds(c) \/ EofTimeout(c)
    \/ CloseStreams(c)

GatewayNext ==
    \/ Close
    \/ \E c \in Connection : \/ Accept(c) \/ Handle(c) \/ PumpFails(c)
                             \/ \E s \in {"player", "server"} : Ends(c, s)

\* The event loop runs every handler that can go on.
GatewaySpec == /\ GatewayInit /\ [][GatewayNext]_gatewayVars
               /\ \A c \in Connection : WF_gatewayVars(Handle(c))

-----------------------------------------------------------------------------
\* A player never reads a second head on its connection, above all no error
\* behind an upgrade, wherever the exchange breaks off.
OneHead == \A c \in Connection : Cardinality(said[c]) <= 1

\* The gateway answers a player once, and never serves more than it may.
AnsweredOnce == GatewayTypeOK /\ OneHead

\* A connection ends when either of its sides has: the other side, however
\* silent, is not waited for.
ConnectionsEnd ==
    \A c \in Connection : (ended[c] # {}) ~> (stage[c] = "closed")
=============================================================================
