------------------------------ MODULE Playtest ------------------------------
(* The temporary public playtest link: a launcher that owns a session, the   *)
(* game gateway and the tunnel it starts, and the commands that ask it to    *)
(* stop or package a client for its address.                                 *)
(*                                                                           *)
(* Source: tools/share_server.py.  Launchers run beside each other on one    *)
(* machine and share the lock of the session, the state file and the gateway *)
(* port.  Children may exit at any time; a launcher may be killed without    *)
(* running its cleanup, and then leaves its children behind.  A stop looks   *)
(* at the state file first and signals afterwards; its signal, like Ctrl+C,  *)
(* arrives anywhere, also between the start of a child and its entry in the  *)
(* list that the cleanup goes through, and inside the cleanup.               *)
(*                                                                           *)
(* Each launcher is one process: it is started once, and its pid and start   *)
(* time are its name.  Every wait of the code ends at its deadline, so       *)
(* giving up is always possible.  The tunnel, its public name and the game   *)
(* database are external.                                                    *)
EXTENDS Integers, TLC

CONSTANTS
    Launcher,   \* processes started with "start"
    DatabaseShared, \* the database each of them shares
    NoLauncher

ASSUME PlaytestAssumption ==
    /\ NoLauncher \notin Launcher
    /\ DOMAIN DatabaseShared = Launcher

VARIABLES
    installed,  \* the pinned cloudflared: missing, damaged or verified
    step,       \* launcher -> where start is
    gateway,    \* launcher -> its gateway: none, loading, serving or gone
    tunnel,     \* launcher -> its tunnel: none, running or gone
    children,   \* launcher -> the children in its list
    lock,       \* who holds session.lock
    session,    \* session.json: its owner and status
    stopper,    \* the launcher a stop command has verified
    fate        \* launcher -> what befell it: history

playtestVars ==
    <<installed, step, gateway, tunnel, children, lock, session, stopper, fate>>

\* A step "gateway" or "tunnel" has listed that child; the step before it,
\* "spawning" or "opening", has only started it.
Step == {"new", "locked", "starting", "spawning", "gateway", "opening", "tunnel",
         "announce", "ready", "closing", "gone"}
Child == {"gateway", "tunnel"}

PlaytestTypeOK ==
    /\ installed \in {"missing", "damaged", "verified"}
    /\ step \in [Launcher -> Step]
    /\ gateway \in [Launcher -> {"none", "loading", "serving", "gone"}]
    /\ tunnel \in [Launcher -> {"none", "running", "gone"}]
    /\ children \in [Launcher -> SUBSET Child]
    /\ lock \in Launcher \cup {NoLauncher}
    /\ stopper \in Launcher \cup {NoLauncher}
    /\ session \in [owner : Launcher \cup {NoLauncher},
                    status : {"starting", "ready", "stopped"}]
    /\ fate \in [Launcher -> {"fine", "missed", "cut", "killed"}]

PlaytestInit ==
    /\ installed \in {"missing", "damaged"}
    /\ step = [l \in Launcher |-> "new"]
    /\ gateway = [l \in Launcher |-> "none"]
    /\ tunnel = [l \in Launcher |-> "none"]
    /\ children = [l \in Launcher |-> {}]
    /\ lock = NoLauncher
    /\ session = [owner |-> NoLauncher, status |-> "stopped"]
    /\ stopper = NoLauncher /\ fate = [l \in Launcher |-> "fine"]

Live(l) == step[l] \notin {"new", "gone"}
Goto(l, s) == step' = [step EXCEPT ![l] = s]
Befalls(l, f) == fate' = [fate EXCEPT ![l] = f]

\* The children of a launcher that run.
Runs(l) == {c \in Child : \/ c = "gateway" /\ gateway[l] \in {"loading", "serving"}
                          \/ c = "tunnel" /\ tunnel[l] = "running"}

-----------------------------------------------------------------------------
(* install and start *)

\* The download replaces the binary only if its checksum is the pinned one.
Install ==
    /\ installed # "verified" /\ installed' \in {installed, "verified"}
    /\ UNCHANGED <<step, gateway, tunnel, children, lock, session, stopper, fate>>

\* The binary is verified, the database answers, and nobody owns the session.
TakeLock(l) ==
    /\ step[l] = "new" /\ installed = "verified" /\ lock = NoLauncher
    /\ Goto(l, "locked") /\ lock' = l
    /\ UNCHANGED <<installed, gateway, tunnel, children, session, stopper, fate>>

WriteStarting(l) ==
    /\ step[l] = "locked" /\ Goto(l, "starting")
    /\ session' = [owner |-> l, status |-> "starting"]
    /\ UNCHANGED <<installed, gateway, tunnel, children, lock, stopper, fate>>

\* spawn is two steps: Popen starts the child, append lists it.
SpawnGateway(l) ==
    /\ step[l] = "starting" /\ Goto(l, "spawning")
    /\ gateway' = [gateway EXCEPT ![l] = "loading"]
    /\ UNCHANGED <<installed, tunnel, children, lock, session, stopper, fate>>

ListChild(l, c) == children' = [children EXCEPT ![l] = @ \cup {c}]

ListGateway(l) ==
    /\ step[l] = "spawning" /\ Goto(l, "gateway") /\ ListChild(l, "gateway")
    /\ UNCHANGED <<installed, gateway, tunnel, lock, session, stopper, fate>>

\* The gateway binds its port and publishes its readiness, or exits.
GatewayBinds(l) ==
    /\ gateway[l] = "loading"
    /\ LET taken == \E o \in Launcher : gateway[o] = "serving"
       IN gateway' =
            [gateway EXCEPT ![l] = IF taken THEN "gone" ELSE "serving"]
    /\ UNCHANGED <<installed, step, tunnel, children, lock, session, stopper, fate>>

\* The readiness record is the child's own, and the port answers for the
\* database: only then is the tunnel started.
GatewayReadyFault(l) ==
    gateway[l] # "gone" /\ \E o \in Launcher :
      gateway[o] = "serving" /\ DatabaseShared[o] = DatabaseShared[l]

GatewayReady(l) ==
    /\ gateway[l] = "serving"
    /\ \E o \in Launcher :
         gateway[o] = "serving" /\ DatabaseShared[o] = DatabaseShared[l]

SpawnTunnel(l) ==
    /\ step[l] = "gateway" /\ GatewayReady(l) /\ Goto(l, "opening")
    /\ tunnel' = [tunnel EXCEPT ![l] = "running"]
    /\ UNCHANGED <<installed, gateway, children, lock, session, stopper, fate>>

ListTunnel(l) ==
    /\ step[l] = "opening" /\ Goto(l, "tunnel") /\ ListChild(l, "tunnel")
    /\ UNCHANGED <<installed, gateway, tunnel, lock, session, stopper, fate>>

\* Both children run, the public name resolves and answers for the database.
SeePublic(l) ==
    /\ step[l] = "tunnel" /\ tunnel[l] = "running" /\ gateway[l] = "serving"
    /\ Goto(l, "announce")
    /\ UNCHANGED <<installed, gateway, tunnel, children, lock, session, stopper, fate>>

Announce(l) ==
    /\ step[l] = "announce" /\ Goto(l, "ready")
    /\ session' = [owner |-> l, status |-> "ready"]
    /\ UNCHANGED <<installed, gateway, tunnel, children, lock, stopper, fate>>

\* A child cannot be started, a deadline passes or a child has exited: the
\* finally block.
GiveUp(l) ==
    /\ \/ step[l] \in {"starting", "gateway", "tunnel"}
       \/ step[l] \in {"announce", "ready"} /\ Runs(l) # Child
    /\ Goto(l, "closing")
    /\ UNCHANGED <<installed, gateway, tunnel, children, lock, session, stopper, fate>>

\* The listed children are terminated, the last started first; one that
\* lingers is killed.
CloseChild(l) ==
    /\ step[l] = "closing"
    /\ IF "tunnel" \in children[l] \cap Runs(l)
       THEN tunnel' = [tunnel EXCEPT ![l] = "gone"] /\ UNCHANGED gateway
       ELSE /\ "gateway" \in children[l] \cap Runs(l) /\ UNCHANGED tunnel
            /\ gateway' = [gateway EXCEPT ![l] = "gone"]
    /\ UNCHANGED <<installed, step, children, lock, session, stopper, fate>>

\* Fault: a child that does not end at once is left.
CloseSessionFault(l) ==
    /\ step[l] = "closing" /\ Goto(l, "gone")
    /\ session' = [owner |-> l, status |-> "stopped"] /\ lock' = NoLauncher
    /\ UNCHANGED <<installed, gateway, tunnel, children, stopper, fate>>

\* The state is written before the lock is given up.
CloseSession(l) ==
    /\ step[l] = "closing" /\ children[l] \cap Runs(l) = {}
    /\ session' = [owner |-> l, status |-> "stopped"]
    /\ lock' = NoLauncher /\ Goto(l, "gone")
    /\ UNCHANGED <<installed, gateway, tunnel, children, stopper, fate>>

-----------------------------------------------------------------------------
(* The other commands *)

\* The recorded owner is the process that wrote the record and still runs.
ActiveState(statuses) ==
    /\ session.owner # NoLauncher /\ Live(session.owner)
    /\ session.status \in statuses

\* stop, which also ends a session that is still starting.
VerifyStop ==
    /\ stopper = NoLauncher /\ ActiveState({"starting", "ready"})
    /\ stopper' = session.owner
    /\ UNCHANGED <<installed, step, gateway, tunnel, children, lock, session, fate>>

\* SIGTERM or Ctrl+C.  Before the try block it ends the launcher; inside it
\* raises KeyboardInterrupt, wherever the launcher is, and the cleanup follows;
\* inside the cleanup nothing catches it and the launcher ends there and then.
Interrupted(l) ==
    \/ /\ step[l] \in {"locked", "starting"} /\ Goto(l, "gone")
       /\ lock' = NoLauncher /\ UNCHANGED fate
    \/ /\ step[l] \in {"starting", "gateway", "tunnel", "announce", "ready"}
       /\ Goto(l, "closing") /\ UNCHANGED <<lock, fate>>
    \/ /\ step[l] \in {"spawning", "opening"} /\ Goto(l, "closing")
       /\ Befalls(l, "missed") /\ UNCHANGED lock
    \/ /\ step[l] = "closing" /\ Goto(l, "gone")
       /\ lock' = NoLauncher /\ Befalls(l, "cut")

\* stop signals what it has verified; nobody, if that has ended meanwhile.
Signal ==
    /\ stopper # NoLauncher /\ stopper' = NoLauncher
    /\ IF Live(stopper) THEN Interrupted(stopper) ELSE UNCHANGED <<step, lock, fate>>
    /\ UNCHANGED <<installed, gateway, tunnel, children, session>>

\* Ctrl+C in the terminal of the launcher.
Interrupt(l) ==
    /\ Interrupted(l)
    /\ UNCHANGED <<installed, gateway, tunnel, children, session, stopper>>

-----------------------------------------------------------------------------
(* The machine *)

\* A child exits by itself.
ChildExits(l) ==
    /\ \/ gateway[l] \in {"loading", "serving"} /\ UNCHANGED tunnel
          /\ gateway' = [gateway EXCEPT ![l] = "gone"]
       \/ tunnel[l] = "running" /\ UNCHANGED gateway
          /\ tunnel' = [tunnel EXCEPT ![l] = "gone"]
    /\ UNCHANGED <<installed, step, children, lock, session, stopper, fate>>

\* The launcher is killed outright; the kernel releases its lock.
Kill(l) ==
    /\ Live(l) /\ Goto(l, "gone") /\ Befalls(l, "killed")
    /\ lock' = IF lock = l THEN NoLauncher ELSE lock
    /\ UNCHANGED <<installed, gateway, tunnel, children, session, stopper>>

LauncherStep(l) ==
    \/ WriteStarting(l) \/ SpawnGateway(l) \/ ListGateway(l) \/ SpawnTunnel(l)
    \/ ListTunnel(l) \/ SeePublic(l) \/ Announce(l) \/ GiveUp(l) \/ CloseChild(l) \/ CloseSession(l)

PlaytestNext ==
    \/ Install \/ VerifyStop \/ Signal
    \/ \E l \in Launcher : \/ TakeLock(l) \/ LauncherStep(l) \/ Interrupt(l)
                           \/ GatewayBinds(l) \/ ChildExits(l) \/ Kill(l)

PlaytestSpec == PlaytestInit /\ [][PlaytestNext]_playtestVars

-----------------------------------------------------------------------------
\* A launcher that ran its cleanup leaves neither gateway nor tunnel behind,
\* whatever failed or was stopped at whatever moment, but for one case: a child
\* that was being started when the launcher was interrupted.  That one is not
\* in the list, and there is no other.  (A launcher that was killed, or
\* interrupted again in its cleanup, has not run it.)
NothingOutlives ==
    \A l \in Launcher :
      step[l] = "gone" /\ fate[l] \notin {"killed", "cut"} =>
        /\ fate[l] # "missed" => Runs(l) = {}
        /\ Runs(l) \cap children[l] = {}
        /\ "gateway" \notin children[l] => "tunnel" \notin Runs(l)

\* docs/playtesting.md:57 says that the launcher a stop signals closes its
\* gateway and its tunnel, and so does Ctrl+C.  It does not always: see above.
LinkIsClosed ==
    \A l \in Launcher : step[l] = "gone" /\ fate[l] # "killed" => Runs(l) = {}

\* The state file is its owner's: while a launcher works nobody else writes
\* it, and a tunnel is only opened once the launcher's own gateway has served,
\* never for one that a killed launcher left on the port.
SessionIsOwners ==
    \A l \in Launcher :
      /\ Live(l) => lock = l
      /\ step[l] \in {"opening", "tunnel", "announce", "ready", "closing"}
           => session.owner = l
      /\ step[l] \in {"opening", "tunnel", "announce", "ready"}
           => gateway[l] \in {"serving", "gone"}

\* A session has one owner from its lock to its last child.
SessionIsWhole == PlaytestTypeOK /\ NothingOutlives /\ SessionIsOwners
=============================================================================
