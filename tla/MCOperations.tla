---------------------------- MODULE MCOperations ----------------------------
(* The tools of whoever operates the game, for TLC: reclaiming storage, the  *)
(* shared playtest with its gateway, and deployment.  They share no state,   *)
(* so a behaviour exercises one of them; the others stay where they began.   *)
EXTENDS StorageCleanup, Playtest, Gateway, Deploy

VARIABLE exercised

\* One database of somebody else; one whose name is kept, and is its only one.
Names == [i \in Identity |-> IF i = "b" THEN "kept" ELSE "run"]

\* Two launchers of one database: what one leaves behind answers the other.
SharedDatabases == [l \in Launcher |-> "d1"]

\* Three good releases, the second for another database, and one whose pack
\* was exported for another database than it is deployed to.
Good(d) == [web |-> "intact", probe |-> FALSE, audit |-> FALSE, packaged |-> d,
            database |-> d, registry |-> "some", auth |-> "ordinary"]
Builds == "r1" :> Good("d1") @@ "r2" :> Good("d2") @@
          "r3" :> [Good("d1") EXCEPT !.probe = TRUE, !.audit = TRUE,
                                     !.registry = "empty"] @@
          "r4" :> [Good("d1") EXCEPT !.packaged = "d2"]

rest == <<storageVars, playtestVars, gatewayVars, deployVars>>
allVars == <<rest, exercised>>

Init == /\ StorageInit /\ PlaytestInit /\ GatewayInit /\ DeployInit
        /\ exercised \in {"storage", "playtest", "gateway", "deploy"}

Next ==
    /\ UNCHANGED exercised
    /\ \/ /\ exercised = "storage" /\ StorageNext
          /\ UNCHANGED <<playtestVars, gatewayVars, deployVars>>
       \/ /\ exercised = "playtest" /\ PlaytestNext
          /\ UNCHANGED <<storageVars, gatewayVars, deployVars>>
       \/ /\ exercised = "gateway" /\ GatewayNext
          /\ UNCHANGED <<storageVars, playtestVars, deployVars>>
       \/ /\ exercised = "deploy" /\ DeployNext
          /\ UNCHANGED <<storageVars, playtestVars, gatewayVars>>

Spec == /\ Init /\ [][Next]_allVars
        /\ \A c \in Connection : WF_gatewayVars(Handle(c))
=============================================================================
