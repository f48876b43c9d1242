------------------------------- MODULE Deploy -------------------------------
(* Deploying a release: the checks of the workstation before anything is     *)
(* sent, and the script on the host that replaces the services, publishes    *)
(* the module and switches the Web client, or puts back what ran before.     *)
(*                                                                           *)
(* Source: tools/deploy.py and deploy/apply.sh (with set -e: any command may *)
(* fail, and then finish runs).  Deployments of several releases may run at  *)
(* once on one host.  A release stands for its module, images, configuration *)
(* and Web client; the workstation's export does not change while deploy.py  *)
(* runs, and the commands of finish succeed.  The contents of the data       *)
(* volumes, certificates, ports and the firewall are left out.               *)
EXTENDS Integers, FiniteSets, TLC

CONSTANTS
    Release,    \* what may be deployed, each once
    Build,      \* release -> the export and module it is made from
    NoRelease

Service == {"db", "auth"}

ASSUME DeployAssumption ==
    DOMAIN Build = Release /\ NoRelease \notin Release

VARIABLES
    phase,      \* release -> the phase its deployment is in
    deploying,  \* who holds deployment.lock
    image,      \* service -> the image tagged for it
    container,  \* service -> [image, running] of its container
    runtime,    \* compose.yaml, the auth inputs and mt2_server.wasm
    conf,       \* nginx.conf and .env on disk
    published,  \* database -> the module that runs in it
    web,        \* web/current
    proxy,      \* the configuration the Web container runs with
    attempt     \* the variables of the running or last apply.sh

host == <<image, container, runtime, conf, published, web, proxy>>
deployVars == <<phase, deploying, host, attempt>>

DatabaseOf(r) == Build[r].database
Databases == {DatabaseOf(r) : r \in Release}
Phase == {"local", "staged", "preflight", "validating", "building",
          "backing-up", "stopped", "installing", "starting-database",
          "starting-auth", "publishing", "activating-web", "switched",
          "announcing", "ready", "failed"}
Absent == [image |-> NoRelease, running |-> FALSE]
HostNow == [image |-> image, container |-> container, runtime |-> runtime,
            conf |-> conf, published |-> published, web |-> web,
            proxy |-> proxy]
NoAttempt == [release |-> NoRelease, old |-> HostNow, changed |-> FALSE,
              stopped |-> {}, recover |-> TRUE, switched |-> FALSE]

DeployTypeOK ==
    LET maybe == Release \cup {NoRelease}
    IN /\ phase \in [Release -> Phase] /\ deploying \in maybe
       /\ image \in [Service -> maybe]
       /\ container \in [Service -> [image : maybe, running : BOOLEAN]]
       /\ {runtime, conf, web, proxy} \subseteq maybe
       /\ published \in [Databases -> maybe]
       /\ attempt.release \in maybe /\ attempt.stopped \subseteq Service

DeployInit ==
    /\ phase = [r \in Release |-> "local"] /\ deploying = NoRelease
    /\ image = [s \in Service |-> NoRelease]
    /\ container = [s \in Service |-> Absent]
    /\ runtime = NoRelease /\ conf = NoRelease
    /\ web = NoRelease /\ proxy = NoRelease
    /\ published = [d \in Databases |-> NoRelease]
    /\ attempt = NoAttempt

-----------------------------------------------------------------------------
(* deploy.py *)

\* Every published byte is in the manifest of an audited Web export; a test
\* build has to be allowed.
ValidateWebBuild(b, allowTest) ==
    b.web = "intact" /\ b.audit = b.probe /\ (b.probe => allowTest)

\* Exactly one pair of connection defaults can be read from the pack, and it
\* names the database that is deployed.
ReadPackConfigFault(b) == b.packaged # NoRelease

ReadPackConfig(b) == b.packaged # NoRelease /\ b.packaged = b.database

\* What the module says of its regeneration entries: none, some or nothing.
RegistryReceipt(b, acknowledged) ==
    b.registry = "empty" => acknowledged

\* Only ordinary files of the reviewed list.
StageAuth(b) == b.auth = "ordinary"

Main(r) ==
    /\ phase[r] = "local"
    /\ \E allowTest, allowEmpty, reset \in BOOLEAN :
         LET b == Build[r]
         IN /\ ValidateWebBuild(b, allowTest)
            /\ ReadPackConfig(b)
            /\ RegistryReceipt(b, allowEmpty \/ reset)
            /\ StageAuth(b)
    /\ phase' = [phase EXCEPT ![r] = "staged"]
    /\ UNCHANGED <<deploying, host, attempt>>

-----------------------------------------------------------------------------
(* apply.sh *)

Enters(r, p) == phase' = [phase EXCEPT ![r] = p]

\* The lock is tried before anything is recorded.
LockDeployment(r) ==
    /\ deploying = NoRelease /\ phase[r] = "staged" /\ deploying' = r
    /\ Enters(r, "preflight")
    /\ attempt' = [NoAttempt EXCEPT !.release = r] /\ UNCHANGED host

\* The runtime is copied to the backup; candidate images replace the tags.
BuildImages(r) ==
    /\ deploying = r
    /\ \/ phase[r] = "preflight" /\ Enters(r, "validating")
          /\ image' = [image EXCEPT !["db"] = r]
       \/ phase[r] = "validating" /\ Enters(r, "backing-up")
          /\ image' = [image EXCEPT !["auth"] = r]
    /\ UNCHANGED <<deploying, container, runtime, conf, published, web, proxy,
                   attempt>>

\* An existing service is stopped before its data is copied.
StopService(r, s) ==
    /\ deploying = r
    /\ <<phase[r], s>> \in {<<"backing-up", "db">>, <<"stopped", "auth">>}
    /\ Enters(r, IF s = "db" THEN "stopped" ELSE "installing")
    /\ LET exists == attempt.old.container[s] # Absent
       IN /\ container' = [container EXCEPT ![s].running = @ /\ ~exists]
          /\ attempt' = [attempt EXCEPT !.stopped =
                           IF exists THEN @ \cup {s} ELSE @]
    /\ UNCHANGED <<deploying, image, runtime, conf, published, web, proxy>>

InstallRuntime(r) ==
    /\ deploying = r /\ phase[r] = "installing"
    /\ Enters(r, "starting-database")
    /\ runtime' = r /\ conf' = r
    /\ attempt' = [attempt EXCEPT !.changed = TRUE]
    /\ UNCHANGED <<deploying, image, container, published, web, proxy>>

\* The candidate answers and holds the same keys; once auth runs too the
\* deployment goes forward only.
StartService(r, s) ==
    /\ deploying = r
    /\ <<phase[r], s>> \in {<<"starting-database", "db">>,
                            <<"starting-auth", "auth">>}
    /\ Enters(r, IF s = "db" THEN "starting-auth" ELSE "publishing")
    /\ container' =
         [container EXCEPT ![s] = [image |-> image[s], running |-> TRUE]]
    /\ attempt' = [attempt EXCEPT !.stopped = @ \ {s}, !.recover = s = "db"]
    /\ UNCHANGED <<deploying, image, runtime, conf, published, web, proxy>>

PublishModule(r) ==
    /\ deploying = r /\ phase[r] = "publishing" /\ Enters(r, "activating-web")
    /\ published' = [published EXCEPT ![DatabaseOf(r)] = runtime]
    /\ UNCHANGED <<deploying, image, container, runtime, conf, web, proxy,
                   attempt>>

ActivateWeb(r) ==
    /\ deploying = r /\ phase[r] = "activating-web" /\ Enters(r, "switched")
    /\ web' = r /\ proxy' = conf
    /\ attempt' = [attempt EXCEPT !.switched = TRUE]
    /\ UNCHANGED <<deploying, image, container, runtime, conf, published>>

\* Health, discovery, the database route and the served manifest are checked:
\* from here on the Web client stays, also when a command still fails.
KeepWeb(r) ==
    /\ deploying = r /\ phase[r] = "switched" /\ Enters(r, "announcing")
    /\ attempt' = [attempt EXCEPT !.switched = FALSE]
    /\ UNCHANGED <<deploying, host>>

\* The phase is written and the result printed, and the script is over.
Ready(r) ==
    /\ deploying = r /\ phase[r] = "announcing" /\ Enters(r, "ready")
    /\ deploying' = NoRelease
    /\ UNCHANGED <<host, attempt>>

\* Image tags come back until publication begins.
RestoredImagesFault == image

RestoredImages ==
    [s \in Service |->
       IF attempt.recover /\ attempt.old.container[s] # Absent
       THEN attempt.old.container[s].image ELSE image[s]]

\* Before publication the old executables and configuration are brought up
\* again; a service that was only stopped is started.
RestoresRuntime ==
    attempt.changed /\ attempt.recover /\ attempt.old.runtime # NoRelease

RestoredContainers ==
    [s \in Service |->
       LET had == attempt.old.container[s] # Absent
       IN IF ~RestoresRuntime
          THEN [container[s] EXCEPT !.running = @ \/ s \in attempt.stopped]
          ELSE IF s = "db" \/ had
          THEN [image |-> RestoredImages[s], running |-> TRUE]
          ELSE [container[s] EXCEPT !.running = FALSE]]

\* finish: some command failed, possibly after part of the next step.
RollsWebBack == attempt.switched /\ attempt.old.web # NoRelease

FinishFailed(r) ==
    /\ deploying = r /\ deploying' = NoRelease /\ Enters(r, "failed")
    /\ image' = RestoredImages /\ container' = RestoredContainers
    /\ runtime' = IF RestoresRuntime THEN attempt.old.runtime ELSE runtime
    /\ conf' = IF RestoresRuntime \/ RollsWebBack THEN attempt.old.conf
               ELSE conf
    /\ web' = IF RollsWebBack THEN attempt.old.web ELSE web
    /\ proxy' = IF RollsWebBack THEN attempt.old.conf ELSE proxy
    /\ UNCHANGED <<published, attempt>>

\* The host restarts between deployments: the Web container reads its
\* configuration again.
Reboot ==
    /\ deploying = NoRelease /\ web # NoRelease /\ proxy' = conf
    /\ UNCHANGED <<phase, deploying, image, container, runtime, conf,
                   published, web, attempt>>

DeployNext ==
    \/ Reboot
    \/ \E r \in Release :
         \/ Main(r) \/ LockDeployment(r) \/ BuildImages(r) \/ InstallRuntime(r)
         \/ PublishModule(r) \/ ActivateWeb(r) \/ KeepWeb(r) \/ Ready(r)
         \/ FinishFailed(r)
         \/ \E s \in Service : StopService(r, s) \/ StartService(r, s)

DeploySpec == DeployInit /\ [][DeployNext]_deployVars

-----------------------------------------------------------------------------
Latest == attempt.release

\* What is served is one release throughout: services, module, configuration
\* and the Web client, which was packaged for that database.
Serves(r) ==
    /\ {runtime, conf, web, proxy, published[DatabaseOf(r)]} = {r}
    /\ \A s \in Service : container[s] = [image |-> r, running |-> TRUE]
    /\ Build[r].packaged = DatabaseOf(r)

\* A deployment that failed before publication has left everything that ran
\* before it, images and configuration included, running as it was; and any
\* failure leaves the Web client that was served before, or else, if only the
\* announcement failed, the whole new release.
FailureRestores ==
    (Latest # NoRelease /\ deploying = NoRelease /\ phase[Latest] = "failed") =>
      /\ attempt.recover /\ (\A s \in Service : attempt.old.container[s].running) =>
           /\ image = attempt.old.image /\ container = attempt.old.container
           /\ runtime = attempt.old.runtime /\ conf = attempt.old.conf
           /\ published = attempt.old.published
      /\ attempt.old.web # NoRelease => web = attempt.old.web \/ Serves(Latest)

\* What is announced as ready is one release throughout.
ReadyIsOneRelease ==
    (Latest # NoRelease /\ phase[Latest] = "ready") => Serves(Latest)

\* A deployment is done or undone as a whole.
DeployIsWhole == DeployTypeOK /\ FailureRestores /\ ReadyIsOneRelease

\* The checksum of mt2_server.wasm on the host binds the published bytes.  The
\* code does not keep this: a failed publication may have taken effect, and the
\* releases of two databases share the file.
RuntimeBindsPublished ==
    (deploying = NoRelease /\ runtime # NoRelease) =>
      published[DatabaseOf(runtime)] = runtime
=============================================================================
