--------------------------- MODULE StorageCleanup ---------------------------
(* Reclaiming the storage of the local development server: obsolete database *)
(* entries are deleted while it runs, and the directories they used later,   *)
(* while it is stopped (or, with --force, although it is not), from a        *)
(* manifest written in between.                                              *)
(*                                                                           *)
(* Source: tools/storage_cleanup.py.  The tool is a process that takes its   *)
(* steps between those of the server and of whoever uses it: databases are   *)
(* published, removed by others, loaded again, and a directory number whose  *)
(* database is gone is given to a new one.  The tool sees the directories    *)
(* only through the server log, the listings and the files on disk.          *)
(*                                                                           *)
(* An identity stands for one database and is never used twice.  The server  *)
(* logs the launch of one database at a time, and nobody starts it by hand   *)
(* while directories are being removed.  A directory is removed in one step. *)
(* Sizes, dates and the wording of the reports are left out: a directory is  *)
(* young (within --keep-days) or old.                                        *)
EXTENDS Integers, Sequences

CONSTANTS
    Identity,       \* databases
    Mine,           \* those whose owner is the CLI identity
    NameOf,         \* the name an identity is published under
    Keep,           \* names that match a --keep pattern
    Dir,            \* numbers of replica directories, above 0
    MaxLog,         \* bound: lines of the server log
    MaxRuns,        \* bound: runs of the tool that change something
    DryManifests,   \* whether entries is given --manifest-out in a dry run
    NoIdentity

ASSUME StorageAssumption ==
    /\ Mine \subseteq Identity /\ DOMAIN NameOf = Identity
    /\ Dir \subseteq Nat \ {0} /\ MaxLog \in Nat /\ MaxRuns \in Nat
    /\ DryManifests \in BOOLEAN /\ NoIdentity \notin Identity

VARIABLES
    attached,   \* identities with an entry in the control database
    held,       \* directory -> the identity whose data it holds, or NoIdentity
    young,      \* directories that changed within --keep-days
    log,        \* lines of logs/spacetime-standalone.log
    listening,  \* whether the server answers
    identified, \* whether spacetime.pid names the server that listens
    manifest,   \* the entries of the removal manifest on disk
    tool,       \* the run of the tool in progress
    runs

server == <<listening, identified>>
world == <<attached, held, young, log, server>>
storageVars == <<world, manifest, tool, runs>>

LaunchLine(i, d) == [kind |-> "launch", identity |-> i, dir |-> d]
LockLine(d) == [kind |-> "lock", identity |-> NoIdentity, dir |-> d]
Record == [identity : Identity, dir : Dir]
NoOwners == [d \in Dir |-> NoIdentity]
Idle == [step |-> "idle", owned |-> {}, rows |-> {}, todo |-> {}, done |-> {},
         live |-> {}, owner |-> NoOwners, apply |-> FALSE, recipe |-> FALSE]

StorageTypeOK ==
    /\ attached \subseteq Identity /\ young \subseteq Dir
    /\ held \in [Dir -> Identity \cup {NoIdentity}]
    /\ Len(log) <= MaxLog /\ listening \in BOOLEAN
    /\ identified \in BOOLEAN
    /\ manifest \subseteq Record
    /\ tool.step \in {"idle", "snapshot", "delete", "write",
                      "stop", "scan", "remove", "start", "failed"}
    /\ tool.todo \cup tool.done \cup tool.rows \subseteq Record
    /\ tool.owned \cup tool.live \subseteq Identity

StorageInit ==
    /\ attached = {} /\ held = [d \in Dir |-> NoIdentity] /\ young = {}
    /\ log = <<>> /\ listening = TRUE /\ identified = TRUE
    /\ manifest = {} /\ tool = Idle /\ runs = 0

-----------------------------------------------------------------------------
(* What the tool computes from what it reads *)

\* A launch that opens a new replica logs directory 0 and the number on the
\* lock line that follows; later launches overwrite earlier ones.
AfterLine(was, line) ==
    IF line.kind = "launch"
    THEN IF line.dir = 0 THEN [was EXCEPT !.pending = line.identity]
         ELSE [pending |-> NoIdentity,
               owner |-> [was.owner EXCEPT ![line.dir] = line.identity]]
    ELSE IF was.pending = NoIdentity THEN was
         ELSE [pending |-> NoIdentity,
               owner |-> [was.owner EXCEPT ![line.dir] = was.pending]]

\* What is known after the lines of a log.
LinesRead(lines) ==
    LET read[n \in 0..Len(lines)] ==
          IF n = 0 THEN [pending |-> NoIdentity, owner |-> NoOwners]
          ELSE AfterLine(read[n - 1], lines[n])
    IN read[Len(lines)]
ReadReplicaIdentities == LinesRead(log).owner

\* spacetime list: the attached databases of the CLI identity.
OwnedNames == attached \cap Mine

\* spacetime describe answers 404 only if the identity is attached to nothing.
Probe(i) == i \notin attached

\* The directories on disk with the newest owner the log gives them.
BuildSnapshot == LET owner == ReadReplicaIdentities
                 IN {[dir |-> d, identity |-> owner[d]] :
                       d \in {e \in Dir : owner[e] # NoIdentity /\ held[e] # NoIdentity}}

RetentionReason(row, owned) ==
    \/ row.dir \in young
    \/ row.identity \in owned /\ NameOf[row.identity] \in Keep

\* Owned databases that nothing retains.
PlanEntries(rows, owned) ==
    {r \in rows : r.identity \in owned /\ ~RetentionReason(r, owned)}

\* Rows without an owned name whose probe finds no database.
Orphans(rows, owned) ==
    {r \in rows : /\ r.identity \notin owned /\ ~RetentionReason(r, owned)
                  /\ Probe(r.identity)}

-----------------------------------------------------------------------------
(* The server and its users (external) *)

\* A database is published: it takes a directory that is new or whose
\* database is gone.
Publish(i, d) ==
    /\ listening /\ Len(log) + 2 <= MaxLog
    /\ \A n \in 1..Len(log) : log[n].identity # i
    /\ \A j \in attached : NameOf[j] # NameOf[i]
    /\ held[d] \notin attached
    /\ attached' = attached \cup {i}
    /\ held' = [held EXCEPT ![d] = i] /\ young' = young \cup {d}
    /\ log' = log \o <<LaunchLine(i, 0), LockLine(d)>>
    /\ UNCHANGED <<server, manifest, tool, runs>>

\* The server loads a database it knows.
Relaunch(i, d) ==
    /\ listening /\ i \in attached /\ held[d] = i /\ Len(log) + 2 <= MaxLog
    /\ log' = log \o <<LaunchLine(i, d), LockLine(d)>>
    /\ UNCHANGED <<attached, held, young, server, manifest, tool, runs>>

\* Somebody deletes a database; its files stay.
Drop(i) ==
    /\ listening /\ attached' = attached \ {i} /\ i \in attached
    /\ UNCHANGED <<held, young, log, server, manifest, tool, runs>>

Age ==
    /\ young # {} /\ young' = {}
    /\ UNCHANGED <<attached, held, log, server, manifest, tool, runs>>

\* The operator stops or starts the server by hand, between runs.
Toggle ==
    /\ tool.step \in {"idle", "failed"} /\ listening' = ~listening
    /\ identified' \in IF listening THEN {FALSE} ELSE BOOLEAN
    /\ UNCHANGED <<attached, held, young, log, manifest, tool, runs>>

-----------------------------------------------------------------------------
(* The runs of the tool *)

Finish == tool' = Idle
Fail == tool' = [Idle EXCEPT !.step = "failed"]

\* main: entries and report ask for the owned names first; without a server
\* the command fails.
StartEntries ==
    /\ tool.step \in {"idle", "failed"} /\ listening /\ runs < MaxRuns
    /\ \E apply \in BOOLEAN :
         tool' = [tool EXCEPT !.step = "snapshot", !.owned = OwnedNames,
                              !.apply = apply]
    /\ runs' = runs + 1 /\ UNCHANGED <<world, manifest>>

\* run_entries, up to the plan; a probe that fails in any other way leaves its
\* directory out.  (report --orphan-manifest is the run whose plan is empty.)
TakeSnapshot ==
    /\ tool.step = "snapshot"
    /\ LET rows == BuildSnapshot
       IN \E orphans \in SUBSET Orphans(rows, tool.owned) :
            tool' = [tool EXCEPT !.step = "delete", !.done = {}, !.rows = orphans,
                                 !.todo = PlanEntries(rows, tool.owned)]
    /\ UNCHANGED <<world, manifest, runs>>

\* apply_entry_deletions: one record, by name; a dry run reports it as
\* deleted, a command that fails leaves it out.
DeleteEntry ==
    /\ tool.step = "delete"
    /\ \E r \in tool.todo :
         LET named == {i \in OwnedNames : NameOf[i] = NameOf[r.identity]}
         IN \/ /\ tool.apply => listening /\ named # {}
               /\ attached' = IF tool.apply THEN attached \ named ELSE attached
               /\ tool' = [tool EXCEPT !.todo = @ \ {r}, !.done = @ \cup {r}]
            \/ /\ tool.apply /\ UNCHANGED attached
               /\ tool' = [tool EXCEPT !.todo = @ \ {r}]
    /\ UNCHANGED <<held, young, log, server, manifest, runs>>

\* build_manifest over the deleted entries and the orphans.
WriteManifest ==
    /\ tool.step = "delete" /\ tool.todo = {}
    /\ manifest' = IF tool.apply \/ DryManifests
                   THEN tool.done \cup tool.rows ELSE manifest
    /\ Finish /\ UNCHANGED <<world, runs>>

\* run_files, up to the listening check.  Without --offline the live
\* identities are those the CLI identity owns; the query fails if the server
\* is down, and then nothing is known to be live.  A server that listens is
\* stopped (--restart-server), left to run (--force), or ends the command.
StartFiles ==
    /\ tool.step \in {"idle", "failed"} /\ runs < MaxRuns
    /\ \E offline, restart, force \in BOOLEAN :
         /\ listening => restart \/ force
         /\ tool' = [tool EXCEPT
                         !.step = IF listening /\ restart THEN "stop" ELSE "scan",
                         !.live = IF listening /\ ~offline THEN OwnedNames ELSE {}]
    /\ runs' = runs + 1 /\ UNCHANGED <<world, manifest>>

\* stop_standalone_server: only the process that serves this data directory
\* is signalled; it may fail to stop in time.
StopServer ==
    /\ tool.step = "stop"
    /\ \/ /\ identified /\ listening' = FALSE /\ identified' = FALSE
          /\ tool' = [tool EXCEPT !.step = "scan", !.recipe = TRUE]
       \/ Fail /\ UNCHANGED <<listening, identified>>
    /\ UNCHANGED <<attached, held, young, log, manifest, runs>>

\* remove_manifest_files reads the log once.
ScanLog ==
    /\ tool.step = "scan"
    /\ tool' = [tool EXCEPT !.step = "remove", !.owner = ReadReplicaIdentities,
                            !.todo = manifest]
    /\ UNCHANGED <<world, manifest, runs>>

\* The guards a record has to survive.
RemovableFault(r) == tool.owner[r.dir] # NoIdentity /\ held[r.dir] # NoIdentity

Removable(r) == /\ tool.owner[r.dir] = r.identity
                /\ r.identity \notin tool.live
                /\ held[r.dir] # NoIdentity

\* One record: skipped, removed, or the removal fails and ends the run.
RemoveFiles ==
    /\ tool.step = "remove"
    /\ \E r \in tool.todo :
         \/ /\ Removable(r) /\ held' = [held EXCEPT ![r.dir] = NoIdentity]
            /\ tool' = [tool EXCEPT !.todo = @ \ {r}]
         \/ ~Removable(r) /\ UNCHANGED held
            /\ tool' = [tool EXCEPT !.todo = @ \ {r}]
         \/ Removable(r) /\ Fail /\ UNCHANGED held
    /\ UNCHANGED <<attached, young, log, server, manifest, runs>>

\* Removal ended: a server this run stopped is started again, or reported.
FinishFilesFault ==
    /\ tool.step = "remove" /\ tool.todo = {} /\ Finish
    /\ UNCHANGED <<world, manifest, runs>>

FinishFiles ==
    /\ tool.step = "remove" /\ tool.todo = {}
    /\ \/ ~tool.recipe /\ Finish /\ UNCHANGED <<listening, identified>>
       \/ tool.recipe /\ listening' = TRUE /\ identified' = TRUE /\ Finish
       \/ tool.recipe /\ Fail /\ UNCHANGED <<listening, identified>>
    /\ UNCHANGED <<attached, held, young, log, manifest, runs>>

ToolStep == \/ TakeSnapshot \/ DeleteEntry \/ WriteManifest \/ StopServer
            \/ ScanLog \/ RemoveFiles \/ FinishFiles

StorageNext ==
    \/ \E i \in Identity, d \in Dir : Publish(i, d) \/ Relaunch(i, d)
    \/ \E i \in Identity : Drop(i)
    \/ Age \/ Toggle \/ StartEntries \/ StartFiles \/ ToolStep

StorageSpec == StorageInit /\ [][StorageNext]_storageVars

-----------------------------------------------------------------------------
\* With --force the server goes on while directories are removed, and a
\* database may be put in one after the run has read the log.
Overtaken(d) == listening /\ tool.owner[d] # held[d]

\* The files of a database that still has its entry are never removed,
\* whatever was published, dropped or put in a used directory between the
\* snapshot, the manifest and the removal; the one exception is a forced run
\* beside a running server, and then only a directory that was taken after that
\* run read the log.  No entry is deleted whose name is kept or whose owner is
\* somebody else.
RetainedSurvives ==
    [][/\ \A d \in Dir : held'[d] = NoIdentity => held[d] \notin attached \/ Overtaken(d)
       /\ \A i \in attached \ attached' :
            tool' # tool => i \in Mine /\ NameOf[i] \notin Keep]_storageVars

\* A server the tool stopped listens again when the run is over, unless the
\* run failed.
StoppedServerReturns ==
    [][tool.recipe /\ tool'.step = "idle" => listening']_storageVars

\* What is kept survives the tool, and the server it stopped comes back.
CleanupIsSafe ==
    []StorageTypeOK /\ RetainedSurvives /\ StoppedServerReturns
=============================================================================
