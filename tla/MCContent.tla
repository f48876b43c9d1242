------------------------------ MODULE MCContent ------------------------------
(* The way of the original game's data into a client, for TLC: the archive,  *)
(* the drop tables, the item tables and the scripts are read, a profile is   *)
(* built, effects are converted, a release is put together and audited.      *)
(* The tools share no state: a behaviour exercises one, on each of its       *)
(* inputs, and the others are given nothing and do nothing.                  *)
EXTENDS MCTables, MCScripts, MCArchive, MCProfile, MCManifest,
        MCEffectTools, ClientEffects

VARIABLE exercised

GameplayChoice == <<1, 1, 2>>
GeometryChoice == <<1, 2, 2>>
ProjectChoices == {[characters |-> 1, skills |-> 1, motion |-> <<1, 1>>],
                   [characters |-> 1, skills |-> 1, motion |-> <<1, 2>>]}
CandidateChoices == {[skills |-> 2, motion |-> <<1, 2>>],
                     [skills |-> 1, motion |-> <<2, 1>>]}

\* A tool that is not exercised has nothing to read.
Inputs(of, all) == IF exercised = of THEN all ELSE {<<>>}

Init ==
    /\ exercised \in {"archive", "drops", "items", "scripts", "profile",
                      "release", "manifest", "targets", "motions"}
    /\ archive \in Inputs("archive", Archives)
    /\ cached \in Inputs("archive", Caches) /\ ArchiveStart
    /\ tables \in Inputs("drops", DropSources) /\ DropsStart
    /\ itemSource \in Inputs("items", ItemSources) /\ ItemsStart
    /\ script \in Inputs("scripts", ScriptTexts) /\ ScriptsStart
    /\ given \in Inputs("profile", Profiles) /\ PayloadsStart
    /\ project \in Inputs("release", Projects) /\ ReleaseStart
    /\ shipment \in Inputs("manifest", Shipments) /\ ManifestStart
    /\ origin \in Inputs("targets", EffectSources) /\ TargetStart
    /\ work \in Inputs("motions", EffectWorks) /\ MotionStart

\* Each tool takes its steps when it is exercised, and otherwise none.
Next ==
    /\ UNCHANGED exercised
    /\ IF exercised = "archive" THEN ArchiveNext ELSE UNCHANGED archiveVars
    /\ IF exercised = "drops" THEN DropsNext ELSE UNCHANGED dropVars
    /\ IF exercised = "items" THEN ItemsNext ELSE UNCHANGED itemVars
    /\ IF exercised = "scripts" THEN ScriptsNext ELSE UNCHANGED scriptVars
    /\ IF exercised = "profile" THEN PayloadsNext ELSE UNCHANGED payloadVars
    /\ IF exercised = "release" THEN ReleaseNext ELSE UNCHANGED releaseVars
    /\ IF exercised = "manifest" THEN ManifestNext ELSE UNCHANGED shipmentVars
    /\ IF exercised = "targets" THEN TargetNext ELSE UNCHANGED targetVars
    /\ IF exercised = "motions" THEN MotionNext ELSE UNCHANGED motionVars

allVars == <<archiveVars, dropVars, itemVars, scriptVars, payloadVars,
             releaseVars, shipmentVars, targetVars, motionVars, exercised>>
Spec == Init /\ [][Next]_allVars
=============================================================================
