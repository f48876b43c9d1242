------------------------------ MODULE MCCombo ------------------------------
(* What one character has under way, for TLC: its target and sword combo,    *)
(* its charge with the potions that pay for it, its buffs.  The rows are     *)
(* other tables of the same character: a behaviour exercises one of them.    *)
EXTENDS Combo, Effects

VARIABLE exercised

\* One window opens before a queued link falls due, the other after it.
Windows == {<<1, 2>>, <<3, 3>>}

CharacterInit ==
    /\ Init /\ EffectsInit
    /\ exercised \in {"combo", "charge", "buffs"}
    /\ (exercised # "combo") => weapon = None

CharacterNext ==
    /\ UNCHANGED exercised
    /\ IF exercised = "combo" THEN Next ELSE UNCHANGED vars
    /\ IF exercised # "combo" THEN EffectsNext ELSE UNCHANGED effectVars
    /\ (exercised # "charge") => UNCHANGED <<charging, queued, healing>>
    /\ (exercised # "buffs") => UNCHANGED buffing

CharacterSpec == CharacterInit /\ [][CharacterNext]_<<vars, effectVars, exercised>>
=============================================================================
