---------------------------- MODULE ClientEffects ----------------------------
(* The effects of a client, which three tools make that share no file: the   *)
(* build and release of a client with its candidates, the converter of the   *)
(* effects of a selected target with its exporter, and the tools for the     *)
(* effects of motions.  Each takes its steps whatever the others do.         *)
EXTENDS Release, TargetEffects, MotionEffects

EffectTools == ReleaseSpec /\ TargetSpec /\ MotionSpec

\* The effects of a client, in all three tools that handle them: a release has
\* one set of them (target_effect_export.py, export_playable.py), what is shown
\* of a target effect is the original's frame (import_target_effects.py), and
\* what is shown with a motion is for exactly the motions of the skills, with
\* its bones, its times and its own pixels
\* (motion_effects.py, build_motion_effect_catalog.py).
ShippedEffectsAreWhole == EffectsAreTheirs /\ ShownIsConverted /\ MotionEffectsAreWhole
=============================================================================
