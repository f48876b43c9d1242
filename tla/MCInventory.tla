---------------------------- MODULE MCInventory ----------------------------
(* Instances of Inventory for TLC.                                           *)
EXTENDS Inventory, TLC

CONSTANTS sword, potion

Characters == Permutations(Character)

Heights == (sword :> 2) @@ (potion :> 1)
Limits == (sword :> 1) @@ (potion :> 2)

\* Rewards that fill stacks, overflow them, or need two cells in a column.
Rewards1 == {<<potion, 3>>, <<sword, 1>>}
Rewards2 == {<<potion, 2>>}
=============================================================================
