------------------------------ MODULE MCCombat ------------------------------
(* Instances of Combat.                                                      *)
EXTENDS Combat, TLC

CONSTANTS p1, p2, m1, m2

OnePlayer == {p1}
TwoPlayers == {p1, p2}
OneMonster == {m1}
TwoMonsters == {m1, m2}
Rolls == {1}
Overkill == {2}

Interchangeable == Permutations(Player) \cup Permutations(Monster)
=============================================================================
