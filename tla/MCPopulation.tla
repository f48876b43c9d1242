---------------------------- MODULE MCPopulation ----------------------------
(* Instances of Population for TLC.                                          *)
EXTENDS Population, TLC

\* Entry 1 spawns a fixed pair; entry 2 places up to one monster, or none.
Pair == [interval |-> 2, capacity |-> 1, sizes |-> {2}, mobs |-> {"wolf"}]
Area == [interval |-> 1, capacity |-> 2, sizes |-> {0, 1}, mobs |-> {"bear"}]

\* "full" covers both entries.  "other" and "part" cover one each: to maintain
\* they are the same.  "other" has less room for its entry, no authored monster
\* and no dogs, "part" has no bears; "rest" is "full" without the first entry.
Registries ==
    ("full" :> (1 :> Pair @@ 2 :> Area)) @@
    ("part" :> (1 :> Pair)) @@
    ("other" :> (2 :> [Area EXCEPT !.capacity = 1])) @@
    ("rest" :> (2 :> Area))

\* An authored dog stands at its home.
Homes == [b \in Build |-> IF b = "other" THEN << >> ELSE 1 :> "dog at home"]

Species ==
    [b \in Build |-> {"wolf"} \cup (IF b = "other" THEN {} ELSE {"dog"})
                              \cup (IF b = "part" THEN {} ELSE {"bear"})]
=============================================================================
