------------------------------ MODULE MCManifest ------------------------------
EXTENDS Manifest, TLC
Ref(p) == [path |-> p, artifact |-> p]
Art(p, n, b) == [path |-> p, id |-> p, sha |-> p, meshes |-> n, textured |-> n,
              bones |-> b]
Act(id, n, p, hair, sockets, ms) ==
    [id |-> id, number |-> n, forward |-> "-Z", model |-> Ref(p),
     hair |-> hair, sockets |-> sockets, motions |-> ms]
ClipAs(a, w) == [action |-> a, clip |-> a, wave |-> w]
ItemAs(id, v, p, power) ==
    [id |-> id, vnum |-> v, model |-> Ref(p), power |-> power]
RowAs(id, v, kind, power) ==
    [id |-> id, vnum |-> v, kind |-> kind, class |-> "sword", power |-> power]
BaseManifest ==
    [shaped |-> TRUE, unknown |-> FALSE, adapted |-> "event", gameplay |-> 1,
     artifacts |-> <<Art("w", 4, 2), Art("d", 1, 1), Art("s", 1, 0),
                    Art("s11", 1, 0)>>,
     actors |-> <<Act("warrior", 0, "w", "whole", {"hand"},
                      <<ClipAs("hit", "none"), ClipAs("last", "exact")>>),
                  Act("dog", 101, "d", "absent", {},
                      <<ClipAs("bite", "none")>>)>>,
     items |-> <<ItemAs("sword", 10, "s", 13),
                ItemAs("sword11", 11, "s11", 20)>>,
     rows |-> <<RowAs("sword", 10, "weapon", 13),
                RowAs("sword11", 11, "weapon", 20),
                RowAs("potion", 27001, "potion", 0)>>]
Manifests ==
    LET B == BaseManifest
    IN {B, [B EXCEPT !.unknown = TRUE], [B EXCEPT !.adapted = "absent"],
        [B EXCEPT !.adapted = "null", !.actors[1].motions[2].wave = "none"],
        [B EXCEPT !.adapted = "absent", !.actors[1].motions[2].wave = "none"],
        [B EXCEPT !.actors[1].motions[1].wave = "exact"],
        [B EXCEPT !.actors[1].motions[2].wave = "loose"],
        [B EXCEPT !.actors[1].motions = Append(@, @[2])],
        [B EXCEPT !.actors[1].motions = <<>>, !.adapted = "absent"],
        [B EXCEPT !.actors[1].hair = "float"],
        [B EXCEPT !.actors[2].hair = "whole"],
        [B EXCEPT !.actors[2].sockets = {"x"}],
        [B EXCEPT !.actors[2].model.artifact = "w"],
        [B EXCEPT !.actors[2].id = "warrior"],
        [B EXCEPT !.items[2].power = 21], [B EXCEPT !.items[2].vnum = 12],
        [B EXCEPT !.items[2].model = Ref("s")],
        [B EXCEPT !.items[2].model = Ref("other"),
                  !.artifacts[4] = Art("other", 1, 0)],
        [B EXCEPT !.items[2].model.artifact = "s"],
        [B EXCEPT !.items = Append(@, ItemAs("sword11", 11, "s12", 20)),
                  !.artifacts = Append(@, Art("s12", 1, 0))],
        [B EXCEPT !.items = Append(@, ItemAs("sword11", 11, "s11", 20))],
        [B EXCEPT !.items = <<@[1]>>], [B EXCEPT !.items = <<@[2]>>],
        [B EXCEPT !.artifacts = Append(@, Art("s12", 1, 0))],
        [B EXCEPT !.artifacts[1].meshes = 3],
        [B EXCEPT !.artifacts[2].bones = 0],
        [B EXCEPT !.rows = Append(@, RowAs("fan", 7000, "weapon", 9))],
        [B EXCEPT !.rows = Append(@, RowAs("sword11", 11, "weapon", 20))]}
Packed == [p \in {"w", "d", "s", "s11", "s12", "other", "npc", "char"} |->
    [meshes |-> IF p = "w" THEN 4 ELSE 1,
     textured |-> IF p = "w" THEN 4 ELSE 1,
     skinned |-> IF p = "w" THEN 4 ELSE 1,
     bones |-> CASE p = "w" -> {"hand", "root"}
                [] p \in {"d", "char"} -> {"root"}
                [] OTHER -> {},
     clips |-> CASE p = "w" -> {"hit", "last"} [] p = "d" -> {"bite"}
                 [] p = "char" -> {"walk"} [] OTHER -> {}]]
Npc(still, clips) == [path |-> "npc", still |-> still, clips |-> clips]
Char(n) == [path |-> "char", sockets |-> {"root"}, name |-> n,
            motions |-> <<[clip |-> "walk"]>>]
Catalogue(h, of) == [expected |-> "of", is |-> h, of |-> of]
Catalogues(h, npc) ==
    [npcs |-> Catalogue("of", {npc}),
     characters |-> Catalogue("of", {Char(n) : n \in 1 .. 8}),
     targets |-> Catalogue(h, {Char(1)})]
Shipment(m, server, model, cats, paths, probe) ==
    [manifest |-> m, source |-> [p \in DOMAIN Packed |-> p],
     server |-> server, model |-> model, catalogues |-> cats, paths |-> paths,
     probe |-> probe, maps |-> {"map"}]
Srv(m) == [gameplay |-> 1, rows |-> m.rows]
Shipped == Catalogues("of", Npc(TRUE, {}))
OfBase(server, model, cats, paths, probe) ==
    Shipment(BaseManifest, server, model, cats, paths, probe)
ShipmentChoices ==
    {Shipment(m, Srv(m), Packed, Shipped, {"map"}, FALSE) : m \in Manifests}
    \cup {OfBase(Srv(BaseManifest), [Packed EXCEPT !["w"].clips = c], cats, p,
                 probe) :
            c \in {{"hit"}, {"hit", "last", "more"}},
            p \in SUBSET {"map", "private", "probe"}, probe \in BOOLEAN,
            cats \in {Shipped, Catalogues("none", Npc(TRUE, {})),
                     Catalogues("of", Npc(FALSE, {"idle"}))}}
    \cup {OfBase(Srv(BaseManifest), Restrict(Packed, DOMAIN Packed \ {p}),
                 Shipped, {"map"}, FALSE) : p \in {"w", "s11", "npc", "char"}}
    \cup {OfBase([Srv(BaseManifest) EXCEPT !.gameplay = g], Packed, Shipped,
                 {"map"}, FALSE) : g \in {1, 2}}
Paths == [warrior |-> "w", dog |-> "d", sword |-> "s"]
=============================================================================
