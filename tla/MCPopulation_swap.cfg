SPECIFICATION Spec
CONSTANTS
    Build = {"full", "rest"}
    Registry <- Registries
    Spawns <- Homes
    Mobs <- Species
    CorpseTime = 1
    MaxJitter = 1
    MaxKills = 2
    NoBuild = NoBuild
    Watched = {1, 2, 3}
INVARIANTS WorldKeepsRunning

