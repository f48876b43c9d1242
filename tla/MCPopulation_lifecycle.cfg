SPECIFICATION Spec
CONSTANTS
    Build = {"full", "part", "other"}
    Registry <- Registries
    Spawns <- Homes
    Mobs <- Species
    CorpseTime = 1
    MaxJitter = 1
    MaxKills = 2
    NoBuild = NoBuild
    Watched = {1, 2, 3}
INVARIANTS CapacityIsHeld FreezeIsExplained
PROPERTIES Repopulates
