SPECIFICATION FairSpec
CONSTANTS
    p1 = p1
    p2 = p2
    m1 = m1
    m2 = m2
    None = None
    Player <- OnePlayer
    Monster <- TwoMonsters
    Roll <- Overkill
    PlayerHealth = 1
    MonsterHealth = 1
    Start = 1
    Until = 2
    Duration = 2
    Cooldown = 4
    MobStart = 3
    MobUntil = 4
    MobDuration = 4
    MobCooldown = 9
    Shield = 1
    PlayerRespawn = 1
    MonsterRespawn = 1
    Reserved = 0
    Expires = 0
    MaxTime = 5
    MaxConn = 2
INVARIANTS NoOrphanedHit
PROPERTIES NoStaleDamage TickSettles
