SPECIFICATION Spec
CONSTANTS
    p1 = p1
    p2 = p2
    m1 = m1
    m2 = m2
    None = None
    Player <- TwoPlayers
    Monster <- OneMonster
    Roll <- Rolls
    PlayerHealth = 1
    MonsterHealth = 3
    Start = 1
    Until = 2
    Duration = 2
    Cooldown = 2
    MobStart = 0
    MobUntil = 3
    MobDuration = 3
    MobCooldown = 3
    Shield = 1
    PlayerRespawn = 1
    MonsterRespawn = 2
    Reserved = 1
    Expires = 2
    MaxTime = 4
    MaxConn = 2
SYMMETRY Interchangeable
INVARIANTS OneRewardPerLife RewardsAreEarned
PROPERTY HitsAreSpaced
