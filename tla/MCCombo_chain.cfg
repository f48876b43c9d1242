SPECIFICATION CharacterSpec
CONSTANTS
    Monster = {m1, m2}
    Weapon = {w1}
    None = None
    Pre = 0
    Direct = 1
    Limit = 2
    Duration = 4
    Last = 3
    HitWindow <- Windows
    Cooldown = 4
    Interval = 2
    MaxTime = 6
    MaxLife = 1
    Connection = {c1, c2}
    Buff = {b1, b2}
    Absent = Absent
    Second = 2
    FullHealth = 2
    FullSp = 2
    ChargeCost = 1
    ChargeTime = 2
    ChargeCooldown = 1
    BuffCost = 1
    BuffTicks = 2
    Gulp = 2
    Sip = 1
    RespawnTime = 1
    LastInstant = 5
    LastLife = 1
INVARIANTS ShownTargetIsLive LinkIsSound EffectsAreSound
PROPERTIES NoHitIsLost NoLinkIsLate TargetIsThePlayers EffectsAreHonest
