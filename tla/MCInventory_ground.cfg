SPECIFICATION Spec
CONSTANTS
    sword = sword
    potion = potion
    Vnum = {sword, potion}
    Weapon = {sword}
    StarterWeapon = sword
    Potion = potion
    Height <- Heights
    Limit <- Limits
    Reserved = 1
    Expires = 2
    Character = {p1, p2}
    StarterPotions = 1
    Pages = 1
    Rows = 3
    Columns = 1
    MaxRevision = 2
    Rewards <- Rewards2
    Quests = FALSE
    MaxItem = 4
    MaxDrop = 2
    MaxTime = 2
INVARIANTS GoodsAreAccountedFor
SYMMETRY Characters
