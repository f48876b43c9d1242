SPECIFICATION Spec
CONSTANTS
    sword = sword
    potion = potion
    Vnum = {sword, potion}
    Weapon = {sword}
    StarterWeapon = sword
    Potion = potion
    Height <- Heights
    Limit <- Limits
    Reserved = 1
    Expires = 2
    Character = {p1}
    StarterPotions = 1
    Pages = 2
    Rows = 2
    Columns = 1
    MaxRevision = 3
    Rewards <- Rewards1
    Quests = TRUE
    MaxItem = 4
    MaxDrop = 1
    MaxTime = 0
INVARIANTS InventoryIsSound
PROPERTIES RevisionAdvances
