SPECIFICATION QuestFairSpec
CONSTANTS
    Nothing = Nothing
    Dogs = 2
    MaxLevel = 4
    MaxStateEnters = 13
    Operator = {TRUE, FALSE}
INVARIANTS RewardsArePaid ProgressIsCurrent
PROPERTIES ExpiredIsRemoved
