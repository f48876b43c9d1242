SPECIFICATION QuestSpec
CONSTANTS
    Nothing = Nothing
    Dogs = 2
    MaxLevel = 4
    MaxStateEnters = 13
    Operator = {FALSE}
INVARIANT RewardOnce
