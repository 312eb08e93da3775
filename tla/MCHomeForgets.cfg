SPECIFICATION Spec
CONSTANTS
    MaxHeight = 2
    MaxSlot = 2
    MaxChallenges = 0
INVARIANTS
    SameOrganism
CHECK_DEADLOCK FALSE
