SPECIFICATION Spec
CONSTANTS
    Node = {a, b}
    Slots = 3
    Draws <- AllDraws
    MaxFaults = 0
INVARIANTS
    LedgersAgree
CHECK_DEADLOCK FALSE
