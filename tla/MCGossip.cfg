SPECIFICATION Spec
CONSTANTS
    Node = {a, b}
    Slots = 3
    Draws <- AllDraws
    MaxFaults = 2
INVARIANTS
    ProofsAgree
    HeadersAgree
    OneChain
CHECK_DEADLOCK FALSE
