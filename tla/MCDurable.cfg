SPECIFICATION Spec
CONSTANTS
    MaxHeight = 3
    MaxSlot = 2
    MaxChallenges = 2
INVARIANTS
    HomeMirrorsMemory
    CrashIsSurvivable
    CreditsAreBacked
    HeadersFollowRings
PROPERTIES
    ResumeIsPast
CHECK_DEADLOCK FALSE
