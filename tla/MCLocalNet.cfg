SPECIFICATION Spec
CONSTANTS
    h1 = h1
    h2 = h2
    h3 = h3
    w1 = w1
    k1 = k1
    x1 = x1
    z1 = z1
    SpaceShare = 5
    PinShare = 3
    ComputeShare = 3
    TreasuryShare = 1
    Treasury = "treasury"
    Homes <- MCHomes
    Sorted <- MCSorted
    Draws <- MCDraws
    Gap = 1
    Worker = {w1}
    Named <- MCNamed
    Pins = {k1}
    StoredAs <- MCStoredAs
    MaxSlot = 4
    RunLengths = {1, 3}
    MaxRuns = 3
    MaxFaults = 2
    MaxReceipts = 2
INVARIANTS
    CreditsAreEarned
    HandInsPayOnce
    RingsAreProven
    NetAgrees
    RotStaysPut
CHECK_DEADLOCK FALSE
