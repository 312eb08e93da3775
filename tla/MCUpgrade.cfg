SPECIFICATION UpgradeSpec
CONSTANTS
    Identity = {a}
    Seat = {a}
    NoSeat = NoSeat
    IdentityOf <- OwnSeat
    p = p
    q = q
    Proposal = {p, q}
    Legal <- MCLegal
    Pattern <- MCPattern
    Digit = {"1", "4"}
    Separator = {".", "_"}
    LowerCase <- MCLowerCase
    MinBare = 2
    Changes <- MCChanges
    Widening = {}
    ChronarchTarget = {}
    M5 = {}
    Funded = {p, q}
    Amounts = {2}
    BondLegBps = 5000
    UnbondDelay = 1
    Leavers = {a}
    Suspects = {}
    MaxSlot = 2
    Renewed = {}
    PinsetSizes = {1}
    MinBond = 1
    MinPinset = 1
    MaxChallengeGap = 2
    VotingWindow = 1
    ActivationDelay = 1
    WeightNum = 2
    WeightDen = 3
    seed = seed
    kernelCode = y
    x = x
    y = y
    Faculty = {seed, f}
    Kernel = {seed}
    Code = {x, y}
    KernelCode <- SeedCode
    M3 = {p, q}
    FacultyCode <- OwnCode
INVARIANTS
    LiveIsRatified
    LawsStand
    LiensAreOpenBallots
    SlashesAreScarred
PROPERTIES
    ImplementsRatification
    VoteIsFrozen
