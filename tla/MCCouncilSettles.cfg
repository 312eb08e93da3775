SPECIFICATION FairSpec
CONSTANTS
    Identity = {a, b}
    Seat = {a, b}
    NoSeat = NoSeat
    IdentityOf <- OwnSeat
    Proposal = {p}
    Legal = {p}
    Funded = {p}
    Amounts = {2}
    BondLegBps = 5000
    UnbondDelay = 1
    Leavers = {a}
    Suspects = {}
    MaxSlot = 3
    Renewed = {a, b}
    PinsetSizes = {1}
    MinBond = 1
    MinPinset = 1
    MaxChallengeGap = 2
    VotingWindow = 2
    ActivationDelay = 1
    WeightNum = 2
    WeightDen = 3
INVARIANTS
    RecountAgrees
PROPERTIES
    EveryVoteSettles
    LiensAreCleared
