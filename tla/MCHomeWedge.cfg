SPECIFICATION FairSpec
CONSTANTS
    a = a
    b = b
    h1 = h1
    h2 = h2
    leave = leave
    join = join
    crime = crime
    motion = motion
    Seat = {a, b}
    Proposal = {leave, crime}
    Legal = {leave}
    Change <- MCChanges
    Home = {h1, h2}
    Office = h1
    FirstFleet <- MCFirstFleet
    Operator = {o1}
    HomeLists <- MCFull
    StewardBond = 1
    Kills = FALSE
    WeightNum = 2
    WeightDen = 3
PROPERTIES
    EveryVoteSettles
