SPECIFICATION Spec

CONSTANTS
    p1 = p1
    p2 = p2
    p3 = p3
    MaxBlock <- MCMaxBlock
    Pools <- MCPools
    EpochOf <- MCEpochOf
    EventsOf <- MCEventsOf
    ValidatorsOf <- MCValidatorsOf
    AllPoolsOf <- MCAllPoolsOf
    FillStarts <- MCFillStarts
    MaxImported = 4
    MaxDeaths = 2
    v1 = v1
    v2 = v2
    s1 = s1
    s2 = s2
    RewardPools <- MCRewardPools
    Stakers <- MCStakers
    Payments <- MCPayments
    MinPercent <- MCMinPercent
    Own = 1
    MaxStake = 1
    MaxMoves = 2
    MaxEpochs = 2
    Gaps = {0, 1, 3}
    Window = 2
    MaxFaults = 1

\* The modelled chain ends.
CHECK_DEADLOCK FALSE

INVARIANTS
    SeedWhole
    RewardsTold

SYMMETRY
    Symmetry
