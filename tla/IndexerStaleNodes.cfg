SPECIFICATION FairSpec

CONSTANTS
    p1 = p1
    p2 = p2
    p3 = p3
    MaxBlock <- MCMaxBlock
    Pools <- MCPools
    EpochOf <- MCEpochOf
    EventsOf <- MCEventsOf
    ValidatorsOf <- MCValidatorsOf
    AllPoolsOf <- MCAllPoolsOf
    FillStopBlock = 9
    Faults = {"fail"}
    MaxFaults = 1
    RowCap = 2

\* The process ends: LoopEnds and AutoStop are its regular exits.
CHECK_DEADLOCK FALSE

PROPERTY
    KeepsImporting
