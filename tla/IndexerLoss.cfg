SPECIFICATION Spec

CONSTANTS
    p1 = p1
    p2 = p2
    p3 = p3
    MaxBlock <- MCMaxBlock
    Pools <- MCPools
    EpochOf <- MCEpochOf
    EventsOf <- MCEventsOf
    ValidatorsOf <- MCValidatorsOf
    AllPoolsOf <- MCAllPoolsOf
    FillStopBlock = 9
    Faults = {"swallow", "crash", "fail"}
    MaxFaults = 3
    RowCap = 2

\* The process ends: LoopEnds and AutoStop are its regular exits.
CHECK_DEADLOCK FALSE

INVARIANTS
    DurationFromParent
    LedgerExactlyOnce
