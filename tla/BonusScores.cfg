SPECIFICATION Spec

CONSTANTS
    p1 = p1
    p2 = p2
    Pools <- MCPools
    MaxBlock = 4
    MaxScore = 2
    BatchSize = 1
    Faults = {"fail", "crash", "read", "statement"}
    MaxFaults = 2

SYMMETRY MCSymmetry

\* The chain is bounded.
CHECK_DEADLOCK FALSE

INVARIANTS
    RowsTile
    HistoryTellsScores
    ReasonsMatchHistory
    FiledUnderEpoch
