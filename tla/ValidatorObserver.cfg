SPECIFICATION Spec

CONSTANTS
    n1 = n1
    n2 = n2
    Nodes <- MCNodes
    MaxBlock = 6
    MaxRound = 2
    MaxCrashes = 1
    MaxFails = 1

SYMMETRY MCSymmetry

\* The chain is bounded.
CHECK_DEADLOCK FALSE

INVARIANTS
    RecordsDisjoint
    RecordsTellHistory
    PendingRounds
