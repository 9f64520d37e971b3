SPECIFICATION ReadsSpec

CONSTANTS
    n1 = n1
    n2 = n2
    v1 = v1
    v2 = v2
    a = a
    b = b
    Names <- MCNames
    Chains <- MCChains
    Validators <- MCValidators
    Owners <- MCOwners
    Rank <- MCRank
    FillStart = 1
    MaxFaults = 1
    PageSize = 1

\* The chain ends.
CHECK_DEADLOCK FALSE

INVARIANTS
    RowsTellChain
    TimelineReachesRow
    UptimeWithinOne
    PagesMissNothing
