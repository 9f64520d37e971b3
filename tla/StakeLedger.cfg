SPECIFICATION Spec

CONSTANTS
    p1 = p1
    p2 = p2
    Pools <- MCPools
    Stakers <- MCStakers
    MaxBlock = 3
    MaxEvents = 5

SYMMETRY MCSymmetry

\* The history is bounded, and a refused block is retried for ever.
CHECK_DEADLOCK FALSE

INVARIANTS
    HistoryFollowsChain
    OrdersFollowChain
    DelegatedFollowsChain
