SPECIFICATION Spec

CONSTANTS
    a1 = a1
    a2 = a2
    n1 = n1
    n2 = n2
    n3 = n3
    zero = zero
    w1 = w1
    w2 = w2
    w3 = w3
    w4 = w4
    o1 = o1
    random = random
    staking = staking
    Accounts <- MCAccounts
    QueueSize = 3
    Batches <- MCBatches
    AwaitEvery = 3
    MaxTrouble = 2
    Sender = a1
    MaximumPoolSize = 2
    MaxTurns = 3
    MaxErrors = 1
    Candidates <- MCCandidates
    ZeroAddress = zero
    Wallet <- MCWallet
    Others <- MCOthers
    FirstAccount = 0
    MaxEpoch = 5
    Proxies <- MCProxies
    Random = random
    MaxContracts = 7
    MaxForeign = 2

\* Scripts end.
CHECK_DEADLOCK FALSE

INVARIANTS
    NoncesFresh
    PoolSizeCoversPending
    OnePoolPerEpoch
    SwitchedOnce

PROPERTIES
    BatchesEnd
    SenderGoesOn
