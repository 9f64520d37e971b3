SPECIFICATION LocalFair

CONSTANTS
    NodeIds <- MCNodeIds
    MaxDeaths = 1
    Dogs = {1, 2}
    MaxBlock = 2
    MaxEpoch = 2
    Scripts <- MCScripts

\* A script ends, or waits for what never comes.
CHECK_DEADLOCK FALSE

INVARIANTS
    OneProcessEach
    CheckpointQuiet

PROPERTIES
    DeadComeBack
    SwitchesNoticed
