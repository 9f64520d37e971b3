SPECIFICATION Spec

CONSTANTS
    Statements <- MCStatements
    Reads = 2
    MaxAttempts = 3
    MaxConnectionRetries = 2
    MaxOutages = 4
    MaxErrors = 2

\* The import reaches the last block.
CHECK_DEADLOCK FALSE

INVARIANT AllOrNothing
PROPERTY ImportGoesOn
