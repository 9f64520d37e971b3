SPECIFICATION Spec

CONSTANTS
    ip1 = ip1
    k1 = k1
    k2 = k2
    s1 = s1
    s2 = s2
    Ips <- MCIps
    Keys <- MCKeys
    FirstKeys <- MCFirstKeys
    NewRows <- MCNewRows
    Routes = {"node", "rewards"}
    Window <- MCWindow
    Limit <- MCLimit
    Slots <- MCSlots
    MaxCalls = 3
    MaxOutages = 1
    MaxRestarts = 1

\* The bounds on requests and on time end a behaviour.
CHECK_DEADLOCK FALSE

SYMMETRY MCSymmetry

INVARIANTS
    WithinLimit
    RefusedForCause
PROPERTY
    KeysInForce
