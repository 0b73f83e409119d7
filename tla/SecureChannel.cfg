CONSTANTS
    WindowSize = 2
    MaxCounter = 3
    NewKeys = {k1, k2}
    Aads = {a1, a2}
    Senders = {"drone"}
    MaxRotations = 1
SPECIFICATION Spec
INVARIANTS NonceUsedOnce NoReplay WindowExact LatePacketsAdmitted
CHECK_DEADLOCK FALSE
