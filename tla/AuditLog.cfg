CONSTANTS
    Writers = {w1}
    MaxRecords = 3
    MaxKeys = 3
SPECIFICATION Spec
INVARIANTS ChainContinues KeysKept
CHECK_DEADLOCK FALSE
