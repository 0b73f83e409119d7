CONSTANTS
    Writers = {w1, w2}
    MaxRecords = 2
    MaxKeys = 1
SPECIFICATION Spec
INVARIANTS ChainLinked
CHECK_DEADLOCK FALSE
