CONSTANTS
    Worker = {w1, w2}
    Ip = {i1, i2}
    Fd = {f1, f2, f3, f4}
    MaxTotal = 3
    MaxPerIp = 2
    MaxPending = 2
SPECIFICATION FairSpec
INVARIANTS SlotsBalanced EveryFdHasOneOwner
PROPERTIES NobodyStarvesIdly
