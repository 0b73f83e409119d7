CONSTANTS
    QueueMax = 2
    SendMax = 2
    CacheMax = 2
    LogMax = 1
    MaxFrames = 3
SPECIFICATION FairSpec
INVARIANTS DeliveredInOrder DeliveredComplete StoppedIsQuiet
PROPERTIES StopReturns
CHECK_DEADLOCK FALSE
