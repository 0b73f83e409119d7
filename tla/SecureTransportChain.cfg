CONSTANTS
    WindowSize = 3
    QueueMax = 1
    FrameWindow = 2
    MaxTelemetry = 2
    MaxFrames = 0
    MaxThrows = 0
SPECIFICATION Spec
INVARIANTS ChainNeverBreaks
CHECK_DEADLOCK FALSE
