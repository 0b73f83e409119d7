CONSTANTS
    WindowSize = 2
    QueueMax = 1
    FrameWindow = 1
    MaxTelemetry = 1
    MaxFrames = 2
    MaxThrows = 1
SPECIFICATION FairSpec
INVARIANTS TagFailsOnlyAfterLoss FramesNeverReplayed NoWriteAfterClose ReturnTellsFailure
PROPERTIES ImplementsLog FailureEndsTheRun ControlIsDelivered
CHECK_DEADLOCK FALSE
