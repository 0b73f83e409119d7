SPECIFICATION FairSpec
CONSTANT MaxConnections = 2
INVARIANTS Agreement HonestChecksPass NeverBothWaiting
PROPERTIES ImplementsAgreement EveryAttemptEnds NoSessionLeftBehind
CHECK_DEADLOCK FALSE
