CONSTANTS
    MaxSecrets = 1
    MaxChallenges = 1
    MaxInterruptions = 0
SPECIFICATION AuthSpec
INVARIANTS
    RotationLeavesSession
CHECK_DEADLOCK FALSE
