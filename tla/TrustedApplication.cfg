CONSTANTS
    MaxSecrets = 4
    MaxChallenges = 4
    MaxInterruptions = 2
    MaxPairs = 3
    MaxFailures = 4
SPECIFICATION TaSpec
INVARIANTS
    LockedOutForAReason
    SignsAsAnnounced
PROPERTIES
    RecoveryIsFresh
    BlobComes
    IdentityStays
    DroneComesUp
CHECK_DEADLOCK FALSE
