CONSTANTS
    Socks = {s1, s2, s3}
    None = none
    kInitRetryDelayMs = 1
    kMaxRetryDelayMs = 3
    Users <- MCUsers
    KeeperRounds = 2
SPECIFICATION Spec
INVARIANTS NoAssertFails OneAttempt Owned ConnectorOutlives
PROPERTY StopStops
CHECK_DEADLOCK FALSE
