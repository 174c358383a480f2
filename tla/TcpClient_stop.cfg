CONSTANTS
    Socks = {s1, s2, s3}
    None = none
    kInitRetryDelayMs = 1
    kMaxRetryDelayMs = 3
    Users <- MCRetryStop
    KeeperRounds = 2
SPECIFICATION Spec
PROPERTY StopStops
CHECK_DEADLOCK FALSE
