SPECIFICATION MCSpec
CONSTANTS
    Byte = {0, 1}
    Data <- MCData
    Widths = {1, 2}
    CR = 1
    LF = 0
    kCheapPrepend = 2
    kInitialSize = 2
    ExtraBuf = 2
    MaxReadable = 4
INVARIANTS BufferSafe LogsExact
PROPERTY ImplementsByteStream
CHECK_DEADLOCK FALSE
