CONSTANTS
    Lines <- MCLines
    MaxLines = 5
    MaxPerMessage = 3
    Main = "main"
    Others = {"t1", "t2"}
    Registers <- MCRegisters
    Sorted <- MCSorted
    Paths <- MCPaths
SPECIFICATION HttpSpec
INVARIANTS FollowsStream ServesListed
PROPERTY AnswersExactly
CHECK_DEADLOCK FALSE
