\* Three functors, two other threads, one I/O channel.
CONSTANTS
    Jobs = {j1, j2, j3}
    Workers = {w1, w2}
    Loop = loopThread
    Channels = {io}
SPECIFICATION FairSpec
INVARIANTS SleepsOnlyIfIdle RunsAtMostOnce
PROPERTIES ImplementsTaskExecutor FunctorsRun QuitEndsLoop
