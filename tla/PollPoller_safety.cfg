CONSTANTS
    acceptor = acceptor
    first = first
    second = second
    successor = successor
    Channels <- MCChannels
    Fd <- MCFd
SPECIFICATION Spec
INVARIANTS PollerConsistent NoEventAfterRemove
PROPERTY OthersUndisturbed
CHECK_DEADLOCK FALSE
