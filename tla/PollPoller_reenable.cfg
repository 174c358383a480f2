CONSTANTS
    acceptor = acceptor
    first = first
    second = second
    successor = successor
    Channels <- MCChannels
    Fd <- MCFd
SPECIFICATION Spec
INVARIANT WantedIsWatched
