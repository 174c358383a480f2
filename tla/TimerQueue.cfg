CONSTANTS
    Addresses = {p, q}
    MaxSequence = 2
    Delays = {0, 2}
    Intervals = {0, 1}
    MaxAdjusts = 1
    Workers = {w}
SPECIFICATION FairSpec
INVARIANTS SetsAgree OneOwner AlarmSet CancelledStaysOut
PROPERTY Fires
