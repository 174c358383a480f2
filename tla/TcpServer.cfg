CONSTANTS
    l1 = l1
    l2 = l2
    Conns = {c1, c2}
    Base = base
    Limit = 2
    Pools <- MCPools
SPECIFICATION MCSpec
INVARIANTS ServerSafe DescriptorsKept
PROPERTIES ImplementsConnectionLife NobodyLeftBehind
CHECK_DEADLOCK FALSE
