SPECIFICATION FairSpec
CONSTANTS
    onError = onError
    step = step
    Socks = {s1, s2}
    Items = {onError, step}
    Defaults <- FreshServer
    None = None
    MaxQueue = 2
INVARIANTS
    NeverStranded
    ArmedFollowsServer
PROPERTIES
    Reconnects
CHECK_DEADLOCK FALSE
