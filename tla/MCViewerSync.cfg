SPECIFICATION FairSpec
CONSTANTS
    onError = onError
    Socks = {s1, s2}
    Runs = {run1}
    Items = {onError}
    Defaults <- FreshServer
    All = All
    None = None
    MaxRetries = 1
    MaxSeq = 2
    MaxUp = 1
    MaxDown = 1
    MaxTokens = 1
INVARIANTS
    ShowsWhatIsArmed NothingMissed
PROPERTIES
    CatchesUp
CHECK_DEADLOCK FALSE
