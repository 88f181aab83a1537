SPECIFICATION FairSpec
CONSTANTS
    tab = tab
    img = img
    post = post
    r1 = r1
    p1 = p1
    Waiters = {tab}
    Resumers = {post}
    Tokened = {post}
    Runs = {r1}
    Pauses = {p1}
    RunOf <- MCRunOf
    Watched <- MCWatched
    Target <- MCTarget
    None = None
    MaxWaits = 1
    MaxTokenless = 1
INVARIANTS
    SlotsAccounted NoSleepThroughNews PostIsTruthful
PROPERTIES
    WaitsEnd
CHECK_DEADLOCK FALSE
