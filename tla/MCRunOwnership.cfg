SPECIFICATION FairSpec
CONSTANTS
    app1 = app1
    app2 = app2
    MaxHubs = 2
    Overlap = FALSE
    Clients = {app1, app2}
    Strict <- OneOfTwo
    MaxConns = 2
    Runs = {run1, run2}
    None = None
    MaxEvents = 2
    MaxClaims = 1
    MaxSealed = 1
INVARIANTS
    LiveRunIsNotAbandoned OrphanIsWatched
PROPERTIES
    OneWriter NoPhantoms
CHECK_DEADLOCK FALSE
