SPECIFICATION FairRegistrySpec
CONSTANTS
    p1 = p1
    p2 = p2
    run1 = run1
    run2 = run2
    Pauses = {p1, p2}
    Runs = {run1, run2}
    RunOf <- EachItsRun
    Owners = {o1, o2}
    Requests = {r1, r2}
    Actions = {"continue"}
    None = None
    MaxPerOwner = 1
    MaxClosed = 1
    MaxRequests = 1
    MaxUnknownPending = 1
INVARIANTS
    OwnerCountExact
    ResolvingIsUnsettled
    RequestsBounded
PROPERTIES
    NeverWedged
CHECK_DEADLOCK FALSE
