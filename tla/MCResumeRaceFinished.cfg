SPECIFICATION Spec
CONSTANTS
    run1 = run1
    Pauses = {p1}
    Runs = {run1}
    RunOf <- OneRun
    Owners = {o1}
    Requests = {r1}
    Actions = {"continue"}
    None = None
    MaxPerOwner = 2
    MaxClosed = 2
    MaxRequests = 3
    MaxUnknownPending = 1
SYMMETRY Symmetric
INVARIANT
    HeldIsResumable
CHECK_DEADLOCK FALSE
