SPECIFICATION Spec
CONSTANTS
    run1 = run1
    Pauses = {p1}
    Runs = {run1}
    RunOf <- OneRun
    Owners = {o1, o2}
    Requests = {r1, r2}
    Actions = {"continue", "abort"}
    None = None
    MaxPerOwner = 2
    MaxClosed = 2
    MaxRequests = 3
    MaxUnknownPending = 1
SYMMETRY Symmetric
INVARIANTS
    AnswerIsTrue
    CreditIsTrue
    ListIsTrue
PROPERTY
    RegistrySpec
CHECK_DEADLOCK FALSE
