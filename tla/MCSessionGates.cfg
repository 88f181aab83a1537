SPECIFICATION FairSpec
CONSTANTS
    Pauses = {p1, p2}
    Requests = {r1, r2}
    Points = {"before", "after"}
    Actions = {"continue", "retry"}
    None = None
    PauseTimeout = TRUE
    LoopPause = TRUE
    EditInputEnabled = TRUE
    MaxEpoch = 2
INVARIANTS
    FailOpenHolds
    EchoTruthful
PROPERTIES
    EditIsCurrent
    KeepsContract
CHECK_DEADLOCK FALSE
