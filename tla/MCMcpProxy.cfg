SPECIFICATION FairSpec
CONSTANTS
    ClientRequests = {call}
    ServerRequests = {sampling}
    Notes = {note}
    None = None
    MaxPending = 1
    MaxRetries = 2
INVARIANTS
    InOrder OneAnswer OpenIsAccountedFor
PROPERTIES
    NodesEndOnce FlowResumes
CHECK_DEADLOCK FALSE
