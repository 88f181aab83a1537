SPECIFICATION FairSpec
CONSTANTS
    Hosts = {host}
    MaxEdits = 2
INVARIANTS
    OneDecision WaitedOn
PROPERTIES
    HostGoesOn
CHECK_DEADLOCK FALSE
