SPECIFICATION BufferSpec
CONSTANTS
    run1 = run1
    run2 = run2
    Runs <- MCRuns
    ImplicitRun = run2
    NoEmit = NoEmit
    Capacity = 2
    MaxBytes = 3
    Small = 1
    Sizes <- MCSizes
    MaxTrackedGapRuns = 1
    MaxSeq = 6
    MaxHeld = 1
INVARIANT
    SeqsUnique
    ReplayComplete
    LossAccounted
CHECK_DEADLOCK FALSE
