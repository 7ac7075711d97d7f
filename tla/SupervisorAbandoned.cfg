\* A deadline during the sampling: the next task is settled by this one's run.
SPECIFICATION Spec
CONSTANTS
    t1 = t1
    t2 = t2
    a1 = a1
    Tasks <- MCTasks
    Attempts <- MCAttempts
    Verdicts <- MCVerdicts
    Probes <- MCProbes
    NoLive = NoLive
    NoAck = NoAck
    None = None
    MaxEpoch = 2
    Faults <- OneEarlyDeadline
INVARIANTS
    SuccessRan
CHECK_DEADLOCK FALSE
SYMMETRY Symmetry
