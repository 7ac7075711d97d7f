\* Every accepted task is recorded, whatever Pi does.
SPECIFICATION FairSpec
CONSTANTS
    t1 = t1
    t2 = t2
    a1 = a1
    Tasks <- MCTasks
    Attempts <- MCAttempts
    Verdicts <- MCVerdicts
    Probes <- MCProbes
    NoLive = NoLive
    NoAck = NoAck
    None = None
    MaxEpoch = 1
    Faults <- Unresponsive
PROPERTIES
    AcceptedRecorded
CHECK_DEADLOCK FALSE
