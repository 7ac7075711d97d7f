\* Interrupts, a late Pi, stops, a crash and a relaunch, or a Pi that rejects.
SPECIFICATION Spec
CONSTANTS
    t1 = t1
    t2 = t2
    a1 = a1
    Tasks <- MCTasks
    Attempts <- MCAttempts
    Verdicts <- MCVerdicts
    Probes <- MCProbes
    NoLive = NoLive
    NoAck = NoAck
    None = None
    MaxEpoch = 2
    Faults <- Faulty
INVARIANTS
    SuccessQuiesced
    RecordDurable
PROPERTIES
    EndsOwn
    ImplementsLedger
CHECK_DEADLOCK FALSE
SYMMETRY Symmetry
