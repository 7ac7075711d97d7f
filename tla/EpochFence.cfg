\* Two tasks, two attempts, two epochs, one crash.
SPECIFICATION Spec
CONSTANTS
    t1 = t1
    t2 = t2
    a1 = a1
    a2 = a2
    Tasks <- MCTasks
    Attempts <- MCAttempts
    Verdicts <- MCVerdicts
    NoLive = NoLive
    NoAck = NoAck
    Nobody = Nobody
    MaxEpoch = 2
    MaxSeq = 2
    MaxLives = 2
INVARIANTS
    PromptDurable
    PromptOnce
    RetryAnswered
PROPERTY
    ImplementsLedger
CHECK_DEADLOCK FALSE
SYMMETRY Symmetry
