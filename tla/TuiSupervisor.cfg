SPECIFICATION FairSpec
CONSTANTS
    Tasks = {t1, t2}
    Attempts = {a}
    Verdicts = {"success", "failed", "timed_out", "aborted"}
    NoLive = NoLive
    NoAck = NoAck
    MaxEpochs = 2
    MaxFiles = 2
    MaxLog = 4
    Faults <- PassFaults
PROPERTIES
    OwnTurn
    TurnBounded
CHECK_DEADLOCK FALSE
