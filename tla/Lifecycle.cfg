\* Two workers, the reaper and down, each fault once.
SPECIFICATION FairSpec
CONSTANTS
    w1 = w1
    w2 = w2
    s1 = s1
    p1 = p1
    p2 = p2
    Workers <- MCWorkers
    Strangers <- MCStrangers
    Pids <- MCPids
    Home <- MCHome
    None = None
    Threshold = 1
    Scenarios <- MCScenarios
INVARIANTS
    NoStranger
    StoppedIsGone
    PruneSafe
    ReaperSpares
PROPERTIES
    Collects
CHECK_DEADLOCK FALSE
