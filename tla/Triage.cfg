SPECIFICATION FairSpec
CONSTANTS
    s1 = s1
    s2 = s2
    Seats <- MCSeats
    Watcher = s1
    Subjects <- MCSubjects
    MaxSweeps = 2
    MaxTrees = 2
    RecycleAfter = 1
    MaxSkips = 2
    Expiry = 2
    MaxRetry = 1
    Tolerance = 2
    FlapThreshold = 1
    FlapWindow = 2
    RenotifyAfter = 0
    MaxUndelivered = 1
    Faults <- Faulty
INVARIANTS
    SweepOnce
    ToldOrNoted
PROPERTIES
    GoesOn
CHECK_DEADLOCK FALSE
