SPECIFICATION FairSpec
CONSTANTS
    s1 = s1
    s2 = s2
    Scripts = {s1, s2}
    Modes = {"plain", "recreate", "restart", "task"}
    MaxRuns = 3
    MaxActors = 2
    Tolerance = 2
    Nobody = Nobody
    Faults <- PassFaults
INVARIANTS
    ConsoleExclusive
PROPERTIES
    ActorFollows
CHECK_DEADLOCK FALSE
