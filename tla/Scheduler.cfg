\* Two workers, three tasks, one loss and one death.
SPECIFICATION FairSpec
CONSTANTS
    ta = ta
    tb = tb
    tc = tc
    w1 = w1
    w2 = w2
    Tasks <- MCTasks
    Workers <- MCWorkers
    Fleet <- MCFleet
    Lists <- MCLists
    Befores <- MCBefores
    None = None
    Ceiling = 4
    Reserve = 2
    Costs = {2, 3}
    Faults <- Ordinary
INVARIANTS
    RunsOnce
    GraphTrue
    SlotsTrue
PROPERTIES
    BooksOnlyGrow
    ScheduleEnds
CHECK_DEADLOCK FALSE
