SPECIFICATION Spec
INVARIANTS
    ClearIsEarned
    VerdictHonest
    MergesInspected
    GrantsOnly
    ReadersTrue
    RequestsHeld
    ConsolesTrue
    SeatsWatched
CHECK_DEADLOCK FALSE
