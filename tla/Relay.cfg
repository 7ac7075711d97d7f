\* One or two relays, every fault.
SPECIFICATION FairSpec
CONSTANTS
    la = la
    lb = lb
    pa = pa
    pb = pb
    xa = xa
    xb = xb
    ta = ta
    tb = tb
    Lenses <- MCLenses
    Collator = Collator
    Parents <- MCParents
    Texts <- MCTexts
    Contents <- MCContents
    Actors <- MCActors
    First = xa
    None = None
    Tolerance = 2
    Faults <- Faulty
INVARIANTS
    ReviewedOnce
    JournalTruthful
    ReadsPublished
PROPERTIES
    FanOutHappens
CHECK_DEADLOCK FALSE
