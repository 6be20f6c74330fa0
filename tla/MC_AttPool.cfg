SPECIFICATION FairSpec
CONSTANTS
    NFiles = 3
    Sizes <- MCSizes
    Budget = 2
    Slots = 2
    MaxInfo = 1
INVARIANTS
    BuffersWithinBudget
    CounterConserved
    PermitsConserved
    ReturnIsComplete
PROPERTY
    Returns
CHECK_DEADLOCK FALSE
