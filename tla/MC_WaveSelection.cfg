SPECIFICATION Spec
CONSTANTS
    a = a
    b = b
    c = c
    d = d
    None = None
    Waves = {a, b, c, d}
    First = a
    Unbuildable = {c}
    Se <- MCSe
    Begin <- MCBegin
    End <- MCEnd
    Waits <- MCWaits
    Branches <- MCBranches
    ClockMax = 9
    EndRoom = 2
    MinSpan = 1
    Cutoffs <- MCCutoffs
    MaxEvents = 6
INVARIANTS
    BranchesOfMain
    ArrowsUnlessOvertaken
    MainInView
    RowsOfOneEngine
CHECK_DEADLOCK FALSE
