SPECIFICATION SessionSpec
CONSTANTS
    None = None
    Inputs <- MCInputs
    Detect <- MCDetect
    Capture <- MCCapture
    MaxStores = 3
INVARIANTS
    ManagerOwned
    LoadedEverywhere
    PathsDescribeStore
    SpmNotCarriedOver
CHECK_DEADLOCK FALSE
