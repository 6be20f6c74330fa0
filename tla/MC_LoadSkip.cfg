SPECIFICATION SessionSpec
CONSTANTS
    None = None
    Inputs <- MCInputs
    Detect <- MCDetect
    Capture <- MCCapture
    MaxStores = 3
INVARIANT
    SkippedOnlyIfOpen
CHECK_DEADLOCK FALSE
