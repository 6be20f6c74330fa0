SPECIFICATION SessionSpec
CONSTANTS
    None = None
    Inputs <- MCInputs
    Detect <- MCDetect
    Capture <- MCCapture
    MaxStores = 3
INVARIANT
    ReloadsWhatWasLoaded
CHECK_DEADLOCK FALSE
