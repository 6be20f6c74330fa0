SPECIFICATION Spec
CONSTANTS
    PerfInterval = 40
    CounterTypes = {"VMEM", "LDS"}
    Engines = {0, 1}
    Folders <- MCFolders
    MaxThreads = 2
    Traces <- MCTraces
    MaxPopulates = 2
INVARIANTS
    ShownIsCurrent
PROPERTIES
    ResultsComplete
    DialogEnds
CHECK_DEADLOCK FALSE
