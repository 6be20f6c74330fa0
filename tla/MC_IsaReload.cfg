SPECIFICATION Spec
CONSTANTS
    Threads = {t1, t2}
    NoThread = NoThread
    Pcs <- MCPcs
    Traces <- MCTraces
    MaxLoads = 2
    Int64Max = 9
INVARIANT
    RebasedToLoadedTrace
CHECK_DEADLOCK FALSE
