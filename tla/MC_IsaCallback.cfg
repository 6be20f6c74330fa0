SPECIFICATION Spec
CONSTANTS
    Threads = {t1, t2}
    NoThread = NoThread
    Pcs <- MCPcs
    Traces <- MCTraces
    MaxLoads = 2
    Int64Max = 9
INVARIANTS
    InstructionsHaveRows
    DispatchAgreesWithWaves
    FirstTraceRebased
PROPERTY
    OffsetSettled
CHECK_DEADLOCK FALSE
