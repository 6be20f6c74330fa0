SPECIFICATION Spec
CONSTANTS
    NWaves = 4
    k1 = k1
    k2 = k2
    Keys = {k1, k2}
    KeyOf <- MCKeyOf
    TypeOf <- MCTypeOf
    Slots = 2
    MaxLoads = 2
    None = None
INVARIANTS
    CacheCurrent
    HotspotExact
    ViewsShareInstances
    TasksBounded
    LineAttributed
PROPERTIES
    LineSettled
CHECK_DEADLOCK FALSE
