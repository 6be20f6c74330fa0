SPECIFICATION AnalysesSpec
CONSTANTS
    Horizon = 40
    Lines = {1, 2, 3}
    CntBank = 2
    kMaxPlotsPerDerived = 3
    Temporaries = {"_busy", "_C"}
    BuiltinNames = {"A_util", "B_rate", "_busy"}
    Traces <- MCTraces
    Stores <- MCStores
    Texts <- MCTexts
    Programs <- MCPrograms
    Captures <- MCCaptures
    MaxTokens = 5
    TimeMax = 1000
    MarkerIds <- MCMarkerIds
    SEs = {0, 1, 2}
    Slots = {"a", "b", "c"}
    SeOf <- MCSeOf
    Files = {"f1", "f2", "f3"}
    CodeObjects = {0, 1, 2}
    Ids = {0, 1, 2}
    Recordings <- MCRecordings
    Unit = 4096
    Significant = 256
    Powers = {1, 2, 4, 8, 16, 32, 64, 128, 256, 512, 1024, 2048, 4096}
    Fused = FALSE
INVARIANTS
    AlignedTogether
    ClocksAgree
    MarkersOfOccupant
    SpansNest
    UnionExact
    HiddenExact
    DerivedExact
    CurvesExact
    RawHidden
    WaitsExact
    LinkedOnce
    KernelsExact
    LanesExact
PROPERTY
    ImplementsMarkerWalker
