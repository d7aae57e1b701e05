SPECIFICATION Spec
CONSTANTS
    NBlocks = 3
    SeqOf <- SeqsOutOfOrder
    TimeOf <- TimesOutOfOrder
    Unhandled = {}
    MaxChunk = 3
    Prefix = 2
    Threshold = 2
    OutageKillsIdle = FALSE
    MaxFiles = 2
    MaxMishaps = 1
INVARIANTS
    TypeOK
    UniqueRows
    LiveIsLatest
    NoUnexplainedLoss
    BreakerGate
PROPERTIES
    RewindHasCause
    StoreSpec
