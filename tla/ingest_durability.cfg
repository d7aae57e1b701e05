SPECIFICATION DurableFairSpec
CONSTANTS
    NBlocks = 2
    SeqOf <- SeqsInOrder
    TimeOf <- TimesInOrder
    Unhandled = {}
    MaxChunk = 3
    Prefix = 2
    Threshold = 2
    OutageKillsIdle = FALSE
    MaxFiles = 2
    MaxMishaps = 1
INVARIANTS
    ZeroDataLossOnServerStop
    NoLossOnServerCrash
PROPERTIES
    ScanEnds
    BacklogDrains
