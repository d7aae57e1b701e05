SPECIFICATION Spec
CONSTANTS
    NBlocks = 3
    SeqOf <- SeqsOutOfOrder
    TimeOf <- TimesOutOfOrder
    Unhandled = {}
    MaxChunk = 4
    Prefix = 2
    Threshold = 2
    OutageKillsIdle = FALSE
    MaxFiles = 2
    MaxMishaps = 0
INVARIANTS
    ReplacementDetected
