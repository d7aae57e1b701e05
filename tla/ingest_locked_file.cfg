SPECIFICATION Spec
CONSTANTS
    NBlocks = 2
    SeqOf <- SeqsInOrder
    TimeOf <- TimesInOrder
    Unhandled = {}
    MaxChunk = 4
    Prefix = 2
    Threshold = 2
    OutageKillsIdle = FALSE
    MaxFiles = 1
    MaxMishaps = 1
PROPERTIES
    ResetOnlyOnReplacement
