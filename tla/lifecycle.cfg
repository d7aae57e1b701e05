SPECIFICATION FairSpec
CONSTANTS
    MaxRestarts = 1
    MaxDeaths = 2
    MaxSignals = 2
INVARIANTS
    TypeOK
    CleanCheckpoint
PROPERTIES
    NoRestartDuringShutdown
    ShutdownCompletes
    CrashedWorkerRestarted
    ScanningGoesOn
CHECK_DEADLOCK FALSE
