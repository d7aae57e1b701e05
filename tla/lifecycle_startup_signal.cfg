SPECIFICATION FairSpec
CONSTANTS
    MaxRestarts = 1
    MaxDeaths = 0
    MaxSignals = 1
PROPERTIES
    ShutdownAlwaysCompletes
CHECK_DEADLOCK FALSE
