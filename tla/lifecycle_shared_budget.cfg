SPECIFICATION Spec
CONSTANTS
    MaxRestarts = 2
    MaxDeaths = 3
    MaxSignals = 0
INVARIANTS
    RestartedUpToLimit
CHECK_DEADLOCK FALSE
