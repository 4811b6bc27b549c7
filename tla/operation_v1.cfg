SPECIFICATION VSpec
CONSTANTS
    Tx = {1, 2}
    Intent = {i, j}
    Pid = {1, 2}
    Torn = torn
    MaxGenerations = 2
    MaxCrashes = 2
    MaxFaults = 2
    MaxCalls = 3
INVARIANTS
    CommittedOnce
    RecoverableUnlessMoved
    CommitLeavesOldOrNew
PROPERTY
    ActivationCompletes
CHECK_DEADLOCK FALSE
