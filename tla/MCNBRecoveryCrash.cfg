CONSTANTS
    original = original
    PortSets <- OnePortSet
    MaxInsertions = 1
    MaxAttempts = 2
    Concurrent = FALSE
SPECIFICATION RecSpec
INVARIANTS
    CrashLeavesRecoverable
