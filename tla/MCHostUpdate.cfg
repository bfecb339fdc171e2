SPECIFICATION Spec
CONSTANTS
    Attempts <- SomeAttempts
    Files <- ThreeFiles
    TargetOrder <- TwoTargets
INVARIANTS
    PassIsWhole
    OnceOnly
    MixedOnlyAfterUnknown
PROPERTIES
    NothingLost
CHECK_DEADLOCK FALSE
