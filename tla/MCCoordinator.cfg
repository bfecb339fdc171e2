CONSTANT Attempts = 2
SPECIFICATION FairSpec
INVARIANTS
    ReleasedIsClean
    LoggedRestoreHolds
    MovedOnceAndAnnounced
    PassIsMeasured
    FaultlessRunPasses
PROPERTIES
    RowsLeaveFromB
    ExecutionEnds
