CONSTANTS
    KernelDatapath = FALSE
    ForeignThings <- MCForeignThings
    CapturePoints = 2
SPECIFICATION Spec
INVARIANTS
    MarkerCoversRuntime
    JournalDescribesRuntime
    BuildVerifies
    CompensatedIsClean
PROPERTIES
    ForeignKept
    MarkerRemovedLast
    OperationReturns
CHECK_DEADLOCK FALSE
