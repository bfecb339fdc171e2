CONSTANTS
    KernelDatapath = TRUE
    ForeignThings = {}
    CapturePoints = 1
SPECIFICATION Spec
INVARIANT BuildVerifies
CHECK_DEADLOCK FALSE
