SPECIFICATION Spec
CONSTANTS
    r1 = r1
    r2 = r2
    Sessions <- Runs
    EventLimit = 1
INVARIANTS
    OneMutator
    AcceptedIsDurable
PROPERTIES
    KeptM03Stays
    SubstrateStays
    RefusalIsFinal
SYMMETRY RunSymmetry
CHECK_DEADLOCK FALSE
