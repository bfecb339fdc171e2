CONSTANT Attempts = 2
SPECIFICATION FairSpec
INVARIANTS
    DocumentedRunPasses
