CONSTANTS
    original = original
    drifted = drifted
    PortSets <- MCPortSets
    MaxInsertions = 2
SPECIFICATION FairSpec
INVARIANTS
    TypeOK
    NoReissue
    IntentIsDurable
    JournalBindsFiles
    ForwardVerifiedIsBuilt
    InverseVerifiedIsClean
PROPERTIES
    DeletesOnlyVerifiedRows
    ChangeSpec
    OperationEnds
