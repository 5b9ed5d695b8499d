SPECIFICATION Spec
CONSTANTS
    NumBlocks = 2
    Size <- UnequalSizes
    MaxInflight = 1
    Targets = {0, 2}
    MaxList = 2
    MaxHandles = 2
    MaxVersion = 2
    MaxSequences <- Sequences
CHECK_DEADLOCK FALSE
INVARIANTS TypeOK HandlesArePins DataSurvives EvictableIsQueued AccountingIsExact ReclaimIsComplete
PROPERTY ImplementsBlockStore
