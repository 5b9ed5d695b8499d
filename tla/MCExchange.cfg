SPECIFICATION FairSpec
CONSTANTS
    d1 = d1
    d2 = d2
    TaskIds = {"t1", "t2"}
    SplitDriver = d1
    Scenarios <- Exchanges
    MaxQueuedBytes = 2
    DefaultPageBytes = 1
    MaxBytes = 2
CHECK_DEADLOCK FALSE
INVARIANTS TypeOK Delivery EndIsComplete NoSourceLost QueueIsBounded SomebodyIsAwake UpstreamIsTold
PROPERTY DriversEnd
