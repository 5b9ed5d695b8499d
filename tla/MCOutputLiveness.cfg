SPECIFICATION FairSpec
CONSTANTS
    Scenarios <- Liveness
    MaxSize = 10
    MaxBytes = 6
    MaxInFlight = 2
CHECK_DEADLOCK FALSE
PROPERTIES ProducerResumes ConsumerEnds
