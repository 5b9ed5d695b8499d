SPECIFICATION FairSpec
CONSTANTS
    Scenarios <- Producer
    MaxSize = 10
    MaxBytes = 6
    MaxInFlight = 2
CHECK_DEADLOCK FALSE
PROPERTY ProducerResumes
