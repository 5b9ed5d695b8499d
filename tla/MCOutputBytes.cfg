SPECIFICATION Spec
CONSTANTS
    Scenarios <- Broadcast
    MaxSize = 10
    MaxBytes = 6
    MaxInFlight = 2
CHECK_DEADLOCK FALSE
INVARIANT BytesBuffered
