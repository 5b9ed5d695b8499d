SPECIFICATION Spec
CONSTANTS
    NumDrivers = 2
    OutputDriver = {1}
    PartitionedOutput = FALSE
    Yields = TRUE
    Timeouts = FALSE
    MaxSuspensions = 1
    MaxPauses = 1
INVARIANTS
    EnqueueCheckHolds
CHECK_DEADLOCK FALSE
