SPECIFICATION Spec
CONSTANTS
    NumDrivers = 1
    OutputDriver = {1}
    PartitionedOutput = TRUE
    Yields = TRUE
    Timeouts = TRUE
    MaxSuspensions = 2
    MaxPauses = 2
INVARIANTS
    ReclaimIsSafe
CHECK_DEADLOCK FALSE
