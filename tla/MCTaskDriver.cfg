SPECIFICATION FairSpec
CONSTANTS
    NumDrivers = 2
    OutputDriver = {1}
    PartitionedOutput = FALSE
    Yields = FALSE
    Timeouts = TRUE
    MaxSuspensions = 2
    MaxPauses = 2
CHECK_DEADLOCK FALSE
INVARIANTS TypeOK ThreadCount ReclaimIsSafe OneHolder ClosedOnce
PROPERTIES ChecksHold PauseSettles DriversAreClosed NobodyStranded
