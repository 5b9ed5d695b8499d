SPECIFICATION Spec
CONSTANTS
    Scenarios <- Safety
    MaxSize = 10
    MaxBytes = 6
    MaxInFlight = 2
CHECK_DEADLOCK FALSE
INVARIANTS TypeOK Delivery NoMissedData ChecksHold
PROPERTY BytesLeakOnlyShared
