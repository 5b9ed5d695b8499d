SPECIFICATION JoinSpec
CONSTANTS
    o1 = o1
    o2 = o2
    p1 = p1
    p2 = p2
    Operator = {o1, o2}
    Prober = {p1, p2}
    BuildKeys <- MCBuildKeys
    ProbeKeys <- MCProbeKeys
    NullRows <- MCNullRows
    Levels = 2
    Kinds = {"inner", "right", "anti"}
    Terminates = TRUE
CHECK_DEADLOCK FALSE
INVARIANTS TypeOK SpillRunsAlone ChecksHold NoLostWaiter
INVARIANTS JoinIsExact NobodyLeftBehind JoinChecksHold
PROPERTIES JoinEnds
