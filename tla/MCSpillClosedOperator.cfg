SPECIFICATION Spec
CONSTANTS
    o1 = o1
    o2 = o2
    o3 = o3
    Operator = {o1, o2, o3}
    Terminates = TRUE
INVARIANT SpillMeetsNoClosedOperator
CHECK_DEADLOCK FALSE
