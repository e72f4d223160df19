SPECIFICATION Spec
CONSTANTS
    None = None
    MaxChanges = 3
    MaxFaults = 1
    MaxDecisions = 1
INVARIANT ShownProgressIsReal
PROPERTIES ShownNeverGoesBack PageCatchesUp
CHECK_DEADLOCK FALSE
