CONSTANTS
    n1 = n1
    v1 = v1
    v2 = v2
    NULL = NULL
    Clients = {c1, c2}
    Nodes = {n1}
    Fields = {"time"}
    Values = {v1, v2}
    Calls <- MCCalls
    MaxCalls = 2
SPECIFICATION SchedSpec
SYMMETRY ClientSymmetry
CHECK_DEADLOCK FALSE
INVARIANTS SchedTypeOK IdsArePositions
PROPERTIES ImplementsScheduleItem FreshUpdateIsExact RepeatedMergeIsHarmless
