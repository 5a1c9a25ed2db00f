CONSTANTS
    n1 = n1
    a = a
    b = b
    v1 = v1
    v2 = v2
    NULL = NULL
    Garbage = Garbage
    Clients = {c1, c2}
    Nodes = {n1}
    Names = {a, b}
    Values = {v1, v2}
    Calls <- MCCalls
    Starts <- MCStarts
    MaxCalls = 2
SPECIFICATION MetaSpec
SYMMETRY ClientSymmetry
CHECK_DEADLOCK FALSE
INVARIANTS MetaTypeOK NamesAreUnique
PROPERTIES OthersAreKept MentionedAreUpdated MergeAgainIsHarmless
