CONSTANTS
    room = room
    sensor = sensor
    lamp = lamp
    NULL = NULL
    Clients = {c1, c2}
    EventNodes = {room, sensor, lamp}
    Nodes <- MCNodes
    Calls <- MCCalls
    Starts <- MCStarts
    MaxCalls = 1
SPECIFICATION RefSpec
SYMMETRY ClientSymmetry
CHECK_DEADLOCK FALSE
INVARIANTS RefTypeOK OneEntryPerNode
PROPERTIES UndisturbedCallIsExact CallsGetOn
