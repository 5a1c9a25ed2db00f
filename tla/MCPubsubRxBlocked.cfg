CONSTANTS
    Receivers = {r1}
    CtlCalls = {}
    QueueMaxLen = 2
    OpenSlots = 2
    MaxItems = 2
    MaxStarts = 1
SPECIFICATION RxSpec
CHECK_DEADLOCK FALSE
PROPERTY BlockedOnlyWhileEmpty
