CONSTANTS
    Receivers = {r1, r2}
    CtlCalls = {"stop", "clear", "handler"}
    QueueMaxLen = 2
    OpenSlots = 2
    MaxItems = 3
    MaxStarts = 2
SPECIFICATION RxSpec
CHECK_DEADLOCK FALSE
SYMMETRY ReceiverSymmetry
INVARIANTS QueueLenExact DeliveredInOrder EntryIsLive ListenSlotAccounting
PROPERTY ImplementsRxChannel
