CONSTANTS
    Callers = {c1}
    MaxOpenRequests = 2
    SendRetries = 3
    SpuriousWakeups = TRUE
    AppCalls = {"disconnect"}
SPECIFICATION FullSpec
CHECK_DEADLOCK FALSE
INVARIANTS SlotAccounting LoopExclusion
PROPERTIES EventsAreReported StopEndsThread
