CONSTANTS
    Callers = {c1, c2}
    MaxOpenRequests = 1
    SendRetries = 3
    SpuriousWakeups = FALSE
    AppCalls = {}
SPECIFICATION Spec
CHECK_DEADLOCK FALSE
PROPERTY EveryCallReturns
