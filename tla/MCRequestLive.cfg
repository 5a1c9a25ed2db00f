CONSTANTS
    Callers = {c1, c2}
    MaxOpenRequests = 2
    SendRetries = 3
    SpuriousWakeups = FALSE
    AppCalls = {}
SPECIFICATION Spec
PROPERTIES SlotHolderReturns ImplementsBlockingCall
