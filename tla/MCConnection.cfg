CONSTANTS
    Callers = {}
    SpuriousWakeups = TRUE
    AppCalls = {"listen", "disconnect"}
SPECIFICATION ConnSpec
CHECK_DEADLOCK FALSE
INVARIANTS ConnectVerdict WokenFindsResponse
PROPERTY ConnectReturns
