CONSTANTS
    Callers = {c1, c2, c3}
    MaxOpenRequests = 2
    SendRetries = 3
    SpuriousWakeups = FALSE
    AppCalls = {"listen"}
SYMMETRY CallSymmetry
SPECIFICATION Spec
INVARIANTS ReqTypeOK SlotAccounting TableEntriesLive NoStaleHandler OkMeansAnswered
