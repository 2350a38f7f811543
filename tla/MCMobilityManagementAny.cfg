SPECIFICATION Spec
CONSTANTS
    Requests <- Everything
    Assigns = {"none", "tpui", "nwk"}
    Faulty = {"FP", "PP"}
    MayFail = TRUE
    MaxRequests = 2
CHECK_DEADLOCK FALSE
INVARIANT TypeOK
INVARIANT CurrentMostUrgent
INVARIANT InitiatorHasTransaction
INVARIANT ResponderHasTransaction
