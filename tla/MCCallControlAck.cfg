SPECIFICATION Spec
CONSTANTS
    Callers = {"FP"}
    Optional <- Answering
    InBand = FALSE
    MayFail = FALSE
    MaxInfo = 0
CHECK_DEADLOCK FALSE
INVARIANT TimerAssertion
