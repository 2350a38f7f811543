SPECIFICATION FairSpec
CONSTANTS
    Callers = {"FP", "PP"}
    Optional <- Answering
    InBand = FALSE
    MayFail = TRUE
    MaxInfo = 1
CHECK_DEADLOCK FALSE
INVARIANT TypeOK
INVARIANT NoHang
INVARIANT NoHalfOpen
INVARIANT ActiveCallLasts
INVARIANT UplaneClosed
PROPERTY ReleaseEnds
PROPERTY SetupEnds
