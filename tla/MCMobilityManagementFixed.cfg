SPECIFICATION FairSpec
CONSTANTS
    Requests <- FixedPart
    Assigns = {"none"}
    Faulty = {"FP", "PP"}
    MayFail = FALSE
    MaxRequests = 3
CHECK_DEADLOCK FALSE
INVARIANT NoCrash
INVARIANT ConfirmedOnce
INVARIANT RequestTimed
PROPERTY RequestEnds
