SPECIFICATION Spec
CONSTANTS
    p1 = p1
    p2 = p2
    Portable = {p1, p2}
    Foreign = {p1}
    IpuiOf <- Ipuis
    Assignable <- Tpuis
    Leftover <- FirstTpui
    Asked <- Connections
    ForeignFrame <- OtherPages
    MaxUnderWay = 1
CHECK_DEADLOCK FALSE
INVARIANT TableAgrees
PROPERTY PagedAnswers
PROPERTY OthersSilent
