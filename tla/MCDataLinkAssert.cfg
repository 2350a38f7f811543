SPECIFICATION Spec
CONSTANTS
    Link = {l1, l2}
    Peer = {p1}
    NoPeer = NoPeer
    NoLink = NoLink
    Mode = "PP"
    Paged = {}
    Protocol = {"CC"}
    MaxTv <- TvTwoCalls
    PageMax = 3
    CfmSends = FALSE
    MaxTrans = 2
    MaxSend = 3
    MaxLeak = 1
SYMMETRY LinkSymmetry
CHECK_DEADLOCK FALSE
INVARIANT DestroyOnlyIdle
