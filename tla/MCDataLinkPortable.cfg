SPECIFICATION Spec
CONSTANTS
    Link = {l1, l2}
    Peer = {p1}
    NoPeer = NoPeer
    NoLink = NoLink
    Mode = "PP"
    Paged = {}
    Protocol = {"CC", "CISS", "MM"}
    MaxTv <- TvOneCall
    PageMax = 3
    CfmSends = TRUE
    MaxTrans = 2
    MaxSend = 2
    MaxLeak = 1
SYMMETRY LinkSymmetry
CHECK_DEADLOCK FALSE
INVARIANT WalkIntact
INVARIANT OwnTvUnique
