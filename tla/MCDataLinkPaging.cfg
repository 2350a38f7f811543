SPECIFICATION FairSpec
CONSTANTS
    Link = {l1, l2}
    Peer = {p1}
    NoPeer = NoPeer
    NoLink = NoLink
    Mode = "FP"
    Paged = {p1}
    Protocol = {"CC"}
    MaxTv <- TvOneCall
    PageMax = 3
    CfmSends = FALSE
    MaxTrans = 2
    MaxSend = 2
    MaxLeak = 1
CHECK_DEADLOCK FALSE
INVARIANT TypeOK
INVARIANT NothingStuck
INVARIANT InOrder
INVARIANT SduTimeoutSafe
PROPERTY LifeCycle
PROPERTY EstablishmentEnds
PROPERTY ReleaseEnds
PROPERTY ServiceProvided
