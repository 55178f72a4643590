CONSTANTS
    g = g
    a = a
    m = m
    n = n
    None = None
    Hash <- MCLiveHash
    SEP <- MCSEP
    Trunk <- MCLiveTrunk
    Branch <- MCLiveBranch
    BundleField <- MCLiveBundleField
    IsTail <- MCLiveIsTail
    Watched <- MCLiveWatched
    Index <- MCIndex
    MsBundle <- MCLiveMsBundle
    Snap = 1
    Public = {a}
    RequestRange = 2
    Capacity = 0
    MaxPeers = 1
    MaxJoins = 1
    MaxLost = 1
    MaxAgain = 0
SPECIFICATION FairSpec
PROPERTIES TransactionProcessed
CHECK_DEADLOCK FALSE
