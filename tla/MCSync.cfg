CONSTANTS
    g = g
    a = a
    m = m
    n = n
    None = None
    Hash <- MCHash
    SEP <- MCSEP
    Trunk <- MCTrunk
    Branch <- MCBranch
    BundleField <- MCBundleField
    IsTail <- MCIsTail
    Watched <- MCWatched
    Index <- MCIndex
    MsBundle <- MCMsBundle
    Snap = 1
    Public = {n, a}
    RequestRange = 2
    Capacity = 0
    MaxPeers = 1
    MaxJoins = 1
    MaxLost = 0
    MaxAgain = 1
SPECIFICATION Spec
INVARIANTS TypeOK SolidIndexSound SyncedIsComplete MilestoneNotMissed
CHECK_DEADLOCK FALSE
