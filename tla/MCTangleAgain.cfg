CONSTANTS
    g = g
    a = a
    b = b
    c = c
    None = None
    Hash <- MCHash
    SEP <- MCSEP
    Trunk <- MCTrunk
    Branch <- MCBranch
    Writers = {w1}
    ChanCapacity = 1
    MaxInserts <- Again
SPECIFICATION FairSpec
PROPERTIES EventuallyConsistent
CHECK_DEADLOCK FALSE
