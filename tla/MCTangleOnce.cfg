CONSTANTS
    g = g
    a = a
    b = b
    c = c
    None = None
    Hash <- MCHash
    SEP <- MCSEP
    Trunk <- MCTrunk
    Branch <- MCBranch
    Writers = {w1, w2}
    ChanCapacity = 2
    MaxInserts <- Once
SPECIFICATION FairSpec
INVARIANTS NoLostSolidification DropDrains
PROPERTIES EventuallyConsistent Refinement
CHECK_DEADLOCK FALSE
