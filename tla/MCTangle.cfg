\* Writers are interchangeable and only invariants are checked, so symmetry
\* is sound.
CONSTANTS
    g = g
    a = a
    b = b
    c = c
    None = None
    Hash <- MCHash
    SEP <- MCSEP
    Trunk <- MCTrunk
    Branch <- MCBranch
    Writers = {w1, w2}
    ChanCapacity = 2
    MaxInserts <- Again
SYMMETRY Symmetry
SPECIFICATION Spec
INVARIANTS TypeOK SolidPastConePresent
CHECK_DEADLOCK FALSE
