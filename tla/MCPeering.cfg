CONSTANTS
    Ep = {p, q}
    Addr <- MCAddr
    Session = {s1, s2}
    None = None
    MaxBytes = 3
SPECIFICATION FairSpec
INVARIANTS TypeOK NoGhostPeer ListedPeerCanSend SoundUnlessOverlapped
PROPERTIES OrphanStops DisconnectedIsForgotten
CHECK_DEADLOCK FALSE
