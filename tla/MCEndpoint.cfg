\* Connections are interchangeable and only invariants are checked, so symmetry
\* is sound.
CONSTANTS
    Contact = {p}
    Inbound = {q}
    Ip <- MCIp
    Conn = {c1, c2}
    None = None
    Capacity = 1
    ByteCapacity = 0
    MaxCommands = 4
    MaxMessages = 1
SYMMETRY Symmetry
SPECIFICATION Spec
INVARIANTS TypeOK ViewMatchesOutbox SenderOnTheWay NeverAbandoned
CHECK_DEADLOCK FALSE
