CONSTANTS
    Contact = {p}
    Inbound = {q}
    Ip <- MCIp
    Conn = {c1, c2}
    None = None
    Capacity = 10
    ByteCapacity = 0
    MaxCommands = 3
    MaxMessages = 0
SPECIFICATION FairSpec
PROPERTIES KeepsTrying DroppedSenderEnds
CHECK_DEADLOCK FALSE
