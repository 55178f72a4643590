CONSTANTS
    Contact = {p}
    Inbound = {}
    Ip <- MCIp
    Conn = {c1, c2}
    None = None
    Capacity = 10
    ByteCapacity = 0
    MaxCommands = 2
    MaxMessages = 0
SPECIFICATION FairSpec
PROPERTIES LossIsNoticed
CHECK_DEADLOCK FALSE
