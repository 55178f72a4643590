CONSTANTS
    Contact = {p}
    Inbound = {}
    Ip <- MCIp
    Conn = {c1}
    None = None
    Capacity = 10
    ByteCapacity = 0
    MaxCommands = 3
    MaxMessages = 0
SPECIFICATION Spec
INVARIANTS RemovedContactDropped
CHECK_DEADLOCK FALSE
