CONSTANTS
    Caller = {c1}
    Sender = {}
    Consumer = {r1}
    Closer = {k1}
    Reader = reader
    Free = free
    MaxId = 1
    MaxWire = 2
    MaxWork = 2
    OutCap = 1
    PeerKind = {"shutdown"}
SPECIFICATION Spec
INVARIANT ShutdownTold
