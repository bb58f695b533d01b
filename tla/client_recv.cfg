CONSTANTS
    Caller = {c1, c2}
    Sender = {c2}
    Consumer = {r1}
    Closer = {k1}
    Reader = reader
    Free = free
    MaxId = 1
    MaxWire = 2
    MaxWork = 2
    OutCap = 1
    PeerKind = {"return", "event", "empty", "shutdown"}
SPECIFICATION FairSpec
CONSTRAINT Apart
INVARIANTS EndTrue WireOrder
PROPERTIES RunDeliversAll TerminationEnds
