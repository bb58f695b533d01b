CONSTANTS
    Caller = {c1, c2}
    Sender = {c1, c2}
    Consumer = {}
    Closer = {k1}
    Reader = reader
    Free = free
    MaxId = 1
    MaxWire = 2
    MaxWork = 3
    OutCap = 1
    PeerKind = {"return"}
SYMMETRY Symmetry
SPECIFICATION Spec
INVARIANTS IInv NoStrandedCall TimeoutHonest
PROPERTY ImplementsRpc
