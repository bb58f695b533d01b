CONSTANTS
    Caller = {c1}
    Closer = {k1}
    Main = main
    Pump = pump
    Free = free
    MaxId = 2
    MaxWire = 2
    MaxWork = 3
    OutCap = 1
    PeerKind = {"welcome", "return", "call", "shutdown", "malformed"}
    Handler = TRUE
    Nested = TRUE
SPECIFICATION FairSpec
INVARIANTS IInv NoStrandedCall
PROPERTIES ImplementsChannel EndTold CallsEnd CallsAnswered PumpEnds
