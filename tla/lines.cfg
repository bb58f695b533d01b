CONSTANTS
    MaxLine = 2
    MaxWire = 2
    PipeCap = 1
    ControlCap = 1
    Static = {s1}
    User = {u1, u2}
    Free = free
    MaxPacket = 2
    MaxLines = 2
    MaxOpen = 1
SPECIFICATION LineSpec
INVARIANTS IInv ChildGone PublicInv AnswerRead
PROPERTIES ClosedOutputFails RunReturns CallEnds
CHECK_DEADLOCK FALSE
