CONSTANTS
    MaxLine = 1
    MaxWire = 1
    PipeCap = 1
    ControlCap = 1
SPECIFICATION Spec
INVARIANT MalformedFails
CHECK_DEADLOCK FALSE
