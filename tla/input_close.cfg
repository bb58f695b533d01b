CONSTANTS
    Editor = {e1}
    Mode = {"en"}
    Worker = {w1, w2}
    Nobody = nobody
    CallCap = 2
SPECIFICATION Spec
INVARIANT HideOrdered
CHECK_DEADLOCK FALSE
