CONSTANTS
    Editor = {e1, e2}
    Mode = {"en", "zh"}
    Worker = {w1, w2}
    Nobody = nobody
    CallCap = 2
SPECIFICATION FairSpec
INVARIANT IInv
PROPERTY RequestsTaken
CHECK_DEADLOCK FALSE
