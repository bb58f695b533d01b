CONSTANTS
    Editor = {e1}
    Mode = {"en"}
    Worker = {w1, w2}
    Nobody = nobody
    CallCap = 1
    PostCap = 1
SPECIFICATION FairSpec
INVARIANT IInv
PROPERTIES NothingAfterEnd EndCloses EarlyFocusServed
CHECK_DEADLOCK FALSE
