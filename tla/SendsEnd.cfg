SPECIFICATION FairSpec
CONSTANTS
    Msgs = {m1, m2}
    NumChunks = 1
    Ids = {i1}
    MaxAttempts = 1
    None = None
INVARIANT NoLeakedWaiter
PROPERTIES StopEndsSends CancelEndsSend
CHECK_DEADLOCK FALSE
