SPECIFICATION Spec
CONSTANTS
    Msgs = {m1}
    NumChunks = 2
    Ids = {i1, i2}
    MaxAttempts = 2
    None = None
SYMMETRY Symmetry
INVARIANTS TypeOK AtMostOnce NoLeakedWaiter NoOrphanWaiter ContextErrorMeansNothingSent SuccessMeansQueued ChunksInOrder
PROPERTIES TerminalDecidedOnce KeepsPromise
CHECK_DEADLOCK FALSE
