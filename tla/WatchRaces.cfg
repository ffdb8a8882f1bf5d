SPECIFICATION Spec
CONSTANTS
    MaxSeq = 2
    BufSize = 1
    MaxAttempts = 1
    Handlers = {h1, h2}
    MaxFaults = 1
INVARIANTS StreamInv Accounted
PROPERTIES WatchEnds
CHECK_DEADLOCK FALSE
