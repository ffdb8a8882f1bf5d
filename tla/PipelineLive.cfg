SPECIFICATION FairSpec
CONSTANTS
    MaxCommand = 2
    MaxSeq = 1
    MaxBatch = 2
    Cap = 20
    MaxLog = 3
    DataBodies = {"ok"}
    ResultBodies = {"ok", "bad"}
    Budgets <- LiveFaults
PROPERTIES BarrierReleases TerminalReported
CHECK_DEADLOCK FALSE
