SPECIFICATION FairSpec
CONSTANTS
    MaxCommand = 2
    MaxSeq = 1
    MaxBatch = 2
    Cap = 20
    MaxLog = 4
    DataBodies = {"ok"}
    ResultBodies = {"summary"}
    Budgets <- NoFault
PROPERTIES TerminalReported
CHECK_DEADLOCK FALSE
