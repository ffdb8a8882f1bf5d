SPECIFICATION Spec
CONSTANTS
    MaxCommand = 2
    MaxSeq = 1
    MaxBatch = 2
    Cap = 20
    MaxLog = 5
    DataBodies = {"ok"}
    ResultBodies = {"ok"}
    Budgets <- DeliveryFaults
INVARIANTS TypeOK PipelineInv TurnInv NoSilentLoss CursorSettled TurnIsolation RealResultWins TerminalIsLast TerminalsAhead
PROPERTIES ReportKept
CHECK_DEADLOCK FALSE
