SPECIFICATION Spec
CONSTANTS
    MaxCommand = 2
    MaxRestarts = 1
    Handlers = {h1, h2}
SYMMETRY Symmetry
INVARIANTS RowsInv AckedClosed ClosedUntracked TrackedTurn
PROPERTIES AnchorsStand
