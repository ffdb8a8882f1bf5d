SPECIFICATION Spec
CONSTANTS
    MaxConnect = 2
    MaxFaults = 1
    Steers = {s1}
INVARIANTS ControlInv ControlKept CancelStops
CHECK_DEADLOCK FALSE
