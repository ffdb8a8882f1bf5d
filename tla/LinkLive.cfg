SPECIFICATION LinkSpec
CONSTANTS
    MaxConnect = 3
    MaxFaults = 1
INVARIANTS RegisteredHandlerRuns
PROPERTIES KickedLeaves PresenceHeals
CHECK_DEADLOCK FALSE
