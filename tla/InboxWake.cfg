SPECIFICATION InboxSpec
CONSTANTS
    MaxMessages = 2
    MaxBreaks = 1
    Page = 1
CHECK_DEADLOCK FALSE
INVARIANTS InboxInv NoLostWake
PROPERTIES GapsOnly Served
