SPECIFICATION ReminderSpec
CONSTANTS
    MaxFires = 2
    Backoff = 2
    MaxFaults = 1
INVARIANTS ReminderInv
PROPERTIES FiresOnTime MissEarned Delivered
CHECK_DEADLOCK FALSE
