SPECIFICATION SupervisorSpec
CONSTANTS
    MaxUpgrades = 2
    MaxFaults = 3
INVARIANTS SupervisorInv
PROPERTIES WorkerReturns
CHECK_DEADLOCK FALSE
