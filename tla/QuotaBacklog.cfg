SPECIFICATION Spec
CONSTANTS
    MaxItems = 2
    ControlReserve = 1
    MaxBytes = 2
    ReserveBytes = 1
    ReplySizes = {1, 3}
    MaxGui = 2
    MaxFetches = 1
    MaxRuns = 2
INVARIANTS AcceptedKept AppliedInOrder BudgetExact ControlAgrees
PROPERTIES Settles
CHECK_DEADLOCK FALSE
