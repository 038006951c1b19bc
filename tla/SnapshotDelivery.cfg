SPECIFICATION Spec
CONSTANTS
    Owners = {"s1", "s2"}
    MaxGen = 2
    MaxRetired = 1
    MaxSyncs = 1
    MaxFaults = 1
    MaxRestarts = 1
PROPERTIES ShowsCommittedViews GenerationSettled
CHECK_DEADLOCK FALSE
