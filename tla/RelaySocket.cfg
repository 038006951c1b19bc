SPECIFICATION Spec
CONSTANTS
    Lanes = {"a", "b"}
    ClientKinds = {"create", "cancel", "other"}
    MaxFrames = 3
    MaxReplays = 1
INVARIANTS ActivityExact RecordsSound
PROPERTIES DrainCompletes
CHECK_DEADLOCK FALSE
