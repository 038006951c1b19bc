SPECIFICATION Spec
CONSTANTS
    Owners = {a}
    MaxBody = 2
    MaxSeq = 3
    MaxEpochs = 2
    MaxChanges = 1
    MaxSelected = 1
INVARIANTS CorrectionAdvances
CHECK_DEADLOCK FALSE
