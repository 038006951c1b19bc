SPECIFICATION Spec
CONSTANTS
    Owners = {a, b}
    MaxBody = 2
    MaxSeq = 2
    MaxEpochs = 2
    MaxChanges = 2
    MaxSelected = 1
INVARIANTS NeverUnreadable
PROPERTIES ReadExact DeletionsProven
SYMMETRY Symmetry
CHECK_DEADLOCK FALSE
