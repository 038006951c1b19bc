SPECIFICATION Spec
CONSTANTS
    MaxInst = 3
    MaxOps = 2
    MaxTries = 2
    MaxCrashes = 1
    MaxFaults = 1
    UserActs = {"cancel", "off"}
INVARIANTS SourceAccounted
PROPERTIES CancelPreventsCutover JournalEnds CutoverResultConsumed
CHECK_DEADLOCK FALSE
