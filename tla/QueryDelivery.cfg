SPECIFICATION QuerySpec
CONSTANTS
    MaxQueries = 2
    MaxPages = 1
    MaxActs = 3
    MaxGenerations = 2
    MaxFailures = 1
    MaxChildren = 1
INVARIANTS ResultsCovered
PROPERTIES NoObsoleteAnswer LastAskedAnswered
CHECK_DEADLOCK FALSE
