SPECIFICATION Spec
CONSTANTS
    MaxRestarts = 1
    MaxEdits = 1
    MaxCharts = 1
    MaxReports = 1
    MaxToggles = 1
    MaxFaults = 1
    MaxCrashes = 2
INVARIANTS AnsweredEditsShown
PROPERTIES CommitNotKilled
CHECK_DEADLOCK FALSE
