SPECIFICATION Spec
CONSTANTS
    MaxRestarts = 1
    MaxEdits = 1
    MaxCharts = 0
    MaxReports = 1
    MaxToggles = 1
    MaxFaults = 1
    MaxCrashes = 1
PROPERTIES RequestsSettled
CHECK_DEADLOCK FALSE
