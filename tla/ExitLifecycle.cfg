SPECIFICATION Spec
CONSTANTS
    MaxInst = 2
    MaxRuns = 2
    MaxOps = 2
    MaxEvents = 1
INVARIANTS DirectRouteHasResumeIntent RoutedRelayServes CleanExitFlushed CutoverExclusive OverridesStick
PROPERTIES CancelKeepsServices CommittedExitEnds
CHECK_DEADLOCK FALSE
