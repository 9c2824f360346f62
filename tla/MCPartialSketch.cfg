SPECIFICATION Spec
CHECK_DEADLOCK FALSE
CONSTANTS
    PageCount = 3
    TimeoutPeriod = 2
    EndTimeout = 1
    Faults = {"power"}
INVARIANTS
    OnlyWholeSketchRuns
