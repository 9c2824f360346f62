SPECIFICATION FairSpec
CHECK_DEADLOCK FALSE
CONSTANTS
    PageCount = 4
    TimeoutPeriod = 3
    EndTimeout = 2
    Faults = {"power", "host"}
INVARIANTS
    TypeOK
    NodeControllerServed
PROPERTIES
    UpdateEnds
