SPECIFICATION FairSpec
CONSTANTS
    PortCount = 2
    WordSize = 1
    ManagedLimit = 1
    RetryCycle = 4
    HeartbeatTimeout = 0
    UnmanagedTimeout = 0
    StartInterval = 0
    StopTimeout = 0
    StopTimeouts = {0, 1}
    ResetTimeouts = {0}
    MaxTime = 2
    TickPoints = {}
    Commands = {"disable", "watch", "stop"}
    Faults = {"watchdog"}
    Silent = {0}
PROPERTIES
    StopEnds
