SPECIFICATION Spec
CONSTANTS
    Ports = {0, 3}
    WordSize = 4
    ManagedLimit = 3
    RetryCycle = 2
    HeartbeatTimeout = 0
    UnmanagedTimeout = 0
    StartInterval = 0
    StopTimeout = 0
    StopTimeouts = {0}
    MaxTime = 1
    Commands = {"stop"}
    Faults = {}
    Silent = {0}
PROPERTIES
    OnlyEnabledStart
