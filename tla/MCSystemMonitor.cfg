SPECIFICATION FairSpec
CHECK_DEADLOCK FALSE
CONSTANTS
    DeviceCount = 3
    Checks <- MCChecks
    Limits <- MCLimits
    DefaultLimits <- MCDefaultLimits
    ByteSize = 4
    Faults = {"power"}
INVARIANTS
    TypeOK
    PoweredIsWatched
    DeadUnpowered
    PowersOnlyPresent
PROPERTIES
    BootGivesUp
    OffDevicesRetried
