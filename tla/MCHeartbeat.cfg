SPECIFICATION FairSpec
CONSTANTS
    Threshold = 4
    ByteSize = 10
    MaxGap = 3
INVARIANTS
    AtMostOneLate
PROPERTIES
    NoWrap
    LiveDeviceHeard
