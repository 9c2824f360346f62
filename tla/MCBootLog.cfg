SPECIFICATION Spec
CONSTANTS
    Capacity = 3
    ByteSize = 6
    Times = {t1, t2}
    Torn = Torn
INVARIANT TypeOK
PROPERTY ImplementsHistory
