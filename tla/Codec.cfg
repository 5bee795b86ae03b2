SPECIFICATION Spec
CONSTANTS
    NULL = NULL
    Values <- MCValues
    MaxValues = 2
    MaxPackets = 2
INVARIANTS
    TypeOK
    Aligned
    Decoded
