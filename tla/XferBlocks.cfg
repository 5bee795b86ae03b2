SPECIFICATION Spec
CONSTANTS
    BlockSize = 2
    Lengths = {2}
    ApiVersions = {2, 3}
    Faults = {}
    MaxLate = 0
    MaxTarget = 9
INVARIANTS
    ZeroWithoutFault
