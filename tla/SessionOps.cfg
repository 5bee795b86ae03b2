SPECIFICATION Spec
CONSTANTS
    Conns = {c1, c2}
    Busy = {c1}
    ApiType = 3
    Taken = {1, 3}
    Faults = {"refuse", "fail", "spawn", "die", "suvlet_die"}
    MaxOps = 5
    MaxLate = 1
INVARIANTS
    TypeOK
    MemoryAccounted
    Paired
PROPERTIES
    FreeOnlyOwn
    OperationsReturn
    SuvletEnds
