SPECIFICATION Spec
CONSTANTS
    Conns = {c1}
    Busy = {c1}
    ApiType = 3
    Taken = {3}
    Faults = {"spawn"}
    MaxOps = 5
    MaxLate = 3
INVARIANTS
    OkayMeansRuns
