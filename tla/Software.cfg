SPECIFICATION Spec
CONSTANTS
    Suvlets <- MCSuvlets
    s1 = s1
    s2 = s2
    MaxRuns = 3
    MaxLines = 1
    Room = 3
SYMMETRY MCSymmetry
CONSTRAINT NoMishap
INVARIANTS
    TypeOK
    ListWhole
    FetchWhole
