SPECIFICATION Spec
CONSTANTS
    a = a
    b = b
    percent = percent
    proc = proc
    snip = snip
    NoDb = NoDb
    Lines = {a, b, percent, proc, snip}
    FindErrors = {proc}
    Stored <- MCStored
    Fragment <- MCFragment
    CutEnds <- MCCutEnds
    FirstDbs <- MCFirstDbs
    MaxOut = 2
INVARIANTS
    TypeOK
    NothingMissed
    DbReported
PROPERTIES
    Searches
    Returns
