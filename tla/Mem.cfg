SPECIFICATION FairSpec
CONSTANTS
    h1 = h1
    h2 = h2
    u1 = u1
    i1 = i1
    i2 = i2
    TypeId = {1, 2}
    HeapPtr <- MCHeapPtr
    UserPtr <- MCUserPtr
    InfoAddr <- MCInfoAddr
    HashSize = 2
    TypeHash <- MCTypeHash
    PtrHash <- MCPtrHash
    MaxSize = 2
    AllocSizes = {0, 2}
    CallocCounts = {1}
    ReallocSizes = {1, 2}
INVARIANTS
    TypeOK
    TablesAgree
PROPERTIES
    FreeAllExact
    FreeAllReturns
    BytesKept
    Refines
