SPECIFICATION Spec
CONSTANTS
    h1 = h1
    h2 = h2
    u1 = u1
    i1 = i1
    i2 = i2
    TypeId = {1}
    HeapPtr <- MCHeapPtr
    UserPtr <- MCUserPtr
    InfoAddr <- MCInfoAddr
    HashSize = 2
    TypeHash <- MCTypeHash
    PtrHash <- MCPtrHash
    MaxSize = 2
    AllocSizes = {1, 2}
    CallocCounts = {2}
    ReallocSizes = {1, 2}
PROPERTIES
    ReallocKeepsData
