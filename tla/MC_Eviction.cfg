\* Two transactions over two keys (one inline, one with a heap-allocated
\* name) in a table of one-slot segments, so that every second insertion
\* meets a full table; started in cache or in store mode, with a budget
\* that has room for one more segment or none.
CONSTANTS
    k1 = k1
    k2 = k2
    k3 = k3
    vs = vs
    vb = vb
    a = a
    b = b
    Absent = Absent
    Keys = {k1, k2}
    Vals = {vs, vb}
    BigVals = {vb}
    KeyLen <- MCKeyLen
    InlineLen = 1
    Clients = {a, b}
    SegCap = 1
    SegBytes = 2
    SoftLimit = 1
    BytesPerObject = 1
    InitBudgets = {1, 4}
    ApplyMemoryLimit = TRUE
    MaxEvictPerHb = 1
    Goals = {1, 3}
    MaxOps = 4
SPECIFICATION Spec
INVARIANTS
    TypeOK
    ObjMemoryExact
    EvictionsReplicated
PROPERTIES
    StickyNeverEvicted
    LockedKeysStable
