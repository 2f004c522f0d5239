CONSTANTS
    Memory = 8
    Page = {1, 2, 3, 4, 5}
    Cr3 = {1, 2, 3, 4}
    Fb = 99
    FbPages = 1
    NoPage = 0
    RefMax = 3
    VaPages = 1
    MmapMin = 1
    Image = 1
    Tables = 1
    Task = {0, 1, 2}
    Root = 0
    NoTask = 99
    Value = {0, 1}
    Asked = {"none", "r", "rw"}
    MaxLen = 0
    MaxAbandoned = 0
    MaxLost = 0
    MaxWaiting = 1
    Path <- OneTable
SPECIFICATION VmmSpec
INVARIANTS VmmTypeOK RefsCountMappings Isolation
VIEW CanonicalView
