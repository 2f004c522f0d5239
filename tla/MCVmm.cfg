CONSTANTS
    Memory = 6
    Page = {1, 2, 3, 4, 5}
    Cr3 = {1, 2, 3, 4}
    Fb = 99
    FbPages = 1
    NoPage = 0
    RefMax = 2
    VaPages = 1
    MmapMin = 0
    Image = 1
    Tables = 1
    Task = {0, 1}
    Root = 0
    NoTask = 99
    Value = {0, 1}
    Asked = {"none", "r", "rw"}
    MaxLen = 1
    MaxAbandoned = 1
    MaxLost = 1
    MaxWaiting = 0
    Path <- OneTable
SPECIFICATION VmmSpec
INVARIANTS RefsCountMappings Isolation ProtectionHonoured
VIEW CanonicalView
