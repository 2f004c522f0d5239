CONSTANTS
    Memory = 9
    Page = {1, 2, 3, 4, 5, 6}
    Cr3 = {1, 2, 3, 4, 5}
    Fb = 99
    FbPages = 1
    NoPage = 0
    RefMax = 2
    VaPages = 1
    MmapMin = 1
    Image = 1
    Tables = 1
    Task = {0, 1, 2}
    Root = 0
    NoTask = 99
    Value = {0}
    Asked = {"none", "r", "rw"}
    MaxLen = 0
    MaxAbandoned = 1
    MaxLost = 0
    MaxWaiting = 1
    Path <- OneTable
SPECIFICATION VmmSpec
INVARIANTS RefsCountMappings PagesAccounted SpacesOwned
VIEW MappingView
