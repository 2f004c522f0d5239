CONSTANTS
    Memory = 5
    Page = {1, 2, 3, 4, 5}
    Cr3 = {1, 2, 3, 4}
    Fb = 99
    FbPages = 2
    NoPage = 0
    RefMax = 2
    VaPages = 2
    MmapMin = 0
    Image = 1
    Tables = 2
    Task = {0, 1}
    Root = 0
    NoTask = 99
    Value = {0}
    Asked = {"none", "rw"}
    MaxLen = 2
    MaxAbandoned = 0
    MaxLost = 1
    MaxWaiting = 0
    Path <- TablePerPage
SPECIFICATION VmmSpec
INVARIANTS RefsCountMappings PagesAccounted SharersAgree
VIEW MappingView
