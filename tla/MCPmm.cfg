CONSTANTS
    PageSize = 4
    MinPage = 1
    TrackPages = 10
    PhysPages = 11
    MaxRegions = 2
    MaxReserved = 6
    RefMax = 3
    KernelBase = 17
    KernelEnd = 19
    BootTables = {6}
    MemMap <- MCMemMap
    ReserveRanges <- MCReserveRanges
SPECIFICATION PmmSpec
INVARIANTS PmmTypeOK FreeCountExact RefsTrackAllocation OnlySafePagesInUse
PROPERTY ImplementsPagePool
