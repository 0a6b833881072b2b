SPECIFICATION PmmSpec
CONSTANTS
    OneMB = 2
    FourGB = 9
    KernelEnd = 3
    MaxOrder = 2
    Size <- MCSize
    ByteBits = 8
    PageBytes = 64
    PageTables = 2
    MaxNum = 5
    MemoryMaps <- SmallMaps
INVARIANTS
    NoDoubleUse
    Conserved
    ZonePromise
    NoSpuriousFailure
