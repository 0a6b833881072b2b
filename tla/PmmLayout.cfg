SPECIFICATION PmmSpec
CONSTANTS
    OneMB = 256
    FourGB = 1048576
    KernelEnd = 336
    MaxOrder = 16
    Size <- MCSize
    ByteBits = 8
    PageBytes = 4096
    PageTables = 3
    MaxNum = 1
    MemoryMaps <- PCMap
INVARIANT
    HandedOutRegistered
