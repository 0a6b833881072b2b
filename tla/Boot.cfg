SPECIFICATION FairBootSpec
CONSTANTS
    N = 3
    Tables <- SmallTables
    Results = {0, 1}
    Machines <- AllMachines
    Garbage = Garbage
    MemFeature = 1
    AddrSpace = 256
    EARLYALLOC_SZ = 115
    MaxArgs = 2
    MaxRanges = 2
    MaxEntries = 4
INVARIANTS
    StartedOnce
    InOrder
    EarlyApart
    TakenOver
PROPERTY
    BootEnds
