SPECIFICATION Spec
CONSTANTS
    NPages = 7
    Overhead = 3
    MaxOrder = 1
    Size <- Powers
    Memories <- LowMemories
    FourGB = 100
    MaxOthers = 2
INVARIANTS
    FramesExclusive
    MappedExactly
    NothingLost
    OnlyOutOfMemory
