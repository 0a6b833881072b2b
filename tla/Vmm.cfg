SPECIFICATION Spec
CONSTANTS
    N = 7
    KernelStart = 3
    Pools <- MCPools
    DataFrames = {100}
    MapFlags <- MCFlags
    CallerPages <- MCPages
    Cached <- MCCached
    FrameLimit = 128
    MaxPages = 2
    MaxClones = 1
INVARIANTS
    TlbCoherent
    LookupRight
    FramesAccounted
PROPERTY
    AbstractSpec
