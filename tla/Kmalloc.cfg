SPECIFICATION Spec
CONSTANTS
    k1 = k1
    k2 = k2
    Contexts <- MCContexts
    HeaderSize = 2
    MinLog2 = 2
    MaxLog2 = 3
    PageLog2 = 5
    SlabLog2 = 6
    FooterSize = 44
    MaxBlockLog2 = 6
    NPages = 6
    Requests <- MCRequests
    Size <- Powers
    MaxLive = 5
SYMMETRY Symmetry
INVARIANTS
    NoCorruption
    PayloadsApart
    BlocksReturned
