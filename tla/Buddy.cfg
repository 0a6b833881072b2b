SPECIFICATION FairSpec
CONSTANTS
    MaxOrder = 3
    NPages = 12
    Size <- MCSize
    Ranges <- MCRanges
INVARIANTS
    NoOverlap
    Accounted
    AllocComplete
PROPERTIES
    AbstractSpec
    CallReturns
