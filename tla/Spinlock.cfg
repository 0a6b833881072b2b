SPECIFICATION FairSpec
CONSTANTS
    c1 = c1
    c2 = c2
    CPUs = {c1, c2}
    NLocks = 3
    Wanted <- Contended
    Nested <- KernelNesting
INVARIANTS
    MutualExclusion
    MaskedWhileHeld
    FlagRestored
PROPERTY
    AcquireReturns
