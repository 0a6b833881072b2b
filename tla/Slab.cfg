SPECIFICATION Spec
CONSTANTS
    NSlabs = 3
    SlabSize = 64
    FooterSize = 4
    ObjSize = 16
INVARIANTS
    BitmapsExact
    EmptyValid
    SlabsLinked
PROPERTY
    NoDoubleHandout
