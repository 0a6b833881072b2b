SPECIFICATION Spec
CONSTANTS
    NSlabs = 1
    SlabSize = 32
    FooterSize = 4
    ObjSize = 4
PROPERTY
    NoDoubleHandout
