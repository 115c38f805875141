\* Three mini blocks, three blocks of bucket 1 and one of bucket 2.
CONSTANTS
    SIZE_BITS = 20
    HEAP_LO = 32
    BlockSizes <- MCBlockSizes
SPECIFICATION Spec
PROPERTY
    FreeListRefinement
