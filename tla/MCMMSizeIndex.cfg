\* Every size up to twice the largest bucket bound, at a 20-bit size_t;
\* the calloc pairs at an 8-bit size_t.
CONSTANTS
    SIZE_BITS = 20
    N_MAX = 524352
SPECIFICATION Spec
INVARIANTS
    ListIndexMatchesSpec
    AdjustSizeMinimal
    CallocRejectsExactlyOverflow
