\* Three buffers for four blocks, two of them held at a time.
SPECIFICATION Spec
CONSTANTS
    NBUF = 3
    Blocks = {n1, n2, n3, n4}
    Values = {v1, v2}
    MaxHeld = 2
    CopyFails = TRUE
SYMMETRY Symmetry
INVARIANTS CacheIsCoherent RefsProtect ListIsLRU
