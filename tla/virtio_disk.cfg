\* Four descriptors, indices that wrap at eight, two buffers and two blocks.
SPECIFICATION FairSpec
CONSTANTS
    NUM = 4
    WRAP = 8
    Bufs = {x1, x2}
    NBLOCKS = 2
    SPB = 2
    Bytes = {0, 1}
    Errors = TRUE
    NoBuf = NoBuf
\* The machine may stop on a device error.
CHECK_DEADLOCK FALSE
INVARIANTS DeviceHasTheChain
PROPERTIES IsBlockDevice RequestsReturn
