\* Two names, one the beginning of the other.
SPECIFICATION Spec
CONSTANTS
    FSSIZE = 11
    NMETA = 3
    BSIZE = 2
    NDIRECT = 1
    NINODES = 5
    NINODE = 3
    DIRSIZ = 3
    Names <- Prefixed
    Handles = {1, 2}
    Sources <- Three
    Reads = {6}
    Goods = {1}
    Images <- OneDisk
    MaxCalls = 5
    MaxCrash = 0
\* The number of calls is bounded, and the kernel may have panicked.
CHECK_DEADLOCK FALSE
PROPERTY UnlinkClearsItsEntry
