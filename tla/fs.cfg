\* Eight data blocks of two units, files of one direct and up to two indirect blocks,
\* three itable entries; the machine is started again once.
SPECIFICATION Spec
CONSTANTS
    FSSIZE = 11
    NMETA = 3
    BSIZE = 2
    NDIRECT = 1
    NINODES = 5
    NINODE = 3
    DIRSIZ = 3
    Names <- Apart
    Handles = {1, 2}
    Sources <- Three
    Reads = {6}
    Goods = {1}
    Images <- Disks
    MaxCalls = 5
    MaxCrash = 1
\* The number of calls is bounded, and the kernel may have panicked.
CHECK_DEADLOCK FALSE
INVARIANTS BlocksHaveOneOwner OnlyRoomRunsOut HandlesHoldInodes
PROPERTIES KeepsFiles
