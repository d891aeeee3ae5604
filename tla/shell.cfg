\* A buffer of 12 characters, a console that takes 9, pages of 4, ints of 8 bits.
SPECIFICATION Spec
CONSTANTS
    LINE_WIDTH = 12
    CONSOLE_MAX = 9
    STR_MAX = 9
    SS = 2
    PGSIZE = 4
    BufferAt = 3
    INTBITS = 8
    Chars <- AB
    Apps <- Programs
    NAME_MAX = 5
    LINE_MAX = 5
    Formats <- Prints
    Memory <- Image
    Writes <- Ranges
    Codes <- ExitCodes
    MaxKeys = 4
    MaxOps = 3
    MaxPid = 4
\* The shell may be gone, and pids are bounded.
CHECK_DEADLOCK FALSE
INVARIANTS OutputIsComplete ScreenShowsLine CommandIsWhatIsShown StatusReadsBack
