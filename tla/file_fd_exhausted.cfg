\* One descriptor left when the pipe is made.
SPECIFICATION Spec
CONSTANTS
    Procs = {p1, p2, p3}
    Boot = p1
    FILE_MAX = 4
    FD_MAX = 5
    NPIPE = 1
\* The last process may exit.
CHECK_DEADLOCK FALSE
INVARIANTS WriteopenMeansOpen
