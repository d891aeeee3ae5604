\* Three processes with two descriptors each, three files, two pipes.
SPECIFICATION Spec
CONSTANTS
    Procs = {p1, p2, p3}
    Boot = p1
    FILE_MAX = 3
    FD_MAX = 5
    NPIPE = 2
\* The last process may exit.
CHECK_DEADLOCK FALSE
INVARIANTS CountsAreExact PipeOutlivesFiles
