\* Three processes, a ring of two bytes, counters that wrap at four; one of the
\* processes is watched for fairness.
SPECIFICATION FairSpec
CONSTANTS
    Procs = {p1, p2, p3}
    PIPESIZE = 2
    WRAP = 4
    Lens = {0, 1, 3}
    MaxBytes = 6
    BadBuffers = TRUE
    Watched = p1
    Nobody = Nobody
\* The pipe may be closed for good, and its holders may wait for each other.
CHECK_DEADLOCK FALSE
INVARIANTS RingKeepsOrder NoUseAfterFree EOFIsFinal
PROPERTIES WaitersReleased
