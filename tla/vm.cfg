\* Two slots, programs of one and two pages, and memory for less than two
\* processes with all their mappings.
SPECIFICATION Spec
CONSTANTS
    Procs = {p1, p2}
    Frames = {1, 2, 3, 4, 5, 6, 7, 8, 9, 10, 11, 12, 13}
    PGSIZE = 2
    Radix = 3
    MaxVpn = 8
    Images = {1, 2}
    Maps <- MCMaps
    Unmaps <- MCUnmaps
    MaxCalls = 6
    None = None
    Zero = Zero
    Fixed = Fixed
    Nobody = Nobody
\* The kernel stops in a panic, or when the last process has exited.
CHECK_DEADLOCK FALSE
SYMMETRY Symmetry
INVARIANTS TypeOK OneOwner NothingVanishes ImageIsComplete MmapMapsAll
