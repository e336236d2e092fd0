\* Two threads that release every block once.
CONSTANTS
    Pools = {p1, p2}
    Nodes = {n1, n2, n3, n4}
    MMPL_MAX_INDEX = 3
    MMPL_OLDEST_RANGE = 2
    max_free_index = 6
    Uninit = {1, 2, 3}
    MaxGets = 3
SYMMETRY Symmetry
SPECIFICATION Spec
INVARIANTS CountersExact OneOwner OldestTrimmed
CHECK_DEADLOCK FALSE
