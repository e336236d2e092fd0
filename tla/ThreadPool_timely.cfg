\* Users that never run into the workers: right calls, in order, all of them.
CONSTANTS
    Workers = {w1, w2}
    Callers = {c1, c2}
    Jobs = {j1, j2}
    Eternal = {j1}
    NULL = NULL
    MaxWaitN = 1
    Load = "timely"
    SpawnFails = FALSE
    MaxCalls = 4
SPECIFICATION FairSpec
INVARIANTS RightCall
PROPERTIES ImplementsExecutor
CHECK_DEADLOCK FALSE
