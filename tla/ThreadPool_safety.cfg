\* The pool as the code has it: a ring of two slots, no assumption on its users.
CONSTANTS
    Workers = {w1, w2}
    Callers = {c1, c2}
    Jobs = {j1, j2}
    Eternal = {}
    NULL = NULL
    MaxWaitN = 1
    Load = "any"
    SpawnFails = TRUE
    MaxCalls = 4
SYMMETRY Symmetry
SPECIFICATION Spec
INVARIANTS SemaphoreAccounting FetchedIsWritten ReadyMeansStarted
CHECK_DEADLOCK FALSE
