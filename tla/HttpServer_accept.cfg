\* Four connections over a table of two entries, two event loops, failures.
CONSTANTS
    io_thread_num = 2
    event_loop_num = 2
    new_connection_map_size = 2
    Conns = {k1, k2, k3, k4}
    MayFail = {"acm", "sd", "pools", "bind", "epolls", "register"}
    NULL = NULL
SPECIFICATION FairSpec
INVARIANTS OneHolder ReadyToServe
PROPERTIES EverySettled
CHECK_DEADLOCK FALSE
