\* Three requests through two slots, resets and full sockets at any moment.
CONSTANTS
    r1 = r1
    r2 = r2
    r3 = r3
    Requests = {r1, r2, r3}
    IoThreads = {t1, t2}
    DataSize <- MCDataSize
    HeadSize = 2
    max_write_queue_len = 2
    MayBreak = TRUE
    NULL = NULL
SPECIFICATION FairSpec
INVARIANTS SingleConsumer CalledWithTask StreamIntact
PROPERTIES EventuallySent
CHECK_DEADLOCK FALSE
