\* Four responses in pieces of any size; the peer may close at any time.
CONSTANTS
    IoThreads = {t1, t2}
    Start <- MCStart
    HeadSize = 2
    MayClose = TRUE
SPECIFICATION FairSpec
INVARIANTS CutRight SingleReader
PROPERTIES AllDispatched
CHECK_DEADLOCK FALSE
