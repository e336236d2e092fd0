\* Readers that end before their response is written, a first request in one
\* piece; the client may close or reset at any time.
CONSTANTS
    IoThreads = {t1, t2}
    Requests <- MCRequests
    BufferSize = 18
    ResponseSize = 2
    MayBreak = TRUE
    Load = "calm"
SPECIFICATION FairSpec
INVARIANTS OneThread HandledWhole ResponsesRight NoUseAfterRelease
PROPERTIES Answered
CHECK_DEADLOCK FALSE
