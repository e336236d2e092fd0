\* Three requests over two connections, two threads, pieces of 1, 4 or 9 bytes.
CONSTANTS
    c1 = c1
    c2 = c2
    Channels = {c1, c2}
    Dubbo = dubbo
    Loops = {l1, l2}
    Sent <- MCSent
    Meaning <- MCMeaning
    Fields <- MCFields
    Result <- MCResult
    IdWidth = 2
    SizeWidth = 1
    Pieces = {1, 4, 9}
    NULL = NULL
SPECIFICATION FairSpec
INVARIANTS CutRight MeaningKept RightReply
PROPERTIES AllAnswered
CHECK_DEADLOCK FALSE
