\* Four requests on two channels and two entries; ids stay apart.
CONSTANTS
    Requests = {r1, r2, r3, r4}
    Channels = {c1, c2}
    max_hold_req_num = 2
    Load = "apart"
    NULL = NULL
SPECIFICATION FairSpec
INVARIANTS RightDelivery EntryKept
PROPERTIES AllDelivered
CHECK_DEADLOCK FALSE
