\* Two threads, first requests at once, failures of etcd and of connections.
CONSTANTS
    Threads = {t1, t2}
    Forms <- MCForms
    ServiceOf <- MCServiceOf
    Registry <- MCRegistry
    service_tb_size = 4
    Limit = 2
    EtcdAnswers = {"nodes", "none", "null_value"}
    Refusing <- MCRefusing
    MaxCalls = 4
    NULL = NULL
SPECIFICATION FairSpec
INVARIANTS FoundOnce NotWalkedWhileBuilt RightService LimitKept LeastLoaded
PROPERTIES HandlerReturns
CHECK_DEADLOCK FALSE
