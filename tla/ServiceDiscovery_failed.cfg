\* A lookup fails; a later request finds the service without endpoints.
CONSTANTS
    Threads = {t1, t2}
    Forms <- MCForms
    ServiceOf <- MCServiceOf
    Registry <- MCRegistry
    service_tb_size = 4
    Limit = 2
    EtcdAnswers = {"nodes", "none"}
    Refusing <- MCRefusing
    MaxCalls = 4
    NULL = NULL
SPECIFICATION Spec
INVARIANTS NoUnsetEndpoint
CHECK_DEADLOCK FALSE
