SPECIFICATION Spec
CONSTANTS
    Threads = {t1}
    NoThread = NoThread
    MallocMayFail = FALSE
PROPERTIES ReleaseReturns
CHECK_DEADLOCK FALSE
