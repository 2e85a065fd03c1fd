SPECIFICATION Spec
CONSTANTS
    Threads = {t1, t2, t3}
    NoThread = NoThread
    MallocMayFail = TRUE
INVARIANTS TypeOK OneInstance ReleaseIsCounted
CHECK_DEADLOCK FALSE
