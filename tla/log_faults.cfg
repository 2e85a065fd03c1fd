SPECIFICATION Spec
CONSTANTS
    PAGE_SIZE = 10
    PAGE_RESERVE = 2
    MXFS_BUFFER_SIZE = 5
    ANTP_RECORD_SIZE = 2
    GYRO_RECORD_SIZE = 2
    TEMPERATURE_RECORD_SIZE = 1
    COMPRESS_SIZE = 2
    TMM_SIZE = 2
    BLOCK_COUNT = 3
    PAGE_COUNT = 2
    BLOCK_START_DATA_AREA = 1
    MSEC = 2
    Sensors = {"speed", "temperature"}
    LINUX = TRUE
    EraseBlocks = {}
    WriteBlocks = {0}
    WritePages = {1}
    DriverResults = {"OK", "ERR", "FAIL"}
    PowerLossPoints = {"idle", "after_erase", "in_erase", "in_write"}
    MaxTime = 5
    MaxBoots = 2
INVARIANTS BlockIsChronological
PROPERTIES ImplementsBuffers
CHECK_DEADLOCK FALSE
