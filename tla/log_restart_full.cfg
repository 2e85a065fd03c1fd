SPECIFICATION Spec
CONSTANTS
    PAGE_SIZE = 10
    PAGE_RESERVE = 2
    MXFS_BUFFER_SIZE = 9
    ANTP_RECORD_SIZE = 2
    GYRO_RECORD_SIZE = 2
    TEMPERATURE_RECORD_SIZE = 1
    COMPRESS_SIZE = 2
    TMM_SIZE = 2
    BLOCK_COUNT = 3
    PAGE_COUNT = 2
    BLOCK_START_DATA_AREA = 1
    MSEC = 2
    Sensors = {"speed"}
    LINUX = FALSE
    EraseBlocks = {}
    WriteBlocks = {}
    WritePages = {}
    DriverResults = {"OK"}
    PowerLossPoints = {"idle"}
    MaxTime = 8
    MaxBoots = 2
PROPERTIES RecycleOldest
CHECK_DEADLOCK FALSE
