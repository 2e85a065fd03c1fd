SPECIFICATION Spec
CONSTANTS
    PAGE_SIZE = 10
    PAGE_RESERVE = 2
    MXFS_BUFFER_SIZE = 9
    ANTP_RECORD_SIZE = 2
    GYRO_RECORD_SIZE = 2
    TEMPERATURE_RECORD_SIZE = 1
    COMPRESS_SIZE = 2
    TMM_SIZE = 2
    BLOCK_COUNT = 4
    PAGE_COUNT = 2
    BLOCK_START_DATA_AREA = 1
    MSEC = 2
    Sensors = {"speed", "temperature"}
    LINUX = FALSE
    EraseBlocks = {0}
    WriteBlocks = {}
    WritePages = {}
    DriverResults = {"OK"}
    PowerLossPoints = {"idle", "after_erase"}
    MaxTime = 9
    MaxBoots = 3
INVARIANTS TypeOK NoOverwrite AcknowledgedIsKept RetrievalComplete HiddenIsKnown
PROPERTIES EraseOnlyWhenFull
CHECK_DEADLOCK FALSE
