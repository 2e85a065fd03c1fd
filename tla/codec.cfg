SPECIFICATION Spec
CONSTANTS
    PAGE_SIZE = 24
    PAGE_RESERVE = 4
    MXFS_BUFFER_SIZE = 40
    ANTP_RECORD_SIZE = 3
    GYRO_RECORD_SIZE = 3
    TEMPERATURE_RECORD_SIZE = 2
    COMPRESS_SIZE = 2
    TMM_SIZE = 1
    MSEC = 4
    UINT32 = 64
    MSEC_FIELD = 5
    STEP_FIELD = 3
    ANT_FIELD = 8
    GYR_FIELD = 16
    TMP_FIELD = 16
    RBF_SIZE = 26
    Sensors = {"speed", "gyro", "accelerometer", "temperature"}
    StartTime = 3
    Ticks = {1, 4}
    MaxRecords = 5
    Epochs = {0, 1, 3, 9}
INVARIANTS TypeOK ReadReturnsAppended WalkStaysInPage TimerangeBrackets CsvShowsRecords SearchFindsAnt
CHECK_DEADLOCK FALSE
