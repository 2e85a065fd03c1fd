SPECIFICATION Spec
CONSTANTS
    PAGE_SIZE = 24
    PAGE_RESERVE = 3
    MXFS_BUFFER_SIZE = 20
    ANTP_RECORD_SIZE = 4
    GYRO_RECORD_SIZE = 3
    TEMPERATURE_RECORD_SIZE = 1
    COMPRESS_SIZE = 2
    TMM_SIZE = 2
    Sensors = {"speed", "power", "cadence", "gyro", "accelerometer", "temperature"}
INVARIANTS TypeOK LengthMatchesCount ImageFitsPage StagingFitsBuffer
