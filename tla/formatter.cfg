SPECIFICATION Spec
CONSTANTS
    UINT16_MAX = 65535
    BLOCK_COUNT = 2
    PAGE_COUNT = 2
    CMD_SIZE = 14
    HEADER_SIZE = 6
    SPARE_SIZE = 2
    ANT_FIELD = 4
    BlockRanges <- MCBlockRanges
    PageRanges <- MCPageRanges
    ConfigSizes = {0, 3, 9, 10}
    EraseFails = TRUE
INVARIANTS TypeOK FormatClears CheckVerdict ReportComplete ConfigReadsBack
PROPERTIES DataOutsideSurvives CommandEnds
