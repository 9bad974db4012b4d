CONSTANTS
    e1 = e1
    e2 = e2
    e3 = e3
    Executions <- MCExecutions
    TriggerTime <- MCTriggerTime
    Frequency <- MCFrequency
    Offset <- MCOffset
    HeaderSize <- MCHeaderSize
    FileMaxSize <- MCFileMaxSize
    MaxAttempts <- MCMaxAttempts
    Files <- MCFiles
    FileStart <- MCFileStart
    Rows <- MCRows
    RowFile <- MCRowFile
    RowTime <- MCRowTime
    RowSize <- MCRowSize
SPECIFICATION FairSpec
PROPERTY MapEnds
CHECK_DEADLOCK FALSE
