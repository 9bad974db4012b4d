CONSTANTS
    x1 = x1
    x2 = x2
    f1 = f1
    Executions = {x1, x2}
    Trigger = x1
    Files = {f1}
    Writer <- MCWriter
    Directory <- MCDirectory
    Rows <- MCRows
    ChunkSize = 2
    Deliveries = {1, 2}
    MaxAttempts = 2
SPECIFICATION FairSpec
INVARIANT TypeOK
INVARIANT DeletedWasSent
PROPERTY FileLeaves
CHECK_DEADLOCK FALSE
