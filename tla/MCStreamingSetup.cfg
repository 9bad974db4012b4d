CONSTANTS
    MaxPolls = 2
SPECIFICATION Spec
INVARIANT TypeOK
INVARIANT NoUnmappedDocument
INVARIANT CompleteIsReady
 
CHECK_DEADLOCK FALSE
