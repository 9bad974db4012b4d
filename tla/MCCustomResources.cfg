CONSTANTS
    MaxWork = 4
SPECIFICATION Spec
INVARIANT TypeOK
 
INVARIANT BlockedByFailedWork
 
CHECK_DEADLOCK FALSE
