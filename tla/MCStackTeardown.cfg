CONSTANTS
    x1 = x1
    x2 = x2
    Executions = {x1, x2}
    Trigger = x1
SPECIFICATION TSpec
INVARIANT TypeOK
INVARIANT NoClusterLeftBehind
 
PROPERTY ClusterEnds
 
CHECK_DEADLOCK FALSE
