CONSTANTS
    sh = sh
    ex = ex
    t1 = t1
    Shells <- MCNone
    Tunnels <- MCNone
    Execs <- MCNone
SPECIFICATION Spec
CHECK_DEADLOCK FALSE
PROPERTY ClosingCloses
