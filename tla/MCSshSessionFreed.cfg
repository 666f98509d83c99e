CONSTANTS
    sh = sh
    ex = ex
    t1 = t1
    Shells <- MCNone
    Tunnels <- MCTunnel
    Execs <- MCNone
SPECIFICATION Spec
CHECK_DEADLOCK FALSE
INVARIANT FreedNeverUsed
