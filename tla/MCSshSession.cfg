CONSTANTS
    sh = sh
    ex = ex
    t1 = t1
    Shells <- MCShells
    Tunnels <- MCTunnel
    Execs <- MCExecs
SPECIFICATION Spec
CHECK_DEADLOCK FALSE
INVARIANTS
    TypeOK
    PendingBelongs
    CheckedBeforeAuth
    ServicesNeedSession
    ClosedMeansReleased
    NeverWaitsForNothing
    OpenAreCounted
PROPERTIES
    ConnectingEnds
    FailuresClose
    
    ContractKept
