SPECIFICATION Spec
CONSTANTS
    c1 = c1
    c2 = c2
    left = left
    right = right
    Clients <- MCClients
    Buttons <- MCButtons
    Dims <- MCDims
    MaxInputs = 4
    MaxCalls = 2
    MaxSignals = 2
SYMMETRY MCSymmetry
CONSTRAINT Few
CHECK_DEADLOCK FALSE
INVARIANTS
    ServerFollowsView
    ViewFollowsClient
