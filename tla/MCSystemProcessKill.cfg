CONSTANTS
    Commands = {create, destroy}
    NoCommand = NoCommand
SPECIFICATION Spec
INVARIANTS
    IdleMeansNotRunning
