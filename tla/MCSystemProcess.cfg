CONSTANTS
    Commands = {create, destroy}
    NoCommand = NoCommand
SPECIFICATION Spec
INVARIANTS
    TypeOK
    BusyTellsTheTruth
    FinishedOrCanceled
PROPERTIES
    SilentAfterCancel
    Reported
