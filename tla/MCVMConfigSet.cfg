SPECIFICATION Spec
CONSTANTS
    web1 = web1
    host1 = host1
    host2 = host2
    Webs <- MCWebs
    Hosts <- MCHosts
    fileName <- MCFileName
    Folders <- MCFolders
    Stored <- MCStored
    Names = {a, b}
    MaxAsks = 2
    MaxLate = 1
CHECK_DEADLOCK FALSE
SYMMETRY MCSymmetry
INVARIANTS
    ExecRunsCommand
    RunningHasSession
    CurrentIsStored
    RemovedStaysRemoved
    AskedIsCurrent
