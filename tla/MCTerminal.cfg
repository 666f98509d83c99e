CONSTANTS
    Sizes <- MCSizes
    ParamLists <- MCParamLists
    SgrLists <- MCSgrLists
    ViewSteps <- MCViewSteps
    BackLimit = 2
    TabStep = 2
    MaxEvents = 4
SPECIFICATION Spec
CHECK_DEADLOCK FALSE
INVARIANTS
    CursorInside
    ScrollMovesRegion
    SelectionKeepsText
    ViewInHistory
    FirstScreenKept
