SPECIFICATION FairStudioSpec
CONSTANTS
    Call = {c1, c2}
    Loop = {l1, l2}
    v1 = v1
    v2 = v2
    Vector = {v1, v2}
    NoVector = NoVector
    Presets <- MCPresets
    HistoryLimit = 2
    MinColumns = 2
    MaxClicks = 3
INVARIANTS
    StudioTypeOK
    DisplayIsLive
    CyclesAreConsecutive
    ColumnsAreInOrder
    OnlyAutoRunCrosses
PROPERTIES
    BusyEnds
    AutoRunEnds
CHECK_DEADLOCK FALSE
