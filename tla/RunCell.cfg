CONSTANTS
    Replicas = 2
    Betas = {"0.5", "0"}
SPECIFICATION FairCells
INVARIANTS MeasuredAsLabelled
PROPERTIES WarmedUpIsMeasured OtherCellsEnd
CHECK_DEADLOCK FALSE
