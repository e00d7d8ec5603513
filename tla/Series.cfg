\* Up to three edits of series of every kind.
SPECIFICATION Spec
CONSTANTS
    None = None
    Week = 3
    Horizon = 8
    MaxEdits = 3
    Deltas <- Drags
    Inputs <- AllKinds
INVARIANT
    TypeOK
PROPERTIES
    OnlyThis
    ShiftsAll
    
CHECK_DEADLOCK FALSE
