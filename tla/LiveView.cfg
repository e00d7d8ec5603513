\* A tab with one write of its own, over a stream that stays up or comes and goes.
SPECIFICATION FairSpec
CONSTANTS
    None = None
    Painted = Painted
    Blank = Blank
    Items = {i1, i2}
    MaxChanges = 2
    MaxFetches = 2
    MaxWrites = 1
INVARIANTS
    TypeOK
    OwnWriteStays
PROPERTIES
    OldNeverLands
    ToldIsShown
CHECK_DEADLOCK FALSE
