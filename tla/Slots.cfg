\* A week of two days of four ticks; up to two events at a time, of
\* which an expansion lists up to four occurrences.
SPECIFICATION Spec
CONSTANTS
    None = None
    DayLen = 4
    Week = 2
    MaxSlots = 4
    MaxOccurrences = 4
    MaxEvents = 2
    MaxNow = 9
    Inputs <- LinkInputs
    Events <- EventInputs
INVARIANTS
    PageRight
    PageBookable
    BusyShown
