\* Two messages, two callers, two days.
CONSTANTS
    Ids = {i1, i2}
    Procs = {p1, p2}
    LocalCache = TRUE
    None = None
    Torn = Torn
    MaxDay = 2
    MaxPuts = 2
    MaxFaults = 2
    MaxDeletes = 2
SPECIFICATION Spec
INVARIANTS
    TypeOK
    AckedIsReadable
    
PROPERTIES
    IsAnObjectStore
CHECK_DEADLOCK FALSE
