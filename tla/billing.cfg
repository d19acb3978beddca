\* Two messages, one row to an export, two ticks to a minute.
CONSTANTS
    Msgs = {m1, m2}
    ExportLimit = 1
    MinuteLength = 2
    MaxTime = 3
    MaxCrashes = 1
    MaxErrors = 1
SPECIFICATION FairSpec
INVARIANTS
    TypeOK
    
    SkippedHasCause
    LostNeedsRestart
PROPERTIES
    RowIsBilled
CHECK_DEADLOCK FALSE
