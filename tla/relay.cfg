\* A message for two recipients, over MM4 or MM3, with three attempts, one fault and one report.
CONSTANTS
    m1 = m1
    Msgs = {m1}
    To <- MCTo
    PeerTLS = TRUE
    PeerAuth = TRUE
    AckRequested = TRUE
    maxRetries = 3
    MaxFaults = 1
    MaxOutcomes = 1
SPECIFICATION FairSpec
INVARIANTS
    TypeOK
    SentIsStored
    UnreachableIsNotStored
    
    ReportIsKept
PROPERTIES
    SendsEnd
CHECK_DEADLOCK FALSE
