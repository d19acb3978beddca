\* Two upstreams that change three times, one submitter, either driver.
CONSTANTS
    n1 = n1
    n2 = n2
    Names = {n1, n2}
    Configs = {c1}
    NoConfig = NoConfig
    Drivers = {"postgres", "sqlite"}
    Buffer = 2
    MaxChanges = 3
    MaxFailures = 1
    Submitters = {s1}
    Rank <- MCRank
    MaxClients = 7
SPECIFICATION FairSpec
INVARIANTS
    TypeOK
    OneRunLoopPerUpstream
    ReceiptsAreHandled

    
CHECK_DEADLOCK FALSE
