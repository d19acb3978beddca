\* Two pushes of two segments to one recipient over two upstreams that use the same identifiers; two handlers.
CONSTANTS
    Msgs = {m1}
    Pushers = {p1}
    Handlers = {h1, h2}
    NoMsg = NoMsg
    Upstreams = {u1, u2}
    NoId = NoId
    NoSub = NoSub
    NoUpstream = NoUpstream
    Ids = {i1, i2}
    Recipients = 1
    SegmentCount = 2
    MaxPushes = 2
    MaxCrashes = 1
SPECIFICATION Spec
SYMMETRY Symmetry
INVARIANTS
    TypeOK
    DeliveredIsConfirmed
    UnreachableIsConfirmed
    FailureIsTold
CHECK_DEADLOCK FALSE
