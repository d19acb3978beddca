\* A submit and a round of the run loop over two connections, one of which the SMSC may unbind.
CONSTANTS
    Submits = {s1}
    Pings = {p1}
    NoCall = NoCall
    MaxConns = 2
    MaxUnbinds = 1
SPECIFICATION Spec
INVARIANTS
    TypeOK
    ChannelHasOneHolder
    ConnHasOneCloser
    MixUpNeedsTwoConnections
    ForgottenNeedsOverlap
CHECK_DEADLOCK FALSE
