\* One message of any of five kinds, one handler at a time; the peer may send its message again.
CONSTANTS
    ue = ue
    ue2 = ue2
    vasp = vasp
    eaif = eaif
    peer = peer
    w1 = w1
    w2 = w2
    Msgs <- All
    Workers <- OneWorker
    Sweeper = Sweeper
    Dispatcher = Dispatcher
    NoMsg = NoMsg
    Iface <- MCIface
    Dest <- MCDest
    Txn <- OwnTxns
    Recipients <- MCRecipients
    AskReport <- JustPeer
    Policy = "disabled"
    PatchStatus = {}
    QueueLimit = 100
    MaxMessages = 1
    MaxSubmits = 2
    MaxCrashes = 0
SPECIFICATION Spec
PROPERTIES
    SweepsOnlyExpired
CHECK_DEADLOCK FALSE
