\* One UE message, one handler at a time, an operator who requeues it, a crash; fair loops.
CONSTANTS
    ue = ue
    ue2 = ue2
    vasp = vasp
    eaif = eaif
    peer = peer
    w1 = w1
    w2 = w2
    Msgs <- JustUE
    Workers <- OneWorker
    Sweeper = Sweeper
    Dispatcher = Dispatcher
    NoMsg = NoMsg
    Iface <- MCIface
    Dest <- MCDest
    Txn <- OwnTxns
    Recipients <- MCRecipients
    AskReport = {}
    Policy = "disabled"
    PatchStatus = {"Queued"}
    QueueLimit = 1
    MaxMessages = 1
    MaxSubmits = 1
    MaxCrashes = 1
SPECIFICATION FairSpec
PROPERTIES
    ExpiredIsSwept
    
CHECK_DEADLOCK FALSE
