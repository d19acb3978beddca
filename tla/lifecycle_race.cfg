\* One UE message, two concurrent handlers, the dispatcher, the sweeper, a requeue, a crash.
CONSTANTS
    ue = ue
    ue2 = ue2
    vasp = vasp
    eaif = eaif
    peer = peer
    w1 = w1
    w2 = w2
    Msgs <- JustUE
    Workers <- TwoWorkers
    Sweeper = Sweeper
    Dispatcher = Dispatcher
    NoMsg = NoMsg
    Iface <- MCIface
    Dest <- MCDest
    Txn <- OwnTxns
    Recipients <- MCRecipients
    AskReport = {}
    Policy = "disabled"
    PatchStatus = {"Queued", "Delivered"}
    QueueLimit = 100
    MaxMessages = 1
    MaxSubmits = 1
    MaxCrashes = 1
SPECIFICATION Spec
SYMMETRY WorkerSymmetry
INVARIANTS
    TypeOK
    UnexpiredRowHasContent
    
    
CHECK_DEADLOCK FALSE
