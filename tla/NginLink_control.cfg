\* MODE and BITTIMING requests against everything else that goes through the command queue.
SPECIFICATION SessionSpec
CONSTANTS
    d1 = d1
    d2 = d2
    TxMsgs <- MCOneTxMsg
    CanFrames = {}
    BusErrors = {}
    Timings <- MCTimingRange
    Modes <- MCSessionModes
    CmdCap = 2
    RxCap = 1
    EchoCap = 1
    Mailboxes = 1
    MaxErrors = 1
    MaxDropped = 1
    MaxBusOff = 1
INVARIANTS
    LinkTypeOK
    ModeFollowsHost
    BusRunsAtHostRate
    AdvertisedModesApply
