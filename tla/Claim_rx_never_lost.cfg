\* Reception alone, into a full CAN_RX_CHANNEL.
SPECIFICATION AccountingSpec
CONSTANTS
    d1 = d1
    d2 = d2
    TxMsgs = {}
    CanFrames <- MCOneFrame
    BusErrors = {}
    Timings = {}
    Modes <- MCNormalOnly
    CmdCap = 2
    RxCap = 2
    EchoCap = 1
    Mailboxes = 1
    MaxErrors = 1
    MaxDropped = 1
    MaxBusOff = 1
INVARIANTS
    RxNeverLost
