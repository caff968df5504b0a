\* A time-out that aborts the mailboxes of earlier requests; no mode but the normal one.
SPECIFICATION LinkSpec
CONSTANTS
    d1 = d1
    d2 = d2
    TxMsgs <- MCSameIdMsgs
    CanFrames <- MCOneFrame
    BusErrors = {}
    Timings = {}
    Modes <- MCNormalOnly
    CmdCap = 2
    RxCap = 1
    EchoCap = 2
    Mailboxes = 3
    MaxErrors = 1
    MaxDropped = 1
    MaxBusOff = 1
INVARIANTS
    EchoedIsSentOrPending
