\* An echo behind a bus that never falls silent.
SPECIFICATION LinkFairSpec
CONSTANTS
    d1 = d1
    d2 = d2
    TxMsgs <- MCOneTxMsg
    CanFrames <- MCOneFrame
    BusErrors = {}
    Timings = {}
    Modes <- MCNormalOnly
    CmdCap = 1
    RxCap = 1
    EchoCap = 1
    Mailboxes = 1
    MaxErrors = 0
    MaxDropped = 1
    MaxBusOff = 0
PROPERTIES
    EchoNotStarved
