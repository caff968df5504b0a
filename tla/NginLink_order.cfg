\* Frames and requests the host can tell apart, in a mode that leaves the bus alone.
SPECIFICATION LinkSpec
CONSTANTS
    d1 = d1
    d2 = d2
    TxMsgs <- MCSameIdMsgs
    CanFrames <- MCCanFrames
    BusErrors = {"Stuff"}
    Timings = {}
    Modes <- MCSelfTestOnly
    CmdCap = 1
    RxCap = 2
    EchoCap = 2
    Mailboxes = 1
    MaxErrors = 1
    MaxDropped = 1
    MaxBusOff = 0
PROPERTIES
    RxIsLossyFifo
    EchoesFollowRequests
