\* Bus-off after the last retry, with the echo queue full.
SPECIFICATION LinkSpec
CONSTANTS
    d1 = d1
    d2 = d2
    TxMsgs = {}
    CanFrames <- MCOneFrame
    BusErrors = {"Stuff"}
    Timings = {}
    Modes <- MCNormalOnly
    CmdCap = 1
    RxCap = 1
    EchoCap = 1
    Mailboxes = 1
    MaxErrors = 3
    MaxDropped = 1
    MaxBusOff = 7
PROPERTIES
    ExhaustedBusOffIsReported
