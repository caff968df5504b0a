\* A request repeated on a bus that may never answer, with the host queueing commands for ever.
SPECIFICATION LinkFairSpec
CONSTANTS
    d1 = d1
    d2 = d2
    TxMsgs <- MCOneTxMsg
    CanFrames <- MCOneFrame
    BusErrors = {}
    Timings <- MCTimings
    Modes <- MCNormalOnly
    CmdCap = 2
    RxCap = 1
    EchoCap = 1
    Mailboxes = 1
    MaxErrors = 1
    MaxDropped = 1
    MaxBusOff = 1
INVARIANTS
    TasksNeverStuck
    OneEchoPerRequest
PROPERTIES
    CommandsAdvance
    StopTakesEffect
    ModeConverges
    ListensAgain
    RequestsSettle
    EchoFlowsWhenBusQuiet
