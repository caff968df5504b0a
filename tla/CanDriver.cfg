\* The driver open to any commands, bus and consumers, every queue at its limit.
SPECIFICATION AccountingSpec
CONSTANTS
    d1 = d1
    d2 = d2
    TxMsgs <- MCTxMsgs
    CanFrames <- MCOneFrame
    BusErrors = {"Stuff"}
    Timings <- MCTimings
    Modes <- MCModes
    CmdCap = 1
    RxCap = 2
    EchoCap = 1
    Mailboxes = 1
    MaxErrors = 2
    MaxDropped = 1
    MaxBusOff = 7
INVARIANTS
    NeverStuck
    SilentWhenStopped
    SleepMeansBusOff
    RequestsAreFrames
    TypeOK
    BackoffExponential
    LossIsCounted
    MetricsFollowTask
PROPERTIES
    QuietWhenStopped
