\* Start-up, loss of the endpoints and resets, with a watchdog or without.
SPECIFICATION FairSpec
CONSTANTS
    IwdgByHardware <- MCEither
    MaxPinResets = 2
INVARIANTS
    NothingBlocks
    StartupTypeOK
    ReadyMeansServing
    PromptHostIsReady
PROPERTIES
    WatchdogBitesOnlyTheStuck
    StartupSettles
    StuckIsReset
