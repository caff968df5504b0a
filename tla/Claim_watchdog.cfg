\* A device whose endpoints are taken away, with the watchdog as the firmware leaves it.
SPECIFICATION FairSpec
CONSTANTS
    IwdgByHardware <- MCSoftwareWatchdog
    MaxPinResets = 0
PROPERTIES
    StuckRecovers
