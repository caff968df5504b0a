\* A device that the watchdog resets, after a reset by the pin or without.
SPECIFICATION Spec
CONSTANTS
    IwdgByHardware <- MCHardwareWatchdog
    MaxPinResets = 1
INVARIANTS
    IwdgResetIsNamed
