-------------------------- MODULE MCStartupClaims --------------------------
EXTENDS StartupClaims

\* The option bytes leave the watchdog to the software.
MCSoftwareWatchdog == {FALSE}

\* They start it.
MCHardwareWatchdog == {TRUE}
=============================================================================
