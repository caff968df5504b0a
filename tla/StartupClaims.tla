--------------------------- MODULE StartupClaims ---------------------------
(***************************************************************************)
(* What the sources and documents say of the watchdog, of the tasks and of  *)
(* the reset reason, and the start-up as built does not keep.               *)
(***************************************************************************)
EXTENDS Startup

\* main.rs:43 logs the watchdog as enabled with a time-out of 5 s, and README.md:120
\* has health_monitor feed it: a device in which no task runs any more is reset.
StuckRecovers == Stuck ~> ~Stuck

\* main.rs:27 logs the reset reason that lib.rs:29-48 reads from "RCC_CSR_ADDR", where the
\* flag of the watchdog is looked at first: a reset by the watchdog is reported as such,
\* and no other reset is, whatever resets came before it.
IwdgResetIsNamed == (reset_reason = "Iwdg") <=> (cause = "Iwdg")
=============================================================================
