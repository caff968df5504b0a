------------------------------ MODULE Startup ------------------------------
(***************************************************************************)
(* From reset to the running adapter: main (firmware/src/main.rs) confirms  *)
(* the four READY signals, the tasks wait for the endpoints, and            *)
(* health_monitor feeds the independent watchdog.  Also what happens when   *)
(* the host takes the endpoints away again, what a reset restores, and the  *)
(* user_id, which the host may set at any time and which lives in RAM.      *)
(*                                                                          *)
(* One cooperative executor runs every task: no task makes a step while     *)
(* another one does not suspend.  Time passes in seconds, and only when no  *)
(* woken task is left to poll or one of them never suspends; the host, too, *)
(* is slower than the executor, and is answered by usb_run.                 *)
(***************************************************************************)
EXTENDS Board, ControlHandler

CONSTANTS
    IwdgByHardware,   \* may the option bytes of the chip start the watchdog?
    MaxPinResets      \* bound of the exploration: resets by the reset pin

ASSUME StartupAssumption == IwdgByHardware \subseteq BOOLEAN /\ MaxPinResets \in Nat

VARIABLES
    main,             \* the READY signal main waits for; 5: its idle loop
    waited,           \* for how many seconds
    all_ok,
    signals,          \* READY signals set and not yet taken
    task,             \* where the tasks are
    configured,       \* the host has configured the device: endpoints enabled
    pet_in,           \* seconds until health_monitor wakes up
    since_pet,        \* seconds since the watchdog was reloaded
    iwdg_on,          \* the watchdog counts
    csr,              \* the chip's reset flags that are set, see Board
    reset_reason,
    user_id,          \* of the control handler
    cause, uptime, prompt, pin_resets    \* history: see Reset, Tick, Configure, PinReset

mainVars == <<main, waited, all_ok>>
iwdgVars == <<pet_in, since_pet, iwdg_on>>
bootVars == <<csr, reset_reason, cause, pin_resets>>
vars     == <<mainVars, signals, task, configured, iwdgVars, bootVars, uptime, prompt, user_id>>

\* Mutant: main also waits for health_monitor, which signals nothing.
GatesWithHealth == <<"USB_DEVICE", "USB_TX", "USB_RX", "CAN", "HEALTH">>

\* main waits for the tasks in this order.
Gates == <<"USB_DEVICE", "USB_TX", "USB_RX", "CAN">>

\* Mutant: Duration::from_millis(5).
StartTimeoutInMillis == 0

StartTimeout == 5

\* Mutant: the watchdog is fed where the metrics are printed.
PetPeriodOfMetrics == 30

PetPeriod == 1

IwdgTimeout == 5

\* How soon a host must configure the device to be prompt.
PromptSecs == 5

-----------------------------------------------------------------------------
(* Reset.                                                                   *)

\* The tasks as main spawns them.
Spawned == [usb_run |-> "spawned", can_driver |-> "spawned",
            usb_tx  |-> "wait_enabled", usb_rx |-> "wait_enabled"]

\* What init() finds, and leaves, after a reset on top of the flags that were set.
Boots(why, flags) ==
    {[reason |-> ReadResetReason(flags \cup raised), csr |-> ClearResetFlags(flags \cup raised)] :
       raised \in Raised(why)}

Init ==
    /\ main = 1 /\ waited = 0 /\ all_ok = TRUE
    /\ signals = {} /\ task = Spawned /\ configured = FALSE
    /\ pet_in = 0 /\ since_pet = 0 /\ iwdg_on \in IwdgByHardware
    /\ \E boot \in Boots("Por", {}) : reset_reason = boot.reason /\ csr = boot.csr
    /\ user_id = 0
    /\ cause = "Por" /\ uptime = 0 /\ prompt = FALSE /\ pin_resets = 0

\* A reset for the reason why, and main up to its first await: the reset reason is read
\* and cleared at RCC_CSR_ADDR, the watchdog is configured, NOT started (nobody calls
\* unleash), the tasks are spawned.
Reset(why) ==
    /\ main' = 1 /\ waited' = 0 /\ all_ok' = TRUE
    /\ signals' = {} /\ task' = Spawned /\ configured' = FALSE
    /\ pet_in' = 0 /\ since_pet' = 0 /\ iwdg_on' = iwdg_on
    /\ \E boot \in Boots(why, csr) : reset_reason' = boot.reason /\ csr' = boot.csr
    /\ user_id' = 0
    /\ cause' = why /\ uptime' = 0 /\ prompt' = FALSE

-----------------------------------------------------------------------------
(* The tasks, each step up to the next await.                               *)

\* usb_rx_task reads from a disabled endpoint, gets an error at once and reads
\* again: it never suspends, and nobody else runs.
Stuck == task.usb_rx = "spinning"

Ready(t, at, gate) ==
    /\ task' = [task EXCEPT ![t] = at]
    /\ signals' = signals \cup {gate}
    /\ UNCHANGED <<mainVars, configured, iwdgVars, bootVars, uptime, prompt, user_id>>

UsbRunStarts ==
    /\ task.usb_run = "spawned"
    /\ Ready("usb_run", "running", "USB_DEVICE")

CanDriverStarts ==
    /\ task.can_driver = "spawned"
    /\ Ready("can_driver", "running", "CAN")

UsbTxEnabled ==
    /\ task.usb_tx = "wait_enabled"
    /\ configured
    /\ Ready("usb_tx", "serving", "USB_TX")

UsbRxEnabled ==
    /\ task.usb_rx = "wait_enabled"
    /\ configured
    /\ Ready("usb_rx", "reading", "USB_RX")

\* The Err branch of usb_rx_task.  usb_tx_task survives the loss of its endpoint: it
\* loses the frame and awaits the next one.
UsbRxError ==
    /\ task.usb_rx = "reading"
    /\ ~configured
    /\ task' = [task EXCEPT !.usb_rx = "spinning"]
    /\ UNCHANGED <<mainVars, signals, configured, iwdgVars, bootVars, uptime, prompt, user_id>>

\* with_timeout polls the signal first: Ok.
Confirm ==
    /\ main \in DOMAIN Gates
    /\ Gates[main] \in signals
    /\ signals' = signals \ {Gates[main]}
    /\ main' = main + 1
    /\ waited' = 0
    /\ UNCHANGED <<all_ok, task, configured, iwdgVars, bootVars, uptime, prompt, user_id>>

\* Mutant: the time-out is only logged.
GiveUpUnnoticed ==
    /\ main \in DOMAIN Gates
    /\ Gates[main] \notin signals
    /\ waited = StartTimeout
    /\ main' = main + 1
    /\ waited' = 0
    /\ UNCHANGED <<all_ok, signals, task, configured, iwdgVars, bootVars, uptime, prompt, user_id>>

\* Mutant: main waits without a time-out.
NeverGiveUp == FALSE /\ UNCHANGED vars

GiveUp ==
    /\ main \in DOMAIN Gates
    /\ Gates[main] \notin signals
    /\ waited = StartTimeout
    /\ all_ok' = FALSE
    /\ main' = main + 1
    /\ waited' = 0
    /\ UNCHANGED <<signals, task, configured, iwdgVars, bootVars, uptime, prompt, user_id>>

\* health_monitor: feeds the watchdog (the metrics are only printed) and sleeps.
Pet ==
    /\ pet_in = 0
    /\ pet_in' = PetPeriod
    /\ since_pet' = 0
    /\ UNCHANGED <<mainVars, signals, task, configured, iwdg_on, bootVars, uptime, prompt, user_id>>

\* Mutant: a timer interrupt feeds the watchdog, whatever the tasks do.
PollAndPetFromInterrupt ==
    \/ /\ ~Stuck
       /\ \/ UsbRunStarts \/ CanDriverStarts \/ UsbTxEnabled \/ UsbRxEnabled \/ UsbRxError
          \/ Confirm \/ GiveUp
    \/ Pet

\* The executor polls a woken task.
Poll ==
    /\ ~Stuck
    /\ \/ UsbRunStarts \/ CanDriverStarts \/ UsbTxEnabled \/ UsbRxEnabled \/ UsbRxError
       \/ Confirm \/ GiveUp \/ Pet

\* Some task is woken and not polled yet.
Due ==
    \/ task.usb_run = "spawned"
    \/ task.can_driver = "spawned"
    \/ configured /\ "wait_enabled" \in {task.usb_tx, task.usb_rx}
    \/ ~configured /\ task.usb_rx = "reading"
    \/ main \in DOMAIN Gates /\ (Gates[main] \in signals \/ waited = StartTimeout)
    \/ pet_in = 0

-----------------------------------------------------------------------------
(* Time, the watchdog and the host.                                         *)

UpTo(n, bound) == IF n < bound THEN n + 1 ELSE bound

\* One second.  The counters stop at the values that matter.
Tick ==
    /\ Stuck \/ ~Due
    /\ ~(iwdg_on /\ since_pet = IwdgTimeout)
    /\ since_pet' = UpTo(since_pet, IwdgTimeout)
    /\ pet_in' = IF pet_in > 0 THEN pet_in - 1 ELSE 0
    /\ waited' = IF main \in DOMAIN Gates THEN UpTo(waited, StartTimeout) ELSE 0
    /\ uptime' = UpTo(uptime, PromptSecs)
    /\ UNCHANGED <<main, all_ok, signals, task, configured, iwdg_on, bootVars, prompt, user_id>>

WatchdogBite ==
    /\ iwdg_on
    /\ since_pet = IwdgTimeout
    /\ Reset("Iwdg")
    /\ UNCHANGED pin_resets

PinReset ==
    /\ pin_resets < MaxPinResets
    /\ pin_resets' = pin_resets + 1
    /\ Reset("PinReset")

\* SET_CONFIGURATION, answered by usb_run.  prompt: within PromptSecs of the reset.
Configure ==
    /\ ~Stuck /\ ~Due
    /\ ~configured
    /\ configured' = TRUE
    /\ prompt' = (prompt \/ uptime < PromptSecs)
    /\ UNCHANGED <<mainVars, signals, task, iwdgVars, bootVars, uptime, user_id>>

\* A bus reset, SET_CONFIGURATION 0 or the cable: usb_run disables the endpoints.
Unconfigure ==
    /\ ~Stuck /\ ~Due
    /\ configured
    /\ configured' = FALSE
    /\ UNCHANGED <<mainVars, signals, task, iwdgVars, bootVars, uptime, prompt, user_id>>

UserIdRequests ==
    [vendor : BOOLEAN, complete : BOOLEAN, request : {"SET_USER_ID"}, payload : 0..1]

\* GET_USER_ID and the other IN requests change nothing: see Answer.
WriteUserId(req) ==
    /\ ~Stuck /\ ~Due
    /\ user_id' = SetUserId(user_id, req)
    /\ UNCHANGED <<mainVars, signals, task, configured, iwdgVars, bootVars, uptime, prompt>>

Host ==
    \/ Configure \/ Unconfigure
    \/ \E req \in UserIdRequests : WriteUserId(req)

Next == Poll \/ Tick \/ WatchdogBite \/ PinReset \/ Host

Spec == Init /\ [][Next]_vars

\* The executor polls, time passes, and a watchdog that has expired bites.
FairSpec == Spec /\ WF_vars(Poll) /\ WF_vars(Tick) /\ WF_vars(WatchdogBite)

-----------------------------------------------------------------------------
(* Properties.                                                              *)

\* The types of the variables; the counters keep their bounds.
StartupTypeOK ==
    /\ main \in 1..5 /\ waited \in 0..StartTimeout /\ all_ok \in BOOLEAN
    /\ signals \subseteq {"USB_DEVICE", "USB_TX", "USB_RX", "CAN"}
    /\ task \in [usb_run : {"spawned", "running"}, can_driver : {"spawned", "running"},
                 usb_tx : {"wait_enabled", "serving"},
                 usb_rx : {"wait_enabled", "reading", "spinning"}]
    /\ configured \in BOOLEAN
    /\ pet_in \in 0..PetPeriod /\ since_pet \in 0..IwdgTimeout /\ iwdg_on \in IwdgByHardware
    /\ csr \subseteq 25..31
    /\ reset_reason \in ResetReason
    /\ cause \in {"Por", "PinReset", "Iwdg"}
    /\ user_id \in 0..1
    /\ uptime \in 0..PromptSecs /\ prompt \in BOOLEAN
    /\ pin_resets \in 0..MaxPinResets

\* "Sistema listo": main says so only when every task has passed its gate, although
\* it takes the signals one at a time, each up to 5 s after the other.
ReadyMeansServing ==
    main = 5 /\ all_ok =>
        /\ task.usb_run = "running" /\ task.can_driver = "running"
        /\ task.usb_tx = "serving" /\ task.usb_rx # "wait_enabled"

\* A host that configures the device within 5 s of the reset is never told degraded,
\* whatever it does afterwards.
PromptHostIsReady == prompt /\ main = 5 => all_ok

\* The watchdog resets only a device whose executor is stuck: a healthy one, waiting
\* for its host or degraded, is fed in time.
WatchdogBitesOnlyTheStuck == [][WatchdogBite => Stuck]_vars

\* Whatever is due can happen: a woken task has a step, a second can pass when none is
\* woken or one is stuck, and a watchdog that has expired can bite.
NothingBlocks ==
    /\ ~Stuck /\ Due => ENABLED <<Poll>>_vars
    /\ (Stuck \/ ~Due) /\ since_pet < IwdgTimeout => ENABLED <<Tick>>_vars
    /\ iwdg_on /\ since_pet = IwdgTimeout => ENABLED <<WatchdogBite>>_vars

\* main comes to its verdict with or without a host, unless a task is stuck first.
StartupSettles == main # 5 ~> main = 5 \/ Stuck

\* With a watchdog the hardware starts, a stuck device is reset.
StuckIsReset == iwdg_on => (Stuck ~> ~Stuck)
=============================================================================
