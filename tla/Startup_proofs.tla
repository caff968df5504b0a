--------------------------- MODULE Startup_proofs ---------------------------
(***************************************************************************)
(* Theorems about the start-up, for any number of resets and whatever the   *)
(* option bytes say of the watchdog.  The invariant says which READY signal *)
(* is on its way at each gate (Signalled), what has run before any time can *)
(* pass (BeforeTime, Prompt) and when the watchdog was fed last (Fed).      *)
(***************************************************************************)
EXTENDS Startup, Integers, TLAPS

\* The task behind a gate has got past it.
Passed(gate) ==
    \/ gate = "USB_DEVICE" /\ task.usb_run = "running"
    \/ gate = "USB_TX" /\ task.usb_tx = "serving"
    \/ gate = "USB_RX" /\ task.usb_rx # "wait_enabled"
    \/ gate = "CAN" /\ task.can_driver = "running"

\* Where the tasks can be.
Places == [usb_run : {"spawned", "running"}, can_driver : {"spawned", "running"},
           usb_tx : {"wait_enabled", "serving"},
           usb_rx : {"wait_enabled", "reading", "spinning"}]

\* The signals main still waits for are set by the tasks that have passed.
Signalled ==
    /\ \A gate \in signals : Passed(gate)
    /\ \A i \in 1..4 : i >= main /\ Passed(Gates[i]) => Gates[i] \in signals
    /\ all_ok => \A i \in 1..4 : i < main => Passed(Gates[i])

\* usb_run and can_driver_task start before time passes and before the host is served.
BeforeTime ==
    /\ uptime > 0 \/ configured \/ task.usb_rx # "wait_enabled" =>
           task.usb_run = "running" /\ task.can_driver = "running"
    /\ uptime < PromptSecs => all_ok /\ waited <= uptime

\* After a prompt configuration the endpoint tasks run before time passes; while
\* usb_tx_task waits, usb_rx_task waits too or reads from an enabled endpoint.
Prompt ==
    /\ task.usb_tx = "wait_enabled" =>
           task.usb_rx = "wait_enabled" \/ (task.usb_rx = "reading" /\ configured)
    /\ prompt /\ "wait_enabled" \in {task.usb_tx, task.usb_rx} =>
           configured /\ uptime < PromptSecs
    /\ prompt => all_ok

\* health_monitor is never late, except behind a stuck task.
Fed == ~Stuck => since_pet + pet_in <= PetPeriod

IInv == StartupTypeOK /\ Signalled /\ BeforeTime /\ Prompt /\ Fed

-----------------------------------------------------------------------------
(* The constant operators.                                                  *)

\* The order of the gates.
LEMMA GateNames ==
    /\ DOMAIN Gates = 1..4
    /\ Gates[1] = "USB_DEVICE" /\ Gates[2] = "USB_TX"
    /\ Gates[3] = "USB_RX" /\ Gates[4] = "CAN"
BY DEF Gates

\* Whatever word the code looks at, it finds one of its reasons.
LEMMA ReasonRead == ASSUME NEW word PROVE ReasonOf(word) \in ResetReason
<1> DEFINE found == {i \in 1..6 : ResetFlag[ReasonOrder[i]] \in word}
           first == CHOOSE i \in found : \A j \in found : i <= j
<1>1. /\ DOMAIN ReasonOrder = 1..6
      /\ ReasonOrder[1] = "Iwdg" /\ ReasonOrder[2] = "Wwdg" /\ ReasonOrder[3] = "Software"
      /\ ReasonOrder[4] = "LowPower" /\ ReasonOrder[5] = "PinReset" /\ ReasonOrder[6] = "Por"
  BY DEF ReasonOrder
<1>2. ResetReason = {"Por", "LowPower", "PinReset", "Software", "Iwdg", "Wwdg", "Unknown"}
  BY DEF ResetReason, ResetFlag
<1>3. CASE found = {}
  BY <1>1, <1>2, <1>3 DEF ReasonOf
<1>4. CASE found # {}
  <2>1. \E i \in found : \A j \in found : i <= j
    <3>1. CASE 1 \in found
      BY <3>1
    <3>2. CASE 1 \notin found /\ 2 \in found
      BY <3>2
    <3>3. CASE 1 \notin found /\ 2 \notin found /\ 3 \in found
      BY <3>3
    <3>4. CASE 1 \notin found /\ 2 \notin found /\ 3 \notin found /\ 4 \in found
      BY <3>4
    <3>5. CASE 1 \notin found /\ 2 \notin found /\ 3 \notin found /\ 4 \notin found /\ 5 \in found
      BY <3>5
    <3>6. CASE found = {6}
      BY <3>6
    <3>7. found \subseteq 1..6
      OBVIOUS
    <3> QED
      BY <1>4, <3>1, <3>2, <3>3, <3>4, <3>5, <3>6, <3>7
  <2>2. first \in 1..6
    BY <2>1
  <2>3. ReasonOf(word) = ReasonOrder[first]
    BY <1>1, <1>4 DEF ReasonOf
  <2> HIDE DEF first
  <2> QED
    BY <1>1, <1>2, <2>2, <2>3
<1> QED
  BY <1>3, <1>4

\* What init() reports and leaves after a reset.
LEMMA AfterBoot ==
    ASSUME NEW why \in {"Por", "PinReset", "Iwdg"}, NEW flags \in SUBSET (25..31),
           NEW boot \in Boots(why, flags)
    PROVE  boot.reason \in ResetReason /\ boot.csr \subseteq 25..31
<1>1. PICK raised \in Raised(why) :
        boot = [reason |-> ReadResetReason(flags \cup raised),
                csr    |-> ClearResetFlags(flags \cup raised)]
  BY DEF Boots
<1>2. raised \subseteq 25..31
  BY <1>1 DEF Raised, ChipFlags
<1>3. boot.reason \in ResetReason
  BY <1>1, ReasonRead DEF ReadResetReason
<1>4. boot.csr \subseteq 25..31
  BY <1>1, <1>2 DEF ClearResetFlags, Store
<1> QED
  BY <1>3, <1>4

-----------------------------------------------------------------------------
(* The invariant holds at first, and each part of it is kept by each step.  *)

\* All the parts hold when the device has just been powered.
LEMMA AtPowerOn == Init => IInv
<1> SUFFICES ASSUME Init PROVE IInv
  OBVIOUS
<1> USE StartupAssumption DEF Init, Spawned
<1>1. reset_reason \in ResetReason /\ csr \subseteq 25..31
  BY AfterBoot
<1>2. StartupTypeOK
  <2>2. 0 \in 0..StartTimeout /\ 0 \in 0..PetPeriod /\ 0 \in 0..IwdgTimeout /\ 0 \in 0..PromptSecs
    BY DEF StartTimeout, PetPeriod, IwdgTimeout, PromptSecs
  <2>3. 0 \in 0..MaxPinResets
    OBVIOUS
  <2>4. task \in Places
    BY DEF Places
  <2>5. main \in 1..5 /\ waited \in 0..StartTimeout /\ signals = {}
    BY <2>2
  <2>6. pet_in \in 0..PetPeriod /\ since_pet \in 0..IwdgTimeout /\ uptime \in 0..PromptSecs
    BY <2>2
  <2>7. all_ok = TRUE /\ configured = FALSE /\ prompt = FALSE
    OBVIOUS
  <2>8. /\ iwdg_on \in IwdgByHardware
        /\ cause \in {"Por", "PinReset", "Iwdg"} /\ user_id \in 0..1 /\ pin_resets \in 0..MaxPinResets
    BY <2>3
  <2> HIDE DEF Init, Spawned
  <2> QED
    BY <1>1, <2>4, <2>5, <2>6, <2>7, <2>8 DEF StartupTypeOK, Places
<1>3. Signalled
  BY GateNames DEF Signalled, Passed
<1>4. BeforeTime /\ Prompt /\ Fed
  BY DEF BeforeTime, Prompt, Fed, PromptSecs, PetPeriod
<1> QED
  BY <1>2, <1>3, <1>4 DEF IInv

\* And after any reset, whatever the state before it.
LEMMA AfterReset ==
    ASSUME IInv, NEW why \in {"PinReset", "Iwdg"}, Reset(why), pin_resets' \in 0..MaxPinResets
    PROVE  IInv'
<1> USE StartupAssumption DEF Reset, Spawned, IInv
<1>1. csr \in SUBSET (25..31)
  BY DEF StartupTypeOK
<1>2. reset_reason' \in ResetReason /\ csr' \subseteq 25..31
  BY <1>1, AfterBoot
<1>3. StartupTypeOK'
  <2>2. 0 \in 0..StartTimeout /\ 0 \in 0..PetPeriod /\ 0 \in 0..IwdgTimeout /\ 0 \in 0..PromptSecs
    BY DEF StartTimeout, PetPeriod, IwdgTimeout, PromptSecs
  <2>3. task' \in Places
    BY DEF Places
  <2>4. iwdg_on' \in IwdgByHardware
    BY DEF StartupTypeOK
  <2>5. main' \in 1..5 /\ waited' \in 0..StartTimeout /\ signals' = {}
    BY <2>2
  <2>6. pet_in' \in 0..PetPeriod /\ since_pet' \in 0..IwdgTimeout /\ uptime' \in 0..PromptSecs
    BY <2>2
  <2>7. all_ok' = TRUE /\ configured' = FALSE /\ prompt' = FALSE
    OBVIOUS
  <2>8. cause' \in {"Por", "PinReset", "Iwdg"} /\ user_id' \in 0..1
    OBVIOUS
  <2> HIDE DEF Reset, Spawned, IInv
  <2> QED
    BY <1>2, <2>3, <2>4, <2>5, <2>6, <2>7, <2>8 DEF StartupTypeOK, Places
<1>4. Signalled'
  BY GateNames DEF Signalled, Passed
<1>5. BeforeTime' /\ Prompt' /\ Fed'
  BY DEF BeforeTime, Prompt, Fed, PromptSecs, PetPeriod
<1> QED
  BY <1>3, <1>4, <1>5 DEF IInv

\* The steps that set a READY signal.
LEMMA TasksReady ==
    ASSUME IInv, ~Stuck, UsbRunStarts \/ CanDriverStarts \/ UsbTxEnabled \/ UsbRxEnabled
    PROVE  IInv'
<1> USE DEF IInv, Ready, mainVars, iwdgVars, bootVars
<1>1. StartupTypeOK'
  BY DEF StartupTypeOK, UsbRunStarts, CanDriverStarts, UsbTxEnabled, UsbRxEnabled
<1>2. Signalled'
  <2> USE GateNames DEF StartupTypeOK, Signalled, Passed
  <2>1. CASE UsbRunStarts
    BY <2>1 DEF UsbRunStarts
  <2>2. CASE CanDriverStarts
    BY <2>2 DEF CanDriverStarts
  <2>3. CASE UsbTxEnabled
    BY <2>3 DEF UsbTxEnabled
  <2>4. CASE UsbRxEnabled
    BY <2>4 DEF UsbRxEnabled
  <2> QED
    BY <2>1, <2>2, <2>3, <2>4
<1>3. BeforeTime'
  BY DEF StartupTypeOK, BeforeTime, UsbRunStarts, CanDriverStarts, UsbTxEnabled, UsbRxEnabled
<1>4. Prompt'
  BY DEF StartupTypeOK, Prompt, UsbRunStarts, CanDriverStarts, UsbTxEnabled, UsbRxEnabled
<1>5. Fed'
  <2>1. since_pet' = since_pet /\ pet_in' = pet_in
    BY DEF UsbRunStarts, CanDriverStarts, UsbTxEnabled, UsbRxEnabled
  <2> QED
    BY <2>1 DEF Fed
<1> QED
  BY <1>1, <1>2, <1>3, <1>4, <1>5

\* usb_rx_task meets the disabled endpoint.
LEMMA TaskSticks ==
    ASSUME IInv, UsbRxError
    PROVE  IInv'
<1> USE DEF IInv, UsbRxError, mainVars, iwdgVars, bootVars
<1>1. StartupTypeOK'
  BY DEF StartupTypeOK
<1>2. Signalled'
  BY GateNames DEF StartupTypeOK, Signalled, Passed
<1>3. BeforeTime' /\ Prompt'
  BY DEF StartupTypeOK, BeforeTime, Prompt
<1>4. Fed'
  BY DEF StartupTypeOK, Fed, Stuck
<1> QED
  BY <1>1, <1>2, <1>3, <1>4

\* main finds the signal it waits for.
LEMMA MainConfirms ==
    ASSUME IInv, ~Stuck, Confirm
    PROVE  IInv'
<1> USE DEF IInv, Confirm, mainVars, iwdgVars, bootVars
<1>1. StartupTypeOK'
  <2>1. main' \in 1..5
    BY GateNames DEF StartupTypeOK
  <2>2. waited' \in 0..StartTimeout
    BY DEF StartTimeout
  <2> QED
    BY <2>1, <2>2 DEF StartupTypeOK
<1>2. Signalled'
  BY GateNames DEF StartupTypeOK, Signalled, Passed
<1>3. BeforeTime' /\ Prompt'
  BY DEF StartupTypeOK, BeforeTime, Prompt
<1>4. Fed'
  BY DEF Fed, Stuck
<1> QED
  BY <1>1, <1>2, <1>3, <1>4

\* main gives up.  By then 5 s have passed, so after a prompt configuration every task
\* has passed its gate and the signal would be there: this is where PromptHostIsReady
\* could break.
LEMMA MainGivesUp ==
    ASSUME IInv, ~Stuck, GiveUp
    PROVE  IInv'
<1> USE DEF IInv, GiveUp, mainVars, iwdgVars, bootVars
<1>1. StartupTypeOK'
  <2>1. main' \in 1..5
    BY GateNames DEF StartupTypeOK
  <2>2. waited' \in 0..StartTimeout
    BY DEF StartTimeout
  <2> QED
    BY <2>1, <2>2 DEF StartupTypeOK
<1>2. Signalled'
  BY GateNames DEF StartupTypeOK, Signalled, Passed
<1>3. ~(uptime < PromptSecs)
  BY DEF BeforeTime, StartupTypeOK, StartTimeout, PromptSecs
<1>4. BeforeTime'
  BY <1>3 DEF BeforeTime
<1>5. ~prompt
  <2> SUFFICES ASSUME prompt PROVE FALSE
    OBVIOUS
  <2>1. task.usb_tx # "wait_enabled" /\ task.usb_rx # "wait_enabled"
    BY <1>3 DEF Prompt
  <2>2. task.usb_run = "running" /\ task.can_driver = "running"
    BY <2>1 DEF BeforeTime
  <2>3. Passed(Gates[main])
    BY <2>1, <2>2, GateNames DEF Passed, StartupTypeOK
  <2> QED
    BY <2>3, GateNames DEF Signalled, StartupTypeOK
<1>6. Prompt'
  BY <1>5 DEF Prompt
<1>7. Fed'
  BY DEF Fed, Stuck
<1> QED
  BY <1>1, <1>2, <1>4, <1>6, <1>7

\* health_monitor feeds the watchdog.
LEMMA HealthFeeds ==
    ASSUME IInv, Pet
    PROVE  IInv'
<1> USE DEF IInv, Pet, mainVars, bootVars
<1>1. StartupTypeOK'
  BY DEF StartupTypeOK, PetPeriod, IwdgTimeout
<1>2. Signalled'
  BY DEF Signalled, Passed
<1>3. BeforeTime' /\ Prompt'
  BY DEF BeforeTime, Prompt
<1>4. Fed'
  BY DEF Fed, PetPeriod
<1> QED
  BY <1>1, <1>2, <1>3, <1>4

\* A second passes: no task is due, or one is stuck, and then both tasks that serve
\* nobody in particular have started.
LEMMA TimePasses ==
    ASSUME IInv, Tick
    PROVE  IInv'
<1> USE DEF IInv, Tick, bootVars
<1>1. /\ UNCHANGED <<main, all_ok, signals, task, configured, iwdg_on, bootVars, prompt, user_id>>
      /\ uptime \in 0..5 /\ waited \in 0..5 /\ since_pet \in 0..5 /\ pet_in \in 0..1
  BY DEF StartupTypeOK, PromptSecs, StartTimeout, IwdgTimeout, PetPeriod
<1>2. /\ uptime' = IF uptime < 5 THEN uptime + 1 ELSE 5
      /\ since_pet' = IF since_pet < 5 THEN since_pet + 1 ELSE 5
      /\ pet_in' = IF pet_in > 0 THEN pet_in - 1 ELSE 0
      /\ waited' = IF main \in DOMAIN Gates THEN (IF waited < 5 THEN waited + 1 ELSE 5) ELSE 0
  BY DEF UpTo, PromptSecs, IwdgTimeout, StartTimeout
<1>3. StartupTypeOK'
  <2>1. uptime' \in 0..5 /\ waited' \in 0..5 /\ since_pet' \in 0..5 /\ pet_in' \in 0..1
    BY <1>1, <1>2
  <2> QED
    BY <1>1, <2>1 DEF StartupTypeOK, PromptSecs, StartTimeout, IwdgTimeout, PetPeriod
<1>4. Signalled'
  BY <1>1 DEF Signalled, Passed
<1>5. task.usb_run = "running" /\ task.can_driver = "running"
  <2>1. CASE Stuck
    BY <2>1 DEF Stuck, BeforeTime
  <2>2. CASE ~Due
    BY <2>2 DEF Due, StartupTypeOK
  <2> QED
    BY <2>1, <2>2
<1>6. BeforeTime'
  BY <1>1, <1>2, <1>5 DEF BeforeTime, PromptSecs
<1>7. Prompt'
  <2>1. ASSUME prompt PROVE "wait_enabled" \notin {task.usb_tx, task.usb_rx}
    <3>1. CASE Stuck
      BY <3>1 DEF Stuck, Prompt
    <3>2. CASE ~Due
      BY <2>1, <3>2 DEF Due, Prompt
    <3> QED
      BY <3>1, <3>2
  <2> QED
    BY <1>1, <2>1 DEF Prompt
<1>8. Fed'
  <2> SUFFICES ASSUME ~Stuck PROVE since_pet' + pet_in' <= 1
    BY <1>1 DEF Fed, Stuck, PetPeriod
  <2>1. pet_in # 0 /\ since_pet + pet_in <= 1
    BY DEF Due, Fed, PetPeriod
  <2> QED
    BY <1>1, <1>2, <2>1
<1> QED
  BY <1>3, <1>4, <1>6, <1>7, <1>8

\* The host configures the device, takes the configuration back, or sets the user_id.
LEMMA HostActs ==
    ASSUME IInv, Host
    PROVE  IInv'
<1> USE DEF IInv, mainVars, iwdgVars, bootVars
<1>1. CASE Configure
  <2> USE <1>1 DEF Configure
  <2>1. StartupTypeOK' /\ Signalled' /\ Fed'
    <3>1. StartupTypeOK'
      BY DEF StartupTypeOK
    <3>2. Signalled'
      BY DEF Signalled, Passed
    <3> QED
      BY <3>1, <3>2 DEF Fed, Stuck
  <2>2. task.usb_run = "running" /\ task.can_driver = "running"
    BY DEF Due, StartupTypeOK
  <2>3. BeforeTime'
    BY <2>2 DEF BeforeTime
  <2>4. Prompt'
    <3>1. prompt' => uptime < PromptSecs \/ prompt
      OBVIOUS
    <3> QED
      BY <3>1 DEF Prompt, BeforeTime
  <2> QED
    BY <2>1, <2>3, <2>4
<1>2. CASE Unconfigure
  <2> USE <1>2 DEF Unconfigure
  <2>1. StartupTypeOK' /\ Signalled' /\ Fed' /\ BeforeTime'
    <3>1. StartupTypeOK'
      BY DEF StartupTypeOK
    <3>2. Signalled'
      BY DEF Signalled, Passed
    <3>3. BeforeTime'
      BY DEF BeforeTime
    <3> QED
      BY <3>1, <3>2, <3>3 DEF Fed, Stuck
  <2>2. "wait_enabled" \notin {task.usb_tx, task.usb_rx}
    BY DEF Due
  <2>3. Prompt'
    BY <2>2 DEF Prompt
  <2> QED
    BY <2>1, <2>3
<1>3. ASSUME NEW req \in UserIdRequests, WriteUserId(req) PROVE IInv'
  <2> USE <1>3 DEF WriteUserId
  <2>1. user_id' \in 0..1
    BY DEF SetUserId, UserIdRequests, StartupTypeOK
  <2>2. StartupTypeOK'
    BY <2>1 DEF StartupTypeOK
  <2>3. Signalled'
    BY DEF Signalled, Passed
  <2> QED
    BY <2>2, <2>3 DEF BeforeTime, Prompt, Fed, Stuck
<1> QED
  BY <1>1, <1>2, <1>3 DEF Host

\* Steps that change nothing.
LEMMA Nothing ==
    ASSUME IInv, UNCHANGED vars
    PROVE  IInv'
<1> USE DEF vars, mainVars, iwdgVars, bootVars
<1>1. StartupTypeOK' /\ Signalled'
  BY DEF IInv, StartupTypeOK, Signalled, Passed
<1> QED
  BY <1>1 DEF IInv, BeforeTime, Prompt, Fed, Stuck

\* Every step keeps it.
LEMMA NextIInv == ASSUME IInv, [Next]_vars PROVE IInv'
<1>1. CASE Poll
  BY <1>1, TasksReady, TaskSticks, MainConfirms, MainGivesUp, HealthFeeds DEF Poll
<1>2. CASE Tick
  BY <1>2, TimePasses
<1>3. CASE WatchdogBite
  <2>1. Reset("Iwdg") /\ pin_resets' \in 0..MaxPinResets
    BY <1>3 DEF WatchdogBite, IInv, StartupTypeOK
  <2> QED
    BY <2>1, AfterReset
<1>4. CASE PinReset
  <2>1. Reset("PinReset") /\ pin_resets' \in 0..MaxPinResets
    BY <1>4, StartupAssumption DEF PinReset, IInv, StartupTypeOK
  <2> QED
    BY <2>1, AfterReset
<1>5. CASE Host
  BY <1>5, HostActs
<1>6. CASE UNCHANGED vars
  BY <1>6, Nothing
<1> QED
  BY <1>1, <1>2, <1>3, <1>4, <1>5, <1>6 DEF Next

\* The invariant, of every behaviour.
LEMMA Inductive == Spec => []IInv
  BY AtPowerOn, NextIInv, PTL DEF Spec

-----------------------------------------------------------------------------
(* The theorems.                                                            *)

\* The state keeps its types, the counters their bounds (main.rs, health.rs).
THEOREM TypeCorrect == Spec => []StartupTypeOK
<1>1. IInv => StartupTypeOK
  BY DEF IInv
<1> QED
  BY <1>1, Inductive, PTL

\* "Sistema listo" is said only when all four tasks have passed their gates.
THEOREM ReadyIsServing == Spec => []ReadyMeansServing
<1>1. IInv => ReadyMeansServing
  BY GateNames DEF IInv, StartupTypeOK, Signalled, Passed, ReadyMeansServing
<1> QED
  BY <1>1, Inductive, PTL

\* The verdict is never "degraded" for a host that configured the device in time.
THEOREM PromptHost == Spec => []PromptHostIsReady
<1>1. IInv => PromptHostIsReady
  BY DEF IInv, Prompt, PromptHostIsReady
<1> QED
  BY <1>1, Inductive, PTL

\* health_monitor feeds the watchdog in time unless a task is stuck.
THEOREM BitesOnlyTheStuck == Spec => WatchdogBitesOnlyTheStuck
<1>1. ASSUME IInv, [Next]_vars PROVE [WatchdogBite => Stuck]_vars
  BY <1>1 DEF IInv, StartupTypeOK, Fed, WatchdogBite, IwdgTimeout, PetPeriod
<1> QED
  BY <1>1, Inductive, PTL DEF Spec, WatchdogBitesOnlyTheStuck
-----------------------------------------------------------------------------
(* Liveness.  NothingBlocks, which TLC checks, stands for ENABLED.          *)

\* A stuck device whose watchdog has counted to n.
Late(n) == Stuck /\ iwdg_on /\ since_pet \in n..IwdgTimeout

ResetFrom(n) == FairSpec /\ []NothingBlocks => [](Late(n) => <>~Stuck)

\* While a task is stuck only time passes, and a reset ends it.
LEMMA StuckMoves ==
    ASSUME IInv, [Next]_vars, NEW n \in 0..IwdgTimeout, Late(n)
    PROVE  /\ Late(n)' \/ ~Stuck'
           /\ WatchdogBite => ~Stuck'
           /\ since_pet = n /\ n < IwdgTimeout /\ Tick => Late(n + 1)'
<1>1. IwdgTimeout = 5 /\ since_pet \in 0..5 /\ n \in 0..5
  BY DEF IInv, StartupTypeOK, IwdgTimeout
<1>2. ASSUME NEW why, Reset(why) PROVE ~Stuck'
  BY <1>2 DEF Reset, Spawned, Stuck
<1>3. WatchdogBite \/ PinReset => ~Stuck'
  BY <1>2 DEF WatchdogBite, PinReset
<1>4. ~Poll /\ ~Host
  BY DEF Late, Poll, Host, Configure, Unconfigure, WriteUserId
<1>5. ASSUME Tick PROVE /\ Stuck' = Stuck /\ iwdg_on' = iwdg_on
                        /\ since_pet' = IF since_pet < 5 THEN since_pet + 1 ELSE 5
  BY <1>1, <1>5 DEF Tick, Stuck, UpTo
<1>6. Tick => Late(n)' /\ (since_pet = n /\ n < IwdgTimeout => Late(n + 1)')
  BY <1>1, <1>5 DEF Late
<1>7. UNCHANGED vars => Late(n)'
  BY DEF Late, Stuck, vars, iwdgVars
<1> QED
  BY <1>3, <1>4, <1>6, <1>7 DEF Next

\* A watchdog that has expired bites.
LEMMA ExpiredBites == ResetFrom(5)
<1>1. IInv /\ Late(5) /\ [Next]_vars => Late(5)' \/ ~Stuck'
  BY StuckMoves DEF IwdgTimeout
<1>2. IInv /\ Late(5) /\ <<Next /\ WatchdogBite>>_vars => ~Stuck'
  BY StuckMoves DEF IwdgTimeout
<1>3. Late(5) => iwdg_on /\ since_pet = IwdgTimeout
  BY DEF Late, IwdgTimeout
<1>4. WatchdogBite => Next
  BY DEF Next
<1> QED
  BY <1>1, <1>2, <1>3, <1>4, Inductive, PTL DEF ResetFrom, FairSpec, Spec, NothingBlocks

\* One second before.
LEMMA ResetFromBefore ==
    ASSUME NEW n \in 0..4
    PROVE  ResetFrom(n + 1) => ResetFrom(n)
<1>1. IInv /\ Late(n) /\ [Next]_vars => Late(n)' \/ ~Stuck'
  BY StuckMoves DEF IwdgTimeout
<1>2. IInv /\ Late(n) /\ <<Next /\ Tick>>_vars => Late(n + 1) \/ Late(n + 1)' \/ ~Stuck'
  <2> SUFFICES ASSUME IInv, Late(n), Next, Tick, ~Late(n + 1)
               PROVE  Late(n + 1)'
    OBVIOUS
  <2>1. since_pet = n /\ n < IwdgTimeout
    BY DEF Late, IwdgTimeout
  <2> QED
    BY <2>1, StuckMoves DEF IwdgTimeout
<1>3. Late(n) /\ ~Late(n + 1) => Stuck /\ since_pet < IwdgTimeout
  BY DEF Late, IwdgTimeout
<1>4. Tick => Next
  BY DEF Next
<1> QED
  BY <1>1, <1>2, <1>3, <1>4, Inductive, PTL DEF ResetFrom, FairSpec, Spec, NothingBlocks

\* A watchdog that the hardware has started resets a stuck device, wherever its count is.
THEOREM StuckDeviceIsReset == FairSpec /\ []NothingBlocks => StuckIsReset
<1>1. ResetFrom(0)
  <2> DEFINE P(n) == ResetFrom(n)
  <2>1. P(5) /\ \A n \in 0..4 : P(n + 1) => P(n)
    BY ExpiredBites, ResetFromBefore
  <2> HIDE DEF P
  <2>2. P(0)
    BY <2>1
  <2> QED
    BY <2>2 DEF P
<1>2. IInv /\ Stuck /\ iwdg_on => Late(0)
  BY DEF IInv, StartupTypeOK, Late
<1>3. iwdg_on /\ [Next]_vars => iwdg_on'
  BY DEF Next, Poll, UsbRunStarts, CanDriverStarts, UsbTxEnabled, UsbRxEnabled, UsbRxError, Ready,
         Confirm, GiveUp, Pet, Tick, WatchdogBite, PinReset, Reset, Host, Configure, Unconfigure,
         WriteUserId, vars, iwdgVars
<1> QED
  BY <1>1, <1>2, <1>3, Inductive, PTL DEF ResetFrom, StuckIsReset, FairSpec, Spec
-----------------------------------------------------------------------------
(* Start-up comes to its verdict.  Every second and every poll of a task    *)
(* lowers Left; the host, who may come and go, leaves it as it is.          *)

One(condition) == IF condition THEN 1 ELSE 0

\* The polls that the tasks can still ask for before a second passes or main moves on.
Polls ==
    One(task.usb_run = "spawned") + One(task.can_driver = "spawned")
      + One(task.usb_tx = "wait_enabled")
      + One(task.usb_rx = "wait_enabled") + One(task.usb_rx \in {"wait_enabled", "reading"})
      + One(pet_in = 0)

Left == 42 * (5 - main) + 7 * (5 - waited) + Polls

Verdict == main = 5 \/ Stuck

\* The verdict is at most k steps away.
Within(k) == ~Verdict /\ Left <= k

NoPinReset == [][~PinReset]_vars

SettlesWithin(k) ==
    FairSpec /\ []NothingBlocks => [](NoPinReset /\ Within(k) => <>Verdict)

\* The range of the counts.
LEMMA LeftType ==
    ASSUME StartupTypeOK
    PROVE  Polls \in 0..6 /\ main \in 1..5 /\ waited \in 0..5 /\ pet_in \in 0..1
  BY DEF StartupTypeOK, Polls, One, StartTimeout, PetPeriod

\* A task that is polled needs one poll less.
LEMMA TaskPolled ==
    ASSUME StartupTypeOK, UNCHANGED <<main, waited, pet_in>>,
           UsbRunStarts \/ CanDriverStarts \/ UsbTxEnabled \/ UsbRxEnabled
    PROVE  Left' = Left - 1
<1>1. Polls' = Polls - 1
  <2>1. CASE UsbRunStarts
    BY <2>1 DEF UsbRunStarts, Ready, StartupTypeOK, Polls, One
  <2>2. CASE CanDriverStarts
    BY <2>2 DEF CanDriverStarts, Ready, StartupTypeOK, Polls, One
  <2>3. CASE UsbTxEnabled
    BY <2>3 DEF UsbTxEnabled, Ready, StartupTypeOK, Polls, One
  <2>4. CASE UsbRxEnabled
    BY <2>4 DEF UsbRxEnabled, Ready, StartupTypeOK, Polls, One
  <2> QED
    BY <2>1, <2>2, <2>3, <2>4
<1> QED
  BY <1>1, LeftType DEF Left

\* main moves on to the next gate.
LEMMA MainMoves ==
    ASSUME StartupTypeOK, main \in DOMAIN Gates, main' = main + 1, waited' = 0,
           UNCHANGED <<task, pet_in>>
    PROVE  Left' < Left
<1>1. Polls' = Polls
  BY DEF Polls
<1>2. main \in 1..4 /\ waited \in 0..5 /\ Polls \in 0..6
  BY LeftType, GateNames
<1> QED
  BY <1>1, <1>2 DEF Left

\* Every poll brings the verdict nearer, or is the verdict.
LEMMA PollLowers ==
    ASSUME IInv, Poll
    PROVE  Verdict' \/ Left' < Left
<1>1. StartupTypeOK /\ Left \in Int
  BY LeftType DEF IInv, Left
<1>2. CASE UsbRunStarts \/ CanDriverStarts \/ UsbTxEnabled \/ UsbRxEnabled
  <2>1. UNCHANGED <<main, waited, pet_in>>
    BY <1>2 DEF UsbRunStarts, CanDriverStarts, UsbTxEnabled, UsbRxEnabled, Ready, mainVars, iwdgVars
  <2> QED
    BY <1>1, <1>2, <2>1, TaskPolled
<1>3. CASE UsbRxError
  BY <1>1, <1>3 DEF UsbRxError, Verdict, Stuck, StartupTypeOK
<1>4. CASE Confirm
  BY <1>1, <1>4, MainMoves DEF Confirm, iwdgVars
<1>5. CASE GiveUp
  BY <1>1, <1>5, MainMoves DEF GiveUp, iwdgVars
<1>6. CASE Pet
  <2>1. Polls' = Polls - 1
    BY <1>1, <1>6 DEF Pet, Polls, One, PetPeriod
  <2>2. UNCHANGED <<main, waited>>
    BY <1>6 DEF Pet, mainVars
  <2> QED
    BY <1>1, <2>1, <2>2, LeftType DEF Left
<1> QED
  BY <1>2, <1>3, <1>4, <1>5, <1>6 DEF Poll

\* So does a second: main's patience at a gate is limited.
LEMMA TickLowers ==
    ASSUME IInv, Tick, ~Verdict
    PROVE  Left' < Left
<1>1. StartupTypeOK /\ main \in 1..4 /\ ~Due
  BY DEF IInv, StartupTypeOK, Verdict, Tick
<1>2. waited \in 0..4 /\ pet_in \in 0..1
  <2>1. waited # StartTimeout
    BY <1>1, GateNames DEF Due
  <2> QED
    BY <1>1, <2>1, LeftType DEF StartTimeout
<1>3. waited' = waited + 1 /\ main' = main /\ task' = task
  BY <1>1, <1>2, GateNames DEF Tick, UpTo, StartTimeout
<1>4. Polls' <= Polls + 1 /\ Polls' \in Int /\ Polls \in 0..6
  BY <1>1, <1>3, LeftType DEF Polls, One
<1>5. PICK p \in Int, q \in 0..6 : p = Polls' /\ q = Polls
  BY <1>4
<1>6. Left = 42 * (5 - main) + 7 * (5 - waited) + q
  BY <1>5 DEF Left
<1>7. Left' = 42 * (5 - main) + 7 * (5 - (waited + 1)) + p
  BY <1>3, <1>5 DEF Left
<1>8. /\ p <= q + 1 /\ main \in 1..4 /\ waited \in 0..4
      /\ 7 * (5 - (waited + 1)) = 7 * (5 - waited) - 7
  BY <1>1, <1>2, <1>4, <1>5
<1> QED
  BY <1>6, <1>7, <1>8

\* Nothing but a reset by the pin takes the verdict further away.
LEMMA VerdictNears ==
    ASSUME IInv, [Next]_vars, [~PinReset]_vars, NEW k \in Nat, Within(k + 1)
    PROVE  /\ Within(k + 1)' \/ Verdict'
           /\ Poll \/ Tick => Within(k)' \/ Verdict'
           /\ Due => Due' \/ Within(k)' \/ Verdict'
<1>1. Left \in Int /\ Left <= k + 1 /\ main # 5 /\ ~Stuck
  BY LeftType DEF IInv, Within, Left, Verdict
<1>2. ASSUME Poll \/ Tick PROVE Within(k)' \/ Verdict'
  <2>1. Verdict' \/ Left' < Left
    BY <1>2, PollLowers, TickLowers DEF Within
  <2>2. Left' \in Int
    <3>1. StartupTypeOK'
      BY NextIInv DEF IInv
    <3>2. Polls' \in Int /\ main' \in Int /\ waited' \in Int
      BY <3>1 DEF StartupTypeOK, Polls, One, StartTimeout
    <3> QED
      BY <3>2 DEF Left
  <2>3. Verdict' \/ Left' <= k
    BY <1>1, <2>1, <2>2
  <2> QED
    BY <2>3 DEF Within
<1>3. ASSUME Host \/ UNCHANGED vars PROVE Left' = Left
  BY <1>3 DEF Host, Configure, Unconfigure, WriteUserId, vars, mainVars, iwdgVars, Left, Polls
<1>4. Host => ~Due
  BY DEF Host, Configure, Unconfigure, WriteUserId
<1>5. UNCHANGED vars => Due' = Due
  BY DEF vars, mainVars, iwdgVars, Due
<1>6. ~WatchdogBite
  BY <1>1 DEF IInv, StartupTypeOK, Fed, WatchdogBite, IwdgTimeout, PetPeriod
<1>7. PinReset => UNCHANGED vars
  OBVIOUS
<1>8. Within(k)' => Within(k + 1)'
  <2>1. StartupTypeOK'
    BY NextIInv DEF IInv
  <2>2. Polls' \in Int /\ main' \in Int /\ waited' \in Int
    BY <2>1 DEF StartupTypeOK, Polls, One, StartTimeout
  <2>3. Left' \in Int
    BY <2>2 DEF Left
  <2> QED
    BY <2>3 DEF Within
<1>9. CASE Poll \/ Tick
  BY <1>2, <1>8, <1>9
<1>10. CASE Host \/ UNCHANGED vars
  <2>1. Within(k + 1)' \/ Verdict'
    BY <1>1, <1>3, <1>10 DEF Within
  <2>2. Due => Due'
    BY <1>4, <1>5, <1>10
  <2> QED
    BY <1>2, <2>1, <2>2
<1> QED
  BY <1>6, <1>7, <1>9, <1>10 DEF Next

\* One step nearer.
LEMMA SettlesNext ==
    ASSUME NEW k \in Nat
    PROVE  SettlesWithin(k) => SettlesWithin(k + 1)
<1>1. IInv /\ Within(k + 1) /\ [Next]_vars /\ [~PinReset]_vars => Within(k + 1)' \/ Verdict'
  BY VerdictNears
<1>2. IInv /\ Within(k + 1) /\ <<Next /\ (Poll \/ Tick)>>_vars /\ [~PinReset]_vars
        => Within(k)' \/ Verdict'
  BY VerdictNears
<1>3. IInv /\ Within(k + 1) /\ Due /\ [Next]_vars /\ [~PinReset]_vars
        => Due' \/ Within(k)' \/ Verdict'
  BY VerdictNears
<1>4. Poll \/ Tick => Next
  BY DEF Next
<1>5. IInv /\ Within(k + 1) => ~Stuck /\ since_pet < IwdgTimeout
  BY DEF IInv, StartupTypeOK, Within, Verdict, Fed, IwdgTimeout, PetPeriod
<1> QED
  BY <1>1, <1>2, <1>3, <1>4, <1>5, Inductive, PTL
     DEF SettlesWithin, NoPinReset, FairSpec, Spec, NothingBlocks

\* The verdict is never away by no step.
LEMMA SettlesAtOnce == SettlesWithin(0)
<1>1. IInv => ~Within(0)
  <2> SUFFICES ASSUME IInv, main # 5 PROVE ~(Left <= 0)
    BY DEF Within, Verdict
  <2>1. main \in 1..4 /\ waited \in 0..5 /\ Polls \in 0..6
    BY LeftType DEF IInv
  <2> QED
    BY <2>1 DEF Left
<1> QED
  BY <1>1, Inductive, PTL DEF SettlesWithin, FairSpec

\* The whole start-up: four gates of 5 s each, and six polls in between.
LEMMA SettlesFromReset == SettlesWithin(256)
<1> DEFINE P(k) == SettlesWithin(k)
<1>1. P(0) /\ \A k \in Nat : P(k) => P(k + 1)
  BY SettlesNext, SettlesAtOnce
<1> HIDE DEF P
<1>2. \A k \in Nat : P(k) => P(k + 8)
  BY <1>1
<1>3. \A k \in Nat : P(k) => P(k + 64)
  BY <1>2
<1>4. P(256)
  BY <1>1, <1>3
<1> QED
  BY <1>4 DEF P

\* main comes to its verdict, ready or degraded, whether the host comes, goes or never
\* answers, unless a task is stuck first.  Resets by the pin must come to an end: each
\* one starts the start-up over.
THEOREM StartupIsSettled ==
    FairSpec /\ []NothingBlocks /\ <>[][~PinReset]_vars => StartupSettles
<1>1. IInv /\ ~Verdict => Within(256)
  <2> SUFFICES ASSUME IInv PROVE Left <= 256
    BY DEF Within
  <2>1. main \in 1..5 /\ waited \in 0..5 /\ Polls \in 0..6
    BY LeftType DEF IInv
  <2> QED
    BY <2>1 DEF Left
<1> QED
  BY <1>1, SettlesFromReset, Inductive, PTL
     DEF SettlesWithin, NoPinReset, StartupSettles, Verdict, FairSpec
=============================================================================
