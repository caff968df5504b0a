# Verification of ngin-link: the CAN side of a USB-CAN adapter

ngin-link is firmware for an STM32F446 that makes the board a `gs_usb` network
interface of a Linux host: frames of the CAN bus go to the host over a bulk IN
endpoint, frames of the host go to the bus over a bulk OUT endpoint, and control
requests set the bit timing and start and stop the controller. It is written in
Rust on the Embassy executor: a handful of asynchronous tasks that share three
bounded channels and four atomic counters.

This directory holds TLA+ models of that core, TLC runs over small instances, and
proofs for every value of the parameters.

## 1. The system

| Component | Source | State it keeps | Operations | Status |
|---|---|---|---|---|
| `can_driver_task` | `firmware/src/tasks/can.rs` | `is_started`, `can_error_count`, where it is suspended | Start, Stop, SetBitTiming, Transmit, reception, bus errors, bus-off recovery | modelled |
| `BspCan` | `crates/bsp-f446/src/can.rs` | the bxCAN registers | start, stop, reenable, set_bit_timing, transmit | modelled |
| `app_context` | `firmware/src/app_context.rs` | three channels, `CAN_SERVICE`, four start-up signals | `parse_tx_msg`, the control callbacks | modelled |
| wire structures | `crates/gs-usb-protocol/src/gs_usb_types.rs` | none | conversions between CAN frames and `gs_host_frame`, the answers to IN requests | partly |
| `GsUsbControlHandler` | `crates/gs-usb-protocol/src/handler.rs` | `user_id`, `capabilities` | `control_out`, `control_in` | modelled |
| `usb_rx_task` | `firmware/src/tasks/usb_rx.rs` | a buffer | wait for the endpoint, one bulk OUT transfer to one command, errors | modelled |
| `usb_tx_task` | `firmware/src/tasks/usb_tx.rs` | the frame being written | wait for the endpoint, select, sniff, convert, write | modelled |
| can-protocol | `crates/can-protocol/src/` | none | OBD-II and UDS classification, for the log only | modelled |
| start-up | `firmware/src/main.rs` | `all_ok` | six phases, readiness signals with time-outs | modelled |
| health and watchdog | `tasks/health.rs`, `bsp-f446/src/watchdog.rs` | `secs` | print metrics, feed the IWDG | modelled |
| USB set-up, `usb_run` | `usb_setup.rs`, `tasks/usb_run.rs`, `bsp-f446/src/usb.rs` | none of their own | capabilities, descriptors, the call into embassy-usb | partly (no descriptors) |
| board | `bsp-f446/src/lib.rs` | reset flags (in the chip) | reset reason, clocks, pins | modelled |

How they interact:

```
 host                         device                                  CAN bus
 control OUT --> control_out --on_start/on_stop/on_bit_timing--+
                                                               v
 bulk OUT -----> usb_rx_task --parse_tx_msg--> CAN_CMD_CHANNEL (16) --> can_driver_task <--> bxCAN
                                                                          |       |
 bulk IN <------ usb_tx_task <--select-- CAN_RX_CHANNEL (32) <---frames---+       |
                      ^----------------- USB_ECHO_CHANNEL (16) <--echoes, errors--+
                     health_monitor <---- CAN_SERVICE (atomics) <---- can_driver_task
```

Every sender uses `try_send`; nobody waits for room. Only the driver task touches
the peripheral. `main` spawns the tasks, waits for a READY signal of each, and then
idles; the endpoint tasks get past their `wait_enabled()` only when the host has
configured the device; `health_monitor` reloads the watchdog, if it counts at all.

What is hard:

- **Interleaving at awaits.** The executor is cooperative, but the driver suspends
  inside `start()`, `stop()`, `transmit()` and the bus-off recovery, while the
  other tasks go on filling and draining the channels.
- **Everything is bounded and lossy.** Each full queue has a policy of its own:
  drop the newest, drop newest and oldest, drop and count, drop silently.
- **Registers that outlive the command that wrote them.** `modify_config()` puts
  the peripheral to sleep, which the driver otherwise reads as bus-off, and the
  mode bits survive from one command to the next.
- **One executor.** A task that does not suspend stops all others, the one that
  feeds the watchdog included.
- **Agreement between files.** The clock tree, the clock the host is told, the
  features advertised and the modes honoured are written in four files.
- **Time-outs and recovery.** A write that times out aborts every mailbox;
  recovery from bus-off sleeps up to 1.6 s with the task deaf to commands.

What makes each component correct: the driver never disturbs the bus when stopped,
follows the host's last mode, always comes back to its queue and accounts for what
it drops; the board support never leaves the peripheral half configured where the
driver reads it; reception is an order-preserving lossy FIFO; echoes come in the order
of the requests; a request has one echo at most and is eventually settled; the metrics
follow the task; the control handler turns exactly the
complete vendor requests into commands, and what it advertises is what the board
does; the conversions keep received frames, echoes and error frames apart; the
start-up says ready only when everything runs and is never unjust to a host that was
in time; the watchdog resets a stuck device and no other, and the next start knows it;
the sniffer survives any traffic and calls a frame what it is.

## 2. The modules

| Module | Models |
|---|---|
| `Channel` | the bounded channel of embassy-sync, as its callers use it (external) |
| `GsUsbTypes` | the wire structures and their conversions; a bit field is the set of its 1 bits |
| `AppContext` | commands, `parse_tx_msg`, `CAN_SERVICE` |
| `BspCan` | the peripheral as a record, and the register effects of each `BspCan` method |
| `CanDriver` | `can_driver_task` with the peripheral and its channels, open to the other tasks |
| `LossAccounting` | `CanDriver` with a history variable that counts the frames owed to the host |
| `ControlHandler` | which control requests are accepted, the command an accepted one queues, what IN requests answer, the capabilities |
| `Board` | the chip's reset flags; the address, bits and order with which the code reads them; the clock tree |
| `NginLink` | the composition: driver, `usb_rx_task`, `usb_tx_task`, control handler, host |
| `HostSession` | `NginLink` with a host that keeps to the BT_CONST answer, and what it was told and asked, to be compared with the registers |
| `Startup` | reset, `main`, the endpoints' life, `health_monitor`, the watchdog, `user_id`, on a cooperative executor |
| `CanProtocol` | the sniffer of received frames, on a bus with a tester and an ECU |
| `LossyFifo` | the abstract promise about reception |
| `EchoSlots` | the abstract promise about echoes: the slots of the host, answered in order, once at most |
| `DocumentedClaims`, `StartupClaims` | statements of the repository's documents that the code does not keep |
| `MC*` | constants for TLC |
| `*_proofs` | theorems and their TLAPS proofs |

### State and actions

`pc` in `CanDriver` names the await the task is suspended at (`cmd`, `select`,
`enabling`, `writing`, `recovering`, `backoff`); the code between two awaits is one
action, because nothing else runs in between. `is_started` and `can_error_count`
are the locals; `overflow_pending` is set and cleared within one step and is no
state. `can` is the peripheral (`BspCan`), `mailbox` and `bus` the transmit
mailboxes and what has been on the wire.

| Action | Code |
|---|---|
| `Start`, `Stop`, `ApplyBitTiming`, `IgnoreWhenStopped` | can.rs 24-39 and 157-174 |
| `EnableDone` | the return of `enable().await` in start, stop, reenable |
| `TransmitAtOnce`, `TransmitWaits`, `WriteDone`, `WriteTimeout` | can.rs 40-63 with `BspCan::transmit` |
| `RxQueued`, `RxOverflow` | can.rs 66-89 and 148-154 |
| `RxError` | can.rs 90-123 and 139-154 |
| `BusOffRetry`, `RecoverDone`, `BackoffDone`, `BusOffGiveUp` | can.rs 124-138 |
| `MailboxSent`, `MailboxLost`, `GoBusOff` | the peripheral (external) |
| `SendCmd`, `TakeRx`, `TakeEcho` | the other tasks; `NginLink` refines them |
| `UsbRx` | usb_rx.rs 12-34 |
| `OnMode`, `OnBitTiming` | handler.rs 165-203 with the callbacks of app_context.rs |
| `UsbTxTakeRx`, `UsbTxTakeEcho`, `UsbTxWritten`, `UsbTxError` | usb_tx.rs 13-38 |
| `Probe`, `Mode`, `BitTiming` of `HostSession` | handler.rs 95-110, and `OnMode`, `OnBitTiming` remembered |
| `Reset`, `Confirm`, `GiveUp` | main.rs 16-53, 55-70, 53-70 with bsp lib.rs 29-61 |
| `UsbRunStarts`, `CanDriverStarts`, `UsbTxEnabled`, `UsbRxEnabled` | the tasks up to their READY signal |
| `UsbRxError` | usb_rx.rs 31-33 |
| `Pet` | health.rs 5-28 |
| `WriteUserId` | handler.rs 220-229 |
| `Configure`, `Unconfigure`, `Tick`, `WatchdogBite`, `PinReset` | host, time and chip (external) |
| `Sniff` | usb_tx.rs 15-24 with can-protocol |

`Startup` keeps time in seconds. A second passes only when no woken task is left to
poll (`Due`), or when one never suspends (`Stuck`): the executor is faster than a
second, and so is its answer to the host. Its state `task` says where each task is;
`usb_rx` "spinning" is the loop of usb_rx.rs on a disabled endpoint, whose `read()`
returns an error without suspending.

Two points of order the models depend on. `select()` of embassy-futures polls its
arguments in order, so a queued command goes before a frame (`Reads` requires an
empty command queue) and a received frame before an echo. And a command that
reaches a running driver is handled in full, `enable()` included, before the next
one is looked at.

External assumptions, each an operator marked external in `PROJECT.json`:
`is_sleeping()` is true in bus-off (the driver's own test for it, can.rs 124);
`can.write()` waits behind a pending frame of the same or of higher priority and, when all
mailboxes are taken, replaces one of lower priority; which of two ids has priority is
left open, so that it may wait behind, or replace, any pending frame of another id
(over-approximated); with
silent mode on, the peripheral neither acknowledges nor transmits on the wire; an
aborted mailbox is empty at once; the `gs_usb` host driver uses an echo_id again
only once its echo has come (it keeps its slots over Stop and Start) and tells echoes
by echo_id; a read or write of a disabled endpoint returns its error at once; the
fields of the bit-timing register hold 10, 4, 3 and 2 bits; the option bytes may start
the watchdog; RCC_CSR of the STM32F446 is at 0x4002_3874, with the flags BOR 25, PIN 26,
POR 27, IWDG 29 and the clearing bit 24, and the flag of the pin may be raised along with
that of any other reset; 0x4002_1050 is no register (the block of GPIOE ends its registers
at 0x24): it reads 0 and takes no write. These are from the chip's manual, not from the
repository.

## 3. The runs

All exhaustive. The firmware's capacities are 16, 32 and 16; what matters in the
code is empty, in between and full, which capacities of 1 to 3 reach.

| Run | Checks | Instance |
|---|---|---|
| `CanDriver` | `NeverStuck`, `SilentWhenStopped`, `SleepMeansBusOff`, `RequestsAreFrames`, `TypeOK`, `BackoffExponential`, `LossIsCounted`, `MetricsFollowTask`, `QuietWhenStopped` | two requests (one standard with bits beyond the format, one extended remote with length 9), one timing, two modes (listen-only; loopback with one-shot), queues of 1, 2 and 1, two errors between recoveries, one drop, seven bus-offs: the budget of five is spent and exceeded; 2.4 M states |
| `NginLink_control` | `LinkTypeOK`, `ModeFollowsHost`, `BusRunsAtHostRate`, `AdvertisedModesApply` | every MODE request (modes 0 to 2, four flag sets, one of them advertised in full and two beyond it, complete or short, vendor or not) and BITTIMING request (both ends of the advertised ranges, and segments whose sum is 256) after a whole or a cut answer to BT_CONST, a queue of 2, one request, one bus-off, no reception; 353 k states |
| `NginLink_order` | `RxIsLossyFifo`, `EchoesFollowRequests` | two frames, two requests of one id, each sent again as soon as it is echoed, a command queue of 1, reception and echo queues of 2, one mailbox, one error, one drop, silent loopback; 265 k states |
| `NginLink_requests` | `TasksNeverStuck`, `OneEchoPerRequest`, `CommandsAdvance`, `StopTakesEffect`, `ModeConverges`, `ListensAgain`, `RequestsSettle`, `EchoFlowsWhenBusQuiet` | a request repeated as soon as it is echoed, which then waits for itself in the only mailbox, a queue of 2, the host queueing MODE and BITTIMING requests for ever, one bus-off; 82 k states |
| `Startup` | `NothingBlocks`, `StartupTypeOK`, `ReadyMeansServing`, `PromptHostIsReady`, `WatchdogBitesOnlyTheStuck`, `StartupSettles`, `StuckIsReset` | with and without a watchdog started by the hardware, two resets by pin, any number by watchdog, a host that configures and unconfigures at any second; 3.3 k states |
| `CanProtocol` | `SnifferNeverPanics`, `ShownIsWhatWasSent`, `AnswersPair` | eight services, and frames at the borders of every comparison: ids 0x6FF, 0x700, 0x7DE, 0x7DF, 0x7E0, 0x7E8, 0x7FF, standard and extended, length bytes 0 to 16, 127 and 255, service bytes at the borders; 933 states |
| `Claim_*` | one documented statement each, refuted | the smallest instance that shows it |

Why the bounds are enough. A mode or silence error needs at most a Start, a Stop
and one command in between, and the command queue, however short, is refilled
without bound; the overflow logic depends on full, one below full and empty; the
retry budget is explored to two beyond its end; the two modes of the driver's run differ in
every bit; a request interferes with
at most one other through a mailbox, either by taking the last one or by having the
same id, and each pairing is in a run. Reception and the order of the echoes have a run
of their own, so that the control run need not multiply its states by received frames. It
is in silent loopback: the driver takes the same steps in every mode, mailboxes empty and
writes time out, and a node that is not on the bus cannot leave it, so that neither `bus`
nor bus-off multiply the states. The proofs of the two properties are for every mode. In `Startup` the counters
stop at the values the code compares them with (5 s, 1 s), and `MaxPinResets` bounds
the resets; the proofs hold for any number. Three more constants bound the exploration
and nothing else: `MaxErrors` (errors between two recoveries), `MaxDropped`
(counted losses; no new transmission is queued once it is reached) and `MaxBusOff`.
They are guards of the error, overflow and bus-off actions; the proofs hold for all
their values.

What the passing runs show:

- `SilentWhenStopped`: no interleaving of stop, bit-timing change and half-done
  restart lets a stopped adapter acknowledge or disturb the bus, although frames
  may still sit in its mailboxes.
- `SleepMeansBusOff`: every path that reconfigures the peripheral re-enables it
  before the task reads again, so the retry budget is spent on bus-off only.
- `RequestsAreFrames`: masks and the clamp on the length make the error branch of
  `transmit()` dead code, whatever 32-bit words the host sends.
- `BackoffExponential`: the n-th recovery waits 100 * 2^(n-1) ms. `bus_off_count`
  is never reset, so "five retries" is for the life of the device.
- `LossIsCounted`: `dropped_rx` is between half the loss and the loss, bus-off
  notices apart: a drop stands for one or two frames.
- `ModeFollowsHost`: the adapter is in, or its queue leads to, the mode of the last
  MODE request that found room. What was asked is the host's own record, of whole vendor
  requests only (`Meant`): a handler that took a short one for a mode would be found. A
  request that finds the queue full is answered Accepted and lost; the property does not
  speak of it.
- `ModeConverges`: its liveness. Once the MODE requests that find room all ask for one
  mode, the peripheral comes to that mode and stays in it: commands of other modes that
  are still queued run out, and no time-out or recovery brings an old mode back.
- `BusRunsAtHostRate`: five files agree: the clock tree of the board, `fclk_can` and
  the limits told to the host, the conversion to bxCAN fields, and the register widths.
  A timing beyond the limits in between does not spoil a later one within them.
- `AdvertisedModesApply`: a feature that is advertised is honoured, at the right bit.
- `ReadyMeansServing`, `PromptHostIsReady`, `StartupSettles`: signals are kept while
  `main` waits for others, so the sequence of four 5 s waits gives the right verdict.
  A host slower than 5 s may or may not be told degraded.
- `WatchdogBitesOnlyTheStuck`, `StuckIsReset`: where the hardware starts the watchdog it
  does what it is for. The next start does not name it (`Claim_reset_reason`).
- `SnifferNeverPanics`, `ShownIsWhatWasSent`, `AnswersPair`: the slice and the u8
  difference are safe for any frame; requests and positive responses of the services
  0x10 to 0x3F are shown as a pair. Services from 0x50 up, which UDS also has, would be
  shown as responses.
- `RxIsLossyFifo`: `NginLink` implements `LossyFifo` under the mapping `RxPipeline`
  (the frame being written followed by the queue, converted). What is lost may be
  anywhere in the queue; what arrives is in order and unaltered.
- `EchoesFollowRequests`: `NginLink` implements `EchoSlots` under the mapping
  `EchoPipeline` (the echo being written and those queued, the request being written to a
  mailbox and those in the command queue, as one sequence). So the echoes come in the order
  of the requests and none twice, whatever waits, times out, overflows or is dropped by a
  stopped driver on the way, and a slot is given back by nothing but an echo. That a slot
  may never be given back is a fact of the code; `Lose` is where it happens.
- `QuietWhenStopped`: a stopped driver queues nothing for the host, fills no mailbox and
  counts nothing, at any await of `stop()` or of a restart. With `RxIsLossyFifo` and
  `EchoesFollowRequests`: what the host gets after a Stop was queued before it, in order,
  and comes before anything of the next session.
- `MetricsFollowTask`: what `health_monitor` prints agrees with the locals of the task,
  which are stored branch by branch; the error count alone may be older than the task's,
  from the end of a recovery to the next error.
- `OneEchoPerRequest`: a request is at one point of the device at most, also when its
  echo_id is used again.
- `CommandsAdvance`: the bounded form of the turn of a command. With n commands ahead it
  is taken after at most 2n + 3 steps of the task; the bus cannot delay it, because
  `select()` polls the queue first (the mutant polls the peripheral first).
- `NeverStuck`, `TasksNeverStuck`, `NothingBlocks`: a woken task has a step to take, a
  second can pass, an expired watchdog can bite. They are the only facts about ENABLED
  that the liveness proofs need (section 5), and they fail where an await has no way out:
  without the write time-out, without main's, with a `usb_tx_task` only a received frame
  can wake up.
- `StopTakesEffect`, `ListensAgain`, `RequestsSettle`: the write time-out is what
  makes them true; without it (the mutant) they fail on a bus nobody acknowledges on.
- `EchoFlowsWhenBusQuiet`: echoes leave once reception pauses for good. The stronger
  claim is refuted by `Claim_select_fair`.

Each property of a passing run has a mutant of the code model, listed in
`PROJECT.json`, under which TLC finds it violated.

### Fairness

`LinkFairSpec` assumes weak fairness of two things. `TaskStep`: the executor polls
a woken task, the 100 ms and back-off timers fire, and `enable()` returns, which
needs the bus to show 11 recessive bits some time. `UsbTxStep`: the host keeps
polling the bulk IN endpoint and `usb_tx_task` is polled. `FairSpec` of `Startup`
assumes that the executor polls a woken task, that time passes and that an expired
watchdog bites; nothing of the host. Nothing is assumed of
the bus (frames, errors, acknowledgement) or of what the host sends. Deadlock is
checked in every run.

## 4. Disagreements between documents and code

Shown by runs that end in a violation:

| Statement | Code | Run |
|---|---|---|
| docs/usb-data-flow.md:24, :137: the driver blocks while `CAN_RX_CHANNEL` is full, no frame is lost | can.rs:85 `try_send`; two frames go | `Claim_rx_never_lost` |
| docs/usb-data-flow.md:157: with the echo the host confirms that the frame was sent | bsp can.rs:107 aborts frames already echoed | `Claim_echo_means_sent` |
| README.md:126: an exhausted bus-off sends `BusOff` to the host | can.rs:137 ignores a full queue | `Claim_busoff_reported` |
| docs/channel-design.md:132: `select` is fair | usb_tx.rs:14 polls reception first | `Claim_select_fair` |
| main.rs:43, README.md:106, :120: the watchdog is enabled and fed (docs/README.md:134: not implemented) | watchdog.rs:14 `unleash()` is never called | `Claim_watchdog` |
| bsp lib.rs:29: the word at 0x4002_1050 is RCC_CSR, from which main.rs:27 logs the reset reason | it is at 0x4002_3874 on the STM32F446RE: the flags are neither read nor cleared, the reason is always Unknown | `Claim_reset_reason` |
| docs/architecture.md:8: tasks never block the CPU; firmware-quality/SKILL.md:140: disconnection is handled with `wait_enabled()` | usb_rx.rs:31 spins on a disabled endpoint; `wait_enabled()` is awaited once | `Claim_watchdog` |

Shown by a passing run that checks what the code does instead:

- README.md:125 gives delays of 100 to 3200 ms; with five retries indexed from 0 the
  last is 1600 ms (`BackoffExponential`).
- docs/usb-data-flow.md:100 says a Start is ignored when started and SetBitTiming
  needs a Stop first; the code applies both hot (`ModeFollowsHost`).
- docs/gs-usb-types-reference.md:110 gives a CAN clock of 48 MHz; the board runs the
  bxCAN at 42 MHz and says so to the host (`BusRunsAtHostRate`).
- README.md:123 offers one-shot to the host; it is honoured (can.rs:30) but not
  advertised (usb_setup.rs:48), so a host that keeps to BT_CONST never asks for it
  (`AdvertisedModesApply`).
- can-automotive/SKILL.md:117 counts 0x7E0 to 0x7E7 among the OBD-II request ids; the
  code takes 0x7DF only (`ShownIsWhatWasSent`).

Met while reading, without a run:

- An echo carries flag bit 0, which docs/gs-host-frame.md:38 gives to overflow
  (gs_usb_types.rs:150 and 326 share the value); an echo never carries the RTR bit
  (gs_usb_types.rs:251).
- A control request that finds the command queue full is answered Accepted.
- handler.rs:220-222 speaks of a callback to persist the user_id; there is none.
- `bsp_f446::init()` never returns Err, so main.rs:21-25 is dead code.
- Of the eleven services `UdsService` names, `parse_uds_message` knows five; an OBD-II
  response is shown as a UDS message.
- Once the address of bsp lib.rs:29 is right, the bits of lines 40-45 will matter: bit 26 is
  the pin's flag and 27 the one of power-on, where the code takes them for LowPower and the
  pin. A reset by the watchdog would be named, but one by the pin or the supply would be
  called LowPower.
- docs/gs-host-frame.md:10 and :65, docs/gs-usb-types-reference.md:159 and
  docs/testing-guide.md:57 and :76 give echo_id 0 for received frames; the code has
  0xFFFFFFFF (gs_usb_types.rs:145), as docs/gs-usb-types-reference.md:352 and
  docs/troubleshooting.md:142 say, and a host driver would drop frames with 0.
- A request the driver drops (queue full, stopped, write time-out) or whose echo is lost
  leaves its slot taken at the host: there is no message that gives it back.

## 5. The proofs

`CanDriver_proofs` proves, for all sets of messages, frames, errors, timings and
modes and all capacities, `Spec => []IInv` with

    IInv == TypeOK /\ PcInv /\ StoppedInv /\ SleepMeansBusOff /\ RetryInv

- `TypeOK` gives the types every other part needs, and is a theorem itself.
- `PcInv` ties the suspended await to the locals: `SilentWhenStopped` and
  `SleepMeansBusOff` are not inductive without it, because nothing else says that
  `enabling` is where the peripheral is asleep and that `select` means started.
- `StoppedInv`: a stopped driver is silent already, or has never been started and
  the peripheral sleeps. `SilentWhenStopped` alone would allow a sleeping, audible
  peripheral that the return of `enable()` wakes up.
- `RetryInv`: during a recovery the index is the count minus one. `BackoffExponential`
  follows by evaluating the table at the five values.

The step lemmas, one per action, are combined in `NextIInv`; the assumptions are
`CapsAssumption`, `BoundsAssumption`, `TxMsgsAssumption` (u32 words and a u8 length)
and `BusErrorsAssumption`. `TransmissionsAreFrames` needs an invariant of its own
argument: every queued command is built by `ParseTxMsg`, whose masks bound the id.
`MetricsFollow` adds `MetricsFollowTask` to `IInv`: the two counts part only at the end of
a recovery, and `RetryInv` says that one has been counted by then. `StoppedIsQuiet` needs
both: `PcInv` leaves a stopped driver nothing but its commands and the return of
`enable()`, and the metrics say `started` already what the next step would store.

`LossAccounting_proofs` proves `LossIsCounted` on top of that: `IInv /\ owed \in Int
/\ LossIsCounted` is inductive, each producing step being given how many frames it
loses and how much it counts (`LossStep`).

`NginLink_proofs` proves that the composition implements the driver component,
`LinkSpec => Spec` (each step of `LinkNext` is a step of `Next` or leaves `vars`
alone), so the theorems on the driver hold of the adapter, and `LinkTypeOK`, whose
content is that only received frames reach `last_rx` and only echo_ids of the
host's messages are counted as echoes (`EchoIdsAssumption`). It also proves
`ModeFollowsHost` (`ModeObeyed`). The inductive invariant is `ModeInv`, an instance of

    Follows(queue, kinds, last, applied)

which says that the last accepted command of the kinds is in the queue with no other of
its kinds behind it, or that there is none of its kinds in the queue and it has been
applied. Four lemmas say what sending, refusing, skipping and applying a command do to
it; `DriverCommands` says which actions of the device do which. `ModeFollowsHost` alone
says nothing of the commands ahead of the deciding one, nor that a queue with commands
of the kinds has a last one, so it would not be inductive.

`HostSession_proofs` shows that the session is a behaviour of the adapter
(`SessionSpec => LinkSpec`) and uses `Follows` a second time, for the bit timing
(`TimingInv`). With `SessionInv` (nothing is asked before BT_CONST is answered, and
`asked` is made of `flags_asked`) this gives `AdvertisedModesApply` (`ModesObeyed`), and,
with the arithmetic of `AdvertisedFits` (the advertised ranges pass the narrowing and fit
the registers), `BusRunsAtHostRate` (`RateObeyed`), for every timing and not only for the
ends of the ranges.

`OneEcho_proofs` proves `OneEchoPerRequest`, which is inductive as it stands once
`LinkTypeOK` and `PcInv` are given. Its terms are cardinalities, so the first part says how
sending and receiving change the number of occurrences in a queue; then `DriverMoves` and
`UsbTxMoves` say that the device only moves requests, and `MessageKeepsOne` that a message
that is sent again is nowhere else. `EchoIdsAssumption` keeps two requests apart.

`Transfer_proofs` proves the two refinements. For `LinkSpec => RxIsLossyFifo`
(`ReceptionIsLossyFifo`) the pipeline is the
frame at the endpoint followed by the channel; reading a frame is `Put`, an overflow is
`Lose` of the first frame of the channel, a written frame is `Get`, a failed write is
`Lose(1)`, and `usb_tx_task` taking a frame moves it within the pipeline. It needs that
nothing in the echo queue is ever taken for a received frame (`EchoIsNotRx`).

For `LinkSpec => EchoesFollowRequests` (`EchoesImplementSlots`) the pipeline has four
parts, and the first half of the argument is about sequences: what `Listed` and `InOrder`
make of a concatenation, of one entry more at either end, and of one entry less
(`Moves`). An entry that moves from one part to the next is the last of the one and the
first of the other, so the pipeline stays as it is; the device's other steps remove one
entry or add one that is no echo_id of the host. The mapping is sound only if no id is
listed twice and none that is free is listed at all (`SlotInv`): without it, taking one
occurrence of an id away would leave it pending. `SlotInv` needs no argument about the
device beyond that, since the abstract steps themselves keep it (`SlotsKeep`).

`Startup_proofs` proves `Spec => []IInv` for any number of resets and both settings of
the option bytes, with

    IInv == StartupTypeOK /\ Signalled /\ BeforeTime /\ Prompt /\ Fed

- `Signalled`: a signal is set only by a task that has passed its gate, and the signal
  of a passed gate that main has not reached yet is there. `ReadyMeansServing` is its
  last conjunct at the end of the gates.
- `BeforeTime` and `Prompt`: what has run before time can pass. `GiveUp` needs 5 s, by
  which time a prompt host has every task past its gate, so the signal cannot be
  missing: `PromptHostIsReady`.
- `Fed`: while no task is stuck, reload and sleep add up to one period, so a bite means
  a stuck task.

The assumption is `StartupAssumption`. `CanProtocol_proofs` proves the three properties
of the sniffer for all traffic and all services from 0x10 to 0x3F
(`SnifferAssumption`): `Inductive` says that `decoded` is what `AnalyzeFrame` makes of
`frame`, and that an open request is shown as what it is; the lemmas on the payload
(`SingleFrameLength`, `PayloadOf`) carry the index bounds.

### Liveness

The seven liveness properties are theorems too. ENABLED is out of the provers' reach, so
weak fairness of an action is used through one fact that TLC checks on the runs: while
the action's task is woken, the action is enabled (`NeverStuck`, `TasksNeverStuck`,
`NothingBlocks`). Each theorem has that fact as a hypothesis,

    FairSpec /\ []NeverStuck => ListensAgain

and nothing else is assumed of ENABLED. `Served` is what it leaves of fairness: the task
is infinitely often not woken, or makes infinitely many steps.

- `StepsToTake` is the measure of a queued command: two steps for each command ahead, and
  those that end what the task is doing. Every step of the task lowers it and nobody else
  raises it (`CommandMoves`); this alone is `CommandsAdvance`, for all capacities.
  `TakenFromNext` turns one unit of it into "is taken in the end".
- `StopTakesEffect` and `ListensAgain` are proved of the driver (`DriverStops`,
  `DriverListens`) and, with `LinkServed` (a fair step in the adapter is a fair step of
  the driver), of the adapter (`LinkStops`, `LinkListens`).
- `ModeConverges` (`ModeReached`) adds `ModeInv`. While the host asks for `c` alone, nobody
  queues a command of another mode (`OthersAppend`), so the farthest of those that are
  left comes nearer (`OldLeaves`) until none is left (`OthersDrain`). Then `c` is applied,
  or it is queued and will be (`QueuedOrApplied`), and from there nothing but `c` is taken
  that changes the mode (`AppliedStays`).
- `RequestsSettle` (`RequestsAreSettled`) adds `OneEchoPerRequest`: a request that is
  taken is not in the queue a second time, and one step ends its writing.
- `EchoFlowsWhenBusQuiet` (`EchoesFlow`) has a measure of its own (`Near`): the echoes
  ahead and the write in progress.
- `StuckIsReset` (`StuckDeviceIsReset`): while a task is stuck only seconds pass, five at
  most, and a reset of any kind ends it.
- `StartupSettles` (`StartupIsSettled`): `Left` weighs the gates main has not passed, the
  seconds it may still wait at this one and the polls the tasks can ask for. Every poll
  and every second lowers it, the host leaves it as it is. A reset by the pin starts over,
  so the theorem assumes that these come to an end, which in the runs is the bound
  `MaxPinResets`.

The provers have no induction over temporal formulas: a chain of "leads to" steps is
proved for a length that is written down. So `DriverStops`, `LinkStops`, `ModeReached`
and `RequestsAreSettled` assume `CmdCap <= 16` and `EchoesFlow` assumes `EchoCap <= 16`, the
capacities of the firmware (app_context.rs 11-15); all other theorems hold for all
capacities.

Only model-checked: the three invariants about ENABLED, and the refutations.

## 6. Not modelled, and why

- Pins, descriptors, logging: no behaviour beyond their values. IDENTIFY and now_ms end
  in a log line and an answer.
- The answers to TIMESTAMP, GET_USER_ID, DEVICE_CONFIG and DEV_CAPABILITIES change no
  state and nothing is computed from them here.
- Payload bytes of forwarded frames: opaque (the sniffer's are bytes). Timestamps of
  frames: the firmware sends none.
- ErrorPassive and ErrorWarning frames: the firmware never builds them.
- Wrap-around of the u32 counters: out of the range of any bounded run; the models
  use natural numbers.
- Traffic while the endpoints are being taken away: `Startup` models the life of the
  endpoints, `NginLink` the traffic while they are enabled. Once `usb_rx_task` spins no
  task runs, so there is nothing to compose.

## 7. Plan

Written first, because the driver is where the firmware's decisions are: `Channel`,
`GsUsbTypes`, `AppContext`, `BspCan`, `CanDriver`; then the accounting, the
composition, the abstract FIFO and the documented claims; then the host's session, the
start-up and the sniffer; each with its proofs; last, the order of the echoes against
an abstract specification of its own. What could follow:

- A host that frees its echo slots at Stop. By `QuietWhenStopped` and
  `EchoesFollowRequests` the stale echoes it would meet are those that were queued before
  the Stop, and they come first.
