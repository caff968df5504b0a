----------------------------- MODULE CanDriver -----------------------------
(***************************************************************************)
(* can_driver_task (firmware/src/tasks/can.rs) with the peripheral it owns  *)
(* and the three channels of app_context.rs it uses, as an open component:  *)
(* other tasks queue commands (SendCmd) and drain its output (TakeRx,       *)
(* TakeEcho); NginLink composes it with them.                               *)
(*                                                                          *)
(* The executor is cooperative, so a step of the task is the code between   *)
(* two awaits that may suspend, and pc names the await it is suspended at:  *)
(*   "cmd"         CAN_CMD_CHANNEL.receive(), driver stopped                *)
(*   "select"      select(CAN_CMD_CHANNEL.receive(), can.read()), started   *)
(*   "enabling"    enable() inside start(), stop() or reenable()            *)
(*   "writing"     with_timeout(100 ms, can.write()) inside transmit()      *)
(*   "recovering"  enable() of the bus-off recovery                         *)
(*   "backoff"     the Timer of the bus-off recovery                        *)
(* overflow_pending is set and cleared inside one step, so it is no state.  *)
(***************************************************************************)
EXTENDS Integers, FiniteSets, Channel, AppContext, BspCan

CONSTANTS
    TxMsgs,      \* the GsTxMsgs the host may send
    CanFrames,   \* the frames other nodes may put on the bus
    BusErrors,   \* the bus errors can.read() may report
    Timings,     \* the bit timings the host may set
    Modes,       \* the flags fields of the host's MODE requests
    CmdCap, RxCap, EchoCap,   \* 16, 32 and 16 in the firmware
    Mailboxes,   \* transmit mailboxes of the peripheral, 3 in bxCAN
    MaxErrors, MaxDropped, MaxBusOff   \* bounds of exploration

ASSUME CapsAssumption == {CmdCap, RxCap, EchoCap, Mailboxes} \subseteq Nat \ {0}

ASSUME BoundsAssumption == {MaxErrors, MaxDropped, MaxBusOff} \subseteq Nat

ASSUME TxMsgsAssumption ==
    \A m \in TxMsgs : m.echo_id \in U32 /\ m.can_id \in U32 /\ m.can_dlc \in 0..255

ASSUME BusErrorsAssumption == BusErrors \subseteq CanBusError

VARIABLES
    pc,
    is_started, can_error_count,   \* locals of can_driver_task
    retry_idx,                     \* index of the backoff delay being applied
    tx_req,                        \* <<req>> while req is being written, or <<>>
    service,                       \* CAN_SERVICE, the shared atomics
    can,                           \* the peripheral (module BspCan)
    mailbox,                       \* the frames its mailboxes hold
    bus,                           \* the requests whose frame has been on the bus
    can_cmd, can_rx, usb_echo      \* CAN_CMD_, CAN_RX_ and USB_ECHO_CHANNEL

vars == <<pc, is_started, can_error_count, retry_idx, tx_req, service, can,
          mailbox, bus, can_cmd, can_rx, usb_echo>>

BUS_OFF_DELAYS_MS == <<100, 200, 400, 800, 1600, 3200>>
MAX_BUS_OFF_RETRIES == 5

Requests == {ParseTxMsg(m) : m \in TxMsgs}

CanDriverCmd == {StartCmd(flags) : flags \in Modes} \cup {StopCmd}
                  \cup {SetBitTimingCmd(t) : t \in Timings}
                  \cup {TransmitCmd(m) : m \in TxMsgs}

EchoFrames == {FromTxMsgEcho(r) : r \in Requests}
                \cup {FromBusError(e) : e \in BusErrors} \cup {BusOffFrame}

Peripheral == [power : CanPower, filter : BOOLEAN, silent : BOOLEAN, loopback : BOOLEAN,
               one_shot : BOOLEAN,
               timing : {NoTiming} \cup {NominalBitTiming(t) : t \in Timings}]

Init ==
    /\ pc = "cmd"
    /\ is_started = FALSE
    /\ can_error_count = 0
    /\ retry_idx = 0
    /\ tx_req = <<>>
    /\ service = NewCanService
    /\ can = CanReset
    /\ mailbox = {}
    /\ bus = {}
    /\ can_cmd = <<>>
    /\ can_rx = <<>>
    /\ usb_echo = <<>>

-----------------------------------------------------------------------------
(* Commands.                                                                *)

\* The task is polled with a command at the head of its queue.  select() polls
\* the queue before the peripheral, so a command always goes first.
Receives(op) ==
    /\ pc \in {"cmd", "select"}
    /\ can_cmd # <<>>
    /\ Head(can_cmd).op = op
    /\ can_cmd' = Tail(can_cmd)

\* Start, in either branch: a running driver re-applies the mode.
Start ==
    /\ Receives("Start")
    /\ is_started' = TRUE
    /\ service' = [service EXCEPT !.started = TRUE]
    /\ can' = BeginStart(can, Head(can_cmd).mode)
    /\ pc' = "enabling"
    /\ UNCHANGED <<can_error_count, retry_idx, tx_req, mailbox, bus, can_rx, usb_echo>>

Stop ==
    /\ Receives("Stop")
    /\ is_started
    /\ is_started' = FALSE
    /\ service' = [service EXCEPT !.started = FALSE]
    /\ can' = BeginStop(can)
    /\ pc' = "enabling"
    /\ UNCHANGED <<can_error_count, retry_idx, tx_req, mailbox, bus, can_rx, usb_echo>>

\* Only a running driver wakes the peripheral up again, with reenable().
ApplyBitTiming ==
    /\ Receives("SetBitTiming")
    /\ can' = SetBitTiming(can, Head(can_cmd).timing)
    /\ pc' = IF is_started THEN "enabling" ELSE "cmd"
    /\ UNCHANGED <<is_started, can_error_count, retry_idx, tx_req, service, mailbox, bus,
                   can_rx, usb_echo>>

\* A stopped driver consumes Stop and Transmit without effect: the transmission
\* is lost and the host is not told.
IgnoreWhenStopped ==
    /\ Receives("Stop") \/ Receives("Transmit")
    /\ ~is_started
    /\ UNCHANGED <<pc, is_started, can_error_count, retry_idx, tx_req, service, can,
                   mailbox, bus, can_rx, usb_echo>>

\* Mutant: the loop goes on with the branch it was in.
EnableDoneListens ==
    /\ pc = "enabling"
    /\ can' = Enabled(can)
    /\ pc' = "select"
    /\ UNCHANGED <<is_started, can_error_count, retry_idx, tx_req, service, mailbox, bus,
                   can_cmd, can_rx, usb_echo>>

\* enable() returns and the loop starts over.
EnableDone ==
    /\ pc = "enabling"
    /\ can' = Enabled(can)
    /\ pc' = IF is_started THEN "select" ELSE "cmd"
    /\ UNCHANGED <<is_started, can_error_count, retry_idx, tx_req, service, mailbox, bus,
                   can_cmd, can_rx, usb_echo>>

-----------------------------------------------------------------------------
(* Transmission.                                                            *)

\* can.write() never overtakes a pending frame of the same or a higher priority: it waits,
\* even with mailboxes free.  When all are taken it waits, or takes the one of a frame of
\* lower priority, which is given up; the TransmitStatus that reports this is discarded.
\* Which of two ids has priority is left open, except that equal ones have the same.
SameId(r, req) == r.id = req.id /\ r.is_extended = req.is_extended

AllTaken == Cardinality(mailbox) = Mailboxes

MayWait(req) == mailbox # {}

Written(req) ==
    /\ \A r \in mailbox : ~SameId(r, req)
    /\ \/ /\ ~AllTaken
          /\ mailbox' = mailbox \cup {req}
       \/ /\ AllTaken
          /\ \E r \in mailbox : mailbox' = (mailbox \ {r}) \cup {req}

\* Mutant: an echo that does not fit is not counted.
EchoUncounted(req) ==
    /\ usb_echo' = TrySend(usb_echo, EchoCap, FromTxMsgEcho(req))
    /\ service' = service

\* The echo is queued as soon as the frame is in a mailbox; a full queue counts
\* it as a dropped reception.
Echo(req) ==
    /\ usb_echo' = TrySend(usb_echo, EchoCap, FromTxMsgEcho(req))
    /\ service' = IF IsFull(usb_echo, EchoCap)
                    THEN [service EXCEPT !.dropped_rx = @ + 1] ELSE service

TransmitAtOnce ==
    /\ Receives("Transmit")
    /\ is_started
    /\ ~FrameError(Head(can_cmd).req)
    /\ Written(Head(can_cmd).req)
    /\ Echo(Head(can_cmd).req)
    /\ UNCHANGED <<pc, is_started, can_error_count, retry_idx, tx_req, can, bus, can_rx>>

\* Mutant: the echo does not wait for a mailbox.
TransmitWaitsEchoed ==
    /\ Receives("Transmit")
    /\ is_started
    /\ MayWait(Head(can_cmd).req)
    /\ Echo(Head(can_cmd).req)
    /\ tx_req' = <<Head(can_cmd).req>>
    /\ pc' = "writing"
    /\ UNCHANGED <<is_started, can_error_count, retry_idx, can, mailbox, bus, can_rx>>

TransmitWaits ==
    /\ Receives("Transmit")
    /\ is_started
    /\ ~FrameError(Head(can_cmd).req)
    /\ MayWait(Head(can_cmd).req)
    /\ tx_req' = <<Head(can_cmd).req>>
    /\ pc' = "writing"
    /\ UNCHANGED <<is_started, can_error_count, retry_idx, service, can, mailbox, bus,
                   can_rx, usb_echo>>

WriteDone ==
    /\ pc = "writing"
    /\ Written(Head(tx_req))
    /\ Echo(Head(tx_req))
    /\ tx_req' = <<>>
    /\ pc' = "select"
    /\ UNCHANGED <<is_started, can_error_count, retry_idx, can, bus, can_cmd, can_rx>>

\* Mutant: can.write() without with_timeout().
WriteNeverTimesOut == FALSE

\* 100 ms went by: every mailbox is aborted, those of earlier requests that were
\* echoed to the host included, and the new request is dropped with a log line.
WriteTimeout ==
    /\ pc = "writing"
    /\ MayWait(Head(tx_req))
    /\ mailbox' = {}
    /\ tx_req' = <<>>
    /\ pc' = "select"
    /\ UNCHANGED <<is_started, can_error_count, retry_idx, service, can, bus, can_cmd,
                   can_rx, usb_echo>>

-----------------------------------------------------------------------------
(* Reception and bus errors.                                                *)

\* Mutant: select() polls the peripheral first.
ReadsFirst == pc = "select"

\* The task is polled, no command is queued, and can.read() has a result.
Reads == pc = "select" /\ can_cmd = <<>>

RxQueued(f) ==
    /\ Reads
    /\ can.filter
    /\ ~IsFull(can_rx, RxCap)
    /\ can_rx' = Append(can_rx, f)
    /\ UNCHANGED <<pc, is_started, can_error_count, retry_idx, tx_req, service, can,
                   mailbox, bus, can_cmd, usb_echo>>

\* No room: the frame read is refused, and overflow_pending then discards the
\* oldest queued frame as well.  One drop is counted for the two.
RxOverflow ==
    /\ Reads
    /\ can.filter
    /\ IsFull(can_rx, RxCap)
    /\ service.dropped_rx < MaxDropped
    /\ can_rx' = TryReceive(can_rx)
    /\ service' = [service EXCEPT !.dropped_rx = @ + 1]
    /\ UNCHANGED <<pc, is_started, can_error_count, retry_idx, tx_req, can, mailbox, bus,
                   can_cmd, usb_echo>>

CountError ==
    /\ can_error_count < MaxErrors
    /\ can_error_count' = can_error_count + 1

\* The error is reported in the echo queue.  When that is full, the frame that
\* overflow_pending discards is one of CAN_RX_CHANNEL.
RxError(e) ==
    /\ Reads
    /\ ~IsSleeping(can)
    /\ CountError
    /\ usb_echo' = TrySend(usb_echo, EchoCap, FromBusError(e))
    /\ \/ /\ ~IsFull(usb_echo, EchoCap)
          /\ service' = [service EXCEPT !.error_count = can_error_count']
          /\ can_rx' = can_rx
       \/ /\ IsFull(usb_echo, EchoCap)
          /\ service.dropped_rx < MaxDropped
          /\ service' = [service EXCEPT !.error_count = can_error_count',
                                        !.dropped_rx = @ + 1]
          /\ can_rx' = TryReceive(can_rx)
    /\ UNCHANGED <<pc, is_started, retry_idx, tx_req, can, mailbox, bus, can_cmd>>

\* Mutant: the budget is one retry too large.
RetryLeftOffByOne == service.bus_off_count <= MAX_BUS_OFF_RETRIES

RetryLeft == service.bus_off_count < MAX_BUS_OFF_RETRIES

\* An error read while the peripheral sleeps is taken for bus-off.  The budget of
\* retries, CAN_SERVICE.bus_off_count, is never given back.
BusOffRetry ==
    /\ Reads
    /\ IsSleeping(can)
    /\ CountError
    /\ RetryLeft
    /\ service.bus_off_count < MaxBusOff
    /\ service' = [service EXCEPT !.error_count = can_error_count', !.bus_off_count = @ + 1]
    /\ retry_idx' = service.bus_off_count
    /\ pc' = "recovering"
    /\ UNCHANGED <<is_started, tx_req, can, mailbox, bus, can_cmd, can_rx, usb_echo>>

RecoverDone ==
    /\ pc = "recovering"
    /\ can' = Enabled(can)
    /\ pc' = "backoff"
    /\ UNCHANGED <<is_started, can_error_count, retry_idx, tx_req, service, mailbox, bus,
                   can_cmd, can_rx, usb_echo>>

\* BUS_OFF_DELAYS_MS[retry_idx] went by.
BackoffDone ==
    /\ pc = "backoff"
    /\ can_error_count' = 0
    /\ retry_idx' = 0
    /\ pc' = "select"
    /\ UNCHANGED <<is_started, tx_req, service, can, mailbox, bus, can_cmd, can_rx, usb_echo>>

\* Mutant: an error that is given up is not stored in the metrics.
BusOffGiveUpUnstored ==
    /\ Reads
    /\ IsSleeping(can)
    /\ CountError
    /\ ~RetryLeft
    /\ service.bus_off_count < MaxBusOff
    /\ service' = [service EXCEPT !.bus_off_count = @ + 1]
    /\ usb_echo' = TrySend(usb_echo, EchoCap, BusOffFrame)
    /\ UNCHANGED <<pc, is_started, retry_idx, tx_req, can, mailbox, bus, can_cmd, can_rx>>

\* Retries exhausted: the host is told, unless the echo queue is full.
BusOffGiveUp ==
    /\ Reads
    /\ IsSleeping(can)
    /\ CountError
    /\ ~RetryLeft
    /\ service.bus_off_count < MaxBusOff
    /\ service' = [service EXCEPT !.error_count = can_error_count', !.bus_off_count = @ + 1]
    /\ usb_echo' = TrySend(usb_echo, EchoCap, BusOffFrame)
    /\ UNCHANGED <<pc, is_started, retry_idx, tx_req, can, mailbox, bus, can_cmd, can_rx>>

-----------------------------------------------------------------------------
(* The peripheral and the bus, which are not under src/.                    *)

\* A pending frame is transmitted, on the wire or, when silent, only looped back.
MailboxSent(r) ==
    /\ can.power = "awake"
    /\ ~can.silent \/ can.loopback
    /\ mailbox' = mailbox \ {r}
    /\ bus' = IF can.silent THEN bus ELSE bus \cup {r}
    /\ UNCHANGED <<pc, is_started, can_error_count, retry_idx, tx_req, service, can,
                   can_cmd, can_rx, usb_echo>>

\* Without automatic retransmission an error or a lost arbitration ends it.
MailboxLost(r) ==
    /\ Drives(can)
    /\ can.one_shot
    /\ mailbox' = mailbox \ {r}
    /\ UNCHANGED <<pc, is_started, can_error_count, retry_idx, tx_req, service, can, bus,
                   can_cmd, can_rx, usb_echo>>

\* Fault confinement takes a node that drives the bus off it.
GoBusOff ==
    /\ Drives(can)
    /\ can' = [can EXCEPT !.power = "bus_off"]
    /\ UNCHANGED <<pc, is_started, can_error_count, retry_idx, tx_req, service, mailbox, bus,
                   can_cmd, can_rx, usb_echo>>

-----------------------------------------------------------------------------
(* The other tasks, as the driver sees them.                                *)

\* Every sender uses try_send and ignores, or only logs, a full queue.
SendCmd(c) ==
    /\ c.op = "Transmit" => service.dropped_rx < MaxDropped
    /\ can_cmd' = TrySend(can_cmd, CmdCap, c)
    /\ UNCHANGED <<pc, is_started, can_error_count, retry_idx, tx_req, service, can,
                   mailbox, bus, can_rx, usb_echo>>

TakeRx ==
    /\ can_rx # <<>>
    /\ can_rx' = Tail(can_rx)
    /\ UNCHANGED <<pc, is_started, can_error_count, retry_idx, tx_req, service, can,
                   mailbox, bus, can_cmd, usb_echo>>

TakeEcho ==
    /\ usb_echo # <<>>
    /\ usb_echo' = Tail(usb_echo)
    /\ UNCHANGED <<pc, is_started, can_error_count, retry_idx, tx_req, service, can,
                   mailbox, bus, can_cmd, can_rx>>

-----------------------------------------------------------------------------

\* Steps the executor takes as soon as the task is woken: by a command, by the
\* timer, by an idle bus.
TaskStep ==
    \/ Start \/ Stop \/ ApplyBitTiming \/ IgnoreWhenStopped \/ EnableDone
    \/ TransmitAtOnce \/ TransmitWaits \/ WriteDone \/ WriteTimeout
    \/ RecoverDone \/ BackoffDone

\* Steps that need a frame or an error on the bus.
ReadStep ==
    \/ \E f \in CanFrames : RxQueued(f)
    \/ RxOverflow
    \/ \E e \in BusErrors : RxError(e)
    \/ BusOffRetry
    \/ BusOffGiveUp

BusStep ==
    \/ \E r \in mailbox : MailboxSent(r) \/ MailboxLost(r)
    \/ GoBusOff

OtherTasks == (\E c \in CanDriverCmd : SendCmd(c)) \/ TakeRx \/ TakeEcho

Next == TaskStep \/ ReadStep \/ BusStep \/ OtherTasks

Spec == Init /\ [][Next]_vars

\* The executor polls a woken task; the timers fire; the bus becomes idle, so
\* that enable() returns.  Nothing is assumed of the other tasks or the bus.
FairSpec == Spec /\ WF_vars(TaskStep)

-----------------------------------------------------------------------------
(* Properties.                                                              *)

\* The types of the state; can_error_count is the u32 local, within its bound.
TypeOK ==
    /\ pc \in {"cmd", "select", "enabling", "writing", "recovering", "backoff"}
    /\ is_started \in BOOLEAN
    /\ can_error_count \in 0..MaxErrors
    /\ retry_idx \in 0..MAX_BUS_OFF_RETRIES - 1
    /\ tx_req \in Seq(Requests) /\ Len(tx_req) <= 1
    /\ service \in CanService
    /\ can \in Peripheral
    /\ mailbox \subseteq Requests
    /\ bus \subseteq Requests
    /\ can_cmd \in Seq(CanDriverCmd) /\ Len(can_cmd) <= CmdCap
    /\ can_rx \in Seq(CanFrames) /\ Len(can_rx) <= RxCap
    /\ usb_echo \in Seq(EchoFrames) /\ Len(usb_echo) <= EchoCap

\* A driver the host has stopped (or never started) does not drive the bus, at
\* no await of stop(), of a bit-timing change or of a half-done restart: what
\* BspCan::stop says it is for (bsp-f446/src/can.rs, "no acusa recibo (ACK) ni
\* interfiere"), although frames may still be pending in the mailboxes.
SilentWhenStopped == ~is_started => ~Drives(can)

\* is_sleeping() is also true after modify_config().  While the driver listens,
\* sleep can only mean bus-off, so an error is never taken for bus-off, and the
\* retry budget never spent, because a reconfiguration left the peripheral asleep.
SleepMeansBusOff == pc \in {"select", "writing", "backoff"} => can.power # "sleep"

\* The n-th automatic recovery of the device's life waits 100 * 2^(n-1) ms, and
\* there are at most MAX_BUS_OFF_RETRIES of them: BUS_OFF_DELAYS_MS is indexed by
\* the count before the increment.
BackoffExponential ==
    pc \in {"recovering", "backoff"} =>
        /\ service.bus_off_count \in 1..MAX_BUS_OFF_RETRIES
        /\ BUS_OFF_DELAYS_MS[retry_idx + 1] = 100 * 2^(service.bus_off_count - 1)

\* transmit() never fails on the id or the length: parse_tx_msg only queues
\* requests that make a CAN frame, so TransmitAtOnce and TransmitWaits need no
\* FrameError branch.
RequestsAreFrames ==
    \A i \in DOMAIN can_cmd : can_cmd[i].op = "Transmit" => ~FrameError(can_cmd[i].req)

\* What health_monitor prints follows the task, although the atomics are written in other
\* branches than the locals: CAN_SERVICE says started exactly while the driver is, and its
\* error count is the one of the task, except from a bus-off recovery, which restarts only
\* the local count, to the next error.
MetricsFollowTask ==
    /\ service.started = is_started
    /\ \/ service.error_count = can_error_count
       \/ can_error_count = 0 /\ service.bus_off_count > 0

\* A driver that the host has stopped adds nothing to what it delivers, at any await of
\* stop() or of a restart: no frame, no echo, no error, no entry in a mailbox, no count.
\* What its queues and mailboxes held at the Stop can only be taken from them, in order.
QuietWhenStopped ==
    [][~is_started =>
         /\ can_rx' \in {can_rx, TryReceive(can_rx)}
         /\ usb_echo' \in {usb_echo, TryReceive(usb_echo)}
         /\ mailbox' \subseteq mailbox
         /\ can_error_count' = can_error_count
         /\ service' = [service EXCEPT !.started = is_started']]_vars

\* What the task awaits comes: a command is queued, the bus falls idle, a mailbox or the
\* time-out of the write, the timer.
Woken == pc \notin {"cmd", "select"} \/ can_cmd # <<>>

\* A woken task has a step to take: no command, in either state, no write and no recovery
\* meets a case that the code leaves open.
NeverStuck == Woken => ENABLED <<TaskStep>>_vars

\* The steps of the task before it is back at its queue, and before it takes the
\* command at place i there.
StepsToListen ==
    CASE pc = "recovering" -> 2
      [] pc \in {"enabling", "writing", "backoff"} -> 1
      [] OTHER -> 0

StepsToTake(i) == 2 * i - 1 + StepsToListen

\* A queued command is taken in its turn and after a bounded number of steps of the task,
\* whatever the bus and the other tasks do meanwhile: no step loses it, overtakes it or
\* puts it off, and each step of the task brings it closer.  With 16 commands queued the
\* last is taken by the 33rd step.
CommandsAdvance ==
    [][\A i \in DOMAIN can_cmd :
         \/ i = 1 /\ Len(can_cmd') < Len(can_cmd)
         \/ \E j \in DOMAIN can_cmd' :
              /\ can_cmd'[j] = can_cmd[i]
              /\ StepsToTake(j)' <= StepsToTake(i)
              /\ TaskStep => StepsToTake(j)' < StepsToTake(i)]_vars

\* A queued Stop takes effect: nothing the driver may be doing, a write to a bus
\* where nobody answers or a bus-off recovery, holds it back for ever.
StopTakesEffect == (\E i \in DOMAIN can_cmd : can_cmd[i] = StopCmd) ~> ~is_started

\* The driver always comes back to where it takes commands.
ListensAgain == []<>(pc \in {"cmd", "select"})
=============================================================================
