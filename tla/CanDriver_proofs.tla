-------------------------- MODULE CanDriver_proofs --------------------------
(***************************************************************************)
(* Proofs about CanDriver, for every set of messages, frames, modes and     *)
(* timings and for every capacity and bound.                                *)
(***************************************************************************)
EXTENDS CanDriver, TLAPS, SequenceTheorems

-----------------------------------------------------------------------------
(* Channels.                                                                *)

\* Receiving takes an element of the right type and makes room.
LEMMA ReceiveType ==
    ASSUME NEW S, NEW q \in Seq(S), q # <<>>
    PROVE  /\ Head(q) \in S
           /\ Tail(q) \in Seq(S)
           /\ Len(Tail(q)) = Len(q) - 1
  OBVIOUS

\* try_send keeps the type and never exceeds the capacity.
LEMMA TrySendType ==
    ASSUME NEW S, NEW capacity \in Nat, NEW q \in Seq(S), NEW m \in S, Len(q) <= capacity
    PROVE  /\ TrySend(q, capacity, m) \in Seq(S)
           /\ Len(TrySend(q, capacity, m)) <= capacity
  BY DEF TrySend, IsFull

\* try_receive keeps the type and never grows the queue.
LEMMA TryReceiveType ==
    ASSUME NEW S, NEW q \in Seq(S)
    PROVE  /\ TryReceive(q) \in Seq(S)
           /\ Len(TryReceive(q)) <= Len(q)
  BY DEF TryReceive

-----------------------------------------------------------------------------
(* Commands and frames.                                                     *)

ModeFields == [loopback : BOOLEAN, listen_only : BOOLEAN, one_shot : BOOLEAN]

\* A flags field is decoded to three Booleans, whatever its bits.
LEMMA ModeType == ASSUME NEW flags PROVE ModeOf(flags) \in ModeFields
  BY DEF ModeOf, ModeFields

\* What a command carries, by its kind.
LEMMA CmdFields ==
    ASSUME NEW c \in CanDriverCmd
    PROVE  /\ c.op = "Start" => c.mode \in ModeFields
           /\ c.op = "SetBitTiming" => c.timing \in Timings
           /\ c.op = "Transmit" => c.req \in Requests
<1>1. CASE \E flags \in Modes : c = StartCmd(flags)
  <2>1. PICK flags \in Modes : c = StartCmd(flags)
    BY <1>1
  <2>2. c.op = "Start" /\ c.mode = ModeOf(flags)
    BY <2>1 DEF StartCmd
  <2> QED
    BY <2>2, ModeType
<1>2. CASE c = StopCmd
  BY <1>2 DEF StopCmd
<1>3. CASE \E t \in Timings : c = SetBitTimingCmd(t)
  BY <1>3 DEF SetBitTimingCmd
<1>4. CASE \E m \in TxMsgs : c = TransmitCmd(m)
  BY <1>4 DEF TransmitCmd, Requests
<1> QED
  BY <1>1, <1>2, <1>3, <1>4 DEF CanDriverCmd

\* The capacities and bounds are natural numbers.
LEMMA ConstantTypes ==
    /\ CmdCap \in Nat /\ RxCap \in Nat /\ EchoCap \in Nat
    /\ MaxErrors \in Nat /\ MaxDropped \in Nat /\ MaxBusOff \in Nat
  BY CapsAssumption, BoundsAssumption

-----------------------------------------------------------------------------
(* The inductive invariant.                                                 *)

\* What the await the task is suspended at says of its locals.
PcInv ==
    /\ pc = "cmd" => ~is_started
    /\ pc \in {"select", "writing", "recovering", "backoff"} => is_started
    /\ pc = "writing" <=> tx_req # <<>>
    /\ pc = "enabling" => can.power = "sleep"

\* A stopped driver is on its way to silence, or has not woken the peripheral.
StoppedInv == ~is_started => can.silent \/ (pc = "cmd" /\ can.power = "sleep")

\* During a recovery the delay is the one of the count before the increment.
RetryInv ==
    pc \in {"recovering", "backoff"} =>
        /\ service.bus_off_count \in 1..MAX_BUS_OFF_RETRIES
        /\ retry_idx = service.bus_off_count - 1

IInv == TypeOK /\ PcInv /\ StoppedInv /\ SleepMeansBusOff /\ RetryInv

\* Counting a drop changes no other counter.
LEMMA DropCounted ==
    ASSUME NEW s \in CanService
    PROVE  LET t == [s EXCEPT !.dropped_rx = @ + 1] IN
             t \in CanService /\ t.bus_off_count = s.bus_off_count
  BY DEF CanService

\* So does storing the error count, alone or with one of the other counters.
LEMMA ErrorCounted ==
    ASSUME NEW s \in CanService, NEW n \in Nat, NEW d \in Nat, NEW b \in Nat
    PROVE  /\ [s EXCEPT !.error_count = n] \in CanService
           /\ [s EXCEPT !.error_count = n, !.dropped_rx = d] \in CanService
           /\ [s EXCEPT !.error_count = n, !.bus_off_count = b] \in CanService
           /\ [s EXCEPT !.error_count = n, !.bus_off_count = b].bus_off_count = b
  BY DEF CanService

-----------------------------------------------------------------------------
(* The peripheral.                                                          *)

\* start() leaves the peripheral asleep until enable().
LEMMA BeginStartType ==
    ASSUME NEW p \in Peripheral, NEW mode \in ModeFields
    PROVE  BeginStart(p, mode) \in Peripheral /\ BeginStart(p, mode).power = "sleep"
  BY DEF Peripheral, ModeFields, BeginStart, CanPower

\* stop() leaves it asleep and silent until enable().
LEMMA BeginStopType ==
    ASSUME NEW p \in Peripheral
    PROVE  /\ BeginStop(p) \in Peripheral
           /\ BeginStop(p).power = "sleep" /\ BeginStop(p).silent
  BY DEF Peripheral, BeginStop, CanPower

\* A change of the bit timing leaves it asleep, in the mode it had.
LEMMA SetBitTimingType ==
    ASSUME NEW p \in Peripheral, NEW t \in Timings
    PROVE  /\ SetBitTiming(p, t) \in Peripheral
           /\ SetBitTiming(p, t).power = "sleep" /\ SetBitTiming(p, t).silent = p.silent
  BY DEF Peripheral, SetBitTiming, CanPower

\* enable() wakes it up in the mode it had.
LEMMA EnabledType ==
    ASSUME NEW p \in Peripheral
    PROVE  /\ Enabled(p) \in Peripheral
           /\ Enabled(p).power = "awake" /\ Enabled(p).silent = p.silent
  BY DEF Peripheral, Enabled, CanPower

-----------------------------------------------------------------------------
(* The invariant is inductive.                                              *)

\* The invariant holds at start-up: nothing queued, the peripheral asleep.
LEMMA InitIInv == Init => IInv
<1> SUFFICES ASSUME Init PROVE IInv
  OBVIOUS
<1> USE ConstantTypes DEF Init, NewCanService
<1>1. can \in Peripheral
  BY DEF CanReset, Peripheral, CanPower
<1>2. service \in CanService
  BY DEF CanService
<1>a. /\ tx_req \in Seq(Requests) /\ Len(tx_req) <= 1
      /\ can_cmd \in Seq(CanDriverCmd) /\ Len(can_cmd) <= CmdCap
      /\ can_rx \in Seq(CanFrames) /\ Len(can_rx) <= RxCap
      /\ usb_echo \in Seq(EchoFrames) /\ Len(usb_echo) <= EchoCap
  <2>1. \A S : <<>> \in Seq(S)
    OBVIOUS
  <2>2. Len(<<>>) = 0
    OBVIOUS
  <2> QED
    BY <2>1, <2>2
<1>b. can_error_count \in 0..MaxErrors /\ retry_idx \in 0..MAX_BUS_OFF_RETRIES - 1
  BY DEF MAX_BUS_OFF_RETRIES
<1>c. TypeOK
  BY <1>1, <1>2, <1>a, <1>b DEF TypeOK
<1>3. PcInv /\ SleepMeansBusOff /\ RetryInv
  BY DEF PcInv, SleepMeansBusOff, RetryInv
<1>4. StoppedInv
  BY DEF StoppedInv, CanReset
<1> QED
  BY <1>c, <1>3, <1>4 DEF IInv

\* A received command leaves the queue and has the type of its kind.
LEMMA ReceivesType ==
    ASSUME TypeOK, NEW op, Receives(op)
    PROVE  /\ Head(can_cmd) \in CanDriverCmd /\ Head(can_cmd).op = op
           /\ can_cmd' \in Seq(CanDriverCmd) /\ Len(can_cmd') <= CmdCap
  BY ReceiveType, ConstantTypes DEF TypeOK, Receives

\* A command step of a started or stopped driver that goes to enable().
LEMMA StartStep == ASSUME IInv, Start PROVE IInv'
<1> USE DEF IInv
<1>1. /\ Head(can_cmd).mode \in ModeFields
      /\ can_cmd' \in Seq(CanDriverCmd) /\ Len(can_cmd') <= CmdCap
  BY ReceivesType, CmdFields DEF Start
<1>2. can' \in Peripheral /\ can'.power = "sleep"
  BY <1>1, BeginStartType DEF Start, TypeOK
<1>3. service' \in CanService
  BY DEF Start, TypeOK, CanService
<1>4. TypeOK'
  BY <1>1, <1>2, <1>3 DEF Start, TypeOK
<1>5. pc \in {"cmd", "select"} /\ pc' = "enabling" /\ is_started' /\ tx_req' = tx_req
  BY DEF Start, Receives
<1>6. PcInv'
  BY <1>2, <1>5 DEF PcInv
<1> QED
  BY <1>4, <1>5, <1>6 DEF StoppedInv, SleepMeansBusOff, RetryInv

\* Stop keeps the invariant: the peripheral is silent from this step on.
LEMMA StopStep == ASSUME IInv, Stop PROVE IInv'
<1> USE DEF IInv
<1>1. can_cmd' \in Seq(CanDriverCmd) /\ Len(can_cmd') <= CmdCap
  BY ReceivesType DEF Stop
<1>2. can' \in Peripheral /\ can'.power = "sleep" /\ can'.silent
  BY BeginStopType DEF Stop, TypeOK
<1>3. service' \in CanService
  BY DEF Stop, TypeOK, CanService
<1>4. TypeOK'
  BY <1>1, <1>2, <1>3 DEF Stop, TypeOK
<1>5. pc \in {"cmd", "select"} /\ pc' = "enabling" /\ tx_req' = tx_req
  BY DEF Stop, Receives
<1>6. PcInv'
  BY <1>2, <1>5 DEF PcInv
<1> QED
  BY <1>2, <1>4, <1>5, <1>6 DEF StoppedInv, SleepMeansBusOff, RetryInv

\* SetBitTiming keeps it, in both states: only a running driver is re-enabled.
LEMMA ApplyBitTimingStep == ASSUME IInv, ApplyBitTiming PROVE IInv'
<1> USE DEF IInv
<1>1. /\ Head(can_cmd).timing \in Timings
      /\ can_cmd' \in Seq(CanDriverCmd) /\ Len(can_cmd') <= CmdCap
  BY ReceivesType, CmdFields DEF ApplyBitTiming
<1>2. can' \in Peripheral /\ can'.power = "sleep" /\ can'.silent = can.silent
  BY <1>1, SetBitTimingType DEF ApplyBitTiming, TypeOK
<1>3. TypeOK'
  BY <1>1, <1>2 DEF ApplyBitTiming, TypeOK
<1>4. /\ pc \in {"cmd", "select"} /\ pc' = IF is_started THEN "enabling" ELSE "cmd"
      /\ is_started' = is_started /\ tx_req' = tx_req
  BY DEF ApplyBitTiming, Receives
<1>5. PcInv'
  BY <1>2, <1>4 DEF PcInv
<1> QED
  BY <1>2, <1>3, <1>4, <1>5 DEF StoppedInv, SleepMeansBusOff, RetryInv

\* An ignored command keeps it: only the queue changes.
LEMMA IgnoreWhenStoppedStep == ASSUME IInv, IgnoreWhenStopped PROVE IInv'
<1> USE DEF IInv
<1>1. can_cmd' \in Seq(CanDriverCmd) /\ Len(can_cmd') <= CmdCap
  BY ReceivesType DEF IgnoreWhenStopped
<1>2. TypeOK'
  BY <1>1 DEF IgnoreWhenStopped, TypeOK
<1> QED
  BY <1>2 DEF IgnoreWhenStopped, PcInv, StoppedInv, SleepMeansBusOff, RetryInv

\* The return of enable() keeps it: a stopped driver wakes up silent.
LEMMA EnableDoneStep == ASSUME IInv, EnableDone PROVE IInv'
<1> USE DEF IInv
<1>1. can' \in Peripheral /\ can'.power = "awake" /\ can'.silent = can.silent
  BY EnabledType DEF EnableDone, TypeOK
<1>2. TypeOK'
  BY <1>1 DEF EnableDone, TypeOK
<1>3. PcInv'
  BY DEF EnableDone, PcInv
<1> QED
  BY <1>1, <1>2, <1>3 DEF EnableDone, StoppedInv, SleepMeansBusOff, RetryInv

\* A write changes the mailboxes and the echo queue within their types.
LEMMA WriteType ==
    ASSUME TypeOK, NEW req \in Requests, Written(req), Echo(req)
    PROVE  /\ mailbox' \subseteq Requests
           /\ usb_echo' \in Seq(EchoFrames) /\ Len(usb_echo') <= EchoCap
           /\ service' \in CanService /\ service'.bus_off_count = service.bus_off_count
<1>1. mailbox' \subseteq Requests
  BY DEF TypeOK, Written
<1>2. FromTxMsgEcho(req) \in EchoFrames
  BY DEF EchoFrames
<1>3. usb_echo' \in Seq(EchoFrames) /\ Len(usb_echo') <= EchoCap
  BY <1>2, TrySendType, ConstantTypes DEF TypeOK, Echo
<1>4. service' \in CanService /\ service'.bus_off_count = service.bus_off_count
  <2>1. service' = service \/ service' = [service EXCEPT !.dropped_rx = @ + 1]
    BY DEF Echo
  <2>2. service \in CanService
    BY DEF TypeOK
  <2> QED
    BY <2>1, <2>2, DropCounted
<1> QED
  BY <1>1, <1>3, <1>4

\* A transmission that finds a mailbox keeps it.
LEMMA TransmitAtOnceStep == ASSUME IInv, TransmitAtOnce PROVE IInv'
<1> USE DEF IInv
<1>1. /\ Head(can_cmd).req \in Requests
      /\ can_cmd' \in Seq(CanDriverCmd) /\ Len(can_cmd') <= CmdCap
  BY ReceivesType, CmdFields DEF TransmitAtOnce
<1>2. TypeOK'
  BY <1>1, WriteType DEF TransmitAtOnce, TypeOK
<1> QED
  BY <1>1, <1>2, WriteType
  DEF TransmitAtOnce, PcInv, StoppedInv, SleepMeansBusOff, RetryInv

\* A transmission that has to wait keeps it: tx_req holds the request.
LEMMA TransmitWaitsStep == ASSUME IInv, TransmitWaits PROVE IInv'
<1> USE DEF IInv
<1>1. /\ Head(can_cmd).req \in Requests
      /\ can_cmd' \in Seq(CanDriverCmd) /\ Len(can_cmd') <= CmdCap
  BY ReceivesType, CmdFields DEF TransmitWaits
<1>2. tx_req' \in Seq(Requests) /\ Len(tx_req') = 1 /\ tx_req' # <<>>
  BY <1>1 DEF TransmitWaits
<1>3. TypeOK'
  BY <1>1, <1>2 DEF TransmitWaits, TypeOK
<1>4. pc \in {"cmd", "select"} /\ is_started /\ pc' = "writing"
      /\ is_started' = is_started /\ can' = can
  BY DEF TransmitWaits, Receives
<1> QED
  BY <1>2, <1>3, <1>4 DEF PcInv, StoppedInv, SleepMeansBusOff, RetryInv

\* A write that completes keeps it.
LEMMA WriteDoneStep == ASSUME IInv, WriteDone PROVE IInv'
<1> USE DEF IInv
<1>1. Head(tx_req) \in Requests
  BY ReceiveType DEF WriteDone, PcInv, TypeOK
<1>2. TypeOK'
  BY <1>1, WriteType DEF WriteDone, TypeOK
<1> QED
  BY <1>2 DEF WriteDone, PcInv, StoppedInv, SleepMeansBusOff, RetryInv

\* A write that times out keeps it.
LEMMA WriteTimeoutStep == ASSUME IInv, WriteTimeout PROVE IInv'
<1> USE DEF IInv
<1>1. TypeOK'
  BY DEF WriteTimeout, TypeOK
<1> QED
  BY <1>1 DEF WriteTimeout, PcInv, StoppedInv, SleepMeansBusOff, RetryInv

\* A received frame that is queued keeps it.
LEMMA RxQueuedStep == ASSUME IInv, NEW f \in CanFrames, RxQueued(f) PROVE IInv'
<1> USE DEF IInv
<1>1. can_rx' \in Seq(CanFrames) /\ Len(can_rx') <= RxCap
  BY ConstantTypes DEF RxQueued, TypeOK, IsFull
<1>2. TypeOK'
  BY <1>1 DEF RxQueued, TypeOK
<1> QED
  BY <1>2 DEF RxQueued, PcInv, StoppedInv, SleepMeansBusOff, RetryInv

\* A received frame that overflows the queue keeps it.
LEMMA RxOverflowStep == ASSUME IInv, RxOverflow PROVE IInv'
<1> USE DEF IInv
<1>1. can_rx' \in Seq(CanFrames) /\ Len(can_rx') <= RxCap
  BY TryReceiveType, ConstantTypes DEF RxOverflow, TypeOK
<1>2. service' \in CanService /\ service'.bus_off_count = service.bus_off_count
  BY DropCounted DEF RxOverflow, TypeOK
<1>3. TypeOK'
  BY <1>1, <1>2 DEF RxOverflow, TypeOK
<1> QED
  BY <1>2, <1>3 DEF RxOverflow, PcInv, StoppedInv, SleepMeansBusOff, RetryInv

\* The counter of errors stays within its bound.
LEMMA CountErrorType ==
    ASSUME TypeOK, CountError
    PROVE  can_error_count' \in 0..MaxErrors /\ can_error_count' \in Nat
  BY ConstantTypes DEF TypeOK, CountError

\* An error report keeps it, queued or not.
LEMMA RxErrorStep == ASSUME IInv, NEW e \in BusErrors, RxError(e) PROVE IInv'
<1> USE DEF IInv
<1>1. can_error_count' \in 0..MaxErrors /\ can_error_count' \in Nat
  BY CountErrorType DEF RxError
<1>2. usb_echo' \in Seq(EchoFrames) /\ Len(usb_echo') <= EchoCap
  <2>1. FromBusError(e) \in EchoFrames
    BY DEF EchoFrames
  <2> QED
    BY <2>1, TrySendType, ConstantTypes DEF RxError, TypeOK
<1>3. can_rx' \in Seq(CanFrames) /\ Len(can_rx') <= RxCap
  BY TryReceiveType, ConstantTypes DEF RxError, TypeOK
<1>4. service' \in CanService
  <2>1. service \in CanService /\ service.dropped_rx + 1 \in Nat
    BY DEF TypeOK, CanService
  <2>2. \/ service' = [service EXCEPT !.error_count = can_error_count']
        \/ service' = [service EXCEPT !.error_count = can_error_count',
                                      !.dropped_rx = service.dropped_rx + 1]
    BY DEF RxError
  <2>3. \A n, d \in Nat : /\ [service EXCEPT !.error_count = n] \in CanService
                         /\ [service EXCEPT !.error_count = n, !.dropped_rx = d] \in CanService
    BY <2>1, ErrorCounted
  <2> QED
    BY <1>1, <2>1, <2>2, <2>3, Zenon
<1>5. TypeOK'
  BY <1>1, <1>2, <1>3, <1>4 DEF RxError, TypeOK
<1>6. pc = "select" /\ UNCHANGED <<pc, is_started, can, tx_req>>
  BY DEF RxError, Reads
<1> QED
  BY <1>5, <1>6 DEF PcInv, StoppedInv, SleepMeansBusOff, RetryInv

\* A recovery that begins keeps it: the index is the count before the increment.
LEMMA BusOffRetryStep == ASSUME IInv, BusOffRetry PROVE IInv'
<1> USE DEF IInv
<1>1. can_error_count' \in 0..MaxErrors /\ can_error_count' \in Nat
  BY CountErrorType DEF BusOffRetry
<1>2. service.bus_off_count \in 0..MAX_BUS_OFF_RETRIES - 1
  BY DEF BusOffRetry, RetryLeft, TypeOK, CanService, MAX_BUS_OFF_RETRIES
<1>3. service' \in CanService /\ service'.bus_off_count = service.bus_off_count + 1
  <2>1. service \in CanService /\ service.bus_off_count + 1 \in Nat
    BY DEF TypeOK, CanService
  <2>2. service' = [service EXCEPT !.error_count = can_error_count',
                                   !.bus_off_count = service.bus_off_count + 1]
    BY DEF BusOffRetry
  <2>3. \A n, b \in Nat :
            LET t == [service EXCEPT !.error_count = n, !.bus_off_count = b] IN
              t \in CanService /\ t.bus_off_count = b
    BY <2>1, ErrorCounted
  <2> QED
    BY <1>1, <2>1, <2>2, <2>3, Zenon
<1>4. TypeOK'
  BY <1>1, <1>2, <1>3 DEF BusOffRetry, TypeOK
<1>5. RetryInv'
  BY <1>2, <1>3 DEF BusOffRetry, RetryLeft, RetryInv, MAX_BUS_OFF_RETRIES
<1>6. /\ pc = "select" /\ pc' = "recovering"
      /\ is_started' = is_started /\ can' = can /\ tx_req' = tx_req
  BY DEF BusOffRetry, Reads
<1> QED
  BY <1>4, <1>5, <1>6 DEF PcInv, StoppedInv, SleepMeansBusOff

\* The return of the recovery's enable() keeps it.
LEMMA RecoverDoneStep == ASSUME IInv, RecoverDone PROVE IInv'
<1> USE DEF IInv
<1>1. can' \in Peripheral /\ can'.power = "awake" /\ can'.silent = can.silent
  BY EnabledType DEF RecoverDone, TypeOK
<1>2. TypeOK'
  BY <1>1 DEF RecoverDone, TypeOK
<1>3. PcInv' /\ RetryInv'
  BY DEF RecoverDone, PcInv, RetryInv
<1> QED
  BY <1>1, <1>2, <1>3 DEF RecoverDone, PcInv, StoppedInv, SleepMeansBusOff

\* The end of the delay keeps it.
LEMMA BackoffDoneStep == ASSUME IInv, BackoffDone PROVE IInv'
<1> USE DEF IInv
<1>1. TypeOK'
  BY ConstantTypes DEF BackoffDone, TypeOK, MAX_BUS_OFF_RETRIES
<1> QED
  BY <1>1 DEF BackoffDone, PcInv, StoppedInv, SleepMeansBusOff, RetryInv

\* A bus-off without retries left keeps it.
LEMMA BusOffGiveUpStep == ASSUME IInv, BusOffGiveUp PROVE IInv'
<1> USE DEF IInv
<1>1. can_error_count' \in 0..MaxErrors /\ can_error_count' \in Nat
  BY CountErrorType DEF BusOffGiveUp
<1>2. service' \in CanService
  <2>1. service \in CanService /\ service.bus_off_count + 1 \in Nat
    BY DEF TypeOK, CanService
  <2>2. service' = [service EXCEPT !.error_count = can_error_count',
                                   !.bus_off_count = service.bus_off_count + 1]
    BY DEF BusOffGiveUp
  <2> QED
    BY <1>1, <2>1, <2>2, ErrorCounted, Zenon
<1>3. usb_echo' \in Seq(EchoFrames) /\ Len(usb_echo') <= EchoCap
  <2>1. BusOffFrame \in EchoFrames
    BY DEF EchoFrames
  <2> QED
    BY <2>1, TrySendType, ConstantTypes DEF BusOffGiveUp, TypeOK
<1>4. TypeOK'
  BY <1>1, <1>2, <1>3 DEF BusOffGiveUp, TypeOK
<1>5. pc = "select" /\ UNCHANGED <<pc, is_started, can, tx_req>>
  BY DEF BusOffGiveUp, Reads
<1> QED
  BY <1>4, <1>5 DEF PcInv, StoppedInv, SleepMeansBusOff, RetryInv

\* What happens to a mailbox, or to the node on the bus, keeps it.
LEMMA MailboxStep ==
    ASSUME IInv, NEW r \in mailbox, MailboxSent(r) \/ MailboxLost(r) PROVE IInv'
<1> USE DEF IInv
<1>1. mailbox' \subseteq Requests /\ bus' \subseteq Requests
  BY DEF MailboxSent, MailboxLost, TypeOK
<1>2. UNCHANGED <<pc, is_started, can_error_count, retry_idx, tx_req, service, can,
                  can_cmd, can_rx, usb_echo>>
  BY DEF MailboxSent, MailboxLost
<1>3. TypeOK'
  BY <1>1, <1>2 DEF TypeOK
<1> QED
  BY <1>2, <1>3 DEF PcInv, StoppedInv, SleepMeansBusOff, RetryInv

\* Only an awake peripheral that is not silent goes bus-off, so never one that has
\* to stay silent, and never one that an await of enable() has put to sleep.
LEMMA GoBusOffStep == ASSUME IInv, GoBusOff PROVE IInv'
<1> USE DEF IInv
<1>1. can' \in Peripheral /\ can'.power = "bus_off" /\ can'.silent = can.silent
  BY DEF GoBusOff, TypeOK, Peripheral, CanPower
<1>2. TypeOK'
  BY <1>1 DEF GoBusOff, TypeOK
<1>3. pc # "enabling" /\ is_started
  BY DEF GoBusOff, Drives, PcInv, StoppedInv, TypeOK
<1> QED
  BY <1>1, <1>2, <1>3 DEF GoBusOff, PcInv, StoppedInv, SleepMeansBusOff, RetryInv

\* A command of another task keeps it.
LEMMA SendCmdStep == ASSUME IInv, NEW c \in CanDriverCmd, SendCmd(c) PROVE IInv'
<1> USE DEF IInv
<1>1. can_cmd' \in Seq(CanDriverCmd) /\ Len(can_cmd') <= CmdCap
  BY TrySendType, ConstantTypes DEF SendCmd, TypeOK
<1>2. TypeOK'
  BY <1>1 DEF SendCmd, TypeOK
<1> QED
  BY <1>2 DEF SendCmd, PcInv, StoppedInv, SleepMeansBusOff, RetryInv

\* usb_tx_task draining a queue keeps it.
LEMMA TakeStep == ASSUME IInv, TakeRx \/ TakeEcho PROVE IInv'
<1> USE DEF IInv
<1>1. can_rx' \in Seq(CanFrames) /\ Len(can_rx') <= RxCap
  <2>1. can_rx' = can_rx \/ (can_rx # <<>> /\ can_rx' = Tail(can_rx))
    BY DEF TakeRx, TakeEcho
  <2>2. can_rx # <<>> => Tail(can_rx) \in Seq(CanFrames) /\ Len(Tail(can_rx)) <= RxCap
    BY ReceiveType, ConstantTypes DEF TypeOK
  <2> QED
    BY <2>1, <2>2 DEF TypeOK
<1>2. usb_echo' \in Seq(EchoFrames) /\ Len(usb_echo') <= EchoCap
  <2>1. usb_echo' = usb_echo \/ (usb_echo # <<>> /\ usb_echo' = Tail(usb_echo))
    BY DEF TakeRx, TakeEcho
  <2>2. usb_echo # <<>> => Tail(usb_echo) \in Seq(EchoFrames) /\ Len(Tail(usb_echo)) <= EchoCap
    BY ReceiveType, ConstantTypes DEF TypeOK
  <2> QED
    BY <2>1, <2>2 DEF TypeOK
<1>3. UNCHANGED <<pc, is_started, can_error_count, retry_idx, tx_req, service, can,
                  mailbox, bus, can_cmd>>
  BY DEF TakeRx, TakeEcho
<1>4. TypeOK'
  BY <1>1, <1>2, <1>3 DEF TypeOK
<1> QED
  BY <1>3, <1>4 DEF PcInv, StoppedInv, SleepMeansBusOff, RetryInv

\* Every step of the component, or of its environment, keeps the invariant.
LEMMA NextIInv == IInv /\ [Next]_vars => IInv'
<1> SUFFICES ASSUME IInv, [Next]_vars PROVE IInv'
  OBVIOUS
<1>1. CASE TaskStep
  BY <1>1, StartStep, StopStep, ApplyBitTimingStep, IgnoreWhenStoppedStep, EnableDoneStep,
     TransmitAtOnceStep, TransmitWaitsStep, WriteDoneStep, WriteTimeoutStep,
     RecoverDoneStep, BackoffDoneStep
  DEF TaskStep
<1>2. CASE ReadStep
  BY <1>2, RxQueuedStep, RxOverflowStep, RxErrorStep, BusOffRetryStep, BusOffGiveUpStep
  DEF ReadStep
<1>3. CASE BusStep
  BY <1>3, MailboxStep, GoBusOffStep DEF BusStep
<1>4. CASE OtherTasks
  BY <1>4, SendCmdStep, TakeStep DEF OtherTasks
<1>5. CASE UNCHANGED vars
  BY <1>5 DEF vars, IInv, TypeOK, PcInv, StoppedInv, SleepMeansBusOff, RetryInv
<1> QED
  BY <1>1, <1>2, <1>3, <1>4, <1>5 DEF Next

-----------------------------------------------------------------------------
(* Theorems.                                                                *)

\* The inductive invariant holds in every reachable state.
THEOREM Invariance == Spec => []IInv
  BY InitIInv, NextIInv, PTL DEF Spec

\* The state keeps its types, and no channel exceeds its capacity.
THEOREM TypeCorrect == Spec => []TypeOK
<1>1. IInv => TypeOK
  BY DEF IInv
<1> QED
  BY <1>1, Invariance, PTL

\* A stopped driver never drives the bus: BeginStop makes the peripheral silent in
\* the step that stops, and whatever wakes it up again while stopped keeps it so.
THEOREM StoppedIsSilent == Spec => []SilentWhenStopped
<1>1. IInv => SilentWhenStopped
  BY DEF IInv, StoppedInv, SilentWhenStopped, Drives
<1> QED
  BY <1>1, Invariance, PTL

\* While the driver listens the peripheral never sleeps for a reconfiguration, so
\* the retry budget is spent on bus-off only.
THEOREM SleepIsBusOff == Spec => []SleepMeansBusOff
<1>1. IInv => SleepMeansBusOff
  BY DEF IInv
<1> QED
  BY <1>1, Invariance, PTL

\* Recoveries are at most MAX_BUS_OFF_RETRIES and their delays double from 100 ms.
THEOREM BackoffSchedule == Spec => []BackoffExponential
<1> DEFINE Delay(k) == 100 * 2^k
<1>0. /\ Delay(0) = 100 /\ Delay(1) = 200 /\ Delay(2) = 400
      /\ Delay(3) = 800 /\ Delay(4) = 1600
  OBVIOUS
<1>1. ASSUME NEW n \in 1..5 PROVE BUS_OFF_DELAYS_MS[n] = Delay(n - 1)
  <2> HIDE DEF Delay
  <2>1. n = 1 \/ n = 2 \/ n = 3 \/ n = 4 \/ n = 5
    BY <1>1
  <2> QED
    BY <1>0, <2>1 DEF BUS_OFF_DELAYS_MS
<1>2. ASSUME IInv PROVE BackoffExponential
  <2> SUFFICES ASSUME pc \in {"recovering", "backoff"}
               PROVE  /\ service.bus_off_count \in 1..MAX_BUS_OFF_RETRIES
                      /\ BUS_OFF_DELAYS_MS[retry_idx + 1]
                           = 100 * 2^(service.bus_off_count - 1)
    BY DEF BackoffExponential
  <2>1. /\ service.bus_off_count \in 1..5
        /\ retry_idx + 1 = service.bus_off_count
    BY <1>2 DEF IInv, RetryInv, MAX_BUS_OFF_RETRIES
  <2> QED
    BY <1>1, <2>1 DEF MAX_BUS_OFF_RETRIES
<1> QED
  BY <1>2, Invariance, PTL

\* parse_tx_msg masks the id to its format and bounds the length, so transmit()
\* builds a frame of whatever the host sends.
LEMMA ParsedIsFrame == ASSUME NEW m \in TxMsgs PROVE ~FrameError(ParseTxMsg(m))
<1> DEFINE req == ParseTxMsg(m)
<1>1. /\ req.is_extended = IsExtended(m) /\ req.id = Id(m) /\ req.dlc = Dlc(m)
  BY DEF ParseTxMsg
<1>2. Dlc(m) \in 0..8
  BY TxMsgsAssumption DEF Dlc
<1>3. CASE IsExtended(m)
  <2>1. Id(m) \subseteq 0..28
    BY <1>3 DEF Id, GS_CAN_ID_MASK_EFF
  <2> QED
    BY <1>1, <1>2, <1>3, <2>1 DEF FrameError
<1>4. CASE ~IsExtended(m)
  <2>1. Id(m) \subseteq 0..10
    BY <1>4 DEF Id, GS_CAN_ID_MASK_SFF
  <2> QED
    BY <1>1, <1>2, <1>4, <2>1 DEF FrameError
<1> QED
  BY <1>3, <1>4

\* Every transmission queued for the driver makes a CAN frame, so the error paths of
\* transmit() that precede the write are dead code.
THEOREM TransmissionsAreFrames == Spec => []RequestsAreFrames
<1>1. ASSUME TypeOK PROVE RequestsAreFrames
  <2> SUFFICES ASSUME NEW i \in DOMAIN can_cmd, can_cmd[i].op = "Transmit"
               PROVE  ~FrameError(can_cmd[i].req)
    BY DEF RequestsAreFrames
  <2>1. can_cmd[i] \in CanDriverCmd
    BY <1>1 DEF TypeOK
  <2>2. can_cmd[i].req \in Requests
    BY <2>1, CmdFields
  <2> QED
    BY <2>2, ParsedIsFrame DEF Requests
<1> QED
  BY <1>1, TypeCorrect, PTL

-----------------------------------------------------------------------------
(* The metrics, and what a stopped driver leaves alone.                     *)

\* Telling that the driver is started, or counting a drop, leaves the other fields alone.
LEMMA Stored ==
    ASSUME NEW s \in CanService, NEW b \in BOOLEAN, NEW k \in Nat
    PROVE  /\ LET t == [s EXCEPT !.started = b] IN
                /\ t.started = b
                /\ t.error_count = s.error_count /\ t.bus_off_count = s.bus_off_count
           /\ LET t == [s EXCEPT !.dropped_rx = k] IN
                /\ t.started = s.started
                /\ t.error_count = s.error_count /\ t.bus_off_count = s.bus_off_count
  BY DEF CanService

\* A dropped echo is the only thing a write counts.
LEMMA EchoMetrics ==
    ASSUME TypeOK, NEW req, Echo(req)
    PROVE  /\ service'.started = service.started
           /\ service'.error_count = service.error_count
           /\ service'.bus_off_count = service.bus_off_count
<1>1. service \in CanService /\ service.dropped_rx + 1 \in Nat
  BY DEF TypeOK, CanService
<1>2. service' = service \/ service' = [service EXCEPT !.dropped_rx = service.dropped_rx + 1]
  BY DEF Echo
<1>3. CASE service' = [service EXCEPT !.dropped_rx = service.dropped_rx + 1]
  <2>0. PICK t : t = service'
    OBVIOUS
  <2>1. PICK k \in Nat : t = service' /\ k = service.dropped_rx + 1
    BY <1>1, <2>0
  <2>2. t = [service EXCEPT !.dropped_rx = k]
    BY <1>3, <2>1
  <2>3. /\ t.started = service.started
        /\ t.error_count = service.error_count /\ t.bus_off_count = service.bus_off_count
    BY <1>1, <2>2, Stored
  <2> QED
    BY <2>1, <2>3
<1> QED
  BY <1>2, <1>3

\* A step that counts an error stores the new count and no other task field.
LEMMA ErrorMetrics ==
    ASSUME TypeOK,
           \/ \E e \in BusErrors : RxError(e)
           \/ BusOffRetry \/ BusOffGiveUp
    PROVE  /\ is_started' = is_started
           /\ service'.started = service.started
           /\ service'.error_count = can_error_count'
<1>1. service \in CanService
  BY DEF TypeOK
<1>2. can_error_count' \in Nat /\ is_started' = is_started
  BY CountErrorType DEF RxError, BusOffRetry, BusOffGiveUp
<1>0. PICK t : t = service'
  OBVIOUS
<1>3. PICK n \in Nat, d \in Nat, k \in Nat :
        /\ t = service' /\ n = can_error_count'
        /\ d = service.dropped_rx + 1 /\ k = service.bus_off_count + 1
  BY <1>0, <1>1, <1>2 DEF CanService
<1>4. \/ t = [service EXCEPT !.error_count = n]
      \/ t = [service EXCEPT !.error_count = n, !.dropped_rx = d]
      \/ t = [service EXCEPT !.error_count = n, !.bus_off_count = k]
  BY <1>3 DEF RxError, BusOffRetry, BusOffGiveUp
<1>5. t.started = service.started /\ t.error_count = n
  BY <1>1, <1>4 DEF CanService
<1> QED
  BY <1>2, <1>3, <1>5

\* The metrics follow the task in every step: the count of the task leaves the stored one
\* only where a recovery ends, and RetryInv says that a recovery has been counted.
LEMMA MetricsStep == IInv /\ MetricsFollowTask /\ [Next]_vars => MetricsFollowTask'
<1> SUFFICES ASSUME IInv, MetricsFollowTask, [Next]_vars PROVE MetricsFollowTask'
  OBVIOUS
<1> USE DEF MetricsFollowTask
<1>1. TypeOK /\ service \in CanService /\ is_started \in BOOLEAN
  BY DEF IInv, TypeOK
<1>2. CASE Start \/ Stop
  <2>1. /\ service' = [service EXCEPT !.started = is_started'] /\ is_started' \in BOOLEAN
        /\ can_error_count' = can_error_count
    BY <1>2 DEF Start, Stop
  <2> QED
    BY <1>1, <2>1, Stored
<1>3. CASE UNCHANGED <<is_started, service, can_error_count>>
  BY <1>3
<1>4. CASE TransmitAtOnce \/ WriteDone
  <2>1. UNCHANGED <<is_started, can_error_count>> /\ \E req : Echo(req)
    BY <1>4 DEF TransmitAtOnce, WriteDone
  <2> QED
    BY <1>1, <2>1, EchoMetrics
<1>5. CASE BackoffDone
  <2>1. service.bus_off_count > 0
    BY <1>5 DEF IInv, RetryInv, BackoffDone, MAX_BUS_OFF_RETRIES
  <2> QED
    BY <1>5, <2>1 DEF BackoffDone
<1>6. CASE RxOverflow
  <2>1. /\ UNCHANGED <<is_started, can_error_count>>
        /\ service' = [service EXCEPT !.dropped_rx = service.dropped_rx + 1]
    BY <1>6 DEF RxOverflow
  <2>2. service.dropped_rx + 1 \in Nat
    BY <1>1 DEF CanService
  <2> QED
    BY <1>1, <2>1, <2>2, Stored
<1>7. CASE (\E e \in BusErrors : RxError(e)) \/ BusOffRetry \/ BusOffGiveUp
  BY <1>1, <1>7, ErrorMetrics
<1>8. ASSUME \/ ApplyBitTiming \/ IgnoreWhenStopped \/ EnableDone
             \/ TransmitWaits \/ WriteTimeout \/ RecoverDone
             \/ \E f \in CanFrames : RxQueued(f)
             \/ BusStep \/ OtherTasks \/ UNCHANGED vars
      PROVE  UNCHANGED <<is_started, service, can_error_count>>
  BY <1>8 DEF ApplyBitTiming, IgnoreWhenStopped, EnableDone, TransmitWaits, WriteTimeout,
              RecoverDone, RxQueued, BusStep, MailboxSent, MailboxLost, GoBusOff,
              OtherTasks, SendCmd, TakeRx, TakeEcho, vars
<1> QED
  BY <1>2, <1>3, <1>4, <1>5, <1>6, <1>7, <1>8 DEF Next, TaskStep, ReadStep

\* What health_monitor prints follows the task, for any number of errors and recoveries.
THEOREM MetricsFollow == Spec => []MetricsFollowTask
<1>1. ASSUME Init PROVE MetricsFollowTask
  <2>1. service.started = FALSE /\ service.error_count = 0
    BY <1>1 DEF Init, NewCanService
  <2>2. is_started = FALSE /\ can_error_count = 0
    BY <1>1 DEF Init
  <2> QED
    BY <2>1, <2>2, Zenon DEF MetricsFollowTask
<1> QED
  BY <1>1, MetricsStep, Invariance, PTL DEF Spec

\* A step of a stopped driver: PcInv leaves it the commands and the return of enable().
LEMMA StoppedAddsNothing ==
    ASSUME IInv, MetricsFollowTask, [Next]_vars, ~is_started
    PROVE  /\ can_rx' \in {can_rx, TryReceive(can_rx)}
           /\ usb_echo' \in {usb_echo, TryReceive(usb_echo)}
           /\ mailbox' \subseteq mailbox
           /\ can_error_count' = can_error_count
           /\ service' = [service EXCEPT !.started = is_started']
<1>1. pc \notin {"select", "writing", "recovering", "backoff"}
  BY DEF IInv, PcInv
<1>2. service = [service EXCEPT !.started = is_started]
  <2>1. service \in CanService /\ service.started = is_started
    BY DEF IInv, TypeOK, MetricsFollowTask
  <2> QED
    BY <2>1 DEF CanService
<1>3. CASE Start
  BY <1>3 DEF Start
<1>4. CASE ApplyBitTiming \/ IgnoreWhenStopped \/ EnableDone \/ UNCHANGED vars
  BY <1>2, <1>4 DEF ApplyBitTiming, IgnoreWhenStopped, EnableDone, vars
<1>5. CASE BusStep
  BY <1>2, <1>5 DEF BusStep, MailboxSent, MailboxLost, GoBusOff
<1>6. CASE OtherTasks
  <2>1. UNCHANGED <<is_started, service, mailbox, can_error_count>>
    BY <1>6 DEF OtherTasks, SendCmd, TakeRx, TakeEcho
  <2>2. /\ can_rx' \in {can_rx, TryReceive(can_rx)}
        /\ usb_echo' \in {usb_echo, TryReceive(usb_echo)}
    BY <1>6 DEF OtherTasks, SendCmd, TakeRx, TakeEcho, TryReceive
  <2> QED
    BY <1>2, <2>1, <2>2
<1>7. ~Stop /\ ~TransmitAtOnce /\ ~TransmitWaits
  BY DEF Stop, TransmitAtOnce, TransmitWaits
<1>8. ~WriteDone /\ ~WriteTimeout /\ ~RecoverDone /\ ~BackoffDone
  BY <1>1 DEF WriteDone, WriteTimeout, RecoverDone, BackoffDone
<1>9. ~ReadStep
  BY <1>1 DEF ReadStep, RxQueued, RxOverflow, RxError, BusOffRetry, BusOffGiveUp, Reads
<1> QED
  BY <1>3, <1>4, <1>5, <1>6, <1>7, <1>8, <1>9 DEF Next, TaskStep

\* A stopped driver hands nothing new to the host and writes nothing, at any await.
THEOREM StoppedIsQuiet == Spec => QuietWhenStopped
<1>1. ASSUME IInv, MetricsFollowTask, [Next]_vars
      PROVE  ~is_started =>
               /\ can_rx' \in {can_rx, TryReceive(can_rx)}
               /\ usb_echo' \in {usb_echo, TryReceive(usb_echo)}
               /\ mailbox' \subseteq mailbox
               /\ can_error_count' = can_error_count
               /\ service' = [service EXCEPT !.started = is_started']
  BY <1>1, StoppedAddsNothing
<1> QED
  BY <1>1, Invariance, MetricsFollow, PTL DEF QuietWhenStopped, Spec

-----------------------------------------------------------------------------
(* The turn of a command.  Liveness rests on the measure StepsToTake: every *)
(* step of the task lowers it and no step of anybody else raises it.        *)

\* The step takes the command at the head of the queue.
TakesHead ==
    /\ pc \in {"cmd", "select"}
    /\ can_cmd # <<>>
    /\ can_cmd' = Tail(can_cmd)
    /\ StepsToListen' <= 1

\* Every step of the task takes a command or brings the task closer to its queue.
LEMMA TaskStepMoves ==
    ASSUME IInv, TaskStep
    PROVE  \/ TakesHead
           \/ can_cmd' = can_cmd /\ StepsToListen' < StepsToListen
<1>1. CASE \/ Start \/ Stop \/ ApplyBitTiming \/ IgnoreWhenStopped
           \/ TransmitAtOnce \/ TransmitWaits
  <2>1. pc \in {"cmd", "select"} /\ can_cmd # <<>> /\ can_cmd' = Tail(can_cmd)
    BY <1>1 DEF Start, Stop, ApplyBitTiming, IgnoreWhenStopped, TransmitAtOnce, TransmitWaits,
                Receives
  <2>2. pc' \in {"cmd", "select", "enabling", "writing"}
    BY <1>1, <2>1 DEF Start, Stop, ApplyBitTiming, IgnoreWhenStopped, TransmitAtOnce,
                      TransmitWaits
  <2>3. StepsToListen' <= 1
    BY <2>2 DEF StepsToListen
  <2> QED
    BY <2>1, <2>3 DEF TakesHead
<1>2. CASE EnableDone \/ WriteDone \/ WriteTimeout \/ RecoverDone \/ BackoffDone
  <2>1. can_cmd' = can_cmd
    BY <1>2 DEF EnableDone, WriteDone, WriteTimeout, RecoverDone, BackoffDone
  <2>2. \/ pc \in {"enabling", "writing", "backoff"} /\ pc' \in {"cmd", "select"}
        \/ pc = "recovering" /\ pc' = "backoff"
    BY <1>2 DEF EnableDone, WriteDone, WriteTimeout, RecoverDone, BackoffDone
  <2> QED
    BY <2>1, <2>2 DEF StepsToListen
<1> QED
  BY <1>1, <1>2 DEF TaskStep

\* A step of the peripheral, the bus or another task only appends to the queue, and moves
\* the task only when the queue is empty: a command that waits is taken first.
LEMMA OthersDoNotDelay ==
    ASSUME IInv, [Next]_vars, ~TaskStep, can_cmd # <<>>
    PROVE  /\ StepsToListen' = StepsToListen
           /\ can_cmd' = can_cmd \/ \E c : can_cmd' = Append(can_cmd, c)
<1>1. ~ReadStep
  BY DEF ReadStep, RxQueued, RxOverflow, RxError, BusOffRetry, BusOffGiveUp, Reads
<1>2. pc' = pc /\ (can_cmd' = can_cmd \/ \E c : can_cmd' = Append(can_cmd, c))
  <2>1. CASE BusStep
    BY <2>1 DEF BusStep, MailboxSent, MailboxLost, GoBusOff
  <2>2. CASE OtherTasks
    BY <2>2 DEF OtherTasks, SendCmd, TakeRx, TakeEcho, TrySend
  <2>3. CASE UNCHANGED vars
    BY <2>3 DEF vars
  <2> QED
    BY <1>1, <2>1, <2>2, <2>3 DEF Next
<1> QED
  BY <1>2 DEF StepsToListen

\* StepsToListen is 0, 1 or 2.
LEMMA ListenBound == IInv => StepsToListen \in 0..2
  BY DEF IInv, TypeOK, StepsToListen

\* One step and the command at place i: it is taken, or it has a place and is not farther
\* from being taken, and nearer if the step is one of the task.
LEMMA CommandMoves ==
    ASSUME IInv, [Next]_vars, NEW i \in DOMAIN can_cmd
    PROVE  \/ i = 1 /\ TaskStep /\ TakesHead
           \/ \E j \in DOMAIN can_cmd' :
                /\ can_cmd'[j] = can_cmd[i]
                /\ StepsToTake(j)' <= StepsToTake(i)
                /\ TaskStep => StepsToTake(j)' < StepsToTake(i)
<1>1. can_cmd \in Seq(CanDriverCmd) /\ i \in 1..Len(can_cmd) /\ i \in Nat
  BY DEF IInv, TypeOK
<1>2. StepsToListen' \in 0..2
  BY NextIInv DEF IInv, TypeOK, StepsToListen
<1>3. PICK n \in 0..2, m \in 0..2 : n = StepsToListen /\ m = StepsToListen'
  BY <1>2, ListenBound
<1>4. /\ StepsToTake(i) = 2 * i - 1 + n
      /\ StepsToTake(i)' = 2 * i - 1 + m
      /\ StepsToTake(i - 1)' = 2 * (i - 1) - 1 + m
  BY <1>3 DEF StepsToTake
<1>5. CASE TaskStep /\ TakesHead
  <2>1. can_cmd' = Tail(can_cmd) /\ m <= 1
    BY <1>3, <1>5 DEF TakesHead
  <2>2. CASE i # 1
    <3>1. i - 1 \in DOMAIN can_cmd' /\ can_cmd'[i - 1] = can_cmd[i]
      BY <1>1, <2>1, <2>2
    <3>2. 2 * (i - 1) - 1 + m < 2 * i - 1 + n /\ 2 * (i - 1) - 1 + m <= 2 * i - 1 + n
      BY <1>1, <2>1
    <3> QED
      BY <1>4, <3>1, <3>2
  <2> QED
    BY <1>5, <2>2
<1>6. CASE TaskStep /\ can_cmd' = can_cmd /\ StepsToListen' < StepsToListen
  <2>1. 2 * i - 1 + m < 2 * i - 1 + n /\ 2 * i - 1 + m <= 2 * i - 1 + n
    BY <1>1, <1>3, <1>6
  <2> QED
    BY <1>4, <1>6, <2>1
<1>7. CASE ~TaskStep
  <2>1. StepsToListen' = StepsToListen /\ (can_cmd' = can_cmd \/ \E c : can_cmd' = Append(can_cmd, c))
    BY <1>1, <1>7, OthersDoNotDelay
  <2>2. i \in DOMAIN can_cmd' /\ can_cmd'[i] = can_cmd[i]
    BY <1>1, <2>1
  <2>3. 2 * i - 1 + m <= 2 * i - 1 + n
    BY <1>1, <1>3, <2>1
  <2> QED
    BY <1>4, <1>7, <2>2, <2>3
<1> QED
  BY <1>5, <1>6, <1>7, TaskStepMoves

\* Commands are taken in their turn, whatever the capacity of the queue.
THEOREM CommandsAreTaken == Spec => CommandsAdvance
<1>1. ASSUME IInv, [Next]_vars
      PROVE  \A i \in DOMAIN can_cmd :
               \/ i = 1 /\ Len(can_cmd') < Len(can_cmd)
               \/ \E j \in DOMAIN can_cmd' :
                    /\ can_cmd'[j] = can_cmd[i]
                    /\ StepsToTake(j)' <= StepsToTake(i)
                    /\ TaskStep => StepsToTake(j)' < StepsToTake(i)
  <2>1. TakesHead => Len(can_cmd') < Len(can_cmd)
    BY <1>1, ReceiveType DEF TakesHead, IInv, TypeOK
  <2> QED
    BY <1>1, <2>1, CommandMoves
<1> QED
  BY <1>1, Invariance, PTL DEF CommandsAdvance, Spec

-----------------------------------------------------------------------------
(* Liveness.  ENABLED is out of the provers' reach, so NeverStuck, which    *)
(* TLC checks, is a hypothesis; the rest is proved.                         *)

\* The fairness of the executor, told without ENABLED: a task that is woken from some
\* time on makes steps for ever.
Served == []<>~Woken \/ []<><<TaskStep>>_vars

\* Weak fairness of a task that is never stuck.
LEMMA FairIsServed == FairSpec /\ []NeverStuck => Spec /\ Served
  BY PTL DEF FairSpec, NeverStuck, Served

\* The task takes the command c.
Takes(c) == TaskStep /\ TakesHead /\ Head(can_cmd) = c

\* c is queued, at most k steps of the task before it is taken.
Coming(c, k) == \E i \in DOMAIN can_cmd : can_cmd[i] = c /\ StepsToTake(i) <= k

InQueue(c) == \E i \in DOMAIN can_cmd : can_cmd[i] = c

\* c is taken whenever it is as near as that, or wherever it is.
TakenFrom(c, k) == Spec /\ Served => [](Coming(c, k) => <><<Takes(c)>>_vars)
IsTaken(c)      == Spec /\ Served => [](InQueue(c) => <><<Takes(c)>>_vars)

\* Taking a command is a step that changes the state.
LEMMA TakesChanges == ASSUME IInv, NEW c, Takes(c) PROVE <<Takes(c)>>_vars
<1>1. Len(can_cmd') # Len(can_cmd)
  BY ReceiveType DEF Takes, TakesHead, IInv, TypeOK
<1> QED
  BY <1>1 DEF vars

\* A command that is coming stays as near, and a step of the task brings it nearer.
LEMMA ComingMoves ==
    ASSUME IInv, [Next]_vars, NEW c, NEW k \in Nat, Coming(c, k + 1)
    PROVE  /\ Coming(c, k + 1)' \/ <<Takes(c)>>_vars
           /\ TaskStep => Coming(c, k)' \/ <<Takes(c)>>_vars
<1>1. PICK i \in DOMAIN can_cmd : can_cmd[i] = c /\ StepsToTake(i) <= k + 1
  BY DEF Coming
<1>2. CASE i = 1 /\ TaskStep /\ TakesHead
  <2>1. Takes(c)
    BY <1>1, <1>2 DEF Takes, TakesHead
  <2> QED
    BY <2>1, TakesChanges
<1>3. CASE \E j \in DOMAIN can_cmd' :
             /\ can_cmd'[j] = can_cmd[i]
             /\ StepsToTake(j)' <= StepsToTake(i)
             /\ TaskStep => StepsToTake(j)' < StepsToTake(i)
  <2>1. PICK j \in DOMAIN can_cmd' :
             /\ can_cmd'[j] = can_cmd[i]
             /\ StepsToTake(j)' <= StepsToTake(i)
             /\ TaskStep => StepsToTake(j)' < StepsToTake(i)
    BY <1>3
  <2>2. /\ IInv' /\ can_cmd \in Seq(CanDriverCmd) /\ can_cmd' \in Seq(CanDriverCmd)
    BY NextIInv DEF IInv, TypeOK
  <2>3. PICK a \in Int, b \in Int : a = StepsToTake(i) /\ b = StepsToTake(j)'
    <3>1. StepsToListen \in Int /\ StepsToListen' \in Int /\ i \in Int /\ j \in Int
      BY <2>2, ListenBound DEF IInv, TypeOK, StepsToListen
    <3>2. StepsToTake(i) \in Int
      BY <3>1 DEF StepsToTake
    <3>3. StepsToTake(j)' \in Int
      BY <3>1 DEF StepsToTake
    <3> QED
      BY <3>2, <3>3
  <2>4. b <= k + 1 /\ (TaskStep => b <= k)
    BY <1>1, <2>1, <2>3
  <2> QED
    BY <1>1, <2>1, <2>3, <2>4 DEF Coming
<1> QED
  BY <1>2, <1>3, CommandMoves

\* One step of the measure.
LEMMA TakenFromNext ==
    ASSUME NEW c, NEW k \in Nat
    PROVE  TakenFrom(c, k) => TakenFrom(c, k + 1)
<1>1. IInv /\ Coming(c, k + 1) /\ [Next]_vars => Coming(c, k + 1)' \/ <<Takes(c)>>_vars
  BY ComingMoves
<1>2. IInv /\ Coming(c, k + 1) /\ <<Next /\ TaskStep>>_vars => Coming(c, k)' \/ <<Takes(c)>>_vars
  BY ComingMoves
<1>3. Coming(c, k + 1) => Woken
  BY DEF Woken, Coming
<1>4. TaskStep => Next
  BY DEF Next
<1> QED
  BY <1>1, <1>2, <1>3, <1>4, Invariance, PTL DEF TakenFrom, Served, Spec

\* No command is nearer than one step.
LEMMA NeverNearer == ASSUME NEW c PROVE TakenFrom(c, 0)
<1>1. IInv => ~Coming(c, 0)
  <2> SUFFICES ASSUME IInv, NEW i \in DOMAIN can_cmd PROVE ~(StepsToTake(i) <= 0)
    BY DEF Coming
  <2>1. i \in Nat /\ i >= 1 /\ StepsToListen \in 0..2
    BY ListenBound DEF IInv, TypeOK
  <2> QED
    BY <2>1 DEF StepsToTake
<1> QED
  BY <1>1, Invariance, PTL DEF TakenFrom

\* A queue of 16 commands and a recovery that has just begun: 33 steps.
LEMMA TakenFrom33 == ASSUME NEW c PROVE TakenFrom(c, 33)
<1>1. \A k \in Nat : TakenFrom(c, k) => TakenFrom(c, k + 1)
  BY TakenFromNext
<1>2. TakenFrom(c, 0)
  BY NeverNearer
<1> DEFINE P(k) == TakenFrom(c, k)
<1> HIDE DEF P
<1>3. P(0) /\ \A k \in Nat : P(k) => P(k + 1)
  BY <1>1, <1>2 DEF P
<1>4. P(8)
  BY <1>3
<1>5. P(16)
  BY <1>3, <1>4
<1>6. P(24)
  BY <1>3, <1>5
<1>7. P(33)
  BY <1>3, <1>6
<1> QED
  BY <1>7 DEF P

\* With the queue of the firmware, 16 commands, or a shorter one, every command that is
\* queued is taken.
LEMMA QueuedIsTaken ==
    ASSUME NEW c, CmdCap <= 16
    PROVE  IsTaken(c)
<1>1. ASSUME IInv, InQueue(c) PROVE Coming(c, 33)
  <2>1. PICK i \in DOMAIN can_cmd : can_cmd[i] = c
    BY <1>1 DEF InQueue
  <2>2. i \in Nat /\ i <= 16 /\ StepsToListen \in 0..2
    BY <1>1, ListenBound, ConstantTypes DEF IInv, TypeOK
  <2>3. StepsToTake(i) <= 33
    BY <2>2 DEF StepsToTake
  <2> QED
    BY <2>1, <2>3 DEF Coming
<1> QED
  BY <1>1, TakenFrom33, Invariance, PTL DEF TakenFrom, IsTaken

\* A taken Stop leaves the driver stopped.
LEMMA StopStops == Takes(StopCmd) => ~is_started'
<1> SUFFICES ASSUME Takes(StopCmd) PROVE ~is_started'
  OBVIOUS
<1>1. Head(can_cmd).op = "Stop" /\ pc \in {"cmd", "select"}
  BY DEF Takes, TakesHead, StopCmd
<1>2. Stop \/ IgnoreWhenStopped
  BY <1>1 DEF Takes, TaskStep, Start, ApplyBitTiming, TransmitAtOnce, TransmitWaits, Receives,
              EnableDone, WriteDone, WriteTimeout, RecoverDone, BackoffDone
<1> QED
  BY <1>2 DEF Stop, IgnoreWhenStopped

\* The driver as it is served stops on every queued Stop.
LEMMA ServedStops == ASSUME CmdCap <= 16 PROVE Spec /\ Served => StopTakesEffect
<1>1. IsTaken(StopCmd)
  BY QueuedIsTaken
<1>2. <<Takes(StopCmd)>>_vars => (~is_started)'
  BY StopStops
<1> QED
  BY <1>1, <1>2, PTL DEF StopTakesEffect, IsTaken, InQueue

Listens == pc \in {"cmd", "select"}

\* At most two steps lead back to the queue: the end of a recovery and its delay.
LEMMA ServedListens == Spec /\ Served => ListensAgain
<1> DEFINE Recovers == pc = "recovering"
           Waits    == pc \in {"enabling", "writing", "backoff"}
<1>1. IInv => Recovers \/ Waits \/ Listens
  BY DEF IInv, TypeOK, Listens
<1>2. (Recovers => Woken) /\ (Waits => Woken)
  BY DEF Woken
<1>3. ASSUME IInv, [Next]_vars, Recovers \/ Waits PROVE pc' = pc \/ TaskStep
  <2>1. ~ReadStep
    BY <1>3 DEF ReadStep, RxQueued, RxOverflow, RxError, BusOffRetry, BusOffGiveUp, Reads
  <2>2. BusStep \/ OtherTasks \/ UNCHANGED vars => pc' = pc
    BY DEF BusStep, MailboxSent, MailboxLost, GoBusOff, OtherTasks, SendCmd, TakeRx, TakeEcho, vars
  <2> QED
    BY <1>3, <2>1, <2>2 DEF Next
<1>4. ASSUME TaskStep PROVE (Recovers => Waits') /\ (Waits => Listens')
  BY <1>4 DEF TaskStep, Start, Stop, ApplyBitTiming, IgnoreWhenStopped, TransmitAtOnce,
              TransmitWaits, Receives, EnableDone, WriteDone, WriteTimeout, RecoverDone,
              BackoffDone, Listens
<1>5. IInv /\ Recovers /\ [Next]_vars => Recovers' \/ Waits'
  BY <1>3, <1>4
<1>6. IInv /\ Waits /\ [Next]_vars => Waits' \/ Listens'
  BY <1>3, <1>4
<1>7. Recovers /\ <<TaskStep>>_vars => Waits'
  BY <1>4
<1>8. Waits /\ <<TaskStep>>_vars => Listens'
  BY <1>4
<1> HIDE DEF Recovers, Waits
<1> QED
  BY <1>1, <1>2, <1>5, <1>6, <1>7, <1>8, Invariance, PTL DEF Spec, Served, ListensAgain, Listens

\* Whatever the bus and the other tasks do, the driver always comes back to its queue: no
\* write to a bus where nobody answers and no recovery holds it for ever.
THEOREM DriverListens == FairSpec /\ []NeverStuck => ListensAgain
  BY FairIsServed, ServedListens, PTL

\* With the queue of the firmware, or a shorter one, a queued Stop stops the driver.
THEOREM DriverStops ==
    ASSUME CmdCap <= 16
    PROVE  FairSpec /\ []NeverStuck => StopTakesEffect
  BY FairIsServed, ServedStops, PTL
=============================================================================
