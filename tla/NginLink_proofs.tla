-------------------------- MODULE NginLink_proofs --------------------------
(***************************************************************************)
(* The composition: the host and the USB tasks are one of the environments  *)
(* CanDriver was proved correct in, so its theorems hold of the adapter.    *)
(***************************************************************************)
EXTENDS NginLink, CanDriver_proofs

-----------------------------------------------------------------------------
(* The host's requests are the driver's commands.                           *)

\* A MODE request queues Start or Stop.
LEMMA ModeRequest ==
    ASSUME NEW req \in ControlRequests, req.request = "MODE"
    PROVE  /\ ModeCmd(req.payload) \in CanDriverCmd
           /\ ModeCmd(req.payload) \in {StartCmd(flags) : flags \in Modes} \cup {StopCmd}
<1>1. req.payload.flags \in Modes
  BY DEF ControlRequests
<1>2. StartCmd(req.payload.flags) \in {StartCmd(flags) : flags \in Modes}
  BY <1>1
<1> QED
  BY <1>2 DEF ModeCmd, CanDriverCmd

\* A BITTIMING request queues one of the timings.
LEMMA BitTimingRequest ==
    ASSUME NEW req \in ControlRequests, req.request = "BITTIMING"
    PROVE  SetBitTimingCmd(req.payload) \in CanDriverCmd
<1>1. req.payload \in Timings
  BY DEF ControlRequests
<1> QED
  BY <1>1 DEF CanDriverCmd

\* A request that takes effect is one the host means.
LEMMA EffectIsMeant == ASSUME NEW req, TakesEffect(req) PROVE Meant(req)
  BY DEF TakesEffect, Accepted, Meant

\* Every step of the adapter is a step of the driver or of none of its state.
LEMMA LinkStep == ASSUME [LinkNext]_linkVars PROVE [Next]_vars
<1>1. CASE Driver
  BY <1>1 DEF Driver, Next
<1>2. CASE Bus
  BY <1>2 DEF Bus, Next
<1>3. CASE UsbTxStep
  BY <1>3 DEF UsbTxStep, UsbTxTakeRx, UsbTxTakeEcho, UsbTxWritten, UsbTxError, Next, OtherTasks
<1>4. CASE Host
  <2>1. ASSUME NEW m \in TxMsgs, UsbRx(m) PROVE Next
    <3>1. TransmitCmd(m) \in CanDriverCmd
      BY DEF CanDriverCmd
    <3> QED
      BY <2>1, <3>1 DEF UsbRx, Next, OtherTasks
  <2>2. ASSUME NEW req \in ControlRequests, OnMode(req) PROVE Next
    <3>1. req.request = "MODE" /\ SendCmd(ModeCmd(req.payload))
      BY <2>2 DEF OnMode
    <3> QED
      BY <3>1, ModeRequest DEF Next, OtherTasks
  <2>3. ASSUME NEW req \in ControlRequests, OnBitTiming(req) PROVE Next
    <3>1. req.request = "BITTIMING" /\ SendCmd(SetBitTimingCmd(req.payload))
      BY <2>3 DEF OnBitTiming
    <3> QED
      BY <3>1, BitTimingRequest DEF Next, OtherTasks
  <2> QED
    BY <1>4, <2>1, <2>2, <2>3 DEF Host
<1>5. CASE UNCHANGED linkVars
  BY <1>5 DEF linkVars
<1> QED
  BY <1>1, <1>2, <1>3, <1>4, <1>5 DEF LinkNext

\* The adapter implements the driver's specification, whatever the host does, so
\* every theorem of CanDriver_proofs holds of it.
THEOREM LinkImplementsDriver == LinkSpec => Spec
<1>1. LinkInit => Init
  BY DEF LinkInit
<1>2. [LinkNext]_linkVars => [Next]_vars
  BY LinkStep
<1> QED
  BY <1>1, <1>2, PTL DEF LinkSpec, Spec

\* A Transmit command in the queue is one of the host's messages.
LEMMA TransmitHead ==
    ASSUME TypeOK, Receives("Transmit")
    PROVE  \E n \in TxMsgs : Head(can_cmd) = TransmitCmd(n) /\ Head(can_cmd).req = ParseTxMsg(n)
<1>1. Head(can_cmd) \in CanDriverCmd /\ Head(can_cmd).op = "Transmit"
  BY ReceiveType DEF Receives, TypeOK
<1> QED
  BY <1>1 DEF CanDriverCmd, StartCmd, StopCmd, SetBitTimingCmd, TransmitCmd

-----------------------------------------------------------------------------
(* What the host reads is what it expects.                                  *)

HostFrames == {FromCanFrame(f) : f \in CanFrames} \cup EchoFrames

\* Error frames carry the ERR bit and the echo_id of a reception.
LEMMA ErrorFrames ==
    ASSUME NEW h \in {FromBusError(e) : e \in BusErrors} \cup {BusOffFrame}
    PROVE  IsErrorFrame(h) /\ ~IsEcho(h)
<1>1. \A bits, prot : /\ IsErrorFrame(ErrorFrame(bits, prot))
                      /\ ~IsEcho(ErrorFrame(bits, prot))
  BY DEF ErrorFrame, IsErrorFrame, IsEcho
<1>2. CASE h = BusOffFrame
  BY <1>1, <1>2 DEF BusOffFrame
<1>3. ASSUME NEW e \in CanBusError, h = FromBusError(e) PROVE IsErrorFrame(h) /\ ~IsEcho(h)
  <2>1. \E bits, prot : h = ErrorFrame(bits, prot)
    BY <1>3 DEF FromBusError, CanBusError
  <2> QED
    BY <1>1, <2>1
<1> QED
  BY <1>2, <1>3, BusErrorsAssumption

\* The host takes a frame for an echo only if it echoes one of its messages, and
\* for a reception only if it is one.
LEMMA HostReads ==
    ASSUME NEW h \in HostFrames
    PROVE  /\ IsEcho(h) => h.echo_id \in {m.echo_id : m \in TxMsgs}
           /\ IsRx(h) => h \in {FromCanFrame(f) : f \in CanFrames}
<1>1. ASSUME NEW f \in CanFrames, h = FromCanFrame(f) PROVE ~IsEcho(h)
  BY <1>1 DEF FromCanFrame, IsEcho
<1>2. ASSUME NEW m \in TxMsgs, h = FromTxMsgEcho(ParseTxMsg(m))
      PROVE  h.echo_id = m.echo_id /\ IsEcho(h)
  <2>1. h.echo_id = m.echo_id
    BY <1>2 DEF FromTxMsgEcho, ParseTxMsg
  <2> QED
    BY <2>1, EchoIdsAssumption DEF IsEcho
<1>3. \/ \E f \in CanFrames : h = FromCanFrame(f)
      \/ \E m \in TxMsgs : h = FromTxMsgEcho(ParseTxMsg(m))
      \/ h \in {FromBusError(e) : e \in BusErrors} \cup {BusOffFrame}
  BY DEF HostFrames, EchoFrames, Requests
<1> QED
  BY <1>1, <1>2, <1>3, ErrorFrames DEF IsRx

-----------------------------------------------------------------------------

\* The endpoint holds one frame.
LEMMA OneElement ==
    ASSUME NEW S, NEW q \in Seq(S), q # <<>>, Len(q) <= 1
    PROVE  Head(q) \in S /\ q = <<Head(q)>>
<1>1. Len(q) = 1 /\ Head(q) = q[1] /\ Head(q) \in S
  <2>1. Len(q) = 1
    <3>1. Len(Tail(q)) \in Nat /\ Len(Tail(q)) = Len(q) - 1 /\ Len(q) \in Nat
      BY ReceiveType
    <3> QED
      BY <3>1
  <2>2. q[1] \in S
    BY <2>1
  <2> QED
    BY <2>1, <2>2
<1>2. \A i \in 1..Len(q) : q[i] = <<Head(q)>>[i]
  BY <1>1
<1>3. <<Head(q)>> \in Seq(S) /\ Len(<<Head(q)>>) = Len(q)
  BY <1>1
<1> QED
  BY <1>1, <1>2, <1>3, SeqEqual

\* The adapter's types are inductive.
LEMMA LinkTypeInductive ==
    ASSUME LinkTypeOK, TypeOK', [LinkNext]_linkVars PROVE LinkTypeOK'
<1> USE DEF LinkTypeOK, HostFrames
<1>1. CASE Driver \/ Bus
  BY <1>1 DEF Driver, Bus, hostVars
<1>2. CASE UsbTxTakeRx
  <2>1. FromCanFrame(Head(can_rx)) \in HostFrames
    BY <1>2, ReceiveType DEF UsbTxTakeRx, TakeRx, TypeOK
  <2> QED
    BY <1>2, <2>1 DEF UsbTxTakeRx, hostVars
<1>3. CASE UsbTxTakeEcho
  <2>1. Head(usb_echo) \in HostFrames
    BY <1>3, ReceiveType DEF UsbTxTakeEcho, TakeEcho, TypeOK
  <2> QED
    BY <1>3, <2>1 DEF UsbTxTakeEcho, hostVars
<1>4. CASE UsbTxWritten
  <2>1. ep_in # <<>> /\ Head(ep_in) \in HostFrames /\ ep_in = <<Head(ep_in)>>
    BY <1>4, OneElement DEF UsbTxWritten
  <2>2. echoed' \subseteq {m.echo_id : m \in TxMsgs}
    BY <1>4, <2>1, HostReads DEF UsbTxWritten
  <2>3. last_rx' \in Seq({FromCanFrame(f) : f \in CanFrames}) /\ Len(last_rx') <= 1
    <3>1. last_rx' = last_rx \/ (IsRx(Head(ep_in)) /\ last_rx' = <<Head(ep_in)>>)
      BY <1>4, <2>1 DEF UsbTxWritten
    <3> QED
      BY <2>1, <3>1, HostReads
  <2> QED
    BY <1>4, <2>2, <2>3 DEF UsbTxWritten
<1>5. CASE UsbTxError
  BY <1>5 DEF UsbTxError, hostVars
<1>6. ASSUME NEW m \in TxMsgs, UsbRx(m) PROVE LinkTypeOK'
  BY <1>6 DEF UsbRx
<1>7. ASSUME NEW req \in ControlRequests, OnMode(req) PROVE LinkTypeOK'
  <2>1. asked' \in {StartCmd(flags) : flags \in Modes} \cup {StopCmd}
    BY <1>7, ModeRequest DEF OnMode
  <2> QED
    BY <1>7, <2>1 DEF OnMode
<1>8. ASSUME NEW req \in ControlRequests, OnBitTiming(req) PROVE LinkTypeOK'
  BY <1>8 DEF OnBitTiming, hostVars
<1>9. CASE UNCHANGED linkVars
  BY <1>9 DEF linkVars, hostVars
<1> QED
  BY <1>1, <1>2, <1>3, <1>4, <1>5, <1>6, <1>7, <1>8, <1>9 DEF LinkNext, UsbTxStep, Host

\* The types of the adapter's state: what the host accepts as an echo or as a
\* received frame is one, because no error frame and no echo_id can be mistaken.
THEOREM LinkTypeCorrect == LinkSpec => []LinkTypeOK
<1>1. LinkInit => (TypeOK => LinkTypeOK)
  BY DEF LinkInit, LinkTypeOK
<1>2. LinkTypeOK /\ TypeOK' /\ [LinkNext]_linkVars => LinkTypeOK'
  BY LinkTypeInductive
<1>3. LinkSpec => []TypeOK
  BY LinkImplementsDriver, TypeCorrect, PTL
<1> QED
  BY <1>1, <1>2, <1>3, PTL DEF LinkSpec

-----------------------------------------------------------------------------
(* The mode follows the host.  A command of some kinds decides a part of    *)
(* the state (Start and Stop the mode; SetBitTiming the bit timing), and    *)
(* the last one that found room is in the queue with no other of its kinds  *)
(* behind it, or applied.                                                   *)

\* The i-th command of the queue is the last of the kinds.
Decides(queue, i, kinds) ==
    /\ queue[i].op \in kinds
    /\ \A j \in DOMAIN queue : j > i => queue[j].op \notin kinds

\* The last command of the kinds that found room is queued and will decide, or it
\* has been applied.
Follows(queue, kinds, last, applied) ==
    \/ \E i \in DOMAIN queue : Decides(queue, i, kinds) /\ queue[i] = last
    \/ applied /\ \A i \in DOMAIN queue : queue[i].op \notin kinds

\* A command that is refused, or of another kind, changes nothing.
LEMMA FollowsOther ==
    ASSUME NEW S, NEW queue \in Seq(S), NEW c \in S, NEW capacity, NEW kinds,
           NEW last, NEW applied, Follows(queue, kinds, last, applied),
           IsFull(queue, capacity) \/ c.op \notin kinds
    PROVE  Follows(TrySend(queue, capacity, c), kinds, last, applied)
<1>1. CASE IsFull(queue, capacity)
  BY <1>1 DEF TrySend
<1>2. CASE ~IsFull(queue, capacity)
  <2>1. /\ DOMAIN Append(queue, c) = 1..Len(queue) + 1
        /\ DOMAIN queue = 1..Len(queue)
        /\ Len(queue) \in Nat
        /\ Append(queue, c)[Len(queue) + 1] = c
        /\ \A i \in DOMAIN queue : Append(queue, c)[i] = queue[i]
    OBVIOUS
  <2>2. c.op \notin kinds
    BY <1>2
  <2> QED
    BY <1>2, <2>1, <2>2 DEF TrySend, Follows, Decides
<1> QED
  BY <1>1, <1>2

\* A command of the kinds that finds room is now the last.
LEMMA FollowsSend ==
    ASSUME NEW S, NEW queue \in Seq(S), NEW c \in S, NEW capacity, NEW kinds, NEW applied,
           ~IsFull(queue, capacity), c.op \in kinds
    PROVE  Follows(TrySend(queue, capacity, c), kinds, c, applied)
<1>1. /\ DOMAIN Append(queue, c) = 1..Len(queue) + 1
      /\ Len(queue) \in Nat
      /\ Append(queue, c)[Len(queue) + 1] = c
  OBVIOUS
<1> QED
  BY <1>1 DEF TrySend, Follows, Decides

\* The rest of a queue, by index.
LEMMA TailIndices ==
    ASSUME NEW S, NEW queue \in Seq(S), queue # <<>>
    PROVE  /\ DOMAIN queue = 1..Len(queue)
           /\ Len(queue) \in Nat \ {0}
           /\ DOMAIN Tail(queue) = 1..Len(queue) - 1
           /\ \A i \in DOMAIN Tail(queue) : Tail(queue)[i] = queue[i + 1]
           /\ Head(queue) = queue[1]
  OBVIOUS

\* A command of another kind that is received changes nothing.
LEMMA FollowsSkip ==
    ASSUME NEW S, NEW queue \in Seq(S), queue # <<>>, NEW kinds, NEW last, NEW applied,
           Follows(queue, kinds, last, applied), Head(queue).op \notin kinds
    PROVE  Follows(Tail(queue), kinds, last, applied)
<1>1. CASE \E i \in DOMAIN queue : Decides(queue, i, kinds) /\ queue[i] = last
  <2>1. PICK i \in DOMAIN queue : Decides(queue, i, kinds) /\ queue[i] = last
    BY <1>1
  <2>2. i > 1 /\ i - 1 \in DOMAIN Tail(queue) /\ Tail(queue)[i - 1] = queue[i]
    BY <2>1, TailIndices DEF Decides
  <2>3. Decides(Tail(queue), i - 1, kinds)
    BY <2>1, <2>2, TailIndices DEF Decides
  <2> QED
    BY <2>1, <2>2, <2>3 DEF Follows
<1>2. CASE applied /\ \A i \in DOMAIN queue : queue[i].op \notin kinds
  <2>1. \A i \in DOMAIN Tail(queue) : Tail(queue)[i].op \notin kinds
    BY <1>2, TailIndices
  <2> QED
    BY <1>2, <2>1 DEF Follows
<1> QED
  BY <1>1, <1>2 DEF Follows

\* A command of the kinds is applied when it is received; it is the last, or the
\* last is still behind it.
LEMMA FollowsApply ==
    ASSUME NEW S, NEW queue \in Seq(S), queue # <<>>, NEW kinds, NEW last, NEW before,
           Follows(queue, kinds, last, before), Head(queue).op \in kinds,
           NEW applied, Head(queue) = last => applied
    PROVE  Follows(Tail(queue), kinds, last, applied)
<1>1. 1 \in DOMAIN queue /\ queue[1].op \in kinds
  BY TailIndices
<1>2. PICK i \in DOMAIN queue : Decides(queue, i, kinds) /\ queue[i] = last
  BY <1>1 DEF Follows
<1>3. CASE i = 1
  <2>1. applied
    BY <1>2, <1>3, TailIndices
  <2>2. \A j \in DOMAIN Tail(queue) : Tail(queue)[j].op \notin kinds
    BY <1>2, <1>3, TailIndices DEF Decides
  <2> QED
    BY <2>1, <2>2 DEF Follows
<1>4. CASE i # 1
  <2>1. i - 1 \in DOMAIN Tail(queue) /\ Tail(queue)[i - 1] = queue[i]
    BY <1>4, TailIndices
  <2>2. Decides(Tail(queue), i - 1, kinds)
    BY <1>2, <2>1, TailIndices DEF Decides
  <2> QED
    BY <1>2, <2>1, <2>2 DEF Follows
<1> QED
  BY <1>3, <1>4

-----------------------------------------------------------------------------

ModeKinds == {"Start", "Stop"}

\* The driver goes on without a command: the mode and the timing stay.
Quiet ==
    /\ UNCHANGED <<can_cmd, is_started>>
    /\ can' \in Peripheral
    /\ can' = [can EXCEPT !.power = can'.power]

\* What a step outside the host's requests does to the queue and the registers.
LEMMA DriverCommands ==
    ASSUME TypeOK, TypeOK', Driver \/ Bus \/ UsbTxStep
    PROVE  \/ Start \/ Stop \/ ApplyBitTiming \/ IgnoreWhenStopped
           \/ TransmitAtOnce \/ TransmitWaits
           \/ Quiet
<1> USE DEF TypeOK, Quiet
<1>1. CASE UNCHANGED <<can_cmd, is_started, can>>
  <2>1. can = [can EXCEPT !.power = can.power]
    BY DEF Peripheral
  <2> QED
    BY <1>1, <2>1
<1>2. ASSUME can' = Enabled(can) \/ can' = [can EXCEPT !.power = "bus_off"],
             UNCHANGED <<can_cmd, is_started>>
      PROVE  Quiet
  BY <1>2 DEF Enabled, Peripheral
<1>3. CASE UsbTxStep
  BY <1>1, <1>3 DEF UsbTxStep, UsbTxTakeRx, UsbTxTakeEcho, UsbTxWritten, UsbTxError, TakeRx,
                    TakeEcho, vars
<1>4. CASE Bus
  BY <1>1, <1>2, <1>4 DEF Bus, BusStep, MailboxSent, MailboxLost, GoBusOff
<1>5. CASE ReadStep
  BY <1>1, <1>5 DEF ReadStep, RxQueued, RxOverflow, RxError, BusOffRetry, BusOffGiveUp
<1>6. CASE EnableDone \/ RecoverDone
  BY <1>2, <1>6 DEF EnableDone, RecoverDone
<1>7. CASE WriteDone \/ WriteTimeout \/ BackoffDone
  BY <1>1, <1>7 DEF WriteDone, WriteTimeout, BackoffDone
<1> QED
  BY <1>3, <1>4, <1>5, <1>6, <1>7 DEF Driver, TaskStep

\* The last accepted MODE request decides the mode.
ModeInv == Follows(can_cmd, ModeKinds, asked, AppliedMode = asked)

\* A Start or a Stop that is received is applied.
LEMMA ModeApplied ==
    ASSUME TypeOK, ModeInv, asked' = asked, Receives("Start") \/ Receives("Stop"),
           AppliedMode' = Head(can_cmd)
    PROVE  ModeInv'
<1>1. /\ can_cmd \in Seq(CanDriverCmd)
      /\ can_cmd # <<>>
      /\ can_cmd' = Tail(can_cmd)
      /\ Head(can_cmd).op \in ModeKinds
  BY DEF TypeOK, Receives, ModeKinds
<1>2. Follows(Tail(can_cmd), ModeKinds, asked, AppliedMode' = asked)
  BY <1>1, FollowsApply DEF ModeInv
<1> QED
  BY <1>1, <1>2 DEF ModeInv

\* Any other command that is received leaves the mode alone.
LEMMA ModeSkipped ==
    ASSUME TypeOK, ModeInv, asked' = asked, Receives("SetBitTiming") \/ Receives("Transmit"),
           AppliedMode' = AppliedMode
    PROVE  ModeInv'
<1>1. /\ can_cmd \in Seq(CanDriverCmd)
      /\ can_cmd # <<>>
      /\ can_cmd' = Tail(can_cmd)
      /\ Head(can_cmd).op \notin ModeKinds
  BY DEF TypeOK, Receives, ModeKinds
<1>2. Follows(Tail(can_cmd), ModeKinds, asked, AppliedMode = asked)
  BY <1>1, FollowsSkip DEF ModeInv
<1> QED
  BY <1>1, <1>2 DEF ModeInv

\* Requests of the host: a MODE request that finds room is the last, any other
\* request changes nothing.
LEMMA ModeRequested ==
    ASSUME TypeOK, ModeInv, NEW c \in CanDriverCmd, SendCmd(c), AppliedMode' = AppliedMode,
           asked' = IF IsFull(can_cmd, CmdCap) \/ c.op \notin ModeKinds THEN asked ELSE c
    PROVE  ModeInv'
<1>1. can_cmd \in Seq(CanDriverCmd) /\ can_cmd' = TrySend(can_cmd, CmdCap, c)
  BY DEF TypeOK, SendCmd
<1>2. CASE IsFull(can_cmd, CmdCap) \/ c.op \notin ModeKinds
  <2>1. Follows(TrySend(can_cmd, CmdCap, c), ModeKinds, asked, AppliedMode = asked)
    BY <1>1, <1>2, FollowsOther DEF ModeInv
  <2> QED
    BY <1>1, <1>2, <2>1 DEF ModeInv
<1>3. CASE ~IsFull(can_cmd, CmdCap) /\ c.op \in ModeKinds
  <2>1. Follows(TrySend(can_cmd, CmdCap, c), ModeKinds, c, AppliedMode' = c)
    BY <1>1, <1>3, FollowsSend
  <2> QED
    BY <1>1, <1>3, <2>1 DEF ModeInv
<1> QED
  BY <1>2, <1>3

\* A step of the device applies the Start or Stop it takes; no other step changes the mode.
LEMMA ModeSteps ==
    ASSUME TypeOK, TypeOK', Driver \/ Bus \/ UsbTxStep
    PROVE  \/ (Receives("Start") \/ Receives("Stop")) /\ AppliedMode' = Head(can_cmd)
           \/ (Receives("SetBitTiming") \/ Receives("Transmit")) /\ AppliedMode' = AppliedMode
           \/ can_cmd' = can_cmd /\ AppliedMode' = AppliedMode
<1>1. can \in Peripheral /\ is_started \in BOOLEAN
  BY DEF TypeOK
<1>2. CASE Start
  <2>1. PICK flags \in Modes : Head(can_cmd) = StartCmd(flags)
    <3>1. Head(can_cmd) \in CanDriverCmd /\ Head(can_cmd).op = "Start"
      BY <1>2, ReceiveType DEF Start, Receives, TypeOK
    <3> QED
      BY <3>1 DEF CanDriverCmd, StopCmd, SetBitTimingCmd, TransmitCmd
  <2>2. /\ is_started'
        /\ can'.loopback = ModeOf(flags).loopback
        /\ can'.silent = ModeOf(flags).listen_only
        /\ can'.one_shot = ModeOf(flags).one_shot
    BY <1>1, <1>2, <2>1 DEF Start, BeginStart, StartCmd, Peripheral
  <2>3. AppliedMode' = Head(can_cmd)
    BY <2>1, <2>2 DEF AppliedMode, StartCmd, ModeOf
  <2> QED
    BY <1>2, <2>3 DEF Start
<1>3. CASE Stop \/ (IgnoreWhenStopped /\ Receives("Stop"))
  <2>1. Head(can_cmd) = StopCmd
    <3>1. Head(can_cmd) \in CanDriverCmd /\ Head(can_cmd).op = "Stop"
      BY <1>3, ReceiveType DEF Stop, Receives, TypeOK
    <3> QED
      BY <3>1 DEF CanDriverCmd, StartCmd, SetBitTimingCmd, TransmitCmd
  <2>2. ~is_started'
    BY <1>3 DEF Stop, IgnoreWhenStopped
  <2>3. AppliedMode' = Head(can_cmd)
    BY <2>1, <2>2 DEF AppliedMode
  <2> QED
    BY <1>3, <2>3 DEF Stop
<1>4. CASE ApplyBitTiming
  <2>1. AppliedMode' = AppliedMode
    BY <1>1, <1>4 DEF ApplyBitTiming, SetBitTiming, AppliedMode, Peripheral
  <2> QED
    BY <1>4, <2>1 DEF ApplyBitTiming
<1>5. CASE TransmitAtOnce \/ TransmitWaits \/ (IgnoreWhenStopped /\ Receives("Transmit"))
  <2>1. AppliedMode' = AppliedMode
    BY <1>5 DEF TransmitAtOnce, TransmitWaits, IgnoreWhenStopped, AppliedMode
  <2> QED
    BY <1>5, <2>1 DEF TransmitAtOnce, TransmitWaits
<1>6. CASE Quiet
  <2>1. can'.loopback = can.loopback /\ can'.silent = can.silent /\ can'.one_shot = can.one_shot
    BY <1>1, <1>6 DEF Quiet, Peripheral
  <2>2. AppliedMode' = AppliedMode
    BY <1>6, <2>1 DEF Quiet, AppliedMode
  <2> QED
    BY <1>6, <2>2 DEF Quiet
<1> QED
  BY <1>2, <1>3, <1>4, <1>5, <1>6, DriverCommands DEF IgnoreWhenStopped

\* Steps of the device.
LEMMA ModeDeviceStep ==
    ASSUME TypeOK, TypeOK', ModeInv, Driver \/ Bus \/ UsbTxStep PROVE ModeInv'
<1>1. asked' = asked
  BY DEF Driver, Bus, UsbTxStep, UsbTxTakeRx, UsbTxTakeEcho, UsbTxWritten, UsbTxError, hostVars
<1>2. CASE (Receives("Start") \/ Receives("Stop")) /\ AppliedMode' = Head(can_cmd)
  BY <1>1, <1>2, ModeApplied
<1>3. CASE (Receives("SetBitTiming") \/ Receives("Transmit")) /\ AppliedMode' = AppliedMode
  BY <1>1, <1>3, ModeSkipped
<1>4. CASE can_cmd' = can_cmd /\ AppliedMode' = AppliedMode
  BY <1>1, <1>4 DEF ModeInv
<1> QED
  BY <1>2, <1>3, <1>4, ModeSteps

\* Steps of the host.
LEMMA ModeHostStep == ASSUME TypeOK, ModeInv, Host PROVE ModeInv'
<1>1. ASSUME NEW c, SendCmd(c) PROVE AppliedMode' = AppliedMode
  BY <1>1 DEF SendCmd, AppliedMode
<1>2. ASSUME NEW m \in TxMsgs, UsbRx(m) PROVE ModeInv'
  <2>1. TransmitCmd(m) \in CanDriverCmd /\ TransmitCmd(m).op \notin ModeKinds
    BY DEF CanDriverCmd, TransmitCmd, ModeKinds
  <2>2. SendCmd(TransmitCmd(m)) /\ asked' = asked
    BY <1>2 DEF UsbRx
  <2> QED
    BY <1>1, <2>1, <2>2, ModeRequested
<1>3. ASSUME NEW req \in ControlRequests, OnMode(req) PROVE ModeInv'
  <2>1. /\ ModeCmd(req.payload) \in CanDriverCmd
        /\ ModeCmd(req.payload).op \in ModeKinds
    BY <1>3, ModeRequest DEF OnMode, ModeCmd, StartCmd, StopCmd, ModeKinds
  <2>2. /\ SendCmd(ModeCmd(req.payload))
        /\ asked' = IF IsFull(can_cmd, CmdCap) THEN asked ELSE ModeCmd(req.payload)
    BY <1>3, EffectIsMeant DEF OnMode
  <2> QED
    BY <1>1, <2>1, <2>2, ModeRequested
<1>4. ASSUME NEW req \in ControlRequests, OnBitTiming(req) PROVE ModeInv'
  <2>1. /\ SetBitTimingCmd(req.payload) \in CanDriverCmd
        /\ SetBitTimingCmd(req.payload).op \notin ModeKinds
    BY <1>4, BitTimingRequest DEF OnBitTiming, SetBitTimingCmd, ModeKinds
  <2>2. SendCmd(SetBitTimingCmd(req.payload)) /\ asked' = asked
    BY <1>4 DEF OnBitTiming, hostVars
  <2> QED
    BY <1>1, <2>1, <2>2, ModeRequested
<1> QED
  BY <1>2, <1>3, <1>4 DEF Host

\* Every step keeps the mode on the host's track.
LEMMA ModeInductive ==
    ASSUME TypeOK, TypeOK', ModeInv, [LinkNext]_linkVars PROVE ModeInv'
<1>1. CASE UNCHANGED linkVars
  BY <1>1 DEF linkVars, vars, hostVars, ModeInv, AppliedMode
<1> QED
  BY <1>1, ModeDeviceStep, ModeHostStep DEF LinkNext

\* So the mode is always on the host's track.
LEMMA ModeAlways == LinkSpec => []ModeInv
<1>1. LinkInit => ModeInv
  BY DEF LinkInit, Init, ModeInv, Follows, AppliedMode
<1>2. TypeOK /\ TypeOK' /\ ModeInv /\ [LinkNext]_linkVars => ModeInv'
  BY ModeInductive
<1>3. LinkSpec => []TypeOK
  BY LinkImplementsDriver, TypeCorrect, PTL
<1> QED
  BY <1>1, <1>2, <1>3, PTL DEF LinkSpec

\* The mode of the peripheral is the one of the host's last accepted MODE request, or
\* will be once the queue is drained, for every length of the queue: bit timings,
\* transmissions, timeouts, recoveries and refused requests never change it.
THEOREM ModeObeyed == LinkSpec => []ModeFollowsHost
<1>1. ModeInv => ModeFollowsHost
  BY DEF ModeInv, Follows, Decides, DecidesMode, ModeFollowsHost, ModeKinds
<1> QED
  BY <1>1, ModeAlways, PTL
-----------------------------------------------------------------------------
(* Liveness.  TasksNeverStuck, which TLC checks, stands for ENABLED.        *)

\* In the composition, too, the driver is served: a fair step of its part of the link is a
\* step of the driver.
LEMMA LinkServed == LinkFairSpec /\ []TasksNeverStuck => Spec /\ Served
<1>1. <<TaskStep /\ UNCHANGED <<ep_in, hostVars>>>>_linkVars => <<TaskStep>>_vars
  BY DEF linkVars
<1> QED
  BY <1>1, LinkImplementsDriver, PTL DEF LinkFairSpec, TasksNeverStuck, Served

\* Whatever the host and the bus do, the driver always comes back to its queue.
THEOREM LinkListens == LinkFairSpec /\ []TasksNeverStuck => ListensAgain
  BY LinkServed, ServedListens, PTL

\* With the queue of the firmware, or a shorter one, a Stop that the host has queued stops
\* the driver, however many commands the host goes on queueing.
THEOREM LinkStops ==
    ASSUME CmdCap <= 16
    PROVE  LinkFairSpec /\ []TasksNeverStuck => StopTakesEffect
  BY LinkServed, ServedStops, PTL

-----------------------------------------------------------------------------
(* The host has its way: the mode converges.                                *)

\* The command at place i asks for a mode, and not for c.
IsOld(i, c) == can_cmd[i].op \in ModeKinds /\ can_cmd[i] # c

Old(c) == \E i \in DOMAIN can_cmd : IsOld(i, c)

\* The commands of other modes are all taken within k steps of the task.
OldWithin(c, k) == \A i \in DOMAIN can_cmd : IsOld(i, c) => StepsToTake(i) <= k

\* While the host asks for c, no step of anybody else queues a command of another mode.
LEMMA OthersAppend ==
    ASSUME TypeOK, NEW c, asked' = c, [LinkNext]_linkVars, ~TaskStep
    PROVE  \A j \in DOMAIN can_cmd' : IsOld(j, c)' => j \in DOMAIN can_cmd /\ IsOld(j, c)
<1>1. can_cmd \in Seq(CanDriverCmd)
  BY DEF TypeOK
<1>2. ASSUME NEW d \in CanDriverCmd, can_cmd' = TrySend(can_cmd, CmdCap, d),
             IsFull(can_cmd, CmdCap) \/ d.op \notin ModeKinds \/ d = c
      PROVE  \A j \in DOMAIN can_cmd' : IsOld(j, c)' => j \in DOMAIN can_cmd /\ IsOld(j, c)
  <2>1. CASE IsFull(can_cmd, CmdCap)
    BY <1>2, <2>1 DEF TrySend, IsOld
  <2>2. CASE ~IsFull(can_cmd, CmdCap)
    <3>1. can_cmd' = Append(can_cmd, d)
      BY <1>2, <2>2 DEF TrySend
    <3>2. /\ DOMAIN can_cmd = 1..Len(can_cmd) /\ Len(can_cmd) \in Nat
          /\ DOMAIN can_cmd' = 1..Len(can_cmd) + 1
          /\ can_cmd'[Len(can_cmd) + 1] = d
          /\ \A j \in DOMAIN can_cmd : can_cmd'[j] = can_cmd[j]
      BY <1>1, <3>1
    <3> QED
      BY <1>2, <2>2, <3>2 DEF IsOld
  <2> QED
    BY <2>1, <2>2
<1>3. ASSUME NEW m \in TxMsgs, UsbRx(m)
      PROVE  \E d \in CanDriverCmd : /\ can_cmd' = TrySend(can_cmd, CmdCap, d)
                                     /\ d.op \notin ModeKinds
  BY <1>3 DEF UsbRx, SendCmd, CanDriverCmd, TransmitCmd, ModeKinds
<1>4. ASSUME NEW req \in ControlRequests, OnMode(req)
      PROVE  \E d \in CanDriverCmd : /\ can_cmd' = TrySend(can_cmd, CmdCap, d)
                                     /\ IsFull(can_cmd, CmdCap) \/ d = c
  BY <1>4, ModeRequest, EffectIsMeant DEF OnMode, SendCmd
<1>5. ASSUME NEW req \in ControlRequests, OnBitTiming(req)
      PROVE  \E d \in CanDriverCmd : /\ can_cmd' = TrySend(can_cmd, CmdCap, d)
                                     /\ d.op \notin ModeKinds
  BY <1>5, BitTimingRequest DEF OnBitTiming, SendCmd, SetBitTimingCmd, ModeKinds
<1>6. CASE Host
  BY <1>2, <1>3, <1>4, <1>5, <1>6 DEF Host
<1>7. CASE ~Host
  <2>1. ReadStep \/ BusStep \/ TakeRx \/ TakeEcho \/ UNCHANGED vars
    BY <1>7 DEF LinkNext, Driver, Bus, UsbTxStep, UsbTxTakeRx, UsbTxTakeEcho, UsbTxWritten,
                UsbTxError, linkVars
  <2>2. can_cmd' = can_cmd
    BY <2>1 DEF ReadStep, RxQueued, RxOverflow, RxError, BusOffRetry, BusOffGiveUp, BusStep,
                MailboxSent, MailboxLost, GoBusOff, TakeRx, TakeEcho, vars
  <2> QED
    BY <2>2 DEF IsOld
<1> QED
  BY <1>6, <1>7

\* So every command of another mode was there before, not nearer to being taken, and farther
\* from it if the step is one of the task.
LEMMA OldMoves ==
    ASSUME IInv, IInv', NEW c, asked' = c, [LinkNext]_linkVars,
           NEW j \in DOMAIN can_cmd', IsOld(j, c)'
    PROVE  \E i \in DOMAIN can_cmd :
             /\ IsOld(i, c)
             /\ StepsToTake(j)' <= StepsToTake(i)
             /\ TaskStep => StepsToTake(j)' < StepsToTake(i)
<1>1. /\ TypeOK /\ can_cmd \in Seq(CanDriverCmd)
      /\ can_cmd' \in Seq(CanDriverCmd) /\ j \in Nat
  BY DEF IInv, TypeOK
<1>2. StepsToListen' \in 0..2
  BY DEF IInv, TypeOK, StepsToListen
<1>3. PICK n \in 0..2, m \in 0..2 : n = StepsToListen /\ m = StepsToListen'
  BY <1>2, ListenBound
<1>4. /\ StepsToTake(j) = 2 * j - 1 + n
      /\ StepsToTake(j + 1) = 2 * (j + 1) - 1 + n
      /\ StepsToTake(j)' = 2 * j - 1 + m
  BY <1>3 DEF StepsToTake
<1>5. CASE TaskStep /\ TakesHead
  <2>1. can_cmd # <<>> /\ can_cmd' = Tail(can_cmd) /\ m <= 1
    BY <1>3, <1>5 DEF TakesHead
  <2>2. j + 1 \in DOMAIN can_cmd /\ can_cmd'[j] = can_cmd[j + 1]
    BY <1>1, <2>1, TailIndices
  <2>3. IsOld(j + 1, c)
    BY <2>2 DEF IsOld
  <2>4. 2 * j - 1 + m <= 2 * (j + 1) - 1 + n /\ 2 * j - 1 + m < 2 * (j + 1) - 1 + n
    BY <1>1, <2>1
  <2>5. StepsToTake(j)' <= StepsToTake(j + 1) /\ StepsToTake(j)' < StepsToTake(j + 1)
    BY <1>4, <2>4
  <2> QED
    BY <2>2, <2>3, <2>5
<1>6. CASE TaskStep /\ can_cmd' = can_cmd /\ StepsToListen' < StepsToListen
  <2>1. j \in DOMAIN can_cmd /\ IsOld(j, c)
    BY <1>6 DEF IsOld
  <2>2. 2 * j - 1 + m <= 2 * j - 1 + n /\ 2 * j - 1 + m < 2 * j - 1 + n
    BY <1>1, <1>3, <1>6
  <2>3. StepsToTake(j)' <= StepsToTake(j) /\ StepsToTake(j)' < StepsToTake(j)
    BY <1>4, <2>2
  <2> QED
    BY <2>1, <2>3
<1>7. CASE ~TaskStep
  <2>1. j \in DOMAIN can_cmd /\ IsOld(j, c)
    BY <1>1, <1>7, OthersAppend
  <2>2. StepsToListen' = StepsToListen
    BY <1>1, <1>7, <2>1, LinkStep, OthersDoNotDelay
  <2>3. 2 * j - 1 + m <= 2 * j - 1 + n
    BY <1>1, <1>3, <2>2
  <2>4. StepsToTake(j)' <= StepsToTake(j)
    BY <1>4, <2>3
  <2> QED
    BY <1>7, <2>1, <2>4
<1> QED
  BY <1>5, <1>6, <1>7, TaskStepMoves

\* While the host asks for c, commands of other modes come no farther back in the queue, and
\* a step of the task brings them all forward.
LEMMA OldLeaves ==
    ASSUME IInv, IInv', NEW c, asked' = c, [LinkNext]_linkVars, NEW k \in Nat,
           OldWithin(c, k + 1)
    PROVE  /\ OldWithin(c, k + 1)'
           /\ TaskStep => OldWithin(c, k)'
<1> SUFFICES ASSUME NEW j \in DOMAIN can_cmd', IsOld(j, c)'
             PROVE  StepsToTake(j)' <= k + 1 /\ (TaskStep => StepsToTake(j)' <= k)
  BY DEF OldWithin
<1>1. PICK i \in DOMAIN can_cmd :
             /\ IsOld(i, c)
             /\ StepsToTake(j)' <= StepsToTake(i)
             /\ TaskStep => StepsToTake(j)' < StepsToTake(i)
  BY OldMoves
<1>2. PICK a \in Int, b \in Int : a = StepsToTake(i) /\ b = StepsToTake(j)'
  <2>1. StepsToListen \in Int /\ StepsToListen' \in Int /\ i \in Int /\ j \in Int
    BY ListenBound DEF IInv, TypeOK, StepsToListen
  <2>2. StepsToTake(i) \in Int
    BY <2>1 DEF StepsToTake
  <2>3. StepsToTake(j)' \in Int
    BY <2>1 DEF StepsToTake
  <2> QED
    BY <2>2, <2>3
<1>3. a <= k + 1
  BY <1>1, <1>2 DEF OldWithin
<1>4. b <= k + 1 /\ (TaskStep => b <= k)
  BY <1>1, <1>2, <1>3
<1> QED
  BY <1>2, <1>4

\* What the link is served with.
Serves == LinkSpec /\ Served

\* While the host asks for c alone, the commands of other modes drain.
DrainsFrom(c, k) == Serves => []([](asked = c) /\ OldWithin(c, k) => <>~Old(c))

\* The driver's invariant holds in the link.
LEMMA LinkIInv == LinkSpec => []IInv
  BY LinkImplementsDriver, Invariance, PTL

\* One step of the measure.
LEMMA DrainsFromNext ==
    ASSUME NEW c, NEW k \in Nat
    PROVE  DrainsFrom(c, k) => DrainsFrom(c, k + 1)
<1> DEFINE Asks == asked = c
<1>1. IInv /\ IInv' /\ Asks' /\ OldWithin(c, k + 1) /\ [LinkNext]_linkVars
        => OldWithin(c, k + 1)'
  BY OldLeaves
<1>2. IInv /\ IInv' /\ Asks' /\ OldWithin(c, k + 1) /\ [LinkNext]_linkVars
        /\ <<TaskStep>>_vars => OldWithin(c, k)'
  BY OldLeaves
<1>3. Old(c) => Woken
  BY DEF Woken, Old
<1> HIDE DEF Asks
<1>4. (Serves => []([]Asks /\ OldWithin(c, k) => <>~Old(c)))
        => (Serves => []([]Asks /\ OldWithin(c, k + 1) => <>~Old(c)))
  BY <1>1, <1>2, <1>3, LinkIInv, PTL DEF Serves, Served, LinkSpec
<1> QED
  BY <1>4 DEF DrainsFrom, Asks

\* Nothing is nearer than one step.
LEMMA DrainsFromNone == ASSUME NEW c PROVE DrainsFrom(c, 0)
<1>1. IInv /\ OldWithin(c, 0) => ~Old(c)
  <2> SUFFICES ASSUME IInv, NEW i \in DOMAIN can_cmd PROVE ~(StepsToTake(i) <= 0)
    BY DEF OldWithin, Old
  <2>1. i \in Nat /\ i >= 1 /\ StepsToListen \in 0..2
    BY ListenBound DEF IInv, TypeOK
  <2> QED
    BY <2>1 DEF StepsToTake
<1> QED
  BY <1>1, LinkIInv, PTL DEF DrainsFrom, Serves

\* 33 steps of the task drain a queue of 16 commands.
LEMMA DrainsFrom33 == ASSUME NEW c PROVE DrainsFrom(c, 33)
<1> DEFINE P(k) == DrainsFrom(c, k)
<1>1. P(0) /\ \A k \in Nat : P(k) => P(k + 1)
  BY DrainsFromNone, DrainsFromNext
<1> HIDE DEF P
<1>2. P(8)
  BY <1>1
<1>3. P(16)
  BY <1>1, <1>2
<1>4. P(24)
  BY <1>1, <1>3
<1>5. P(33)
  BY <1>1, <1>4
<1> QED
  BY <1>5 DEF P

\* The host asks for c.
Asks(c) == asked = c

\* The commands of other modes are gone at some time, while the host asks for c alone.
Drains(c) == Serves => []([]Asks(c) => <>~Old(c))

\* With the queue of the firmware, or a shorter one, they are.
LEMMA OthersDrain == ASSUME NEW c, CmdCap <= 16 PROVE Drains(c)
<1>1. ASSUME IInv PROVE OldWithin(c, 33)
  <2> SUFFICES ASSUME NEW i \in DOMAIN can_cmd PROVE StepsToTake(i) <= 33
    BY DEF OldWithin
  <2>1. i \in Nat /\ i <= 16 /\ StepsToListen \in 0..2
    BY <1>1, ListenBound, ConstantTypes DEF IInv, TypeOK
  <2> QED
    BY <2>1 DEF StepsToTake
<1> QED
  BY <1>1, DrainsFrom33, LinkIInv, PTL DEF DrainsFrom, Drains, Serves, Asks

ModeCommands == {StartCmd(flags) : flags \in Modes} \cup {StopCmd}

Applied(c) == AppliedMode = c

\* When they are gone, c is queued or applied.
LEMMA QueuedOrApplied == ASSUME ModeInv, NEW c, Asks(c) PROVE InQueue(c) \/ Applied(c)
  BY DEF ModeInv, Follows, Asks, InQueue, Applied

\* Once gone, they stay away.
LEMMA OldStaysAway ==
    ASSUME IInv, IInv', NEW c, Asks(c)', ~Old(c), [LinkNext]_linkVars
    PROVE  ~Old(c)'
  BY OldMoves DEF Asks, Old

\* A step of the host leaves the mode alone and takes no command.
LEMMA HostWaits == ASSUME IInv, Host PROVE AppliedMode' = AppliedMode /\ ~TakesHead
<1>1. PICK d : SendCmd(d)
  BY DEF Host, UsbRx, OnMode, OnBitTiming
<1>2. AppliedMode' = AppliedMode
  BY <1>1 DEF SendCmd, AppliedMode
<1>3. can_cmd' = can_cmd \/ can_cmd' = Append(can_cmd, d)
  BY <1>1 DEF SendCmd, TrySend
<1>4. Len(can_cmd') >= Len(can_cmd)
  BY <1>3 DEF IInv, TypeOK
<1>5. TakesHead => Len(can_cmd') < Len(can_cmd)
  BY ReceiveType DEF TakesHead, IInv, TypeOK
<1>6. Len(can_cmd) \in Nat /\ Len(can_cmd') \in Nat
  BY <1>3 DEF IInv, TypeOK
<1> QED
  BY <1>2, <1>4, <1>5, <1>6

\* When c is taken, c is applied.
LEMMA TakenIsApplied ==
    ASSUME IInv, IInv', NEW c \in ModeCommands, [LinkNext]_linkVars, <<Takes(c)>>_vars
    PROVE  Applied(c)'
<1>1. TakesHead /\ Head(can_cmd) = c /\ c.op \in ModeKinds
  BY DEF Takes, ModeCommands, ModeKinds, StartCmd, StopCmd
<1>2. Driver \/ Bus \/ UsbTxStep
  BY <1>1, HostWaits DEF LinkNext, linkVars
<1>3. ~(Receives("SetBitTiming") \/ Receives("Transmit"))
  BY <1>1 DEF Receives, ModeKinds
<1>4. can_cmd' # can_cmd
  BY <1>1, ReceiveType DEF TakesHead, IInv, TypeOK
<1> QED
  BY <1>1, <1>2, <1>3, <1>4, ModeSteps DEF IInv, Applied

\* Without commands of other modes, an applied c stays.
LEMMA AppliedStays ==
    ASSUME IInv, IInv', NEW c, ~Old(c), Applied(c), [LinkNext]_linkVars
    PROVE  Applied(c)'
<1>1. ASSUME Receives("Start") \/ Receives("Stop") PROVE Head(can_cmd) = c
  <2>1. /\ can_cmd \in Seq(CanDriverCmd) /\ can_cmd # <<>>
        /\ Head(can_cmd).op \in ModeKinds
    BY <1>1 DEF IInv, TypeOK, Receives, ModeKinds
  <2>2. 1 \in DOMAIN can_cmd /\ Head(can_cmd) = can_cmd[1]
    BY <2>1, TailIndices
  <2> QED
    BY <2>1, <2>2 DEF Old, IsOld
<1>2. CASE Driver \/ Bus \/ UsbTxStep
  BY <1>1, <1>2, ModeSteps DEF IInv, Applied
<1>3. CASE Host
  BY <1>3, HostWaits DEF Applied
<1>4. CASE UNCHANGED linkVars
  BY <1>4 DEF linkVars, vars, Applied, AppliedMode
<1> QED
  BY <1>2, <1>3, <1>4 DEF LinkNext

\* The mode settles on what the host asks for.
LEMMA ModeIsSettled ==
    ASSUME NEW c \in ModeCommands, CmdCap <= 16
    PROVE  Serves => ModeSettles(c)
<1>1. Drains(c) /\ IsTaken(c)
  BY OthersDrain, QueuedIsTaken
<1>2. ModeInv /\ Asks(c) => InQueue(c) \/ Applied(c)
  BY QueuedOrApplied
<1>3. IInv /\ IInv' /\ Asks(c)' /\ ~Old(c) /\ [LinkNext]_linkVars => ~Old(c)'
  BY OldStaysAway
<1>4. IInv /\ IInv' /\ [LinkNext]_linkVars /\ <<Takes(c)>>_vars => Applied(c)'
  BY TakenIsApplied
<1>5. IInv /\ IInv' /\ ~Old(c) /\ Applied(c) /\ [LinkNext]_linkVars => Applied(c)'
  BY AppliedStays
<1>6. Serves => (<>[]Asks(c) => <>[]Applied(c))
  BY <1>1, <1>2, <1>3, <1>4, <1>5, LinkIInv, ModeAlways, LinkImplementsDriver, PTL
     DEF Drains, IsTaken, Serves, LinkSpec
<1> QED
  BY <1>6 DEF ModeSettles, Asks, Applied

\* With the queue of the firmware, or a shorter one: once the MODE requests that find room
\* all ask for one mode, the peripheral is in that mode for good.
THEOREM ModeReached ==
    ASSUME CmdCap <= 16
    PROVE  LinkFairSpec /\ []TasksNeverStuck => ModeConverges
<1>1. LinkFairSpec /\ []TasksNeverStuck => Serves
  BY LinkServed, PTL DEF Serves, LinkFairSpec
<1>2. \A c \in ModeCommands : Serves => ModeSettles(c)
  BY ModeIsSettled
<1> QED
  BY <1>1, <1>2 DEF ModeConverges, ModeCommands
=============================================================================
