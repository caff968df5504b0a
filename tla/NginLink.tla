----------------------------- MODULE NginLink -----------------------------
(***************************************************************************)
(* The running adapter: can_driver_task (CanDriver) composed with           *)
(* usb_rx_task, usb_tx_task, the control handler (ControlHandler) and the   *)
(* host on the other side of the cable.  The tasks share nothing but the    *)
(* channels.  The endpoints are enabled: the wait_enabled() of both tasks   *)
(* has returned.                                                            *)
(***************************************************************************)
EXTENDS CanDriver, ControlHandler

VARIABLES
    ep_in,       \* <<h>> while usb_tx_task writes h to the IN endpoint, or <<>>
    submitted,   \* messages the host has sent
    echoed,      \* echo_ids whose echo the host has got: it may use them again
    last_rx,     \* <<h>>, h the last received frame the host has got, or <<>>
    asked        \* the last MODE request of the host that found room in the queue

hostVars == <<submitted, echoed, last_rx, asked>>
linkVars == <<vars, ep_in, hostVars>>

\* The host tells its echoes apart, and from received frames, by echo_id.
ASSUME EchoIdsAssumption ==
    /\ \A m, n \in TxMsgs : m.echo_id = n.echo_id => m = n
    /\ \A m \in TxMsgs : m.echo_id # GS_HOST_FRAME_ECHO_ID_RX

LinkInit ==
    /\ Init
    /\ ep_in = <<>>
    /\ submitted = {}
    /\ echoed = {}
    /\ last_rx = <<>>
    /\ asked = StopCmd

-----------------------------------------------------------------------------

\* usb_rx_task: one bulk OUT transfer.  A full queue loses it with a log line;
\* a short transfer changes nothing.
UsbRx(m) ==
    /\ m \in submitted => m.echo_id \in echoed
    /\ submitted' = submitted \cup {m}
    /\ echoed' = echoed \ {m.echo_id}
    /\ SendCmd(TransmitCmd(m))
    /\ UNCHANGED <<ep_in, last_rx, asked>>

\* What the host means as a request: a vendor request with the whole structure.
Meant(req) == req.vendor /\ req.complete

\* GS_USB_BREQ_MODE, with on_start_cb and on_stop_cb.  The request is accepted even
\* when the queue refuses the command.
OnMode(req) ==
    /\ TakesEffect(req)
    /\ req.request = "MODE"
    /\ SendCmd(ModeCmd(req.payload))
    /\ asked' = IF Meant(req) /\ ~IsFull(can_cmd, CmdCap) THEN ModeCmd(req.payload) ELSE asked
    /\ UNCHANGED <<ep_in, submitted, echoed, last_rx>>

\* GS_USB_BREQ_BITTIMING, with on_bit_timing_cb
OnBitTiming(req) ==
    /\ TakesEffect(req)
    /\ req.request = "BITTIMING"
    /\ SendCmd(SetBitTimingCmd(req.payload))
    /\ UNCHANGED <<ep_in, hostVars>>

\* The other OUT requests, and those without effect, change nothing here.
ControlRequests ==
    [vendor : BOOLEAN, complete : BOOLEAN, request : {"MODE"},
     payload : [mode : 0..2, flags : Modes]]
    \cup [vendor : BOOLEAN, complete : BOOLEAN, request : {"BITTIMING"}, payload : Timings]

Host ==
    \/ \E m \in TxMsgs : UsbRx(m)
    \/ \E req \in ControlRequests : OnMode(req) \/ OnBitTiming(req)

-----------------------------------------------------------------------------
(* usb_tx_task: select() polls CAN_RX_CHANNEL first.                        *)

\* Mutant: the frame is read and left in the queue.
UsbTxPeekRx ==
    /\ ep_in = <<>>
    /\ can_rx # <<>>
    /\ ep_in' = <<FromCanFrame(Head(can_rx))>>
    /\ UNCHANGED <<vars, hostVars>>

UsbTxTakeRx ==
    /\ ep_in = <<>>
    /\ TakeRx
    /\ ep_in' = <<FromCanFrame(Head(can_rx))>>
    /\ UNCHANGED hostVars

\* Mutant: usb_tx_task is only woken for echoes by a received frame.
UsbTxTakeEchoWithRx ==
    /\ ep_in = <<>>
    /\ can_rx # <<>>
    /\ TakeEcho
    /\ ep_in' = <<Head(usb_echo)>>
    /\ UNCHANGED hostVars

UsbTxTakeEcho ==
    /\ ep_in = <<>>
    /\ can_rx = <<>>
    /\ TakeEcho
    /\ ep_in' = <<Head(usb_echo)>>
    /\ UNCHANGED hostVars

UsbTxWritten ==
    /\ ep_in # <<>>
    /\ ep_in' = <<>>
    /\ echoed' = IF IsEcho(Head(ep_in)) THEN echoed \cup {Head(ep_in).echo_id} ELSE echoed
    /\ last_rx' = IF IsRx(Head(ep_in)) THEN ep_in ELSE last_rx
    /\ UNCHANGED <<vars, submitted, asked>>

\* write() fails: the frame is gone with a log line, and is not counted.
UsbTxError ==
    /\ ep_in # <<>>
    /\ ep_in' = <<>>
    /\ UNCHANGED <<vars, hostVars>>

UsbTxStep == UsbTxTakeRx \/ UsbTxTakeEcho \/ UsbTxWritten \/ UsbTxError

-----------------------------------------------------------------------------

Driver == (TaskStep \/ ReadStep) /\ UNCHANGED <<ep_in, hostVars>>

Bus == BusStep /\ UNCHANGED <<ep_in, hostVars>>

LinkNext == Driver \/ Bus \/ UsbTxStep \/ Host

LinkSpec == LinkInit /\ [][LinkNext]_linkVars

\* The executor polls every woken task, and the host keeps reading.
LinkFairSpec ==
    /\ LinkSpec
    /\ WF_linkVars(TaskStep /\ UNCHANGED <<ep_in, hostVars>>)
    /\ WF_linkVars(UsbTxStep)

-----------------------------------------------------------------------------
(* Properties.                                                              *)

LinkTypeOK ==
    /\ TypeOK
    /\ ep_in \in Seq({FromCanFrame(f) : f \in CanFrames} \cup EchoFrames) /\ Len(ep_in) <= 1
    /\ submitted \subseteq TxMsgs
    /\ echoed \subseteq {m.echo_id : m \in TxMsgs}
    /\ last_rx \in Seq({FromCanFrame(f) : f \in CanFrames}) /\ Len(last_rx) <= 1
    /\ asked \in {StartCmd(flags) : flags \in Modes} \cup {StopCmd}

Occurrences(q, x) == Cardinality({i \in DOMAIN q : q[i] = x})

\* A request is at one point of the device at most: a command, being written, an
\* echo on its way, or an echo the host has.  So the host never gets two echoes of
\* one request, nor the echo of an earlier use of the echo_id, whatever times out,
\* overflows or is aborted, and never frees the same echo slot twice.
OneEchoPerRequest ==
    \A m \in TxMsgs :
        LET req == ParseTxMsg(m) IN
        Occurrences(can_cmd, TransmitCmd(m)) + Occurrences(tx_req, req)
          + Occurrences(usb_echo, FromTxMsgEcho(req))
          + Occurrences(ep_in, FromTxMsgEcho(req))
          + Cardinality({m.echo_id} \cap echoed) <= (IF m \in submitted THEN 1 ELSE 0)

\* The mode the peripheral is in, as the command that asks for it.
AppliedMode ==
    IF is_started
      THEN [op |-> "Start", mode |-> [loopback    |-> can.loopback,
                                      listen_only |-> can.silent,
                                      one_shot    |-> can.one_shot]]
      ELSE StopCmd

\* The queued command, if any, that will decide the mode: the last Start or Stop.
DecidesMode(i) ==
    /\ can_cmd[i].op \in {"Start", "Stop"}
    /\ \A j \in DOMAIN can_cmd : j > i => can_cmd[j].op \notin {"Start", "Stop"}

\* The device is in, or its queue leads it to, the mode of the last MODE request
\* that found room: bit timings, transmissions, timeouts and bus-off recoveries in
\* between never change the mode, and a Start on a running driver is not lost.
ModeFollowsHost ==
    IF \E i \in DOMAIN can_cmd : DecidesMode(i)
      THEN \E i \in DOMAIN can_cmd : DecidesMode(i) /\ can_cmd[i] = asked
      ELSE AppliedMode = asked

\* What is received and not yet with the host, as the host will see it.
RxPipeline ==
    (IF ep_in # <<>> /\ IsRx(Head(ep_in)) THEN ep_in ELSE <<>>)
      \o [i \in DOMAIN can_rx |-> FromCanFrame(can_rx[i])]

Fifo == INSTANCE LossyFifo WITH
            Frames   <- {FromCanFrame(f) : f \in CanFrames},
            Capacity <- RxCap + 1,
            queue    <- RxPipeline,
            last     <- last_rx

\* Reception implements the lossy FIFO: the host gets the frames of the bus in
\* order, none twice and none altered, across overflows that discard the oldest
\* frame, error frames and echoes that overtake, and failed USB writes.
RxIsLossyFifo == Fifo!Spec

HostIds == {m.echo_id : m \in TxMsgs}

EchoIds(q) == [i \in DOMAIN q |-> q[i].echo_id]

\* The echo_ids on their way to the host, the nearest to it first: of the echoes, of the
\* request being written and of those queued.  What is no echo has an id of no request.
EchoPipeline ==
    EchoIds(ep_in) \o EchoIds(usb_echo) \o EchoIds(tx_req)
      \o [i \in DOMAIN can_cmd |-> IF can_cmd[i].op = "Transmit"
                                     THEN can_cmd[i].req.echo_id
                                     ELSE GS_HOST_FRAME_ECHO_ID_RX]

Listed(q) == {q[i] : i \in DOMAIN q} \cap HostIds

InOrder(q) ==
    {p \in Listed(q) \X Listed(q) :
       \E i, j \in DOMAIN q : i < j /\ q[i] = p[1] /\ q[j] = p[2]}

Slots == INSTANCE EchoSlots WITH
             Ids     <- HostIds,
             free    <- {m.echo_id : m \in TxMsgs \ submitted} \cup echoed,
             pending <- Listed(EchoPipeline),
             ahead   <- InOrder(EchoPipeline)

\* Transmission implements the echo slots: the host gets the echoes in the order of its
\* requests and none twice, whichever of them wait for a mailbox, time out, meet a full
\* queue or a failed USB write, and a request that was lost is never echoed later.
EchoesFollowRequests == Slots!Spec

\* usb_tx_task has a frame to take, or one to write.
UsbTxWoken == ep_in # <<>> \/ can_rx # <<>> \/ usb_echo # <<>>

\* A woken task has a step to take, which nothing in the other tasks can prevent.
TasksNeverStuck ==
    /\ Woken => ENABLED <<TaskStep /\ UNCHANGED <<ep_in, hostVars>>>>_linkVars
    /\ UsbTxWoken => ENABLED <<UsbTxStep>>_linkVars

ModeSettles(c) == <>[](asked = c) => <>[](AppliedMode = c)

\* The host has its way in the end: once the MODE requests that find room all ask for one
\* mode, the peripheral is in that mode for good, although commands of other modes are
\* still queued, timeouts and recoveries come in between and the host never falls silent.
ModeConverges == \A c \in {StartCmd(flags) : flags \in Modes} \cup {StopCmd} : ModeSettles(c)

\* A message of the host that is queued or being written.
Pending(m) ==
    \/ \E i \in DOMAIN can_cmd : can_cmd[i] = TransmitCmd(m)
    \/ tx_req = <<ParseTxMsg(m)>>

Settles(m) == Pending(m) ~> ~Pending(m)

\* No request stays in the device unsettled: it is written or dropped, even on a bus
\* where nothing is acknowledged and with the host queueing other commands for ever.
RequestsSettle == \A m \in TxMsgs : Settles(m)

EchoQueued(m) == \E i \in DOMAIN usb_echo : usb_echo[i] = FromTxMsgEcho(ParseTxMsg(m))

EchoLeaves(m) == EchoQueued(m) ~> ~EchoQueued(m)

\* An echo leaves its queue once reception pauses for good.  Without that premise
\* it may not: usb_tx_task prefers received frames.
EchoFlowsWhenBusQuiet == <>[](can_rx = <<>>) => \A m \in TxMsgs : EchoLeaves(m)
=============================================================================
