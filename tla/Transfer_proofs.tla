-------------------------- MODULE Transfer_proofs --------------------------
(***************************************************************************)
(* What goes through the adapter, for every capacity of the channels:       *)
(* reception implements the lossy FIFO and transmission the echo slots.     *)
(* Each step of the adapter, mapped to what is on its way to the host, is a *)
(* step of LossyFifo, and of EchoSlots, or none.                            *)
(***************************************************************************)
EXTENDS NginLink_proofs

RxFrames == {FromCanFrame(f) : f \in CanFrames}

\* The two parts of RxPipeline: the frame at the endpoint and those in the channel.
AtEndpoint == IF ep_in # <<>> /\ IsRx(Head(ep_in)) THEN ep_in ELSE <<>>
InChannel  == [i \in DOMAIN can_rx |-> FromCanFrame(can_rx[i])]

\* The pipeline is the one part after the other.
LEMMA Pipeline == RxPipeline = AtEndpoint \o InChannel
  BY DEF RxPipeline, AtEndpoint, InChannel

-----------------------------------------------------------------------------
(* Sequences.                                                               *)

\* The frames of a channel, as the host will see them.
Shown(q) == [i \in DOMAIN q |-> FromCanFrame(q[i])]

\* What the host will see of a channel is a sequence of its frames.
LEMMA ShownType ==
    ASSUME NEW q \in Seq(CanFrames)
    PROVE  Shown(q) \in Seq(RxFrames) /\ Len(Shown(q)) = Len(q)
  BY DEF Shown, RxFrames

\* A frame added to the channel is added to what the host will see.
LEMMA ShownAppend ==
    ASSUME NEW q \in Seq(CanFrames), NEW f \in CanFrames
    PROVE  Shown(Append(q, f)) = Append(Shown(q), FromCanFrame(f))
  BY DEF Shown

\* A frame taken from it is the first of these.
LEMMA ShownTail ==
    ASSUME NEW q \in Seq(CanFrames), q # <<>>
    PROVE  /\ Shown(Tail(q)) = Tail(Shown(q))
           /\ Shown(q) # <<>>
           /\ Head(Shown(q)) = FromCanFrame(Head(q))
  BY DEF Shown

\* Adding to the second part adds at the end.
LEMMA ConcatAppend ==
    ASSUME NEW S, NEW p \in Seq(S), NEW q \in Seq(S), NEW x \in S
    PROVE  p \o Append(q, x) = Append(p \o q, x)
  OBVIOUS

\* The first element of the second part is dropped.
LEMMA ConcatDrop ==
    ASSUME NEW S, NEW p \in Seq(S), NEW q \in Seq(S), q # <<>>
    PROVE  /\ Len(p) + 1 \in DOMAIN (p \o q)
           /\ Fifo!RemoveAt(p \o q, Len(p) + 1) = p \o Tail(q)
<1> DEFINE s == p \o q
           n == Len(p)
           front == SubSeq(s, 1, n)
           back == SubSeq(s, n + 2, Len(s))
<1>1. /\ s \in Seq(S) /\ Len(s) = n + Len(q) /\ DOMAIN s = 1..Len(s)
      /\ n \in Nat /\ Len(q) \in Nat \ {0}
      /\ \A i \in 1..n : s[i] = p[i]
      /\ \A i \in 1..Len(q) : s[n + i] = q[i]
  BY TailIndices
<1>2. front \in Seq(S) /\ Len(front) = n /\ \A i \in 1..n : front[i] = p[i]
  BY <1>1
<1>3. front = p
  BY <1>2, SeqEqual
<1>4. /\ back \in Seq(S) /\ Len(back) = Len(q) - 1
      /\ \A i \in 1..Len(q) - 1 : back[i] = q[i + 1]
  <2>1. \A i \in n + 2..Len(s) : s[i] \in S
    BY <1>1
  <2>2. n + 2 \in Int /\ Len(s) \in Int
    BY <1>1
  <2> HIDE DEF s, n
  <2>3. /\ back \in Seq(S)
        /\ Len(back) = IF n + 2 <= Len(s) THEN Len(s) - (n + 2) + 1 ELSE 0
        /\ \A i \in 1..Len(s) - (n + 2) + 1 : back[i] = s[(n + 2) + i - 1]
    BY <2>1, <2>2, SubSeqProperties
  <2> HIDE DEF back
  <2>4. Len(back) = Len(q) - 1
    <3>1. n \in Nat /\ Len(q) \in Nat /\ Len(q) # 0 /\ Len(s) = n + Len(q)
      BY <1>1
    <3>2. Len(back) = IF n + 2 <= Len(s) THEN Len(s) - (n + 2) + 1 ELSE 0
      BY <2>3
    <3>3. \A a, b, c \in Nat : b # 0 /\ c = a + b =>
            (IF a + 2 <= c THEN c - (a + 2) + 1 ELSE 0) = b - 1
      OBVIOUS
    <3>4. Len(s) \in Nat
      BY <3>1
    <3> QED
      BY <3>1, <3>2, <3>3, <3>4
  <2>5. ASSUME NEW i \in 1..Len(q) - 1 PROVE back[i] = q[i + 1]
    <3>1. back[i] = s[n + (i + 1)]
      BY <1>1, <2>3
    <3>2. i + 1 \in 1..Len(q)
      BY <1>1
    <3> QED
      BY <1>1, <3>1, <3>2
  <2> QED
    BY <2>3, <2>4, <2>5
<1>5. Tail(q) \in Seq(S) /\ Len(Tail(q)) = Len(q) - 1
  BY ReceiveType
<1>6. back = Tail(q)
  <2>1. \A i \in 1..Len(back) : back[i] = Tail(q)[i]
    BY <1>4, TailIndices
  <2> QED
    BY <1>4, <1>5, <2>1, SeqEqual
<1>7. Fifo!RemoveAt(s, n + 1) = front \o back
  <2>1. (n + 1) - 1 = n /\ (n + 1) + 1 = n + 2
    BY <1>1
  <2> HIDE DEF s, n
  <2> QED
    BY <2>1 DEF Fifo!RemoveAt
<1>8. n + 1 \in DOMAIN s
  BY <1>1
<1> HIDE DEF front, back
<1> QED
  BY <1>3, <1>6, <1>7, <1>8

\* The first part is one element, and it is taken or dropped.
LEMMA ConcatHead ==
    ASSUME NEW S, NEW x \in S, NEW q \in Seq(S)
    PROVE  /\ <<x>> \o q # <<>>
           /\ Head(<<x>> \o q) = x
           /\ Tail(<<x>> \o q) = q
           /\ 1 \in DOMAIN (<<x>> \o q)
           /\ Fifo!RemoveAt(<<x>> \o q, 1) = q
<1> DEFINE s == <<x>> \o q
<1>1. /\ s \in Seq(S) /\ Len(s) = 1 + Len(q) /\ Len(q) \in Nat /\ s[1] = x
      /\ \A i \in 1..Len(q) : s[i + 1] = q[i]
  OBVIOUS
<1>2. s # <<>>
  BY <1>1
<1>3. Tail(s) = q
  <2>1. Tail(s) \in Seq(S) /\ Len(Tail(s)) = Len(q)
    BY <1>1, <1>2, ReceiveType
  <2>2. \A i \in 1..Len(Tail(s)) : Tail(s)[i] = q[i]
    BY <1>1, <1>2, <2>1, TailIndices
  <2> QED
    BY <2>1, <2>2, SeqEqual
<1>4. Fifo!RemoveAt(s, 1) = Tail(s)
  <2> HIDE DEF s
  <2>1. SubSeq(s, 1, 0) = <<>> /\ SubSeq(s, 2, Len(s)) = Tail(s)
    BY <1>1, <1>2, SubSeqEmpty, TailIsSubSeq
  <2>2. Tail(s) \in Seq(S) /\ <<>> \o Tail(s) = Tail(s)
    BY <1>1, <1>2, ReceiveType, ConcatEmptySeq
  <2>3. 1 - 1 = 0 /\ 1 + 1 = 2
    OBVIOUS
  <2> QED
    BY <2>1, <2>2, <2>3 DEF Fifo!RemoveAt
<1>5. Head(s) = x /\ 1 \in DOMAIN s
  BY <1>1, <1>2, TailIndices
<1> HIDE DEF s
<1>6. s # <<>> /\ Head(s) = x /\ Tail(s) = q /\ 1 \in DOMAIN s /\ Fifo!RemoveAt(s, 1) = q
  BY <1>2, <1>3, <1>4, <1>5
<1> QED
  BY <1>6 DEF s

-----------------------------------------------------------------------------
(* What the host takes for a received frame is one.                         *)

\* A received frame is taken for one, whatever its id.
LEMMA ReceivedIsRx == ASSUME NEW f PROVE IsRx(FromCanFrame(f))
<1>1. FromCanFrame(f).echo_id = GS_HOST_FRAME_ECHO_ID_RX
  BY DEF FromCanFrame
<1>2. GS_CAN_ID_FLAG_ERR \notin FromCanFrame(f).can_id
  <2>1. 29 \notin 0..28 /\ 29 \notin 0..10 /\ 29 # 31
    OBVIOUS
  <2> QED
    BY <2>1 DEF FromCanFrame, HostCanId, GS_CAN_ID_FLAG_ERR, GS_CAN_ID_FLAG_EFF,
                GS_CAN_ID_MASK_EFF, GS_CAN_ID_MASK_SFF
<1> QED
  BY <1>1, <1>2 DEF IsRx, IsEcho, IsErrorFrame

\* Nothing in the echo queue is taken for a received frame.
LEMMA EchoIsNotRx == ASSUME NEW h \in EchoFrames PROVE ~IsRx(h)
<1>1. CASE \E m \in TxMsgs : h = FromTxMsgEcho(ParseTxMsg(m))
  <2>1. PICK m \in TxMsgs : h = FromTxMsgEcho(ParseTxMsg(m))
    BY <1>1
  <2>2. h.echo_id = m.echo_id
    BY <2>1 DEF FromTxMsgEcho, ParseTxMsg
  <2> QED
    BY <2>2, EchoIdsAssumption DEF IsRx, IsEcho
<1>2. CASE h \in {FromBusError(e) : e \in BusErrors} \cup {BusOffFrame}
  BY <1>2, ErrorFrames DEF IsRx
<1> QED
  BY <1>1, <1>2 DEF EchoFrames, Requests

\* The frame at the endpoint is one of RxFrames or not shown.
LEMMA EndpointType ==
    ASSUME LinkTypeOK
    PROVE  /\ AtEndpoint \in Seq(RxFrames) /\ Len(AtEndpoint) <= 1
           /\ InChannel = Shown(can_rx) /\ can_rx \in Seq(CanFrames)
<1>1. can_rx \in Seq(CanFrames) /\ InChannel = Shown(can_rx)
  BY DEF LinkTypeOK, TypeOK, InChannel, Shown
<1>2. CASE ep_in # <<>> /\ IsRx(Head(ep_in))
  <2>1. Head(ep_in) \in HostFrames /\ ep_in = <<Head(ep_in)>>
    BY <1>2, OneElement DEF LinkTypeOK, HostFrames
  <2>2. Head(ep_in) \in RxFrames
    BY <1>2, <2>1, EchoIsNotRx DEF HostFrames, RxFrames
  <2>3. AtEndpoint = <<Head(ep_in)>>
    BY <1>2, <2>1 DEF AtEndpoint
  <2> QED
    BY <1>1, <2>2, <2>3
<1>3. CASE ~(ep_in # <<>> /\ IsRx(Head(ep_in)))
  <2>1. AtEndpoint = <<>>
    BY <1>3 DEF AtEndpoint
  <2> QED
    BY <1>1, <2>1
<1> QED
  BY <1>2, <1>3

-----------------------------------------------------------------------------
(* The steps.                                                               *)

FifoStep == [Fifo!Next]_(Fifo!fifoVars)

\* A step that changes neither end.
LEMMA NoFifoStep == ASSUME UNCHANGED <<can_rx, ep_in, last_rx>> PROVE FifoStep
  BY DEF FifoStep, Fifo!fifoVars, RxPipeline

\* A frame is read from the bus.
LEMMA PutStep ==
    ASSUME LinkTypeOK, NEW f \in CanFrames, RxQueued(f), UNCHANGED <<ep_in, last_rx>>
    PROVE  FifoStep
<1>1. /\ AtEndpoint \in Seq(RxFrames) /\ Len(AtEndpoint) <= 1
      /\ InChannel = Shown(can_rx) /\ can_rx \in Seq(CanFrames)
      /\ Shown(can_rx) \in Seq(RxFrames) /\ Len(Shown(can_rx)) = Len(can_rx)
  BY EndpointType, ShownType
<1>2. can_rx' = Append(can_rx, f) /\ AtEndpoint' = AtEndpoint /\ Len(can_rx) < RxCap
  <2>1. RxCap \in Nat /\ Len(can_rx) \in Nat
    BY <1>1, CapsAssumption
  <2> QED
    BY <2>1 DEF RxQueued, AtEndpoint, IsFull
<1>3. RxPipeline = AtEndpoint \o Shown(can_rx)
  BY <1>1, Pipeline
<1>4. RxPipeline' = AtEndpoint \o Append(Shown(can_rx), FromCanFrame(f))
  <2>1. RxPipeline' = AtEndpoint' \o Shown(can_rx')
    BY DEF RxPipeline, AtEndpoint, Shown
  <2> QED
    BY <1>1, <1>2, <2>1, ShownAppend
<1>5. FromCanFrame(f) \in RxFrames
  BY DEF RxFrames
<1>6. RxPipeline' = Append(RxPipeline, FromCanFrame(f))
  BY <1>1, <1>3, <1>4, <1>5, ConcatAppend
<1>7. Len(RxPipeline) < RxCap + 1
  <2>1. Len(RxPipeline) = Len(AtEndpoint) + Len(can_rx)
    BY <1>1, <1>3
  <2>2. Len(AtEndpoint) \in Nat /\ Len(can_rx) \in Nat /\ RxCap \in Nat
    BY <1>1, CapsAssumption
  <2> QED
    BY <1>1, <1>2, <2>1, <2>2
<1>8. Fifo!Put(FromCanFrame(f))
  BY <1>6, <1>7 DEF Fifo!Put
<1> QED
  BY <1>5, <1>8 DEF FifoStep, Fifo!Next, RxFrames

\* overflow_pending discards the oldest frame of the channel, if there is one.
LEMMA DropStep ==
    ASSUME LinkTypeOK, can_rx' = TryReceive(can_rx), UNCHANGED <<ep_in, last_rx>>
    PROVE  FifoStep
<1>1. CASE can_rx = <<>>
  <2>1. can_rx' = can_rx
    BY <1>1 DEF TryReceive
  <2> QED
    BY <2>1, NoFifoStep
<1>2. CASE can_rx # <<>>
  <2>1. /\ AtEndpoint \in Seq(RxFrames)
        /\ InChannel = Shown(can_rx) /\ can_rx \in Seq(CanFrames)
        /\ Shown(can_rx) \in Seq(RxFrames) /\ Shown(can_rx) # <<>>
        /\ Shown(Tail(can_rx)) = Tail(Shown(can_rx))
    BY <1>2, EndpointType, ShownType, ShownTail
  <2>2. can_rx' = Tail(can_rx) /\ AtEndpoint' = AtEndpoint
    BY <1>2 DEF TryReceive, AtEndpoint
  <2>3. RxPipeline = AtEndpoint \o Shown(can_rx)
    BY <2>1, Pipeline
  <2>4. RxPipeline' = AtEndpoint \o Tail(Shown(can_rx))
    <3>1. RxPipeline' = AtEndpoint' \o Shown(can_rx')
      BY DEF RxPipeline, AtEndpoint, Shown
    <3> QED
      BY <2>1, <2>2, <3>1
  <2>5. /\ Len(AtEndpoint) + 1 \in DOMAIN RxPipeline
        /\ RxPipeline' = Fifo!RemoveAt(RxPipeline, Len(AtEndpoint) + 1)
    BY <2>1, <2>3, <2>4, ConcatDrop
  <2>6. Fifo!Lose(Len(AtEndpoint) + 1)
    BY <2>5 DEF Fifo!Lose
  <2> QED
    BY <2>5, <2>6 DEF FifoStep, Fifo!Next
<1> QED
  BY <1>1, <1>2

\* usb_tx_task takes a frame: it goes from one part of the pipeline to the other.
LEMMA TakeStepRx == ASSUME LinkTypeOK, UsbTxTakeRx PROVE FifoStep
<1>1. /\ can_rx # <<>> /\ can_rx' = Tail(can_rx) /\ ep_in = <<>> /\ last_rx' = last_rx
      /\ ep_in' = <<FromCanFrame(Head(can_rx))>>
  BY DEF UsbTxTakeRx, TakeRx, hostVars
<1>2. /\ can_rx \in Seq(CanFrames) /\ Shown(can_rx) \in Seq(RxFrames) /\ Shown(can_rx) # <<>>
      /\ Shown(Tail(can_rx)) = Tail(Shown(can_rx))
      /\ Head(Shown(can_rx)) = FromCanFrame(Head(can_rx))
  BY <1>1, EndpointType, ShownType, ShownTail
<1>3. AtEndpoint = <<>> /\ AtEndpoint' = <<FromCanFrame(Head(can_rx))>>
  <2>1. Head(ep_in') = FromCanFrame(Head(can_rx)) /\ ep_in' # <<>>
    BY <1>1
  <2> QED
    BY <1>1, <2>1, ReceivedIsRx DEF AtEndpoint
<1>4. RxPipeline = Shown(can_rx)
  BY <1>2, <1>3, EndpointType, Pipeline, ConcatEmptySeq
<1>5. RxPipeline' = <<Head(Shown(can_rx))>> \o Tail(Shown(can_rx))
  <2>1. RxPipeline' = AtEndpoint' \o Shown(can_rx')
    BY DEF RxPipeline, AtEndpoint, Shown
  <2> QED
    BY <1>1, <1>2, <1>3, <2>1
<1>6. \A q \in Seq(RxFrames) : q # <<>> => <<Head(q)>> \o Tail(q) = q
  OBVIOUS
<1>7. RxPipeline' = RxPipeline
  BY <1>2, <1>4, <1>5, <1>6
<1> QED
  BY <1>1, <1>7 DEF FifoStep, Fifo!fifoVars

\* An echo or an error frame overtakes the received frames and is none of them.
LEMMA TakeStepEcho == ASSUME LinkTypeOK, UsbTxTakeEcho PROVE FifoStep
<1>1. /\ usb_echo # <<>> /\ can_rx' = can_rx /\ ep_in = <<>> /\ last_rx' = last_rx
      /\ ep_in' = <<Head(usb_echo)>>
  BY DEF UsbTxTakeEcho, TakeEcho, hostVars
<1>2. ~IsRx(Head(usb_echo))
  BY <1>1, ReceiveType, EchoIsNotRx DEF LinkTypeOK, TypeOK
<1>3. Head(ep_in') = Head(usb_echo)
  BY <1>1
<1>4. RxPipeline' = RxPipeline
  BY <1>1, <1>2, <1>3 DEF RxPipeline
<1> QED
  BY <1>1, <1>4 DEF FifoStep, Fifo!fifoVars

\* The host gets the oldest received frame, or the write fails and it is lost.
LEMMA LeaveStep == ASSUME LinkTypeOK, UsbTxWritten \/ UsbTxError PROVE FifoStep
<1>1. ep_in # <<>> /\ ep_in' = <<>> /\ can_rx' = can_rx
  BY DEF UsbTxWritten, UsbTxError, vars
<1>2. Shown(can_rx) \in Seq(RxFrames) /\ InChannel = Shown(can_rx)
  BY EndpointType, ShownType
<1>3. RxPipeline' = Shown(can_rx)
  <2>1. RxPipeline' = AtEndpoint' \o Shown(can_rx')
    BY DEF RxPipeline, AtEndpoint, Shown
  <2>2. AtEndpoint' = <<>>
    BY <1>1 DEF AtEndpoint
  <2> QED
    BY <1>1, <1>2, <2>1, <2>2, ConcatEmptySeq
<1>4. CASE IsRx(Head(ep_in))
  <2>1. ep_in = <<Head(ep_in)>> /\ Head(ep_in) \in RxFrames
    <3>1. Head(ep_in) \in HostFrames /\ ep_in = <<Head(ep_in)>>
      BY <1>1, OneElement DEF LinkTypeOK, HostFrames
    <3> QED
      BY <1>4, <3>1, EchoIsNotRx DEF HostFrames, RxFrames
  <2>2. RxPipeline = <<Head(ep_in)>> \o Shown(can_rx)
    BY <1>1, <1>2, <1>4, <2>1, Pipeline DEF AtEndpoint
  <2>3. /\ RxPipeline # <<>> /\ Head(RxPipeline) = Head(ep_in)
        /\ Tail(RxPipeline) = Shown(can_rx)
        /\ 1 \in DOMAIN RxPipeline
        /\ Fifo!RemoveAt(RxPipeline, 1) = Shown(can_rx)
    BY <1>2, <2>1, <2>2, ConcatHead
  <2>4. CASE UsbTxWritten
    <3>1. last_rx' = <<Head(ep_in)>>
      BY <1>4, <2>1, <2>4 DEF UsbTxWritten
    <3>2. Fifo!Get
      BY <1>3, <2>3, <3>1 DEF Fifo!Get
    <3> QED
      BY <3>2 DEF FifoStep, Fifo!Next
  <2>5. CASE UsbTxError
    <3>1. last_rx' = last_rx
      BY <2>5 DEF UsbTxError, hostVars
    <3>2. Fifo!Lose(1)
      BY <1>3, <2>3, <3>1 DEF Fifo!Lose
    <3> QED
      BY <2>3, <3>2 DEF FifoStep, Fifo!Next
  <2> QED
    BY <2>4, <2>5
<1>5. CASE ~IsRx(Head(ep_in))
  <2>1. RxPipeline = Shown(can_rx)
    <3>1. AtEndpoint = <<>>
      BY <1>5 DEF AtEndpoint
    <3> QED
      BY <1>2, <3>1, Pipeline, ConcatEmptySeq
  <2>2. last_rx' = last_rx
    BY <1>5 DEF UsbTxWritten, UsbTxError, hostVars
  <2> QED
    BY <1>3, <2>1, <2>2 DEF FifoStep, Fifo!fifoVars
<1> QED
  BY <1>4, <1>5

\* Every step of the adapter is a step of the FIFO or none.
LEMMA ReceptionStep == ASSUME LinkTypeOK, [LinkNext]_linkVars PROVE FifoStep
<1>1. CASE Driver
  <2>1. UNCHANGED <<ep_in, last_rx>>
    BY <1>1 DEF Driver, hostVars
  <2>2. CASE TaskStep
    <3>1. can_rx' = can_rx
      BY <2>2 DEF TaskStep, Start, Stop, ApplyBitTiming, IgnoreWhenStopped, EnableDone,
                  TransmitAtOnce, TransmitWaits, WriteDone, WriteTimeout, RecoverDone,
                  BackoffDone
    <3> QED
      BY <2>1, <3>1, NoFifoStep
  <2>3. CASE ReadStep
    <3>1. CASE RxOverflow
      BY <2>1, <3>1, DropStep DEF RxOverflow
    <3>2. ASSUME NEW e \in BusErrors, RxError(e) PROVE FifoStep
      <4>1. can_rx' = can_rx \/ can_rx' = TryReceive(can_rx)
        BY <3>2 DEF RxError
      <4> QED
        BY <2>1, <4>1, DropStep, NoFifoStep
    <3>3. CASE BusOffRetry \/ BusOffGiveUp
      BY <2>1, <3>3, NoFifoStep DEF BusOffRetry, BusOffGiveUp
    <3>4. ASSUME NEW f \in CanFrames, RxQueued(f) PROVE FifoStep
      BY <2>1, <3>4, PutStep
    <3> QED
      BY <2>3, <3>1, <3>2, <3>3, <3>4 DEF ReadStep
  <2> QED
    BY <1>1, <2>2, <2>3 DEF Driver
<1>2. CASE Bus
  BY <1>2, NoFifoStep DEF Bus, BusStep, MailboxSent, MailboxLost, GoBusOff, hostVars
<1>3. CASE UsbTxStep
  BY <1>3, TakeStepRx, TakeStepEcho, LeaveStep DEF UsbTxStep
<1>4. CASE Host
  BY <1>4, NoFifoStep DEF Host, UsbRx, OnMode, OnBitTiming, SendCmd, hostVars
<1>5. CASE UNCHANGED linkVars
  BY <1>5, NoFifoStep DEF linkVars, vars, hostVars
<1> QED
  BY <1>1, <1>2, <1>3, <1>4, <1>5 DEF LinkNext

\* Reception implements the lossy FIFO: for all capacities and frames the host gets
\* the frames of the bus in order, none twice, none altered and none invented, across
\* overflows, echoes that overtake and failed USB writes.
THEOREM ReceptionIsLossyFifo == LinkSpec => RxIsLossyFifo
<1>1. LinkInit => Fifo!Init
  <2>1. [i \in DOMAIN <<>> |-> FromCanFrame(<<>>[i])] = <<>>
    OBVIOUS
  <2>2. <<>> \o <<>> = <<>>
    OBVIOUS
  <2> QED
    BY <2>1, <2>2 DEF LinkInit, Init, Fifo!Init, RxPipeline
<1>2. LinkTypeOK /\ [LinkNext]_linkVars => [Fifo!Next]_(Fifo!fifoVars)
  BY ReceptionStep DEF FifoStep
<1> QED
  BY <1>1, <1>2, LinkTypeCorrect, PTL DEF LinkSpec, RxIsLossyFifo, Fifo!Spec

-----------------------------------------------------------------------------
(* Echoes come in the order of requests: the echo_ids on their way are one  *)
(* sequence, to which the host adds at the end and from which one leaves.   *)

Has(q, i) == \E k \in DOMAIN q : q[k] = i

Before(q, i, j) == \E k, l \in DOMAIN q : k < l /\ q[k] = i /\ q[l] = j

\* What is in a sequence, told by its parts.
LEMMA HasConcat ==
    ASSUME NEW S, NEW p \in Seq(S), NEW q \in Seq(S), NEW i
    PROVE  Has(p \o q, i) <=> Has(p, i) \/ Has(q, i)
<1>1. /\ DOMAIN p = 1..Len(p) /\ DOMAIN q = 1..Len(q) /\ DOMAIN (p \o q) = 1..Len(p) + Len(q)
      /\ Len(p) \in Nat /\ Len(q) \in Nat
      /\ \A k \in 1..Len(p) : (p \o q)[k] = p[k]
      /\ \A k \in 1..Len(q) : (p \o q)[k + Len(p)] = q[k]
  OBVIOUS
<1>2. \A k \in 1..Len(p) + Len(q) : k \in 1..Len(p) \/ k - Len(p) \in 1..Len(q)
  BY <1>1
<1>3. \A k \in 1..Len(q) : k + Len(p) \in 1..Len(p) + Len(q)
  BY <1>1
<1>4. \A k \in 1..Len(p) : k \in 1..Len(p) + Len(q)
  BY <1>1
<1>5. ASSUME NEW k \in DOMAIN (p \o q), (p \o q)[k] = i PROVE Has(p, i) \/ Has(q, i)
  <2>1. CASE k \in 1..Len(p)
    BY <1>1, <1>5, <2>1 DEF Has
  <2>2. CASE k - Len(p) \in 1..Len(q)
    <3>1. (k - Len(p)) + Len(p) = k
      BY <1>1, <1>5
    <3>2. q[k - Len(p)] = i
      BY <1>1, <1>5, <2>2, <3>1
    <3> QED
      BY <1>1, <2>2, <3>2 DEF Has
  <2> QED
    BY <1>1, <1>2, <1>5, <2>1, <2>2
<1>6. Has(p, i) => Has(p \o q, i)
  BY <1>1, <1>4 DEF Has
<1>7. Has(q, i) => Has(p \o q, i)
  BY <1>1, <1>3 DEF Has
<1> QED
  BY <1>5, <1>6, <1>7 DEF Has

\* The order in a sequence, told by its parts.
LEMMA BeforeConcat ==
    ASSUME NEW S, NEW p \in Seq(S), NEW q \in Seq(S), NEW i, NEW j
    PROVE  Before(p \o q, i, j) <=> Before(p, i, j) \/ Before(q, i, j) \/ (Has(p, i) /\ Has(q, j))
<1> DEFINE n == Len(p)
<1>1. /\ DOMAIN p = 1..n /\ DOMAIN q = 1..Len(q) /\ DOMAIN (p \o q) = 1..n + Len(q)
      /\ n \in Nat /\ Len(q) \in Nat
      /\ \A k \in 1..n : (p \o q)[k] = p[k]
      /\ \A k \in 1..Len(q) : (p \o q)[k + n] = q[k]
  OBVIOUS
<1> HIDE DEF n
<1>2. ASSUME NEW k \in 1..n + Len(q), k \notin 1..n
      PROVE  k - n \in 1..Len(q) /\ (p \o q)[k] = q[k - n]
  <2>1. k - n \in 1..Len(q) /\ (k - n) + n = k
    BY <1>1, <1>2
  <2> QED
    BY <1>1, <2>1
<1>3. ASSUME Before(p \o q, i, j)
      PROVE  Before(p, i, j) \/ Before(q, i, j) \/ (Has(p, i) /\ Has(q, j))
  <2>1. PICK k, l \in 1..n + Len(q) : k < l /\ (p \o q)[k] = i /\ (p \o q)[l] = j
    BY <1>1, <1>3 DEF Before
  <2>2. CASE k \in 1..n /\ l \in 1..n
    BY <1>1, <2>1, <2>2 DEF Before
  <2>3. CASE k \in 1..n /\ l \notin 1..n
    BY <1>1, <1>2, <2>1, <2>3 DEF Has
  <2>4. CASE k \notin 1..n /\ l \notin 1..n
    <3>1. k - n \in 1..Len(q) /\ l - n \in 1..Len(q) /\ q[k - n] = i /\ q[l - n] = j
      BY <1>2, <2>1, <2>4
    <3>2. k - n < l - n
      BY <1>1, <2>1
    <3> QED
      BY <1>1, <3>1, <3>2 DEF Before
  <2>5. k \notin 1..n => l \notin 1..n
    BY <1>1, <2>1
  <2> QED
    BY <2>2, <2>3, <2>4, <2>5
<1>4. ASSUME Before(p, i, j) PROVE Before(p \o q, i, j)
  <2>1. PICK k, l \in 1..n : k < l /\ p[k] = i /\ p[l] = j
    BY <1>1, <1>4 DEF Before
  <2>2. k \in 1..n + Len(q) /\ l \in 1..n + Len(q)
    BY <1>1
  <2> QED
    BY <1>1, <2>1, <2>2 DEF Before
<1>5. ASSUME Before(q, i, j) PROVE Before(p \o q, i, j)
  <2>1. PICK k, l \in 1..Len(q) : k < l /\ q[k] = i /\ q[l] = j
    BY <1>1, <1>5 DEF Before
  <2>2. k + n \in 1..n + Len(q) /\ l + n \in 1..n + Len(q) /\ k + n < l + n
    BY <1>1, <2>1
  <2> QED
    BY <1>1, <2>1, <2>2 DEF Before
<1>6. ASSUME Has(p, i), Has(q, j) PROVE Before(p \o q, i, j)
  <2>1. PICK k \in 1..n, l \in 1..Len(q) : p[k] = i /\ q[l] = j
    BY <1>1, <1>6 DEF Has
  <2>2. k \in 1..n + Len(q) /\ l + n \in 1..n + Len(q) /\ k < l + n
    BY <1>1, <2>1
  <2> QED
    BY <1>1, <2>1, <2>2 DEF Before
<1> QED
  BY <1>3, <1>4, <1>5, <1>6

\* A sequence of one element.
LEMMA HasOne == ASSUME NEW x, NEW i PROVE Has(<<x>>, i) <=> i = x
<1>1. DOMAIN <<x>> = {1} /\ <<x>>[1] = x
  OBVIOUS
<1> QED
  BY <1>1 DEF Has

\* It has no order.
LEMMA OneHasNoOrder == ASSUME NEW x, NEW i, NEW j PROVE ~Before(<<x>>, i, j)
<1>1. \A k \in DOMAIN <<x>> : k = 1
  OBVIOUS
<1> QED
  BY <1>1 DEF Before

\* An element added at the end.
LEMMA HasLast ==
    ASSUME NEW S, NEW p \in Seq(S), NEW x \in S, NEW i
    PROVE  Has(p \o <<x>>, i) <=> Has(p, i) \/ i = x
<1>1. <<x>> \in Seq(S)
  OBVIOUS
<1>2. Has(p \o <<x>>, i) <=> Has(p, i) \/ Has(<<x>>, i)
  BY <1>1, HasConcat
<1>3. Has(<<x>>, i) <=> i = x
  BY HasOne
<1> QED
  BY <1>2, <1>3

\* It comes after all others.
LEMMA LastIsLast ==
    ASSUME NEW S, NEW p \in Seq(S), NEW x \in S, NEW i, NEW j
    PROVE  Before(p \o <<x>>, i, j) <=> Before(p, i, j) \/ (Has(p, i) /\ j = x)
<1>1. <<x>> \in Seq(S)
  OBVIOUS
<1>2. Before(p \o <<x>>, i, j)
        <=> Before(p, i, j) \/ Before(<<x>>, i, j) \/ (Has(p, i) /\ Has(<<x>>, j))
  BY <1>1, BeforeConcat
<1>3. ~Before(<<x>>, i, j) /\ (Has(<<x>>, j) <=> j = x)
  BY HasOne, OneHasNoOrder
<1> QED
  BY <1>2, <1>3

\* Concatenation, with the laws the provers need and no more.
Cat(p, q) == p \o q

\* It is associative, and the empty sequence is neutral.
LEMMA CatLaws ==
    ASSUME NEW S
    PROVE  /\ <<>> \in Seq(S)
           /\ \A x \in S : <<x>> \in Seq(S)
           /\ \A p, q \in Seq(S) : Cat(p, q) \in Seq(S)
           /\ \A p, q, r \in Seq(S) : Cat(Cat(p, q), r) = Cat(p, Cat(q, r))
           /\ \A p \in Seq(S) : Cat(p, <<>>) = p /\ Cat(<<>>, p) = p
<1>1. <<>> \in Seq(S) /\ \A x \in S : <<x>> \in Seq(S)
  OBVIOUS
<1>2. \A p, q \in Seq(S) : Cat(p, q) \in Seq(S)
  BY ConcatProperties DEF Cat
<1>3. \A p, q, r \in Seq(S) : Cat(Cat(p, q), r) = Cat(p, Cat(q, r))
  BY ConcatAssociative DEF Cat
<1>4. \A p \in Seq(S) : Cat(p, <<>>) = p /\ Cat(<<>>, p) = p
  BY ConcatEmptySeq DEF Cat
<1> QED
  BY <1>1, <1>2, <1>3, <1>4

\* x leaves p, which becomes q.
Leaves(S, p, q, x) == \E a, b \in Seq(S) : p = Cat(Cat(a, <<x>>), b) /\ q = Cat(a, b)

\* Only x leaves, and the order of the others stays.
LEMMA LeavesOrder ==
    ASSUME NEW S, NEW p, NEW q, NEW x \in S, Leaves(S, p, q, x)
    PROVE  /\ \A i : Has(p, i) <=> Has(q, i) \/ i = x
           /\ \A i, j : /\ Before(q, i, j) => Before(p, i, j) /\ Has(q, i) /\ Has(q, j)
                        /\ i # x /\ j # x => (Before(p, i, j) <=> Before(q, i, j))
           /\ Has(q, x) => Before(p, x, x)
<1>1. PICK a \in Seq(S), b \in Seq(S) : p = (a \o <<x>>) \o b /\ q = a \o b
  BY DEF Leaves, Cat
<1>2. <<x>> \in Seq(S) /\ a \o <<x>> \in Seq(S)
  OBVIOUS
<1>3. \A k : /\ Has(p, k) <=> Has(a, k) \/ k = x \/ Has(b, k)
             /\ Has(q, k) <=> Has(a, k) \/ Has(b, k)
  <2> SUFFICES ASSUME NEW k
               PROVE  /\ Has(p, k) <=> Has(a, k) \/ k = x \/ Has(b, k)
                      /\ Has(q, k) <=> Has(a, k) \/ Has(b, k)
    OBVIOUS
  <2>1. Has(p, k) <=> Has(a \o <<x>>, k) \/ Has(b, k)
    BY <1>1, <1>2, HasConcat
  <2>2. Has(a \o <<x>>, k) <=> Has(a, k) \/ k = x
    BY HasLast
  <2>3. Has(q, k) <=> Has(a, k) \/ Has(b, k)
    BY <1>1, HasConcat
  <2> QED
    BY <2>1, <2>2, <2>3
<1>4. \A k, l : /\ Before(p, k, l) <=> \/ Before(a, k, l) \/ Before(b, k, l)
                                       \/ Has(a, k) /\ (l = x \/ Has(b, l))
                                       \/ k = x /\ Has(b, l)
                /\ Before(q, k, l) <=> \/ Before(a, k, l) \/ Before(b, k, l)
                                       \/ Has(a, k) /\ Has(b, l)
  <2> SUFFICES ASSUME NEW k, NEW l
               PROVE  /\ Before(p, k, l) <=> \/ Before(a, k, l) \/ Before(b, k, l)
                                             \/ Has(a, k) /\ (l = x \/ Has(b, l))
                                             \/ k = x /\ Has(b, l)
                      /\ Before(q, k, l) <=> \/ Before(a, k, l) \/ Before(b, k, l)
                                             \/ Has(a, k) /\ Has(b, l)
    OBVIOUS
  <2>1. Before(p, k, l) <=> \/ Before(a \o <<x>>, k, l) \/ Before(b, k, l)
                            \/ Has(a \o <<x>>, k) /\ Has(b, l)
    BY <1>1, <1>2, BeforeConcat
  <2>2. Before(a \o <<x>>, k, l) <=> Before(a, k, l) \/ (Has(a, k) /\ l = x)
    BY LastIsLast
  <2>3. Has(a \o <<x>>, k) <=> Has(a, k) \/ k = x
    BY HasLast
  <2>4. Before(q, k, l) <=> Before(a, k, l) \/ Before(b, k, l) \/ (Has(a, k) /\ Has(b, l))
    BY <1>1, BeforeConcat
  <2> QED
    BY <2>1, <2>2, <2>3, <2>4
<1>5. \A s, k, l : Before(s, k, l) => Has(s, k) /\ Has(s, l)
  BY DEF Before, Has
<1> QED
  BY <1>3, <1>4, <1>5

-----------------------------------------------------------------------------

\* Membership in what the abstract specification is told.
LEMMA ListedIs ==
    ASSUME NEW q
    PROVE  /\ \A i : i \in Listed(q) <=> i \in HostIds /\ Has(q, i)
           /\ \A i, j : <<i, j>> \in InOrder(q) <=> i \in HostIds /\ j \in HostIds /\ Before(q, i, j)
<1>1. \A k : k \in Listed(q) <=> k \in HostIds /\ Has(q, k)
  BY DEF Listed, Has
<1>2. \A i, j : Before(q, i, j) => Has(q, i) /\ Has(q, j)
  BY DEF Before, Has
<1>3. \A i, j : <<i, j>> \in InOrder(q) <=> i \in Listed(q) /\ j \in Listed(q) /\ Before(q, i, j)
  BY DEF InOrder, Before
<1> QED
  BY <1>1, <1>2, <1>3

\* The order is one of pairs.
LEMMA InOrderPairs ==
    ASSUME NEW q, NEW r \in InOrder(q)
    PROVE  r = <<r[1], r[2]>>
  BY DEF InOrder

\* What is no echo comes and goes unseen.
LEMMA FillerLeaves ==
    ASSUME NEW S, NEW p, NEW q, NEW x \in S, x \notin HostIds, Leaves(S, p, q, x)
    PROVE  Listed(q) = Listed(p) /\ InOrder(q) = InOrder(p)
<1>1. \A i : i \in Listed(q) <=> i \in Listed(p)
  BY LeavesOrder, ListedIs
<1>2. ASSUME NEW i, NEW j PROVE <<i, j>> \in InOrder(q) <=> <<i, j>> \in InOrder(p)
  <2>1. /\ <<i, j>> \in InOrder(q) <=> i \in HostIds /\ j \in HostIds /\ Before(q, i, j)
        /\ <<i, j>> \in InOrder(p) <=> i \in HostIds /\ j \in HostIds /\ Before(p, i, j)
    BY ListedIs
  <2>2. i # x /\ j # x => (Before(p, i, j) <=> Before(q, i, j))
    BY LeavesOrder
  <2> QED
    BY <2>1, <2>2
<1>3. \A r : r \in InOrder(q) <=> r \in InOrder(p)
  BY <1>2, InOrderPairs
<1> QED
  BY <1>1, <1>3

\* An echo_id that is on its way once leaves.
LEMMA EchoIdLeaves ==
    ASSUME NEW S, NEW p, NEW q, NEW x \in S, x \in HostIds, Leaves(S, p, q, x),
           <<x, x>> \notin InOrder(p)
    PROVE  /\ x \in Listed(p)
           /\ Listed(q) = Listed(p) \ {x}
           /\ InOrder(q) = {r \in InOrder(p) : x # r[1] /\ x # r[2]}
<1>1. ~Has(q, x)
  BY LeavesOrder, ListedIs
<1>2. \A i : i \in Listed(q) <=> i \in Listed(p) /\ i # x
  BY <1>1, LeavesOrder, ListedIs
<1>3. x \in Listed(p)
  BY LeavesOrder, ListedIs
<1>4. ASSUME NEW i, NEW j
      PROVE  <<i, j>> \in InOrder(q) <=> <<i, j>> \in InOrder(p) /\ x # i /\ x # j
  <2>1. /\ <<i, j>> \in InOrder(q) <=> i \in HostIds /\ j \in HostIds /\ Before(q, i, j)
        /\ <<i, j>> \in InOrder(p) <=> i \in HostIds /\ j \in HostIds /\ Before(p, i, j)
    BY ListedIs
  <2>2. /\ i # x /\ j # x => (Before(p, i, j) <=> Before(q, i, j))
        /\ Before(q, i, j) => Has(q, i) /\ Has(q, j)
    BY LeavesOrder
  <2> QED
    BY <1>1, <2>1, <2>2
<1>5. \A r : r \in InOrder(q) <=> r \in InOrder(p) /\ x # r[1] /\ x # r[2]
  BY <1>4, InOrderPairs
<1> QED
  BY <1>2, <1>3, <1>5

\* An echo_id joins at the end.
LEMMA EchoIdJoins ==
    ASSUME NEW S, NEW p \in Seq(S), NEW x \in S, x \in HostIds
    PROVE  /\ Listed(p \o <<x>>) = Listed(p) \cup {x}
           /\ InOrder(p \o <<x>>) = InOrder(p) \cup {<<j, x>> : j \in Listed(p)}
<1>1. \A i : i \in Listed(p \o <<x>>) <=> i \in Listed(p) \/ i = x
  BY HasLast, ListedIs
<1>2. ASSUME NEW i, NEW j
      PROVE  <<i, j>> \in InOrder(p \o <<x>>)
               <=> <<i, j>> \in InOrder(p) \/ (i \in Listed(p) /\ j = x)
  <2>1. Before(p \o <<x>>, i, j) <=> Before(p, i, j) \/ (Has(p, i) /\ j = x)
    BY LastIsLast
  <2> QED
    BY <2>1, ListedIs
<1>3. \A r : r \in InOrder(p \o <<x>>) <=> r \in InOrder(p) \/ \E i \in Listed(p) : r = <<i, x>>
  BY <1>2, InOrderPairs
<1> QED
  BY <1>1, <1>3

-----------------------------------------------------------------------------
(* The pipeline and its parts.                                              *)

PipelineIds == HostIds \cup {GS_HOST_FRAME_ECHO_ID_RX}

CmdId(c) == IF c.op = "Transmit" THEN c.req.echo_id ELSE GS_HOST_FRAME_ECHO_ID_RX

CmdIds(q) == [i \in DOMAIN q |-> CmdId(q[i])]

\* The pipeline is the four parts in a row.
LEMMA EchoPipelineIs ==
    /\ EchoPipeline = Cat(Cat(Cat(EchoIds(ep_in), EchoIds(usb_echo)), EchoIds(tx_req)),
                          CmdIds(can_cmd))
    /\ EchoPipeline' = Cat(Cat(Cat(EchoIds(ep_in'), EchoIds(usb_echo')), EchoIds(tx_req')),
                           CmdIds(can_cmd'))
  BY DEF EchoPipeline, CmdIds, CmdId, Cat

\* The id of no echo is none of the host's.
LEMMA FillerIsNoId == GS_HOST_FRAME_ECHO_ID_RX \notin HostIds
  BY EchoIdsAssumption DEF HostIds

\* The ids of frames and of requests.
LEMMA IdTypes ==
    /\ \A h \in HostFrames : h.echo_id \in PipelineIds /\ (IsEcho(h) <=> h.echo_id \in HostIds)
    /\ \A r \in Requests : r.echo_id \in HostIds
<1>1. ASSUME NEW h \in HostFrames
      PROVE  h.echo_id \in PipelineIds /\ (IsEcho(h) <=> h.echo_id \in HostIds)
  BY HostReads, FillerIsNoId DEF IsEcho, PipelineIds, HostIds
<1>2. \A r \in Requests : r.echo_id \in HostIds
  BY DEF Requests, ParseTxMsg, HostIds
<1> QED
  BY <1>1, <1>2

\* The id of a command.
LEMMA CmdIdType ==
    ASSUME NEW c \in CanDriverCmd
    PROVE  /\ CmdId(c) \in PipelineIds
           /\ c.op = "Transmit" <=> CmdId(c) \in HostIds
<1>1. c.op = "Transmit" => c.req \in Requests
  BY DEF CanDriverCmd, StartCmd, StopCmd, SetBitTimingCmd, TransmitCmd, Requests
<1> QED
  BY <1>1, IdTypes, FillerIsNoId DEF CmdId, PipelineIds

\* Every part is a sequence of ids.
LEMMA PartTypes ==
    /\ \A q \in Seq(HostFrames) : EchoIds(q) \in Seq(PipelineIds)
    /\ \A q \in Seq(Requests) : EchoIds(q) \in Seq(PipelineIds)
    /\ \A q \in Seq(CanDriverCmd) : CmdIds(q) \in Seq(PipelineIds)
<1>1. ASSUME NEW q \in Seq(HostFrames) PROVE EchoIds(q) \in Seq(PipelineIds)
  <2>1. \A i \in 1..Len(q) : q[i].echo_id \in PipelineIds
    BY IdTypes
  <2> QED
    BY <2>1 DEF EchoIds
<1>2. ASSUME NEW q \in Seq(Requests) PROVE EchoIds(q) \in Seq(PipelineIds)
  <2>1. \A i \in 1..Len(q) : q[i].echo_id \in PipelineIds
    BY IdTypes DEF PipelineIds
  <2> QED
    BY <2>1 DEF EchoIds
<1>3. ASSUME NEW q \in Seq(CanDriverCmd) PROVE CmdIds(q) \in Seq(PipelineIds)
  <2>1. ASSUME NEW i \in 1..Len(q) PROVE CmdId(q[i]) \in PipelineIds
    <3>1. q[i] \in CanDriverCmd
      BY <2>1
    <3> QED
      BY <3>1, CmdIdType
  <2> QED
    BY <2>1 DEF CmdIds
<1> QED
  BY <1>1, <1>2, <1>3

\* None, and one.
LEMMA IdsOfFew ==
    /\ EchoIds(<<>>) = <<>>
    /\ \A h : EchoIds(<<h>>) = <<h.echo_id>>
  BY DEF EchoIds

\* The ids of a queue to which a message is added.
LEMMA EchoIdsAppend ==
    ASSUME NEW S, NEW q \in Seq(S), NEW x \in S
    PROVE  EchoIds(Append(q, x)) = Cat(EchoIds(q), <<x.echo_id>>)
<1> DEFINE p == EchoIds(Append(q, x))
           r == EchoIds(q) \o <<x.echo_id>>
<1>1. /\ DOMAIN Append(q, x) = 1..Len(q) + 1 /\ DOMAIN q = 1..Len(q) /\ Len(q) \in Nat
      /\ \A i \in 1..Len(q) : Append(q, x)[i] = q[i]
      /\ Append(q, x)[Len(q) + 1] = x
  OBVIOUS
<1>2. /\ DOMAIN p = 1..Len(q) + 1
      /\ \A i \in 1..Len(q) : p[i] = q[i].echo_id
      /\ p[Len(q) + 1] = x.echo_id
      /\ p = [i \in DOMAIN p |-> p[i]]
  BY <1>1 DEF EchoIds
<1>3. /\ DOMAIN r = 1..Len(q) + 1
      /\ \A i \in 1..Len(q) : r[i] = q[i].echo_id
      /\ r[Len(q) + 1] = x.echo_id
      /\ r = [i \in DOMAIN r |-> r[i]]
  BY <1>1 DEF EchoIds
<1>4. \A i \in 1..Len(q) + 1 : i \in 1..Len(q) \/ i = Len(q) + 1
  BY <1>1
<1> HIDE DEF p, r
<1>5. \A i \in 1..Len(q) + 1 : p[i] = r[i]
  BY <1>2, <1>3, <1>4
<1>6. p = r
  BY <1>2, <1>3, <1>5
<1> QED
  BY <1>6 DEF p, r, Cat

\* The ids of a queue from which one is taken.
LEMMA EchoIdsTaken ==
    ASSUME NEW S, NEW q \in Seq(S), q # <<>>
    PROVE  EchoIds(q) = Cat(<<Head(q).echo_id>>, EchoIds(Tail(q)))
<1> DEFINE p == EchoIds(q)
           r == <<Head(q).echo_id>> \o EchoIds(Tail(q))
<1>1. /\ DOMAIN q = 1..Len(q) /\ DOMAIN Tail(q) = 1..Len(q) - 1 /\ Len(q) \in Nat \ {0}
      /\ \A i \in 1..Len(q) - 1 : Tail(q)[i] = q[i + 1]
      /\ Head(q) = q[1]
  BY TailIndices
<1>2. p = [i \in 1..Len(q) |-> q[i].echo_id]
  BY <1>1 DEF EchoIds
<1>3. /\ DOMAIN r = 1..Len(q)
      /\ r[1] = q[1].echo_id
      /\ \A i \in 1..Len(q) - 1 : r[i + 1] = q[i + 1].echo_id
      /\ r = [i \in DOMAIN r |-> r[i]]
  BY <1>1 DEF EchoIds
<1>4. \A i \in 1..Len(q) : i = 1 \/ (i - 1 \in 1..Len(q) - 1 /\ (i - 1) + 1 = i)
  BY <1>1
<1> HIDE DEF p, r
<1>5. \A i \in 1..Len(q) : r[i] = q[i].echo_id
  BY <1>3, <1>4
<1>6. p = r
  BY <1>2, <1>3, <1>5
<1> QED
  BY <1>6 DEF p, r, Cat

\* The ids of a queue to which a message is added.
LEMMA CmdIdsAppend ==
    ASSUME NEW S, NEW q \in Seq(S), NEW x \in S
    PROVE  CmdIds(Append(q, x)) = Cat(CmdIds(q), <<CmdId(x)>>)
<1> DEFINE p == CmdIds(Append(q, x))
           r == CmdIds(q) \o <<CmdId(x)>>
<1>1. /\ DOMAIN Append(q, x) = 1..Len(q) + 1 /\ DOMAIN q = 1..Len(q) /\ Len(q) \in Nat
      /\ \A i \in 1..Len(q) : Append(q, x)[i] = q[i]
      /\ Append(q, x)[Len(q) + 1] = x
  OBVIOUS
<1>2. /\ DOMAIN p = 1..Len(q) + 1
      /\ \A i \in 1..Len(q) : p[i] = CmdId(q[i])
      /\ p[Len(q) + 1] = CmdId(x)
      /\ p = [i \in DOMAIN p |-> p[i]]
  BY <1>1 DEF CmdIds
<1>3. /\ DOMAIN r = 1..Len(q) + 1
      /\ \A i \in 1..Len(q) : r[i] = CmdId(q[i])
      /\ r[Len(q) + 1] = CmdId(x)
      /\ r = [i \in DOMAIN r |-> r[i]]
  BY <1>1 DEF CmdIds
<1>4. \A i \in 1..Len(q) + 1 : i \in 1..Len(q) \/ i = Len(q) + 1
  BY <1>1
<1> HIDE DEF p, r
<1>5. \A i \in 1..Len(q) + 1 : p[i] = r[i]
  BY <1>2, <1>3, <1>4
<1>6. p = r
  BY <1>2, <1>3, <1>5
<1> QED
  BY <1>6 DEF p, r, Cat

\* The ids of a queue from which one is taken.
LEMMA CmdIdsTaken ==
    ASSUME NEW S, NEW q \in Seq(S), q # <<>>
    PROVE  CmdIds(q) = Cat(<<CmdId(Head(q))>>, CmdIds(Tail(q)))
<1> DEFINE p == CmdIds(q)
           r == <<CmdId(Head(q))>> \o CmdIds(Tail(q))
<1>1. /\ DOMAIN q = 1..Len(q) /\ DOMAIN Tail(q) = 1..Len(q) - 1 /\ Len(q) \in Nat \ {0}
      /\ \A i \in 1..Len(q) - 1 : Tail(q)[i] = q[i + 1]
      /\ Head(q) = q[1]
  BY TailIndices
<1>2. p = [i \in 1..Len(q) |-> CmdId(q[i])]
  BY <1>1 DEF CmdIds
<1>3. /\ DOMAIN r = 1..Len(q)
      /\ r[1] = CmdId(q[1])
      /\ \A i \in 1..Len(q) - 1 : r[i + 1] = CmdId(q[i + 1])
      /\ r = [i \in DOMAIN r |-> r[i]]
  BY <1>1 DEF CmdIds
<1>4. \A i \in 1..Len(q) : i = 1 \/ (i - 1 \in 1..Len(q) - 1 /\ (i - 1) + 1 = i)
  BY <1>1
<1> HIDE DEF p, r
<1>5. \A i \in 1..Len(q) : r[i] = CmdId(q[i])
  BY <1>3, <1>4
<1>6. p = r
  BY <1>2, <1>3, <1>5
<1> QED
  BY <1>6 DEF p, r, Cat

-----------------------------------------------------------------------------
(* What a step does to the pipeline.                                        *)

\* The pipeline when x is the first or the last of a part.
LEMMA Parts ==
    ASSUME NEW S, NEW a \in Seq(S), NEW b \in Seq(S), NEW d \in Seq(S), NEW c \in Seq(S), NEW x \in S
    PROVE  /\ Leaves(S, Cat(Cat(Cat(a, b), d), Cat(<<x>>, c)), Cat(Cat(Cat(a, b), d), c), x)
           /\ Leaves(S, Cat(Cat(Cat(a, Cat(b, <<x>>)), d), c), Cat(Cat(Cat(a, b), d), c), x)
           /\ Leaves(S, Cat(Cat(Cat(a, b), <<x>>), c), Cat(Cat(Cat(a, b), <<>>), c), x)
           /\ Leaves(S, Cat(Cat(Cat(<<x>>, b), d), c), Cat(Cat(Cat(<<>>, b), d), c), x)
           /\ Cat(Cat(Cat(a, b), d), Cat(c, <<x>>)) = Cat(Cat(Cat(Cat(a, b), d), c), <<x>>)
           /\ Cat(Cat(Cat(a, Cat(b, <<x>>)), <<>>), c) = Cat(Cat(Cat(a, b), <<x>>), c)
           /\ Cat(Cat(Cat(a, b), <<>>), Cat(<<x>>, c)) = Cat(Cat(Cat(a, b), <<x>>), c)
           /\ Cat(<<>>, Cat(<<x>>, b)) = Cat(<<x>>, b)
           /\ Cat(Cat(Cat(<<x>>, b), d), c) = Cat(<<x>>, Cat(Cat(b, d), c))
<1> DEFINE ab == Cat(a, b)
           e == <<x>>
           nil == <<>>
<1>1. /\ e \in Seq(S) /\ nil \in Seq(S) /\ ab \in Seq(S)
      /\ \A p, q \in Seq(S) : Cat(p, q) \in Seq(S)
      /\ \A p, q, r \in Seq(S) : Cat(Cat(p, q), r) = Cat(p, Cat(q, r))
      /\ \A p \in Seq(S) : Cat(p, nil) = p /\ Cat(nil, p) = p
  BY CatLaws
<1>2. \A p, q \in Seq(S) : Leaves(S, Cat(Cat(p, e), q), Cat(p, q), x)
  BY DEF Leaves
<1> HIDE DEF e, nil
<1>3. Cat(a, Cat(b, e)) = Cat(ab, e)
  BY <1>1 DEF ab
<1> HIDE DEF ab
<1>4. Leaves(S, Cat(Cat(ab, d), Cat(e, c)), Cat(Cat(ab, d), c), x)
  <2>1. Cat(Cat(ab, d), Cat(e, c)) = Cat(Cat(Cat(ab, d), e), c)
    BY <1>1
  <2> QED
    BY <1>1, <1>2, <2>1
<1>5. Leaves(S, Cat(Cat(Cat(ab, e), d), c), Cat(Cat(ab, d), c), x)
  <2>1. Cat(Cat(Cat(ab, e), d), c) = Cat(Cat(ab, e), Cat(d, c))
    BY <1>1
  <2>2. Cat(Cat(ab, d), c) = Cat(ab, Cat(d, c))
    BY <1>1
  <2> QED
    BY <1>1, <1>2, <2>1, <2>2
<1>6. Leaves(S, Cat(Cat(ab, e), c), Cat(Cat(ab, nil), c), x)
  BY <1>1, <1>2
<1>7. Leaves(S, Cat(Cat(Cat(e, b), d), c), Cat(Cat(Cat(nil, b), d), c), x)
  <2>1. Cat(Cat(Cat(e, b), d), c) = Cat(e, Cat(Cat(b, d), c))
    BY <1>1
  <2>2. Cat(nil, e) = e /\ Cat(nil, b) = b /\ Cat(nil, Cat(Cat(b, d), c)) = Cat(Cat(b, d), c)
    BY <1>1
  <2> QED
    BY <1>1, <1>2, <2>1, <2>2
<1>8. Cat(Cat(ab, d), Cat(c, e)) = Cat(Cat(Cat(ab, d), c), e)
  BY <1>1
<1>9. /\ Cat(Cat(Cat(ab, e), nil), c) = Cat(Cat(ab, e), c)
      /\ Cat(Cat(ab, nil), Cat(e, c)) = Cat(Cat(ab, e), c)
      /\ Cat(nil, Cat(e, b)) = Cat(e, b)
  BY <1>1
<1>10. Cat(Cat(Cat(e, b), d), c) = Cat(e, Cat(Cat(b, d), c))
  BY <1>1
<1> QED
  BY <1>3, <1>4, <1>5, <1>6, <1>7, <1>8, <1>9, <1>10 DEF ab, e, nil

\* The parts are sequences of ids.
LEMMA PartsAre ==
    ASSUME LinkTypeOK
    PROVE  /\ ep_in \in Seq(HostFrames) /\ usb_echo \in Seq(HostFrames)
           /\ tx_req \in Seq(Requests) /\ can_cmd \in Seq(CanDriverCmd)
           /\ EchoIds(ep_in) \in Seq(PipelineIds) /\ EchoIds(usb_echo) \in Seq(PipelineIds)
           /\ EchoIds(tx_req) \in Seq(PipelineIds) /\ CmdIds(can_cmd) \in Seq(PipelineIds)
           /\ EchoPipeline \in Seq(PipelineIds)
<1>1. /\ ep_in \in Seq(HostFrames) /\ usb_echo \in Seq(HostFrames)
      /\ tx_req \in Seq(Requests) /\ can_cmd \in Seq(CanDriverCmd)
  BY DEF LinkTypeOK, TypeOK, HostFrames
<1>2. /\ EchoIds(ep_in) \in Seq(PipelineIds) /\ EchoIds(usb_echo) \in Seq(PipelineIds)
      /\ EchoIds(tx_req) \in Seq(PipelineIds) /\ CmdIds(can_cmd) \in Seq(PipelineIds)
  BY <1>1, PartTypes
<1>3. EchoPipeline \in Seq(PipelineIds)
  BY <1>2, EchoPipelineIs, CatLaws
<1> QED
  BY <1>1, <1>2, <1>3

\* Nothing moves, one id leaves, or what is no id of the host joins.
Moves ==
    \/ EchoPipeline' = EchoPipeline
    \/ \E x \in PipelineIds : Leaves(PipelineIds, EchoPipeline, EchoPipeline', x)
    \/ \E x \in PipelineIds \ HostIds : Leaves(PipelineIds, EchoPipeline', EchoPipeline, x)

\* A command is received and dropped, or was no transmission.
LEMMA CmdGoes ==
    ASSUME LinkTypeOK, can_cmd # <<>>, can_cmd' = Tail(can_cmd),
           UNCHANGED <<ep_in, usb_echo, tx_req>>
    PROVE  Moves
<1> DEFINE x == CmdId(Head(can_cmd))
           c == CmdIds(Tail(can_cmd))
<1>1. Head(can_cmd) \in CanDriverCmd /\ Tail(can_cmd) \in Seq(CanDriverCmd)
  BY ReceiveType, PartsAre
<1>2. x \in PipelineIds /\ c \in Seq(PipelineIds)
  BY <1>1, CmdIdType, PartTypes
<1>3. CmdIds(can_cmd) = Cat(<<x>>, c) /\ CmdIds(can_cmd') = c
  BY CmdIdsTaken, PartsAre
<1> HIDE DEF x, c
<1>4. Leaves(PipelineIds, EchoPipeline, EchoPipeline', x)
  BY <1>2, <1>3, PartsAre, Parts, EchoPipelineIs
<1> QED
  BY <1>2, <1>4 DEF Moves

\* An echo joins its queue behind nothing that is waiting, or is refused.
LEMMA EchoOfFirst ==
    ASSUME LinkTypeOK, NEW req \in Requests, Echo(req), ep_in' = ep_in, tx_req' = <<>>,
           EchoPipeline = Cat(Cat(Cat(EchoIds(ep_in), EchoIds(usb_echo)), <<req.echo_id>>),
                              CmdIds(can_cmd')),
           can_cmd' \in Seq(CanDriverCmd)
    PROVE  Moves
<1> DEFINE x == req.echo_id
           c == CmdIds(can_cmd')
           h == FromTxMsgEcho(req)
<1>1. x \in PipelineIds /\ c \in Seq(PipelineIds) /\ h.echo_id = x /\ h \in HostFrames
  BY IdTypes, PartTypes DEF PipelineIds, FromTxMsgEcho, HostFrames, EchoFrames
<1>2. CASE IsFull(usb_echo, EchoCap)
  <2>1. usb_echo' = usb_echo
    BY <1>2 DEF Echo, TrySend
  <2>2. EchoPipeline' = Cat(Cat(Cat(EchoIds(ep_in), EchoIds(usb_echo)), <<>>), c)
    BY <2>1, EchoPipelineIs, IdsOfFew
  <2> HIDE DEF x, c
  <2>3. EchoPipeline = Cat(Cat(Cat(EchoIds(ep_in), EchoIds(usb_echo)), <<x>>), c)
    BY DEF x, c
  <2>4. Leaves(PipelineIds, EchoPipeline, EchoPipeline', x)
    BY <1>1, <2>2, <2>3, PartsAre, Parts
  <2> QED
    BY <1>1, <2>4 DEF Moves
<1>3. CASE ~IsFull(usb_echo, EchoCap)
  <2>1. usb_echo' = Append(usb_echo, h)
    BY <1>3 DEF Echo, TrySend
  <2>2. EchoIds(usb_echo') = Cat(EchoIds(usb_echo), <<x>>)
    BY <1>1, <2>1, EchoIdsAppend, PartsAre
  <2>3. EchoPipeline' = Cat(Cat(Cat(EchoIds(ep_in), Cat(EchoIds(usb_echo), <<x>>)), <<>>), c)
    BY <2>2, EchoPipelineIs, IdsOfFew
  <2> HIDE DEF x, c
  <2>4. EchoPipeline = Cat(Cat(Cat(EchoIds(ep_in), EchoIds(usb_echo)), <<x>>), c)
    BY DEF x, c
  <2>5. EchoPipeline' = EchoPipeline
    BY <1>1, <2>3, <2>4, PartsAre, Parts
  <2> QED
    BY <2>5 DEF Moves
<1> QED
  BY <1>2, <1>3

\* The head of the queue is a transmission and nothing is being written: it is the first
\* request behind the echoes.
LEMMA TransmitIsFirst ==
    ASSUME LinkTypeOK, PcInv, Receives("Transmit")
    PROVE  /\ Head(can_cmd).req \in Requests
           /\ can_cmd' \in Seq(CanDriverCmd)
           /\ EchoPipeline = Cat(Cat(Cat(EchoIds(ep_in), EchoIds(usb_echo)),
                                     <<Head(can_cmd).req.echo_id>>), CmdIds(can_cmd'))
<1> DEFINE x == CmdId(Head(can_cmd))
           c == CmdIds(can_cmd')
<1>1. /\ can_cmd # <<>> /\ can_cmd' = Tail(can_cmd) /\ Head(can_cmd).op = "Transmit"
      /\ tx_req = <<>>
  BY DEF Receives, PcInv
<1>2. Head(can_cmd).req \in Requests
  BY TransmitHead DEF LinkTypeOK, Requests
<1>3. can_cmd' \in Seq(CanDriverCmd)
  BY <1>1, ReceiveType, PartsAre
<1>4. x = Head(can_cmd).req.echo_id /\ x \in PipelineIds /\ c \in Seq(PipelineIds)
  BY <1>1, <1>2, <1>3, IdTypes, PartTypes DEF CmdId, PipelineIds
<1>5. CmdIds(can_cmd) = Cat(<<x>>, c)
  BY <1>1, CmdIdsTaken, PartsAre
<1>6. EchoPipeline = Cat(Cat(Cat(EchoIds(ep_in), EchoIds(usb_echo)), <<>>), Cat(<<x>>, c))
  BY <1>1, <1>5, EchoPipelineIs, IdsOfFew
<1> HIDE DEF x, c
<1>7. EchoPipeline = Cat(Cat(Cat(EchoIds(ep_in), EchoIds(usb_echo)), <<x>>), c)
  BY <1>4, <1>6, PartsAre, Parts
<1> QED
  BY <1>2, <1>3, <1>4, <1>7 DEF c

\* A write that waits keeps its place; when it ends its request is echoed or dropped.
LEMMA WriteMoves ==
    ASSUME LinkTypeOK, PcInv, ep_in' = ep_in,
           TransmitAtOnce \/ TransmitWaits \/ WriteDone \/ WriteTimeout
    PROVE  Moves
<1>1. CASE TransmitAtOnce
  <2>1. tx_req' = <<>>
    BY <1>1 DEF TransmitAtOnce, Receives, PcInv
  <2> QED
    BY <1>1, <2>1, TransmitIsFirst, EchoOfFirst DEF TransmitAtOnce
<1>2. CASE TransmitWaits
  <2>1. tx_req' = <<Head(can_cmd).req>> /\ usb_echo' = usb_echo
    BY <1>2 DEF TransmitWaits
  <2>2. EchoIds(tx_req') = <<Head(can_cmd).req.echo_id>>
    BY <2>1, IdsOfFew
  <2>3. EchoPipeline' = EchoPipeline
    BY <1>2, <2>1, <2>2, TransmitIsFirst, EchoPipelineIs DEF TransmitWaits
  <2> QED
    BY <2>3 DEF Moves
<1>3. ASSUME tx_req # <<>>
      PROVE  /\ Head(tx_req) \in Requests
             /\ EchoPipeline = Cat(Cat(Cat(EchoIds(ep_in), EchoIds(usb_echo)),
                                       <<Head(tx_req).echo_id>>), CmdIds(can_cmd))
  <2>1. Head(tx_req) \in Requests /\ tx_req = <<Head(tx_req)>>
    BY <1>3, OneElement DEF LinkTypeOK, TypeOK
  <2>2. EchoIds(tx_req) = <<Head(tx_req).echo_id>>
    BY <2>1, IdsOfFew
  <2> QED
    BY <2>1, <2>2, EchoPipelineIs
<1>4. CASE WriteDone
  <2>1. tx_req # <<>> /\ tx_req' = <<>> /\ can_cmd' = can_cmd /\ Echo(Head(tx_req))
    BY <1>4 DEF WriteDone, PcInv
  <2>2. can_cmd' \in Seq(CanDriverCmd)
    BY <2>1, PartsAre
  <2> QED
    BY <1>3, <2>1, <2>2, EchoOfFirst
<1>5. CASE WriteTimeout
  <2>1. tx_req # <<>> /\ tx_req' = <<>> /\ can_cmd' = can_cmd /\ usb_echo' = usb_echo
    BY <1>5 DEF WriteTimeout, PcInv
  <2> DEFINE x == Head(tx_req).echo_id
  <2>2. x \in PipelineIds
    BY <1>3, <2>1, IdTypes DEF PipelineIds
  <2>3. EchoPipeline' = Cat(Cat(Cat(EchoIds(ep_in), EchoIds(usb_echo)), <<>>), CmdIds(can_cmd))
    BY <2>1, EchoPipelineIs, IdsOfFew
  <2>4. Leaves(PipelineIds, EchoPipeline, EchoPipeline', x)
    BY <1>3, <2>1, <2>2, <2>3, PartsAre, Parts
  <2> QED
    BY <2>2, <2>4 DEF Moves
<1> QED
  BY <1>1, <1>2, <1>4, <1>5

\* An error frame joins the echoes, or is refused.
LEMMA ErrorMoves ==
    ASSUME LinkTypeOK, NEW h \in {FromBusError(e) : e \in BusErrors} \cup {BusOffFrame},
           usb_echo' = TrySend(usb_echo, EchoCap, h), UNCHANGED <<ep_in, tx_req, can_cmd>>
    PROVE  Moves
<1> DEFINE x == h.echo_id
<1>1. h \in HostFrames /\ x \in PipelineIds \ HostIds
  <2>1. h \in HostFrames /\ ~IsEcho(h)
    BY ErrorFrames DEF HostFrames, EchoFrames
  <2> QED
    BY <2>1, IdTypes
<1>2. CASE usb_echo' = usb_echo
  BY <1>2, EchoPipelineIs DEF Moves
<1>3. CASE usb_echo' = Append(usb_echo, h)
  <2>1. EchoIds(usb_echo') = Cat(EchoIds(usb_echo), <<x>>)
    BY <1>1, <1>3, EchoIdsAppend, PartsAre
  <2>2. EchoPipeline' = Cat(Cat(Cat(EchoIds(ep_in), Cat(EchoIds(usb_echo), <<x>>)),
                                EchoIds(tx_req)), CmdIds(can_cmd))
    BY <2>1, EchoPipelineIs
  <2> HIDE DEF x
  <2>3. x \in PipelineIds
    BY <1>1
  <2>4. Leaves(PipelineIds,
               Cat(Cat(Cat(EchoIds(ep_in), Cat(EchoIds(usb_echo), <<x>>)), EchoIds(tx_req)),
                   CmdIds(can_cmd)),
               Cat(Cat(Cat(EchoIds(ep_in), EchoIds(usb_echo)), EchoIds(tx_req)),
                   CmdIds(can_cmd)), x)
    BY <2>3, PartsAre, Parts
  <2>5. Leaves(PipelineIds, EchoPipeline', EchoPipeline, x)
    BY <2>2, <2>4, EchoPipelineIs
  <2> QED
    BY <1>1, <2>5 DEF Moves
<1> QED
  BY <1>2, <1>3 DEF TrySend

\* A step of the driver or of the bus.
LEMMA DriverKeepsOrder ==
    ASSUME LinkTypeOK, PcInv, TaskStep \/ ReadStep \/ BusStep, ep_in' = ep_in
    PROVE  Moves
<1>1. ASSUME UNCHANGED <<ep_in, usb_echo, tx_req, can_cmd>> PROVE Moves
  BY <1>1, EchoPipelineIs DEF Moves
<1>2. CASE Start \/ Stop \/ ApplyBitTiming \/ IgnoreWhenStopped
  <2>1. can_cmd # <<>> /\ can_cmd' = Tail(can_cmd) /\ UNCHANGED <<usb_echo, tx_req>>
    BY <1>2 DEF Start, Stop, ApplyBitTiming, IgnoreWhenStopped, Receives
  <2> QED
    BY <2>1, CmdGoes
<1>3. CASE EnableDone \/ RecoverDone \/ BackoffDone
  BY <1>1, <1>3 DEF EnableDone, RecoverDone, BackoffDone
<1>4. CASE TransmitAtOnce \/ TransmitWaits \/ WriteDone \/ WriteTimeout
  BY <1>4, WriteMoves
<1>5. CASE ReadStep
  <2>1. ASSUME NEW e \in BusErrors, RxError(e) PROVE Moves
    BY <2>1, ErrorMoves DEF RxError
  <2>2. CASE BusOffGiveUp
    BY <2>2, ErrorMoves DEF BusOffGiveUp
  <2> QED
    BY <1>1, <1>5, <2>1, <2>2 DEF ReadStep, RxQueued, RxOverflow, BusOffRetry
<1>6. CASE BusStep
  BY <1>1, <1>6 DEF BusStep, MailboxSent, MailboxLost, GoBusOff
<1> QED
  BY <1>2, <1>3, <1>4, <1>5, <1>6 DEF TaskStep

\* The frame at the endpoint is the first of the pipeline.
LEMMA EndpointIsFirst ==
    ASSUME LinkTypeOK, ep_in # <<>>, ep_in' = <<>>, UNCHANGED <<usb_echo, tx_req, can_cmd>>
    PROVE  /\ Head(ep_in) \in HostFrames
           /\ Head(ep_in).echo_id \in PipelineIds
           /\ \A i : ~Before(EchoPipeline, i, Head(ep_in).echo_id)
                      \/ Before(EchoPipeline, Head(ep_in).echo_id, Head(ep_in).echo_id)
           /\ Leaves(PipelineIds, EchoPipeline, EchoPipeline', Head(ep_in).echo_id)
<1> DEFINE x == Head(ep_in).echo_id
           rest == Cat(Cat(EchoIds(usb_echo), EchoIds(tx_req)), CmdIds(can_cmd))
<1>1. Head(ep_in) \in HostFrames /\ ep_in = <<Head(ep_in)>>
  BY OneElement, PartsAre DEF LinkTypeOK
<1>2. x \in PipelineIds
  BY <1>1, IdTypes
<1>3. EchoIds(ep_in) = <<x>> /\ EchoIds(ep_in') = <<>>
  BY <1>1, IdsOfFew
<1>4. Leaves(PipelineIds, EchoPipeline, EchoPipeline', x)
  <2> HIDE DEF x, rest
  <2> QED
    BY <1>2, <1>3, PartsAre, Parts, EchoPipelineIs
<1>5. EchoPipeline = <<x>> \o rest /\ rest \in Seq(PipelineIds) /\ <<x>> \in Seq(PipelineIds)
  <2>1. EchoPipeline = Cat(Cat(Cat(<<x>>, EchoIds(usb_echo)), EchoIds(tx_req)), CmdIds(can_cmd))
    BY <1>3, EchoPipelineIs
  <2> HIDE DEF x
  <2>2. <<x>> \in Seq(PipelineIds)
    BY <1>2, CatLaws
  <2>3. rest \in Seq(PipelineIds)
    BY PartsAre, CatLaws
  <2>4. EchoPipeline = Cat(<<x>>, rest)
    BY <1>2, <2>1, PartsAre, Parts
  <2> QED
    BY <2>2, <2>3, <2>4 DEF Cat
<1>6. ASSUME NEW i, Before(EchoPipeline, i, x) PROVE Before(EchoPipeline, x, x)
  <2> HIDE DEF x, rest
  <2>1. ASSUME NEW k
        PROVE  Before(EchoPipeline, k, x)
                 <=> Before(<<x>>, k, x) \/ Before(rest, k, x) \/ (Has(<<x>>, k) /\ Has(rest, x))
    BY <1>5, BeforeConcat
  <2>2. Has(rest, x)
    <3>1. ~Before(<<x>>, i, x)
      BY OneHasNoOrder
    <3>2. Before(rest, i, x) => Has(rest, x)
      BY DEF Before, Has
    <3> QED
      BY <1>6, <2>1, <3>1, <3>2
  <2>3. Has(<<x>>, x)
    BY HasOne
  <2> QED
    BY <2>1, <2>2, <2>3
<1> QED
  BY <1>1, <1>2, <1>4, <1>6

\* usb_tx_task takes a frame: an echo keeps its place and a received frame is none.
LEMMA TakeKeepsOrder ==
    ASSUME LinkTypeOK, UsbTxTakeRx \/ UsbTxTakeEcho
    PROVE  Moves
<1>1. CASE UsbTxTakeRx
  <2> DEFINE x == GS_HOST_FRAME_ECHO_ID_RX
  <2>1. /\ ep_in = <<>> /\ ep_in' = <<FromCanFrame(Head(can_rx))>>
        /\ UNCHANGED <<usb_echo, tx_req, can_cmd>>
    BY <1>1 DEF UsbTxTakeRx, TakeRx
  <2>2. EchoIds(ep_in) = <<>> /\ EchoIds(ep_in') = <<x>>
    BY <2>1, IdsOfFew DEF FromCanFrame
  <2>3. x \in PipelineIds \ HostIds
    BY FillerIsNoId DEF PipelineIds
  <2> HIDE DEF x
  <2>4. Leaves(PipelineIds, EchoPipeline', EchoPipeline, x)
    BY <2>1, <2>2, <2>3, PartsAre, Parts, EchoPipelineIs
  <2> QED
    BY <2>3, <2>4 DEF Moves
<1>2. CASE UsbTxTakeEcho
  <2> DEFINE x == Head(usb_echo).echo_id
             b == EchoIds(Tail(usb_echo))
  <2>1. /\ ep_in = <<>> /\ ep_in' = <<Head(usb_echo)>> /\ usb_echo # <<>>
        /\ usb_echo' = Tail(usb_echo) /\ UNCHANGED <<tx_req, can_cmd>>
    BY <1>2 DEF UsbTxTakeEcho, TakeEcho
  <2>2. Head(usb_echo) \in HostFrames /\ Tail(usb_echo) \in Seq(HostFrames)
    BY <2>1, PartsAre, ReceiveType
  <2>3. x \in PipelineIds /\ b \in Seq(PipelineIds)
    BY <2>2, IdTypes, PartTypes
  <2>4. EchoIds(ep_in) = <<>> /\ EchoIds(ep_in') = <<x>>
    BY <2>1, IdsOfFew
  <2>5. EchoIds(usb_echo) = Cat(<<x>>, b) /\ EchoIds(usb_echo') = b
    BY <2>1, EchoIdsTaken, PartsAre
  <2> HIDE DEF x, b
  <2>6. Cat(EchoIds(ep_in), EchoIds(usb_echo)) = Cat(EchoIds(ep_in'), EchoIds(usb_echo'))
    BY <2>3, <2>4, <2>5, Parts
  <2>7. EchoPipeline' = EchoPipeline
    BY <2>1, <2>6, EchoPipelineIs
  <2> QED
    BY <2>7 DEF Moves
<1> QED
  BY <1>1, <1>2

\* A command of the host joins at the end, or finds no room.
LEMMA CmdJoins ==
    ASSUME LinkTypeOK, NEW c \in CanDriverCmd, SendCmd(c), ep_in' = ep_in
    PROVE  \/ EchoPipeline' = EchoPipeline
           \/ EchoPipeline' = Cat(EchoPipeline, <<CmdId(c)>>)
<1> DEFINE x == CmdId(c)
<1>1. UNCHANGED <<ep_in, usb_echo, tx_req>> /\ can_cmd' = TrySend(can_cmd, CmdCap, c)
  BY DEF SendCmd
<1>2. CASE can_cmd' = can_cmd
  BY <1>1, <1>2, EchoPipelineIs
<1>3. CASE can_cmd' = Append(can_cmd, c)
  <2>1. x \in PipelineIds
    BY CmdIdType
  <2>2. CmdIds(can_cmd') = Cat(CmdIds(can_cmd), <<x>>)
    BY <1>3, CmdIdsAppend, PartsAre
  <2> HIDE DEF x
  <2>3. EchoPipeline' = Cat(EchoPipeline, <<x>>)
    BY <1>1, <2>1, <2>2, PartsAre, Parts, EchoPipelineIs
  <2> QED
    BY <2>3 DEF x
<1> QED
  BY <1>1, <1>2, <1>3 DEF TrySend

-----------------------------------------------------------------------------
(* The steps of the echo slots.                                             *)

Free == {m.echo_id : m \in TxMsgs \ submitted} \cup echoed

SlotStep == [Slots!Next]_(Slots!slotVars)

\* An echo_id is not on its way while the host may use it, nor twice.
SlotInv ==
    /\ \A i \in Listed(EchoPipeline) : i \notin Free
    /\ \A i : <<i, i>> \notin InOrder(EchoPipeline)

\* The abstract specification keeps it.
LEMMA SlotsKeep == ASSUME SlotInv, SlotStep PROVE SlotInv'
<1> DEFINE L == Listed(EchoPipeline)
           O == InOrder(EchoPipeline)
<1>1. /\ \A i \in L : i \notin Free
      /\ \A i : <<i, i>> \notin O
  BY DEF SlotInv
<1>2. SlotInv' <=> (\A i \in L' : i \notin Free') /\ (\A i : <<i, i>> \notin O')
  BY DEF SlotInv
<1>3. CASE UNCHANGED Slots!slotVars
  <2>1. Free' = Free /\ L' = L /\ O' = O
    BY <1>3 DEF Slots!slotVars, Free
  <2> QED
    BY <1>1, <1>2, <2>1
<1>4. ASSUME NEW i \in Free, Slots!Send(i) \/ Slots!Refuse(i) PROVE SlotInv'
  <2>1. \/ Free' = Free \ {i} /\ L' = L \cup {i} /\ O' = O \cup {<<j, i>> : j \in L}
        \/ Free' = Free \ {i} /\ L' = L /\ O' = O
    BY <1>4 DEF Slots!Send, Slots!Refuse, Free
  <2> HIDE DEF L, O
  <2> QED
    BY <1>1, <1>2, <1>4, <2>1
<1>5. ASSUME NEW i \in L, Slots!Lose(i) \/ Slots!Answer(i) PROVE SlotInv'
  <2>1. /\ Free' = Free \/ Free' = Free \cup {i}
        /\ L' = L \ {i} /\ O' = {p \in O : i # p[1] /\ i # p[2]}
    BY <1>5 DEF Slots!Lose, Slots!Answer, Slots!Leave, Free
  <2> HIDE DEF L, O
  <2> QED
    BY <1>1, <1>2, <1>5, <2>1
<1> QED
  BY <1>3, <1>4, <1>5 DEF SlotStep, Slots!Next, Free

\* What moves in the device is no step of the slots, or loses one echo_id.
LEMMA MovesAreSlotSteps ==
    ASSUME SlotInv, Moves, UNCHANGED <<submitted, echoed>>
    PROVE  SlotStep
<1>1. Free' = Free
  BY DEF Free
<1>2. ASSUME Listed(EchoPipeline)' = Listed(EchoPipeline), InOrder(EchoPipeline)' = InOrder(EchoPipeline)
      PROVE  SlotStep
  BY <1>1, <1>2 DEF SlotStep, Slots!slotVars, Free
<1>3. CASE EchoPipeline' = EchoPipeline
  BY <1>2, <1>3 DEF Listed, InOrder
<1>4. ASSUME NEW x \in PipelineIds, Leaves(PipelineIds, EchoPipeline, EchoPipeline', x),
             x \notin HostIds
      PROVE  SlotStep
  <2>1. Listed(EchoPipeline') = Listed(EchoPipeline) /\ InOrder(EchoPipeline') = InOrder(EchoPipeline)
    BY <1>4, FillerLeaves
  <2> QED
    BY <1>2, <2>1 DEF Listed, InOrder
<1>5. ASSUME NEW x \in PipelineIds, Leaves(PipelineIds, EchoPipeline, EchoPipeline', x),
             x \in HostIds
      PROVE  SlotStep
  <2>1. /\ x \in Listed(EchoPipeline)
        /\ Listed(EchoPipeline') = Listed(EchoPipeline) \ {x}
        /\ InOrder(EchoPipeline') = {r \in InOrder(EchoPipeline) : x # r[1] /\ x # r[2]}
    BY <1>5, EchoIdLeaves DEF SlotInv
  <2>2. Slots!Lose(x)
    BY <1>1, <2>1 DEF Slots!Lose, Slots!Leave, Free, Listed, InOrder
  <2> QED
    BY <2>1, <2>2 DEF SlotStep, Slots!Next
<1>6. ASSUME NEW x \in PipelineIds \ HostIds, Leaves(PipelineIds, EchoPipeline', EchoPipeline, x)
      PROVE  SlotStep
  <2>1. Listed(EchoPipeline') = Listed(EchoPipeline) /\ InOrder(EchoPipeline') = InOrder(EchoPipeline)
    BY <1>6, FillerLeaves
  <2> QED
    BY <1>2, <2>1 DEF Listed, InOrder
<1> QED
  BY <1>3, <1>4, <1>5, <1>6 DEF Moves

\* A frame is written: an echo answers its request, and no other request was before it.
LEMMA WrittenIsAnswer ==
    ASSUME LinkTypeOK, SlotInv, UsbTxWritten
    PROVE  SlotStep
<1> DEFINE x == Head(ep_in).echo_id
<1>1. /\ ep_in # <<>> /\ ep_in' = <<>> /\ submitted' = submitted
      /\ UNCHANGED <<usb_echo, tx_req, can_cmd>>
      /\ echoed' = IF IsEcho(Head(ep_in)) THEN echoed \cup {x} ELSE echoed
  BY DEF UsbTxWritten, vars
<1>2. /\ Head(ep_in) \in HostFrames /\ x \in PipelineIds
      /\ \A i : Before(EchoPipeline, i, x) => Before(EchoPipeline, x, x)
      /\ Leaves(PipelineIds, EchoPipeline, EchoPipeline', x)
  BY <1>1, EndpointIsFirst
<1>3. IsEcho(Head(ep_in)) <=> x \in HostIds
  BY <1>2, IdTypes
<1>4. CASE ~IsEcho(Head(ep_in))
  <2>1. Moves /\ UNCHANGED <<submitted, echoed>>
    BY <1>1, <1>2, <1>4 DEF Moves
  <2> QED
    BY <2>1, MovesAreSlotSteps
<1>5. CASE IsEcho(Head(ep_in))
  <2>1. x \in HostIds /\ <<x, x>> \notin InOrder(EchoPipeline) /\ Free' = Free \cup {x}
    BY <1>1, <1>3, <1>5 DEF SlotInv, Free
  <2> HIDE DEF x
  <2>2. /\ x \in Listed(EchoPipeline)
        /\ Listed(EchoPipeline') = Listed(EchoPipeline) \ {x}
        /\ InOrder(EchoPipeline') = {r \in InOrder(EchoPipeline) : x # r[1] /\ x # r[2]}
    BY <1>2, <2>1, EchoIdLeaves
  <2>3. \A j : <<j, x>> \notin InOrder(EchoPipeline)
    BY <1>2, <2>1, ListedIs
  <2>4. PICK i : i = x
    OBVIOUS
  <2>5. i \in Listed(EchoPipeline) /\ Slots!Answer(i)
    BY <2>1, <2>2, <2>3, <2>4 DEF Slots!Answer, Slots!Leave, Free, Listed, InOrder
  <2>6. Slots!Next
    BY <2>5 DEF Slots!Next
  <2> QED
    BY <2>6 DEF SlotStep
<1> QED
  BY <1>4, <1>5

\* A command of the host that is no transmission is no step of the slots.
LEMMA ControlIsNoSlotStep ==
    ASSUME LinkTypeOK, SlotInv, NEW c \in CanDriverCmd, c.op # "Transmit", SendCmd(c),
           UNCHANGED <<ep_in, submitted, echoed>>
    PROVE  SlotStep
<1>1. CmdId(c) \in PipelineIds \ HostIds
  BY CmdIdType
<1>2. CASE EchoPipeline' = Cat(EchoPipeline, <<CmdId(c)>>)
  <2>1. /\ EchoPipeline \in Seq(PipelineIds) /\ <<>> \in Seq(PipelineIds)
        /\ EchoPipeline = Cat(EchoPipeline, <<>>)
        /\ EchoPipeline' = Cat(Cat(EchoPipeline, <<CmdId(c)>>), <<>>)
    <3>1. EchoPipeline \in Seq(PipelineIds) /\ <<CmdId(c)>> \in Seq(PipelineIds)
      BY <1>1, PartsAre, CatLaws
    <3>2. Cat(EchoPipeline, <<CmdId(c)>>) \in Seq(PipelineIds)
      BY <3>1, CatLaws
    <3> QED
      BY <1>2, <3>1, <3>2, CatLaws
  <2>2. Leaves(PipelineIds, EchoPipeline', EchoPipeline, CmdId(c))
    BY <2>1 DEF Leaves
  <2>3. Moves
    BY <1>1, <2>2 DEF Moves
  <2> QED
    BY <2>3, MovesAreSlotSteps
<1>3. CASE EchoPipeline' = EchoPipeline
  <2>1. Moves
    BY <1>3 DEF Moves
  <2> QED
    BY <2>1, MovesAreSlotSteps
<1> QED
  BY <1>2, <1>3, CmdJoins

\* A message of the host takes its slot, and is on its way if there was room.
LEMMA RequestIsSent ==
    ASSUME LinkTypeOK, SlotInv, NEW m \in TxMsgs, UsbRx(m)
    PROVE  SlotStep
<1> DEFINE x == m.echo_id
<1>1. /\ m \in submitted => x \in echoed
      /\ submitted' = submitted \cup {m} /\ echoed' = echoed \ {x}
      /\ SendCmd(TransmitCmd(m)) /\ ep_in' = ep_in
  BY DEF UsbRx
<1>2. x \in Free /\ Free' = Free \ {x}
  BY <1>1, EchoIdsAssumption DEF Free
<1>3. /\ TransmitCmd(m) \in CanDriverCmd
      /\ CmdId(TransmitCmd(m)) = x /\ x \in HostIds
  BY DEF CanDriverCmd, CmdId, TransmitCmd, ParseTxMsg, HostIds
<1> HIDE DEF x
<1>4. CASE EchoPipeline' = EchoPipeline
  <2>1. Slots!Refuse(x)
    BY <1>2, <1>4 DEF Slots!Refuse, Free, Listed, InOrder
  <2> QED
    BY <1>2, <2>1 DEF SlotStep, Slots!Next, Free
<1>5. CASE EchoPipeline' = Cat(EchoPipeline, <<x>>)
  <2>1. EchoPipeline \in Seq(PipelineIds) /\ x \in PipelineIds /\ EchoPipeline' = EchoPipeline \o <<x>>
    BY <1>3, <1>5, PartsAre DEF PipelineIds, Cat
  <2>2. /\ Listed(EchoPipeline') = Listed(EchoPipeline) \cup {x}
        /\ InOrder(EchoPipeline') = InOrder(EchoPipeline) \cup {<<j, x>> : j \in Listed(EchoPipeline)}
    BY <1>3, <2>1, EchoIdJoins
  <2>3. Slots!Send(x)
    BY <1>2, <2>2 DEF Slots!Send, Free, Listed, InOrder
  <2> QED
    BY <1>2, <2>3 DEF SlotStep, Slots!Next, Free
<1> QED
  BY <1>1, <1>3, <1>4, <1>5, CmdJoins

\* Every step of the adapter and its host is a step of the slots or none.
LEMMA LinkStepsAreSlotSteps ==
    ASSUME LinkTypeOK, PcInv, SlotInv, [LinkNext]_linkVars
    PROVE  SlotStep
<1>1. CASE Driver \/ Bus
  <2>1. Moves /\ UNCHANGED <<submitted, echoed>>
    BY <1>1, DriverKeepsOrder DEF Driver, Bus, hostVars
  <2> QED
    BY <2>1, MovesAreSlotSteps
<1>2. CASE UsbTxTakeRx \/ UsbTxTakeEcho
  <2>1. Moves /\ UNCHANGED <<submitted, echoed>>
    BY <1>2, TakeKeepsOrder DEF UsbTxTakeRx, UsbTxTakeEcho, hostVars
  <2> QED
    BY <2>1, MovesAreSlotSteps
<1>3. CASE UsbTxError
  <2>1. /\ ep_in # <<>> /\ ep_in' = <<>>
        /\ UNCHANGED <<usb_echo, tx_req, can_cmd, submitted, echoed>>
    BY <1>3 DEF UsbTxError, vars, hostVars
  <2>2. Moves
    BY <2>1, EndpointIsFirst DEF Moves
  <2> QED
    BY <2>1, <2>2, MovesAreSlotSteps
<1>4. CASE UsbTxWritten
  BY <1>4, WrittenIsAnswer
<1>5. ASSUME NEW m \in TxMsgs, UsbRx(m) PROVE SlotStep
  BY <1>5, RequestIsSent
<1>6. ASSUME NEW req \in ControlRequests, OnMode(req) PROVE SlotStep
  <2>1. /\ ModeCmd(req.payload) \in CanDriverCmd
        /\ ModeCmd(req.payload).op # "Transmit"
    BY <1>6, ModeRequest DEF OnMode, ModeCmd, StartCmd, StopCmd
  <2> QED
    BY <1>6, <2>1, ControlIsNoSlotStep DEF OnMode
<1>7. ASSUME NEW req \in ControlRequests, OnBitTiming(req) PROVE SlotStep
  <2>1. /\ SetBitTimingCmd(req.payload) \in CanDriverCmd
        /\ SetBitTimingCmd(req.payload).op # "Transmit"
    BY <1>7, BitTimingRequest DEF OnBitTiming, SetBitTimingCmd
  <2> QED
    BY <1>7, <2>1, ControlIsNoSlotStep DEF OnBitTiming, hostVars
<1>8. CASE UNCHANGED linkVars
  <2>1. Moves /\ UNCHANGED <<submitted, echoed>>
    BY <1>8, EchoPipelineIs DEF Moves, linkVars, vars, hostVars
  <2> QED
    BY <2>1, MovesAreSlotSteps
<1> QED
  BY <1>1, <1>2, <1>3, <1>4, <1>5, <1>6, <1>7, <1>8 DEF LinkNext, UsbTxStep, Host

\* Transmission implements the echo slots, for every capacity of the queues, every number
\* of mailboxes and of requests in flight: echoes come in the order of the requests, one
\* for each at most, and a request that times out, is refused or dropped is never echoed.
THEOREM EchoesImplementSlots == LinkSpec => EchoesFollowRequests
<1>1. LinkInit => SlotInv /\ Slots!Init
  <2> SUFFICES ASSUME LinkInit PROVE SlotInv /\ Slots!Init
    OBVIOUS
  <2>1. /\ ep_in = <<>> /\ usb_echo = <<>> /\ tx_req = <<>> /\ can_cmd = <<>>
        /\ submitted = {} /\ echoed = {}
    BY DEF LinkInit, Init
  <2>2. EchoPipeline = <<>>
    BY <2>1 DEF EchoPipeline, EchoIds
  <2>3. Listed(EchoPipeline) = {} /\ InOrder(EchoPipeline) = {}
    BY <2>2 DEF Listed, InOrder
  <2> QED
    BY <2>1, <2>3 DEF SlotInv, Slots!Init, HostIds
<1>2. LinkTypeOK /\ PcInv /\ SlotInv /\ [LinkNext]_linkVars => SlotStep /\ SlotInv'
  BY LinkStepsAreSlotSteps, SlotsKeep
<1>3. LinkSpec => []PcInv
  BY LinkIInv, PTL DEF IInv
<1> QED
  BY <1>1, <1>2, <1>3, LinkTypeCorrect, PTL DEF LinkSpec, EchoesFollowRequests, Slots!Spec, SlotStep
=============================================================================
