-------------------------- MODULE OneEcho_proofs --------------------------
(***************************************************************************)
(* A request of the host is at one point of the device at most, for every   *)
(* capacity of the channels and every number of requests.  The invariant    *)
(* is OneEchoPerRequest itself: no step but the host's adds to the places   *)
(* a request is at.                                                         *)
(***************************************************************************)
EXTENDS NginLink_proofs, FiniteSetTheorems

-----------------------------------------------------------------------------
(* Occurrences in a queue.                                                  *)

One(condition) == IF condition THEN 1 ELSE 0

\* A message occurs finitely many times in a queue.
LEMMA OccurrencesType ==
    ASSUME NEW S, NEW q \in Seq(S), NEW x
    PROVE  /\ IsFiniteSet({i \in DOMAIN q : q[i] = x})
           /\ Occurrences(q, x) \in Nat
<1>1. IsFiniteSet(1..Len(q))
  BY FS_Interval
<1>2. {i \in DOMAIN q : q[i] = x} \in SUBSET (1..Len(q))
  OBVIOUS
<1>3. IsFiniteSet({i \in DOMAIN q : q[i] = x})
  BY <1>1, <1>2, FS_Subset
<1> QED
  BY <1>3, FS_CardinalityType DEF Occurrences

\* A message at the end adds one occurrence of itself.
LEMMA OccurrencesAppend ==
    ASSUME NEW S, NEW q \in Seq(S), NEW y \in S, NEW x
    PROVE  Occurrences(Append(q, y), x) = Occurrences(q, x) + One(y = x)
<1> DEFINE before == {i \in DOMAIN q : q[i] = x}
           after  == {i \in DOMAIN Append(q, y) : Append(q, y)[i] = x}
           n == Len(q) + 1
<1>1. IsFiniteSet(before) /\ Occurrences(q, x) = Cardinality(before)
  BY OccurrencesType DEF Occurrences
<1>a. n \notin before /\ Occurrences(Append(q, y), x) = Cardinality(after)
  BY DEF Occurrences
<1>2. /\ DOMAIN Append(q, y) = 1..n
      /\ DOMAIN q = 1..Len(q)
      /\ Len(q) \in Nat
      /\ Append(q, y)[n] = y
      /\ \A i \in DOMAIN q : Append(q, y)[i] = q[i]
  OBVIOUS
<1>3. CASE y = x
  <2>1. after = before \cup {n}
    BY <1>2, <1>3
  <2> HIDE DEF before, after, n
  <2>2. Cardinality(after) = Cardinality(before) + 1
    BY <1>1, <1>a, <2>1, FS_AddElement
  <2> QED
    BY <1>1, <1>a, <1>3, <2>2 DEF One
<1>4. CASE y # x
  <2>1. after = before
    BY <1>2, <1>4
  <2>2. Occurrences(q, x) \in Nat
    BY OccurrencesType
  <2> HIDE DEF before, after, n
  <2> QED
    BY <1>1, <1>a, <1>4, <2>1, <2>2 DEF One
<1> QED
  BY <1>3, <1>4

\* try_send adds one occurrence at most, of the message that is sent.
LEMMA OccurrencesSend ==
    ASSUME NEW S, NEW q \in Seq(S), NEW y \in S, NEW x, NEW capacity
    PROVE  /\ Occurrences(TrySend(q, capacity, y), x) \in Nat
           /\ Occurrences(TrySend(q, capacity, y), x) <= Occurrences(q, x) + One(y = x)
<1>1. Occurrences(q, x) \in Nat /\ Occurrences(Append(q, y), x) \in Nat /\ One(y = x) \in {0, 1}
  <2>1. Append(q, y) \in Seq(S)
    OBVIOUS
  <2> QED
    BY <2>1, OccurrencesType DEF One
<1> QED
  BY <1>1, OccurrencesAppend DEF TrySend

\* Receiving takes one occurrence, of the message at the head.
LEMMA OccurrencesTail ==
    ASSUME NEW S, NEW q \in Seq(S), q # <<>>, NEW x
    PROVE  Occurrences(q, x) = Occurrences(Tail(q), x) + One(Head(q) = x)
<1> DEFINE before == {i \in DOMAIN q : q[i] = x}
           rest   == before \ {1}
           after  == {i \in DOMAIN Tail(q) : Tail(q)[i] = x}
           shift  == [i \in after |-> i + 1]
<1>1. /\ IsFiniteSet(before)
      /\ Cardinality(before) \in Nat
      /\ Occurrences(q, x) = Cardinality(before)
  BY OccurrencesType DEF Occurrences
<1>2. /\ IsFiniteSet(after)
      /\ Cardinality(after) \in Nat
      /\ Occurrences(Tail(q), x) = Cardinality(after)
  BY OccurrencesType, ReceiveType DEF Occurrences
<1>3. shift \in Bijection(after, rest)
  <2>1. \A i \in after : shift[i] \in rest
    BY TailIndices
  <2>2. \A i \in rest : i - 1 \in after /\ shift[i - 1] = i
    BY TailIndices
  <2>3. \A i, j \in after : shift[i] = shift[j] => i = j
    BY TailIndices
  <2> QED
    BY <2>1, <2>2, <2>3 DEF Bijection, Injection, Surjection, IsInjective
<1>4. Cardinality(rest) = Cardinality(after)
  BY <1>2, <1>3, FS_Bijection DEF ExistsBijection
<1>5. Cardinality(rest) = IF 1 \in before THEN Cardinality(before) - 1 ELSE Cardinality(before)
  BY <1>1, FS_RemoveElement
<1>6. 1 \in before <=> Head(q) = x
  BY TailIndices
<1> HIDE DEF before, after, rest
<1> QED
  BY <1>1, <1>2, <1>4, <1>5, <1>6 DEF One

\* A queue of no message, and of one.
LEMMA OccurrencesOne ==
    ASSUME NEW y, NEW x
    PROVE  /\ Occurrences(<<>>, x) = 0
           /\ Occurrences(<<y>>, x) = One(y = x)
<1>1. {i \in DOMAIN <<>> : <<>>[i] = x} = {}
  OBVIOUS
<1>2. {i \in DOMAIN <<y>> : <<y>>[i] = x} = IF y = x THEN {1} ELSE {}
  OBVIOUS
<1>3. Cardinality({}) = 0 /\ Cardinality({1}) = 1
  BY FS_EmptySet, FS_Singleton
<1>4. Occurrences(<<>>, x) = 0
  BY <1>1, <1>3 DEF Occurrences
<1>5. Occurrences(<<y>>, x) = One(y = x)
  BY <1>2, <1>3 DEF Occurrences, One
<1> QED
  BY <1>4, <1>5

-----------------------------------------------------------------------------
(* Requests, commands and echoes are told apart by the echo_id.             *)

EchoOf(m) == FromTxMsgEcho(ParseTxMsg(m))

\* Two messages of the host with the same command, request or echo are one.
LEMMA SameRequest ==
    ASSUME NEW m \in TxMsgs, NEW n \in TxMsgs,
           \/ TransmitCmd(m) = TransmitCmd(n)
           \/ ParseTxMsg(m) = ParseTxMsg(n)
           \/ EchoOf(m) = EchoOf(n)
    PROVE  m = n
<1>1. \A k \in TxMsgs : /\ TransmitCmd(k).req.echo_id = k.echo_id
                       /\ ParseTxMsg(k).echo_id = k.echo_id
                       /\ EchoOf(k).echo_id = k.echo_id
  BY DEF TransmitCmd, ParseTxMsg, EchoOf, FromTxMsgEcho
<1> QED
  BY <1>1, EchoIdsAssumption

\* A frame with the echo_id of a request is its echo.
LEMMA EchoFrame ==
    ASSUME NEW m \in TxMsgs, NEW h \in HostFrames
    PROVE  /\ IsEcho(h) /\ h.echo_id = m.echo_id <=> h = EchoOf(m)
           /\ h \in {FromCanFrame(f) : f \in CanFrames} => h # EchoOf(m)
           /\ h \in {FromBusError(e) : e \in BusErrors} \cup {BusOffFrame} => h # EchoOf(m)
<1>1. \A k \in TxMsgs : EchoOf(k).echo_id = k.echo_id /\ IsEcho(EchoOf(k))
  <2>1. \A k \in TxMsgs : EchoOf(k).echo_id = k.echo_id
    BY DEF EchoOf, FromTxMsgEcho, ParseTxMsg
  <2> QED
    BY <2>1, EchoIdsAssumption DEF IsEcho
<1>2. \A f \in CanFrames : ~IsEcho(FromCanFrame(f))
  BY DEF FromCanFrame, IsEcho
<1>3. \A g \in {FromBusError(e) : e \in BusErrors} \cup {BusOffFrame} : ~IsEcho(g)
  BY ErrorFrames
<1>4. \/ \E k \in TxMsgs : h = EchoOf(k)
      \/ h \in {FromCanFrame(f) : f \in CanFrames}
      \/ h \in {FromBusError(e) : e \in BusErrors} \cup {BusOffFrame}
  BY DEF HostFrames, EchoFrames, Requests, EchoOf
<1> QED
  BY <1>1, <1>2, <1>3, <1>4, EchoIdsAssumption

-----------------------------------------------------------------------------
(* The places a request may be at.                                          *)

Queued(m)  == Occurrences(can_cmd, TransmitCmd(m))
Writing(m) == Occurrences(tx_req, ParseTxMsg(m))
Echoes(m)  == Occurrences(usb_echo, EchoOf(m))
Sending(m) == Occurrences(ep_in, EchoOf(m))
Got(m)     == Cardinality({m.echo_id} \cap echoed)

\* The numbers of places, and whether the host has the echo.
LEMMA PlacesType ==
    ASSUME LinkTypeOK, NEW m \in TxMsgs
    PROVE  /\ Queued(m) \in Nat /\ Writing(m) \in Nat /\ Echoes(m) \in Nat
           /\ Sending(m) \in Nat /\ Got(m) = One(m.echo_id \in echoed)
<1>1. Queued(m) \in Nat
  BY OccurrencesType DEF LinkTypeOK, TypeOK, Queued
<1>2. Writing(m) \in Nat
  BY OccurrencesType DEF LinkTypeOK, TypeOK, Writing
<1>3. Echoes(m) \in Nat
  BY OccurrencesType DEF LinkTypeOK, TypeOK, Echoes
<1>4. Sending(m) \in Nat
  BY OccurrencesType DEF LinkTypeOK, Sending
<1>5. CASE m.echo_id \in echoed
  <2>1. {m.echo_id} \cap echoed = {m.echo_id}
    BY <1>5
  <2> QED
    BY <1>1, <1>2, <1>3, <1>4, <1>5, <2>1, FS_Singleton DEF Got, One
<1>6. CASE m.echo_id \notin echoed
  <2>1. {m.echo_id} \cap echoed = {}
    BY <1>6
  <2> QED
    BY <1>1, <1>2, <1>3, <1>4, <1>6, <2>1, FS_EmptySet DEF Got, One
<1> QED
  BY <1>5, <1>6

\* The terms before and after a step.
LEMMA Terms ==
    ASSUME LinkTypeOK, LinkTypeOK', NEW m \in TxMsgs
    PROVE  /\ Queued(m) \in Nat /\ Writing(m) \in Nat /\ Echoes(m) \in Nat
           /\ Sending(m) \in Nat /\ Got(m) = One(m.echo_id \in echoed)
           /\ Queued(m)' \in Nat /\ Writing(m)' \in Nat /\ Echoes(m)' \in Nat
           /\ Sending(m)' \in Nat /\ Got(m)' = One(m.echo_id \in echoed')
<1>1. /\ Queued(m) \in Nat /\ Writing(m) \in Nat /\ Echoes(m) \in Nat
      /\ Sending(m) \in Nat /\ Got(m) = One(m.echo_id \in echoed)
  BY PlacesType
<1>2. Queued(m)' \in Nat
  BY OccurrencesType DEF LinkTypeOK, TypeOK, Queued
<1>3. Writing(m)' \in Nat
  BY OccurrencesType DEF LinkTypeOK, TypeOK, Writing
<1>4. Echoes(m)' \in Nat
  BY OccurrencesType DEF LinkTypeOK, TypeOK, Echoes
<1>5. Sending(m)' \in Nat
  BY OccurrencesType DEF LinkTypeOK, Sending
<1>6. Got(m)' = One(m.echo_id \in echoed')
  <2>1. CASE m.echo_id \in echoed'
    <3>1. {m.echo_id} \cap echoed' = {m.echo_id}
      BY <2>1
    <3> QED
      BY <2>1, <3>1, FS_Singleton DEF Got, One
  <2>2. CASE m.echo_id \notin echoed'
    <3>1. {m.echo_id} \cap echoed' = {}
      BY <2>2
    <3> QED
      BY <2>2, <3>1, FS_EmptySet DEF Got, One
  <2> QED
    BY <2>1, <2>2
<1> QED
  BY <1>1, <1>2, <1>3, <1>4, <1>5, <1>6

Places(m) == Queued(m) + Writing(m) + Echoes(m) + Sending(m) + Got(m)

\* The invariant with its terms named.
LEMMA OneEchoPlaces ==
    OneEchoPerRequest <=> \A m \in TxMsgs : Places(m) <= One(m \in submitted)
  BY DEF OneEchoPerRequest, Places, Queued, Writing, Echoes, Sending, Got, EchoOf, One

-----------------------------------------------------------------------------
(* The driver moves requests and never copies them.                         *)

\* Inside the driver, a request moves from the queue to the mailbox wait to the echo.
Inside(m) == Queued(m) + Writing(m) + Echoes(m)

\* A command is taken from the queue.
LEMMA TakenCmd ==
    ASSUME LinkTypeOK, can_cmd # <<>>, can_cmd' = Tail(can_cmd), NEW m \in TxMsgs
    PROVE  /\ Queued(m) = Queued(m)' + One(Head(can_cmd) = TransmitCmd(m))
           /\ Queued(m)' \in Nat
<1>1. can_cmd \in Seq(CanDriverCmd)
  BY DEF LinkTypeOK, TypeOK
<1>2. Tail(can_cmd) \in Seq(CanDriverCmd)
  BY <1>1, ReceiveType
<1> QED
  BY <1>1, <1>2, OccurrencesTail, OccurrencesType DEF Queued

\* The Transmit command of n is taken from the queue: there is one less.
LEMMA TakenTransmit ==
    ASSUME LinkTypeOK, Receives("Transmit"), NEW n \in TxMsgs, Head(can_cmd) = TransmitCmd(n),
           NEW m \in TxMsgs
    PROVE  Queued(m) = Queued(m)' + One(n = m) /\ Queued(m)' \in Nat
<1>1. can_cmd # <<>> /\ can_cmd' = Tail(can_cmd)
  BY DEF Receives
<1>2. Head(can_cmd) = TransmitCmd(m) <=> n = m
  BY SameRequest
<1> QED
  BY <1>1, <1>2, TakenCmd DEF One

\* An echo of n is queued, or refused.
LEMMA EchoJoins ==
    ASSUME LinkTypeOK, NEW n \in TxMsgs, Echo(ParseTxMsg(n)), NEW m \in TxMsgs
    PROVE  Echoes(m)' \in Nat /\ Echoes(m)' <= Echoes(m) + One(n = m)
<1>1. /\ usb_echo \in Seq(EchoFrames)
      /\ EchoOf(n) \in EchoFrames
      /\ usb_echo' = TrySend(usb_echo, EchoCap, EchoOf(n))
  BY DEF LinkTypeOK, TypeOK, EchoFrames, Requests, EchoOf, Echo
<1>2. EchoOf(n) = EchoOf(m) <=> n = m
  BY SameRequest
<1> QED
  BY <1>1, <1>2, OccurrencesSend DEF Echoes, One

\* The request being written is one of the host's messages, or none.
LEMMA WritingIs ==
    ASSUME NEW n \in TxMsgs, NEW m \in TxMsgs
    PROVE  /\ tx_req = <<ParseTxMsg(n)>> => Writing(m) = One(n = m)
           /\ tx_req' = <<ParseTxMsg(n)>> => Writing(m)' = One(n = m)
           /\ tx_req' = <<>> => Writing(m)' = 0
<1>1. ParseTxMsg(n) = ParseTxMsg(m) <=> n = m
  BY SameRequest
<1> QED
  BY <1>1, OccurrencesOne DEF Writing, One

\* No step of the driver or of the bus adds to the places of a request.
LEMMA DriverMoves ==
    ASSUME LinkTypeOK, LinkTypeOK', PcInv, TaskStep \/ ReadStep \/ BusStep, NEW m \in TxMsgs
    PROVE  Inside(m)' <= Inside(m)
<1> USE DEF Inside
<1>1. /\ Queued(m) \in Nat /\ Writing(m) \in Nat /\ Echoes(m) \in Nat
      /\ Queued(m)' \in Nat /\ Writing(m)' \in Nat /\ Echoes(m)' \in Nat
  BY Terms
<1>2. ASSUME UNCHANGED <<can_cmd, tx_req, usb_echo>> PROVE Inside(m)' <= Inside(m)
  BY <1>1, <1>2 DEF Queued, Writing, Echoes
<1>3. CASE Start \/ Stop \/ ApplyBitTiming \/ IgnoreWhenStopped
  <2>1. /\ can_cmd # <<>> /\ can_cmd' = Tail(can_cmd)
        /\ UNCHANGED <<tx_req, usb_echo>>
    BY <1>3 DEF Start, Stop, ApplyBitTiming, IgnoreWhenStopped, Receives
  <2>2. Queued(m) = Queued(m)' + One(Head(can_cmd) = TransmitCmd(m))
    BY <2>1, TakenCmd
  <2>3. Writing(m)' = Writing(m) /\ Echoes(m)' = Echoes(m)
    BY <2>1 DEF Writing, Echoes
  <2> QED
    BY <1>1, <2>2, <2>3 DEF One
<1>4. CASE TransmitAtOnce
  <2>1. PICK n \in TxMsgs : /\ Head(can_cmd) = TransmitCmd(n)
                            /\ Head(can_cmd).req = ParseTxMsg(n)
    BY <1>4, TransmitHead DEF TransmitAtOnce, LinkTypeOK
  <2>2. Queued(m) = Queued(m)' + One(n = m)
    BY <1>4, <2>1, TakenTransmit DEF TransmitAtOnce
  <2>3. Echoes(m)' <= Echoes(m) + One(n = m)
    BY <1>4, <2>1, EchoJoins DEF TransmitAtOnce
  <2>4. Writing(m)' = Writing(m)
    BY <1>4 DEF TransmitAtOnce, Writing
  <2> QED
    BY <1>1, <2>2, <2>3, <2>4 DEF One
<1>5. CASE TransmitWaits
  <2>1. PICK n \in TxMsgs : /\ Head(can_cmd) = TransmitCmd(n)
                            /\ Head(can_cmd).req = ParseTxMsg(n)
    BY <1>5, TransmitHead DEF TransmitWaits, LinkTypeOK
  <2>2. Queued(m) = Queued(m)' + One(n = m)
    BY <1>5, <2>1, TakenTransmit DEF TransmitWaits
  <2>3. Writing(m)' = One(n = m)
    BY <1>5, <2>1, WritingIs DEF TransmitWaits
  <2>4. Echoes(m)' = Echoes(m)
    BY <1>5 DEF TransmitWaits, Echoes
  <2> QED
    BY <1>1, <2>2, <2>3, <2>4 DEF One
<1>6. CASE WriteDone
  <2>1. PICK n \in TxMsgs : tx_req = <<ParseTxMsg(n)>> /\ Head(tx_req) = ParseTxMsg(n)
    <3>1. tx_req # <<>> /\ tx_req \in Seq(Requests) /\ Len(tx_req) <= 1
      BY <1>6 DEF WriteDone, PcInv, LinkTypeOK, TypeOK
    <3>2. Head(tx_req) \in Requests /\ tx_req = <<Head(tx_req)>>
      BY <3>1, OneElement
    <3> QED
      BY <3>2 DEF Requests
  <2>2. Writing(m) = One(n = m) /\ Writing(m)' = 0
    BY <1>6, <2>1, WritingIs DEF WriteDone
  <2>3. Echoes(m)' <= Echoes(m) + One(n = m)
    BY <1>6, <2>1, EchoJoins DEF WriteDone
  <2>4. Queued(m)' = Queued(m)
    BY <1>6 DEF WriteDone, Queued
  <2> QED
    BY <1>1, <2>2, <2>3, <2>4 DEF One
<1>7. CASE WriteTimeout
  <2>1. Writing(m)' = 0
    BY <1>7, WritingIs DEF WriteTimeout
  <2>2. Queued(m)' = Queued(m) /\ Echoes(m)' = Echoes(m)
    BY <1>7 DEF WriteTimeout, Queued, Echoes
  <2> QED
    BY <1>1, <2>1, <2>2
<1>8. ASSUME NEW h \in {FromBusError(e) : e \in BusErrors} \cup {BusOffFrame},
             usb_echo' = TrySend(usb_echo, EchoCap, h), UNCHANGED <<can_cmd, tx_req>>
      PROVE  Inside(m)' <= Inside(m)
  <2>1. h \in EchoFrames /\ usb_echo \in Seq(EchoFrames) /\ h # EchoOf(m)
    <3>1. h \in EchoFrames /\ usb_echo \in Seq(EchoFrames)
      BY DEF EchoFrames, LinkTypeOK, TypeOK
    <3> QED
      BY <3>1, EchoFrame DEF HostFrames
  <2>2. Echoes(m)' <= Echoes(m) + One(h = EchoOf(m))
    BY <1>8, <2>1, OccurrencesSend DEF Echoes
  <2>3. Queued(m)' = Queued(m) /\ Writing(m)' = Writing(m)
    BY <1>8 DEF Queued, Writing
  <2> QED
    BY <1>1, <2>1, <2>2, <2>3 DEF One
<1>9. CASE ReadStep
  <2>1. ASSUME NEW e \in BusErrors, RxError(e) PROVE Inside(m)' <= Inside(m)
    BY <1>8, <2>1 DEF RxError
  <2>2. CASE BusOffGiveUp
    BY <1>8, <2>2 DEF BusOffGiveUp
  <2> QED
    BY <1>2, <1>9, <2>1, <2>2 DEF ReadStep, RxQueued, RxOverflow, BusOffRetry
<1>10. CASE BusStep
  BY <1>2, <1>10 DEF BusStep, MailboxSent, MailboxLost, GoBusOff
<1>11. CASE EnableDone \/ RecoverDone \/ BackoffDone
  BY <1>2, <1>11 DEF EnableDone, RecoverDone, BackoffDone
<1> QED
  BY <1>3, <1>4, <1>5, <1>6, <1>7, <1>9, <1>10, <1>11 DEF TaskStep

\* A step that copies no request keeps the invariant.
LEMMA NothingCopied ==
    ASSUME OneEchoPerRequest, submitted' = submitted,
           \A m \in TxMsgs : /\ Places(m) \in Nat /\ Places(m)' \in Nat
                            /\ Places(m)' <= Places(m)
    PROVE  OneEchoPerRequest'
<1>1. \A m \in TxMsgs : One(m \in submitted) \in Nat /\ One(m \in submitted)' = One(m \in submitted)
  BY DEF One
<1>2. \A m \in TxMsgs : Places(m)' <= One(m \in submitted)'
  BY <1>1, OneEchoPlaces
<1>3. OneEchoPerRequest' <=> \A m \in TxMsgs : Places(m)' <= One(m \in submitted)'
  BY DEF OneEchoPerRequest, Places, Queued, Writing, Echoes, Sending, Got, EchoOf, One
<1> QED
  BY <1>2, <1>3

-----------------------------------------------------------------------------
(* The USB tasks and the host.                                              *)

\* usb_tx_task moves an echo to the endpoint, and from there to the host.
LEMMA UsbTxMoves ==
    ASSUME LinkTypeOK, LinkTypeOK', UsbTxStep, NEW m \in TxMsgs
    PROVE  Places(m)' <= Places(m)
<1>1. /\ Queued(m) \in Nat /\ Writing(m) \in Nat /\ Echoes(m) \in Nat
      /\ Sending(m) \in Nat /\ Got(m) = One(m.echo_id \in echoed)
      /\ Queued(m)' \in Nat /\ Writing(m)' \in Nat /\ Echoes(m)' \in Nat
      /\ Sending(m)' \in Nat /\ Got(m)' = One(m.echo_id \in echoed')
  BY Terms
<1>2. Queued(m)' = Queued(m) /\ Writing(m)' = Writing(m)
  BY DEF UsbTxStep, UsbTxTakeRx, UsbTxTakeEcho, UsbTxWritten, UsbTxError, TakeRx, TakeEcho,
         vars, Queued, Writing
<1>3. CASE UsbTxTakeRx
  <2>1. FromCanFrame(Head(can_rx)) \in {FromCanFrame(f) : f \in CanFrames}
    BY <1>3, ReceiveType DEF UsbTxTakeRx, TakeRx, LinkTypeOK, TypeOK
  <2>2. FromCanFrame(Head(can_rx)) # EchoOf(m)
    BY <2>1, EchoFrame DEF HostFrames
  <2>3. Sending(m)' = 0
    BY <1>3, <2>2, OccurrencesOne DEF UsbTxTakeRx, Sending, One
  <2>4. Echoes(m)' = Echoes(m) /\ Got(m)' = Got(m)
    BY <1>3 DEF UsbTxTakeRx, TakeRx, hostVars, Echoes, Got
  <2> QED
    BY <1>1, <1>2, <2>3, <2>4 DEF Places, One
<1>4. CASE UsbTxTakeEcho
  <2>1. Sending(m)' = One(Head(usb_echo) = EchoOf(m))
    BY <1>4, OccurrencesOne DEF UsbTxTakeEcho, Sending
  <2>2. Echoes(m) = Echoes(m)' + One(Head(usb_echo) = EchoOf(m))
    BY <1>4, OccurrencesTail DEF UsbTxTakeEcho, TakeEcho, Echoes, LinkTypeOK, TypeOK
  <2>3. Got(m)' = Got(m)
    BY <1>4 DEF UsbTxTakeEcho, hostVars, Got
  <2> QED
    BY <1>1, <1>2, <2>1, <2>2, <2>3 DEF Places, One
<1>5. CASE UsbTxWritten
  <2>1. ep_in # <<>> /\ Head(ep_in) \in HostFrames /\ ep_in = <<Head(ep_in)>>
    BY <1>5, OneElement DEF UsbTxWritten, LinkTypeOK, HostFrames
  <2>2. Sending(m) = One(Head(ep_in) = EchoOf(m)) /\ Sending(m)' = 0
    BY <1>5, <2>1, OccurrencesOne DEF UsbTxWritten, Sending
  <2>3. m.echo_id \in echoed' => m.echo_id \in echoed \/ Head(ep_in) = EchoOf(m)
    BY <1>5, <2>1, EchoFrame DEF UsbTxWritten
  <2>4. Echoes(m)' = Echoes(m)
    BY <1>5 DEF UsbTxWritten, vars, Echoes
  <2> QED
    BY <1>1, <1>2, <2>2, <2>3, <2>4 DEF Places, One
<1>6. CASE UsbTxError
  <2>1. Sending(m)' = 0
    BY <1>6, OccurrencesOne DEF UsbTxError, Sending
  <2>2. Echoes(m)' = Echoes(m) /\ Got(m)' = Got(m)
    BY <1>6 DEF UsbTxError, vars, hostVars, Echoes, Got
  <2> QED
    BY <1>1, <1>2, <2>1, <2>2 DEF Places, One
<1> QED
  BY <1>3, <1>4, <1>5, <1>6 DEF UsbTxStep

\* Steps of the device keep the invariant.
LEMMA DeviceKeepsOne ==
    ASSUME LinkTypeOK, LinkTypeOK', PcInv, OneEchoPerRequest, Driver \/ Bus \/ UsbTxStep
    PROVE  OneEchoPerRequest'
<1>1. submitted' = submitted
  BY DEF Driver, Bus, UsbTxStep, UsbTxTakeRx, UsbTxTakeEcho, UsbTxWritten, UsbTxError, hostVars
<1>2. ASSUME NEW m \in TxMsgs
      PROVE  Places(m) \in Nat /\ Places(m)' \in Nat /\ Places(m)' <= Places(m)
  <2>1. Places(m) \in Nat /\ Places(m)' \in Nat
    BY Terms DEF Places, One
  <2>2. CASE Driver \/ Bus
    <3>1. TaskStep \/ ReadStep \/ BusStep
      BY <2>2 DEF Driver, Bus
    <3>2. Inside(m)' <= Inside(m)
      BY <3>1, DriverMoves
    <3>3. Sending(m)' = Sending(m) /\ Got(m)' = Got(m)
      BY <2>2 DEF Driver, Bus, hostVars, Sending, Got
    <3> QED
      BY <2>1, <3>2, <3>3, Terms DEF Places, Inside, One
  <2>3. CASE UsbTxStep
    BY <2>1, <2>3, UsbTxMoves
  <2> QED
    BY <2>2, <2>3
<1> QED
  BY <1>1, <1>2, NothingCopied

\* A request that changes neither the queued messages nor what the host has.
LEMMA ControlKeepsOne ==
    ASSUME LinkTypeOK, LinkTypeOK', OneEchoPerRequest, NEW c \in CanDriverCmd, SendCmd(c),
           c.op # "Transmit", UNCHANGED <<ep_in, submitted, echoed>>
    PROVE  OneEchoPerRequest'
<1>1. ASSUME NEW m \in TxMsgs
      PROVE  Places(m) \in Nat /\ Places(m)' \in Nat /\ Places(m)' <= Places(m)
  <2>1. Places(m) \in Nat /\ Places(m)' \in Nat
    BY Terms DEF Places, One
  <2>2. c # TransmitCmd(m)
    BY DEF TransmitCmd
  <2>3. Queued(m)' <= Queued(m)
    <3>1. can_cmd \in Seq(CanDriverCmd) /\ can_cmd' = TrySend(can_cmd, CmdCap, c)
      BY DEF SendCmd, LinkTypeOK, TypeOK
    <3>2. Queued(m)' <= Queued(m) + One(c = TransmitCmd(m))
      BY <3>1, OccurrencesSend DEF Queued
    <3> QED
      BY <2>2, <3>2, Terms DEF One
  <2>4. UNCHANGED <<Writing(m), Echoes(m), Sending(m), Got(m)>>
    BY DEF SendCmd, Writing, Echoes, Sending, Got
  <2> QED
    BY <2>1, <2>3, <2>4, Terms DEF Places, One
<1> QED
  BY <1>1, NothingCopied

\* A message is sent: it is new, or the host has its echo, and then it is nowhere else.
LEMMA MessageKeepsOne ==
    ASSUME LinkTypeOK, LinkTypeOK', OneEchoPerRequest, NEW n \in TxMsgs, UsbRx(n)
    PROVE  OneEchoPerRequest'
<1>1. ASSUME NEW m \in TxMsgs PROVE Places(m)' <= One(m \in submitted)'
  <2>1. Queued(m)' <= Queued(m) + One(n = m)
    <3>1. /\ can_cmd \in Seq(CanDriverCmd)
          /\ can_cmd' = TrySend(can_cmd, CmdCap, TransmitCmd(n))
          /\ TransmitCmd(n) \in CanDriverCmd
      BY DEF UsbRx, SendCmd, LinkTypeOK, TypeOK, CanDriverCmd
    <3>2. TransmitCmd(n) = TransmitCmd(m) <=> n = m
      BY SameRequest
    <3> QED
      BY <3>1, <3>2, OccurrencesSend DEF Queued, One
  <2>2. UNCHANGED <<Writing(m), Echoes(m), Sending(m)>>
    BY DEF UsbRx, SendCmd, Writing, Echoes, Sending
  <2>3. Places(m) <= One(m \in submitted)
    BY OneEchoPlaces
  <2>4. CASE n = m
    <3>1. m \in submitted' /\ m.echo_id \notin echoed'
      BY <2>4 DEF UsbRx
    <3>2. Queued(m) + Writing(m) + Echoes(m) + Sending(m) = 0
      <4>1. m \in submitted => m.echo_id \in echoed
        BY <2>4 DEF UsbRx
      <4> QED
        BY <2>3, <4>1, Terms DEF Places, One
    <3> QED
      BY <2>1, <2>2, <2>4, <3>1, <3>2, Terms DEF Places, One
  <2>5. CASE n # m
    <3>1. n.echo_id # m.echo_id
      BY <2>5, EchoIdsAssumption
    <3>2. /\ m \in submitted' <=> m \in submitted
          /\ m.echo_id \in echoed' <=> m.echo_id \in echoed
      BY <2>5, <3>1 DEF UsbRx
    <3> QED
      BY <2>1, <2>2, <2>3, <2>5, <3>2, Terms DEF Places, One
  <2> QED
    BY <2>4, <2>5
<1> QED
  BY <1>1 DEF OneEchoPerRequest, Places, Queued, Writing, Echoes, Sending, Got, EchoOf, One

\* So do all steps.
LEMMA OneEchoInductive ==
    ASSUME LinkTypeOK, LinkTypeOK', PcInv, OneEchoPerRequest, [LinkNext]_linkVars
    PROVE  OneEchoPerRequest'
<1>1. CASE Host
  <2>1. ASSUME NEW req \in ControlRequests, OnMode(req) PROVE OneEchoPerRequest'
    <3>1. /\ ModeCmd(req.payload) \in CanDriverCmd
          /\ ModeCmd(req.payload).op # "Transmit"
      BY <2>1, ModeRequest DEF OnMode, ModeCmd, StartCmd, StopCmd
    <3> QED
      BY <2>1, <3>1, ControlKeepsOne DEF OnMode
  <2>2. ASSUME NEW req \in ControlRequests, OnBitTiming(req) PROVE OneEchoPerRequest'
    <3>1. /\ SetBitTimingCmd(req.payload) \in CanDriverCmd
          /\ SetBitTimingCmd(req.payload).op # "Transmit"
      BY <2>2, BitTimingRequest DEF OnBitTiming, SetBitTimingCmd
    <3> QED
      BY <2>2, <3>1, ControlKeepsOne DEF OnBitTiming, hostVars
  <2> QED
    BY <1>1, <2>1, <2>2, MessageKeepsOne DEF Host
<1>2. CASE UNCHANGED linkVars
  BY <1>2 DEF linkVars, vars, hostVars, OneEchoPerRequest, Occurrences
<1> QED
  BY <1>1, <1>2, DeviceKeepsOne DEF LinkNext

\* The host gets at most one echo of a request, and frees each echo slot once: a
\* request is never in two of the command queue, the wait for a mailbox, the echo
\* queue, the endpoint and the host, for all capacities and any number of requests
\* in flight, timeouts, overflows and repeated echo_ids included.
THEOREM OneEcho == LinkSpec => []OneEchoPerRequest
<1>1. LinkInit => OneEchoPerRequest
  <2> SUFFICES ASSUME LinkInit, NEW m \in TxMsgs PROVE Places(m) <= One(m \in submitted)
    BY OneEchoPlaces
  <2>1. /\ Queued(m) = 0 /\ Writing(m) = 0 /\ Echoes(m) = 0 /\ Sending(m) = 0
    BY OccurrencesOne DEF LinkInit, Init, Queued, Writing, Echoes, Sending
  <2>2. Got(m) = 0
    <3>1. {m.echo_id} \cap echoed = {}
      BY DEF LinkInit
    <3> QED
      BY <3>1, FS_EmptySet DEF Got
  <2> QED
    BY <2>1, <2>2 DEF Places, One
<1>2. LinkTypeOK /\ LinkTypeOK' /\ PcInv /\ OneEchoPerRequest /\ [LinkNext]_linkVars
        => OneEchoPerRequest'
  BY OneEchoInductive
<1>3. IInv => PcInv
  BY DEF IInv
<1>4. LinkSpec => []IInv
  BY LinkImplementsDriver, Invariance, PTL
<1> QED
  BY <1>1, <1>2, <1>3, <1>4, LinkTypeCorrect, PTL DEF LinkSpec
-----------------------------------------------------------------------------
(* Every request is settled.                                                *)

IsWritten(m) == tx_req = <<ParseTxMsg(m)>>

\* A message that is queued, or not, as Occurrences counts it.
LEMMA OccursInQueue ==
    ASSUME NEW S, NEW q \in Seq(S), NEW x
    PROVE  Occurrences(q, x) = 0 <=> ~(\E i \in DOMAIN q : q[i] = x)
<1>1. IsFiniteSet({i \in DOMAIN q : q[i] = x})
  BY OccurrencesType
<1>2. Cardinality({i \in DOMAIN q : q[i] = x}) = 0 <=> {i \in DOMAIN q : q[i] = x} = {}
  BY <1>1, FS_EmptySet
<1> QED
  BY <1>2 DEF Occurrences

\* What is known of the requests at all times.
RequestInv == LinkTypeOK /\ IInv /\ OneEchoPerRequest

\* What the link always keeps of its requests.
LEMMA RequestsKept == LinkSpec => []RequestInv
  BY OneEcho, LinkTypeCorrect, LinkImplementsDriver, Invariance, PTL DEF RequestInv

\* A request is not queued while it is written, nor twice.
LEMMA QueuedOrWritten ==
    ASSUME RequestInv, NEW m \in TxMsgs
    PROVE  /\ Queued(m) \in 0..1
           /\ Queued(m) = 0 <=> ~InQueue(TransmitCmd(m))
           /\ IsWritten(m) => ~InQueue(TransmitCmd(m))
<1>1. Places(m) <= One(m \in submitted)
  BY OneEchoPlaces DEF RequestInv
<1>2. /\ Queued(m) \in Nat /\ Writing(m) \in Nat /\ Echoes(m) \in Nat
      /\ Sending(m) \in Nat /\ Got(m) \in {0, 1}
  BY PlacesType DEF RequestInv, One
<1>3. Queued(m) + Writing(m) <= 1
  BY <1>1, <1>2 DEF Places, One
<1>4. Queued(m) = 0 <=> ~InQueue(TransmitCmd(m))
  <2>1. can_cmd \in Seq(CanDriverCmd)
    BY DEF RequestInv, LinkTypeOK, TypeOK
  <2> QED
    BY <2>1, OccursInQueue DEF Queued, InQueue
<1>5. IsWritten(m) => Writing(m) = 1
  BY WritingIs DEF IsWritten, One
<1> QED
  BY <1>2, <1>3, <1>4, <1>5

\* Taken from the queue, a request is dropped, echoed, or written and no longer queued.
LEMMA TakenIsSettled ==
    ASSUME RequestInv, RequestInv', NEW m \in TxMsgs, Takes(TransmitCmd(m))
    PROVE  ~InQueue(TransmitCmd(m))'
<1>1. can_cmd # <<>> /\ can_cmd' = Tail(can_cmd) /\ Head(can_cmd) = TransmitCmd(m)
  BY DEF Takes, TakesHead
<1>2. Queued(m) = Queued(m)' + 1 /\ Queued(m)' \in Nat
  BY <1>1, TakenCmd DEF RequestInv, One
<1>3. Queued(m) \in 0..1
  BY QueuedOrWritten
<1>4. Queued(m)' = 0
  BY <1>2, <1>3
<1>5. can_cmd' \in Seq(CanDriverCmd)
  BY DEF RequestInv, LinkTypeOK, TypeOK
<1> QED
  BY <1>4, <1>5, OccursInQueue DEF Queued, InQueue

\* The next step of the driver ends the writing, and nothing else changes it.
LEMMA WritingEnds ==
    ASSUME RequestInv, RequestInv', NEW m \in TxMsgs, IsWritten(m), [LinkNext]_linkVars
    PROVE  /\ IsWritten(m)' \/ ~Pending(m)'
           /\ TaskStep => ~Pending(m)'
<1>1. pc = "writing" /\ ~InQueue(TransmitCmd(m))
  BY QueuedOrWritten DEF RequestInv, IInv, PcInv, IsWritten
<1>2. ASSUME TaskStep PROVE ~Pending(m)'
  <2>1. WriteDone \/ WriteTimeout
    BY <1>1, <1>2 DEF TaskStep, Start, Stop, ApplyBitTiming, IgnoreWhenStopped, TransmitAtOnce,
                      TransmitWaits, Receives, EnableDone, RecoverDone, BackoffDone
  <2>2. tx_req' = <<>> /\ can_cmd' = can_cmd
    BY <2>1 DEF WriteDone, WriteTimeout
  <2> QED
    BY <1>1, <2>2 DEF Pending, InQueue, IsWritten
<1>3. ASSUME ~TaskStep PROVE tx_req' = tx_req
  <2>1. [Next]_vars
    BY LinkStep DEF RequestInv
  <2>2. ~ReadStep
    BY <1>1 DEF ReadStep, RxQueued, RxOverflow, RxError, BusOffRetry, BusOffGiveUp, Reads
  <2> QED
    BY <1>3, <2>1, <2>2 DEF Next, BusStep, MailboxSent, MailboxLost, GoBusOff, OtherTasks, SendCmd,
                      TakeRx, TakeEcho, vars
<1> QED
  BY <1>2, <1>3 DEF IsWritten

\* One request.
LEMMA RequestSettles ==
    ASSUME NEW m \in TxMsgs, CmdCap <= 16
    PROVE  LinkFairSpec /\ []TasksNeverStuck => Settles(m)
<1>1. IsTaken(TransmitCmd(m))
  BY QueuedIsTaken
<1>2. RequestInv /\ RequestInv' /\ <<Takes(TransmitCmd(m))>>_vars => ~Pending(m)' \/ IsWritten(m)'
  BY TakenIsSettled DEF Pending, InQueue, IsWritten
<1>3. RequestInv /\ RequestInv' /\ IsWritten(m) /\ [LinkNext]_linkVars
        => IsWritten(m)' \/ ~Pending(m)'
  BY WritingEnds
<1>4. RequestInv /\ RequestInv' /\ IsWritten(m) /\ [LinkNext]_linkVars /\ <<TaskStep>>_vars
        => ~Pending(m)'
  BY WritingEnds
<1>5. RequestInv /\ IsWritten(m) => Woken
  BY DEF RequestInv, IInv, PcInv, IsWritten, Woken
<1>6. Pending(m) => InQueue(TransmitCmd(m)) \/ IsWritten(m)
  BY DEF Pending, InQueue, IsWritten
<1>7. LinkFairSpec => LinkSpec /\ [][LinkNext]_linkVars
  BY PTL DEF LinkFairSpec, LinkSpec
<1> QED
  BY <1>1, <1>2, <1>3, <1>4, <1>5, <1>6, <1>7, RequestsKept, LinkServed, PTL
     DEF IsTaken, Served, Settles

\* No request stays in the device unsettled, whatever the bus does and however many
\* commands the host goes on queueing, with the queue of the firmware or a shorter one.
THEOREM RequestsAreSettled ==
    ASSUME CmdCap <= 16
    PROVE  LinkFairSpec /\ []TasksNeverStuck => RequestsSettle
<1>1. \A m \in TxMsgs : LinkFairSpec /\ []TasksNeverStuck => Settles(m)
  BY RequestSettles
<1>2. (\A m \in TxMsgs : Settles(m)) => RequestsSettle
  BY DEF RequestsSettle
<1> QED
  BY <1>1, <1>2
-----------------------------------------------------------------------------
(* Every echo leaves its queue.                                             *)

\* The fairness of usb_tx_task, told without ENABLED.
UsbTxServed == []<>~UsbTxWoken \/ []<><<UsbTxStep>>_linkVars

NoFrame == can_rx = <<>>

\* The echo is at most k steps of usb_tx_task before its end: one for each echo ahead
\* and for itself, and one for each write.
Near(m, k) == \E i \in DOMAIN usb_echo : usb_echo[i] = EchoOf(m) /\ 2 * i - 1 + Len(ep_in) <= k

LeavesFrom(m, k) ==
    LinkSpec /\ UsbTxServed => []([]NoFrame /\ Near(m, k) => <>~EchoQueued(m))

\* Only usb_tx_task takes echoes and writes; the driver adds echoes at the end.
LEMMA OthersKeepEchoes ==
    ASSUME LinkTypeOK, [LinkNext]_linkVars, ~UsbTxStep
    PROVE  /\ ep_in' = ep_in
           /\ \A i \in DOMAIN usb_echo : i \in DOMAIN usb_echo' /\ usb_echo'[i] = usb_echo[i]
<1>1. usb_echo \in Seq(EchoFrames)
  BY DEF LinkTypeOK, TypeOK
<1>2. ep_in' = ep_in
  BY DEF LinkNext, Driver, Bus, Host, UsbRx, OnMode, OnBitTiming, linkVars
<1>3. \/ usb_echo' = usb_echo
      \/ \E h : usb_echo' = TrySend(usb_echo, EchoCap, h)
  <2>1. CASE TaskStep
    BY <2>1 DEF TaskStep, Start, Stop, ApplyBitTiming, IgnoreWhenStopped, TransmitAtOnce,
                TransmitWaits, Receives, EnableDone, WriteDone, WriteTimeout, RecoverDone,
                BackoffDone, Echo
  <2>2. CASE ReadStep
    BY <2>2 DEF ReadStep, RxQueued, RxOverflow, RxError, BusOffRetry, BusOffGiveUp
  <2>3. CASE Bus
    BY <2>3 DEF Bus, BusStep, MailboxSent, MailboxLost, GoBusOff
  <2>4. CASE Host
    BY <2>4 DEF Host, UsbRx, OnMode, OnBitTiming, SendCmd
  <2> QED
    BY <2>1, <2>2, <2>3, <2>4 DEF LinkNext, Driver, linkVars, vars
<1> QED
  BY <1>1, <1>2, <1>3 DEF TrySend

\* With no frame to take, usb_tx_task ends its write or takes the first echo.
LEMMA UsbTxTurns ==
    ASSUME LinkTypeOK, NoFrame, UsbTxStep
    PROVE  \/ Len(ep_in) = 1 /\ Len(ep_in') = 0 /\ usb_echo' = usb_echo
           \/ /\ Len(ep_in) = 0 /\ Len(ep_in') = 1
              /\ usb_echo # <<>> /\ usb_echo' = Tail(usb_echo)
<1>1. CASE UsbTxWritten \/ UsbTxError
  <2>1. ep_in # <<>> /\ ep_in' = <<>> /\ usb_echo' = usb_echo
    BY <1>1 DEF UsbTxWritten, UsbTxError, vars
  <2>2. ep_in \in Seq(HostFrames) /\ Len(ep_in) <= 1
    BY DEF LinkTypeOK, HostFrames
  <2>3. ep_in = <<Head(ep_in)>>
    BY <2>1, <2>2, OneElement
  <2>4. Len(ep_in) = 1 /\ Len(ep_in') = 0
    BY <2>1, <2>3
  <2> QED
    BY <2>1, <2>4
<1>2. CASE UsbTxTakeEcho
  <2>1. ep_in = <<>> /\ ep_in' = <<Head(usb_echo)>>
    BY <1>2 DEF UsbTxTakeEcho
  <2>2. Len(ep_in) = 0 /\ Len(ep_in') = 1
    BY <2>1
  <2> QED
    BY <1>2, <2>2 DEF UsbTxTakeEcho, TakeEcho
<1>3. ~UsbTxTakeRx
  BY DEF UsbTxTakeRx, TakeRx, NoFrame
<1> QED
  BY <1>1, <1>2, <1>3 DEF UsbTxStep

\* The first echo is taken: it is the only one of its request.
LEMMA TakenEchoLeaves ==
    ASSUME RequestInv, RequestInv', NEW m \in TxMsgs, usb_echo # <<>>,
           usb_echo' = Tail(usb_echo), Head(usb_echo) = EchoOf(m)
    PROVE  ~EchoQueued(m)'
<1>1. usb_echo \in Seq(EchoFrames) /\ usb_echo' \in Seq(EchoFrames)
  BY DEF RequestInv, LinkTypeOK, TypeOK
<1>2. Echoes(m) = Echoes(m)' + 1 /\ Echoes(m)' \in Nat
  BY <1>1, OccurrencesTail, OccurrencesType DEF Echoes, One
<1>3. Echoes(m) <= 1
  <2>1. Places(m) <= One(m \in submitted)
    BY OneEchoPlaces DEF RequestInv
  <2> QED
    BY <2>1, PlacesType DEF RequestInv, Places, One
<1>4. Echoes(m)' = 0
  BY <1>2, <1>3
<1> QED
  BY <1>1, <1>4, OccursInQueue DEF Echoes, EchoQueued, EchoOf

\* While no frame is received an echo stays as near, and a step of usb_tx_task brings it
\* nearer or takes it.
LEMMA NearMoves ==
    ASSUME RequestInv, RequestInv', [LinkNext]_linkVars, NoFrame,
           NEW m \in TxMsgs, NEW k \in Nat, Near(m, k + 1)
    PROVE  /\ Near(m, k + 1)' \/ ~EchoQueued(m)'
           /\ UsbTxStep => Near(m, k)' \/ ~EchoQueued(m)'
<1>1. PICK i \in DOMAIN usb_echo : usb_echo[i] = EchoOf(m) /\ 2 * i - 1 + Len(ep_in) <= k + 1
  BY DEF Near
<1>2. /\ LinkTypeOK
      /\ usb_echo \in Seq(EchoFrames)
      /\ Len(ep_in) \in Nat /\ i \in Nat
  <2>1. ep_in \in Seq(HostFrames) /\ usb_echo \in Seq(EchoFrames)
    BY DEF RequestInv, LinkTypeOK, TypeOK, HostFrames
  <2> QED
    BY <2>1 DEF RequestInv
<1>3. CASE ~UsbTxStep
  <2>1. ep_in' = ep_in /\ i \in DOMAIN usb_echo' /\ usb_echo'[i] = usb_echo[i]
    BY <1>2, <1>3, OthersKeepEchoes
  <2> QED
    BY <1>1, <1>2, <1>3, <2>1 DEF Near
<1>4. CASE UsbTxStep /\ Len(ep_in) = 1 /\ Len(ep_in') = 0 /\ usb_echo' = usb_echo
  <2>1. i \in DOMAIN usb_echo' /\ usb_echo'[i] = EchoOf(m)
    BY <1>1, <1>4
  <2>2. 2 * i - 1 + Len(ep_in') <= k /\ 2 * i - 1 + Len(ep_in') <= k + 1
    BY <1>1, <1>2, <1>4
  <2> QED
    BY <1>2, <2>1, <2>2 DEF Near
<1>5. CASE /\ Len(ep_in) = 0 /\ Len(ep_in') = 1
           /\ usb_echo # <<>> /\ usb_echo' = Tail(usb_echo)
  <2>1. CASE i = 1
    <3>1. Head(usb_echo) = EchoOf(m)
      BY <1>1, <1>2, <2>1
    <3> QED
      BY <1>5, <3>1, TakenEchoLeaves
  <2>2. CASE i # 1
    <3>1. i - 1 \in DOMAIN usb_echo' /\ usb_echo'[i - 1] = EchoOf(m)
      BY <1>1, <1>2, <1>5, <2>2
    <3>2. /\ 2 * (i - 1) - 1 + Len(ep_in') <= k
          /\ 2 * (i - 1) - 1 + Len(ep_in') <= k + 1
      BY <1>1, <1>2, <1>5
    <3> QED
      BY <1>2, <3>1, <3>2 DEF Near
  <2> QED
    BY <2>1, <2>2
<1> QED
  BY <1>2, <1>3, <1>4, <1>5, UsbTxTurns

\* One step of the measure.
LEMMA LeavesFromNext ==
    ASSUME NEW m \in TxMsgs, NEW k \in Nat
    PROVE  LeavesFrom(m, k) => LeavesFrom(m, k + 1)
<1>1. RequestInv /\ RequestInv' /\ NoFrame /\ Near(m, k + 1) /\ [LinkNext]_linkVars
        => Near(m, k + 1)' \/ ~EchoQueued(m)'
  BY NearMoves
<1>2. RequestInv /\ RequestInv' /\ NoFrame /\ Near(m, k + 1) /\ <<UsbTxStep>>_linkVars
        /\ [LinkNext]_linkVars
        => Near(m, k)' \/ ~EchoQueued(m)'
  BY NearMoves
<1>3. Near(m, k + 1) => UsbTxWoken
  BY DEF UsbTxWoken, Near
<1> QED
  BY <1>1, <1>2, <1>3, RequestsKept, PTL DEF LeavesFrom, UsbTxServed, LinkSpec

\* No echo is nearer than one step.
LEMMA NeverAtOnce == ASSUME NEW m \in TxMsgs PROVE LeavesFrom(m, 0)
<1>1. RequestInv => ~Near(m, 0)
  BY DEF RequestInv, LinkTypeOK, TypeOK, Near
<1> QED
  BY <1>1, RequestsKept, PTL DEF LeavesFrom

\* A queue of 16 echoes and a write that has just begun: 32 steps.
LEMMA LeavesFrom32 == ASSUME NEW m \in TxMsgs PROVE LeavesFrom(m, 32)
<1> DEFINE P(k) == LeavesFrom(m, k)
<1>1. P(0) /\ \A k \in Nat : P(k) => P(k + 1)
  BY LeavesFromNext, NeverAtOnce
<1> HIDE DEF P
<1>2. P(8)
  BY <1>1
<1>3. P(16)
  BY <1>1, <1>2
<1>4. P(24)
  BY <1>1, <1>3
<1>5. P(32)
  BY <1>1, <1>4
<1> QED
  BY <1>5 DEF P

\* One echo.
LEMMA EchoFlows ==
    ASSUME NEW m \in TxMsgs, EchoCap <= 16
    PROVE  LinkFairSpec /\ []TasksNeverStuck /\ <>[]NoFrame => EchoLeaves(m)
<1>1. RequestInv /\ EchoQueued(m) => Near(m, 32)
  <2> SUFFICES ASSUME RequestInv, NEW i \in DOMAIN usb_echo, usb_echo[i] = EchoOf(m)
               PROVE  2 * i - 1 + Len(ep_in) <= 32
    BY DEF EchoQueued, EchoOf, Near
  <2>1. i \in Nat /\ i <= 16 /\ Len(ep_in) \in Nat /\ Len(ep_in) <= 1
    BY ConstantTypes DEF RequestInv, LinkTypeOK, TypeOK
  <2> QED
    BY <2>1
<1>2. LinkFairSpec /\ []TasksNeverStuck => LinkSpec /\ UsbTxServed
  BY PTL DEF LinkFairSpec, TasksNeverStuck, UsbTxServed
<1> QED
  BY <1>1, <1>2, LeavesFrom32, RequestsKept, PTL DEF LeavesFrom, EchoLeaves

\* Every echo leaves its queue once reception pauses for good, with the queue of the
\* firmware or a shorter one, while requests, bus errors and bus-offs go on.
THEOREM EchoesFlow ==
    ASSUME EchoCap <= 16
    PROVE  LinkFairSpec /\ []TasksNeverStuck => EchoFlowsWhenBusQuiet
<1>1. \A m \in TxMsgs : LinkFairSpec /\ []TasksNeverStuck /\ <>[]NoFrame => EchoLeaves(m)
  BY EchoFlows
<1> QED
  BY <1>1 DEF EchoFlowsWhenBusQuiet, NoFrame
=============================================================================
