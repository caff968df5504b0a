----------------------- MODULE LossAccounting_proofs -----------------------
(***************************************************************************)
(* The loss of frames is bounded by CAN_SERVICE.dropped_rx, for queues of   *)
(* every capacity.                                                          *)
(***************************************************************************)
EXTENDS LossAccounting, CanDriver_proofs

\* The steps of the accounting are those of the driver.
LEMMA AccountingIsNext == AccountingNext => Next
  BY DEF AccountingNext, Produce, Take, Neither, Next, TaskStep, ReadStep, OtherTasks

\* What the two queues hold, as numbers.
LEMMA Lengths == TypeOK => Len(can_rx) \in Nat /\ Len(usb_echo) \in Nat
  BY DEF TypeOK

\* How long a queue is after each of the channel's operations.
LEMMA QueueLengths ==
    ASSUME NEW S, NEW q \in Seq(S)
    PROVE  /\ \A capacity, m : ~IsFull(q, capacity) => Len(TrySend(q, capacity, m)) = Len(q) + 1
           /\ \A capacity, m : IsFull(q, capacity) => TrySend(q, capacity, m) = q
           /\ q # <<>> => Len(Tail(q)) = Len(q) - 1
           /\ q = <<>> => Len(TryReceive(q)) = Len(q)
           /\ q # <<>> => Len(TryReceive(q)) = Len(q) - 1
           /\ Len(q) \in Nat
           /\ \A capacity \in Nat \ {0} : IsFull(q, capacity) => q # <<>>
  BY DEF IsFull, TrySend, TryReceive

\* The counters are numbers.
LEMMA CountersType ==
    TypeOK => service.dropped_rx \in Nat /\ service.bus_off_count \in Nat
  BY DEF TypeOK, CanService

AccountingInv == IInv /\ owed \in Int /\ LossIsCounted

\* What the account is made of, as numbers.
LEMMA Numbers ==
    ASSUME AccountingInv
    PROVE  /\ owed \in Int /\ Len(can_rx) \in Nat /\ Len(usb_echo) \in Nat
           /\ service.dropped_rx \in Nat /\ service.bus_off_count \in Nat
           /\ Lost \in Int /\ Notices \in Nat
           /\ service.dropped_rx <= Lost
           /\ Lost <= 2 * service.dropped_rx + Notices
<1>1. /\ owed \in Int /\ Len(can_rx) \in Nat /\ Len(usb_echo) \in Nat
      /\ service.dropped_rx \in Nat /\ service.bus_off_count \in Nat
  BY Lengths, CountersType DEF AccountingInv, IInv
<1>2. Lost \in Int
  BY <1>1 DEF Lost
<1>3. Notices \in Nat
  BY <1>1 DEF Notices, MAX_BUS_OFF_RETRIES
<1>4. Lost \in service.dropped_rx .. 2 * service.dropped_rx + Notices
  BY DEF AccountingInv, LossIsCounted
<1> QED
  BY <1>1, <1>2, <1>3, <1>4

\* A step that loses between drops and 2 * drops + notices frames, counts drops of
\* them and sends notices notices keeps the account.
LEMMA LossStep ==
    ASSUME AccountingInv,
           NEW lost \in Int, NEW drops \in Int, NEW notices \in Int,
           Lost' = Lost + lost,
           service'.dropped_rx = service.dropped_rx + drops,
           Notices' = Notices + notices,
           drops <= lost, lost <= 2 * drops + notices
    PROVE  LossIsCounted'
<1> DEFINE d == service.dropped_rx
<1>0. /\ Lost \in Int /\ Notices \in Int /\ d \in Int
      /\ d <= Lost /\ Lost <= 2 * d + Notices
  BY Numbers
<1> HIDE DEF d
<1>1. /\ Lost' \in Int /\ service'.dropped_rx \in Int /\ Notices' \in Int
      /\ service'.dropped_rx <= Lost'
      /\ Lost' <= 2 * service'.dropped_rx + Notices'
  <2>1. service'.dropped_rx = d + drops
    BY DEF d
  <2> QED
    BY <1>0, <2>1
<1>2. Lost' \in service'.dropped_rx .. 2 * service'.dropped_rx + Notices'
  BY <1>1
<1> QED
  BY <1>2 DEF LossIsCounted

\* The notices only depend on the bus-off count.
LEMMA SameNotices ==
    ASSUME service'.bus_off_count = service.bus_off_count PROVE Notices' = Notices
  BY DEF Notices

\* A written request is in the echo queue or counted as a drop.
LEMMA EchoStep ==
    ASSUME AccountingInv, NEW req, Echo(req), owed' = owed + 1, can_rx' = can_rx
    PROVE  LossIsCounted'
<1> USE DEF AccountingInv, IInv
<1>1. CASE IsFull(usb_echo, EchoCap)
  <2>1. usb_echo' = usb_echo
    BY <1>1 DEF Echo, TrySend
  <2>2. /\ service'.dropped_rx = service.dropped_rx + 1
        /\ service'.bus_off_count = service.bus_off_count
    BY <1>1 DEF Echo, TypeOK, CanService
  <2>3. Lost' = Lost + 1
    BY <2>1, Numbers DEF Lost
  <2>4. Notices' = Notices + 0
    BY <2>2, Numbers, SameNotices
  <2> QED
    BY <2>2, <2>3, <2>4, LossStep
<1>2. CASE ~IsFull(usb_echo, EchoCap)
  <2>1. Len(usb_echo') = Len(usb_echo) + 1
    BY <1>2, QueueLengths DEF Echo, TypeOK
  <2>2. service' = service
    BY <1>2 DEF Echo
  <2>3. Lost' = Lost + 0
    BY <2>1, Numbers DEF Lost
  <2>4. Notices' = Notices + 0
    BY <2>2, Numbers, SameNotices
  <2>5. service'.dropped_rx = service.dropped_rx + 0
    BY <2>2, Numbers
  <2> QED
    BY <2>3, <2>4, <2>5, LossStep
<1> QED
  BY <1>1, <1>2

\* A received frame that is queued loses nothing.
LEMMA RxQueuedLoss ==
    ASSUME AccountingInv, NEW f, RxQueued(f), owed' = owed + 1 PROVE LossIsCounted'
<1>1. Len(can_rx') = Len(can_rx) + 1 /\ usb_echo' = usb_echo /\ service' = service
  BY DEF RxQueued, TypeOK, AccountingInv, IInv
<1>2. Lost' = Lost + 0
  BY <1>1, Numbers DEF Lost
<1>3. Notices' = Notices + 0
  BY <1>1, Numbers, SameNotices
<1>4. service'.dropped_rx = service.dropped_rx + 0
  BY <1>1, Numbers
<1> QED
  BY <1>2, <1>3, <1>4, LossStep

\* One drop, two frames: the full queue loses its oldest as well.
LEMMA RxOverflowLoss ==
    ASSUME AccountingInv, RxOverflow, owed' = owed + 1 PROVE LossIsCounted'
<1> USE DEF AccountingInv, IInv
<1>1. can_rx # <<>>
  BY QueueLengths, CapsAssumption DEF RxOverflow, TypeOK
<1>2. Len(can_rx') = Len(can_rx) - 1 /\ usb_echo' = usb_echo
  BY <1>1, QueueLengths DEF RxOverflow, TypeOK
<1>3. /\ service'.dropped_rx = service.dropped_rx + 1
      /\ service'.bus_off_count = service.bus_off_count
  BY DEF RxOverflow, TypeOK, CanService
<1>4. Lost' = Lost + 2
  BY <1>2, Numbers DEF Lost
<1>5. Notices' = Notices + 0
  BY <1>3, Numbers, SameNotices
<1> QED
  BY <1>3, <1>4, <1>5, LossStep

\* One drop, one frame or two: the error frame, and the oldest reception if any.
LEMMA RxErrorLoss ==
    ASSUME AccountingInv, NEW e, RxError(e), owed' = owed + 1 PROVE LossIsCounted'
<1> USE DEF AccountingInv, IInv
<1>1. CASE ~IsFull(usb_echo, EchoCap)
  <2>1. Len(usb_echo') = Len(usb_echo) + 1 /\ can_rx' = can_rx
    BY <1>1, QueueLengths DEF RxError, TypeOK
  <2>2. /\ service'.dropped_rx = service.dropped_rx
        /\ service'.bus_off_count = service.bus_off_count
    <3>1. service' = [service EXCEPT !.error_count = can_error_count']
      BY <1>1 DEF RxError
    <3> QED
      BY <3>1 DEF TypeOK, CanService
  <2>3. Lost' = Lost + 0
    BY <2>1, Numbers DEF Lost
  <2>4. Notices' = Notices + 0
    BY <2>2, Numbers, SameNotices
  <2>5. service'.dropped_rx = service.dropped_rx + 0
    BY <2>2, Numbers
  <2> QED
    BY <2>3, <2>4, <2>5, LossStep
<1>2. CASE IsFull(usb_echo, EchoCap)
  <2>1. usb_echo' = usb_echo
    BY <1>2 DEF RxError, TrySend
  <2>2. Len(can_rx') = Len(can_rx) \/ Len(can_rx') = Len(can_rx) - 1
    BY <1>2, QueueLengths DEF RxError, TypeOK
  <2>3. /\ service'.dropped_rx = service.dropped_rx + 1
        /\ service'.bus_off_count = service.bus_off_count
    <3>1. service' = [service EXCEPT !.error_count = can_error_count',
                                     !.dropped_rx = service.dropped_rx + 1]
      BY <1>2 DEF RxError
    <3> QED
      BY <3>1 DEF TypeOK, CanService
  <2>4. Lost' = Lost + 1 \/ Lost' = Lost + 2
    BY <2>1, <2>2, Numbers DEF Lost
  <2>5. Notices' = Notices + 0
    BY <2>3, Numbers, SameNotices
  <2>6. CASE Lost' = Lost + 1
    BY <2>3, <2>5, <2>6, LossStep
  <2>7. CASE Lost' = Lost + 2
    BY <2>3, <2>5, <2>7, LossStep
  <2> QED
    BY <2>4, <2>6, <2>7
<1> QED
  BY <1>1, <1>2

\* A notice is queued or vanishes, and the bus-off count allows for it.
LEMMA BusOffGiveUpLoss ==
    ASSUME AccountingInv, BusOffGiveUp, owed' = owed + 1 PROVE LossIsCounted'
<1> USE DEF AccountingInv, IInv
<1>1. can_rx' = can_rx
  BY DEF BusOffGiveUp
<1>2. Len(usb_echo') = Len(usb_echo) + 1 \/ Len(usb_echo') = Len(usb_echo)
  BY QueueLengths DEF BusOffGiveUp, TypeOK
<1>3. /\ service'.dropped_rx = service.dropped_rx + 0
      /\ service'.bus_off_count = service.bus_off_count + 1
  <2>1. service' = [service EXCEPT !.error_count = can_error_count',
                                   !.bus_off_count = service.bus_off_count + 1]
    BY DEF BusOffGiveUp
  <2> QED
    BY <2>1, Numbers DEF TypeOK, CanService
<1>4. service.bus_off_count >= 5
  BY Numbers DEF BusOffGiveUp, RetryLeft, MAX_BUS_OFF_RETRIES
<1>5. Notices' = Notices + 1
  BY <1>3, <1>4, Numbers DEF Notices, MAX_BUS_OFF_RETRIES
<1>6. CASE Lost' = Lost + 0
  BY <1>3, <1>5, <1>6, LossStep
<1>7. CASE Lost' = Lost + 1
  BY <1>3, <1>5, <1>7, LossStep
<1>8. Lost' = Lost + 0 \/ Lost' = Lost + 1
  BY <1>1, <1>2, Numbers DEF Lost
<1> QED
  BY <1>6, <1>7, <1>8

\* The host-bound queues shrink by one with what is owed.
LEMMA TakeLoss == ASSUME AccountingInv, Take PROVE LossIsCounted'
<1>1. service' = service
  BY DEF Take, TakeRx, TakeEcho
<1>2. owed' = owed - 1
  BY DEF Take
<1>3. Lost' = Lost + 0
  <2>1. CASE TakeRx
    <3>1. Len(can_rx') = Len(can_rx) - 1 /\ usb_echo' = usb_echo
      BY <2>1, QueueLengths DEF TakeRx, AccountingInv, IInv, TypeOK
    <3> QED
      BY <1>2, <3>1, Numbers DEF Lost
  <2>2. CASE TakeEcho
    <3>1. Len(usb_echo') = Len(usb_echo) - 1 /\ can_rx' = can_rx
      BY <2>2, QueueLengths DEF TakeEcho, AccountingInv, IInv, TypeOK
    <3> QED
      BY <1>2, <3>1, Numbers DEF Lost
  <2> QED
    BY <2>1, <2>2 DEF Take
<1>4. Notices' = Notices + 0
  BY <1>1, SameNotices, Numbers
<1>5. service'.dropped_rx = service.dropped_rx + 0
  BY <1>1, Numbers
<1> QED
  BY <1>3, <1>4, <1>5, LossStep

\* The other steps produce nothing and lose nothing.
LEMMA NeitherLoss == ASSUME AccountingInv, Neither PROVE LossIsCounted'
<1> USE Lengths, CountersType DEF AccountingInv, IInv
<1>1. can_rx' = can_rx /\ usb_echo' = usb_echo /\ owed' = owed
  BY DEF Neither, Start, Stop, ApplyBitTiming, IgnoreWhenStopped, EnableDone, TransmitWaits,
         WriteTimeout, RecoverDone, BackoffDone, BusOffRetry, BusStep, MailboxSent,
         MailboxLost, GoBusOff, SendCmd
<1>2. CASE BusOffRetry
  <2>1. /\ service'.dropped_rx = service.dropped_rx
        /\ service'.bus_off_count = service.bus_off_count + 1
    <3>1. service' = [service EXCEPT !.error_count = can_error_count',
                                     !.bus_off_count = service.bus_off_count + 1]
      BY <1>2 DEF BusOffRetry
    <3> QED
      BY <3>1 DEF TypeOK, CanService
  <2>2. service.bus_off_count < 5
    BY <1>2 DEF BusOffRetry, RetryLeft, MAX_BUS_OFF_RETRIES
  <2>3. Lost' = Lost + 0
    BY <1>1, Numbers DEF Lost
  <2>4. Notices' = Notices + 0
    BY <2>1, <2>2, Numbers DEF Notices, MAX_BUS_OFF_RETRIES
  <2>5. service'.dropped_rx = service.dropped_rx + 0
    BY <2>1, Numbers
  <2> QED
    BY <2>3, <2>4, <2>5, LossStep
<1>3. CASE ~BusOffRetry
  <2>1. \/ service' = service
        \/ \E b \in BOOLEAN : service' = [service EXCEPT !.started = b]
    BY <1>3 DEF Neither, Start, Stop, ApplyBitTiming, IgnoreWhenStopped, EnableDone,
         TransmitWaits, WriteTimeout, RecoverDone, BackoffDone, BusStep, MailboxSent,
         MailboxLost, GoBusOff, SendCmd
  <2>2. /\ service'.dropped_rx = service.dropped_rx
        /\ service'.bus_off_count = service.bus_off_count
    BY <2>1 DEF TypeOK, CanService
  <2>3. Lost' = Lost + 0
    BY <1>1, Numbers DEF Lost
  <2>4. Notices' = Notices + 0
    BY <2>2, SameNotices, Numbers
  <2>5. service'.dropped_rx = service.dropped_rx + 0
    BY <2>2, Numbers
  <2> QED
    BY <2>3, <2>4, <2>5, LossStep
<1> QED
  BY <1>2, <1>3

\* The account, with the driver's invariant, is inductive.
LEMMA AccountingInductive ==
    AccountingInv /\ [AccountingNext]_accountingVars => AccountingInv'
<1> SUFFICES ASSUME AccountingInv, [AccountingNext]_accountingVars PROVE AccountingInv'
  OBVIOUS
<1>1. CASE AccountingNext
  <2>1. IInv'
    BY <1>1, AccountingIsNext, NextIInv DEF AccountingInv
  <2>2. owed' \in Int
    BY <1>1 DEF AccountingNext, Produce, Take, Neither, AccountingInv
  <2>3. ASSUME Produce PROVE LossIsCounted'
    <3>1. owed' = owed + 1
      BY <2>3 DEF Produce
    <3>2. CASE TransmitAtOnce
      <4>1. Echo(Head(can_cmd).req) /\ can_rx' = can_rx
        BY <3>2 DEF TransmitAtOnce
      <4> QED
        BY <3>1, <4>1, EchoStep
    <3>3. CASE WriteDone
      <4>1. Echo(Head(tx_req)) /\ can_rx' = can_rx
        BY <3>3 DEF WriteDone
      <4> QED
        BY <3>1, <4>1, EchoStep
    <3>4. ASSUME NEW f \in CanFrames, RxQueued(f) PROVE LossIsCounted'
      BY <3>1, <3>4, RxQueuedLoss
    <3>5. CASE RxOverflow
      BY <3>1, <3>5, RxOverflowLoss
    <3>6. ASSUME NEW e \in BusErrors, RxError(e) PROVE LossIsCounted'
      BY <3>1, <3>6, RxErrorLoss
    <3>7. CASE BusOffGiveUp
      BY <3>1, <3>7, BusOffGiveUpLoss
    <3> QED
      BY <2>3, <3>2, <3>3, <3>4, <3>5, <3>6, <3>7 DEF Produce
  <2>4. LossIsCounted'
    BY <1>1, <2>3, TakeLoss, NeitherLoss DEF AccountingNext
  <2> QED
    BY <2>1, <2>2, <2>4 DEF AccountingInv
<1>2. CASE UNCHANGED accountingVars
  <2>1. IInv'
    BY <1>2, NextIInv DEF AccountingInv, accountingVars
  <2> QED
    BY <1>2, <2>1 DEF AccountingInv, LossIsCounted, Lost, Notices, accountingVars, vars
<1> QED
  BY <1>1, <1>2

\* However long the device runs and whatever its queues hold, dropped_rx bounds the
\* frames that were lost on both sides.
THEOREM DroppedBoundsLoss == AccountingSpec => []LossIsCounted
<1>1. AccountingInit => AccountingInv
  <2> SUFFICES ASSUME AccountingInit PROVE AccountingInv
    OBVIOUS
  <2>1. IInv
    BY InitIInv DEF AccountingInit
  <2>2. Len(<<>>) = 0
    OBVIOUS
  <2>3. LossIsCounted
    BY <2>2 DEF AccountingInit, Init, NewCanService, LossIsCounted, Lost, Notices, MAX_BUS_OFF_RETRIES
  <2> QED
    BY <2>1, <2>3 DEF AccountingInit, AccountingInv
<1>2. AccountingInv => LossIsCounted
  BY DEF AccountingInv
<1> QED
  BY <1>1, <1>2, AccountingInductive, PTL DEF AccountingSpec
=============================================================================
