-------------------------- MODULE LossAccounting --------------------------
(***************************************************************************)
(* CanDriver with one history variable: how many frames the driver produced *)
(* for the host (received frames, echoes, error frames and the bus-off      *)
(* notice) that usb_tx_task has not taken.  Those that are in no queue were *)
(* lost, and CAN_SERVICE.dropped_rx, the only trace of a loss the firmware  *)
(* keeps (firmware/src/tasks/health.rs prints it), is compared with them.   *)
(***************************************************************************)
EXTENDS CanDriver

VARIABLE owed

accountingVars == <<vars, owed>>

AccountingInit == Init /\ owed = 0

\* Steps that make a frame for the host.
Produce ==
    /\ \/ TransmitAtOnce \/ WriteDone
       \/ \E f \in CanFrames : RxQueued(f)
       \/ RxOverflow
       \/ \E e \in BusErrors : RxError(e)
       \/ BusOffGiveUp
    /\ owed' = owed + 1

Take == (TakeRx \/ TakeEcho) /\ owed' = owed - 1

Neither ==
    /\ \/ Start \/ Stop \/ ApplyBitTiming \/ IgnoreWhenStopped \/ EnableDone
       \/ TransmitWaits \/ WriteTimeout \/ RecoverDone \/ BackoffDone \/ BusOffRetry
       \/ BusStep
       \/ \E c \in CanDriverCmd : SendCmd(c)
    /\ owed' = owed

AccountingNext == Produce \/ Take \/ Neither

AccountingSpec == AccountingInit /\ [][AccountingNext]_accountingVars

Lost == owed - Len(can_rx) - Len(usb_echo)

\* Notices sent, or refused without a trace, after the retries were exhausted.
Notices == IF service.bus_off_count > MAX_BUS_OFF_RETRIES
             THEN service.bus_off_count - MAX_BUS_OFF_RETRIES ELSE 0

\* dropped_rx bounds the loss on both sides.  One drop stands for one or two lost
\* frames: the one refused and, on the paths that set overflow_pending, the oldest
\* of CAN_RX_CHANNEL with it.  Beyond that, only a bus-off notice vanishes uncounted.
LossIsCounted == Lost \in service.dropped_rx .. 2 * service.dropped_rx + Notices

\* docs/usb-data-flow.md:24 claims more: a received frame stays in the buffer
\* instead of being lost, and can_driver_task blocks while it is full.  Without
\* transmissions and errors every frame produced is a received one, and the code
\* refutes the claim.
RxNeverLost == Lost = 0
=============================================================================
