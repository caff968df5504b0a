---------------------------- MODULE AppContext ----------------------------
(***************************************************************************)
(* firmware/src/app_context.rs: the messages of CAN_CMD_CHANNEL and the     *)
(* metrics of CAN_SERVICE.  A callback of the control handler is the        *)
(* command it queues.                                                       *)
(***************************************************************************)
EXTENDS GsUsbTypes

\* on_start_cb: the mode a flags field asks for.
ModeOf(flags) == [loopback    |-> GS_CAN_FLAG_LOOP_BACK \in flags,
                  listen_only |-> GS_CAN_FLAG_LISTEN_ONLY \in flags,
                  one_shot    |-> GS_CAN_FLAG_ONE_SHOT \in flags]

\* parse_tx_msg: the CanTxRequest queued for the driver.
ParseTxMsg(m) == [echo_id |-> m.echo_id, id |-> Id(m), is_extended |-> IsExtended(m),
                  is_rtr |-> IsRtr(m), dlc |-> Dlc(m), data |-> m.data]

\* CanDriverCmd
StartCmd(flags)    == [op |-> "Start", mode |-> ModeOf(flags)]
StopCmd            == [op |-> "Stop"]
SetBitTimingCmd(t) == [op |-> "SetBitTiming", timing |-> t]
TransmitCmd(m)     == [op |-> "Transmit", req |-> ParseTxMsg(m)]

CanService == [started : BOOLEAN, error_count : Nat, dropped_rx : Nat, bus_off_count : Nat]

NewCanService ==
    [started |-> FALSE, error_count |-> 0, dropped_rx |-> 0, bus_off_count |-> 0]
=============================================================================
