---------------------------- MODULE MCCanDriver ----------------------------
(* Values of the constants of CanDriver for its TLC runs.                   *)
EXTENDS CanDriver

CONSTANTS d1, d2   \* payloads

\* A standard data frame whose can_id has bits above the 11 of its format.
StdMsg == [echo_id |-> {}, can_id |-> {0, 10, 12}, can_dlc |-> 8, data |-> d1]
\* An extended remote frame with a length no CAN frame has.
ExtRtrMsg == [echo_id |-> {0}, can_id |-> {3, 28, 30, 31}, can_dlc |-> 9, data |-> d2]
\* Another request for the id of StdMsg.
SameIdMsg == [echo_id |-> {1}, can_id |-> {0, 10}, can_dlc |-> 0, data |-> d1]

StdFrame == [id |-> {1}, is_extended |-> FALSE, dlc |-> 1, data |-> d1]
ExtFrame == [id |-> {1, 20}, is_extended |-> TRUE, dlc |-> 2, data |-> d2]

MCTxMsgs    == {StdMsg, ExtRtrMsg}
MCOneTxMsg  == {StdMsg}
MCSameIdMsgs == {StdMsg, SameIdMsg}
MCCanFrames == {StdFrame, ExtFrame}
MCOneFrame  == {StdFrame}

Timing == [prop_seg |-> 6, phase_seg1 |-> 7, phase_seg2 |-> 2, sjw |-> 1, brp |-> 6]
MCTimings == {Timing}

Normal          == {}
ListenOnly      == {GS_CAN_FLAG_LISTEN_ONLY}
LoopbackOneShot == {GS_CAN_FLAG_LOOP_BACK, GS_CAN_FLAG_ONE_SHOT}
MCModes        == {ListenOnly, LoopbackOneShot}
MCNormalOnly   == {Normal}
SelfTest        == {GS_CAN_FLAG_LISTEN_ONLY, GS_CAN_FLAG_LOOP_BACK}
MCSelfTestOnly == {SelfTest}
=============================================================================
