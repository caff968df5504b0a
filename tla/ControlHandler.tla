-------------------------- MODULE ControlHandler --------------------------
(***************************************************************************)
(* GsUsbControlHandler (crates/gs-usb-protocol/src/handler.rs) with the     *)
(* callbacks and capabilities main.rs and usb_setup.rs give it: which       *)
(* vendor requests of the host are accepted, the command an accepted OUT    *)
(* request queues, and what an IN request answers.  The USB stack calls it, *)
(* inside usb_run, for one request at a time.                               *)
(*                                                                          *)
(* A request is a record: vendor (its type is Vendor), request, and for an  *)
(* OUT request complete (the payload is as long as the structure that is    *)
(* read from it) and payload, that structure; for an IN request length, the *)
(* room the host has for the answer.                                        *)
(***************************************************************************)
EXTENDS AppContext

\* Bits of a feature field; those of a mode have the positions of its flag.
GS_CAN_FEATURE_LISTEN_ONLY   == 0
GS_CAN_FEATURE_LOOP_BACK     == 1
GS_CAN_FEATURE_TRIPLE_SAMPLE == 2
GS_CAN_FEATURE_ONE_SHOT      == 3
GS_CAN_FEATURE_IDENTIFY      == 5
GS_CAN_FEATURE_USER_ID       == 6

\* Mutant: a mode is advertised that on_start_cb does not know.
CapabilitiesWithTripleSample ==
    {GS_CAN_FEATURE_LISTEN_ONLY, GS_CAN_FEATURE_LOOP_BACK, GS_CAN_FEATURE_TRIPLE_SAMPLE,
     GS_CAN_FEATURE_IDENTIFY, GS_CAN_FEATURE_USER_ID}

\* with_feature, four times
Capabilities ==
    {GS_CAN_FEATURE_LISTEN_ONLY, GS_CAN_FEATURE_LOOP_BACK, GS_CAN_FEATURE_IDENTIFY,
     GS_CAN_FEATURE_USER_ID}

\* GS_USB_BREQ_BT_CONST: what the host may ask of the bit timing.
BtConst ==
    [feature |-> Capabilities, fclk_can |-> 42000000, tseg1_min |-> 1, tseg1_max |-> 16,
     tseg2_min |-> 1, tseg2_max |-> 8, sjw_max |-> 4, brp_min |-> 1, brp_max |-> 1024,
     brp_inc |-> 1]

DeviceConfig == [interface_count |-> 0, sw_version |-> 2, hw_version |-> 1]

\* control_in: the structure that answers a request, and its length in bytes.  TIMESTAMP
\* and GET_USER_ID answer the clock and the user_id; any other request is a STALL.
Answer ==
    [BT_CONST         |-> [value |-> BtConst, size |-> 40],
     DEVICE_CONFIG    |-> [value |-> DeviceConfig, size |-> 12],
     DEV_CAPABILITIES |-> [value |-> [feature |-> Capabilities], size |-> 4]]

\* write_in: the answer is cut to the room the host has.
WholeAnswer(answer, length) == length >= answer.size

OutRequests == {"BITTIMING", "HOST_FORMAT", "SET_TERMINATION", "MODE", "IDENTIFY",
                "SET_USER_ID"}

\* Some(Accepted); any other request is a STALL.
Accepted(req) == req.vendor /\ req.request \in OutRequests

\* Mutant: the length of the payload is not looked at.
TakesEffectWhenShort(req) == Accepted(req)

\* A payload cut short is accepted all the same, and nothing is done.
TakesEffect(req) == Accepted(req) /\ req.complete

\* GS_USB_BREQ_SET_USER_ID
SetUserId(user_id, req) == IF TakesEffect(req) THEN req.payload ELSE user_id

\* GsDeviceMode: 1 starts, any other mode stops.
ModeCmd(dev_mode) == IF dev_mode.mode = 1 THEN StartCmd(dev_mode.flags) ELSE StopCmd
=============================================================================
