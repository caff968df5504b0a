---------------------------- MODULE GsUsbTypes ----------------------------
(***************************************************************************)
(* The wire structures of crates/gs-usb-protocol/src/gs_usb_types.rs and    *)
(* their conversions.  A u32 or u8 bit field is the SET of its bits that    *)
(* are 1, so "x & MASK" is an intersection, "x | FLAG" a union and the      *)
(* width is the range of the positions.  A payload is an opaque value.      *)
(***************************************************************************)
EXTENDS Naturals

U32 == SUBSET (0..31)

GS_CAN_ID_FLAG_EFF == 31
GS_CAN_ID_FLAG_RTR == 30
GS_CAN_ID_FLAG_ERR == 29
GS_CAN_ID_MASK_SFF == 0..10
GS_CAN_ID_MASK_EFF == 0..28

GS_HOST_FRAME_ECHO_ID_RX == 0..31

\* Bits of GsHostFrame.flags
GS_CAN_FLAG_OVERFLOW == 0
GS_USB_FLAG_TX_ECHO  == 0

\* Bits of GsDeviceMode.flags
GS_CAN_FLAG_LISTEN_ONLY == 0
GS_CAN_FLAG_LOOP_BACK   == 1
GS_CAN_FLAG_ONE_SHOT    == 3

\* Bits of can_id in an error frame
CAN_ERR_PROT     == 3
CAN_ERR_ACK      == 5
CAN_ERR_BUSOFF   == 6
CAN_ERR_BUSERROR == 7
CAN_ERR_DLC      == 8

CanBusError ==
    {"Stuff", "Form", "Acknowledge", "BitRecessive", "BitDominant", "Crc", "Software"}

-----------------------------------------------------------------------------
(* GsTxMsg: what the host sends to have a frame transmitted.                *)

IsExtended(m) == GS_CAN_ID_FLAG_EFF \in m.can_id
IsRtr(m)      == GS_CAN_ID_FLAG_RTR \in m.can_id

\* Mutant: the flags and the bits beyond the format stay in the id.
IdUnmasked(m) == m.can_id

Id(m)         == m.can_id \cap (IF IsExtended(m) THEN GS_CAN_ID_MASK_EFF
                                                 ELSE GS_CAN_ID_MASK_SFF)
Dlc(m)        == IF m.can_dlc < 8 THEN m.can_dlc ELSE 8

-----------------------------------------------------------------------------
(* GsHostFrame: what the device sends to the host.                          *)

\* The id is masked to its format, and only EFF is ever added: an RTR frame
\* is reported to the host without its RTR bit.
HostCanId(id, is_extended) ==
    IF is_extended THEN (id \cap GS_CAN_ID_MASK_EFF) \cup {GS_CAN_ID_FLAG_EFF}
                   ELSE id \cap GS_CAN_ID_MASK_SFF

FromCanFrame(f) ==
    [echo_id |-> GS_HOST_FRAME_ECHO_ID_RX, can_id |-> HostCanId(f.id, f.is_extended),
     can_dlc |-> f.dlc, flags |-> {}, data |-> f.data]

\* Mutant: the echo looks like a received frame.
FromTxMsgEchoAsRx(req) ==
    [echo_id |-> GS_HOST_FRAME_ECHO_ID_RX, can_id |-> HostCanId(req.id, req.is_extended),
     can_dlc |-> req.dlc, flags |-> {GS_USB_FLAG_TX_ECHO}, data |-> req.data]

FromTxMsgEcho(req) ==
    [echo_id |-> req.echo_id, can_id |-> HostCanId(req.id, req.is_extended),
     can_dlc |-> req.dlc, flags |-> {GS_USB_FLAG_TX_ECHO}, data |-> req.data]

\* An error frame; prot is data[2], the bits of CAN_ERR_PROT_*.  data[1] is 0 in
\* every error frame the firmware builds (only BusOff is used of the controller
\* errors, and its crtl flags are 0).
ErrorFrame(bits, prot) ==
    [echo_id |-> GS_HOST_FRAME_ECHO_ID_RX, can_id |-> bits \cup {GS_CAN_ID_FLAG_ERR},
     can_dlc |-> CAN_ERR_DLC, flags |-> {}, data |-> [prot |-> prot]]

FromBusError(err) ==
    [Stuff        |-> ErrorFrame({CAN_ERR_PROT}, {2}),
     Form         |-> ErrorFrame({CAN_ERR_PROT}, {1}),
     BitRecessive |-> ErrorFrame({CAN_ERR_PROT}, {3}),
     BitDominant  |-> ErrorFrame({CAN_ERR_PROT}, {4}),
     Crc          |-> ErrorFrame({CAN_ERR_PROT}, {}),
     Acknowledge  |-> ErrorFrame({CAN_ERR_ACK}, {}),
     Software     |-> ErrorFrame({CAN_ERR_BUSERROR}, {})][err]

BusOffFrame == ErrorFrame({CAN_ERR_BUSOFF}, {})

\* How the gs_usb host driver tells the three kinds of frame apart.
IsErrorFrame(h) == GS_CAN_ID_FLAG_ERR \in h.can_id
IsEcho(h)       == h.echo_id # GS_HOST_FRAME_ECHO_ID_RX
IsRx(h)         == ~IsEcho(h) /\ ~IsErrorFrame(h)
=============================================================================
