---------------------------- MODULE CanProtocol ----------------------------
(***************************************************************************)
(* The sniffer (crates/can-protocol): usb_tx_task shows every received      *)
(* frame to analyze_frame, which recognises OBD-II requests and UDS         *)
(* messages in ISO-TP single frames.  It keeps no state and a wrong index   *)
(* or difference would panic, which stops the whole device.                 *)
(*                                                                          *)
(* A frame is a record: id, is_extended and data, its eight bytes; the dlc  *)
(* is not looked at.  Bytes are numbers, with the hexadecimal beside.  An   *)
(* Option is a sequence of length one or none.                              *)
(***************************************************************************)
EXTENDS Naturals, Sequences

CONSTANTS
    Traffic,    \* the frames of other nodes
    Services    \* the UDS services a tester asks an ECU for

Byte == 0..255

CanFrame == [id : Nat, is_extended : BOOLEAN, data : [1..8 -> Byte]]

\* Services is a subset of 0x10..0x3F, the range of most requests of UDS.
ASSUME SnifferAssumption == Traffic \subseteq CanFrame /\ Services \subseteq 16..63

-----------------------------------------------------------------------------

\* DecodedProtocol, and what takes its place when the code panics.
Raw   == [protocol |-> "Raw"]
Panic == [protocol |-> "Panic"]

\* Obd2Mode and UdsService: Unknown carries the byte, a variant is its discriminant.
Obd2Mode(b) == [known |-> b \in 1..4, code |-> b]

\* Mutant: services are matched before the 0x40 of a response is taken away.
UdsServiceOfSid(sid, base_sid) ==
    [known |-> sid \in {16, 34, 39, 62, 52}, code |-> base_sid]

\* 0x10, 0x22, 0x27, 0x3E and 0x34, five of the eleven variants of UdsService.
UdsService(sid, base_sid) ==
    [known |-> base_sid \in {16, 34, 39, 62, 52}, code |-> base_sid]

\* Mutant: the physical ids of the first ECUs, 0x7E0 and up, are taken for OBD-II too.
ParseObd2RequestPhysical(id, payload) ==
    IF id \in {2015} \cup 2016..2023 /\ payload # <<>>
      THEN <<[protocol |-> "Obd2Request", mode |-> Obd2Mode(payload[1]),
              pid |-> IF Len(payload) > 1 THEN <<payload[2]>> ELSE <<>>]>>
      ELSE <<>>

\* parse_obd2_request: only the broadcast id 0x7DF.
ParseObd2Request(id, payload) ==
    IF id = 2015 /\ payload # <<>>
      THEN <<[protocol |-> "Obd2Request", mode |-> Obd2Mode(payload[1]),
              pid |-> IF Len(payload) > 1 THEN <<payload[2]>> ELSE <<>>]>>
      ELSE <<>>

IsResponse(sid) == sid >= 80

\* parse_uds_message.  The difference is one of u8.
ParseUdsMessage(id, payload) ==
    IF id = 2015 \/ payload = <<>> THEN <<>>
    ELSE LET sid == payload[1]
             base_sid == IF IsResponse(sid) THEN sid - 64 ELSE sid
         IN IF base_sid \notin Byte THEN <<Panic>>
            ELSE <<[protocol |-> "UdsMessage", is_response |-> IsResponse(sid),
                    service |-> UdsService(sid, base_sid)]>>

\* Mutant: the length is trusted.
AnySingleFrame(pci) == pci \div 16 = 0 /\ pci % 16 > 0

\* The length of an ISO-TP single frame is in the low four bits.
SingleFrame(pci) == pci \div 16 = 0 /\ pci % 16 > 0 /\ pci % 16 <= 7

\* OBD-II first, then UDS.
AnalyzeFrame(f) ==
    LET len     == f.data[1] % 16
        payload == SubSeq(f.data, 2, 1 + len)
        obd     == ParseObd2Request(f.id, payload)
        uds     == ParseUdsMessage(f.id, payload)
    IN  IF f.is_extended \/ f.id < 1792 \/ f.id > 2047 \/ ~SingleFrame(f.data[1]) THEN Raw
        ELSE IF 1 + len > 8 THEN Panic
        ELSE IF obd # <<>> THEN obd[1]
        ELSE IF uds # <<>> THEN uds[1]
        ELSE Raw

-----------------------------------------------------------------------------
(* A bus the sniffer listens to: a tester asks an ECU for services, one at  *)
(* a time, and other nodes send what they like.                             *)

VARIABLES
    frame,      \* the last frame usb_tx_task took
    decoded,    \* what analyze_frame made of it
    open        \* <<[sid, shown]>>, the request the ECU has not answered, or <<>>

snifferVars == <<frame, decoded, open>>

\* usb_tx_task analyses each frame it takes from CAN_RX_CHANNEL.
Sniff(f) ==
    /\ frame' = f
    /\ decoded' = AnalyzeFrame(f)

\* A single frame of two bytes.
Message(id, first, second) ==
    [id |-> id, is_extended |-> FALSE, data |-> <<2, first, second, 0, 0, 0, 0, 0>>]

\* The physical ids of an engine ECU: 0x7E0 to ask it, 0x7E8 for its answers.
Ask(sid) ==
    /\ open = <<>>
    /\ Sniff(Message(2016, sid, 1))
    /\ open' = <<[sid |-> sid, shown |-> decoded']>>

\* The positive response: 0x40 is added to the service.
Accept ==
    /\ open # <<>>
    /\ Sniff(Message(2024, open[1].sid + 64, 1))
    /\ open' = <<>>

\* The negative response: 0x7F and the service.
Refuse ==
    /\ open # <<>>
    /\ Sniff(Message(2024, 127, open[1].sid))
    /\ open' = <<>>

SomeNode ==
    /\ \E f \in Traffic : Sniff(f)
    /\ UNCHANGED open

SnifferInit ==
    /\ frame \in Traffic
    /\ decoded = AnalyzeFrame(frame)
    /\ open = <<>>

SnifferNext ==
    \/ \E sid \in Services : Ask(sid)
    \/ Accept
    \/ Refuse
    \/ SomeNode

SnifferSpec == SnifferInit /\ [][SnifferNext]_snifferVars

-----------------------------------------------------------------------------
(* Properties.                                                              *)

\* No traffic, however malformed, makes the sniffer index past the frame or underflow
\* a byte: a panic in usb_tx_task would stop the adapter.
SnifferNeverPanics == decoded # Panic

\* What is recognised: standard ids from 0x700 to 0x7FF whose first byte is a length
\* from 1 to 7; all of 0x7DF is OBD-II, with its second byte if there is one, and all
\* the rest is UDS.
Diagnostic(f) == ~f.is_extended /\ f.id \in 1792..2047 /\ f.data[1] \in 1..7

ShownIsWhatWasSent ==
    /\ (decoded.protocol = "Raw") <=> ~Diagnostic(frame)
    /\ (decoded.protocol = "Obd2Request") <=> Diagnostic(frame) /\ frame.id = 2015
    /\ decoded.protocol = "Obd2Request" =>
           /\ decoded.mode.code = frame.data[2]
           /\ decoded.pid = IF frame.data[1] = 1 THEN <<>> ELSE <<frame.data[3]>>

\* A request and its positive response are shown as the same service, the first as a
\* request and the second as a response, whatever was sniffed in between.
AnswersPair ==
    [][Accept => /\ ~open[1].shown.is_response
                 /\ decoded'.is_response
                 /\ decoded'.service = open[1].shown.service]_snifferVars
=============================================================================
