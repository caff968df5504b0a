------------------------- MODULE CanProtocol_proofs -------------------------
(***************************************************************************)
(* Theorems about the sniffer, for any traffic and any set of services from *)
(* 0x10 to 0x3F.  The sniffer keeps no state, so everything follows from    *)
(* two lemmas: what a byte says of its frame, and what AnalyzeFrame makes   *)
(* of a frame.                                                              *)
(***************************************************************************)
EXTENDS CanProtocol, SequenceTheorems, TLAPS

\* The test of the two halves of the first byte is a test of its value.
LEMMA SingleFrameByte ==
    ASSUME NEW pci \in Byte
    PROVE  SingleFrame(pci) <=> pci \in 1..7
BY DEF SingleFrame, Byte

\* The length the low half gives is that value.
LEMMA SingleFrameLength ==
    ASSUME NEW pci \in 1..7
    PROVE  pci % 16 = pci
OBVIOUS

\* A frame that is not diagnostic is Raw.
LEMMA NotDiagnostic ==
    ASSUME NEW f \in CanFrame, ~Diagnostic(f)
    PROVE  AnalyzeFrame(f) = Raw
<1>1. f.data[1] \in Byte
  BY DEF CanFrame
<1>2. SingleFrame(f.data[1]) <=> f.data[1] \in 1..7
  BY <1>1, SingleFrameByte
<1>3. f.id \in Nat
  BY DEF CanFrame
<1>4. f.is_extended \/ f.id < 1792 \/ f.id > 2047 \/ ~SingleFrame(f.data[1])
  BY <1>2, <1>3 DEF Diagnostic
<1> QED
  BY <1>4 DEF AnalyzeFrame

\* The payload of a diagnostic frame: as long as its first byte says, from the second.
LEMMA PayloadOf ==
    ASSUME NEW f \in CanFrame, Diagnostic(f),
           NEW payload, payload = SubSeq(f.data, 2, 1 + (f.data[1] % 16))
    PROVE  /\ payload # <<>>
           /\ Len(payload) = f.data[1]
           /\ payload[1] = f.data[2]
           /\ f.data[1] # 1 => payload[2] = f.data[3]
<1>1. f.data \in [1..8 -> Byte]
  BY DEF CanFrame
<1>2. f.data[1] \in 1..7 /\ f.data[1] % 16 = f.data[1]
  BY SingleFrameLength DEF Diagnostic
<1>3. \A i \in 2..1 + f.data[1] : f.data[i] \in Byte
  BY <1>1, <1>2
<1>4. payload = SubSeq(f.data, 2, 1 + f.data[1])
  BY <1>2
<1>5. /\ Len(payload) = f.data[1]
      /\ payload \in Seq(Byte)
      /\ \A i \in 1..f.data[1] : payload[i] = f.data[i + 1]
  <2> DEFINE n == 1 + f.data[1]
  <2>1. n \in Int /\ 2 <= n /\ n - 2 + 1 = f.data[1]
    BY <1>2
  <2>2. \A i \in 2..n : f.data[i] \in Byte
    BY <1>3
  <2> HIDE DEF n
  <2>3. /\ SubSeq(f.data, 2, n) \in Seq(Byte)
        /\ Len(SubSeq(f.data, 2, n)) = IF 2 <= n THEN n - 2 + 1 ELSE 0
        /\ \A i \in 1..n - 2 + 1 : SubSeq(f.data, 2, n)[i] = f.data[2 + i - 1]
    BY <2>1, <2>2, SubSeqProperties
  <2>4. \A i \in 1..f.data[1] : 2 + i - 1 = i + 1
    BY <1>2
  <2> QED
    BY <1>4, <2>1, <2>3, <2>4 DEF n
<1>6. payload # <<>>
  <2>1. Len(payload) = 0 <=> payload = <<>>
    BY <1>5, EmptySeq, Zenon
  <2> QED
    BY <1>2, <1>5, <2>1
<1>7. 1 \in 1..f.data[1] /\ 1 + 1 = 2
  BY <1>2
<1>8. f.data[1] # 1 => 2 \in 1..f.data[1] /\ 2 + 1 = 3
  BY <1>2
<1> QED
  BY <1>5, <1>6, <1>7, <1>8

\* What a diagnostic frame is decoded to.
LEMMA DiagnosticFrame ==
    ASSUME NEW f \in CanFrame, Diagnostic(f)
    PROVE  LET sid == f.data[2] IN
           AnalyzeFrame(f) =
             IF f.id = 2015
               THEN [protocol |-> "Obd2Request", mode |-> Obd2Mode(sid),
                     pid |-> IF f.data[1] = 1 THEN <<>> ELSE <<f.data[3]>>]
               ELSE [protocol |-> "UdsMessage", is_response |-> IsResponse(sid),
                     service |-> UdsService(sid, IF sid >= 80 THEN sid - 64 ELSE sid)]
<1> DEFINE sid     == f.data[2]
           payload == SubSeq(f.data, 2, 1 + (f.data[1] % 16))
           obd     == ParseObd2Request(f.id, payload)
           uds     == ParseUdsMessage(f.id, payload)
<1>1. /\ f.data[1] \in 1..7 /\ f.data[1] % 16 = f.data[1]
      /\ f.id \in 1792..2047 /\ ~f.is_extended
  BY SingleFrameLength DEF Diagnostic
<1>2. SingleFrame(f.data[1])
  BY <1>1, SingleFrameByte DEF Byte
<1>3. sid \in 0..255
  BY DEF CanFrame, Byte
<1>4. /\ payload # <<>> /\ payload[1] = sid
      /\ Len(payload) = f.data[1]
      /\ f.data[1] # 1 => payload[2] = f.data[3]
  BY PayloadOf
<1> HIDE DEF payload
<1>5. AnalyzeFrame(f) = IF obd # <<>> THEN obd[1] ELSE IF uds # <<>> THEN uds[1] ELSE Raw
  <2>1. ~(f.is_extended \/ f.id < 1792 \/ f.id > 2047 \/ ~SingleFrame(f.data[1]))
    BY <1>1, <1>2
  <2>2. ~(1 + (f.data[1] % 16) > 8)
    BY <1>1
  <2> QED
    BY <2>1, <2>2 DEF AnalyzeFrame, payload
<1>6. CASE f.id = 2015
  <2>1. obd = <<[protocol |-> "Obd2Request", mode |-> Obd2Mode(sid),
                 pid |-> IF f.data[1] = 1 THEN <<>> ELSE <<f.data[3]>>]>>
    BY <1>1, <1>4, <1>6 DEF ParseObd2Request
  <2> QED
    BY <1>5, <1>6, <2>1
<1>7. CASE f.id # 2015
  <2>1. obd = <<>>
    BY <1>7 DEF ParseObd2Request
  <2>2. (IF IsResponse(sid) THEN sid - 64 ELSE sid) \in Byte
    BY <1>3 DEF IsResponse, Byte
  <2>3. uds = <<[protocol |-> "UdsMessage", is_response |-> IsResponse(sid),
                 service |-> UdsService(sid, IF sid >= 80 THEN sid - 64 ELSE sid)]>>
    BY <1>4, <1>7, <2>2 DEF ParseUdsMessage, IsResponse
  <2> QED
    BY <1>5, <1>7, <2>1, <2>3
<1> QED
  BY <1>6, <1>7

-----------------------------------------------------------------------------
(* The sniffer on a bus.                                                    *)

\* A frame of two bytes is diagnostic when its id is.
LEMMA MessageIsDiagnostic ==
    ASSUME NEW id \in 1792..2047, NEW first \in Byte, NEW second \in Byte
    PROVE  /\ Message(id, first, second) \in CanFrame
           /\ Diagnostic(Message(id, first, second))
           /\ Message(id, first, second).data[2] = first
           /\ Message(id, first, second).id = id
<1>1. <<2, first, second, 0, 0, 0, 0, 0>> \in [1..8 -> Byte]
  BY DEF Byte
<1>2. id \in Nat
  OBVIOUS
<1> QED
  BY <1>1, <1>2 DEF Message, CanFrame, Diagnostic

\* What is shown of the last frame is what AnalyzeFrame makes of it, and a request
\* waits for its answer with what was shown of it.
IInv ==
    /\ frame \in CanFrame
    /\ decoded = AnalyzeFrame(frame)
    /\ open # <<>> =>
           \E sid \in Services :
               open = <<[sid |-> sid, shown |-> AnalyzeFrame(Message(2016, sid, 1))]>>

\* IInv is inductive.
LEMMA Inductive == SnifferSpec => []IInv
<1>1. SnifferInit => IInv
  BY SnifferAssumption DEF SnifferInit, IInv
<1>2. IInv /\ [SnifferNext]_snifferVars => IInv'
  <2> SUFFICES ASSUME IInv, [SnifferNext]_snifferVars PROVE IInv'
    OBVIOUS
  <2> USE SnifferAssumption DEF IInv
  <2>1. ASSUME NEW sid \in Services, Ask(sid) PROVE IInv'
    <3>1. sid \in Byte /\ 1 \in Byte
      BY DEF Byte
    <3>2. Message(2016, sid, 1) \in CanFrame
      BY <3>1, MessageIsDiagnostic
    <3> QED
      BY <2>1, <3>2 DEF Ask, Sniff
  <2>2. CASE Accept
    <3>1. PICK sid \in Services : open[1].sid = sid
      BY <2>2 DEF Accept
    <3>2. sid + 64 \in Byte /\ 1 \in Byte
      BY DEF Byte
    <3>3. Message(2024, sid + 64, 1) \in CanFrame
      BY <3>2, MessageIsDiagnostic
    <3> QED
      BY <2>2, <3>1, <3>3 DEF Accept, Sniff
  <2>3. CASE Refuse
    <3>1. PICK sid \in Services : open[1].sid = sid
      BY <2>3 DEF Refuse
    <3>2. sid \in Byte /\ 127 \in Byte
      BY DEF Byte
    <3>3. Message(2024, 127, sid) \in CanFrame
      BY <3>2, MessageIsDiagnostic
    <3> QED
      BY <2>3, <3>1, <3>3 DEF Refuse, Sniff
  <2>4. CASE SomeNode
    BY <2>4 DEF SomeNode, Sniff
  <2>5. CASE UNCHANGED snifferVars
    BY <2>5 DEF snifferVars
  <2> QED
    BY <2>1, <2>2, <2>3, <2>4, <2>5 DEF SnifferNext
<1> QED
  BY <1>1, <1>2, PTL DEF SnifferSpec

\* A panic is none of the values the lemmas give.
THEOREM NeverPanics == SnifferSpec => []SnifferNeverPanics
<1>1. IInv => SnifferNeverPanics
  <2> SUFFICES ASSUME IInv PROVE decoded.protocol # "Panic"
    BY DEF SnifferNeverPanics, Panic
  <2>1. CASE Diagnostic(frame)
    BY <2>1, DiagnosticFrame DEF IInv
  <2>2. CASE ~Diagnostic(frame)
    BY <2>2, NotDiagnostic DEF IInv, Raw
  <2> QED
    BY <2>1, <2>2
<1> QED
  BY <1>1, Inductive, PTL

\* What is shown says what was sent, byte for byte.
THEOREM Recognition == SnifferSpec => []ShownIsWhatWasSent
<1>1. IInv => ShownIsWhatWasSent
  <2> SUFFICES ASSUME IInv PROVE ShownIsWhatWasSent
    OBVIOUS
  <2>1. CASE Diagnostic(frame)
    BY <2>1, DiagnosticFrame DEF IInv, ShownIsWhatWasSent, Obd2Mode
  <2>2. CASE ~Diagnostic(frame)
    BY <2>2, NotDiagnostic DEF IInv, ShownIsWhatWasSent, Raw
  <2> QED
    BY <2>1, <2>2
<1> QED
  BY <1>1, Inductive, PTL

\* How a service asked for is shown.
LEMMA ShownRequest ==
    ASSUME NEW sid \in 16..63
    PROVE  AnalyzeFrame(Message(2016, sid, 1)) =
             [protocol |-> "UdsMessage", is_response |-> FALSE, service |-> UdsService(sid, sid)]
<1> DEFINE f == Message(2016, sid, 1)
<1>1. sid \in Byte /\ 1 \in Byte /\ 2016 \in 1792..2047
  BY DEF Byte
<1>2. f \in CanFrame /\ Diagnostic(f)
  BY <1>1, MessageIsDiagnostic
<1>3. f.data[2] = sid /\ f.id = 2016
  BY DEF Message
<1> HIDE DEF f
<1>4. AnalyzeFrame(f) = [protocol |-> "UdsMessage", is_response |-> IsResponse(sid),
                         service |-> UdsService(sid, IF sid >= 80 THEN sid - 64 ELSE sid)]
  BY <1>2, <1>3, DiagnosticFrame
<1>5. IsResponse(sid) = FALSE /\ (IF sid >= 80 THEN sid - 64 ELSE sid) = sid
  BY DEF IsResponse
<1>6. AnalyzeFrame(f) = [protocol |-> "UdsMessage", is_response |-> FALSE,
                         service |-> UdsService(sid, sid)]
  BY <1>4, <1>5
<1> QED
  BY <1>6 DEF f

\* How its positive response is shown.
LEMMA ShownResponse ==
    ASSUME NEW rsp \in 80..127
    PROVE  AnalyzeFrame(Message(2024, rsp, 1)) =
             [protocol |-> "UdsMessage", is_response |-> TRUE,
              service |-> UdsService(rsp, rsp - 64)]
<1> DEFINE f == Message(2024, rsp, 1)
<1>1. rsp \in Byte /\ 1 \in Byte /\ 2024 \in 1792..2047
  BY DEF Byte
<1>2. IsResponse(rsp) = TRUE /\ (IF rsp >= 80 THEN rsp - 64 ELSE rsp) = rsp - 64
  BY DEF IsResponse
<1>3. f \in CanFrame /\ Diagnostic(f)
  BY <1>1, MessageIsDiagnostic
<1>4. f.data[2] = rsp /\ f.id = 2024
  BY DEF Message
<1> HIDE DEF f
<1>5. AnalyzeFrame(f) = [protocol |-> "UdsMessage", is_response |-> IsResponse(rsp),
                         service |-> UdsService(rsp, IF rsp >= 80 THEN rsp - 64 ELSE rsp)]
  BY <1>3, <1>4, DiagnosticFrame
<1>6. AnalyzeFrame(f) = [protocol |-> "UdsMessage", is_response |-> TRUE,
                         service |-> UdsService(rsp, rsp - 64)]
  BY <1>2, <1>5
<1> QED
  BY <1>6 DEF f

\* A positive response is shown with the service of the request that is open.
THEOREM RequestsAndAnswers == SnifferSpec => AnswersPair
<1>1. ASSUME IInv, IInv', Accept
      PROVE  /\ ~open[1].shown.is_response
             /\ decoded'.is_response
             /\ decoded'.service = open[1].shown.service
  <2>1. PICK sid \in Services :
          open = <<[sid |-> sid, shown |-> AnalyzeFrame(Message(2016, sid, 1))]>>
    BY <1>1 DEF Accept, IInv
  <2>2. sid \in 16..63
    BY SnifferAssumption
  <2>3. open[1].shown = AnalyzeFrame(Message(2016, sid, 1)) /\ open[1].sid = sid
    BY <2>1
  <2>4. decoded' = AnalyzeFrame(Message(2024, sid + 64, 1))
    BY <1>1, <2>3 DEF Accept, Sniff
  <2>5. AnalyzeFrame(Message(2016, sid, 1)) =
          [protocol |-> "UdsMessage", is_response |-> FALSE, service |-> UdsService(sid, sid)]
    BY <2>2, ShownRequest
  <2> DEFINE rsp == sid + 64
  <2>6. rsp \in 80..127 /\ rsp - 64 = sid
    BY <2>2
  <2> HIDE DEF rsp
  <2>7. AnalyzeFrame(Message(2024, rsp, 1)) =
          [protocol |-> "UdsMessage", is_response |-> TRUE,
           service |-> UdsService(rsp, rsp - 64)]
    BY <2>6, ShownResponse
  <2>8. UdsService(rsp, rsp - 64) = UdsService(sid, sid)
    BY <2>6 DEF UdsService
  <2>9. decoded' = AnalyzeFrame(Message(2024, rsp, 1))
    BY <2>4 DEF rsp
  <2> QED
    BY <2>3, <2>5, <2>7, <2>8, <2>9
<1> QED
  BY <1>1, Inductive, PTL DEF SnifferSpec, AnswersPair
=============================================================================
