--------------------------- MODULE FramingProofs ---------------------------
(***************************************************************************)
(* Proofs about Framing for every length of buffer, payload and packet,    *)
(* and for bytes of any size, the firmware's among them.                   *)
(***************************************************************************)
EXTENDS Framing, SequenceTheorems, TLAPS

LEMMA ConstantFacts ==
  /\ Half \in Nat /\ Half >= 2
  /\ ByteSize \in Nat /\ ByteSize >= 4
  /\ WordSize \in Nat /\ BufferSize + 5 < WordSize
  /\ BufferSize \in Nat /\ 5 < BufferSize
  /\ Trailer \in Nat /\ Trailer >= 2 /\ Trailer % 2 = 0
  /\ Reqlens \subseteq Nat
  /\ MaxPacket \in Nat /\ MaxHead \in Nat /\ Strings \subseteq Nat
<1>1. /\ Half \in Nat /\ Half >= 2
      /\ BufferSize \in Nat /\ 5 < BufferSize /\ BufferSize + 5 < WordSize
  BY CodecAssumption
<1>2. ByteSize \in Nat /\ ByteSize >= 4
  BY <1>1 DEF ByteSize
<1>3. WordSize \in Nat
  BY <1>2 DEF WordSize
<1> QED
  BY <1>1, <1>2, <1>3, FramingAssumption

-----------------------------------------------------------------------------
(* The receive path delivers the payload and stays within its buffers.     *)

\* What has been received and what is still to come make up the stream; words
\* keep the count even until the stream ends; a full first chunk holds at
\* least what was asked for.
StreamInv ==
  /\ Reqlen \in Nat /\ payload \in Nat /\ payload <= Reqlen
  /\ rest \in Nat /\ length \in Nat /\ len \in Nat
  /\ phase \in {"short", "long", "tail", "received", "handled", "built"}
  /\ Reading /\ rest > 0 => length % 2 = 0
  /\ phase \in {"short", "long"} => length + rest = payload + Trailer
  /\ phase = "long" => length <= Reqlen + (Reqlen % 2)
  /\ phase = "tail" =>
       /\ len + length + rest = payload + Trailer
       /\ Reqlen <= len /\ len <= Reqlen + (Reqlen % 2)
       /\ length <= Trailer
  /\ PayloadExact

LEMMA InitStream == Init => StreamInv
  BY ConstantFacts DEF Init, StreamInv, Reading, PayloadExact

\* A word fits in a chunk that is not full.
LEMMA WordStep ==
  ASSUME StreamInv, ReadWord
  PROVE  StreamInv'
<1>1. /\ rest > 0 /\ length % 2 = 0 /\ length < Limit /\ Reading
      /\ UNCHANGED <<phase, Reqlen, payload, len, ReadData>>
  BY DEF ReadWord, More, StreamInv, vars
<1>2. Reading' = Reading
  BY <1>1 DEF Reading
<1>3. CASE rest = 1
  <2>1. length' = length + 1 /\ rest' = 0
    BY <1>3 DEF ReadWord, WordLength, StreamInv
  <2> QED
    BY <1>1, <1>2, <2>1, <1>3, ConstantFacts DEF StreamInv, Limit, PayloadExact, Reading
<1>4. CASE rest # 1
  <2>1. length' = length + 2 /\ rest' = rest - 2 /\ rest >= 2
    BY <1>1, <1>4 DEF ReadWord, WordLength, StreamInv
  <2>2. length' % 2 = 0
    BY <1>1, <2>1 DEF StreamInv
  <2>3. phase = "long" => length' <= Reqlen + (Reqlen % 2)
    BY <1>1, <2>1 DEF StreamInv, Limit
  <2>4. phase = "tail" => length' <= Trailer
    BY <1>1, <2>1, ConstantFacts DEF StreamInv, Limit
  <2> QED
    BY <1>1, <1>2, <2>1, <2>2, <2>3, <2>4, ConstantFacts DEF StreamInv, PayloadExact, Reading
<1> QED
  BY <1>3, <1>4

\* When the last chunk ends the stream has ended, so the trailer is found.
LEMMA ReceivedStep ==
  ASSUME StreamInv, NEW n,
         Reading, Received(n), rest = 0 => n = payload + Trailer, rest = 0
  PROVE  StreamInv'
  BY ConstantFacts DEF StreamInv, Received, Reading, PayloadExact

LEMMA NextStream ==
  ASSUME StreamInv, [Next]_vars
  PROVE  StreamInv'
<1>1. CASE ReadWord
  BY <1>1, WordStep
<1>2. CASE ReceiveShortDataLen
  <2>1. phase = "short" /\ ~More /\ Received(length) /\ Reading
    BY <1>2 DEF ReceiveShortDataLen, ChunkEnds, Reading
  <2>2. rest = 0
    BY <2>1, ConstantFacts DEF More, Limit, StreamInv
  <2>3. length = payload + Trailer
    BY <2>1, <2>2, ConstantFacts DEF StreamInv
  <2> QED
    BY <2>1, <2>2, <2>3, ReceivedStep
<1>3. CASE ReceiveLongDataLen
  <2>1. CASE ChunkEnds("long") /\ rest = 0 /\ Received(length)
    <3>1. Reading /\ length = payload + Trailer
      BY <2>1, ConstantFacts DEF ChunkEnds, Reading, StreamInv
    <3> QED
      BY <2>1, <3>1, ReceivedStep
  <2>2. CASE /\ ChunkEnds("long") /\ rest > 0
             /\ phase' = "tail"
             /\ len' = length
             /\ length' = 0
             /\ UNCHANGED <<Reqlen, payload, rest, ReadData, packetVars, outVars>>
    <3>1. phase = "long" /\ length >= Reqlen
      BY <2>2 DEF ChunkEnds, More, Limit, StreamInv
    <3> QED
      BY <2>2, <3>1, ConstantFacts DEF StreamInv, Reading, PayloadExact
  <2>3. CASE ChunkEnds("tail") /\ Received(len + length)
    <3>1. phase = "tail" /\ Reading /\ ~More
      BY <2>3 DEF ChunkEnds, Reading
    <3>2. rest = 0
      BY <3>1, ConstantFacts DEF More, Limit, StreamInv
    <3>3. len + length = payload + Trailer
      BY <3>1, <3>2, ConstantFacts DEF StreamInv
    <3> QED
      BY <2>3, <3>1, <3>2, <3>3, ReceivedStep
  <2> QED
    BY <1>3, <2>1, <2>2, <2>3 DEF ReceiveLongDataLen
<1>4. CASE Poll
  BY <1>4 DEF Poll, inVars, StreamInv, Reading, PayloadExact
<1>5. CASE SendConnect \/ SendSubscribe
  BY <1>5 DEF SendConnect, SendSubscribe, Send, inVars, StreamInv, Reading, PayloadExact
<1>6. CASE UNCHANGED vars
  BY <1>6 DEF vars, inVars, StreamInv, Reading, PayloadExact
<1> QED
  BY <1>1, <1>2, <1>3, <1>4, <1>5, <1>6 DEF Next

THEOREM StreamInvariant == Spec => []StreamInv
  BY InitStream, NextStream, PTL DEF Spec

\* ES_WIFI_ReceiveData hands over exactly the payload for every length asked
\* for and every length of payload, odd or even, short or long
\* (es_wifi.c:576-630).
THEOREM ReceivesPayload == Spec => []PayloadExact
<1>1. StreamInv => PayloadExact
  BY DEF StreamInv
<1> QED
  BY <1>1, StreamInvariant, PTL

\* Receiving writes at most one byte more than was asked for, and that only
\* when an odd number was (es_wifi_io.c:238-256).
THEOREM ReceivesInBounds == Spec => []WritesInBounds
<1>1. StreamInv => WritesInBounds
  BY DEF StreamInv, WritesInBounds
<1> QED
  BY <1>1, StreamInvariant, PTL

-----------------------------------------------------------------------------
(* Reading a packet stays within what was received.                        *)

LEMMA ByteFacts == Byte \subseteq Nat /\ {0, 1} \subseteq Byte
  BY ConstantFacts DEF Byte

LEMMA BytesOfSeq ==
  ASSUME NEW b \in Seq(Byte), NEW i \in 1 .. Len(b)
  PROVE  b[i] \in Nat
<1>1. b[i] \in Byte
  BY ElementOfSeq
<1> QED
  BY <1>1, ByteFacts

LEMMA LengthEndsOnce ==
  ASSUME NEW b \in Seq(Byte), NEW j \in LengthEnds(b), NEW k \in LengthEnds(b)
  PROVE  j = k
<1>1. /\ j \in 1 .. 4 /\ k \in 1 .. 4
      /\ j \in 1 .. Len(b) /\ k \in 1 .. Len(b)
      /\ b[j] < Half /\ b[k] < Half
      /\ \A i \in 1 .. j - 1 : b[i] >= Half
      /\ \A i \in 1 .. k - 1 : b[i] >= Half
  BY LenProperties DEF LengthEnds, MaxLengthBytes
<1>2. b[j] \in Nat /\ b[k] \in Nat
  BY <1>1, BytesOfSeq
<1>3. ~(j < k) /\ ~(k < j)
  BY <1>1, <1>2, ConstantFacts
<1> QED
  BY <1>1, <1>3

LEMMA PowerFacts == \A k \in 1 .. 4 : Power[k] \in Nat
<1>1. Half \in Nat /\ Half * Half \in Nat /\ Half * Half * Half \in Nat
  BY ConstantFacts
<1> QED
  BY <1>1 DEF Power

LEMMA RemainingLengthNat ==
  ASSUME NEW b \in Seq(Byte), NEW k \in LengthEnds(b)
  PROVE  RemainingLength(b, k) \in Nat
<1>1. k \in 1 .. 4 /\ k \in 1 .. Len(b)
  BY LenProperties DEF LengthEnds, MaxLengthBytes
<1>2. ASSUME NEW j \in 1 .. 4
      PROVE  Digit(b, k, j) \in Nat
  <2>1. CASE j <= k
    <3>1. b[j] \in Nat
      BY <1>1, <2>1, BytesOfSeq
    <3>2. b[j] % Half \in Nat
      BY <3>1, ConstantFacts
    <3>3. Power[j] \in Nat
      BY PowerFacts
    <3> QED
      BY <2>1, <3>2, <3>3 DEF Digit
  <2> QED
    BY <2>1 DEF Digit
<1> QED
  BY <1>2 DEF RemainingLength

\* Every packet that is acted on was read and judged in one go.
HandledInv ==
  phase = "handled" =>
    /\ verdict = HandleIncomingPacket(header, body)
    /\ header \in Headers
    /\ body \in Seq(Byte) /\ Len(body) < BufferSize

\* The bytes Poll chooses from.
LEMMA PollBody ==
  ASSUME StreamInv, Poll
  PROVE  body' \in Seq(Byte) /\ Len(body') < BufferSize
<1>1. PICK head \in [1 .. Smaller(ReadData - 1, MaxHead) -> Byte],
           tail \in [1 .. ReadData - 1 - Smaller(ReadData - 1, MaxHead) -> {0, 1}] :
        body' = head \o tail
  BY DEF Poll
<1>2. ReadData \in Nat /\ ReadData >= 1 /\ ReadData <= BufferSize
  BY ConstantFacts DEF Poll, StreamInv, PayloadExact, Reading
<1>3. /\ Smaller(ReadData - 1, MaxHead) \in Nat
      /\ ReadData - 1 - Smaller(ReadData - 1, MaxHead) \in Nat
  BY <1>2, ConstantFacts DEF Smaller
<1>4. head \in Seq(Byte) /\ Len(head) = Smaller(ReadData - 1, MaxHead)
  BY <1>1, <1>3
<1>5. /\ tail \in Seq(Byte)
      /\ Len(tail) = ReadData - 1 - Smaller(ReadData - 1, MaxHead)
  <2>1. /\ tail \in Seq({0, 1})
        /\ Len(tail) = ReadData - 1 - Smaller(ReadData - 1, MaxHead)
    BY <1>1, <1>3
  <2> QED
    BY <2>1, ByteFacts, SeqMonotonic
<1>6. body' \in Seq(Byte) /\ Len(body') = Len(head) + Len(tail)
  BY <1>1, <1>4, <1>5, ConcatProperties
<1> QED
  BY <1>2, <1>3, <1>4, <1>5, <1>6, ConstantFacts

LEMMA NextHandled ==
  ASSUME StreamInv, HandledInv, [Next]_vars
  PROVE  HandledInv'
<1>1. CASE Poll
  BY <1>1, PollBody DEF Poll, HandledInv
<1>2. CASE ReadWord
  BY <1>2 DEF ReadWord, Reading, HandledInv
<1>3. CASE ReceiveShortDataLen
  BY <1>3 DEF ReceiveShortDataLen, Received, HandledInv
<1>4. CASE ReceiveLongDataLen
  BY <1>4 DEF ReceiveLongDataLen, Received, HandledInv
<1>5. CASE SendConnect \/ SendSubscribe
  BY <1>5 DEF SendConnect, SendSubscribe, Send, HandledInv
<1>6. CASE UNCHANGED vars
  BY <1>6 DEF vars, packetVars, HandledInv
<1> QED
  BY <1>1, <1>2, <1>3, <1>4, <1>5, <1>6 DEF Next

\* A packet that was not rejected ends where its length says, within the bytes
\* received: the sum of sixteen bits did not wrap around.
LEMMA NotRejected ==
  ASSUME NEW b \in Seq(Byte), Len(b) < BufferSize,
         NEW k \in LengthEnds(b), NEW qos,
         ~Rejected(b, k + 1, RemainingLength(b, k), qos)
  PROVE  /\ PayloadOffset(b, k + 1, qos) <= EndOffset(k + 1, RemainingLength(b, k))
         /\ EndOffset(k + 1, RemainingLength(b, k)) = k + 1 + RemainingLength(b, k)
         /\ k + RemainingLength(b, k) <= Len(b)
<1> DEFINE remaining == RemainingLength(b, k)
<1>1. k \in 1 .. 4 /\ k <= Len(b) /\ Len(b) \in Nat
  BY DEF LengthEnds, MaxLengthBytes
<1>2. remaining \in Nat
  BY RemainingLengthNat
<1>3. /\ ~TooLong(b, k + 1, remaining)
      /\ ~(PayloadOffset(b, k + 1, qos) > EndOffset(k + 1, remaining))
  BY DEF Rejected
<1>4. /\ ~(remaining > Len(b) + 1)
      /\ ~(EndOffset(k + 1, remaining) > Len(b) + 1)
      /\ ~(k + 1 + 2 > Len(b) + 1)
  BY <1>3 DEF TooLong
<1> HIDE DEF remaining
<1>5. k + 1 + remaining < WordSize /\ k + 1 + remaining \in Nat
  BY <1>1, <1>2, <1>4, ConstantFacts
<1>6. EndOffset(k + 1, remaining) = k + 1 + remaining
  BY <1>5, ConstantFacts DEF EndOffset
<1>7. \A i \in 1 .. Len(b) : b[i] \in Nat
  BY BytesOfSeq
<1>8. b[k + 1] \in Nat /\ b[k + 2] \in Nat
  BY <1>1, <1>4, <1>7
<1>9. b[k + 1] * ByteSize \in Nat
  BY <1>8, ConstantFacts
<1>10. PayloadOffset(b, k + 1, qos) \in Nat
  BY <1>1, <1>8, <1>9 DEF PayloadOffset, TopicEnd, TwoBytes
<1>11. PayloadOffset(b, k + 1, qos) <= k + 1 + remaining
  BY <1>3, <1>5, <1>6, <1>10
<1>12. k + remaining <= Len(b)
  BY <1>1, <1>2, <1>4, <1>6
<1> QED
  BY <1>6, <1>11, <1>12 DEF remaining

LEMMA HandledInBounds == HandledInv => ReadsInBounds
<1> SUFFICES ASSUME HandledInv, phase = "handled", header.type = "PUBLISH",
                    verdict.kind \in {"wake", "unsupported"},
                    NEW k \in LengthEnds(body)
             PROVE  /\ PayloadOffset(body, k + 1, header.qos)
                         <= EndOffset(k + 1, RemainingLength(body, k))
                    /\ EndOffset(k + 1, RemainingLength(body, k))
                         = k + 1 + RemainingLength(body, k)
                    /\ k + RemainingLength(body, k) <= Len(body)
  BY DEF ReadsInBounds
<1>1. /\ verdict = HandleIncomingPacket(header, body)
      /\ body \in Seq(Byte) /\ Len(body) < BufferSize
  BY DEF HandledInv
<1>2. Len(body) # 0
  BY <1>1 DEF HandleIncomingPacket, Verdict
<1> DEFINE n == CHOOSE m \in LengthEnds(body) : TRUE
<1>3. n = k
  <2>1. n \in LengthEnds(body)
    OBVIOUS
  <2> QED
    BY <1>1, <2>1, LengthEndsOnce
<1>4. verdict = HandlePublish(body, k + 1, RemainingLength(body, k), header.qos)
  <2>1. verdict = HandlePublish(body, n + 1, RemainingLength(body, n), header.qos)
    BY <1>1, <1>2 DEF HandleIncomingPacket
  <2> HIDE DEF n
  <2> QED
    BY <1>3, <2>1
<1>5. ~Rejected(body, k + 1, RemainingLength(body, k), header.qos)
  BY <1>4 DEF HandlePublish, Verdict
<1> QED
  BY <1>1, <1>5, NotRejected

THEOREM HandledInvariant == Spec => []HandledInv
<1>1. Init => HandledInv
  BY DEF Init, HandledInv
<1>2. StreamInv /\ HandledInv /\ [Next]_vars => HandledInv'
  BY NextHandled
<1> QED
  BY <1>1, <1>2, StreamInvariant, PTL DEF Spec

\* Whatever lengths a packet claims, the MQTT client takes for topic,
\* identifier and payload only bytes that were received
\* (mqtt_client.c:239-276).
THEOREM ReadsWhatWasReceived == Spec => []ReadsInBounds
  BY HandledInvariant, HandledInBounds, PTL

-----------------------------------------------------------------------------
(* Type correctness.                                                       *)

LEMMA TwoBytesWord ==
  ASSUME NEW b \in Seq(Byte), NEW i \in 1 .. Len(b), i + 1 \in 1 .. Len(b)
  PROVE  TwoBytes(b, i) \in 0 .. WordSize - 1
<1>1. b[i] \in 0 .. ByteSize - 1 /\ b[i + 1] \in 0 .. ByteSize - 1
  BY ElementOfSeq DEF Byte
<1> DEFINE high == b[i]
           low == b[i + 1]
<1>2. high \in 0 .. ByteSize - 1 /\ low \in 0 .. ByteSize - 1
  BY <1>1
<1> HIDE DEF high, low
<1>3. high * ByteSize \in Nat /\ high * ByteSize <= (ByteSize - 1) * ByteSize
  BY <1>2, ConstantFacts
<1>4. (ByteSize - 1) * ByteSize = WordSize - ByteSize
  BY ConstantFacts DEF WordSize
<1>5. high * ByteSize + low \in 0 .. WordSize - 1
  BY <1>2, <1>3, <1>4, ConstantFacts
<1> QED
  BY <1>5 DEF high, low, TwoBytes

Verdicts ==
  [kind : {"none", "ignored", "noted", "rejected", "wake", "unsupported"},
   id : -1 .. WordSize - 1]

LEMMA VerdictType ==
  ASSUME NEW b \in Seq(Byte), Len(b) < BufferSize, NEW h \in Headers
  PROVE  HandleIncomingPacket(h, b) \in Verdicts
<1>1. CASE \/ Len(b) = 0 \/ LengthEnds(b) = {} \/ h.type # "PUBLISH"
  <2>1. HandleIncomingPacket(h, b) \in
          {Verdict("ignored", -1), Verdict("rejected", -1), Verdict("noted", -1)}
    BY <1>1 DEF HandleIncomingPacket
  <2> QED
    BY <2>1, ConstantFacts DEF Verdict, Verdicts
<1>2. CASE ~(Len(b) = 0 \/ LengthEnds(b) = {} \/ h.type # "PUBLISH")
  <2> DEFINE k == CHOOSE n \in LengthEnds(b) : TRUE
             offset == k + 1
             remaining == RemainingLength(b, k)
  <2>1. k \in LengthEnds(b)
    BY <1>2
  <2>2. HandleIncomingPacket(h, b) = HandlePublish(b, offset, remaining, h.qos)
    BY <1>2 DEF HandleIncomingPacket
  <2>3. h.qos \in 0 .. 3
    BY DEF Headers
  <2>4. CASE Rejected(b, offset, remaining, h.qos)
    BY <2>2, <2>4, ConstantFacts DEF HandlePublish, Verdict, Verdicts
  <2>5. CASE ~Rejected(b, offset, remaining, h.qos)
    <3>1. /\ PayloadOffset(b, offset, h.qos) <= k + 1 + remaining
          /\ k + remaining <= Len(b)
          /\ ~TooLong(b, offset, remaining)
      <4> HIDE DEF k
      <4>1. ~Rejected(b, k + 1, RemainingLength(b, k), h.qos)
        BY <2>5
      <4> QED
        BY <2>1, <4>1, NotRejected DEF Rejected
    <3>2. k \in 1 .. 4 /\ k \in 1 .. Len(b) /\ Len(b) \in Nat
      <4> HIDE DEF k
      <4> QED
        BY <2>1, LenProperties DEF LengthEnds, MaxLengthBytes
    <3>3. remaining \in Nat
      <4> HIDE DEF k
      <4> QED
        BY <2>1, RemainingLengthNat
    <3> HIDE DEF k, remaining
    <3>4. offset \in 1 .. Len(b) /\ offset + 1 \in 1 .. Len(b)
      BY <3>1, <3>2 DEF TooLong
    <3>5. TwoBytes(b, offset) \in 0 .. WordSize - 1
      BY <3>4, TwoBytesWord
    <3>6. TopicEnd(b, offset) \in Nat /\ TopicEnd(b, offset) >= 1
      BY <3>2, <3>5, ConstantFacts DEF TopicEnd
    <3>7. CASE h.qos = 1
      <4>1. PayloadOffset(b, offset, h.qos) = TopicEnd(b, offset) + 2
        BY <3>7 DEF PayloadOffset
      <4>2. /\ TopicEnd(b, offset) \in 1 .. Len(b)
            /\ TopicEnd(b, offset) + 1 \in 1 .. Len(b)
        BY <3>1, <3>2, <3>3, <3>6, <4>1
      <4>3. TwoBytes(b, TopicEnd(b, offset)) \in 0 .. WordSize - 1
        BY <4>2, TwoBytesWord
      <4>4. HandlePublish(b, offset, remaining, h.qos) \in
              {Verdict("wake", TwoBytes(b, TopicEnd(b, offset))),
               Verdict("unsupported", TwoBytes(b, TopicEnd(b, offset)))}
        BY <2>5, <3>7 DEF HandlePublish
      <4> QED
        BY <2>2, <4>3, <4>4, ConstantFacts DEF Verdict, Verdicts
    <3>8. CASE h.qos # 1
      <4>1. HandlePublish(b, offset, remaining, h.qos) \in
              {Verdict("wake", -1), Verdict("unsupported", -1)}
        BY <2>5, <3>8 DEF HandlePublish
      <4> QED
        BY <2>2, <4>1, ConstantFacts DEF Verdict, Verdicts
    <3> QED
      BY <3>7, <3>8
  <2> QED
    BY <2>4, <2>5
<1> QED
  BY <1>1, <1>2

\* What LengthBytes chooses: a number of bytes that holds n, the smallest or all.
LEMMA LengthBytesChoice ==
  ASSUME NEW n \in Nat
  PROVE  /\ LengthBytes(n) \in 1 .. 4
         /\ LengthBytes(n) = MaxLengthBytes \/ n < Power[LengthBytes(n) + 1]
<1> DEFINE P(k) == /\ k = MaxLengthBytes \/ n < Power[k + 1]
                   /\ \A j \in 1 .. k - 1 : n >= Power[j + 1]
<1>1. Power[2] \in Nat /\ Power[3] \in Nat /\ Power[4] \in Nat
  BY PowerFacts
<1>2. \E k \in 1 .. 4 : P(k)
  <2>1. CASE n < Power[2]
    <3>1. P(1)
      BY <2>1
    <3> QED
      BY <3>1
  <2>2. CASE n >= Power[2] /\ n < Power[3]
    <3>1. \A j \in 1 .. 1 : n >= Power[j + 1]
      BY <2>2
    <3>2. P(2)
      BY <2>2, <3>1
    <3> QED
      BY <3>2
  <2>3. CASE n >= Power[2] /\ n >= Power[3] /\ n < Power[4]
    <3>1. \A j \in 1 .. 2 : n >= Power[j + 1]
      BY <2>3
    <3>2. P(3)
      BY <2>3, <3>1
    <3> QED
      BY <3>2
  <2>4. CASE n >= Power[2] /\ n >= Power[3] /\ n >= Power[4]
    <3>1. \A j \in 1 .. 3 : n >= Power[j + 1]
      BY <2>4
    <3>2. P(4)
      BY <3>1 DEF MaxLengthBytes
    <3> QED
      BY <3>2
  <2> QED
    BY <1>1, <2>1, <2>2, <2>3, <2>4
<1>3. LengthBytes(n) = CHOOSE k \in 1 .. 4 : P(k)
  BY DEF LengthBytes, MaxLengthBytes
<1>4. LengthBytes(n) \in 1 .. 4 /\ P(LengthBytes(n))
  <2> HIDE DEF P
  <2> QED
    BY <1>2, <1>3
<1> QED
  BY <1>4

LEMMA SentType ==
  ASSUME NEW n \in -1 .. BufferSize - 5
  PROVE  n \in -1 .. BufferSize /\ PacketLength(n) \in -1 .. BufferSize
<1>1. CASE n = -1
  BY <1>1, ConstantFacts DEF PacketLength, Failed
<1>2. CASE n # -1
  <2>1. LengthBytes(n) \in 1 .. 4
    BY <1>2, ConstantFacts, LengthBytesChoice
  <2> QED
    BY <2>1, ConstantFacts DEF PacketLength, Failed
<1> QED
  BY <1>1, <1>2

LEMMA WriteType ==
  ASSUME NEW offset \in -1 .. BufferSize - 5, NEW n \in Nat
  PROVE  /\ WriteMqttString(offset, n) \in -1 .. BufferSize - 5
         /\ WriteBytes(offset, n) \in -1 .. BufferSize - 5
<1>1. TextLength(n) \in Nat
  BY ConstantFacts DEF TextLength
<1> QED
  BY <1>1, ConstantFacts DEF WriteMqttString, WriteBytes, Failed

\* What is built never reaches the end of the buffer.
LEMMA SendType ==
  ASSUME SendConnect \/ SendSubscribe
  PROVE  variable' \in -1 .. BufferSize /\ sent' \in -1 .. BufferSize
<1>1. CASE SendConnect
  <2>1. PICK device \in Strings, user \in Strings, password \in Strings :
          Send(ConnectLength(device, user, password))
    BY <1>1 DEF SendConnect
  <2>2. ConnectLength(device, user, password) \in -1 .. BufferSize - 5
    <3>1. 0 \in -1 .. BufferSize - 5 /\ 4 \in Nat
      BY ConstantFacts
    <3>2. WriteMqttString(0, 4) \in -1 .. BufferSize - 5
      BY <3>1, WriteType
    <3>3. WriteBytes(WriteMqttString(0, 4), 4) \in -1 .. BufferSize - 5
      BY <3>1, <3>2, WriteType
    <3>4. device \in Nat /\ user \in Nat /\ password \in Nat
      BY ConstantFacts
    <3>5. WriteMqttString(WriteBytes(WriteMqttString(0, 4), 4), device) \in -1 .. BufferSize - 5
      BY <3>3, <3>4, WriteType
    <3>6. WriteMqttString(WriteMqttString(WriteBytes(WriteMqttString(0, 4), 4), device), user)
            \in -1 .. BufferSize - 5
      BY <3>4, <3>5, WriteType
    <3> QED
      BY <3>4, <3>6, WriteType DEF ConnectLength
  <2> QED
    BY <2>1, <2>2, SentType DEF Send
<1>2. CASE SendSubscribe
  <2>1. PICK topic \in Strings : Send(SubscribeLength(topic))
    BY <1>2 DEF SendSubscribe
  <2>2. SubscribeLength(topic) \in -1 .. BufferSize - 5
    <3>1. topic \in Nat /\ 1 \in Nat
      BY ConstantFacts
    <3>2. WriteMqttString(2, topic) \in -1 .. BufferSize - 5
      <4>1. TextLength(topic) \in Nat
        BY <3>1, ConstantFacts DEF TextLength
      <4> QED
        BY <4>1, ConstantFacts DEF WriteMqttString, Failed
    <3> QED
      BY <3>1, <3>2, WriteType DEF SubscribeLength
  <2> QED
    BY <2>1, <2>2, SentType DEF Send
<1> QED
  BY <1>1, <1>2

LEMMA InitType == Init => TypeOK
<1> SUFFICES ASSUME Init PROVE TypeOK
  OBVIOUS
<1>1. Reqlen \in Nat /\ payload \in Nat /\ Reqlen \in Reqlens /\ payload \in 0 .. Reqlen
  BY ConstantFacts DEF Init
<1>2. rest \in 0 .. payload + Trailer
  BY <1>1, ConstantFacts DEF Init
<1>3. verdict \in Verdicts
  BY ConstantFacts DEF Init, Verdict, Verdicts
<1>4. body \in Seq(Byte) /\ header \in Headers \cup {NoHeader}
  BY EmptySeq DEF Init
<1> QED
  BY <1>1, <1>2, <1>3, <1>4, ConstantFacts DEF Init, TypeOK, Verdicts

LEMMA NextType ==
  ASSUME StreamInv, TypeOK, [Next]_vars
  PROVE  TypeOK'
<1>1. CASE ReadWord
  <2>1. rest' \in 0 .. payload + Trailer /\ length' \in Nat
    BY <1>1, ConstantFacts DEF ReadWord, WordLength, More, StreamInv, TypeOK
  <2> QED
    BY <1>1, <2>1 DEF ReadWord, packetVars, outVars, TypeOK
<1>2. ASSUME NEW n \in Nat, Received(n)
      PROVE  TypeOK'
  <2>1. ReadData' \in Int
    BY <1>2, ConstantFacts DEF Received
  <2> QED
    BY <1>2, <2>1 DEF Received, packetVars, outVars, TypeOK
<1>3. CASE ReceiveShortDataLen
  BY <1>2, <1>3 DEF ReceiveShortDataLen, StreamInv
<1>7. CASE ReceiveLongDataLen
  <2>1. CASE Received(length) \/ Received(len + length)
    BY <1>2, <2>1 DEF StreamInv
  <2>2. CASE phase' = "tail" /\ len' = length /\ length' = 0
             /\ UNCHANGED <<Reqlen, payload, rest, ReadData, packetVars, outVars>>
    BY <2>2 DEF packetVars, outVars, TypeOK
  <2> QED
    BY <1>7, <2>1, <2>2 DEF ReceiveLongDataLen
<1>4. CASE Poll
  <2>1. body' \in Seq(Byte) /\ Len(body') < BufferSize
    BY <1>4, PollBody
  <2>2. header' \in Headers /\ verdict' = HandleIncomingPacket(header', body')
    BY <1>4 DEF Poll
  <2>3. verdict' \in Verdicts
    BY <2>1, <2>2, VerdictType
  <2> QED
    BY <1>4, <2>1, <2>2, <2>3 DEF Poll, inVars, outVars, TypeOK, Verdicts
<1>5. CASE SendConnect \/ SendSubscribe
  <2>1. variable' \in -1 .. BufferSize /\ sent' \in -1 .. BufferSize
    BY <1>5, SendType
  <2>2. phase' = "built" /\ UNCHANGED <<inVars, packetVars>>
    BY <1>5 DEF SendConnect, SendSubscribe, Send
  <2> QED
    BY <2>1, <2>2 DEF inVars, packetVars, TypeOK
<1>6. CASE UNCHANGED vars
  BY <1>6 DEF vars, inVars, packetVars, outVars, TypeOK
<1> QED
  BY <1>1, <1>3, <1>4, <1>5, <1>6, <1>7 DEF Next

\* Every variable keeps its type: acknowledged identifiers fit sixteen bits, and
\* what is built for sending fits the buffer (mqtt_client.c:75-188).
THEOREM TypeCorrect == Spec => []TypeOK
  BY InitType, NextType, StreamInvariant, PTL DEF Spec
=============================================================================
