----------------------------- MODULE MqttCodec -----------------------------
(***************************************************************************)
(* How mqtt_client.c writes and reads MQTT packets.  A packet is its fixed *)
(* header, a type and a QoS, and the bytes after it: body[i] is packet[i]  *)
(* of the code, and packet_length is one more than Len(body).  Half is 128 *)
(* in the firmware; a smaller one makes lengths of several bytes, and sums *)
(* that wrap around, short.                                                *)
(***************************************************************************)
EXTENDS Integers, Sequences

CONSTANTS
  Half,        \* the values of seven bits
  BufferSize,  \* MQTT_PACKET_BUFFER_SIZE
  Wake         \* the payload "wake"

ByteSize == 2 * Half
Byte == 0 .. ByteSize - 1

\* What sixteen bits hold.
WordSize == ByteSize * ByteSize

ASSUME CodecAssumption ==
  /\ Half \in Nat /\ Half >= 2
  /\ BufferSize \in Nat /\ 5 < BufferSize /\ BufferSize + 5 < WordSize
  /\ Wake \in Seq(Byte)

\* MQTT_MAX_REMAINING_LENGTH_BYTES, and what so many bytes can hold.
MaxLengthBytes == 4
LengthLimit == Half * Half * Half * Half

-----------------------------------------------------------------------------
(* The remaining length. *)

\* The weight of each byte.
Power == <<1, Half, Half * Half, Half * Half * Half>>

\* Mutant: a length of Half is written in one byte.
TightLengthBytes(length) ==
  CHOOSE k \in 1 .. MaxLengthBytes :
    /\ k = MaxLengthBytes \/ length <= Power[k + 1]
    /\ \A j \in 1 .. k - 1 : length > Power[j + 1]

LengthBytes(length) ==
  CHOOSE k \in 1 .. MaxLengthBytes :
    /\ k = MaxLengthBytes \/ length < Power[k + 1]
    /\ \A j \in 1 .. k - 1 : length >= Power[j + 1]

\* EncodeRemainingLength, for what is below LengthLimit.
EncodeRemainingLength(length) ==
  [j \in 1 .. LengthBytes(length) |->
     ((length \div Power[j]) % Half) + (IF j < LengthBytes(length) THEN Half ELSE 0)]

\* The places where ReadRemainingLength finds the last byte: none or one.
LengthEnds(body) ==
  {k \in 1 .. MaxLengthBytes :
     /\ k <= Len(body) /\ body[k] < Half
     /\ \A j \in 1 .. k - 1 : body[j] >= Half}

Digit(body, k, j) == IF j <= k THEN (body[j] % Half) * Power[j] ELSE 0

\* ReadRemainingLength, when the last byte is at k.
RemainingLength(body, k) ==
  Digit(body, k, 1) + Digit(body, k, 2) + Digit(body, k, 3) + Digit(body, k, 4)

-----------------------------------------------------------------------------
(* Sending. *)

Failed == -1

\* What WriteMqttString keeps of the length of a string.
TextLength(strlen) == strlen % WordSize

\* WriteMqttString after five bytes are kept for the fixed header; -1 is its
\* return value 0.
WriteMqttString(offset, strlen) ==
  IF offset = Failed \/ offset + 2 + TextLength(strlen) > BufferSize - 5 THEN Failed
  ELSE offset + 2 + TextLength(strlen)

\* The single bytes SendConnect and SendSubscribe add themselves.
WriteBytes(offset, n) ==
  IF offset = Failed \/ offset + n > BufferSize - 5 THEN Failed ELSE offset + n

\* variable_offset when the packet is complete.  The strings are given by their
\* lengths.
ConnectLength(device, user, password) ==
  WriteMqttString(
    WriteMqttString(
      WriteMqttString(WriteBytes(WriteMqttString(0, 4), 4), device), user), password)

SubscribeLength(topic) == WriteBytes(WriteMqttString(2, topic), 1)

\* packet_offset: what SendPacket is given, or -1 when nothing is sent.
PacketLength(variable) ==
  IF variable = Failed \/ variable >= LengthLimit THEN Failed
  ELSE 1 + LengthBytes(variable) + variable

-----------------------------------------------------------------------------
(* HandlePublish. *)

\* Mutant: the length is taken to be one byte.
EndAfterOneByte(offset, remaining) == (2 + remaining) % WordSize

EndOffset(offset, remaining) == (offset + remaining) % WordSize

\* Mutant: only the sum is looked at, which has wrapped around.
OnlyEndTooLong(body, offset, remaining) ==
  \/ EndOffset(offset, remaining) > Len(body) + 1
  \/ offset + 2 > Len(body) + 1

TooLong(body, offset, remaining) ==
  \/ remaining > Len(body) + 1
  \/ EndOffset(offset, remaining) > Len(body) + 1
  \/ offset + 2 > Len(body) + 1

\* The number in two bytes.
TwoBytes(body, offset) == body[offset] * ByteSize + body[offset + 1]

\* The offset behind the topic.
TopicEnd(body, offset) == offset + 2 + TwoBytes(body, offset)

PayloadOffset(body, offset, qos) ==
  TopicEnd(body, offset) + (IF qos > 0 THEN 2 ELSE 0)

Rejected(body, offset, remaining, qos) ==
  \/ TooLong(body, offset, remaining)
  \/ PayloadOffset(body, offset, qos) > EndOffset(offset, remaining)

Verdict(kind, id) == [kind |-> kind, id |-> id]

\* What is done with the packet: rejected, the wake callback, or a warning; id
\* is the packet identifier to acknowledge, -1 for none.
HandlePublish(body, offset, remaining, qos) ==
  IF Rejected(body, offset, remaining, qos) THEN Verdict("rejected", -1)
  ELSE Verdict(
    IF SubSeq(body, PayloadOffset(body, offset, qos), EndOffset(offset, remaining) - 1) = Wake
      THEN "wake" ELSE "unsupported",
    IF qos = 1 THEN TwoBytes(body, TopicEnd(body, offset)) ELSE -1)

\* HandleIncomingPacket.
HandleIncomingPacket(header, body) ==
  IF Len(body) = 0 THEN Verdict("ignored", -1)
  ELSE IF LengthEnds(body) = {} THEN Verdict("rejected", -1)
  ELSE IF header.type # "PUBLISH" THEN Verdict("noted", -1)
  ELSE LET k == CHOOSE n \in LengthEnds(body) : TRUE
       IN  HandlePublish(body, k + 1, RemainingLength(body, k), header.qos)
=============================================================================
