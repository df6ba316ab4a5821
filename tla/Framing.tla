------------------------------ MODULE Framing ------------------------------
(***************************************************************************)
(* What happens to the bytes of a packet: on the way in, the answer to R0  *)
(* comes over SPI in words of two bytes, as payload and trailer in one     *)
(* stream, is cut into chunks by the driver (SPI_WIFI_ReceiveData,         *)
(* ReceiveShortDataLen, ReceiveLongDataLen) and read by the MQTT client;   *)
(* on the way out, the client builds CONNECT and SUBSCRIBE.                *)
(*                                                                         *)
(* The bytes of the stream are its first payload bytes and the trailer     *)
(* "\r\nOK\r\n> ", which is taken not to occur in the payload: the trailer *)
(* is found where a chunk ends with the stream.                            *)
(***************************************************************************)
EXTENDS MqttCodec

CONSTANTS
  Trailer,    \* AT_OK_STRING_LEN
  Reqlens,    \* what callers ask for; the MQTT client asks for BufferSize
  MaxPacket,  \* bound on the length of the packets that are looked into
  MaxHead,    \* bound on the bytes of a packet that may be anything; those
              \* after them are 0 or 1
  Strings     \* the lengths of the strings that are sent

ASSUME FramingAssumption ==
  /\ Trailer \in Nat /\ Trailer >= 2 /\ Trailer % 2 = 0
  /\ Reqlens \subseteq Nat
  /\ Strings \subseteq Nat
  /\ {MaxPacket, MaxHead} \subseteq Nat

\* Of a packet other than PUBLISH only the type is looked at.
Headers ==
  [type : {"PUBLISH"}, qos : 0 .. 3] \cup {[type |-> "OTHER", qos |-> 0]}
NoHeader == [type |-> "NONE", qos |-> 0]

VARIABLES
  Reqlen,    \* the bytes the caller asked for
  payload,   \* the bytes of payload the module has for it
  phase,     \* what is being read, or what has been done
  rest,      \* the bytes of the stream still in the module
  length,    \* SPI_WIFI_ReceiveData: bytes received in this chunk
  len,       \* ReceiveLongDataLen: the length of the first chunk
  ReadData,  \* the length handed to the caller, -1 for an I/O error
  header, body, verdict,  \* the packet read and what was done with it
  variable, sent   \* the packet to send: its variable part, its length

inVars == <<Reqlen, payload, rest, length, len, ReadData>>
packetVars == <<header, body, verdict>>
outVars == <<variable, sent>>
vars == <<phase, inVars, packetVars, outVars>>

TypeOK ==
  /\ Reqlen \in Reqlens
  /\ payload \in 0 .. Reqlen
  /\ phase \in {"short", "long", "tail", "received", "handled", "built"}
  /\ rest \in 0 .. payload + Trailer
  /\ length \in Nat /\ len \in Nat
  /\ ReadData \in Int
  /\ header \in Headers \cup {NoHeader}
  /\ body \in Seq(Byte)
  /\ verdict \in [kind : {"none", "ignored", "noted", "rejected", "wake", "unsupported"},
                  id : -1 .. WordSize - 1]
  /\ variable \in -1 .. BufferSize
  /\ sent \in -1 .. BufferSize

-----------------------------------------------------------------------------
(* SPI_WIFI_ReceiveData. *)

Reading == phase \in {"short", "long", "tail"}

\* The length each receive is called with.
Limit ==
  IF phase = "short" THEN Reqlen + Trailer
  ELSE IF phase = "long" THEN Reqlen
  ELSE Trailer

\* Mutant: a full buffer takes one more word.
MoreWithOneMore == rest > 0 /\ length <= Limit

\* The pin says that there is more, and the chunk is not full.
More == rest > 0 /\ length < Limit

\* Mutant: the padding is counted.
WordWithPadding == 2

\* The module pads an odd last byte with 0x15, which is not counted.
WordLength == IF rest = 1 THEN 1 ELSE 2

ReadWord ==
  /\ Reading /\ More
  /\ length' = length + WordLength
  /\ rest' = rest - WordLength
  /\ UNCHANGED <<phase, Reqlen, payload, len, ReadData, packetVars, outVars>>

\* The trailer is found at the end of what was received, "tail" included.
Received(n) ==
  /\ phase' = "received"
  /\ ReadData' = IF rest = 0 THEN n - Trailer ELSE -1
  /\ UNCHANGED <<Reqlen, payload, rest, length, len, packetVars, outVars>>

ChunkEnds(name) == phase = name /\ ~More

ReceiveShortDataLen == ChunkEnds("short") /\ Received(length)

ReceiveLongDataLen ==
  \/ ChunkEnds("long") /\ rest = 0 /\ Received(length)
  \/ /\ ChunkEnds("long") /\ rest > 0
     /\ phase' = "tail"
     /\ len' = length
     /\ length' = 0
     /\ UNCHANGED <<Reqlen, payload, rest, ReadData, packetVars, outVars>>
  \/ ChunkEnds("tail") /\ Received(len + length)

-----------------------------------------------------------------------------
(* The MQTT client. *)

Smaller(m, n) == IF m < n THEN m ELSE n

\* What MqttClient_Process does with a buffer that is not empty.
Poll ==
  /\ phase = "received" /\ Reqlen = BufferSize
  /\ ReadData \in 1 .. MaxPacket
  /\ header' \in Headers
  /\ \E head \in [1 .. Smaller(ReadData - 1, MaxHead) -> Byte],
        tail \in [1 .. ReadData - 1 - Smaller(ReadData - 1, MaxHead) -> {0, 1}] :
       body' = head \o tail
  /\ verdict' = HandleIncomingPacket(header', body')
  /\ phase' = "handled"
  /\ UNCHANGED <<inVars, outVars>>

Send(n) ==
  /\ phase = "received"
  /\ phase' = "built"
  /\ variable' = n /\ sent' = PacketLength(n)
  /\ UNCHANGED <<inVars, packetVars>>

SendConnect ==
  \E device, user, password \in Strings :
    Send(ConnectLength(device, user, password))

SendSubscribe == \E topic \in Strings : Send(SubscribeLength(topic))

-----------------------------------------------------------------------------
\* ES_WIFI_ReceiveData has asked for Reqlen bytes with R1; AT_RequestReceiveData
\* has sent R0 and read the prompt.
Init ==
  /\ Reqlen \in Reqlens
  /\ payload \in 0 .. Reqlen
  /\ phase = IF Reqlen <= Trailer THEN "short" ELSE "long"
  /\ rest = payload + Trailer
  /\ length = 0 /\ len = 0 /\ ReadData = 0
  /\ header = NoHeader /\ body = <<>> /\ verdict = Verdict("none", -1)
  /\ variable = 0 /\ sent = 0

Next ==
  \/ ReadWord \/ ReceiveShortDataLen \/ ReceiveLongDataLen
  \/ Poll \/ SendConnect \/ SendSubscribe

Spec == Init /\ [][Next]_vars

-----------------------------------------------------------------------------
(* Properties. *)

\* The caller gets exactly the payload, wherever the boundaries of words and
\* chunks fall (es_wifi.c:576-630, es_wifi_io.c:214-274).
PayloadExact == ~Reading => ReadData = payload

\* What is written stays within the buffer: the API client asks for 255 bytes
\* of 256, the MQTT client for all of its 512, and a word may exceed what was
\* asked for by one (es_wifi_io.c:238-256, api_client.c:220).
WritesInBounds ==
  /\ phase = "long" => length <= Reqlen + (Reqlen % 2)
  /\ phase = "tail" => len <= Reqlen + (Reqlen % 2) /\ length <= Trailer

\* What HandlePublish takes for topic, identifier and payload are bytes that
\* were received, whatever lengths the packet claims (mqtt_client.c:239-276).
ReadsInBounds ==
  phase = "handled" /\ header.type = "PUBLISH" /\ verdict.kind \in {"wake", "unsupported"} =>
    \A k \in LengthEnds(body) :
      LET remaining == RemainingLength(body, k)
      IN  /\ PayloadOffset(body, k + 1, header.qos) <= EndOffset(k + 1, remaining)
          /\ EndOffset(k + 1, remaining) = k + 1 + remaining
          /\ k + remaining <= Len(body)

\* A PUBLISH as MQTT 3.1.1 frames it.
Publish(topic, id, text) ==
  LET after == <<Len(topic) \div ByteSize, Len(topic) % ByteSize>> \o topic \o id \o text
  IN  EncodeRemainingLength(Len(after)) \o after

\* bytes from .. to of the body.
Part(from, to) == SubSeq(body, from, to)

\* A PUBLISH at the beginning of what was received is understood as its sender
\* meant it, whatever follows it in the buffer: its payload and only its
\* payload decides on waking, and its identifier is acknowledged
\* (mqtt_client.c:239-300).
UnderstoodAsMeant ==
  phase = "handled" /\ header.type = "PUBLISH" /\ header.qos < 2 =>
    \A k \in 1 .. MaxLengthBytes, topic, text \in 0 .. Len(body) :
      LET id == IF header.qos > 0 THEN 2 ELSE 0
          end == k + 2 + topic + id + text
          publish == Publish(Part(k + 3, k + 2 + topic),
                             Part(k + 3 + topic, k + 2 + topic + id),
                             Part(k + 3 + topic + id, end))
      IN  end <= Len(body) /\ Part(1, end) = publish =>
            /\ verdict.kind = IF Part(end - text + 1, end) = Wake THEN "wake" ELSE "unsupported"
            /\ verdict.id = IF id = 2 THEN TwoBytes(body, k + 3 + topic) ELSE -1

\* What is sent fits the buffer it was built in, the bytes kept for the header
\* included, and its length field says how much follows (mqtt_client.c:106-188).
SentWellFormed ==
  phase = "built" /\ sent # Failed =>
    LET bytes == EncodeRemainingLength(variable)
    IN  /\ sent <= BufferSize
        /\ LengthEnds(bytes) = {Len(bytes)}
        /\ RemainingLength(bytes, Len(bytes)) = variable
=============================================================================
