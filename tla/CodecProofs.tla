---------------------------- MODULE CodecProofs -----------------------------
(***************************************************************************)
(* The remaining length of a packet, written by EncodeRemainingLength and  *)
(* read by ReadRemainingLength, and with it the two properties of whole    *)
(* packets: what is sent is well formed, what is received is understood as *)
(* it was meant.                                                           *)
(***************************************************************************)
EXTENDS FramingProofs

-----------------------------------------------------------------------------
(* Division.                                                               *)

LEMMA Division ==
  ASSUME NEW n \in Nat, NEW d \in Nat \ {0}
  PROVE  n \div d \in Nat /\ n % d \in 0 .. d - 1 /\ n = (n \div d) * d + (n % d)
  OBVIOUS

LEMMA DivisionUnique ==
  ASSUME NEW n \in Nat, NEW d \in Nat \ {0}, NEW q \in Nat, NEW r \in 0 .. d - 1,
         n = q * d + r
  PROVE  n \div d = q /\ n % d = r
<1>1. n \div d = q
  OBVIOUS
<1>2. n % d = r
  OBVIOUS
<1> QED
  BY <1>1, <1>2

\* Dividing twice.
LEMMA DivisionTwice ==
  ASSUME NEW n \in Nat, NEW a \in Nat \ {0}, NEW b \in Nat \ {0}
  PROVE  n \div (a * b) = (n \div a) \div b
  OBVIOUS

-----------------------------------------------------------------------------
(* The digits of a length.                                                 *)

DigitOf(n, j) == (n \div Power[j]) % Half

\* The digits of n, and what is left of it above each.
LEMMA Digits ==
  ASSUME NEW n \in Nat
  PROVE  \E q1, q2, q3 \in Nat :
           /\ n = q1 * Half + DigitOf(n, 1)
           /\ q1 = q2 * Half + DigitOf(n, 2)
           /\ q2 = q3 * Half + DigitOf(n, 3)
           /\ DigitOf(n, 4) = q3 % Half
           /\ \A j \in 1 .. 4 : DigitOf(n, j) \in 0 .. Half - 1
<1> DEFINE h == Half
           q1 == n \div h
           q2 == q1 \div h
           q3 == q2 \div h
<1>1. h \in Nat \ {0} /\ h * h \in Nat \ {0}
  BY ConstantFacts
<1> HIDE DEF h
<1>2. q1 \in Nat /\ n % h \in 0 .. h - 1 /\ n = q1 * h + (n % h)
  BY <1>1, Division
<1> HIDE DEF q1
<1>3. q2 \in Nat /\ q1 % h \in 0 .. h - 1 /\ q1 = q2 * h + (q1 % h)
  BY <1>1, <1>2, Division
<1> HIDE DEF q2
<1>4. q3 \in Nat /\ q2 % h \in 0 .. h - 1 /\ q2 = q3 * h + (q2 % h)
  BY <1>1, <1>3, Division
<1>5. q3 % h \in 0 .. h - 1
  BY <1>1, <1>4, Division
<1> HIDE DEF q3
<1>6. n \div 1 = n
  OBVIOUS
<1>7. n \div (h * h) = q2
  BY <1>1, DivisionTwice DEF q2, q1
<1>8. n \div (h * h * h) = q3
  <2>1. n \div ((h * h) * h) = (n \div (h * h)) \div h
    BY <1>1, DivisionTwice
  <2> QED
    BY <1>7, <2>1 DEF q3
<1>9. /\ DigitOf(n, 1) = n % h /\ DigitOf(n, 2) = q1 % h
      /\ DigitOf(n, 3) = q2 % h /\ DigitOf(n, 4) = q3 % h
  BY <1>6, <1>7, <1>8 DEF DigitOf, Power, h, q1
<1>10. /\ n = q1 * h + DigitOf(n, 1) /\ q1 = q2 * h + DigitOf(n, 2)
       /\ q2 = q3 * h + DigitOf(n, 3)
  BY <1>2, <1>3, <1>4, <1>9
<1>11. \A j \in 1 .. 4 : DigitOf(n, j) \in 0 .. h - 1
  BY <1>2, <1>3, <1>4, <1>5, <1>9
<1> QED
  BY <1>2, <1>3, <1>4, <1>9, <1>10, <1>11 DEF h

\* As many bytes as are needed.
LEMMA LengthBytesFits ==
  ASSUME NEW n \in Nat
  PROVE  /\ LengthBytes(n) \in 1 .. 4
         /\ LengthBytes(n) = 1 => n < Half
         /\ LengthBytes(n) = 2 => n < Half * Half
         /\ LengthBytes(n) = 3 => n < Half * Half * Half
<1>1. /\ LengthBytes(n) \in 1 .. 4
      /\ LengthBytes(n) = 4 \/ n < Power[LengthBytes(n) + 1]
  BY LengthBytesChoice DEF MaxLengthBytes
<1> QED
  BY <1>1 DEF Power

\* A bound on a number is one on its quotient.
LEMMA QuotientBound ==
  ASSUME NEW n \in Nat, NEW q \in Nat, NEW r \in Nat, NEW d \in Nat \ {0}, NEW m \in Nat,
         n = q * d + r, n < m * d
  PROVE  q < m
<1> SUFFICES ASSUME q >= m PROVE FALSE
  OBVIOUS
<1>1. q * d >= m * d
  OBVIOUS
<1> QED
  BY <1>1

\* The digits that are written make up the number.
LEMMA DigitSum ==
  ASSUME NEW n \in Nat, n < LengthLimit
  PROVE  LET k == LengthBytes(n)
             term(j) == IF j <= k THEN DigitOf(n, j) * Power[j] ELSE 0
         IN  n = term(1) + term(2) + term(3) + term(4)
<1> DEFINE h == Half
           k == LengthBytes(n)
           term(j) == IF j <= k THEN DigitOf(n, j) * Power[j] ELSE 0
           d1 == DigitOf(n, 1)
           d2 == DigitOf(n, 2)
           d3 == DigitOf(n, 3)
           d4 == DigitOf(n, 4)
<1> SUFFICES n = term(1) + term(2) + term(3) + term(4)
  OBVIOUS
<1>1. PICK q1, q2, q3 \in Nat :
        /\ n = q1 * h + d1 /\ q1 = q2 * h + d2 /\ q2 = q3 * h + d3
        /\ d4 = q3 % h
        /\ d1 \in Nat /\ d2 \in Nat /\ d3 \in Nat /\ d4 \in Nat
  BY Digits
<1>2. h \in Nat \ {0} /\ h * h \in Nat \ {0} /\ h * h * h \in Nat \ {0}
  BY ConstantFacts
<1>3. /\ term(1) = d1
      /\ term(2) = IF 2 <= k THEN d2 * h ELSE 0
      /\ term(3) = IF 3 <= k THEN d3 * (h * h) ELSE 0
      /\ term(4) = IF 4 <= k THEN d4 * (h * h * h) ELSE 0
  BY <1>1, LengthBytesFits DEF Power
<1>4. /\ k \in 1 .. 4
      /\ k = 1 => n < h
      /\ k = 2 => n < h * h
      /\ k = 3 => n < h * h * h
      /\ n < h * h * h * h
  BY LengthBytesFits DEF LengthLimit
<1> HIDE DEF h, k, term, d1, d2, d3, d4
<1>5. CASE k = 1
  <2>1. q1 < 1
    BY <1>1, <1>2, <1>4, <1>5, QuotientBound
  <2>2. n = d1
    BY <1>1, <1>2, <2>1
  <2> QED
    BY <1>1, <1>3, <1>5, <2>2
<1>6. CASE k = 2
  <2>1. q1 < h
    BY <1>1, <1>2, <1>4, <1>6, QuotientBound
  <2>2. q2 < 1
    BY <1>1, <1>2, <2>1, QuotientBound
  <2>3. n = d2 * h + d1
    BY <1>1, <1>2, <2>2
  <2> QED
    BY <1>1, <1>2, <1>3, <1>6, <2>3
<1>7. CASE k = 3
  <2>1. q1 < h * h
    BY <1>1, <1>2, <1>4, <1>7, QuotientBound
  <2>2. q2 < h
    BY <1>1, <1>2, <2>1, QuotientBound
  <2>3. q3 < 1
    BY <1>1, <1>2, <2>2, QuotientBound
  <2>4. n = d3 * (h * h) + d2 * h + d1
    BY <1>1, <1>2, <2>3
  <2> QED
    BY <1>1, <1>2, <1>3, <1>7, <2>4
<1>8. CASE k = 4
  <2>1. q1 < h * h * h
    BY <1>1, <1>2, <1>4, QuotientBound
  <2>2. q2 < h * h
    BY <1>1, <1>2, <2>1, QuotientBound
  <2>3. q3 < h
    BY <1>1, <1>2, <2>2, QuotientBound
  <2>4. d4 = q3
    BY <1>1, <1>2, <2>3
  <2>5. n = d4 * (h * h * h) + d3 * (h * h) + d2 * h + d1
    BY <1>1, <1>2, <2>4
  <2> QED
    BY <1>1, <1>2, <1>3, <1>8, <2>5
<1> QED
  BY <1>4, <1>5, <1>6, <1>7, <1>8

\* EncodeRemainingLength and ReadRemainingLength: a buffer that begins with a
\* length, whatever follows it, is read as that length.
LEMMA RoundTrip ==
  ASSUME NEW n \in Nat, n < LengthLimit, NEW b,
         LengthBytes(n) <= Len(b),
         \A j \in 1 .. LengthBytes(n) : b[j] = EncodeRemainingLength(n)[j]
  PROVE  /\ LengthBytes(n) \in LengthEnds(b)
         /\ RemainingLength(b, LengthBytes(n)) = n
<1> DEFINE k == LengthBytes(n)
<1>1. k \in 1 .. 4
  BY LengthBytesFits
<1>2. \A j \in 1 .. 4 : DigitOf(n, j) \in 0 .. Half - 1
  BY Digits
<1>3. \A j \in 1 .. k : b[j] = DigitOf(n, j) + (IF j < k THEN Half ELSE 0)
  BY DEF EncodeRemainingLength, DigitOf
<1>4. \A d \in 0 .. Half - 1 : d % Half = d /\ (d + Half) % Half = d
  <2> SUFFICES ASSUME NEW d \in 0 .. Half - 1 PROVE d % Half = d /\ (d + Half) % Half = d
    OBVIOUS
  <2>1. d = 0 * Half + d /\ d + Half = 1 * Half + d /\ d \in Nat /\ d + Half \in Nat
    BY ConstantFacts
  <2> QED
    BY <2>1, DivisionUnique, ConstantFacts
<1> HIDE DEF k
<1>5. k \in LengthEnds(b)
  <2>1. ASSUME NEW j \in 1 .. k - 1 PROVE b[j] >= Half
    <3>1. j \in 1 .. k /\ j < k /\ j \in 1 .. 4
      BY <1>1
    <3>2. b[j] = DigitOf(n, j) + Half
      BY <1>3, <3>1
    <3> QED
      BY <1>2, <3>1, <3>2, ConstantFacts
  <2>2. b[k] < Half
    BY <1>1, <1>2, <1>3, ConstantFacts
  <2>3. k <= Len(b)
    BY DEF k
  <2> QED
    BY <1>1, <2>1, <2>2, <2>3 DEF LengthEnds, MaxLengthBytes
<1>6. ASSUME NEW j \in 1 .. 4
      PROVE  Digit(b, k, j) = IF j <= k THEN DigitOf(n, j) * Power[j] ELSE 0
  <2>1. CASE j <= k
    <3>1. b[j] = DigitOf(n, j) \/ b[j] = DigitOf(n, j) + Half
      BY <1>1, <1>2, <1>3, <2>1, ConstantFacts
    <3>2. b[j] % Half = DigitOf(n, j)
      BY <1>2, <1>4, <3>1
    <3> QED
      BY <2>1, <3>2 DEF Digit
  <2>2. CASE ~(j <= k)
    BY <2>2 DEF Digit
  <2> QED
    BY <2>1, <2>2
<1>7. RemainingLength(b, k) = n
  <2> DEFINE term(j) == IF j <= k THEN DigitOf(n, j) * Power[j] ELSE 0
  <2>1. n = term(1) + term(2) + term(3) + term(4)
    BY DigitSum DEF k
  <2>2. /\ Digit(b, k, 1) = term(1) /\ Digit(b, k, 2) = term(2)
        /\ Digit(b, k, 3) = term(3) /\ Digit(b, k, 4) = term(4)
    BY <1>6
  <2> HIDE DEF term
  <2> QED
    BY <2>1, <2>2, Zenon DEF RemainingLength
<1> QED
  BY <1>5, <1>7 DEF k

LEMMA EncodingFacts ==
  ASSUME NEW n \in Nat
  PROVE  /\ EncodeRemainingLength(n) \in Seq(Byte)
         /\ Len(EncodeRemainingLength(n)) = LengthBytes(n)
         /\ LengthBytes(n) \in 1 .. 4
<1> DEFINE k == LengthBytes(n)
<1>1. k \in 1 .. 4
  BY LengthBytesFits
<1>2. \A j \in 1 .. 4 : DigitOf(n, j) \in 0 .. Half - 1
  BY Digits
<1> HIDE DEF k
<1>3. \A j \in 1 .. k : DigitOf(n, j) + (IF j < k THEN Half ELSE 0) \in Byte
  BY <1>1, <1>2, ConstantFacts DEF Byte, ByteSize
<1>4. EncodeRemainingLength(n) =
        [j \in 1 .. k |-> DigitOf(n, j) + (IF j < k THEN Half ELSE 0)]
  BY DEF EncodeRemainingLength, DigitOf, k
<1>5. EncodeRemainingLength(n) \in [1 .. k -> Byte]
  BY <1>3, <1>4
<1> QED
  BY <1>1, <1>5 DEF k

-----------------------------------------------------------------------------
(* What is sent.                                                           *)

BuiltInv == phase = "built" => sent = PacketLength(variable)

LEMMA NextBuilt == ASSUME BuiltInv, [Next]_vars PROVE BuiltInv'
<1>1. CASE ReadWord
  BY <1>1 DEF ReadWord, Reading, BuiltInv
<1>2. CASE ReceiveShortDataLen
  BY <1>2 DEF ReceiveShortDataLen, Received, BuiltInv
<1>3. CASE ReceiveLongDataLen
  BY <1>3 DEF ReceiveLongDataLen, Received, BuiltInv
<1>4. CASE Poll
  BY <1>4 DEF Poll, BuiltInv
<1>5. CASE SendConnect \/ SendSubscribe
  BY <1>5 DEF SendConnect, SendSubscribe, Send, BuiltInv
<1>6. CASE UNCHANGED vars
  BY <1>6 DEF vars, outVars, BuiltInv
<1> QED
  BY <1>1, <1>2, <1>3, <1>4, <1>5, <1>6 DEF Next

LEMMA BuiltWell == TypeOK /\ BuiltInv => SentWellFormed
<1> SUFFICES ASSUME TypeOK, BuiltInv, phase = "built", sent # Failed
             PROVE  LET bytes == EncodeRemainingLength(variable)
                    IN  /\ sent <= BufferSize
                        /\ LengthEnds(bytes) = {Len(bytes)}
                        /\ RemainingLength(bytes, Len(bytes)) = variable
  BY DEF SentWellFormed
<1> DEFINE bytes == EncodeRemainingLength(variable)
<1>1. sent <= BufferSize
  BY ConstantFacts DEF TypeOK
<1>2. variable # Failed /\ ~(variable >= LengthLimit)
  BY DEF BuiltInv, PacketLength
<1>3. variable \in Nat
  BY <1>2, ConstantFacts DEF TypeOK, Failed
<1>4. LengthLimit \in Nat
  BY ConstantFacts DEF LengthLimit
<1>5. variable < LengthLimit
  BY <1>2, <1>3, <1>4
<1>6. /\ bytes \in Seq(Byte) /\ Len(bytes) = LengthBytes(variable)
      /\ LengthBytes(variable) \in 1 .. 4
  BY <1>3, EncodingFacts
<1>7. /\ LengthBytes(variable) \in LengthEnds(bytes)
      /\ RemainingLength(bytes, LengthBytes(variable)) = variable
  BY <1>3, <1>5, <1>6, RoundTrip
<1> HIDE DEF bytes
<1>8. LengthEnds(bytes) = {Len(bytes)}
  BY <1>6, <1>7, LengthEndsOnce
<1> QED
  BY <1>1, <1>6, <1>7, <1>8 DEF bytes

\* CONNECT and SUBSCRIBE fit the buffer they are built in, however long the
\* configured strings, and their length field reads as what follows it
\* (mqtt_client.c:39-188).
THEOREM SendsWellFormed == Spec => []SentWellFormed
<1>1. Init => BuiltInv
  BY DEF Init, BuiltInv
<1>2. BuiltInv /\ [Next]_vars => BuiltInv'
  BY NextBuilt
<1> QED
  BY <1>1, <1>2, BuiltWell, TypeCorrect, PTL DEF Spec

-----------------------------------------------------------------------------
(* What is received.                                                       *)

\* More than a buffer can hold a length of four bytes can say.
LEMMA BufferBelowLimit == BufferSize < LengthLimit
<1>1. Half * Half \in Nat /\ Half * Half >= 4
  <2>1. Half * Half >= 2 * Half
    BY ConstantFacts
  <2> QED
    BY <2>1, ConstantFacts
<1>2. WordSize = 4 * (Half * Half)
  BY ConstantFacts DEF WordSize, ByteSize
<1>3. LengthLimit = (Half * Half) * (Half * Half)
  BY ConstantFacts DEF LengthLimit
<1> DEFINE s == Half * Half
<1> HIDE DEF s
<1>4. s * s >= 4 * s
  BY <1>1 DEF s
<1>5. WordSize <= LengthLimit
  BY <1>2, <1>3, <1>4 DEF s
<1>6. LengthLimit \in Nat
  BY <1>1, <1>3
<1> QED
  BY <1>5, <1>6, ConstantFacts

\* A PUBLISH at the beginning of b, with a length field of k bytes, a topic and
\* a payload of the given lengths and, if id is 2, an identifier.
Framed(b, k, topic, id, text) ==
  LET n == 2 + topic + id + text
  IN  /\ LengthBytes(n) = k /\ k + n <= Len(b)
      /\ \A j \in 1 .. k : b[j] = EncodeRemainingLength(n)[j]
      /\ b[k + 1] = topic \div ByteSize /\ b[k + 2] = topic % ByteSize

\* The bytes of the identifier of a PUBLISH, and its payload.
IdBytes(qos) == IF qos > 0 THEN 2 ELSE 0
Content(b, k, topic, id, text) == SubSeq(b, k + 3 + topic + id, k + 2 + topic + id + text)

LEMMA PartBytes ==
  ASSUME body \in Seq(Byte), NEW from \in Nat, NEW to \in Nat,
         1 <= from, from <= to + 1, to <= Len(body)
  PROVE  /\ Part(from, to) \in Seq(Byte) /\ Len(Part(from, to)) = to - from + 1
         /\ \A i \in 1 .. to - from + 1 : Part(from, to)[i] = body[from + i - 1]
<1>1. \A i \in from .. to : body[i] \in Byte
  BY ElementOfSeq, LenProperties
<1>2. /\ SubSeq(body, from, to) \in Seq(Byte)
      /\ Len(SubSeq(body, from, to)) = IF from <= to THEN to - from + 1 ELSE 0
      /\ \A i \in 1 .. to - from + 1 : SubSeq(body, from, to)[i] = body[from + i - 1]
  <2>1. from \in Int /\ to \in Int
    OBVIOUS
  <2> QED
    BY <1>1, <2>1, SubSeqProperties
<1> QED
  BY <1>2 DEF Part

\* What stands first and second stays there.
LEMMA FirstTwo ==
  ASSUME NEW s \in Seq(Nat), NEW t \in Seq(Nat), Len(s) >= 2
  PROVE  /\ s \o t \in Seq(Nat) /\ Len(s \o t) = Len(s) + Len(t)
         /\ (s \o t)[1] = s[1] /\ (s \o t)[2] = s[2]
<1>1. Len(s) \in Nat /\ Len(t) \in Nat
  BY LenProperties
<1>2. 1 \in 1 .. Len(s) + Len(t) /\ 2 \in 1 .. Len(s) + Len(t)
  BY <1>1
<1> QED
  BY <1>1, <1>2, ConcatProperties

\* The bytes of such a packet are where Framed says.
LEMMA PublishFramed ==
  ASSUME NEW k \in 1 .. MaxLengthBytes, body \in Seq(Byte),
         NEW topic \in 0 .. Len(body), NEW text \in 0 .. Len(body), NEW id \in {0, 2},
         NEW end, end = k + 2 + topic + id + text, end <= Len(body),
         Part(1, end) = Publish(Part(k + 3, k + 2 + topic),
                                Part(k + 3 + topic, k + 2 + topic + id),
                                Part(k + 3 + topic + id, end))
  PROVE  Framed(body, k, topic, id, text)
<1> DEFINE n == 2 + topic + id + text
           name == Part(k + 3, k + 2 + topic)
           number == Part(k + 3 + topic, k + 2 + topic + id)
           content == Part(k + 3 + topic + id, end)
           head == <<topic \div ByteSize, topic % ByteSize>>
           after == head \o name \o number \o content
           bytes == EncodeRemainingLength(n)
<1>1. /\ Len(body) \in Nat /\ k \in 1 .. 4 /\ topic \in Nat /\ text \in Nat /\ id \in Nat
      /\ end \in Nat /\ end = k + n /\ n \in Nat
  BY DEF MaxLengthBytes
<1>2. k + 3 <= end + 1 /\ k + 3 + topic + id + text = end + 1
  BY <1>1
<1>3. /\ name \in Seq(Byte) /\ Len(name) = topic
      /\ number \in Seq(Byte) /\ Len(number) = id
      /\ content \in Seq(Byte) /\ Len(content) = text
  <2>1. name \in Seq(Byte) /\ Len(name) = k + 2 + topic - (k + 3) + 1
    <3>1. PICK from, to \in Nat : from = k + 3 /\ to = k + 2 + topic
      BY <1>1
    <3>2. 1 <= from /\ from <= to + 1 /\ to <= Len(body)
      BY <1>1, <3>1
    <3>3. Part(from, to) \in Seq(Byte) /\ Len(Part(from, to)) = to - from + 1
      BY <3>2, PartBytes
    <3> QED
      BY <3>1, <3>3
  <2>2. number \in Seq(Byte) /\ Len(number) = k + 2 + topic + id - (k + 3 + topic) + 1
    <3>1. PICK from, to \in Nat : from = k + 3 + topic /\ to = k + 2 + topic + id
      BY <1>1
    <3>2. 1 <= from /\ from <= to + 1 /\ to <= Len(body)
      BY <1>1, <3>1
    <3>3. Part(from, to) \in Seq(Byte) /\ Len(Part(from, to)) = to - from + 1
      BY <3>2, PartBytes
    <3> QED
      BY <3>1, <3>3
  <2>3. content \in Seq(Byte) /\ Len(content) = end - (k + 3 + topic + id) + 1
    <3>1. /\ k + 3 + topic + id \in Nat /\ 1 <= k + 3 + topic + id
          /\ k + 3 + topic + id <= end + 1
      BY <1>1
    <3> QED
      BY <1>1, <3>1, PartBytes
  <2>4. /\ k + 2 + topic - (k + 3) + 1 = topic
        /\ k + 2 + topic + id - (k + 3 + topic) + 1 = id
        /\ end - (k + 3 + topic + id) + 1 = text
    BY <1>1
  <2> QED
    BY <2>1, <2>2, <2>3, <2>4
<1>4. /\ Part(1, end) \in Seq(Byte) /\ Len(Part(1, end)) = end
      /\ \A i \in 1 .. end : Part(1, end)[i] = body[i]
  <2>1. /\ Part(1, end) \in Seq(Byte) /\ Len(Part(1, end)) = end - 1 + 1
        /\ \A i \in 1 .. end - 1 + 1 : Part(1, end)[i] = body[1 + i - 1]
    <3>1. 1 \in Nat /\ 1 <= 1 /\ 1 <= end + 1
      BY <1>1
    <3> QED
      BY <1>1, <3>1, PartBytes
  <2>2. end - 1 + 1 = end /\ \A i \in 1 .. end : 1 + i - 1 = i
    BY <1>1
  <2> QED
    BY <2>1, <2>2
<1>5. head \in Seq(Nat) /\ Len(head) = 2 /\ head[1] = topic \div ByteSize
      /\ head[2] = topic % ByteSize
  <2>1. ByteSize \in Nat \ {0} /\ topic \in Nat
    BY <1>1, ConstantFacts
  <2>2. topic \div ByteSize \in Nat /\ topic % ByteSize \in Nat
    BY <2>1
  <2> QED
    BY <2>2
<1> HIDE DEF name, number, content, head
<1>6. /\ after \in Seq(Nat) /\ Len(after) = n
      /\ after[1] = head[1] /\ after[2] = head[2]
  <2>1. name \in Seq(Nat) /\ number \in Seq(Nat) /\ content \in Seq(Nat)
    BY <1>3, ByteFacts, SeqMonotonic
  <2> DEFINE s1 == head \o name
             s2 == s1 \o number
  <2>2. 2 <= 2 /\ 2 <= 2 + topic /\ 2 <= 2 + topic + id
    BY <1>1
  <2>3. /\ s1 \in Seq(Nat) /\ Len(s1) = 2 + topic
        /\ s1[1] = head[1] /\ s1[2] = head[2]
    BY <1>3, <1>5, <2>1, <2>2, FirstTwo
  <2> HIDE DEF s1
  <2>4. /\ s2 \in Seq(Nat) /\ Len(s2) = 2 + topic + id
        /\ s2[1] = head[1] /\ s2[2] = head[2]
    BY <1>3, <2>1, <2>3, <2>2, FirstTwo
  <2> HIDE DEF s2
  <2>5. /\ s2 \o content \in Seq(Nat) /\ Len(s2 \o content) = 2 + topic + id + text
        /\ (s2 \o content)[1] = head[1] /\ (s2 \o content)[2] = head[2]
    BY <1>3, <2>1, <2>4, <2>2, FirstTwo
  <2> QED
    BY <2>5 DEF s1, s2
<1>7. /\ bytes \in Seq(Nat) /\ Len(bytes) = LengthBytes(n) /\ LengthBytes(n) \in 1 .. 4
  BY <1>1, EncodingFacts, ByteFacts, SeqMonotonic
<1>8. Part(1, end) = bytes \o after
  <2>1. Publish(name, number, content) = EncodeRemainingLength(Len(after)) \o after
    BY <1>3 DEF Publish, head
  <2> QED
    BY <1>6, <2>1 DEF name, number, content
<1> HIDE DEF bytes, after, n
<1>9. LengthBytes(n) = k
  <2>1. Len(bytes \o after) = LengthBytes(n) + n
    BY <1>6, <1>7, ConcatProperties
  <2> QED
    BY <1>1, <1>4, <1>7, <1>8, <2>1
<1>10. \A i \in 1 .. k + n : body[i] = IF i <= k THEN bytes[i] ELSE after[i - k]
  <2>1. \A i \in 1 .. k + n : (bytes \o after)[i] = IF i <= k THEN bytes[i] ELSE after[i - k]
    <3>1. bytes \in Seq(Nat) /\ after \in Seq(Nat) /\ Len(bytes) = k /\ Len(after) = n
      BY <1>6, <1>7, <1>9
    <3>2. \A i \in 1 .. Len(bytes) + Len(after) :
            (bytes \o after)[i] = IF i <= Len(bytes) THEN bytes[i] ELSE after[i - Len(bytes)]
      BY <3>1, ConcatProperties, Zenon
    <3> QED
      BY <3>1, <3>2
  <2>2. end = k + n
    BY <1>1
  <2> QED
    BY <1>4, <1>8, <2>1, <2>2
<1>11. 2 <= n
  BY <1>1 DEF n
<1>12. body[k + 1] = after[1] /\ body[k + 2] = after[2]
  <2>1. ASSUME NEW j \in {1, 2} PROVE body[k + j] = after[j]
    <3>1. PICK i \in 1 .. k + n : i = k + j /\ i - k = j /\ ~(i <= k)
      BY <1>1, <1>11
    <3>2. body[i] = after[i - k]
      BY <1>10, <3>1
    <3> QED
      BY <3>1, <3>2
  <2> QED
    BY <2>1
<1>13. \A j \in 1 .. k : body[j] = bytes[j]
  <2> SUFFICES ASSUME NEW j \in 1 .. k PROVE body[j] = bytes[j]
    OBVIOUS
  <2>1. j \in 1 .. k + n /\ j <= k
    BY <1>1
  <2> QED
    BY <1>10, <2>1
<1>14. k + n <= Len(body)
  BY <1>1
<1> QED
  BY <1>5, <1>6, <1>9, <1>12, <1>13, <1>14 DEF Framed, n, bytes

\* Such a packet is neither rejected nor misread.
LEMMA FramedUnderstood ==
  ASSUME NEW b \in Seq(Byte), Len(b) < BufferSize,
         NEW k \in 1 .. 4, NEW topic \in Nat, NEW text \in Nat, NEW qos \in {0, 1},
         Framed(b, k, topic, IdBytes(qos), text)
  PROVE  HandleIncomingPacket([type |-> "PUBLISH", qos |-> qos], b) =
           Verdict(IF Content(b, k, topic, IdBytes(qos), text) = Wake
                   THEN "wake" ELSE "unsupported",
                   IF IdBytes(qos) = 2 THEN TwoBytes(b, k + 3 + topic) ELSE -1)
<1> DEFINE id == IdBytes(qos)
           n == 2 + topic + id + text
           publish == [type |-> "PUBLISH", qos |-> qos]
<1>1. /\ Len(b) \in Nat /\ id \in {0, 2} /\ id = (IF qos > 0 THEN 2 ELSE 0)
      /\ n \in Nat /\ n >= 2
      /\ LengthBytes(n) = k /\ k + n <= Len(b)
      /\ \A j \in 1 .. k : b[j] = EncodeRemainingLength(n)[j]
      /\ b[k + 1] = topic \div ByteSize /\ b[k + 2] = topic % ByteSize
  BY DEF Framed, IdBytes
<1> HIDE DEF id
<1>2. n < LengthLimit
  <2>1. LengthLimit \in Nat
    BY ConstantFacts DEF LengthLimit
  <2> QED
    BY <1>1, <2>1, BufferBelowLimit, ConstantFacts
<1>3. k \in LengthEnds(b) /\ RemainingLength(b, k) = n
  BY <1>1, <1>2, RoundTrip
<1>4. HandleIncomingPacket(publish, b) = HandlePublish(b, k + 1, n, qos)
  <2> DEFINE m == CHOOSE m \in LengthEnds(b) : TRUE
  <2>1. m = k
    <3>1. m \in LengthEnds(b)
      BY <1>3
    <3> QED
      BY <1>3, <3>1, LengthEndsOnce
  <2>2. Len(b) # 0 /\ LengthEnds(b) # {} /\ ~(publish.type # "PUBLISH")
    BY <1>1, <1>3
  <2>3. HandleIncomingPacket(publish, b) = HandlePublish(b, m + 1, RemainingLength(b, m), qos)
    BY <2>2 DEF HandleIncomingPacket
  <2> HIDE DEF m
  <2> QED
    BY <1>3, <2>1, <2>3
<1>5. EndOffset(k + 1, n) = k + 1 + n
  <2>1. k + 1 + n \in Nat /\ k + 1 + n < WordSize
    BY <1>1, ConstantFacts
  <2> QED
    BY <2>1, ConstantFacts DEF EndOffset
<1>6. TwoBytes(b, k + 1) = topic
  <2>1. ByteSize \in Nat \ {0}
    BY ConstantFacts
  <2>2. topic = (topic \div ByteSize) * ByteSize + (topic % ByteSize)
    BY <2>1, Division
  <2>3. b[k + 1 + 1] = topic % ByteSize
    BY <1>1
  <2> QED
    BY <1>1, <2>2, <2>3, Zenon DEF TwoBytes
<1>7. /\ TopicEnd(b, k + 1) = k + 3 + topic
      /\ PayloadOffset(b, k + 1, qos) = k + 3 + topic + id
  BY <1>1, <1>6 DEF TopicEnd, PayloadOffset
<1>8. ~Rejected(b, k + 1, n, qos)
  BY <1>1, <1>5, <1>7 DEF Rejected, TooLong
<1>9. EndOffset(k + 1, n) - 1 = k + 2 + topic + id + text
  BY <1>1, <1>5
<1> DEFINE content == SubSeq(b, k + 3 + topic + id, k + 2 + topic + id + text)
<1>10. HandlePublish(b, k + 1, n, qos) =
         Verdict(IF content = Wake THEN "wake" ELSE "unsupported",
                 IF qos = 1 THEN TwoBytes(b, k + 3 + topic) ELSE -1)
  BY <1>7, <1>8, <1>9 DEF HandlePublish
<1>11. (qos = 1) = (id = 2)
  BY <1>1
<1> HIDE DEF content, n
<1> QED
  BY <1>4, <1>10, <1>11 DEF content, Content, id

LEMMA HandledUnderstood == HandledInv => UnderstoodAsMeant
<1> DEFINE id == IF header.qos > 0 THEN 2 ELSE 0
           ends(k, topic, text) == k + 2 + topic + id + text
<1> SUFFICES ASSUME HandledInv, phase = "handled", header.type = "PUBLISH", header.qos < 2,
                    NEW k \in 1 .. MaxLengthBytes,
                    NEW topic \in 0 .. Len(body), NEW text \in 0 .. Len(body),
                    ends(k, topic, text) <= Len(body),
                    Part(1, ends(k, topic, text)) =
                      Publish(Part(k + 3, k + 2 + topic),
                              Part(k + 3 + topic, k + 2 + topic + id),
                              Part(k + 3 + topic + id, ends(k, topic, text)))
             PROVE  /\ verdict.kind =
                         IF Part(ends(k, topic, text) - text + 1, ends(k, topic, text)) = Wake
                         THEN "wake" ELSE "unsupported"
                    /\ verdict.id = IF id = 2 THEN TwoBytes(body, k + 3 + topic) ELSE -1
  BY Zenon DEF UnderstoodAsMeant
<1> DEFINE end == ends(k, topic, text)
<1>1. /\ verdict = HandleIncomingPacket(header, body) /\ header \in Headers
      /\ body \in Seq(Byte) /\ Len(body) < BufferSize /\ Len(body) \in Nat
  BY DEF HandledInv
<1>2. header.qos \in {0, 1} /\ header = [type |-> "PUBLISH", qos |-> header.qos]
  <2>1. header \in [type : {"PUBLISH"}, qos : 0 .. 3]
    BY <1>1 DEF Headers
  <2> QED
    BY <2>1
<1>3. id \in {0, 2} /\ k \in 1 .. 4 /\ topic \in Nat /\ text \in Nat
  BY <1>1 DEF MaxLengthBytes
<1>4. Framed(body, k, topic, id, text)
  BY <1>1, <1>3, PublishFramed
<1> DEFINE content == Content(body, k, topic, id, text)
<1>5. Part(end - text + 1, end) = content
  <2>1. end - text + 1 = k + 3 + topic + id
    BY <1>3
  <2> QED
    BY <2>1 DEF Part, Content
<1>6. PICK qos \in {0, 1} :
        header = [type |-> "PUBLISH", qos |-> qos] /\ id = IdBytes(qos)
  BY <1>2 DEF IdBytes
<1> HIDE DEF id
<1>7. HandleIncomingPacket([type |-> "PUBLISH", qos |-> qos], body) =
        Verdict(IF content = Wake THEN "wake" ELSE "unsupported",
                IF id = 2 THEN TwoBytes(body, k + 3 + topic) ELSE -1)
  BY <1>1, <1>3, <1>4, <1>6, FramedUnderstood
<1> HIDE DEF content
<1> QED
  BY <1>1, <1>5, <1>6, <1>7 DEF Verdict

\* A PUBLISH framed as MQTT 3.1.1 has it is taken for what its sender meant,
\* with lengths of one to four bytes and whatever follows it in the buffer: it
\* wakes if and only if its payload is the wake command, and its own identifier
\* is acknowledged (mqtt_client.c:190-300).
THEOREM UnderstandsPublishes == Spec => []UnderstoodAsMeant
  BY HandledInvariant, HandledUnderstood, PTL
=============================================================================
