-------------------------- MODULE MqttClientProofs --------------------------
(***************************************************************************)
(* Proofs about MqttClient for every length of queue, interval and call.   *)
(***************************************************************************)
EXTENDS MqttClient, SequenceTheorems, TLAPS

LEMMA ConstantFacts ==
  /\ HalfRange \in Nat \ {0}
  /\ MqttRetryInterval \in Nat \ {0} /\ MqttRetryInterval < HalfRange
  /\ PingInterval \in Nat \ {0} /\ PingInterval < HalfRange
  /\ PassRest \in Nat \ {0} /\ PassRest < HalfRange
  /\ CallTime \in Nat /\ CallTime < HalfRange
  /\ MaxInbox \in Nat \ {0} /\ MaxCoalesced \in Nat \ {0}
  /\ MaxWakes \in Nat /\ Qos \subseteq {0, 1}
  /\ SilenceLimit \in Nat
  BY HalfRangeAssumption, MqttAssumption DEF SilenceLimit

LEMMA DurationFacts ==
  /\ Durations \subseteq 0 .. HalfRange - 1
  /\ 1 .. PassRest \subseteq 0 .. HalfRange - 1
  BY ConstantFacts DEF Durations

\* The tick arithmetic stays within uint32_t.
LEMMA LaterTicks ==
  ASSUME NEW t \in Ticks, NEW d \in 0 .. HalfRange - 1
  PROVE  Later(t, d) \in Ticks
  BY ConstantFacts DEF Later, Ticks, TickMod

LEMMA ElapseType ==
  ASSUME now \in Ticks, silence \in 0 .. SilenceLimit,
         NEW d \in 0 .. HalfRange - 1, Elapse(d) \/ Heard(d)
  PROVE  now' \in Ticks /\ silence' \in 0 .. SilenceLimit
<1>1. now' \in Ticks
  BY LaterTicks DEF Elapse, Heard
<1>2. silence' \in 0 .. SilenceLimit
  BY ConstantFacts DEF Elapse, Heard, SilenceAfter
<1> QED
  BY <1>1, <1>2

LEMMA PacketFacts ==
  /\ \A t \in {"CONNACK", "SUBACK", "PINGRESP"} : Packet(t, 0, 0) \in Packets
  /\ \A q \in {0, 1}, w \in 0 .. MaxWakes : Packet("PUBLISH", q, w) \in Publishes
  /\ Publishes \subseteq Packets
  /\ \A packet \in Packets :
       /\ packet.qos \in {0, 1} /\ packet.wake \in 0 .. MaxWakes
       /\ packet.type = "PUBLISH" => packet \in Publishes
       /\ packet.type # "PUBLISH" => packet.qos = 0 /\ packet.wake = 0
<1>1. \A t \in {"CONNACK", "SUBACK", "PINGRESP"} : Packet(t, 0, 0) \in Packets
  BY DEF Packets
<1>2. \A q \in {0, 1}, w \in 0 .. MaxWakes : Packet("PUBLISH", q, w) \in Publishes
  BY DEF Publishes
<1>3. Publishes \subseteq Packets
  BY DEF Packets
<1>4. ASSUME NEW packet \in Packets
      PROVE  /\ packet.qos \in {0, 1} /\ packet.wake \in 0 .. MaxWakes
             /\ packet.type = "PUBLISH" => packet \in Publishes
             /\ packet.type # "PUBLISH" => packet.qos = 0 /\ packet.wake = 0
  <2>1. CASE packet \in Publishes
    <3>1. PICK q \in {0, 1}, w \in 0 .. MaxWakes : packet = Packet("PUBLISH", q, w)
      BY <2>1 DEF Publishes
    <3> QED
      BY <2>1, <3>1 DEF Packet
  <2>2. CASE packet \in {Packet(t, 0, 0) : t \in {"CONNACK", "SUBACK", "PINGRESP"}}
    <3>1. PICK t \in {"CONNACK", "SUBACK", "PINGRESP"} : packet = Packet(t, 0, 0)
      BY <2>2
    <3>2. packet.qos = 0 /\ packet.wake = 0 /\ packet.type = t
      BY <3>1 DEF Packet
    <3> QED
      BY <3>1, <3>2, ConstantFacts
  <2> QED
    BY <2>1, <2>2 DEF Packets
<1> QED
  BY <1>1, <1>2, <1>3, <1>4

\* What the broker has sent by the time it has published n wake commands.
Sent(n) == {packet \in Packets : packet.wake <= n}

\* The queue between broker and client holds such packets and is bounded.
Queue(q, n) == q \in Seq(Sent(n)) /\ Len(q) <= MaxInbox

LEMMA EmptyQueue == \A n : Queue(<<>>, n)
  BY EmptySeq, ConstantFacts DEF Queue

LEMMA ShorterQueue ==
  ASSUME NEW m, Queue(inbox, m), NEW n \in Chunks
  PROVE  Queue(Rest(n), m) /\ Head(inbox) \in Sent(m)
<1>1. n \in 1 .. Len(inbox) /\ Len(inbox) \in Nat
  BY LenProperties DEF Chunks, Queue
<1>2. inbox # <<>>
  BY <1>1, EmptySeq
<1>3. Head(inbox) \in Sent(m)
  BY <1>2, HeadTailProperties DEF Queue
<1>4. \A i \in n + 1 .. Len(inbox) : inbox[i] \in Sent(m)
  BY <1>1, ElementOfSeq DEF Queue
<1>5. /\ SubSeq(inbox, n + 1, Len(inbox)) \in Seq(Sent(m))
      /\ Len(SubSeq(inbox, n + 1, Len(inbox)))
           = IF n + 1 <= Len(inbox) THEN Len(inbox) - (n + 1) + 1 ELSE 0
  <2>1. n + 1 \in Int /\ Len(inbox) \in Int
    BY <1>1
  <2> QED
    BY <1>4, <2>1, SubSeqProperties
<1> QED
  BY <1>1, <1>3, <1>5, ConstantFacts DEF Rest, Queue

LEMMA LongerQueue ==
  ASSUME NEW m, Queue(inbox, m), Len(inbox) < MaxInbox, NEW packet \in Sent(m)
  PROVE  Queue(Append(inbox, packet), m)
<1>1. /\ Append(inbox, packet) \in Seq(Sent(m))
      /\ Len(Append(inbox, packet)) = Len(inbox) + 1
  BY AppendProperties DEF Queue
<1>2. Len(inbox) \in Nat
  BY LenProperties DEF Queue
<1> QED
  BY <1>1, <1>2, ConstantFacts DEF Queue

LEMMA LaterQueue ==
  ASSUME NEW m \in Nat, NEW q, Queue(q, m)
  PROVE  Queue(q, m + 1)
<1>1. Sent(m) \subseteq Sent(m + 1)
  BY PacketFacts DEF Sent
<1> QED
  BY <1>1, SeqMonotonic DEF Queue

LEMMA AnswerType ==
  ASSUME NEW m \in Nat, Queue(inbox, m),
         NEW type \in {"CONNACK", "SUBACK", "PINGRESP"}, Answer(type)
  PROVE  Queue(inbox', m)
<1>1. Packet(type, 0, 0) \in Sent(m)
  BY PacketFacts DEF Sent, Packet
<1> QED
  BY <1>1, LongerQueue DEF Answer

LEMMA ReconnectType ==
  ASSUME NEW m, Queue(inbox, m), live \in BOOLEAN, subscribed \in BOOLEAN,
         NEW t \in Ticks, ScheduleReconnect(t)
  PROVE  /\ mqtt_state' = "DISCONNECTED" /\ mqtt_next_retry_ms' \in Ticks
         /\ Queue(inbox', m) /\ live' \in BOOLEAN /\ subscribed' \in BOOLEAN
<1>1. mqtt_next_retry_ms' \in Ticks
  <2>1. MqttRetryInterval \in 0 .. HalfRange - 1
    BY ConstantFacts
  <2> QED
    BY <2>1, LaterTicks DEF ScheduleReconnect
<1>2. Queue(inbox', m) /\ live' \in BOOLEAN /\ subscribed' \in BOOLEAN
  BY EmptyQueue DEF ScheduleReconnect, CloseClient, Closed
<1> QED
  BY <1>1, <1>2 DEF ScheduleReconnect

-----------------------------------------------------------------------------
(* Type correctness, and what is known of wake commands.                   *)

\* Variables of simple types.
PlainTypes ==
  /\ now \in Ticks
  /\ pc \in {"idle", "connack", "subscribe", "suback", "poll", "wake", "ack", "delay"}
  /\ mqtt_state \in {"DISCONNECTED", "CONNECTED"}
  /\ mqtt_next_retry_ms \in Ticks /\ mqtt_last_io_ms \in Ticks
  /\ live \in BOOLEAN /\ subscribed \in BOOLEAN
  /\ silence \in 0 .. SilenceLimit
  /\ smooth \in BOOLEAN /\ spent \in 0 .. PingInterval
  /\ calm \in BOOLEAN

\* What the packets in the queue and in hand have to do with wake commands: a
\* packet to act on carries a published one, and a packet to acknowledge none
\* or one that was acted on.
WakesInv ==
  /\ published \in 0 .. MaxWakes
  /\ earlier \in 0 .. published
  /\ Queue(inbox, published)
  /\ handling \in (Publishes \cap Sent(published)) \cup {NoPacket}
  /\ pc = "wake" => handling \in Publishes /\ handling.wake # 0
  /\ pc = "ack" => handling.wake \in handled \cup {0}
  /\ handled \subseteq 1 .. published
  /\ acked \subseteq handled

IInv == PlainTypes /\ WakesInv

LEMMA TypeFromIInv == IInv => TypeOK
<1> SUFFICES ASSUME IInv PROVE TypeOK
  OBVIOUS
<1>1. inbox \in Seq(Packets) /\ Len(inbox) <= MaxInbox
  <2>1. Sent(published) \subseteq Packets
    BY DEF Sent
  <2> QED
    BY <2>1, SeqMonotonic DEF IInv, WakesInv, Queue
<1> QED
  BY <1>1 DEF IInv, PlainTypes, WakesInv, TypeOK

LEMMA InitIInv == Init => IInv
<1> SUFFICES ASSUME Init PROVE IInv
  OBVIOUS
<1>1. PlainTypes
  <2>1. 0 \in Ticks /\ 0 \in 0 .. SilenceLimit /\ 0 \in 0 .. PingInterval
    BY ConstantFacts DEF Ticks, TickMod
  <2> QED
    BY <2>1 DEF Init, PlainTypes
<1>2. WakesInv
  BY EmptyQueue, ConstantFacts DEF Init, WakesInv
<1> QED
  BY <1>1, <1>2 DEF IInv

\* The parts of GiveUp.
LEMMA GiveUpTypes ==
  ASSUME IInv, GiveUp
  PROVE  PlainTypes' /\ Queue(inbox', published) /\ handling' = NoPacket
         /\ pc' = "delay" /\ UNCHANGED <<published, earlier, handled>>
<1>1. PICK d \in Durations : Elapse(d)
  BY DEF GiveUp
<1>2. now' \in Ticks /\ silence' \in 0 .. SilenceLimit
  BY <1>1, DurationFacts, ElapseType DEF IInv, PlainTypes
<1>3. /\ mqtt_state' = "DISCONNECTED" /\ mqtt_next_retry_ms' \in Ticks
      /\ Queue(inbox', published) /\ live' \in BOOLEAN /\ subscribed' \in BOOLEAN
  BY <1>2, ReconnectType DEF GiveUp, IInv, PlainTypes, WakesInv
<1> QED
  BY <1>2, <1>3 DEF GiveUp, sessionGhosts, IInv, PlainTypes

LEMMA GiveUpStep ==
  ASSUME IInv, GiveUp, acked' = acked
  PROVE  IInv'
  BY GiveUpTypes DEF IInv, WakesInv

\* A step in which only time passes besides what the second line names.
LEMMA TimePasses ==
  ASSUME PlainTypes, NEW d \in 0 .. HalfRange - 1, Elapse(d) \/ Heard(d)
  PROVE  now' \in Ticks /\ silence' \in 0 .. SilenceLimit
  BY ElapseType DEF PlainTypes

\* What a pass has spent while it is smooth is less than a ping interval.
LEMMA SpendType ==
  ASSUME PlainTypes, NEW d \in 0 .. HalfRange - 1, NEW still, Spend(d, still)
  PROVE  smooth' \in BOOLEAN /\ spent' \in 0 .. PingInterval
<1>1. spent \in Nat /\ d \in Nat /\ PingInterval \in Nat
  BY ConstantFacts DEF PlainTypes
<1>2. Prompt(spent + d) => spent + d \in 0 .. PingInterval
  BY <1>1 DEF Prompt
<1>3. smooth' \in BOOLEAN /\ (smooth' => Prompt(spent + d))
  BY Zenon DEF Spend
<1>4. spent' \in {spent + d, 0} /\ (smooth' \/ spent' = 0)
  BY DEF Spend
<1>5. CASE smooth'
  BY <1>1, <1>2, <1>3, <1>5 DEF Spend
<1>6. CASE ~smooth'
  BY <1>1, <1>3, <1>4, <1>6
<1> QED
  BY <1>5, <1>6

LEMMA BringUpStep ==
  ASSUME IInv, WaitForRetry \/ Connect \/ ReceiveConnAck \/ SendSubscribe \/ ReceiveSubAck
  PROVE  IInv'
<1> USE DEF IInv
<1>1. CASE WaitForRetry
  <2>1. /\ pc' = "delay"
        /\ UNCHANGED <<now, mqtt_state, mqtt_next_retry_ms, mqtt_last_io_ms,
                       handling, live, inbox, silence, subscribed, published,
                       acked, earlier, smooth, spent, handled, calm>>
    BY <1>1 DEF WaitForRetry, clientVars, brokerVars, sessionGhosts
  <2>2. PlainTypes'
    BY <2>1 DEF PlainTypes
  <2>3. WakesInv'
    BY <2>1 DEF WakesInv
  <2> QED
    BY <2>2, <2>3
<1>2. CASE GiveUp /\ UNCHANGED acked
  BY <1>2, GiveUpStep
<1>3. CASE Connect
  <2>1. CASE GiveUp /\ UNCHANGED acked
    BY <2>1, GiveUpStep
  <2>2. CASE ~(GiveUp /\ UNCHANGED acked)
    <3>1. PICK d \in Durations : Heard(d)
      BY <1>3, <2>2 DEF Connect
    <3>2. now' \in Ticks /\ silence' \in 0 .. SilenceLimit
      BY <3>1, TimePasses, DurationFacts
    <3>3. Queue(<<Packet("CONNACK", 0, 0)>>, published)
      <4>1. Packet("CONNACK", 0, 0) \in Sent(published)
        BY PacketFacts DEF Sent, Packet, WakesInv
      <4>2. Queue(Append(<<>>, Packet("CONNACK", 0, 0)), published)
        BY <4>1, EmptySeq, AppendProperties, ConstantFacts DEF Queue
      <4> QED
        BY <4>2
    <3>4. /\ pc' = "connack" /\ live' = TRUE /\ subscribed' = FALSE
          /\ inbox' = <<Packet("CONNACK", 0, 0)>>
          /\ earlier' = published /\ smooth' = TRUE /\ spent' = 0
          /\ UNCHANGED <<mqtt_state, mqtt_next_retry_ms, mqtt_last_io_ms,
                         handling, published, acked, handled, calm>>
      BY <1>3, <2>2 DEF Connect, clientVars
    <3>5. PlainTypes'
      <4>1. spent' \in 0 .. PingInterval
        BY <3>4, ConstantFacts
      <4> QED
        BY <3>2, <3>4, <4>1 DEF PlainTypes
    <3>6. published \in Nat /\ earlier' \in 0 .. published'
      BY <3>4, ConstantFacts DEF WakesInv
    <3>7. WakesInv'
      BY <3>3, <3>4, <3>6 DEF WakesInv
    <3> QED
      BY <3>5, <3>7
  <2> QED
    BY <2>1, <2>2
<1>4. CASE ReceiveConnAck
  <2>1. CASE GiveUp /\ UNCHANGED acked
    BY <2>1, GiveUpStep
  <2>2. CASE ~(GiveUp /\ UNCHANGED acked)
    <3>1. PICK n \in Chunks, d \in Durations :
            /\ inbox' = Rest(n) /\ pc' = "subscribe"
            /\ Elapse(d) /\ mqtt_last_io_ms' = now'
            /\ UNCHANGED <<mqtt_state, mqtt_next_retry_ms, handling, live,
                           brokerVars, sessionGhosts, handled, calm>>
      BY <1>4, <2>2 DEF ReceiveConnAck
    <3>2. now' \in Ticks /\ silence' \in 0 .. SilenceLimit
      BY <3>1, TimePasses, DurationFacts
    <3>3. Queue(inbox', published)
      BY <3>1, ShorterQueue DEF WakesInv
    <3> QED
      BY <3>1, <3>2, <3>3 DEF brokerVars, sessionGhosts, PlainTypes, WakesInv
  <2> QED
    BY <2>1, <2>2
<1>5. CASE SendSubscribe
  <2>1. CASE GiveUp /\ UNCHANGED acked
    BY <2>1, GiveUpStep
  <2>2. CASE ~(GiveUp /\ UNCHANGED acked)
    <3>1. /\ pc' = "suback" /\ subscribed' \in BOOLEAN /\ Answer("SUBACK")
          /\ \E d \in Durations : Heard(d)
          /\ UNCHANGED <<clientVars, handling, live, published, acked,
                         sessionGhosts, handled, calm>>
      BY <1>5, <2>2 DEF SendSubscribe, Wrong, PlainTypes
    <3>2. now' \in Ticks /\ silence' \in 0 .. SilenceLimit
      BY <3>1, TimePasses, DurationFacts
    <3>3. Queue(inbox', published)
      BY <3>1, AnswerType, ConstantFacts DEF WakesInv
    <3> QED
      BY <3>1, <3>2, <3>3 DEF clientVars, sessionGhosts, PlainTypes, WakesInv
  <2> QED
    BY <2>1, <2>2
<1>6. CASE ReceiveSubAck
  <2>1. CASE GiveUp /\ UNCHANGED acked
    BY <2>1, GiveUpStep
  <2>2. CASE ~(GiveUp /\ UNCHANGED acked)
    <3>1. PICK n \in Chunks, d \in Durations :
            /\ inbox' = Rest(n) /\ pc' = "delay" /\ mqtt_state' = "CONNECTED"
            /\ Elapse(d) /\ Spend(d, TRUE) /\ mqtt_last_io_ms' = now'
            /\ UNCHANGED <<mqtt_next_retry_ms, handling, live, brokerVars,
                           earlier, handled, calm>>
      BY <1>6, <2>2 DEF ReceiveSubAck
    <3>2. now' \in Ticks /\ silence' \in 0 .. SilenceLimit
      BY <3>1, TimePasses, DurationFacts
    <3>3. smooth' \in BOOLEAN /\ spent' \in 0 .. PingInterval
      BY <3>1, SpendType, DurationFacts
    <3>4. Queue(inbox', published)
      BY <3>1, ShorterQueue DEF WakesInv
    <3>5. PlainTypes'
      BY <3>1, <3>2, <3>3 DEF brokerVars, PlainTypes
    <3>6. WakesInv'
      BY <3>1, <3>4 DEF brokerVars, WakesInv
    <3> QED
      BY <3>5, <3>6
  <2> QED
    BY <2>1, <2>2
<1> QED
  BY <1>1, <1>3, <1>4, <1>5, <1>6

LEMMA PollStep ==
  ASSUME IInv, SkipPing \/ SendPing \/ PollNothing \/ HandleFragment
  PROVE  IInv'
<1> USE DEF IInv
<1>1. CASE SkipPing
  <2>1. /\ pc' = "poll"
        /\ UNCHANGED <<now, mqtt_state, mqtt_next_retry_ms, mqtt_last_io_ms,
                       handling, live, inbox, silence, subscribed, published,
                       acked, earlier, smooth, spent, handled, calm>>
    BY <1>1 DEF SkipPing, clientVars, brokerVars, sessionGhosts
  <2>2. PlainTypes'
    BY <2>1 DEF PlainTypes
  <2>3. WakesInv'
    BY <2>1 DEF WakesInv
  <2> QED
    BY <2>2, <2>3
<1>2. CASE SendPing
  <2>1. CASE GiveUp /\ UNCHANGED acked
    BY <2>1, GiveUpStep
  <2>2. CASE ~(GiveUp /\ UNCHANGED acked)
    <3>1. /\ pc' = "poll" /\ Answer("PINGRESP") /\ mqtt_last_io_ms' = now'
          /\ \E d \in Durations : Heard(d) /\ Spend(d, TRUE)
          /\ UNCHANGED <<mqtt_state, mqtt_next_retry_ms, handling, live,
                         subscribed, published, acked, earlier, handled, calm>>
      BY <1>2, <2>2 DEF SendPing, brokerVars
    <3>2. /\ now' \in Ticks /\ silence' \in 0 .. SilenceLimit
          /\ smooth' \in BOOLEAN /\ spent' \in 0 .. PingInterval
      BY <3>1, TimePasses, SpendType, DurationFacts
    <3>3. Queue(inbox', published)
      BY <3>1, AnswerType, ConstantFacts DEF WakesInv
    <3>4. PlainTypes'
      BY <3>1, <3>2 DEF PlainTypes
    <3>5. WakesInv'
      BY <3>1, <3>3 DEF WakesInv
    <3> QED
      BY <3>4, <3>5
  <2> QED
    BY <2>1, <2>2
<1>3. CASE PollNothing
  <2>1. /\ pc' = "delay"
        /\ inbox' = inbox \/ \E n \in Chunks : inbox' = Rest(n)
        /\ \E d \in Durations : Elapse(d) /\ Spend(d, inbox' = <<>>)
        /\ UNCHANGED <<mqtt_state, mqtt_next_retry_ms, mqtt_last_io_ms,
                       handling, live, subscribed, published, acked, earlier,
                       handled, calm>>
    BY <1>3 DEF PollNothing, clientVars, brokerVars
  <2>2. /\ now' \in Ticks /\ silence' \in 0 .. SilenceLimit
        /\ smooth' \in BOOLEAN /\ spent' \in 0 .. PingInterval
    BY <2>1, TimePasses, SpendType, DurationFacts
  <2>3. Queue(inbox', published)
    BY <2>1, ShorterQueue DEF WakesInv
  <2>4. PlainTypes'
    BY <2>1, <2>2 DEF PlainTypes
  <2>5. WakesInv'
    BY <2>1, <2>3 DEF WakesInv
  <2> QED
    BY <2>4, <2>5
<1>4. CASE HandleFragment
  BY <1>4, GiveUpStep DEF HandleFragment
<1> QED
  BY <1>1, <1>2, <1>3, <1>4

\* A packet to act on or to acknowledge is a PUBLISH, and one acknowledged
\* without having been acted on carries no wake command.
LEMMA AfterPacketFacts ==
  ASSUME NEW packet \in Packets
  PROVE  /\ AfterPacket(packet) \in {"wake", "ack", "delay"}
         /\ AfterPacket(packet) # "delay" => packet \in Publishes
         /\ AfterPacket(packet) = "wake" => packet.wake # 0
         /\ AfterPacket(packet) = "ack" => packet.wake = 0
  BY PacketFacts DEF AfterPacket, IsWake

LEMMA HandleIncomingPacketStep ==
  ASSUME IInv, HandleIncomingPacket
  PROVE  IInv'
<1> USE DEF IInv
<1>1. PICK n \in Chunks, d \in Durations :
        /\ inbox' = Rest(n)
        /\ pc' = AfterPacket(Head(inbox))
        /\ handling' = IF pc' = "delay" THEN NoPacket ELSE Head(inbox)
        /\ Elapse(d)
        /\ mqtt_last_io_ms' = now'
        /\ \E still \in BOOLEAN : Spend(d, still)
        /\ UNCHANGED <<mqtt_state, mqtt_next_retry_ms, live, subscribed,
                       published, acked, earlier, handled, calm>>
  BY DEF HandleIncomingPacket, brokerVars
<1>2. /\ now' \in Ticks /\ silence' \in 0 .. SilenceLimit
      /\ smooth' \in BOOLEAN /\ spent' \in 0 .. PingInterval
  BY <1>1, TimePasses, SpendType, DurationFacts
<1>3. Queue(inbox', published) /\ Head(inbox) \in Sent(published)
  BY <1>1, ShorterQueue DEF WakesInv
<1>4. /\ pc' \in {"wake", "ack", "delay"}
      /\ pc' # "delay" => Head(inbox) \in Publishes
      /\ pc' = "wake" => Head(inbox).wake # 0
      /\ pc' = "ack" => Head(inbox).wake = 0
  BY <1>1, <1>3, AfterPacketFacts DEF Sent
<1>5. PlainTypes'
  BY <1>1, <1>2, <1>4 DEF PlainTypes
<1>6. WakesInv'
  BY <1>1, <1>3, <1>4 DEF WakesInv
<1> QED
  BY <1>5, <1>6

LEMMA WakeCallbackStep ==
  ASSUME IInv, WakeCallback
  PROVE  IInv'
<1> USE DEF IInv
<1>1. PICK d \in Durations : Elapse(d) /\ Spend(d, TRUE)
  BY DEF WakeCallback
<1>2. /\ now' \in Ticks /\ silence' \in 0 .. SilenceLimit
      /\ smooth' \in BOOLEAN /\ spent' \in 0 .. PingInterval
  BY <1>1, TimePasses, SpendType, DurationFacts
<1>3. /\ handled' = handled \cup {handling.wake}
      /\ pc' = IF handling.qos = 1 THEN "ack" ELSE "delay"
      /\ handling' = IF handling.qos = 1 THEN handling ELSE NoPacket
      /\ UNCHANGED <<mqtt_last_io_ms, published, acked, earlier, calm>>
  BY DEF WakeCallback
<1>4. /\ mqtt_state' \in {"DISCONNECTED", "CONNECTED"}
      /\ mqtt_next_retry_ms' \in Ticks
      /\ Queue(inbox', published) /\ live' \in BOOLEAN /\ subscribed' \in BOOLEAN
  <2>1. CASE UNCHANGED <<mqtt_state, mqtt_next_retry_ms, live, inbox, subscribed>>
    BY <2>1 DEF PlainTypes, WakesInv
  <2>2. CASE ScheduleReconnect(now')
    BY <1>2, <2>2, ReconnectType DEF PlainTypes, WakesInv
  <2> QED
    BY <2>1, <2>2 DEF WakeCallback
<1>5. handling.wake \in 1 .. published
  <2>1. handling \in Publishes /\ handling.wake # 0
    BY DEF WakeCallback, WakesInv
  <2>2. handling # NoPacket
    BY <2>1 DEF NoPacket, Packet
  <2>3. handling \in Packets /\ handling.wake <= published
    BY <2>1, <2>2, PacketFacts DEF WakesInv, Sent
  <2>4. handling.wake \in Nat /\ published \in Nat
    BY <2>3, PacketFacts, ConstantFacts DEF WakesInv
  <2> QED
    BY <2>1, <2>3, <2>4
<1>6. PlainTypes'
  BY <1>2, <1>3, <1>4 DEF PlainTypes
<1>7. WakesInv'
  BY <1>3, <1>4, <1>5 DEF WakesInv
<1> QED
  BY <1>6, <1>7

LEMMA SendPubAckStep ==
  ASSUME IInv, SendPubAck
  PROVE  IInv'
<1> USE DEF IInv
<1>1. acked \cup ({handling.wake} \ {0}) \subseteq handled
  BY DEF SendPubAck, WakesInv
<1>2. CASE GiveUp /\ acked' \subseteq handled
  <2>1. /\ PlainTypes' /\ Queue(inbox', published) /\ handling' = NoPacket
        /\ pc' = "delay" /\ UNCHANGED <<published, earlier, handled>>
    BY <1>2, GiveUpTypes
  <2>2. WakesInv'
    BY <1>2, <2>1 DEF WakesInv
  <2> QED
    BY <2>1, <2>2
<1>3. CASE /\ acked' = acked \cup ({handling.wake} \ {0})
           /\ pc' = "delay" /\ handling' = NoPacket
           /\ \E d \in Durations : Heard(d) /\ Spend(d, TRUE)
           /\ UNCHANGED <<clientVars, live, inbox, subscribed, published,
                          earlier, handled, calm>>
  <2>1. /\ now' \in Ticks /\ silence' \in 0 .. SilenceLimit
        /\ smooth' \in BOOLEAN /\ spent' \in 0 .. PingInterval
    BY <1>3, TimePasses, SpendType, DurationFacts
  <2>2. PlainTypes'
    BY <1>3, <2>1 DEF PlainTypes, clientVars
  <2>3. WakesInv'
    BY <1>1, <1>3 DEF WakesInv
  <2> QED
    BY <2>2, <2>3
<1> QED
  BY <1>1, <1>2, <1>3 DEF SendPubAck, WakesInv

LEMMA DelayStep ==
  ASSUME IInv, Delay
  PROVE  IInv'
<1> USE DEF IInv
<1>1. PICK d \in 1 .. PassRest : Elapse(d)
  BY DEF Delay
<1>2. now' \in Ticks /\ silence' \in 0 .. SilenceLimit
  BY <1>1, TimePasses, DurationFacts
<1>3. /\ pc' = "idle"
      /\ UNCHANGED <<mqtt_state, mqtt_next_retry_ms, mqtt_last_io_ms, handling,
                     live, inbox, subscribed, published, acked, earlier,
                     handled, calm>>
      /\ smooth' \in BOOLEAN /\ spent' = 0
  BY DEF Delay, clientVars, brokerVars
<1>4. PlainTypes'
  BY <1>2, <1>3, ConstantFacts DEF PlainTypes
<1>5. WakesInv'
  BY <1>3 DEF WakesInv
<1> QED
  BY <1>4, <1>5

LEMMA ResetStep ==
  ASSUME IInv, MqttClient_Reset
  PROVE  IInv'
<1> USE DEF IInv
<1>1. /\ UNCHANGED <<now, pc, mqtt_last_io_ms, handling, silence, published,
                     acked, earlier, smooth, spent, handled, calm>>
      /\ ScheduleReconnect(now)
  BY DEF MqttClient_Reset, sessionGhosts
<1>2. /\ mqtt_state' = "DISCONNECTED" /\ mqtt_next_retry_ms' \in Ticks
      /\ Queue(inbox', published) /\ live' \in BOOLEAN /\ subscribed' \in BOOLEAN
  BY <1>1, ReconnectType DEF PlainTypes, WakesInv
<1>3. PlainTypes'
  BY <1>1, <1>2 DEF PlainTypes
<1>4. WakesInv'
  BY <1>1, <1>2 DEF WakesInv
<1> QED
  BY <1>3, <1>4

LEMMA PublishStep ==
  ASSUME IInv, Publish
  PROVE  IInv'
<1> USE DEF IInv
<1>1. PICK q \in Qos :
        \/ /\ published < MaxWakes
           /\ published' = published + 1
           /\ inbox' = Append(inbox, Packet("PUBLISH", q, published'))
        \/ /\ inbox' = Append(inbox, Packet("PUBLISH", q, 0))
           /\ UNCHANGED published
  BY DEF Publish
<1>2. /\ Len(inbox) < MaxInbox
      /\ UNCHANGED <<now, pc, mqtt_state, mqtt_next_retry_ms, mqtt_last_io_ms,
                     handling, live, silence, subscribed, acked, earlier,
                     smooth, spent, handled, calm>>
  BY DEF Publish, clientVars, sessionGhosts
<1>3. published \in Nat /\ published' \in 0 .. MaxWakes /\ published <= published'
  BY <1>1, ConstantFacts DEF WakesInv
<1>4. ASSUME NEW w \in 0 .. published'
      PROVE  Packet("PUBLISH", q, w) \in Sent(published')
  <2>1. Packet("PUBLISH", q, w) \in Packets
    BY <1>3, PacketFacts, ConstantFacts
  <2>2. Packet("PUBLISH", q, w).wake = w
    BY DEF Packet
  <2> QED
    BY <1>3, <2>1, <2>2 DEF Sent
<1>5. Queue(inbox, published')
  BY <1>1, <1>3, LaterQueue DEF WakesInv
<1>6. Queue(inbox', published')
  <2>1. 0 \in 0 .. published' /\ published' \in 0 .. published'
    BY <1>3
  <2> QED
    BY <1>1, <1>2, <1>4, <1>5, <2>1, LongerQueue
<1>7. Sent(published) \subseteq Sent(published')
  BY <1>3, PacketFacts DEF Sent
<1>8. earlier' \in 0 .. published' /\ handled' \subseteq 1 .. published'
  BY <1>2, <1>3 DEF WakesInv
<1>9. PlainTypes'
  BY <1>2 DEF PlainTypes
<1>10. WakesInv'
  BY <1>2, <1>3, <1>6, <1>7, <1>8 DEF WakesInv
<1> QED
  BY <1>9, <1>10

LEMMA NetworkStep ==
  ASSUME IInv, ConnectionLost \/ BecomeCalm \/ UNCHANGED vars
  PROVE  IInv'
<1> USE DEF IInv
<1>1. /\ UNCHANGED <<now, pc, mqtt_state, mqtt_next_retry_ms, mqtt_last_io_ms,
                     handling, silence, published, acked, earlier, smooth,
                     spent, handled>>
      /\ UNCHANGED <<live, inbox, subscribed>> \/ Closed
      /\ calm' \in BOOLEAN
  BY DEF ConnectionLost, BecomeCalm, vars, clientVars, brokerVars,
         sessionGhosts, PlainTypes
<1>2. Queue(inbox', published) /\ live' \in BOOLEAN /\ subscribed' \in BOOLEAN
  BY <1>1, EmptyQueue DEF Closed, PlainTypes, WakesInv
<1>3. PlainTypes'
  BY <1>1, <1>2 DEF PlainTypes
<1>4. WakesInv'
  BY <1>1, <1>2 DEF WakesInv
<1> QED
  BY <1>3, <1>4

LEMMA StepIInv == IInv /\ [Next]_vars => IInv'
<1> SUFFICES ASSUME IInv, [Next]_vars PROVE IInv'
  OBVIOUS
<1>1. CASE WaitForRetry \/ Connect \/ ReceiveConnAck \/ SendSubscribe \/ ReceiveSubAck
  BY <1>1, BringUpStep
<1>2. CASE SkipPing \/ SendPing \/ PollNothing \/ HandleFragment
  BY <1>2, PollStep
<1>3. CASE HandleIncomingPacket
  BY <1>3, HandleIncomingPacketStep
<1>4. CASE WakeCallback
  BY <1>4, WakeCallbackStep
<1>5. CASE SendPubAck
  BY <1>5, SendPubAckStep
<1>6. CASE Delay
  BY <1>6, DelayStep
<1>7. CASE MqttClient_Reset
  BY <1>7, ResetStep
<1>8. CASE Publish
  BY <1>8, PublishStep
<1>9. CASE ConnectionLost \/ BecomeCalm \/ UNCHANGED vars
  BY <1>9, NetworkStep
<1> QED
  BY <1>1, <1>2, <1>3, <1>4, <1>5, <1>6, <1>7, <1>8, <1>9
     DEF Next, Client, Environment

\* The invariant of the session: types, and where the wake commands are.
THEOREM SessionInvariant == Spec => []IInv
  BY InitIInv, StepIInv, PTL DEF Spec

\* Every variable of mqtt_client.c, of the broker and of the queue between them
\* keeps its type (mqtt_client.c:18-31).
THEOREM TypeCorrect == Spec => []TypeOK
  BY SessionInvariant, TypeFromIInv, PTL

-----------------------------------------------------------------------------
(* WakesInOrder: the queue is in the order of publication, and whatever is *)
(* on its way comes after everything that was acted on.                    *)

\* The wake commands in a queue, and that they come as they were numbered.
Wakes(q) == {q[k].wake : k \in DOMAIN q} \ {0}
InOrder(q) ==
  \A j, k \in DOMAIN q :
    j < k /\ q[j].wake # 0 /\ q[k].wake # 0 => q[j].wake < q[k].wake

OrderInv ==
  /\ InOrder(inbox)
  /\ pc = "wake" => \A w \in Wakes(inbox) : handling.wake < w
  /\ \A i \in Waiting, j \in handled : j < i

\* q holds no wake command that is not in the queue, and none is overtaken.
Fewer(q) == Wakes(q) \subseteq Wakes(inbox) /\ (InOrder(inbox) => InOrder(q))

LEMMA WaitingWakes ==
  /\ Waiting = Wakes(inbox) \cup (IF pc = "wake" THEN {handling.wake} \ {0} ELSE {})
  /\ Waiting' = Wakes(inbox') \cup (IF pc' = "wake" THEN {handling'.wake} \ {0} ELSE {})
  BY DEF Waiting, Wakes

LEMMA WakeNumbers ==
  ASSUME IInv
  PROVE  /\ inbox \in Seq(Packets) /\ Len(inbox) \in Nat /\ DOMAIN inbox = 1 .. Len(inbox)
         /\ \A k \in DOMAIN inbox : inbox[k].wake \in 0 .. published
         /\ handling.wake \in 0 .. published
         /\ published \in Nat
<1>1. /\ inbox \in Seq(Packets) /\ Len(inbox) \in Nat /\ DOMAIN inbox = 1 .. Len(inbox)
  BY TypeFromIInv, LenProperties DEF TypeOK
<1>2. published \in Nat
  BY ConstantFacts DEF IInv, WakesInv
<1>3. \A packet \in Sent(published) : packet.wake \in 0 .. published
  BY <1>2, PacketFacts, ConstantFacts DEF Sent
<1>4. \A k \in DOMAIN inbox : inbox[k] \in Sent(published)
  BY <1>1, ElementOfSeq DEF IInv, WakesInv, Queue
<1>5. handling.wake \in 0 .. published
  BY <1>2, <1>3 DEF IInv, WakesInv, NoPacket, Packet
<1> QED
  BY <1>1, <1>2, <1>3, <1>4, <1>5

LEMMA EmptyIsFewer == Fewer(<<>>)
  BY DEF Fewer, Wakes, InOrder

LEMMA RestIsFewer ==
  ASSUME IInv, NEW n \in Chunks
  PROVE  Fewer(Rest(n))
<1>1. /\ Len(inbox) \in Nat /\ DOMAIN inbox = 1 .. Len(inbox) /\ n \in 1 .. Len(inbox)
  BY WakeNumbers DEF Chunks
<1>2. /\ DOMAIN Rest(n) = 1 .. Len(inbox) - n
      /\ \A k \in DOMAIN Rest(n) : k + n \in DOMAIN inbox /\ Rest(n)[k] = inbox[k + n]
  BY <1>1 DEF Rest
<1>3. Wakes(Rest(n)) \subseteq Wakes(inbox)
  BY <1>2 DEF Wakes
<1>4. ASSUME InOrder(inbox) PROVE InOrder(Rest(n))
  <2> SUFFICES ASSUME NEW j \in DOMAIN Rest(n), NEW k \in DOMAIN Rest(n), j < k,
                      Rest(n)[j].wake # 0, Rest(n)[k].wake # 0
               PROVE  Rest(n)[j].wake < Rest(n)[k].wake
    BY DEF InOrder
  <2>1. j + n \in DOMAIN inbox /\ k + n \in DOMAIN inbox /\ j + n < k + n
    BY <1>1, <1>2
  <2>2. Rest(n)[j] = inbox[j + n] /\ Rest(n)[k] = inbox[k + n]
    BY <1>2
  <2> QED
    BY <1>4, <2>1, <2>2 DEF InOrder
<1> QED
  BY <1>3, <1>4 DEF Fewer

\* A packet at the end of the queue.
LEMMA AppendedWakes ==
  ASSUME IInv, NEW packet \in Packets
  PROVE  /\ Wakes(Append(inbox, packet)) = Wakes(inbox) \cup ({packet.wake} \ {0})
         /\ InOrder(inbox) /\ (packet.wake = 0 \/ packet.wake > published) =>
              InOrder(Append(inbox, packet))
<1> DEFINE q == Append(inbox, packet)
<1>1. /\ Len(inbox) \in Nat /\ DOMAIN inbox = 1 .. Len(inbox)
      /\ \A k \in DOMAIN inbox : inbox[k].wake \in 0 .. published
      /\ published \in Nat /\ packet.wake \in Nat
  BY WakeNumbers, PacketFacts, ConstantFacts
<1>2. /\ DOMAIN q = 1 .. Len(inbox) + 1
      /\ \A k \in 1 .. Len(inbox) : q[k] = inbox[k]
      /\ q[Len(inbox) + 1] = packet
  BY WakeNumbers, AppendProperties
<1> HIDE DEF q
<1>3. Wakes(q) = Wakes(inbox) \cup ({packet.wake} \ {0})
  BY <1>1, <1>2 DEF Wakes
<1>4. ASSUME InOrder(inbox), packet.wake = 0 \/ packet.wake > published
      PROVE  InOrder(q)
  <2> SUFFICES ASSUME NEW j \in DOMAIN q, NEW k \in DOMAIN q, j < k,
                      q[j].wake # 0, q[k].wake # 0
               PROVE  q[j].wake < q[k].wake
    BY DEF InOrder
  <2>1. j \in DOMAIN inbox /\ q[j] = inbox[j]
    BY <1>1, <1>2
  <2>2. CASE k \in DOMAIN inbox
    <3>1. q[k] = inbox[k]
      BY <1>1, <1>2, <2>2
    <3> QED
      BY <1>4, <2>1, <2>2, <3>1 DEF InOrder
  <2>3. CASE k = Len(inbox) + 1
    BY <1>1, <1>2, <1>4, <2>1, <2>3
  <2> QED
    BY <1>1, <1>2, <2>2, <2>3
<1> QED
  BY <1>3, <1>4 DEF q

LEMMA AnswerIsFewer ==
  ASSUME IInv, NEW type \in {"CONNACK", "SUBACK", "PINGRESP"}, Answer(type)
  PROVE  Fewer(inbox')
<1>1. Packet(type, 0, 0) \in Packets /\ Packet(type, 0, 0).wake = 0
  BY PacketFacts DEF Packet
<1>2. Fewer(Append(inbox, Packet(type, 0, 0)))
  BY <1>1, AppendedWakes DEF Fewer
<1> QED
  BY <1>2 DEF Answer, Fewer

LEMMA ConnAckIsFewer == Fewer(<<Packet("CONNACK", 0, 0)>>)
  BY DEF Fewer, Wakes, InOrder, Packet

LEMMA ReconnectIsFewer == ASSUME NEW t, ScheduleReconnect(t) PROVE Fewer(inbox')
  BY EmptyIsFewer DEF ScheduleReconnect, CloseClient, Closed, Fewer

\* Commands are lost, or nothing happens to them.
OnlyLoses ==
  /\ Fewer(inbox')
  /\ UNCHANGED <<published, handled, acked>>
  /\ pc' = "wake" => pc = "wake" /\ handling' = handling

LEMMA GiveUpLoses == ASSUME GiveUp, acked' = acked PROVE OnlyLoses
<1>1. \E t : ScheduleReconnect(t)
  BY DEF GiveUp
<1> QED
  BY <1>1, ReconnectIsFewer DEF GiveUp, OnlyLoses

\* What a step can be to the wake commands.
LEMMA WakeSteps ==
  ASSUME IInv, [Next]_vars
  PROVE  \/ OnlyLoses
         \/ HandleIncomingPacket /\ pc' = "wake"
         \/ WakeCallback
         \/ SendPubAck
         \/ Publish
<1>1. CASE WaitForRetry \/ SkipPing \/ Delay \/ BecomeCalm \/ UNCHANGED vars
  BY <1>1 DEF WaitForRetry, SkipPing, Delay, BecomeCalm, vars, brokerVars, OnlyLoses, Fewer
<1>2. CASE Connect
  BY <1>2, GiveUpLoses, ConnAckIsFewer DEF Connect, OnlyLoses
<1>3. CASE ReceiveConnAck \/ ReceiveSubAck
  BY <1>3, GiveUpLoses, RestIsFewer DEF ReceiveConnAck, ReceiveSubAck, brokerVars, OnlyLoses
<1>4. CASE SendSubscribe
  BY <1>4, GiveUpLoses, AnswerIsFewer DEF SendSubscribe, OnlyLoses
<1>5. CASE SendPing
  BY <1>5, GiveUpLoses, AnswerIsFewer DEF SendPing, brokerVars, OnlyLoses
<1>6. CASE PollNothing
  <2>1. Fewer(inbox')
    BY <1>6, RestIsFewer DEF PollNothing, Fewer
  <2> QED
    BY <1>6, <2>1 DEF PollNothing, brokerVars, OnlyLoses
<1>7. CASE HandleIncomingPacket
  BY <1>7, RestIsFewer DEF HandleIncomingPacket, brokerVars, OnlyLoses
<1>8. CASE HandleFragment
  BY <1>8, GiveUpLoses DEF HandleFragment
<1>9. CASE MqttClient_Reset
  BY <1>9, ReconnectIsFewer DEF MqttClient_Reset, OnlyLoses
<1>10. CASE ConnectionLost
  BY <1>10, EmptyIsFewer DEF ConnectionLost, Closed, OnlyLoses
<1> QED
  BY <1>1, <1>2, <1>3, <1>4, <1>5, <1>6, <1>7, <1>8, <1>9, <1>10
     DEF Next, Client, Environment

\* Each of them keeps the order and is a step of WakeTopic, or none.
topicVars == <<published, Waiting, handled, acked>>

OrderedStep == OrderInv' /\ [Topic!Next]_topicVars

LEMMA LosesOrdered ==
  ASSUME OrderInv, OnlyLoses
  PROVE  OrderedStep
<1>1. Waiting' \subseteq Waiting
  BY WaitingWakes DEF OnlyLoses, Fewer
<1>2. OrderInv'
  BY <1>1 DEF OnlyLoses, Fewer, OrderInv
<1> QED
  BY <1>1, <1>2 DEF OnlyLoses, OrderedStep, Topic!Next, Topic!Lose

\* The packet taken in hand was the first in the queue.
LEMMA TakesInOrder ==
  ASSUME IInv, OrderInv, HandleIncomingPacket, pc' = "wake"
  PROVE  OrderedStep
<1>1. PICK n \in Chunks :
        /\ inbox' = Rest(n) /\ handling' = Head(inbox)
        /\ pc = "poll" /\ UNCHANGED <<published, handled, acked>>
  BY DEF HandleIncomingPacket, brokerVars
<1>2. /\ Len(inbox) \in Nat /\ DOMAIN inbox = 1 .. Len(inbox) /\ n \in 1 .. Len(inbox)
      /\ inbox \in Seq(Packets)
  BY WakeNumbers DEF Chunks
<1>3. /\ 1 \in DOMAIN inbox /\ Head(inbox) = inbox[1]
      /\ DOMAIN Rest(n) = 1 .. Len(inbox) - n
      /\ \A k \in DOMAIN Rest(n) :
           k + n \in DOMAIN inbox /\ 1 < k + n /\ Rest(n)[k] = inbox[k + n]
  BY <1>2 DEF Rest
<1>4. handling'.wake # 0
  BY StepIInv, HandleIncomingPacketStep DEF IInv, WakesInv
<1>5. Fewer(inbox')
  BY <1>1, RestIsFewer
<1>6. handling'.wake \in Wakes(inbox)
  BY <1>1, <1>3, <1>4 DEF Wakes
<1>7. Waiting' \subseteq Waiting
  BY <1>5, <1>6, WaitingWakes DEF Fewer
<1>8. ASSUME NEW w \in Wakes(inbox') PROVE handling'.wake < w
  <2>1. PICK k \in DOMAIN Rest(n) : w = Rest(n)[k].wake /\ w # 0
    BY <1>1 DEF Wakes
  <2>2. k + n \in DOMAIN inbox /\ 1 < k + n /\ w = inbox[k + n].wake
    BY <1>3, <2>1
  <2> QED
    BY <1>1, <1>3, <1>4, <2>1, <2>2 DEF OrderInv, InOrder
<1>9. OrderInv'
  BY <1>1, <1>5, <1>7, <1>8 DEF OrderInv, Fewer
<1> QED
  BY <1>1, <1>7, <1>9 DEF OrderedStep, Topic!Next, Topic!Lose

LEMMA HandlesInOrder ==
  ASSUME IInv, OrderInv, WakeCallback
  PROVE  OrderedStep
<1> DEFINE i == handling.wake
<1>1. /\ pc = "wake" /\ pc' # "wake" /\ handled' = handled \cup {i}
      /\ UNCHANGED <<published, acked>>
  BY DEF WakeCallback
<1>2. Fewer(inbox')
  BY ReconnectIsFewer DEF WakeCallback, Fewer
<1>3. i # 0 /\ i \in Waiting
  BY <1>1, WaitingWakes DEF IInv, WakesInv
<1>4. /\ \A w \in Wakes(inbox') : i < w
      /\ \A j \in handled : j < i
  BY <1>1, <1>2, <1>3 DEF OrderInv, Fewer
<1>5. Waiting' = Wakes(inbox')
  BY <1>1, WaitingWakes
<1>6. i \in Int
  BY WakeNumbers
<1>7. Waiting' \subseteq Waiting \ {i}
  BY <1>2, <1>4, <1>5, <1>6, WaitingWakes DEF Fewer
<1>8. OrderInv'
  BY <1>1, <1>2, <1>4, <1>5, <1>7 DEF OrderInv, Fewer
<1> QED
  BY <1>1, <1>3, <1>4, <1>7, <1>8 DEF OrderedStep, Topic!Next, Topic!Handle

LEMMA AcknowledgesInOrder ==
  ASSUME IInv, OrderInv, SendPubAck
  PROVE  OrderedStep
<1>1. /\ pc = "ack" /\ pc' = "delay" /\ UNCHANGED <<published, handled>>
      /\ handling.wake \in handled \cup {0}
      /\ acked' = acked \/ acked' = acked \cup ({handling.wake} \ {0})
  BY DEF SendPubAck, GiveUp, IInv, WakesInv
<1>2. Fewer(inbox')
  BY ReconnectIsFewer DEF SendPubAck, GiveUp, Fewer
<1>3. CASE acked' = acked
  <2>1. OnlyLoses
    BY <1>1, <1>2, <1>3 DEF OnlyLoses
  <2> QED
    BY <2>1, LosesOrdered
<1>4. CASE acked' # acked
  <2>1. handling.wake \in handled /\ acked' = acked \cup {handling.wake}
    BY <1>1, <1>4
  <2>2. Waiting' \subseteq Waiting
    BY <1>1, <1>2, WaitingWakes DEF Fewer
  <2>3. OrderInv'
    BY <1>1, <1>2, <2>2 DEF OrderInv, Fewer
  <2> QED
    BY <1>1, <2>1, <2>2, <2>3 DEF OrderedStep, Topic!Next, Topic!Acknowledge
<1> QED
  BY <1>3, <1>4

LEMMA PublishesInOrder ==
  ASSUME IInv, OrderInv, Publish
  PROVE  OrderedStep
<1>1. UNCHANGED <<pc, handling, handled, acked>>
  BY DEF Publish
<1>2. PICK q \in {0, 1} :
        \/ /\ published < MaxWakes /\ published' = published + 1
           /\ inbox' = Append(inbox, Packet("PUBLISH", q, published'))
        \/ /\ inbox' = Append(inbox, Packet("PUBLISH", q, 0))
           /\ UNCHANGED published
  BY ConstantFacts DEF Publish
<1>3. /\ published \in Nat /\ handling.wake \in 0 .. published
      /\ \A w \in Wakes(inbox) : w \in 0 .. published
      /\ handled \subseteq 1 .. published
  BY WakeNumbers DEF Wakes, IInv, WakesInv
<1>4. CASE UNCHANGED published
  <2>1. Packet("PUBLISH", q, 0) \in Packets /\ Packet("PUBLISH", q, 0).wake = 0
    BY PacketFacts, ConstantFacts DEF Packet
  <2>2. inbox' = Append(inbox, Packet("PUBLISH", q, 0))
    BY <1>2, <1>3, <1>4
  <2>3. OnlyLoses
    BY <1>1, <1>4, <2>1, <2>2, AppendedWakes DEF OnlyLoses, Fewer
  <2> QED
    BY <2>3, LosesOrdered
<1>5. CASE published' = published + 1 /\ published < MaxWakes
  <2> DEFINE i == published + 1
  <2>1. inbox' = Append(inbox, Packet("PUBLISH", q, i))
    BY <1>2, <1>3, <1>5
  <2>2. /\ i \in 0 .. MaxWakes /\ i # 0 /\ i > published
    BY <1>3, <1>5, ConstantFacts
  <2>3. Packet("PUBLISH", q, i) \in Packets /\ Packet("PUBLISH", q, i).wake = i
    BY <2>2, PacketFacts DEF Packet
  <2> HIDE DEF i
  <2>4. /\ Wakes(inbox') = Wakes(inbox) \cup {i}
        /\ InOrder(inbox')
    BY <2>1, <2>2, <2>3, AppendedWakes DEF OrderInv
  <2>5. Waiting' = Waiting \cup {i}
    BY <1>1, <2>4, WaitingWakes
  <2>6. pc' = "wake" => \A w \in Wakes(inbox') : handling'.wake < w
    BY <1>1, <1>3, <2>2, <2>4 DEF OrderInv
  <2>7. \A w \in Waiting', j \in handled' : j < w
    BY <1>1, <1>3, <2>2, <2>5 DEF OrderInv
  <2> QED
    BY <1>1, <1>5, <2>4, <2>5, <2>6, <2>7
       DEF OrderInv, OrderedStep, Topic!Next, Topic!Publish, i
<1> QED
  BY <1>2, <1>4, <1>5

LEMMA NextOrdered == IInv /\ OrderInv /\ [Next]_vars => OrderedStep
  BY WakeSteps, LosesOrdered, TakesInOrder, HandlesInOrder, AcknowledgesInOrder,
     PublishesInOrder

\* mqtt_client.c acts on wake commands in the order of their publication and on
\* none twice, and acknowledges only what it acted on, however many packets
\* share a buffer and whatever is lost or reset (mqtt_client.c:190-334, 423-481).
THEOREM WakesAreInOrder == Spec => WakesInOrder
<1>1. Init => OrderInv /\ Topic!Init
  BY DEF Init, OrderInv, InOrder, Waiting, Topic!Init
<1> QED
  BY <1>1, SessionInvariant, NextOrdered, PTL
     DEF Spec, OrderedStep, WakesInOrder, Topic!Spec, topicVars
=============================================================================
