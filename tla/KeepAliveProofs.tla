--------------------------- MODULE KeepAliveProofs ----------------------------
(***************************************************************************)
(* KeepAliveHonoured: a session in use is not given up by the broker for   *)
(* silence.  Every packet received restarts the ping timer, but only a     *)
(* PUBLISH of QoS 1 makes the client send something in return; so what     *)
(* must not pile up in the module are answers, and none does while passes  *)
(* are prompt: no ping is sent while the answer to the last one waits.     *)
(***************************************************************************)
EXTENDS MqttClientProofs

-----------------------------------------------------------------------------
(* The inductive invariant.                                                *)

\* Where, in the queue, a packet waits that the client reads without a reply.
Answers == {i \in DOMAIN inbox : inbox[i].type # "PUBLISH"}
OneAnswer == \A i, j \in Answers : i = j

\* What the ping timer reads.
Quiet == Since(now, mqtt_last_io_ms)

Trusted == live /\ mqtt_state = "CONNECTED" /\ smooth

BringUp == {"connack", "subscribe", "suback"}

BringUpInv ==
  pc \in BringUp =>
    /\ mqtt_state = "DISCONNECTED"
    /\ OneAnswer
    /\ pc = "subscribe" => Answers = {}
    /\ pc = "suback" => silence = 0

\* How far the ping timer gets before the next pass looks at it.
QuietInv ==
  /\ pc = "poll" => Quiet <= PingInterval - 1
  /\ pc = "wake" => Quiet = 0
  /\ pc = "ack" => Quiet <= spent
  /\ pc = "delay" => Quiet <= PingInterval - 1 + spent
  /\ pc = "idle" => 3 * Quiet <= 5 * PingInterval - 3

\* The broker has heard the client within two passes of the last restart of the
\* timer; a pass is two thirds of a ping interval at most.
SilenceInv ==
  /\ pc \in {"poll", "delay", "idle"} => 3 * silence <= 3 * Quiet + 4 * PingInterval
  /\ pc \in {"wake", "ack"} => 3 * silence <= 7 * PingInterval - 3 + 3 * spent

\* An answer waits only right after the client has sent something, and the next
\* ping is not due before it is read.
AnswerInv ==
  Answers # {} =>
    /\ pc = "poll" => 3 * silence <= 2 * PingInterval
    /\ pc = "delay" => Quiet <= spent /\ silence = 0
    /\ pc = "idle" => 3 * Quiet <= 2 * PingInterval /\ 3 * silence <= 2 * PingInterval

SessionInv ==
  Trusted =>
    /\ OneAnswer
    /\ Prompt(spent)
    /\ pc \in {"wake", "ack"} => handling.qos = 1
    /\ QuietInv /\ SilenceInv /\ AnswerInv

KeepInv == BringUpInv /\ SessionInv

-----------------------------------------------------------------------------
(* Answers in the queue.                                                   *)

LEMMA InboxFacts ==
  ASSUME IInv
  PROVE  /\ inbox \in Seq(Packets) /\ Len(inbox) \in Nat
         /\ DOMAIN inbox = 1 .. Len(inbox)
  BY TypeFromIInv, LenProperties DEF TypeOK

LEMMA NoAnswers == inbox' = <<>> => Answers' = {} /\ OneAnswer'
  BY DEF Answers, OneAnswer

\* Reading from the queue: if the head was an answer it was the only one.
LEMMA FewerAnswers ==
  ASSUME IInv, NEW n \in Chunks, inbox' = Rest(n)
  PROVE  /\ Answers = {} => Answers' = {}
         /\ OneAnswer => OneAnswer'
         /\ OneAnswer /\ Head(inbox).type # "PUBLISH" => Answers' = {}
         /\ Head(inbox).type # "PUBLISH" => Answers # {}
<1>1. /\ inbox \in Seq(Packets) /\ Len(inbox) \in Nat
      /\ DOMAIN inbox = 1 .. Len(inbox)
      /\ n \in 1 .. Len(inbox)
  BY InboxFacts DEF Chunks
<1>2. /\ DOMAIN inbox' = 1 .. Len(inbox) - n
      /\ \A i \in DOMAIN inbox' : /\ i + n \in DOMAIN inbox /\ i + n # 1
                                  /\ inbox'[i] = inbox[i + n]
  BY <1>1 DEF Rest
<1>3. 1 \in DOMAIN inbox /\ Head(inbox) = inbox[1]
  BY <1>1
<1>4. \A i \in Answers' : i \in Int /\ i + n \in Answers /\ i + n # 1
  BY <1>1, <1>2 DEF Answers
<1>5. Answers = {} => Answers' = {}
  BY <1>4
<1>6. OneAnswer => OneAnswer'
  <2> SUFFICES ASSUME OneAnswer, NEW i \in Answers', NEW j \in Answers' PROVE i = j
    BY DEF OneAnswer
  <2>1. i + n = j + n
    BY <1>4 DEF OneAnswer
  <2> QED
    BY <1>1, <1>4, <2>1
<1>7. Head(inbox).type # "PUBLISH" => 1 \in Answers
  BY <1>3 DEF Answers
<1>8. OneAnswer /\ Head(inbox).type # "PUBLISH" => Answers' = {}
  BY <1>4, <1>7 DEF OneAnswer
<1> QED
  BY <1>5, <1>6, <1>7, <1>8

\* A packet joins the queue.
LEMMA MoreAnswers ==
  ASSUME IInv, NEW packet \in Packets, inbox' = Append(inbox, packet)
  PROVE  /\ packet.type = "PUBLISH" => Answers' = Answers
         /\ Answers = {} => OneAnswer'
<1>1. /\ inbox \in Seq(Packets) /\ Len(inbox) \in Nat
      /\ DOMAIN inbox = 1 .. Len(inbox)
  BY InboxFacts
<1>2. /\ DOMAIN inbox' = 1 .. Len(inbox) + 1
      /\ \A i \in 1 .. Len(inbox) : inbox'[i] = inbox[i]
      /\ inbox'[Len(inbox) + 1] = packet
  BY <1>1, AppendProperties
<1>3. packet.type = "PUBLISH" => Answers' = Answers
  BY <1>1, <1>2 DEF Answers
<1>4. Answers = {} => \A i \in Answers' : i = Len(inbox) + 1
  BY <1>1, <1>2 DEF Answers
<1> QED
  BY <1>3, <1>4 DEF OneAnswer

LEMMA AnswerQueued ==
  ASSUME IInv, NEW type \in {"CONNACK", "SUBACK", "PINGRESP"}, Answer(type), Answers = {}
  PROVE  OneAnswer'
<1>1. CASE inbox' = inbox
  BY <1>1 DEF Answers, OneAnswer
<1>2. CASE inbox' = Append(inbox, Packet(type, 0, 0))
  BY <1>2, MoreAnswers, PacketFacts
<1> QED
  BY <1>1, <1>2 DEF Answer

-----------------------------------------------------------------------------
(* Time.                                                                   *)

LEMMA QuietTypes ==
  /\ IInv => Quiet \in Nat /\ silence \in Nat
  /\ IInv' => Quiet' \in Nat /\ silence' \in Nat
<1>1. \A t, s \in Ticks : Since(t, s) \in Nat
  BY ConstantFacts DEF Ticks, TickMod, Since
<1>2. \A n \in 0 .. SilenceLimit : n \in Nat
  OBVIOUS
<1> QED
  BY <1>1, <1>2 DEF IInv, PlainTypes, Quiet

LEMMA SinceItself == \A t \in Ticks : Since(t, t) = 0
  BY ConstantFacts DEF Ticks, TickMod, Since

LEMMA DurationRange ==
  /\ \A d \in Durations : d \in 0 .. HalfRange - 1 /\ d \in Nat /\ d <= CallTime
  /\ \A d \in 1 .. PassRest : d \in 0 .. HalfRange - 1 /\ d \in Nat /\ d <= PassRest
  BY ConstantFacts DEF Durations

LEMMA QuietElapses ==
  ASSUME IInv, NEW d \in 0 .. HalfRange - 1, Elapse(d)
  PROVE  /\ UNCHANGED mqtt_last_io_ms /\ Quiet + d < TickMod => Quiet' = Quiet + d
         /\ mqtt_last_io_ms' = now' => Quiet' = 0
         /\ silence' <= silence + d
<1>1. now \in Ticks /\ mqtt_last_io_ms \in Ticks /\ now' = Later(now, d)
  BY DEF IInv, PlainTypes, Elapse
<1>2. now' \in Ticks
  BY <1>1, LaterTicks
<1>3. UNCHANGED mqtt_last_io_ms /\ Quiet + d < TickMod => Quiet' = Quiet + d
  BY <1>1, ConstantFacts DEF Quiet, Since, Later, Ticks, TickMod
<1>4. mqtt_last_io_ms' = now' => Quiet' = 0
  BY <1>2, SinceItself DEF Quiet
<1>5. silence' <= silence + d
  BY ConstantFacts DEF Elapse, SilenceAfter, IInv, PlainTypes
<1> QED
  BY <1>3, <1>4, <1>5

LEMMA QuietHeard ==
  ASSUME IInv, NEW d \in 0 .. HalfRange - 1, Heard(d)
  PROVE  /\ UNCHANGED mqtt_last_io_ms /\ Quiet + d < TickMod => Quiet' = Quiet + d
         /\ mqtt_last_io_ms' = now' => Quiet' = 0
         /\ silence' = 0
<1>1. now \in Ticks /\ mqtt_last_io_ms \in Ticks /\ now' = Later(now, d)
  BY DEF IInv, PlainTypes, Heard
<1>2. now' \in Ticks
  BY <1>1, LaterTicks
<1>3. UNCHANGED mqtt_last_io_ms /\ Quiet + d < TickMod => Quiet' = Quiet + d
  BY <1>1, ConstantFacts DEF Quiet, Since, Later, Ticks, TickMod
<1>4. mqtt_last_io_ms' = now' => Quiet' = 0
  BY <1>2, SinceItself DEF Quiet
<1> QED
  BY <1>3, <1>4 DEF Heard

LEMMA PassFacts ==
  /\ PingInterval \in Nat \ {0}
  /\ TickMod \in Nat /\ 2 * PingInterval < TickMod
  /\ SilenceLimit = 3 * PingInterval
  BY ConstantFacts DEF TickMod, SilenceLimit

LEMMA SpentTypes ==
  /\ IInv => spent \in Nat
  /\ IInv' => spent' \in Nat
<1>1. \A n \in 0 .. PingInterval : n \in Nat
  OBVIOUS
<1> QED
  BY <1>1 DEF IInv, PlainTypes

\* What a session that is still smooth tells of the step.
LEMMA SpendSmooth ==
  ASSUME NEW d, NEW still, Spend(d, still), smooth'
  PROVE  /\ smooth /\ still
         /\ Prompt(spent + d) /\ spent' = spent + d
<1>1. smooth /\ still /\ Prompt(spent + d)
  BY Zenon DEF Spend
<1> QED
  BY <1>1 DEF Spend

\* The timer in a pass that is prompt.
LEMMA QuietInPass ==
  ASSUME IInv, NEW d \in Nat, d < HalfRange, Prompt(spent + d),
         Quiet <= PingInterval - 1 + spent,
         Elapse(d) \/ Heard(d), UNCHANGED mqtt_last_io_ms
  PROVE  Quiet' = Quiet + d
<1>1. Quiet + d < TickMod
  BY QuietTypes, SpentTypes, PassFacts DEF Prompt
<1>2. d \in 0 .. HalfRange - 1
  BY ConstantFacts
<1> QED
  BY <1>1, <1>2, QuietElapses, QuietHeard

-----------------------------------------------------------------------------
(* The steps.                                                              *)

\* Without a session there is nothing to keep alive.
LEMMA GivenUpKeeps ==
  ASSUME mqtt_state' = "DISCONNECTED", pc' \notin BringUp
  PROVE  KeepInv'
  BY DEF KeepInv, BringUpInv, SessionInv, Trusted

LEMMA GiveUpKeeps == ASSUME GiveUp PROVE KeepInv'
<1>1. mqtt_state' = "DISCONNECTED" /\ pc' = "delay"
  BY DEF GiveUp, ScheduleReconnect
<1> QED
  BY <1>1, GivenUpKeeps DEF BringUp

LEMMA BringUpKeeps ==
  ASSUME IInv, IInv', KeepInv,
         WaitForRetry \/ Connect \/ ReceiveConnAck \/ SendSubscribe
  PROVE  KeepInv'
<1>1. CASE GiveUp
  BY <1>1, GiveUpKeeps
<1>2. CASE WaitForRetry
  <2>1. mqtt_state' = "DISCONNECTED" /\ pc' = "delay"
    BY <1>2 DEF WaitForRetry, clientVars
  <2> QED
    BY <2>1, GivenUpKeeps DEF BringUp
<1>3. CASE Connect /\ ~GiveUp
  <2>1. /\ mqtt_state' = "DISCONNECTED" /\ pc' = "connack"
        /\ inbox' = <<Packet("CONNACK", 0, 0)>>
    BY <1>3 DEF Connect, clientVars
  <2>2. OneAnswer'
    <3>1. DOMAIN inbox' = {1}
      BY <2>1
    <3> QED
      BY <3>1 DEF OneAnswer, Answers
  <2> QED
    BY <2>1, <2>2 DEF KeepInv, BringUpInv, SessionInv, Trusted
<1>4. CASE ReceiveConnAck /\ ~GiveUp
  <2>1. PICK n \in Chunks :
          /\ Head(inbox).type = "CONNACK" /\ inbox' = Rest(n)
          /\ pc = "connack" /\ pc' = "subscribe" /\ mqtt_state' = mqtt_state
    BY <1>4 DEF ReceiveConnAck
  <2>2. mqtt_state = "DISCONNECTED" /\ OneAnswer
    BY <2>1 DEF KeepInv, BringUpInv, BringUp
  <2>3. Answers' = {} /\ OneAnswer'
    BY <2>1, <2>2, FewerAnswers
  <2> QED
    BY <2>1, <2>2, <2>3 DEF KeepInv, BringUpInv, SessionInv, Trusted
<1>5. CASE SendSubscribe /\ ~GiveUp
  <2>1. /\ pc = "subscribe" /\ pc' = "suback" /\ Answer("SUBACK")
        /\ \E d \in Durations : Heard(d)
        /\ mqtt_state' = mqtt_state
    BY <1>5 DEF SendSubscribe, clientVars
  <2>2. mqtt_state = "DISCONNECTED" /\ Answers = {}
    BY <2>1 DEF KeepInv, BringUpInv, BringUp
  <2>3. OneAnswer' /\ silence' = 0
    BY <2>1, <2>2, AnswerQueued DEF Heard
  <2> QED
    BY <2>1, <2>2, <2>3 DEF KeepInv, BringUpInv, SessionInv, Trusted
<1> QED
  BY <1>1, <1>2, <1>3, <1>4, <1>5

\* The session begins with nothing on its way but what was published since.
LEMMA ReceiveSubAckKeeps ==
  ASSUME IInv, IInv', KeepInv, ReceiveSubAck
  PROVE  KeepInv'
<1>1. CASE GiveUp
  BY <1>1, GiveUpKeeps
<1>2. CASE ~GiveUp
  <2>1. PICK n \in Chunks, d \in Durations :
          /\ Head(inbox).type = "SUBACK" /\ inbox' = Rest(n)
          /\ pc = "suback" /\ pc' = "delay"
          /\ Elapse(d) /\ Spend(d, TRUE) /\ mqtt_last_io_ms' = now'
    BY <1>2 DEF ReceiveSubAck
  <2>2. OneAnswer /\ silence = 0
    BY <2>1 DEF KeepInv, BringUpInv, BringUp
  <2>3. Answers' = {} /\ OneAnswer'
    BY <2>1, <2>2, FewerAnswers
  <2>4. Quiet' = 0 /\ silence' <= silence + d
    BY <2>1, QuietElapses, DurationFacts
  <2>5. smooth' => Prompt(spent') /\ QuietInv' /\ SilenceInv'
    <3> SUFFICES ASSUME smooth' PROVE Prompt(spent') /\ QuietInv' /\ SilenceInv'
      OBVIOUS
    <3>1. Prompt(spent + d) /\ spent' = spent + d
      BY <2>1, SpendSmooth
    <3>2. 3 * silence' <= 2 * PingInterval
      BY <2>1, <2>2, <2>4, <3>1, QuietTypes, SpentTypes, DurationRange, PassFacts DEF Prompt
    <3>3. Prompt(spent')
      BY <3>1
    <3> QED
      BY <2>1, <2>4, <3>2, <3>3, QuietTypes, SpentTypes, PassFacts DEF QuietInv, SilenceInv
  <2> QED
    BY <2>1, <2>3, <2>5 DEF KeepInv, BringUpInv, BringUp, SessionInv, AnswerInv, Trusted
<1> QED
  BY <1>1, <1>2

\* No ping while an answer waits.
LEMMA PingKeeps ==
  ASSUME IInv, IInv', KeepInv, SkipPing \/ SendPing
  PROVE  KeepInv'
<1>1. CASE GiveUp
  BY <1>1, GiveUpKeeps
<1>2. CASE SkipPing
  <2>1. /\ pc = "idle" /\ pc' = "poll" /\ ~PingDue
        /\ UNCHANGED <<now, mqtt_last_io_ms, mqtt_state, live, smooth, spent, inbox,
                       silence>>
    BY <1>2 DEF SkipPing, clientVars, sessionGhosts
  <2>2. UNCHANGED <<Quiet, Answers, OneAnswer, Trusted>>
    BY <2>1 DEF Quiet, Answers, OneAnswer, Trusted
  <2>3. Quiet <= PingInterval - 1
    BY <2>1, QuietTypes, PassFacts DEF PingDue, Quiet
  <2> QED
    BY <2>1, <2>2, <2>3
       DEF KeepInv, BringUpInv, BringUp, SessionInv, Prompt, QuietInv, SilenceInv, AnswerInv
<1>3. CASE SendPing /\ ~GiveUp
  <2>1. PICK d \in Durations : Heard(d) /\ Spend(d, TRUE)
    BY <1>3 DEF SendPing
  <2>2. /\ pc = "idle" /\ pc' = "poll" /\ PingDue /\ Answer("PINGRESP")
        /\ mqtt_last_io_ms' = now'
        /\ UNCHANGED <<mqtt_state, live>>
    BY <1>3 DEF SendPing
  <2>3. Quiet' = 0 /\ silence' = 0
    BY <2>1, <2>2, QuietHeard, DurationFacts
  <2>4. Trusted => Answers = {}
    <3>1. PingInterval <= Quiet
      BY <2>2, QuietTypes, PassFacts DEF PingDue, Quiet
    <3> QED
      BY <2>2, <3>1, QuietTypes, PassFacts DEF KeepInv, SessionInv, AnswerInv
  <2>5. Trusted' => Trusted /\ OneAnswer' /\ Prompt(spent')
    <3> SUFFICES ASSUME Trusted' PROVE Trusted /\ OneAnswer' /\ Prompt(spent')
      OBVIOUS
    <3>1. smooth /\ Prompt(spent + d) /\ spent' = spent + d
      BY <2>1, SpendSmooth DEF Trusted
    <3>2. Trusted /\ Prompt(spent')
      BY <2>2, <3>1 DEF Trusted
    <3> QED
      BY <2>2, <2>4, <3>2, AnswerQueued
  <2>6. QuietInv' /\ SilenceInv' /\ AnswerInv'
    BY <2>2, <2>3, PassFacts DEF QuietInv, SilenceInv, AnswerInv
  <2> QED
    BY <2>2, <2>5, <2>6 DEF KeepInv, BringUpInv, BringUp, SessionInv
<1> QED
  BY <1>1, <1>2, <1>3

LEMMA PollNothingKeeps ==
  ASSUME IInv, IInv', KeepInv, PollNothing
  PROVE  KeepInv'
<1>1. PICK d \in Durations : Elapse(d) /\ Spend(d, inbox' = <<>>)
  BY DEF PollNothing
<1>2. /\ pc = "poll" /\ pc' = "delay"
      /\ UNCHANGED <<mqtt_state, mqtt_last_io_ms, live>>
  BY DEF PollNothing, clientVars
<1> SUFFICES ASSUME Trusted'
             PROVE  OneAnswer' /\ Prompt(spent') /\ QuietInv' /\ SilenceInv' /\ AnswerInv'
  BY <1>2 DEF KeepInv, BringUpInv, BringUp, SessionInv
<1>3. /\ Trusted /\ inbox' = <<>>
      /\ Prompt(spent + d) /\ spent' = spent + d
  BY <1>1, <1>2, SpendSmooth DEF Trusted
<1>4. Answers' = {} /\ OneAnswer'
  BY <1>3, NoAnswers
<1>5. /\ Quiet <= PingInterval - 1
      /\ 3 * silence <= 3 * Quiet + 4 * PingInterval
  BY <1>2, <1>3 DEF KeepInv, SessionInv, QuietInv, SilenceInv
<1>6. d \in Nat /\ d < HalfRange /\ d \in 0 .. HalfRange - 1
  BY DurationRange, ConstantFacts
<1>7. Quiet <= PingInterval - 1 + spent
  BY <1>5, QuietTypes, SpentTypes, PassFacts
<1>8. Quiet' = Quiet + d /\ silence' <= silence + d
  BY <1>1, <1>2, <1>3, <1>6, <1>7, QuietInPass, QuietElapses
<1>9. QuietInv' /\ SilenceInv'
  <2>1. Quiet' <= PingInterval - 1 + spent'
    BY <1>3, <1>5, <1>6, <1>8, QuietTypes, SpentTypes, PassFacts
  <2>2. 3 * silence' <= 3 * Quiet' + 4 * PingInterval
    BY <1>5, <1>6, <1>8, QuietTypes, PassFacts
  <2> QED
    BY <1>2, <2>1, <2>2 DEF QuietInv, SilenceInv
<1>10. Prompt(spent')
  BY <1>3
<1> QED
  BY <1>4, <1>9, <1>10 DEF AnswerInv

\* Only a PUBLISH of QoS 1 is followed by a reply; anything else the timer is
\* restarted for was an answer, and with it the last.
LEMMA HandleIncomingPacketKeeps ==
  ASSUME IInv, IInv', KeepInv, HandleIncomingPacket
  PROVE  KeepInv'
<1> DEFINE packet == Head(inbox)
<1>1. PICK n \in Chunks, d \in Durations :
        /\ inbox' = Rest(n)
        /\ pc' = AfterPacket(packet)
        /\ handling' = IF pc' = "delay" THEN NoPacket ELSE packet
        /\ Elapse(d)
        /\ mqtt_last_io_ms' = now'
        /\ Spend(d, ~(packet.type = "PUBLISH" /\ packet.qos = 0))
  BY DEF HandleIncomingPacket
<1>2. pc = "poll" /\ UNCHANGED <<mqtt_state, live>>
  BY DEF HandleIncomingPacket
<1>3. packet \in Packets
  BY <1>1, ShorterQueue DEF IInv, WakesInv, Sent
<1> HIDE DEF packet
<1>4. /\ pc' \in {"wake", "ack", "delay"}
      /\ pc' # "delay" => packet.type = "PUBLISH"
      /\ pc' = "delay" => packet.qos # 1
      /\ packet.qos \in {0, 1}
  BY <1>1, <1>3, PacketFacts DEF AfterPacket, IsWake
<1> SUFFICES ASSUME Trusted'
             PROVE  /\ OneAnswer' /\ Prompt(spent')
                    /\ pc' \in {"wake", "ack"} => handling'.qos = 1
                    /\ QuietInv' /\ SilenceInv' /\ AnswerInv'
  BY <1>4 DEF KeepInv, BringUpInv, BringUp, SessionInv
<1>5. /\ Trusted /\ ~(packet.type = "PUBLISH" /\ packet.qos = 0)
      /\ Prompt(spent + d) /\ spent' = spent + d
  BY <1>1, <1>2, SpendSmooth DEF Trusted
<1>6. /\ OneAnswer
      /\ Quiet <= PingInterval - 1
      /\ 3 * silence <= 3 * Quiet + 4 * PingInterval
      /\ Answers # {} => 3 * silence <= 2 * PingInterval
  BY <1>2, <1>5 DEF KeepInv, SessionInv, QuietInv, SilenceInv, AnswerInv
<1>7. Quiet' = 0 /\ silence' <= silence + d
  BY <1>1, QuietElapses, DurationFacts
<1>8. OneAnswer' /\ Prompt(spent')
  BY <1>1, <1>5, <1>6, FewerAnswers
<1>9. pc' \in {"wake", "ack"} => handling'.qos = 1
  BY <1>1, <1>4, <1>5
<1>10. CASE packet.type = "PUBLISH"
  <2>1. pc' \in {"wake", "ack"}
    BY <1>4, <1>5, <1>10
  <2>2. QuietInv' /\ SilenceInv' /\ AnswerInv'
    BY <1>5, <1>6, <1>7, <2>1, QuietTypes, SpentTypes, DurationRange, PassFacts
       DEF QuietInv, SilenceInv, AnswerInv
  <2> QED
    BY <1>8, <1>9, <2>2
<1>11. CASE packet.type # "PUBLISH"
  <2>1. pc' = "delay"
    BY <1>4, <1>11
  <2>2. Answers # {} /\ Answers' = {}
    BY <1>1, <1>6, <1>11, FewerAnswers DEF packet
  <2>3. QuietInv' /\ SilenceInv' /\ AnswerInv'
    <3>1. 3 * silence' <= 4 * PingInterval
      BY <1>5, <1>6, <1>7, <2>2, QuietTypes, SpentTypes, DurationRange, PassFacts DEF Prompt
    <3> QED
      BY <1>7, <2>1, <2>2, <3>1, QuietTypes, SpentTypes, PassFacts
         DEF QuietInv, SilenceInv, AnswerInv
  <2> QED
    BY <1>8, <1>9, <2>3
<1> QED
  BY <1>10, <1>11

LEMMA WakeCallbackKeeps ==
  ASSUME IInv, IInv', KeepInv, WakeCallback
  PROVE  KeepInv'
<1>1. /\ pc = "wake"
      /\ pc' = IF handling.qos = 1 THEN "ack" ELSE "delay"
      /\ handling' = IF handling.qos = 1 THEN handling ELSE NoPacket
      /\ UNCHANGED mqtt_last_io_ms
  BY DEF WakeCallback
<1>2. PICK d \in Durations : Elapse(d) /\ Spend(d, TRUE)
  BY DEF WakeCallback
<1>3. CASE ScheduleReconnect(now')
  BY <1>1, <1>3, GivenUpKeeps DEF ScheduleReconnect, BringUp
<1>4. CASE UNCHANGED <<mqtt_state, live, inbox>>
  <2> SUFFICES ASSUME Trusted'
               PROVE  /\ OneAnswer' /\ Prompt(spent') /\ pc' = "ack" /\ handling'.qos = 1
                      /\ QuietInv' /\ SilenceInv'
    BY <1>1 DEF KeepInv, BringUpInv, BringUp, SessionInv, AnswerInv
  <2>1. Trusted /\ Prompt(spent + d) /\ spent' = spent + d
    BY <1>2, <1>4, SpendSmooth DEF Trusted
  <2>2. /\ OneAnswer /\ handling.qos = 1 /\ Quiet = 0
        /\ 3 * silence <= 7 * PingInterval - 3 + 3 * spent
    BY <1>1, <2>1 DEF KeepInv, SessionInv, QuietInv, SilenceInv
  <2>3. OneAnswer' /\ Prompt(spent')
    BY <1>4, <2>1, <2>2 DEF OneAnswer, Answers
  <2>4. pc' = "ack" /\ handling'.qos = 1
    BY <1>1, <2>2
  <2>5. d \in Nat /\ d < HalfRange /\ d \in 0 .. HalfRange - 1
    BY DurationRange, ConstantFacts
  <2>6. Quiet <= PingInterval - 1 + spent
    BY <2>2, QuietTypes, SpentTypes, PassFacts
  <2>7. Quiet' = d /\ silence' <= silence + d
    BY <1>1, <1>2, <2>1, <2>2, <2>5, <2>6, QuietInPass, QuietElapses
  <2>8. QuietInv' /\ SilenceInv'
    BY <2>1, <2>2, <2>4, <2>5, <2>7, QuietTypes, SpentTypes, PassFacts DEF QuietInv, SilenceInv
  <2> QED
    BY <2>3, <2>4, <2>8
<1> QED
  BY <1>3, <1>4 DEF WakeCallback

LEMMA SendPubAckKeeps ==
  ASSUME IInv, IInv', KeepInv, SendPubAck
  PROVE  KeepInv'
<1>1. CASE GiveUp
  BY <1>1, GiveUpKeeps
<1>2. CASE ~GiveUp
  <2>1. PICK d \in Durations : Heard(d) /\ Spend(d, TRUE)
    BY <1>2 DEF SendPubAck
  <2>2. /\ pc = "ack" /\ pc' = "delay"
        /\ UNCHANGED <<mqtt_state, mqtt_last_io_ms, live, inbox>>
    BY <1>2 DEF SendPubAck, clientVars
  <2> SUFFICES ASSUME Trusted'
               PROVE  OneAnswer' /\ Prompt(spent') /\ QuietInv' /\ SilenceInv' /\ AnswerInv'
    BY <2>2 DEF KeepInv, BringUpInv, BringUp, SessionInv
  <2>3. /\ Trusted /\ Prompt(spent + d) /\ spent' = spent + d
        /\ OneAnswer /\ Quiet <= spent
    BY <2>1, <2>2, SpendSmooth DEF Trusted, KeepInv, SessionInv, QuietInv
  <2>4. OneAnswer' /\ Prompt(spent')
    BY <2>2, <2>3 DEF OneAnswer, Answers
  <2>5. d \in Nat /\ d < HalfRange /\ d \in 0 .. HalfRange - 1
    BY DurationRange, ConstantFacts
  <2>6. Quiet <= PingInterval - 1 + spent
    BY <2>3, QuietTypes, SpentTypes, PassFacts
  <2>7. Quiet' = Quiet + d /\ silence' = 0
    BY <2>1, <2>2, <2>3, <2>5, <2>6, QuietInPass, QuietHeard
  <2>8. QuietInv' /\ SilenceInv' /\ AnswerInv'
    BY <2>2, <2>3, <2>5, <2>7, QuietTypes, SpentTypes, PassFacts
       DEF QuietInv, SilenceInv, AnswerInv
  <2> QED
    BY <2>4, <2>8
<1> QED
  BY <1>1, <1>2

LEMMA DelayKeeps ==
  ASSUME IInv, IInv', KeepInv, Delay
  PROVE  KeepInv'
<1>1. PICK d \in 1 .. PassRest : Elapse(d) /\ smooth' = (smooth /\ Prompt(spent + d))
  BY DEF Delay
<1>2. /\ pc = "delay" /\ pc' = "idle" /\ spent' = 0
      /\ UNCHANGED <<mqtt_state, mqtt_last_io_ms, live, inbox>>
  BY DEF Delay, clientVars
<1> SUFFICES ASSUME Trusted'
             PROVE  OneAnswer' /\ Prompt(spent') /\ QuietInv' /\ SilenceInv' /\ AnswerInv'
  BY <1>2 DEF KeepInv, BringUpInv, BringUp, SessionInv
<1>3. smooth /\ Prompt(spent + d)
  BY <1>1, Zenon DEF Trusted
<1>4. /\ OneAnswer
      /\ Quiet <= PingInterval - 1 + spent
      /\ 3 * silence <= 3 * Quiet + 4 * PingInterval
      /\ Answers # {} => Quiet <= spent /\ silence = 0
  BY <1>2, <1>3 DEF Trusted, KeepInv, SessionInv, QuietInv, SilenceInv, AnswerInv
<1>5. OneAnswer' /\ Answers' = Answers
  BY <1>2, <1>4 DEF OneAnswer, Answers
<1>6. Quiet' = Quiet + d /\ silence' <= silence + d
  BY <1>1, <1>2, <1>3, <1>4, QuietInPass, QuietElapses, DurationRange, ConstantFacts
<1>7. d \in Nat /\ 3 * (spent + d) <= 2 * PingInterval
  BY <1>3, DurationRange DEF Prompt
<1>8. QuietInv' /\ SilenceInv'
  BY <1>2, <1>4, <1>6, <1>7, QuietTypes, SpentTypes, PassFacts DEF QuietInv, SilenceInv
<1>9. AnswerInv'
  BY <1>2, <1>4, <1>5, <1>6, <1>7, QuietTypes, SpentTypes, PassFacts DEF AnswerInv
<1>10. Prompt(spent')
  BY <1>2, PassFacts DEF Prompt
<1> QED
  BY <1>5, <1>8, <1>9, <1>10

\* The broker publishes, or the connection is lost: no time passes.
LEMMA EnvironmentKeeps ==
  ASSUME IInv, IInv', KeepInv,
         Publish \/ ConnectionLost \/ BecomeCalm \/ UNCHANGED vars
  PROVE  KeepInv'
<1>1. UNCHANGED <<now, pc, mqtt_state, mqtt_last_io_ms, handling, silence, smooth, spent>>
  BY DEF Publish, ConnectionLost, BecomeCalm, vars, clientVars, sessionGhosts
<1>2. live' => live
  BY DEF Publish, ConnectionLost, Closed, BecomeCalm, vars
<1>3. UNCHANGED inbox \/ inbox' = <<>> \/
        \E packet \in Packets : packet.type = "PUBLISH" /\ inbox' = Append(inbox, packet)
  <2>1. CASE Publish
    <3>1. PICK q \in Qos, w \in {0, published'} :
            /\ inbox' = Append(inbox, Packet("PUBLISH", q, w))
      BY <2>1 DEF Publish
    <3>2. w \in 0 .. MaxWakes /\ q \in {0, 1}
      BY ConstantFacts DEF IInv, WakesInv
    <3>3. Packet("PUBLISH", q, w) \in Packets /\ Packet("PUBLISH", q, w).type = "PUBLISH"
      BY <3>2, PacketFacts DEF Packet
    <3> QED
      BY <3>1, <3>3
  <2>2. CASE ~Publish
    BY <2>2 DEF ConnectionLost, Closed, BecomeCalm, vars
  <2> QED
    BY <2>1, <2>2
<1>4. Answers' \in {Answers, {}} /\ (OneAnswer => OneAnswer')
  <2>1. CASE UNCHANGED inbox
    BY <2>1 DEF Answers, OneAnswer
  <2>2. CASE inbox' = <<>>
    BY <2>2, NoAnswers
  <2>3. CASE \E packet \in Packets : packet.type = "PUBLISH" /\ inbox' = Append(inbox, packet)
    BY <2>3, MoreAnswers DEF OneAnswer
  <2> QED
    BY <1>3, <2>1, <2>2, <2>3
<1>5. UNCHANGED Quiet /\ (Trusted' => Trusted)
  BY <1>1, <1>2 DEF Quiet, Trusted
<1>6. BringUpInv'
  BY <1>1, <1>4 DEF KeepInv, BringUpInv
<1>7. SessionInv'
  BY <1>1, <1>4, <1>5 DEF KeepInv, SessionInv, Prompt, QuietInv, SilenceInv, AnswerInv
<1> QED
  BY <1>6, <1>7 DEF KeepInv

LEMMA StepKeeps == IInv /\ IInv' /\ KeepInv /\ [Next]_vars => KeepInv'
<1> SUFFICES ASSUME IInv, IInv', KeepInv, [Next]_vars PROVE KeepInv'
  OBVIOUS
<1>1. CASE WaitForRetry \/ Connect \/ ReceiveConnAck \/ SendSubscribe
  BY <1>1, BringUpKeeps
<1>2. CASE ReceiveSubAck
  BY <1>2, ReceiveSubAckKeeps
<1>3. CASE SkipPing \/ SendPing
  BY <1>3, PingKeeps
<1>4. CASE PollNothing
  BY <1>4, PollNothingKeeps
<1>5. CASE HandleIncomingPacket
  BY <1>5, HandleIncomingPacketKeeps
<1>6. CASE HandleFragment
  BY <1>6, GiveUpKeeps DEF HandleFragment
<1>7. CASE WakeCallback
  BY <1>7, WakeCallbackKeeps
<1>8. CASE SendPubAck
  BY <1>8, SendPubAckKeeps
<1>9. CASE Delay
  BY <1>9, DelayKeeps
<1>10. CASE MqttClient_Reset
  BY <1>10, GivenUpKeeps DEF MqttClient_Reset, ScheduleReconnect, BringUp
<1>11. CASE Publish \/ ConnectionLost \/ BecomeCalm \/ UNCHANGED vars
  BY <1>11, EnvironmentKeeps
<1> QED
  BY <1>1, <1>2, <1>3, <1>4, <1>5, <1>6, <1>7, <1>8, <1>9, <1>10, <1>11
     DEF Next, Client, Environment

LEMMA Honoured == IInv /\ KeepInv => KeepAliveHonoured
<1> SUFFICES ASSUME IInv, KeepInv, Trusted PROVE silence < SilenceLimit
  BY DEF KeepAliveHonoured, Trusted
<1>1. pc \in {"idle", "poll", "wake", "ack", "delay"}
  BY DEF IInv, PlainTypes, KeepInv, BringUpInv, BringUp, Trusted
<1>2. Prompt(spent) /\ QuietInv /\ SilenceInv
  BY DEF KeepInv, SessionInv
<1> QED
  BY <1>1, <1>2, QuietTypes, SpentTypes, PassFacts DEF Prompt, QuietInv, SilenceInv

\* In a session without a slow pass the broker hears the client well within one
\* and a half keepalives, although packets received, acted on or not, put the
\* ping off: for queues of any length, and whatever calls and passes took
\* before (mqtt_client.c:320, 449-458).
THEOREM KeptAlive == Spec => []KeepAliveHonoured
<1>1. Init => KeepInv
  BY DEF Init, KeepInv, BringUpInv, BringUp, SessionInv, Trusted
<1>2. IInv /\ IInv' /\ KeepInv /\ [Next]_vars => KeepInv'
  BY StepKeeps
<1>3. IInv /\ KeepInv => KeepAliveHonoured
  BY Honoured
<1> QED
  BY <1>1, <1>2, <1>3, SessionInvariant, PTL DEF Spec
=============================================================================
