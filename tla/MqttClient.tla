----------------------------- MODULE MqttClient -----------------------------
(***************************************************************************)
(* mqtt_client.c against a broker: bring-up (CONNECT, CONNACK, SUBSCRIBE,  *)
(* SUBACK), keepalive, and the handling of what arrives, one packet per    *)
(* call of MqttClient_Process.  Packets travel in order; what the client   *)
(* sends reaches the broker at once or not at all; what the broker sends   *)
(* waits in the module until a receive call returns it - alone, or several *)
(* packets in one buffer - or loses it in an error.  The wake callback is  *)
(* app.c's HandleWakeCommand, which may run RecoverWifi and with it        *)
(* MqttClient_Reset while HandlePublish is still on the stack.             *)
(*                                                                         *)
(* The encoding of packets is left to a module of its own: here a packet   *)
(* is its type, its QoS and the wake command it carries (0 for any other   *)
(* payload).                                                               *)
(***************************************************************************)
EXTENDS Ticks, Sequences

CONSTANTS
  MqttRetryInterval,   \* APP_MQTT_RETRY_INTERVAL_MS
  PingInterval,        \* APP_MQTT_KEEPALIVE_SECONDS * 500, half the keepalive
  PassRest,            \* the longest App_Loop takes from one call of
                       \* MqttClient_Process to the next
  CallTime,            \* the longest a blocking call takes
  Qos,                 \* the QoS levels of what the broker publishes
  MaxCoalesced,        \* the most packets one receive call returns
  MaxInbox,            \* bound on packets waiting in the module
  MaxWakes,            \* bound on wake commands published
  Faults               \* what may go wrong until the network is calm

ASSUME MqttAssumption ==
  /\ {MqttRetryInterval, PingInterval, PassRest} \subseteq 1 .. HalfRange - 1
  /\ CallTime \in 0 .. HalfRange - 1
  /\ Qos \subseteq {0, 1}
  /\ {MaxCoalesced, MaxInbox} \subseteq Nat \ {0}
  /\ MaxWakes \in Nat
  /\ Faults \subseteq {"call", "loss", "refusal"}

VARIABLES
  now, pc,
  mqtt_state, mqtt_next_retry_ms, mqtt_last_io_ms,
  handling,    \* the packet HandlePublish is working on
  live,        \* the TCP connection of APP_MQTT_SOCKET_ID is up
  subscribed,  \* the broker holds the subscription of the live session
  inbox,       \* packets from the broker not yet read by the client
  silence,     \* ticks since the broker last heard the client
  published, handled, acked,  \* wake commands, numbered as published
  earlier,     \* ghost: wake commands published before the live session
  smooth,      \* ghost: since the session began no poll left a packet waiting,
               \* no QoS 0 packet came and every pass was prompt
  spent,       \* ghost: ticks the pass has taken, as long as all is smooth
  calm         \* from here on nothing goes wrong

clientVars == <<mqtt_state, mqtt_next_retry_ms, mqtt_last_io_ms>>
sessionGhosts == <<earlier, smooth, spent>>
brokerVars == <<subscribed, published, acked>>
vars == <<now, pc, clientVars, handling, live, inbox, silence, brokerVars,
          sessionGhosts, handled, calm>>

Packet(type, qos, wake) == [type |-> type, qos |-> qos, wake |-> wake]
Publishes == {Packet("PUBLISH", q, w) : q \in {0, 1}, w \in 0 .. MaxWakes}
Packets == Publishes \cup {Packet(t, 0, 0) : t \in {"CONNACK", "SUBACK", "PINGRESP"}}
NoPacket == Packet("NONE", 0, 0)

\* A broker drops a client it has not heard for one and a half keepalives.
SilenceLimit == 3 * PingInterval

TypeOK ==
  /\ now \in Ticks
  /\ pc \in {"idle", "connack", "subscribe", "suback", "poll", "wake", "ack", "delay"}
  /\ mqtt_state \in {"DISCONNECTED", "CONNECTED"}
  /\ mqtt_next_retry_ms \in Ticks
  /\ mqtt_last_io_ms \in Ticks
  /\ handling \in Publishes \cup {NoPacket}
  /\ live \in BOOLEAN
  /\ subscribed \in BOOLEAN
  /\ inbox \in Seq(Packets) /\ Len(inbox) <= MaxInbox
  /\ silence \in 0 .. SilenceLimit
  /\ published \in 0 .. MaxWakes
  /\ handled \subseteq 1 .. published /\ acked \subseteq 1 .. published
  /\ earlier \in 0 .. published /\ smooth \in BOOLEAN
  /\ spent \in 0 .. PingInterval
  /\ calm \in BOOLEAN

-----------------------------------------------------------------------------
(* Time, sockets and calls. *)

Durations == 0 .. CallTime

SilenceAfter(d) ==
  IF silence + d >= SilenceLimit THEN SilenceLimit ELSE silence + d

\* d ticks pass and the broker hears nothing.
Elapse(d) == now' = Later(now, d) /\ silence' = SilenceAfter(d)

\* d ticks pass and the broker hears a packet.
Heard(d) == now' = Later(now, d) /\ silence' = 0

\* A pass takes at most a third of the keepalive, 20 s.
Prompt(t) == 3 * t <= 2 * PingInterval

\* d ticks of the pass go by; all is still smooth or not.
Spend(d, still) ==
  /\ smooth' = (smooth /\ still /\ Prompt(spent + d))
  /\ spent' = IF smooth' THEN spent + d ELSE 0

Wrong(fault) == fault \in Faults /\ ~calm
MayFail == ~live \/ Wrong("call")

\* The connection ends; what was not read is gone.
Closed == live' = FALSE /\ inbox' = <<>> /\ subscribed' = FALSE

\* ScheduleReconnect ignores what WifiService_CloseClient returns.
CloseClient ==
  Closed \/ (Wrong("call") /\ UNCHANGED <<live, inbox, subscribed>>)

\* The broker answers; beyond MaxInbox waiting packets answers are left out.
Answer(type) ==
  inbox' = IF Len(inbox) < MaxInbox THEN Append(inbox, Packet(type, 0, 0)) ELSE inbox

\* Mutant: the socket is closed, but the state is left as it was.
OnlyCloses(t) ==
  /\ UNCHANGED mqtt_state
  /\ mqtt_next_retry_ms' = Later(t, MqttRetryInterval)
  /\ CloseClient

ScheduleReconnect(t) ==
  /\ mqtt_state' = "DISCONNECTED"
  /\ mqtt_next_retry_ms' = Later(t, MqttRetryInterval)
  /\ CloseClient

\* A failed step: the session is given up.
GiveUp ==
  /\ pc' = "delay"
  /\ \E d \in Durations : Elapse(d)
  /\ ScheduleReconnect(now')
  /\ handling' = NoPacket
  /\ UNCHANGED <<mqtt_last_io_ms, published, sessionGhosts, handled, calm>>

-----------------------------------------------------------------------------
(* ConnectAndSubscribe. *)

RetryReached == TimeReached(now, mqtt_next_retry_ms)

WaitForRetry ==
  /\ pc = "idle"
  /\ mqtt_state = "DISCONNECTED" /\ ~RetryReached
  /\ pc' = "delay"
  /\ UNCHANGED <<now, clientVars, handling, live, inbox, silence, brokerVars,
                 sessionGhosts, handled, calm>>

\* WifiService_OpenTcpClient and SendConnect.
Connect ==
  /\ pc = "idle"
  /\ mqtt_state = "DISCONNECTED" /\ RetryReached
  /\ \/ /\ pc' = "connack"
        /\ live' = TRUE
        /\ subscribed' = FALSE
        /\ inbox' = <<Packet("CONNACK", 0, 0)>>
        /\ earlier' = published
        /\ smooth' = TRUE /\ spent' = 0
        /\ \E d \in Durations : Heard(d)
        /\ UNCHANGED <<clientVars, handling, published, acked, handled, calm>>
     \/ Wrong("call") /\ GiveUp /\ UNCHANGED acked

\* The buffer a receive call returns: the first n waiting packets.
Chunks == {n \in 1 .. Len(inbox) : n <= MaxCoalesced}

\* Mutant: a PUBLISH is received again.
RestWithPublish(n) ==
  IF Head(inbox).type = "PUBLISH" THEN inbox ELSE SubSeq(inbox, n + 1, Len(inbox))

Rest(n) == SubSeq(inbox, n + 1, Len(inbox))

ReceiveConnAck ==
  /\ pc = "connack"
  /\ \/ \E n \in Chunks, d \in Durations :
          /\ Head(inbox).type = "CONNACK"
          /\ inbox' = Rest(n)
          /\ pc' = "subscribe"
          /\ Elapse(d)
          /\ mqtt_last_io_ms' = now'
          /\ UNCHANGED <<mqtt_state, mqtt_next_retry_ms, handling, live,
                         brokerVars, sessionGhosts, handled, calm>>
     \/ MayFail /\ GiveUp /\ UNCHANGED acked

SendSubscribe ==
  /\ pc = "subscribe"
  /\ \/ /\ live
        /\ pc' = "suback"
        /\ subscribed' \in {TRUE, ~Wrong("refusal")}
        /\ Answer("SUBACK")
        /\ \E d \in Durations : Heard(d)
        /\ UNCHANGED <<clientVars, handling, live, published, acked,
                       sessionGhosts, handled, calm>>
     \/ MayFail /\ GiveUp /\ UNCHANGED acked

\* ReceiveExpected(0x90): only the packet's type is looked at, and what
\* follows it in the buffer is not looked at at all.
ReceiveSubAck ==
  /\ pc = "suback"
  /\ \/ \E n \in Chunks, d \in Durations :
          /\ Head(inbox).type = "SUBACK"
          /\ inbox' = Rest(n)
          /\ pc' = "delay"
          /\ mqtt_state' = "CONNECTED"
          /\ Elapse(d) /\ Spend(d, TRUE)
          /\ mqtt_last_io_ms' = now'
          /\ UNCHANGED <<mqtt_next_retry_ms, handling, live, brokerVars,
                         earlier, handled, calm>>
     \/ MayFail /\ GiveUp /\ UNCHANGED acked

-----------------------------------------------------------------------------
(* A connected MqttClient_Process. *)

\* Mutant: the keepalive itself, not half of it.
PingDueLate == Since(now, mqtt_last_io_ms) >= 2 * PingInterval

PingDue == Since(now, mqtt_last_io_ms) >= PingInterval

SkipPing ==
  /\ pc = "idle"
  /\ mqtt_state = "CONNECTED" /\ ~PingDue
  /\ pc' = "poll"
  /\ UNCHANGED <<now, clientVars, handling, live, inbox, silence, brokerVars,
                 sessionGhosts, handled, calm>>

SendPing ==
  /\ pc = "idle"
  /\ mqtt_state = "CONNECTED" /\ PingDue
  /\ \/ /\ live
        /\ pc' = "poll"
        /\ Answer("PINGRESP")
        /\ \E d \in Durations : Heard(d) /\ Spend(d, TRUE)
        /\ mqtt_last_io_ms' = now'
        /\ UNCHANGED <<mqtt_state, mqtt_next_retry_ms, handling, live,
                       brokerVars, earlier, handled, calm>>
     \/ MayFail /\ GiveUp /\ UNCHANGED acked

\* The poll brings nothing, or an error, which is ignored; what the module
\* had read out for the failed call is gone.
PollNothing ==
  /\ pc = "poll"
  /\ \/ (inbox = <<>> \/ MayFail) /\ UNCHANGED inbox
     \/ Wrong("loss") /\ \E n \in Chunks : inbox' = Rest(n)
  /\ pc' = "delay"
  /\ \E d \in Durations : Elapse(d) /\ Spend(d, inbox' = <<>>)
  /\ UNCHANGED <<clientVars, handling, live, brokerVars, earlier, handled,
                 calm>>

\* Mutant: any payload of a PUBLISH wakes the PC.
AnyPayload(packet) == TRUE

IsWake(packet) == packet.wake # 0

\* What HandleIncomingPacket makes of the first packet of the buffer.
AfterPacket(packet) ==
  IF packet.type = "PUBLISH" /\ IsWake(packet) THEN "wake"
  ELSE IF packet.qos = 1 THEN "ack"
  ELSE "delay"

HandleIncomingPacket ==
  /\ pc = "poll"
  /\ \E n \in Chunks, d \in Durations :
       /\ inbox' = Rest(n)
       /\ pc' = AfterPacket(Head(inbox))
       /\ handling' = IF pc' = "delay" THEN NoPacket ELSE Head(inbox)
       /\ Elapse(d)
       /\ mqtt_last_io_ms' = now'
       /\ Spend(d, ~(Head(inbox).type = "PUBLISH" /\ Head(inbox).qos = 0))
  /\ UNCHANGED <<mqtt_state, mqtt_next_retry_ms, live, brokerVars, earlier,
                 handled, calm>>

\* A buffer that ends within the packet: HandlePublish finds it too short.  The
\* time of the last packet is not read again before the next session sets it.
HandleFragment ==
  /\ pc = "poll"
  /\ inbox # <<>> /\ Wrong("loss")
  /\ GiveUp
  /\ UNCHANGED acked

WakeCallback ==
  /\ pc = "wake"
  /\ handled' = handled \cup {handling.wake}
  /\ \E d \in Durations : Elapse(d) /\ Spend(d, TRUE)
  /\ \/ UNCHANGED <<mqtt_state, mqtt_next_retry_ms, live, inbox, subscribed>>
     \/ Wrong("call") /\ ScheduleReconnect(now')
  /\ pc' = IF handling.qos = 1 THEN "ack" ELSE "delay"
  /\ handling' = IF handling.qos = 1 THEN handling ELSE NoPacket
  /\ UNCHANGED <<mqtt_last_io_ms, published, acked, earlier, calm>>

\* The acknowledgement may reach the broker although the call fails.
SendPubAck ==
  /\ pc = "ack"
  /\ \/ /\ live
        /\ acked' = acked \cup ({handling.wake} \ {0})
        /\ pc' = "delay"
        /\ handling' = NoPacket
        /\ \E d \in Durations : Heard(d) /\ Spend(d, TRUE)
        /\ UNCHANGED <<clientVars, live, inbox, subscribed, published,
                       earlier, handled, calm>>
     \/ /\ MayFail
        /\ GiveUp
        /\ acked' \in {acked, IF live THEN acked \cup ({handling.wake} \ {0}) ELSE acked}

-----------------------------------------------------------------------------
(* The rest of App_Loop, the broker and the network. *)

Delay ==
  /\ pc = "delay"
  /\ pc' = "idle"
  /\ \E d \in 1 .. PassRest : Elapse(d) /\ smooth' = (smooth /\ Prompt(spent + d))
  /\ spent' = 0
  /\ UNCHANGED <<clientVars, handling, live, inbox, brokerVars, earlier,
                 handled, calm>>

\* RecoverWifi, for a failure elsewhere in App_Loop.
MqttClient_Reset ==
  /\ pc = "delay" /\ Wrong("call")
  /\ ScheduleReconnect(now)
  /\ UNCHANGED <<now, pc, mqtt_last_io_ms, handling, silence, published, acked,
                 sessionGhosts, handled, calm>>

\* A publisher's message reaches the subscription.
Publish ==
  /\ live /\ subscribed
  /\ Len(inbox) < MaxInbox
  /\ \E q \in Qos :
       \/ /\ published < MaxWakes
          /\ published' = published + 1
          /\ inbox' = Append(inbox, Packet("PUBLISH", q, published'))
       \/ /\ inbox' = Append(inbox, Packet("PUBLISH", q, 0))
          /\ UNCHANGED published
  /\ UNCHANGED <<now, pc, clientVars, handling, live, silence, subscribed,
                 acked, sessionGhosts, handled, calm>>

\* The broker gives a silent client up, or the connection is lost: the client
\* is not told.
ConnectionLost ==
  /\ live
  /\ Wrong("call") \/ silence >= SilenceLimit
  /\ Closed
  /\ UNCHANGED <<now, pc, clientVars, handling, silence, published, acked,
                 sessionGhosts, handled, calm>>

BecomeCalm ==
  /\ ~calm
  /\ calm' = TRUE
  /\ UNCHANGED <<now, pc, clientVars, handling, live, inbox, silence,
                 brokerVars, sessionGhosts, handled>>

-----------------------------------------------------------------------------
\* MqttClient_Init.
Init ==
  /\ now = 0
  /\ pc = "idle"
  /\ mqtt_state = "DISCONNECTED"
  /\ mqtt_next_retry_ms = 0
  /\ mqtt_last_io_ms = 0
  /\ handling = NoPacket
  /\ live = FALSE
  /\ subscribed = FALSE
  /\ inbox = <<>>
  /\ silence = 0
  /\ published = 0
  /\ earlier = 0
  /\ smooth = TRUE /\ spent = 0
  /\ handled = {}
  /\ acked = {}
  /\ calm = FALSE

Client ==
  \/ WaitForRetry \/ Connect \/ ReceiveConnAck \/ SendSubscribe \/ ReceiveSubAck
  \/ SkipPing \/ SendPing \/ PollNothing \/ HandleIncomingPacket \/ HandleFragment
  \/ WakeCallback \/ SendPubAck \/ Delay

Environment == MqttClient_Reset \/ Publish \/ ConnectionLost \/ BecomeCalm

Next == Client \/ Environment

\* The super-loop keeps calling MqttClient_Process.
Spec == Init /\ [][Next]_vars /\ WF_vars(Client)

-----------------------------------------------------------------------------
(* Properties. *)

\* The wake commands on their way to the handler, the one it is about to act on
\* included.
Waiting ==
  ({inbox[k].wake : k \in DOMAIN inbox} \cup
     (IF pc = "wake" THEN {handling.wake} ELSE {})) \ {0}

Topic == INSTANCE WakeTopic WITH waiting <- Waiting

\* A wake command is acted on at most once and never after a later one, and
\* acknowledged only after that, whatever is lost, coalesced, torn or reset on
\* the way: a session begins clean, and one buffer is looked at once
\* (mqtt_client.c:106, 278-299, 460-466).
WakesInOrder == Topic!Spec

\* As long as the client trusts a live session in which so far every pass was
\* prompt, every poll that brought nothing left nothing and nothing came with
\* QoS 0, the broker hears from it often enough not to give it up, although
\* received packets restart the ping timer too and calls delay the ping
\* (mqtt_client.c:320, 449-458).  The code bounds no pass: a session with a
\* slow one may be dropped, and then Reconnects is what is left.
KeepAliveHonoured ==
  live /\ mqtt_state = "CONNECTED" /\ smooth => silence < SilenceLimit

\* What the broker publishes on the wake topic during a session the client
\* trusts reaches the wake handler (README.md:125): each wake command of the
\* session is handled, in hand, or still to be received.
WakeReachesHandler ==
  live /\ mqtt_state = "CONNECTED" =>
    \A i \in earlier + 1 .. published :
      \/ i \in handled
      \/ handling.wake = i
      \/ \E k \in DOMAIN inbox : inbox[k].wake = i

\* "MQTT connected and subscribed" (mqtt_client.c:418): the broker of a live
\* session that the client calls connected holds the subscription.
ConnectedMeansSubscribed == mqtt_state = "CONNECTED" /\ live => subscribed

\* Once the network is calm the client is connected to a broker that will send
\* it wake commands, again and again: a connection lost unnoticed is found out
\* by the keepalive (mqtt_client.c:449-458, 33-38).
Reconnects == <>[]calm => []<>(mqtt_state = "CONNECTED" /\ live /\ subscribed)
=============================================================================
