--------------------------- MODULE AppWaitProofs ----------------------------
(***************************************************************************)
(* WaitBounded: how long a deadline can go unlooked at, and so whether the *)
(* signed comparison can ever mistake an overdue deadline for a distant    *)
(* one.  While there is no link the deadlines of telemetry and of the MQTT *)
(* client are not consulted; what ends that is the count of failures,      *)
(* which resets the MCU at ResetThreshold.                                 *)
(***************************************************************************)
EXTENDS AppProofs

\* The time since a deadline was armed, if it was armed interval ahead.
Age(deadline, interval) == Since(Later(now, interval), deadline)

RetryAge == Age(app_next_retry_ms, RetryInterval)
SendAge == Age(app_next_send_ms, SendInterval)
MqttAge == Age(mqtt_next_retry_ms, MqttRetryInterval)

\* The longest from arming the bring-up to the end of an attempt, and from one
\* failed attempt to the next.
RetrySpan == RetryInterval - 1 + LoopDelay + 5 * CallTime
OutageTime == RetrySpan + CallTime + RecoveryTime

\* What the failures counted so far, and all that can be counted, have cost.
Tolls == app_consecutive_failure_count * OutageTime
MaxTolls == (ResetThreshold - 1) * OutageTime

\* The calls of a pass after the MQTT client's.
Slack == 3 * CallTime + RecoveryTime

\* The longest a deadline is left alone, beyond its interval, until a pass with
\* a link comes to it.
Longest == Slack + LoopDelay + MaxTolls + RetrySpan

\* The outage that ends in a reset, and the pass before it, are shorter than half
\* the range of the clock: seconds to minutes against 24 days in the firmware.
OutagesFit ==
  /\ SendRetryInterval <= SendInterval
  /\ MaxTolls + OutageTime + LoopDelay + 5 * CallTime + RecoveryTime < HalfRange

-----------------------------------------------------------------------------
(* The inductive invariant.                                                *)

\* The bring-up is armed anew by whatever takes the link down; as long as the
\* link is trusted its deadline is not consulted.
RetryInv ==
  ~app_wifi_connected =>
    /\ pc = "init" => RetryAge <= RetryInterval
    /\ pc = "init_wifi" => RetryAge <= RetryInterval + CallTime
    /\ pc = "ensure" =>
         RetryAge <= RetryInterval - 1 + LoopDelay +
                       (IF app_wifi_module_ready THEN 4 * CallTime ELSE 3 * CallTime)
    /\ pc = "local_ip" => RetryAge <= RetrySpan
    /\ pc = "ack" => RetryAge <= 0
    /\ pc \in {"due", "measure"} => RetryAge <= CallTime
    /\ pc = "send" => RetryAge <= 2 * CallTime
    /\ pc = "refresh" => RetryAge <= RetryInterval - 1 + 3 * CallTime

\* Away from the work of a pass: without a link a deadline has aged by at most
\* one outage per counted failure and by what the present attempt has taken.
Bounded(age, interval) ==
  pc \in {"init", "init_wifi", "ensure", "local_ip", "refresh"} =>
    /\ ~app_wifi_connected => age <= interval + Slack + Tolls + RetryAge
    /\ app_wifi_connected => age <= interval + Slack + LoopDelay
    /\ app_wifi_connected /\ pc = "refresh" => age <= interval + Slack

SendInv ==
  /\ Bounded(SendAge, SendInterval)
  /\ pc = "process" => SendAge <= SendInterval + Longest
  /\ pc = "wake" => SendAge <= SendInterval + Longest + CallTime
  /\ pc = "ack" => SendAge <= SendInterval + Longest + 2 * CallTime + RecoveryTime
  /\ pc = "due" => SendAge <= SendInterval + Longest + 3 * CallTime + RecoveryTime

MqttInv ==
  /\ pc = "wake" => mqtt_state = "CONNECTED"
  /\ mqtt_state = "DISCONNECTED" =>
       /\ Bounded(MqttAge, MqttRetryInterval)
       /\ pc = "process" => MqttAge <= MqttRetryInterval + Longest
       /\ pc = "ack" => MqttAge <= RecoveryTime
       /\ pc \in {"due", "measure"} =>
            MqttAge <= MqttRetryInterval + CallTime + RecoveryTime
       /\ pc = "send" => MqttAge <= MqttRetryInterval + 2 * CallTime + RecoveryTime

WaitInv == RetryInv /\ SendInv /\ MqttInv

-----------------------------------------------------------------------------
(* Ages.                                                                   *)

\* A deadline ages by no more than the time that passes,
LEMMA AgeGrows ==
  ASSUME NEW t \in Ticks, NEW s \in Ticks,
         NEW k \in 0 .. HalfRange - 1, NEW d \in 0 .. HalfRange - 1
  PROVE  Since(Later(Later(t, d), k), s) <= Since(Later(t, k), s) + d
  BY ConstantFacts DEF Ticks, TickMod, Later, Since

\* and by just that until the clock has gone round.
LEMMA AgeExact ==
  ASSUME NEW t \in Ticks, NEW s \in Ticks,
         NEW k \in 0 .. HalfRange - 1, NEW d \in 0 .. HalfRange - 1,
         Since(Later(t, k), s) + d < TickMod
  PROVE  Since(Later(Later(t, d), k), s) = Since(Later(t, k), s) + d
  BY ConstantFacts DEF Ticks, TickMod, Later, Since

LEMMA AgeArmed ==
  ASSUME NEW t \in Ticks, NEW k \in 0 .. HalfRange - 1, NEW j \in 0 .. k
  PROVE  Since(Later(t, k), Later(t, j)) = k - j
  BY ConstantFacts DEF Ticks, TickMod, Later, Since

LEMMA AgeType ==
  ASSUME NEW t \in Ticks, NEW s \in Ticks, NEW k \in 0 .. HalfRange - 1
  PROVE  Since(Later(t, k), s) \in 0 .. TickMod - 1
  BY ConstantFacts DEF Ticks, TickMod, Later, Since

\* At most half the range late, a deadline is known to be reached.
LEMMA AgeRemaining ==
  ASSUME NEW t \in Ticks, NEW s \in Ticks, NEW k \in 0 .. HalfRange - 1,
         Since(Later(t, k), s) < k + HalfRange
  PROVE  Remaining(t, s) <= k
  BY ConstantFacts DEF Ticks, TickMod, Later, Since, TimeReached, Remaining

\* A deadline that is not reached is younger than its interval, or so old that
\* the comparison fails.
LEMMA AgeNotReached ==
  ASSUME NEW t \in Ticks, NEW s \in Ticks, NEW k \in 1 .. HalfRange - 1,
         Since(Later(t, k), s) < k + HalfRange, ~TimeReached(t, s)
  PROVE  Since(Later(t, k), s) <= k - 1
  BY ConstantFacts DEF Ticks, TickMod, Later, Since, TimeReached

LEMMA SpanFacts ==
  ASSUME OutagesFit
  PROVE  /\ RetrySpan \in Nat /\ OutageTime \in Nat /\ MaxTolls \in Nat
         /\ Slack \in Nat /\ Longest \in Nat
         /\ RetrySpan + CallTime < HalfRange
         /\ Longest + 3 * CallTime + RecoveryTime < HalfRange
<1>1. RetrySpan \in Nat /\ OutageTime \in Nat /\ Slack \in Nat
  BY ConstantFacts DEF RetrySpan, OutageTime, Slack
<1>2. MaxTolls \in Nat
  <2>1. \A a, b \in Nat : a * b \in Nat
    OBVIOUS
  <2>2. ResetThreshold - 1 \in Nat
    BY ConstantFacts
  <2> QED
    BY <1>1, <2>1, <2>2 DEF MaxTolls
<1>3. Longest \in Nat
  BY <1>1, <1>2, ConstantFacts DEF Longest
<1>4. /\ RetrySpan + CallTime < HalfRange
      /\ Longest + 3 * CallTime + RecoveryTime < HalfRange
  BY <1>1, <1>2, ConstantFacts DEF OutagesFit, RetrySpan, OutageTime, Longest, Slack
<1> QED
  BY <1>1, <1>2, <1>3, <1>4

LEMMA TollFacts ==
  ASSUME OutagesFit, IInv, pc # "reset"
  PROVE  /\ Tolls \in Nat /\ Tolls <= MaxTolls
         /\ app_consecutive_failure_count' = FailureCount => Tolls' = Tolls + OutageTime
         /\ app_consecutive_failure_count' = 0 => Tolls' = 0
         /\ UNCHANGED app_consecutive_failure_count => Tolls' = Tolls
<1> DEFINE n == app_consecutive_failure_count
<1>1. n \in Nat /\ ResetThreshold - 1 \in Nat /\ n <= ResetThreshold - 1
  BY ConstantFacts DEF IInv, TypeOK, PointInv
<1>2. OutageTime \in Nat
  BY SpanFacts
<1>3. \A a, b, c \in Nat : /\ a * c \in Nat /\ (a <= b => a * c <= b * c)
                           /\ (a + 1) * c = a * c + c /\ 0 * c = 0
  OBVIOUS
<1> HIDE DEF n
<1>4. n * OutageTime \in Nat /\ n * OutageTime <= (ResetThreshold - 1) * OutageTime
  BY <1>1, <1>2, <1>3
<1>5. (n + 1) * OutageTime = n * OutageTime + OutageTime /\ 0 * OutageTime = 0
  BY <1>1, <1>2, <1>3
<1> QED
  BY <1>4, <1>5 DEF n, Tolls, MaxTolls, FailureCount

LEMMA AgeTypes ==
  /\ IInv => RetryAge \in Nat /\ SendAge \in Nat /\ MqttAge \in Nat
  /\ IInv' => RetryAge' \in Nat /\ SendAge' \in Nat /\ MqttAge' \in Nat
<1>1. /\ IInv => /\ now \in Ticks /\ app_next_retry_ms \in Ticks
                 /\ app_next_send_ms \in Ticks /\ mqtt_next_retry_ms \in Ticks
      /\ IInv' => /\ now' \in Ticks /\ app_next_retry_ms' \in Ticks
                  /\ app_next_send_ms' \in Ticks /\ mqtt_next_retry_ms' \in Ticks
  BY DEF IInv, TypeOK
<1>2. \A n \in 0 .. TickMod - 1 : n \in Nat
  OBVIOUS
<1> QED
  BY <1>1, <1>2, AgeType, ConstantFacts DEF RetryAge, SendAge, MqttAge, Age

-----------------------------------------------------------------------------
(* What a step does to the ages.                                           *)

LEMMA ElapseAges ==
  ASSUME IInv, NEW d \in 0 .. HalfRange - 1, now' = Later(now, d)
  PROVE  /\ UNCHANGED app_next_retry_ms /\ RetryAge + d < TickMod => RetryAge' = RetryAge + d
         /\ UNCHANGED app_next_send_ms => SendAge' <= SendAge + d
         /\ UNCHANGED mqtt_next_retry_ms => MqttAge' <= MqttAge + d
<1>1. /\ now \in Ticks /\ app_next_retry_ms \in Ticks
      /\ app_next_send_ms \in Ticks /\ mqtt_next_retry_ms \in Ticks
  BY DEF IInv, TypeOK
<1>2. UNCHANGED app_next_retry_ms /\ RetryAge + d < TickMod => RetryAge' = RetryAge + d
  BY <1>1, AgeExact, ConstantFacts DEF RetryAge, Age
<1>3. UNCHANGED app_next_send_ms => SendAge' <= SendAge + d
  BY <1>1, AgeGrows, ConstantFacts DEF SendAge, Age
<1>4. UNCHANGED mqtt_next_retry_ms => MqttAge' <= MqttAge + d
  BY <1>1, AgeGrows, ConstantFacts DEF MqttAge, Age
<1> QED
  BY <1>2, <1>3, <1>4

LEMMA ArmedAges ==
  ASSUME OutagesFit, IInv'
  PROVE  /\ app_next_retry_ms' = ScheduleRetry(now') => RetryAge' = 0
         /\ app_next_send_ms' \in {ScheduleNextSend(now'), ScheduleSendRetry(now')} =>
              SendAge' <= SendInterval
         /\ mqtt_next_retry_ms' = Later(now', MqttRetryInterval) => MqttAge' = 0
<1>1. now' \in Ticks
  BY DEF IInv, TypeOK
<1>2. /\ RetryInterval \in 0 .. HalfRange - 1 /\ RetryInterval \in 0 .. RetryInterval
      /\ SendInterval \in 0 .. HalfRange - 1 /\ SendInterval \in 0 .. SendInterval
      /\ SendRetryInterval \in 0 .. SendInterval
      /\ MqttRetryInterval \in 0 .. HalfRange - 1
      /\ MqttRetryInterval \in 0 .. MqttRetryInterval
  BY ConstantFacts DEF OutagesFit
<1>3. app_next_retry_ms' = ScheduleRetry(now') => RetryAge' = 0
  BY <1>1, <1>2, AgeArmed DEF RetryAge, Age, ScheduleRetry
<1>4. app_next_send_ms' \in {ScheduleNextSend(now'), ScheduleSendRetry(now')} =>
        SendAge' <= SendInterval
  <2>1. app_next_send_ms' = Later(now', SendInterval) => SendAge' = SendInterval - SendInterval
    BY <1>1, <1>2, AgeArmed DEF SendAge, Age
  <2>2. app_next_send_ms' = Later(now', SendRetryInterval) =>
          SendAge' = SendInterval - SendRetryInterval
    BY <1>1, <1>2, AgeArmed DEF SendAge, Age
  <2> QED
    BY <2>1, <2>2, ConstantFacts DEF ScheduleNextSend, ScheduleSendRetry
<1>5. mqtt_next_retry_ms' = Later(now', MqttRetryInterval) => MqttAge' = 0
  BY <1>1, <1>2, AgeArmed DEF MqttAge, Age
<1> QED
  BY <1>3, <1>4, <1>5

\* A session given up during a step, before the recovery that may follow.
LEMMA ReconnectAge ==
  ASSUME IInv, NEW d \in Durations, NEW r \in RecoveryDurations,
         now' = Later(Later(now, d), r), ScheduleReconnect(Later(now, d))
  PROVE  mqtt_state' = "DISCONNECTED" /\ MqttAge' <= r
<1>1. /\ Later(now, d) \in Ticks
      /\ MqttRetryInterval \in 0 .. HalfRange - 1
      /\ MqttRetryInterval \in 0 .. MqttRetryInterval
      /\ r \in 0 .. HalfRange - 1
  BY ConstantFacts, DurationFacts, LaterTicks DEF IInv, TypeOK
<1>2. Later(Later(now, d), MqttRetryInterval) \in Ticks
  BY <1>1, LaterTicks
<1>3. Since(Later(Later(now, d), MqttRetryInterval), Later(Later(now, d), MqttRetryInterval)) = 0
  BY <1>1, AgeArmed, ConstantFacts
<1>4. Since(Later(Later(Later(now, d), r), MqttRetryInterval),
            Later(Later(now, d), MqttRetryInterval)) <= 0 + r
  BY <1>1, <1>2, <1>3, AgeGrows
<1> QED
  BY <1>1, <1>4 DEF ScheduleReconnect, MqttAge, Age

LEMMA FailureAges ==
  ASSUME OutagesFit, IInv, IInv', pc # "reset",
         NEW d \in Durations, NEW r \in RecoveryDurations,
         NEW J \in SUBSET BOOLEAN, NEW next, NEW always \in BOOLEAN,
         RegisterFailure(d, r, J, next), ScheduleAfterFailure(d, r, always)
  PROVE  /\ pc' \in {next, "reset"}
         /\ d \in 0 .. CallTime /\ r \in 0 .. RecoveryTime
         /\ Tolls' = Tolls + OutageTime
         /\ app_wifi_connected' = (app_wifi_connected /\ ~Recovers)
         /\ app_wifi_module_ready' = (app_wifi_module_ready /\ ~Recovers)
         /\ ~Recovers => r = 0
         /\ Recovers \/ always => RetryAge' = 0
         /\ ~Recovers /\ ~always /\ RetryAge + d < TickMod => RetryAge' = RetryAge + d
         /\ UNCHANGED app_next_send_ms => SendAge' <= SendAge + d + r
         /\ MqttAfterFailure(d) /\ Recovers =>
              mqtt_state' = "DISCONNECTED" /\ MqttAge' <= r
         /\ MqttAfterFailure(d) /\ ~Recovers =>
              mqtt_state' = mqtt_state /\ MqttAge' <= MqttAge + d
         /\ ScheduleReconnect(Later(now, d)) =>
              mqtt_state' = "DISCONNECTED" /\ MqttAge' <= r
<1>1. /\ now \in Ticks /\ Later(now, d) \in Ticks /\ now' = Later(Later(now, d), r)
      /\ d \in 0 .. HalfRange - 1 /\ r \in 0 .. HalfRange - 1
      /\ app_next_send_ms \in Ticks
  BY ConstantFacts, DurationFacts, LaterTicks DEF IInv, TypeOK, RegisterFailure
<1>2. /\ pc' \in {next, "reset"}
      /\ ~Recovers => r = 0
      /\ app_consecutive_failure_count' = FailureCount
  BY DEF RegisterFailure, Recovers
<1>3. /\ app_wifi_connected' = (app_wifi_connected /\ ~Recovers)
      /\ app_wifi_module_ready' = (app_wifi_module_ready /\ ~Recovers)
  <2>1. app_wifi_connected \in BOOLEAN /\ app_wifi_module_ready \in BOOLEAN
    BY DEF IInv, TypeOK
  <2> QED
    BY <2>1, FailureStep, Zenon
<1>4. d \in 0 .. CallTime /\ r \in 0 .. RecoveryTime
  BY DEF Durations, RecoveryDurations
<1>5. Tolls' = Tolls + OutageTime
  BY <1>2, TollFacts
<1>6. Recovers \/ always => RetryAge' = 0
  <2>1. Recovers \/ always => app_next_retry_ms' = ScheduleRetry(now')
    BY Zenon DEF ScheduleAfterFailure
  <2> QED
    BY <2>1, ArmedAges
<1>7. ~Recovers => now' = Later(now, d)
  BY <1>1, <1>2, LaterZero
<1>8. ~Recovers /\ ~always /\ RetryAge + d < TickMod => RetryAge' = RetryAge + d
  <2>1. ~Recovers /\ ~always => UNCHANGED app_next_retry_ms
    BY Zenon DEF ScheduleAfterFailure
  <2> QED
    BY <1>1, <1>7, <2>1, ElapseAges
<1>9. UNCHANGED app_next_send_ms => SendAge' <= SendAge + d + r
  <2>1. SendInterval \in 0 .. HalfRange - 1
    BY ConstantFacts
  <2>2. Since(Later(Later(Later(now, d), r), SendInterval), app_next_send_ms)
          <= Since(Later(Later(now, d), SendInterval), app_next_send_ms) + r
    BY <1>1, <2>1, AgeGrows
  <2>3. Since(Later(Later(now, d), SendInterval), app_next_send_ms)
          <= Since(Later(now, SendInterval), app_next_send_ms) + d
    BY <1>1, <2>1, AgeGrows
  <2>4. /\ Since(Later(Later(now, d), SendInterval), app_next_send_ms) \in Int
        /\ Since(Later(now, SendInterval), app_next_send_ms) \in Int
        /\ Since(Later(Later(Later(now, d), r), SendInterval), app_next_send_ms) \in Int
    BY <1>1, <2>1, AgeType, LaterTicks
  <2> QED
    BY <1>1, <2>2, <2>3, <2>4 DEF SendAge, Age
<1>10. ScheduleReconnect(Later(now, d)) =>
         mqtt_state' = "DISCONNECTED" /\ MqttAge' <= r
  BY <1>1, ReconnectAge
<1>11. MqttAfterFailure(d) /\ Recovers =>
         mqtt_state' = "DISCONNECTED" /\ MqttAge' <= r
  BY <1>10 DEF MqttAfterFailure, MqttClient_Reset
<1>12. MqttAfterFailure(d) /\ ~Recovers =>
         mqtt_state' = mqtt_state /\ MqttAge' <= MqttAge + d
  <2>1. MqttAfterFailure(d) /\ ~Recovers => UNCHANGED mqttVars
    BY DEF MqttAfterFailure
  <2> QED
    BY <1>1, <1>7, <2>1, ElapseAges DEF mqttVars
<1> QED
  BY <1>2, <1>3, <1>4, <1>5, <1>6, <1>8, <1>9, <1>10, <1>11, <1>12

-----------------------------------------------------------------------------
(* Each step preserves WaitInv.                                            *)

LEMMA BootWaits == ASSUME OutagesFit, IInv, Boot PROVE WaitInv'
<1>1. now' \in Ticks /\ now' = 0 /\ pc' = "init" /\ ~app_wifi_connected'
  BY BootIInv DEF Boot, IInv, TypeOK
<1>2. /\ RetryAge' = RetryInterval /\ SendAge' = SendInterval
      /\ MqttAge' = MqttRetryInterval
  BY ConstantFacts DEF Boot, RetryAge, SendAge, MqttAge, Age, Later, Since, TickMod
<1>3. Tolls' = 0
  <2>1. \A n \in Nat : 0 * n = 0
    OBVIOUS
  <2> QED
    BY <2>1, SpanFacts DEF Boot, Tolls
<1> QED
  BY <1>1, <1>2, <1>3, ConstantFacts, SpanFacts
     DEF WaitInv, RetryInv, Bounded, SendInv, MqttInv

\* A bring-up that fails arms the next one; the telemetry's and the client's
\* deadlines have aged by one outage.
LEMMA BringUpFails ==
  ASSUME OutagesFit, IInv, IInv', WaitInv, ~app_wifi_connected,
         pc \in {"init_wifi", "ensure", "local_ip"},
         NEW d \in Durations, NEW r \in RecoveryDurations,
         NEW J \in SUBSET BOOLEAN, NEW next \in {"ensure", "refresh"},
         RegisterFailure(d, r, J, next), ScheduleAfterFailure(d, r, TRUE),
         MqttAfterFailure(d), UNCHANGED app_next_send_ms
  PROVE  WaitInv'
<1>1. /\ pc' \in {next, "reset"}
      /\ d \in 0 .. CallTime /\ r \in 0 .. RecoveryTime
      /\ Tolls' = Tolls + OutageTime
      /\ ~app_wifi_connected'
      /\ ~Recovers => r = 0
      /\ RetryAge' = 0
      /\ SendAge' <= SendAge + d + r
      /\ Recovers => mqtt_state' = "DISCONNECTED" /\ MqttAge' <= r
      /\ ~Recovers => mqtt_state' = mqtt_state /\ MqttAge' <= MqttAge + d
  BY FailureAges
<1>2. /\ RetryAge \in Nat /\ SendAge \in Nat /\ MqttAge \in Nat
      /\ SendAge' \in Nat /\ MqttAge' \in Nat
  BY AgeTypes
<1>3. Tolls \in Nat
  BY TollFacts
<1>4. RetryAge <= RetrySpan
  BY <1>2, ConstantFacts DEF WaitInv, RetryInv, RetrySpan
<1>5. SendAge <= SendInterval + Slack + Tolls + RetryAge
  BY DEF WaitInv, SendInv, Bounded
<1>6. mqtt_state = "DISCONNECTED" => MqttAge <= MqttRetryInterval + Slack + Tolls + RetryAge
  BY DEF WaitInv, MqttInv, Bounded
<1>7. SendAge' <= SendInterval + Slack + Tolls' + RetryAge'
  BY <1>1, <1>2, <1>3, <1>4, <1>5, ConstantFacts, SpanFacts DEF OutageTime
<1>8. mqtt_state' = "DISCONNECTED" =>
        MqttAge' <= MqttRetryInterval + Slack + Tolls' + RetryAge'
  BY <1>1, <1>2, <1>3, <1>4, <1>6, ConstantFacts, SpanFacts DEF OutageTime
<1>9. RetryInv'
  BY <1>1, ConstantFacts DEF RetryInv
<1>10. SendInv'
  BY <1>1, <1>7 DEF SendInv, Bounded
<1>11. MqttInv'
  BY <1>1, <1>8 DEF MqttInv, Bounded
<1> QED
  BY <1>9, <1>10, <1>11 DEF WaitInv

\* A step of the bring-up that succeeds without a link yet.
LEMMA BringUpGoesOn ==
  ASSUME OutagesFit, IInv, IInv', WaitInv, ~app_wifi_connected, ~app_wifi_connected',
         NEW d \in 0 .. HalfRange - 1, now' = Later(now, d),
         pc \in {"init", "init_wifi", "ensure", "refresh"},
         pc' \in {"init_wifi", "ensure", "local_ip"},
         UNCHANGED <<app_next_send_ms, app_next_retry_ms, mqttVars,
                     app_consecutive_failure_count>>
  PROVE  RetryAge' = RetryAge + d /\ SendInv' /\ MqttInv'
<1>1. /\ RetryAge \in Nat /\ SendAge \in Nat /\ MqttAge \in Nat
      /\ SendAge' \in Nat /\ MqttAge' \in Nat /\ RetryAge' \in Nat
  BY AgeTypes
<1>2. RetryAge <= RetrySpan
  BY <1>1, ConstantFacts DEF WaitInv, RetryInv, RetrySpan
<1>3. RetryAge' = RetryAge + d
  BY <1>1, <1>2, SpanFacts, ElapseAges, ConstantFacts DEF TickMod
<1>4. SendAge' <= SendAge + d /\ MqttAge' <= MqttAge + d /\ UNCHANGED mqtt_state
  BY ElapseAges DEF mqttVars
<1>5. Tolls \in Nat /\ Tolls' = Tolls
  BY TollFacts
<1>6. SendInv'
  BY <1>1, <1>3, <1>4, <1>5, ConstantFacts, SpanFacts DEF WaitInv, SendInv, Bounded
<1>7. MqttInv'
  BY <1>1, <1>3, <1>4, <1>5, ConstantFacts, SpanFacts DEF WaitInv, MqttInv, Bounded
<1> QED
  BY <1>3, <1>6, <1>7

LEMMA StillAges ==
  ASSUME UNCHANGED <<now, app_next_retry_ms, app_next_send_ms, mqtt_next_retry_ms,
                     app_consecutive_failure_count>>
  PROVE  UNCHANGED <<RetryAge, SendAge, MqttAge, Tolls>>
  BY DEF RetryAge, SendAge, MqttAge, Age, Tolls

LEMMA InitSensorsWaits ==
  ASSUME OutagesFit, IInv, IInv', WaitInv, InitSensors PROVE WaitInv'
<1>1. pc = "init" /\ ~app_wifi_connected /\ UNCHANGED app_next_send_ms
  BY DEF InitSensors, IInv, PointInv
<1>2. /\ RetryAge \in Nat /\ SendAge \in Nat /\ MqttAge \in Nat
      /\ SendAge' \in Nat /\ MqttAge' \in Nat /\ RetryAge' \in Nat
  BY AgeTypes
<1>3. Tolls \in Nat
  BY <1>1, TollFacts
<1>4. RetryAge <= RetryInterval
  BY <1>1 DEF WaitInv, RetryInv
<1>5. ASSUME NEW d \in Durations, Elapse(d), pc' = "init_wifi",
             UNCHANGED <<wifiVars, app_consecutive_failure_count, mqttVars>>
      PROVE  WaitInv'
  <2>1. RetryAge' = RetryAge + d /\ SendInv' /\ MqttInv'
    BY <1>1, <1>5, BringUpGoesOn, DurationRange DEF Elapse, wifiVars
  <2>2. RetryInv'
    BY <1>2, <1>4, <1>5, <2>1, ConstantFacts DEF RetryInv, Durations
  <2> QED
    BY <2>1, <2>2 DEF WaitInv
<1>6. ASSUME NEW d \in Durations, NEW r \in RecoveryDurations,
             RegisterFailure(d, r, {joined}, "init_wifi"),
             ScheduleAfterFailure(d, r, FALSE), MqttAfterFailure(d)
      PROVE  WaitInv'
  <2>1. {joined} \in SUBSET BOOLEAN
    BY DEF IInv, TypeOK
  <2>2. /\ pc' \in {"init_wifi", "reset"}
        /\ d \in 0 .. CallTime /\ r \in 0 .. RecoveryTime
        /\ Tolls' = Tolls + OutageTime
        /\ ~app_wifi_connected'
        /\ ~Recovers => r = 0
        /\ Recovers => RetryAge' = 0
        /\ ~Recovers /\ RetryAge + d < TickMod => RetryAge' = RetryAge + d
        /\ SendAge' <= SendAge + d + r
        /\ Recovers => mqtt_state' = "DISCONNECTED" /\ MqttAge' <= r
        /\ ~Recovers => mqtt_state' = mqtt_state /\ MqttAge' <= MqttAge + d
    BY <1>1, <1>6, <2>1, FailureAges
  <2>3. RetryAge' <= RetryInterval + CallTime
    BY <1>2, <1>4, <2>2, ConstantFacts, SpanFacts DEF TickMod, RetrySpan
  <2>4. SendAge' <= SendInterval + Slack + Tolls' + RetryAge'
    BY <1>1, <1>2, <1>3, <1>4, <2>2, ConstantFacts, SpanFacts
       DEF WaitInv, SendInv, Bounded, OutageTime, RetrySpan
  <2>5. mqtt_state' = "DISCONNECTED" =>
          MqttAge' <= MqttRetryInterval + Slack + Tolls' + RetryAge'
    BY <1>1, <1>2, <1>3, <1>4, <2>2, ConstantFacts, SpanFacts
       DEF WaitInv, MqttInv, Bounded, OutageTime, RetrySpan
  <2> QED
    BY <2>2, <2>3, <2>4, <2>5 DEF WaitInv, RetryInv, SendInv, MqttInv, Bounded
<1> QED
  BY <1>5, <1>6 DEF InitSensors

LEMMA InitModuleWaits ==
  ASSUME OutagesFit, IInv, IInv', WaitInv, pc \in {"init_wifi", "ensure"},
         ~app_wifi_connected, pc = "ensure" => ~app_wifi_module_ready,
         NEW onFailure \in {"ensure", "refresh"}, InitModule(onFailure)
  PROVE  WaitInv'
<1>1. UNCHANGED app_next_send_ms
  BY DEF InitModule
<1>2. RetryAge \in Nat
  BY AgeTypes
<1>3. ASSUME NEW d \in Durations, Elapse(d), pc' = "ensure", app_wifi_module_ready' = TRUE,
             UNCHANGED <<app_wifi_connected, app_next_retry_ms, mqttVars,
                         app_consecutive_failure_count>>
      PROVE  WaitInv'
  <2>1. RetryAge' = RetryAge + d /\ SendInv' /\ MqttInv'
    BY <1>1, <1>3, BringUpGoesOn, DurationRange DEF Elapse
  <2>2. RetryAge + d <= RetryInterval - 1 + LoopDelay + 4 * CallTime
    BY <1>2, ConstantFacts DEF WaitInv, RetryInv, Durations
  <2>3. RetryInv'
    BY <1>3, <2>1, <2>2 DEF RetryInv
  <2> QED
    BY <2>1, <2>3 DEF WaitInv
<1>4. ASSUME NEW d \in Durations, NEW r \in RecoveryDurations,
             RegisterFailure(d, r, {FALSE}, onFailure),
             ScheduleAfterFailure(d, r, TRUE), MqttAfterFailure(d)
      PROVE  WaitInv'
  <2>1. {FALSE} \in SUBSET BOOLEAN
    OBVIOUS
  <2> QED
    BY <1>1, <1>4, <2>1, BringUpFails
<1> QED
  BY <1>3, <1>4 DEF InitModule

\* The wait is over, or the deadline is younger than its interval.
LEMMA EnsureWaitsWaits ==
  ASSUME OutagesFit, IInv, WaitInv, EnsureWaits PROVE WaitInv'
<1>1. UNCHANGED <<RetryAge, SendAge, MqttAge, Tolls, mqtt_state, app_wifi_connected>>
  BY StillAges DEF EnsureWaits, wifiVars, mqttVars
<1>2. pc = "ensure" /\ pc' = "refresh" /\ ~app_wifi_connected /\ ~RetryReached
  BY DEF EnsureWaits, IInv, SessionNeedsWifi
<1>3. RetryAge <= RetrySpan /\ RetryAge \in Nat
  BY <1>2, AgeTypes, ConstantFacts DEF WaitInv, RetryInv, RetrySpan
<1>4. RetryAge <= RetryInterval - 1
  <2>1. now \in Ticks /\ app_next_retry_ms \in Ticks
    BY DEF IInv, TypeOK
  <2>2. RetryAge < RetryInterval + HalfRange
    BY <1>3, ConstantFacts, SpanFacts
  <2> QED
    BY <1>2, <2>1, <2>2, AgeNotReached, ConstantFacts DEF RetryAge, Age, RetryReached
<1> QED
  BY <1>1, <1>2, <1>3, <1>4, ConstantFacts DEF WaitInv, RetryInv, SendInv, MqttInv, Bounded

LEMMA EnsureSkipsWaits ==
  ASSUME OutagesFit, IInv, WaitInv, EnsureSkips PROVE WaitInv'
<1>1. UNCHANGED <<RetryAge, SendAge, MqttAge, Tolls, mqtt_state, app_wifi_connected>>
  BY StillAges DEF EnsureSkips, wifiVars, mqttVars
<1>2. pc = "ensure" /\ pc' = "process" /\ app_wifi_connected
  BY DEF EnsureSkips
<1>3. SendAge \in Nat /\ MqttAge \in Nat
  BY AgeTypes
<1> QED
  BY <1>1, <1>2, <1>3, SpanFacts, ConstantFacts
     DEF WaitInv, RetryInv, SendInv, MqttInv, Bounded, Longest

LEMMA EnsureConnectWaits ==
  ASSUME OutagesFit, IInv, IInv', WaitInv, EnsureConnect PROVE WaitInv'
<1>1. /\ pc = "ensure" /\ app_wifi_module_ready /\ ~app_wifi_connected
      /\ UNCHANGED app_next_send_ms
  BY DEF EnsureConnect
<1>2. RetryAge \in Nat
  BY AgeTypes
<1>3. ASSUME NEW d \in Durations, Elapse(d), pc' = "local_ip",
             UNCHANGED <<wifiVars, mqttVars, app_consecutive_failure_count>>
      PROVE  WaitInv'
  <2>1. RetryAge' = RetryAge + d /\ SendInv' /\ MqttInv'
    BY <1>1, <1>3, BringUpGoesOn, DurationRange DEF Elapse, wifiVars
  <2>2. RetryAge + d <= RetrySpan
    BY <1>1, <1>2, ConstantFacts DEF WaitInv, RetryInv, Durations, RetrySpan
  <2>3. RetryInv'
    BY <1>3, <2>1, <2>2 DEF RetryInv
  <2> QED
    BY <2>1, <2>3 DEF WaitInv
<1>4. ASSUME NEW d \in Durations, NEW r \in RecoveryDurations,
             RegisterFailure(d, r, {joined, TRUE}, "refresh"),
             ScheduleAfterFailure(d, r, TRUE), MqttAfterFailure(d)
      PROVE  WaitInv'
  <2>1. {joined, TRUE} \in SUBSET BOOLEAN
    BY DEF IInv, TypeOK
  <2> QED
    BY <1>1, <1>4, <2>1, BringUpFails
<1> QED
  BY <1>3, <1>4 DEF EnsureConnect

\* The link is back: whatever the outage cost is now history.
LEMMA EnsureLocalIpWaits ==
  ASSUME OutagesFit, IInv, IInv', WaitInv, EnsureLocalIp PROVE WaitInv'
<1>1. pc = "local_ip" /\ ~app_wifi_connected /\ UNCHANGED app_next_send_ms
  BY DEF EnsureLocalIp, IInv, PointInv
<1>2. ASSUME app_wifi_connected' = TRUE, pc' = "process",
             UNCHANGED <<now, app_next_retry_ms, mqttVars, app_consecutive_failure_count>>
      PROVE  WaitInv'
  <2>1. UNCHANGED <<RetryAge, SendAge, MqttAge, Tolls, mqtt_state>>
    BY <1>1, <1>2, StillAges DEF mqttVars
  <2>2. Tolls \in Nat /\ Tolls <= MaxTolls
    BY <1>1, TollFacts
  <2>3. SendAge \in Nat /\ MqttAge \in Nat /\ RetryAge \in Nat
    BY AgeTypes
  <2> QED
    BY <1>1, <1>2, <2>1, <2>2, <2>3, SpanFacts, ConstantFacts
       DEF WaitInv, RetryInv, SendInv, MqttInv, Bounded, Longest
<1>3. ASSUME NEW d \in Durations, NEW r \in RecoveryDurations,
             RegisterFailure(d, r, JoinedAfterTeardown, "refresh"),
             ScheduleAfterFailure(d, r, TRUE), MqttAfterFailure(d)
      PROVE  WaitInv'
  <2>1. JoinedAfterTeardown \in SUBSET BOOLEAN
    BY DEF IInv, TypeOK, JoinedAfterTeardown
  <2> QED
    BY <1>1, <1>3, <2>1, BringUpFails
<1> QED
  BY <1>2, <1>3 DEF EnsureLocalIp

LEMMA ProcessWaitsWaits ==
  ASSUME OutagesFit, IInv, WaitInv, ProcessWaits PROVE WaitInv'
<1>1. UNCHANGED <<RetryAge, SendAge, MqttAge, Tolls, mqtt_state, app_wifi_connected>>
  BY StillAges DEF ProcessWaits, wifiVars, mqttVars
<1>2. /\ pc = "process" /\ pc' = "due" /\ app_wifi_connected
      /\ mqtt_state = "DISCONNECTED" /\ ~MqttRetryReached
  BY DEF ProcessWaits, IInv, PointInv
<1>3. SendAge \in Nat /\ MqttAge \in Nat
  BY AgeTypes
<1>4. MqttAge <= MqttRetryInterval - 1
  <2>1. now \in Ticks /\ mqtt_next_retry_ms \in Ticks
    BY DEF IInv, TypeOK
  <2>2. MqttAge < MqttRetryInterval + HalfRange
    BY <1>2, <1>3, ConstantFacts, SpanFacts DEF WaitInv, MqttInv
  <2> QED
    BY <1>2, <2>1, <2>2, AgeNotReached, ConstantFacts DEF MqttAge, Age, MqttRetryReached
<1> QED
  BY <1>1, <1>2, <1>3, <1>4, SpanFacts, ConstantFacts
     DEF WaitInv, RetryInv, SendInv, MqttInv, Bounded

\* The client's calls over a trusted link; the session they leave is up, or given
\* up just now.
LEMMA ProcessElapses ==
  ASSUME OutagesFit, IInv, IInv', WaitInv, pc = "process",
         NEW d \in Durations, Elapse(d), pc' \in {"due", "wake"},
         UNCHANGED <<wifiVars, app_next_send_ms>>,
         mqtt_state' = "CONNECTED" \/ (ScheduleReconnect(now') /\ pc' = "due")
  PROVE  WaitInv'
<1>1. app_wifi_connected /\ app_wifi_connected'
  BY DEF IInv, PointInv, wifiVars
<1>2. SendAge' <= SendAge + d /\ d \in 0 .. CallTime
  BY ElapseAges, DurationRange DEF Elapse, Durations
<1>3. ScheduleReconnect(now') => mqtt_state' = "DISCONNECTED" /\ MqttAge' = 0
  BY ArmedAges DEF ScheduleReconnect
<1>4. SendAge \in Nat /\ SendAge' \in Nat
  BY AgeTypes
<1> QED
  BY <1>1, <1>2, <1>3, <1>4, SpanFacts, ConstantFacts
     DEF WaitInv, RetryInv, SendInv, MqttInv, Bounded

LEMMA ProcessFailsWaits ==
  ASSUME OutagesFit, IInv, IInv', WaitInv, ProcessFails PROVE WaitInv'
<1>1. /\ pc = "process" /\ app_wifi_connected /\ UNCHANGED app_next_send_ms
      /\ {joined} \in SUBSET BOOLEAN
  BY DEF ProcessFails, IInv, PointInv, TypeOK
<1>2. PICK d \in Durations, r \in RecoveryDurations :
        /\ ScheduleReconnect(Later(now, d))
        /\ RegisterFailure(d, r, {joined}, "due")
        /\ ScheduleAfterFailure(d, r, FALSE)
  BY DEF ProcessFails
<1>3. /\ pc' \in {"due", "reset"}
      /\ d \in 0 .. CallTime /\ r \in 0 .. RecoveryTime
      /\ app_wifi_connected' = ~Recovers
      /\ Recovers => RetryAge' = 0
      /\ SendAge' <= SendAge + d + r
      /\ MqttAge' <= r
  BY <1>1, <1>2, FailureAges
<1>4. SendAge \in Nat /\ SendAge' \in Nat /\ MqttAge' \in Nat
  BY AgeTypes
<1>5. RetryInv'
  <2>1. ~app_wifi_connected' => RetryAge' = 0
    BY <1>3, Zenon
  <2> QED
    BY <1>3, <2>1, ConstantFacts DEF RetryInv
<1>6. SendInv'
  BY <1>1, <1>3, <1>4, SpanFacts, ConstantFacts DEF WaitInv, SendInv, Bounded
<1>7. MqttInv'
  BY <1>3, <1>4, ConstantFacts DEF MqttInv, Bounded
<1> QED
  BY <1>5, <1>6, <1>7 DEF WaitInv

LEMMA HandleWakeCommandWaits ==
  ASSUME OutagesFit, IInv, IInv', WaitInv, HandleWakeCommand PROVE WaitInv'
<1>1. pc = "wake" /\ mqtt_state = "CONNECTED" /\ UNCHANGED app_next_send_ms
  BY DEF HandleWakeCommand, WaitInv, MqttInv
<1>2. app_wifi_connected
  BY <1>1 DEF IInv, SessionNeedsWifi
<1>3. SendAge \in Nat /\ SendAge' \in Nat /\ MqttAge' \in Nat
  BY AgeTypes
<1>4. ASSUME NEW d \in Durations, Elapse(d), pc' = "ack", UNCHANGED <<wifiVars, mqttVars>>
      PROVE  WaitInv'
  <2>1. SendAge' <= SendAge + d /\ d \in 0 .. CallTime
    BY <1>1, <1>4, ElapseAges, DurationRange DEF Elapse, Durations
  <2> QED
    BY <1>1, <1>2, <1>3, <1>4, <2>1, SpanFacts, ConstantFacts
       DEF WaitInv, RetryInv, SendInv, MqttInv, Bounded, wifiVars, mqttVars
<1>5. ASSUME NEW d \in Durations, NEW r \in RecoveryDurations,
             RegisterFailure(d, r, {joined}, "ack"),
             ScheduleAfterFailure(d, r, FALSE), MqttAfterFailure(d)
      PROVE  WaitInv'
  <2>1. {joined} \in SUBSET BOOLEAN
    BY DEF IInv, TypeOK
  <2>2. /\ pc' \in {"ack", "reset"}
        /\ d \in 0 .. CallTime /\ r \in 0 .. RecoveryTime
        /\ app_wifi_connected' = ~Recovers
        /\ Recovers => RetryAge' = 0
        /\ SendAge' <= SendAge + d + r
        /\ Recovers => mqtt_state' = "DISCONNECTED" /\ MqttAge' <= r
        /\ ~Recovers => mqtt_state' = "CONNECTED"
    BY <1>1, <1>2, <1>5, <2>1, FailureAges
  <2>3. RetryInv'
    <3>1. ~app_wifi_connected' => RetryAge' = 0
      BY <2>2, Zenon
    <3> QED
      BY <2>2, <3>1, ConstantFacts DEF RetryInv
  <2>4. SendInv'
    BY <1>1, <1>3, <2>2, SpanFacts, ConstantFacts DEF WaitInv, SendInv, Bounded
  <2>5. MqttInv'
    <3>1. mqtt_state' = "DISCONNECTED" => MqttAge' <= r
      BY <2>2
    <3> QED
      BY <1>3, <2>2, <3>1, ConstantFacts DEF MqttInv, Bounded
  <2> QED
    BY <2>3, <2>4, <2>5 DEF WaitInv
<1> QED
  BY <1>4, <1>5 DEF HandleWakeCommand

LEMMA SendPubAckWaits ==
  ASSUME OutagesFit, IInv, IInv', WaitInv, SendPubAck PROVE WaitInv'
<1>1. PICK d \in Durations :
        Elapse(d) /\ (UNCHANGED mqttVars \/ ScheduleReconnect(now'))
  BY DEF SendPubAck
<1>2. /\ pc = "ack" /\ pc' = "due" /\ d \in 0 .. CallTime
      /\ UNCHANGED <<app_wifi_connected, app_next_retry_ms, app_next_send_ms>>
  BY DEF SendPubAck, wifiVars, Durations
<1>3. /\ RetryAge \in Nat /\ SendAge \in Nat /\ MqttAge \in Nat
      /\ SendAge' \in Nat /\ MqttAge' \in Nat
  BY AgeTypes
<1>4. /\ RetryAge + d < TickMod => RetryAge' = RetryAge + d
      /\ SendAge' <= SendAge + d
      /\ UNCHANGED mqttVars => mqtt_state' = mqtt_state /\ MqttAge' <= MqttAge + d
  BY <1>1, <1>2, ElapseAges, DurationRange DEF Elapse, mqttVars
<1>5. ScheduleReconnect(now') => MqttAge' = 0
  BY ArmedAges DEF ScheduleReconnect
<1>6. RetryInv'
  BY <1>2, <1>3, <1>4, ConstantFacts, SpanFacts DEF WaitInv, RetryInv, RetrySpan, TickMod
<1>7. SendInv'
  BY <1>2, <1>3, <1>4, ConstantFacts, SpanFacts DEF WaitInv, SendInv, Bounded
<1>8. MqttInv'
  BY <1>1, <1>2, <1>3, <1>4, <1>5, ConstantFacts, SpanFacts DEF WaitInv, MqttInv, Bounded
<1> QED
  BY <1>6, <1>7, <1>8 DEF WaitInv

LEMMA CheckDueWaits ==
  ASSUME OutagesFit, IInv, WaitInv, CheckDue PROVE WaitInv'
<1>1. UNCHANGED <<RetryAge, SendAge, MqttAge, Tolls, mqtt_state, app_wifi_connected>>
  BY StillAges DEF CheckDue, wifiVars, mqttVars
<1>2. /\ pc = "due" /\ pc' \in {"measure", "refresh"}
      /\ pc' = "refresh" => ~SendReached
  BY DEF CheckDue
<1>3. RetryAge \in Nat /\ SendAge \in Nat /\ MqttAge \in Nat /\ Tolls \in Nat
  BY <1>2, AgeTypes, TollFacts
<1>4. pc' = "refresh" => SendAge <= SendInterval - 1
  <2>1. now \in Ticks /\ app_next_send_ms \in Ticks
    BY DEF IInv, TypeOK
  <2>2. SendAge < SendInterval + HalfRange
    BY <1>2, <1>3, ConstantFacts, SpanFacts DEF WaitInv, SendInv
  <2> QED
    BY <1>2, <2>1, <2>2, AgeNotReached, ConstantFacts DEF SendAge, Age, SendReached
<1> QED
  BY <1>1, <1>2, <1>3, <1>4, SpanFacts, ConstantFacts
     DEF WaitInv, RetryInv, SendInv, MqttInv, Bounded, Slack

\* A failure of the sensors or of the API ends the pass, with the send armed.
LEMMA CycleFails ==
  ASSUME OutagesFit, IInv, IInv', WaitInv, pc \in {"measure", "send"},
         NEW d \in Durations, NEW r \in RecoveryDurations,
         RegisterFailure(d, r, {joined}, "refresh"),
         ScheduleAfterFailure(d, r, FALSE), MqttAfterFailure(d),
         app_next_send_ms' \in {ScheduleNextSend(now'), ScheduleSendRetry(now')}
  PROVE  WaitInv'
<1>1. {joined} \in SUBSET BOOLEAN
  BY DEF IInv, TypeOK
<1>2. /\ pc' \in {"refresh", "reset"}
      /\ d \in 0 .. CallTime /\ r \in 0 .. RecoveryTime
      /\ Tolls' = Tolls + OutageTime
      /\ app_wifi_connected' = (app_wifi_connected /\ ~Recovers)
      /\ Recovers => RetryAge' = 0
      /\ ~Recovers /\ RetryAge + d < TickMod => RetryAge' = RetryAge + d
      /\ Recovers => mqtt_state' = "DISCONNECTED" /\ MqttAge' <= r
      /\ ~Recovers => mqtt_state' = mqtt_state /\ MqttAge' <= MqttAge + d
  BY <1>1, FailureAges
<1>3. /\ RetryAge \in Nat /\ MqttAge \in Nat
      /\ RetryAge' \in Nat /\ MqttAge' \in Nat /\ SendAge' \in Nat
  BY AgeTypes
<1>4. Tolls' \in Nat
  BY <1>2, TollFacts, SpanFacts
<1>5. SendAge' <= SendInterval
  BY ArmedAges
<1>6. ~app_wifi_connected' => RetryAge' <= 3 * CallTime
  <2>1. CASE Recovers
    BY <1>2, <2>1, ConstantFacts
  <2>2. CASE ~Recovers
    <3>1. ~app_wifi_connected' => ~app_wifi_connected
      BY <1>2, <2>2, Zenon
    <3>2. ~app_wifi_connected => RetryAge <= 2 * CallTime
      BY <1>3, ConstantFacts DEF WaitInv, RetryInv
    <3>3. RetryAge + d < TickMod => RetryAge' = RetryAge + d
      BY <1>2, <2>2
    <3>4. 3 * CallTime < TickMod /\ d \in 0 .. CallTime
      BY <1>2, ConstantFacts, SpanFacts DEF RetrySpan, TickMod
    <3>5. TickMod \in Nat
      BY ConstantFacts DEF TickMod
    <3> QED
      BY <1>3, <3>1, <3>2, <3>3, <3>4, <3>5, ConstantFacts
  <2> QED
    BY <2>1, <2>2
<1>7. mqtt_state' = "DISCONNECTED" => MqttAge' <= MqttRetryInterval + Slack
  BY <1>2, <1>3, ConstantFacts DEF WaitInv, MqttInv, Slack
<1>8. RetryInv'
  BY <1>2, <1>3, <1>6, ConstantFacts DEF RetryInv
<1>9. SendInv'
  BY <1>2, <1>3, <1>4, <1>5, ConstantFacts, SpanFacts DEF SendInv, Bounded
<1>10. MqttInv'
  BY <1>2, <1>3, <1>4, <1>7, ConstantFacts, SpanFacts DEF MqttInv, Bounded
<1> QED
  BY <1>8, <1>9, <1>10 DEF WaitInv

LEMMA MeasureWaits ==
  ASSUME OutagesFit, IInv, IInv', WaitInv, Measure PROVE WaitInv'
<1>1. pc = "measure"
  BY DEF Measure
<1>2. ASSUME NEW d \in Durations, Elapse(d), pc' = "send", UNCHANGED <<wifiVars, mqttVars>>
      PROVE  WaitInv'
  <2>1. /\ d \in 0 .. CallTime
        /\ UNCHANGED <<app_wifi_connected, mqtt_state>>
    BY <1>2 DEF wifiVars, mqttVars, Durations
  <2>2. /\ RetryAge + d < TickMod => RetryAge' = RetryAge + d
        /\ MqttAge' <= MqttAge + d
    BY <1>2, ElapseAges, DurationRange DEF Elapse, wifiVars, mqttVars
  <2>3. RetryAge \in Nat /\ MqttAge \in Nat /\ MqttAge' \in Nat
    BY AgeTypes
  <2>4. RetryInv'
    BY <1>1, <1>2, <2>1, <2>2, <2>3, ConstantFacts, SpanFacts
       DEF WaitInv, RetryInv, RetrySpan, TickMod
  <2>5. MqttInv'
    BY <1>1, <1>2, <2>1, <2>2, <2>3, ConstantFacts DEF WaitInv, MqttInv, Bounded
  <2>6. SendInv'
    BY <1>2 DEF SendInv, Bounded
  <2> QED
    BY <2>4, <2>5, <2>6 DEF WaitInv
<1>3. ASSUME NEW d \in Durations, NEW r \in RecoveryDurations,
             RegisterFailure(d, r, {joined}, "refresh"),
             ScheduleAfterFailure(d, r, FALSE), MqttAfterFailure(d),
             app_next_send_ms' = ScheduleNextSend(now')
      PROVE  WaitInv'
  BY <1>1, <1>3, CycleFails
<1> QED
  BY <1>2, <1>3 DEF Measure

LEMMA SendSucceedsWaits ==
  ASSUME OutagesFit, IInv, IInv', WaitInv, SendSucceeds PROVE WaitInv'
<1>1. PICK d \in Durations : Elapse(d)
  BY DEF SendSucceeds
<1>2. /\ pc = "send" /\ pc' = "refresh" /\ d \in 0 .. CallTime
      /\ UNCHANGED <<app_wifi_connected, app_next_retry_ms, mqtt_state, mqtt_next_retry_ms>>
  BY DEF SendSucceeds, wifiVars, mqttVars, Durations
<1>3. /\ RetryAge \in Nat /\ MqttAge \in Nat
      /\ RetryAge' \in Nat /\ MqttAge' \in Nat /\ SendAge' \in Nat
  BY AgeTypes
<1>4. /\ RetryAge + d < TickMod => RetryAge' = RetryAge + d
      /\ MqttAge' <= MqttAge + d
  BY <1>1, <1>2, ElapseAges, DurationRange DEF Elapse
<1>5. SendAge' <= SendInterval
  BY ArmedAges DEF SendSucceeds
<1>6. Tolls' = 0
  BY <1>2, TollFacts DEF SendSucceeds
<1>7. RetryInv'
  BY <1>2, <1>3, <1>4, ConstantFacts, SpanFacts DEF WaitInv, RetryInv, RetrySpan, TickMod
<1>8. SendInv'
  BY <1>2, <1>3, <1>5, <1>6, ConstantFacts, SpanFacts DEF SendInv, Bounded
<1>9. MqttInv'
  <2>1. mqtt_state' = "DISCONNECTED" => MqttAge' <= MqttRetryInterval + Slack
    BY <1>2, <1>3, <1>4, ConstantFacts DEF WaitInv, MqttInv, Slack
  <2> QED
    BY <1>2, <1>3, <1>6, <2>1, ConstantFacts, SpanFacts DEF MqttInv, Bounded
<1> QED
  BY <1>7, <1>8, <1>9 DEF WaitInv

LEMMA SendFailsWaits ==
  ASSUME OutagesFit, IInv, IInv', WaitInv, SendFails PROVE WaitInv'
  BY CycleFails DEF SendFails

LEMMA RefreshWaits ==
  ASSUME OutagesFit, IInv, IInv', WaitInv, Refresh PROVE WaitInv'
<1>1. /\ pc = "refresh" /\ pc' = "ensure" /\ now' = Later(now, LoopDelay)
      /\ UNCHANGED <<app_wifi_connected, app_wifi_module_ready, app_next_retry_ms,
                     app_next_send_ms, mqttVars, app_consecutive_failure_count>>
      /\ LoopDelay \in 0 .. HalfRange - 1
  BY ConstantFacts DEF Refresh, Elapse, wifiVars
<1>2. /\ RetryAge \in Nat /\ SendAge \in Nat /\ MqttAge \in Nat
      /\ RetryAge' \in Nat /\ SendAge' \in Nat /\ MqttAge' \in Nat
  BY AgeTypes
<1>3. CASE ~app_wifi_connected
  <2>1. RetryAge' = RetryAge + LoopDelay /\ SendInv' /\ MqttInv'
    BY <1>1, <1>3, BringUpGoesOn
  <2>2. RetryInv'
    BY <1>1, <1>2, <1>3, <2>1, ConstantFacts DEF WaitInv, RetryInv
  <2> QED
    BY <2>1, <2>2 DEF WaitInv
<1>4. CASE app_wifi_connected
  <2>1. SendAge' <= SendAge + LoopDelay /\ MqttAge' <= MqttAge + LoopDelay
    BY <1>1, ElapseAges DEF mqttVars
  <2> QED
    BY <1>1, <1>2, <1>4, <2>1, ConstantFacts, SpanFacts
       DEF WaitInv, RetryInv, SendInv, MqttInv, Bounded, mqttVars
<1> QED
  BY <1>3, <1>4

LEMMA StillWaits ==
  ASSUME WaitInv,
         UNCHANGED <<now, pc, wifiVars, app_next_send_ms, mqttVars,
                     app_consecutive_failure_count>>
  PROVE  WaitInv'
<1>1. UNCHANGED <<RetryAge, SendAge, MqttAge, Tolls>>
  BY StillAges DEF wifiVars, mqttVars
<1> QED
  BY <1>1 DEF WaitInv, RetryInv, SendInv, MqttInv, Bounded, wifiVars, mqttVars

LEMMA NextWaits ==
  ASSUME OutagesFit PROVE IInv /\ IInv' /\ WaitInv /\ [Next]_vars => WaitInv'
<1> SUFFICES ASSUME IInv, IInv', WaitInv, [Next]_vars PROVE WaitInv'
  OBVIOUS
<1>1. CASE UNCHANGED vars \/ LinkLost \/ BecomeHealthy
  BY <1>1, StillWaits DEF vars, LinkLost, BecomeHealthy
<1>2. CASE InitWifi \/ EnsureModule
  <2>1. /\ pc \in {"init_wifi", "ensure"} /\ ~app_wifi_connected
        /\ pc = "ensure" => ~app_wifi_module_ready
    BY <1>2 DEF InitWifi, EnsureModule, IInv, PointInv, SessionNeedsWifi
  <2> QED
    BY <1>2, <2>1, InitModuleWaits DEF InitWifi, EnsureModule
<1>3. CASE ProcessQuiet \/ ProcessConnects \/ ProcessMalformed \/ ProcessWake
  BY <1>3, ProcessElapses
     DEF ProcessQuiet, ProcessConnects, ProcessMalformed, ProcessWake, mqttVars
<1>4. CASE Boot
  BY <1>4, BootWaits
<1>5. CASE InitSensors \/ EnsureWaits \/ EnsureSkips \/ EnsureConnect \/ EnsureLocalIp
  BY <1>5, InitSensorsWaits, EnsureWaitsWaits, EnsureSkipsWaits, EnsureConnectWaits,
     EnsureLocalIpWaits
<1>6. CASE ProcessWaits \/ ProcessFails \/ HandleWakeCommand \/ SendPubAck
  BY <1>6, ProcessWaitsWaits, ProcessFailsWaits, HandleWakeCommandWaits, SendPubAckWaits
<1>7. CASE CheckDue \/ Measure \/ SendSucceeds \/ SendFails \/ Refresh
  BY <1>7, CheckDueWaits, MeasureWaits, SendSucceedsWaits, SendFailsWaits, RefreshWaits
<1> QED
  BY <1>1, <1>2, <1>3, <1>4, <1>5, <1>6, <1>7
     DEF Next, Program, Environment, EnsureWifiConnected, MqttClient_Process,
         SendTelemetryCycle, SystemReset, Restart

LEMMA InitWaits == ASSUME OutagesFit PROVE Init => WaitInv
<1> SUFFICES ASSUME Init PROVE WaitInv
  OBVIOUS
<1>1. /\ RetryAge = RetryInterval /\ SendAge = SendInterval
      /\ MqttAge = MqttRetryInterval
  BY ConstantFacts DEF Init, RetryAge, SendAge, MqttAge, Age, Later, Since, TickMod
<1>2. Tolls = 0
  <2>1. \A n \in Nat : 0 * n = 0
    OBVIOUS
  <2> QED
    BY <2>1, SpanFacts DEF Init, Tolls
<1> QED
  BY <1>1, <1>2, ConstantFacts, SpanFacts
     DEF Init, WaitInv, RetryInv, Bounded, SendInv, MqttInv

LEMMA WaitsBounded == ASSUME OutagesFit PROVE IInv /\ WaitInv => WaitBounded
<1> SUFFICES ASSUME IInv, WaitInv PROVE WaitBounded
  OBVIOUS
<1>1. /\ now \in Ticks /\ app_next_retry_ms \in Ticks
      /\ app_next_send_ms \in Ticks /\ mqtt_next_retry_ms \in Ticks
  BY DEF IInv, TypeOK
<1>2. RetryAge \in Nat /\ SendAge \in Nat /\ MqttAge \in Nat
  BY AgeTypes
<1>3. ASSUME pc = "ensure", ~app_wifi_connected
      PROVE  Remaining(now, app_next_retry_ms) <= RetryInterval
  <2>1. RetryAge < RetryInterval + HalfRange
    BY <1>2, <1>3, ConstantFacts, SpanFacts DEF WaitInv, RetryInv, RetrySpan
  <2> QED
    BY <1>1, <2>1, AgeRemaining, ConstantFacts DEF RetryAge, Age
<1>4. ASSUME pc = "process", mqtt_state = "DISCONNECTED"
      PROVE  Remaining(now, mqtt_next_retry_ms) <= MqttRetryInterval
  <2>1. MqttAge < MqttRetryInterval + HalfRange
    BY <1>2, <1>4, ConstantFacts, SpanFacts DEF WaitInv, MqttInv
  <2> QED
    BY <1>1, <2>1, AgeRemaining, ConstantFacts DEF MqttAge, Age
<1>5. ASSUME pc = "due" PROVE Remaining(now, app_next_send_ms) <= SendInterval
  <2>1. SendAge < SendInterval + HalfRange
    BY <1>2, <1>5, ConstantFacts, SpanFacts DEF WaitInv, SendInv
  <2> QED
    BY <1>1, <2>1, AgeRemaining, ConstantFacts DEF SendAge, Age
<1> QED
  BY <1>3, <1>4, <1>5 DEF WaitBounded

\* However long the services stay away, no deadline is left alone until the
\* comparison takes it for one that lies ahead: the count of failures ends an
\* outage before (app.c:69-72, 118-139, mqtt_client.c:28-31).
THEOREM WaitsAreBounded == ASSUME OutagesFit PROVE Spec => []WaitBounded
<1>1. Init => WaitInv
  BY InitWaits
<1>2. IInv /\ IInv' /\ WaitInv /\ [Next]_vars => WaitInv'
  BY NextWaits
<1>3. IInv /\ WaitInv => WaitBounded
  BY WaitsBounded
<1> QED
  BY <1>1, <1>2, <1>3, Invariance, PTL DEF Spec
=============================================================================
