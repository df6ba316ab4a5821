----------------------------- MODULE AppProofs ------------------------------
(***************************************************************************)
(* Proofs about App for every value of its constants that satisfies        *)
(* HalfRangeAssumption and AppAssumption, the firmware's own values among  *)
(* them.                                                                   *)
(***************************************************************************)
EXTENDS App, TLAPS

LEMMA ConstantFacts ==
  /\ HalfRange \in Nat \ {0}
  /\ SendInterval \in Nat \ {0} /\ SendInterval < HalfRange
  /\ SendRetryInterval \in Nat \ {0} /\ SendRetryInterval < HalfRange
  /\ RetryInterval \in Nat \ {0} /\ RetryInterval < HalfRange
  /\ MqttRetryInterval \in Nat \ {0} /\ MqttRetryInterval < HalfRange
  /\ LoopDelay \in Nat \ {0} /\ LoopDelay < HalfRange
  /\ RecoveryThreshold \in Nat \ {0} /\ ResetThreshold \in Nat \ {0}
  /\ CallTime \in Nat /\ CallTime < HalfRange
  /\ RecoveryTime \in Nat /\ RecoveryTime < HalfRange
  BY HalfRangeAssumption, AppAssumption

LEMMA DurationFacts ==
  /\ Durations \subseteq 0 .. HalfRange - 1
  /\ RecoveryDurations \subseteq 0 .. HalfRange - 1
  BY ConstantFacts DEF Durations, RecoveryDurations

\* The tick arithmetic stays within uint32_t.
LEMMA LaterTicks ==
  ASSUME NEW t \in Ticks, NEW d \in 0 .. HalfRange - 1
  PROVE  Later(t, d) \in Ticks
  BY ConstantFacts DEF Later, Ticks, TickMod

-----------------------------------------------------------------------------
(* Type correctness and SessionNeedsWifi.                                  *)

\* What holds of the flags at each point of the program.
PointInv ==
  /\ pc # "reset" => app_consecutive_failure_count < ResetThreshold
  /\ pc \in {"init", "init_wifi"} => ~app_wifi_connected
  /\ pc = "local_ip" => app_wifi_module_ready /\ ~app_wifi_connected
  /\ pc = "process" => app_wifi_connected

IInv == TypeOK /\ SessionNeedsWifi /\ PointInv

\* The effect of a registered failure on what IInv speaks of.
LEMMA FailureStep ==
  ASSUME IInv, pc # "reset",
         NEW d \in Durations, NEW r \in RecoveryDurations,
         NEW J \in SUBSET BOOLEAN, NEW next,
         RegisterFailure(d, r, J, next)
  PROVE  /\ now' \in Ticks
         /\ app_consecutive_failure_count' \in 0 .. ResetThreshold
         /\ joined' \in BOOLEAN
         /\ pc' \in {next, "reset"}
         /\ pc' # "reset" => app_consecutive_failure_count' < ResetThreshold
         /\ app_wifi_connected' \in BOOLEAN /\ (app_wifi_connected' => app_wifi_connected)
         /\ app_wifi_module_ready' \in BOOLEAN
         /\ Recovers => app_wifi_connected' = FALSE /\ app_wifi_module_ready' = FALSE
         /\ ~Recovers => /\ app_wifi_connected' = app_wifi_connected
                      /\ app_wifi_module_ready' = app_wifi_module_ready
<1>1. now' \in Ticks
  <2>1. now \in Ticks /\ now' = Later(Later(now, d), r)
    BY DEF IInv, TypeOK, RegisterFailure
  <2>2. Later(now, d) \in Ticks
    BY <2>1, DurationFacts, LaterTicks
  <2> QED
    BY <2>1, <2>2, DurationFacts, LaterTicks
<1>2. /\ app_consecutive_failure_count' \in 0 .. ResetThreshold
      /\ pc' \in {next, "reset"}
      /\ pc' # "reset" => app_consecutive_failure_count' < ResetThreshold
  BY ConstantFacts DEF IInv, TypeOK, PointInv, RegisterFailure, FailureCount,
     ResetDue, Recovers
<1>3. joined' \in BOOLEAN
  BY DEF IInv, TypeOK, RegisterFailure, RecoverWifi, JoinedAfterTeardown
<1>4. /\ Recovers => app_wifi_connected' = FALSE /\ app_wifi_module_ready' = FALSE
      /\ ~Recovers => /\ app_wifi_connected' = app_wifi_connected
                      /\ app_wifi_module_ready' = app_wifi_module_ready
  BY DEF RegisterFailure, RecoverWifi, Recovers
<1>5. /\ app_wifi_connected \in BOOLEAN /\ app_wifi_module_ready \in BOOLEAN
  BY DEF IInv, TypeOK
<1>6. /\ app_wifi_connected' \in BOOLEAN /\ (app_wifi_connected' => app_wifi_connected)
      /\ app_wifi_module_ready' \in BOOLEAN
  <2>1. CASE Recovers
    BY <1>4, <2>1
  <2>2. CASE ~Recovers
    BY <1>4, <1>5, <2>2
  <2> QED
    BY <2>1, <2>2
<1> QED
  BY <1>1, <1>2, <1>3, <1>4, <1>6

LEMMA ScheduleStep ==
  ASSUME IInv, now' \in Ticks, NEW always \in BOOLEAN,
         NEW d \in Durations, NEW r \in RecoveryDurations,
         ScheduleAfterFailure(d, r, always)
  PROVE  app_next_retry_ms' \in Ticks /\ rested' \in 0 .. RetryInterval
<1>1. /\ app_next_retry_ms \in Ticks
      /\ rested \in 0 .. RetryInterval
      /\ d + r \in Nat
  BY ConstantFacts, DurationFacts DEF IInv, TypeOK
<1>2. RestedAfter(d + r) \in 0 .. RetryInterval
  BY <1>1, ConstantFacts DEF RestedAfter
<1>3. ScheduleRetry(now') \in Ticks
  BY ConstantFacts, LaterTicks DEF ScheduleRetry
<1>4. CASE Recovers \/ always
  <2>1. app_next_retry_ms' = ScheduleRetry(now') /\ rested' = 0
    BY <1>4, Zenon DEF ScheduleAfterFailure
  <2> QED
    BY <1>3, <2>1, ConstantFacts
<1>5. CASE ~(Recovers \/ always)
  <2>1. app_next_retry_ms' = app_next_retry_ms /\ rested' = RestedAfter(d + r)
    BY <1>5, Zenon DEF ScheduleAfterFailure
  <2> QED
    BY <1>1, <1>2, <2>1
<1> QED
  BY <1>4, <1>5

LEMMA ReconnectStep ==
  ASSUME NEW t \in Ticks, ScheduleReconnect(t)
  PROVE  mqtt_state' = "DISCONNECTED" /\ mqtt_next_retry_ms' \in Ticks
  BY ConstantFacts, LaterTicks DEF ScheduleReconnect

LEMMA MqttStep ==
  ASSUME IInv, NEW d \in Durations,
         MqttAfterFailure(d) \/ ScheduleReconnect(Later(now, d))
  PROVE  /\ mqtt_next_retry_ms' \in Ticks
         /\ mqtt_state' \in {mqtt_state, "DISCONNECTED"}
         /\ Recovers => mqtt_state' = "DISCONNECTED"
<1>1. Later(now, d) \in Ticks
  <2>1. now \in Ticks
    BY DEF IInv, TypeOK
  <2> QED
    BY <2>1, DurationFacts, LaterTicks
<1>2. CASE Recovers \/ ScheduleReconnect(Later(now, d))
  <2>1. ScheduleReconnect(Later(now, d))
    BY <1>2, Zenon DEF MqttAfterFailure, MqttClient_Reset
  <2> QED
    BY <1>1, <2>1, ReconnectStep
<1>3. CASE MqttAfterFailure(d) /\ ~Recovers
  BY <1>3 DEF MqttAfterFailure, mqttVars, IInv, TypeOK
<1> QED
  BY <1>2, <1>3

LEMMA ElapseStep ==
  ASSUME IInv, NEW d \in 0 .. HalfRange - 1, Elapse(d)
  PROVE  now' \in Ticks /\ rested' \in 0 .. RetryInterval
  BY ConstantFacts, LaterTicks DEF Elapse, RestedAfter, IInv, TypeOK

\* A failure handled by RegisterFailure and its schedules preserves IInv
\* when the point it continues at makes no claim about the flags.
LEMMA FailurePreserves ==
  ASSUME IInv, pc # "reset",
         NEW d \in Durations, NEW r \in RecoveryDurations,
         NEW J \in SUBSET BOOLEAN, NEW always \in BOOLEAN,
         NEW next \in {"init_wifi", "ensure", "refresh", "due", "ack"},
         next = "init_wifi" => ~app_wifi_connected,
         RegisterFailure(d, r, J, next),
         ScheduleAfterFailure(d, r, always),
         MqttAfterFailure(d) \/ ScheduleReconnect(Later(now, d)),
         app_next_send_ms' \in Ticks,
         app_sensors_ready' \in BOOLEAN,
         UNCHANGED healthy
  PROVE  IInv'
<1>1. /\ now' \in Ticks
      /\ app_consecutive_failure_count' \in 0 .. ResetThreshold
      /\ joined' \in BOOLEAN
      /\ pc' \in {next, "reset"}
      /\ pc' # "reset" => app_consecutive_failure_count' < ResetThreshold
      /\ app_wifi_connected' \in BOOLEAN /\ (app_wifi_connected' => app_wifi_connected)
      /\ app_wifi_module_ready' \in BOOLEAN
      /\ Recovers => app_wifi_connected' = FALSE /\ app_wifi_module_ready' = FALSE
      /\ ~Recovers => /\ app_wifi_connected' = app_wifi_connected
                      /\ app_wifi_module_ready' = app_wifi_module_ready
  BY FailureStep
<1>2. app_next_retry_ms' \in Ticks /\ rested' \in 0 .. RetryInterval
  BY <1>1, ScheduleStep
<1>3. /\ mqtt_next_retry_ms' \in Ticks
      /\ mqtt_state' \in {mqtt_state, "DISCONNECTED"}
      /\ Recovers => mqtt_state' = "DISCONNECTED"
  BY MqttStep
<1>4. TypeOK'
  BY <1>1, <1>2, <1>3 DEF TypeOK, IInv, Points
<1>5. SessionNeedsWifi'
  BY <1>1, <1>3 DEF SessionNeedsWifi, IInv
<1>6. PointInv'
  BY <1>1 DEF PointInv
<1> QED
  BY <1>4, <1>5, <1>6 DEF IInv

LEMMA BootValues ==
  /\ 0 \in Ticks
  /\ 0 \in 0 .. ResetThreshold /\ 0 < ResetThreshold
  /\ RetryInterval \in 0 .. RetryInterval
  BY ConstantFacts DEF Ticks, TickMod

LEMMA InitIInv == Init => IInv
<1> SUFFICES ASSUME Init PROVE IInv
  OBVIOUS
<1>1. TypeOK
  BY BootValues DEF Init, TypeOK, Points
<1>2. SessionNeedsWifi /\ PointInv
  BY BootValues DEF Init, SessionNeedsWifi, PointInv
<1> QED
  BY <1>1, <1>2 DEF IInv

LEMMA BootIInv == ASSUME IInv, Boot PROVE IInv'
<1>1. TypeOK'
  BY BootValues DEF Boot, IInv, TypeOK, Points
<1>2. SessionNeedsWifi' /\ PointInv'
  BY BootValues DEF Boot, SessionNeedsWifi, PointInv
<1> QED
  BY <1>1, <1>2 DEF IInv

LEMMA DurationRange == \A d \in Durations : d \in 0 .. HalfRange - 1
  BY DurationFacts

LEMMA InitSensorsIInv == ASSUME IInv, InitSensors PROVE IInv'
<1>1. pc = "init" /\ UNCHANGED <<app_next_send_ms, healthy>>
  BY DEF InitSensors
<1>2. ASSUME NEW d \in Durations, Elapse(d), pc' = "init_wifi",
             app_sensors_ready' = TRUE,
             UNCHANGED <<wifiVars, app_consecutive_failure_count, mqttVars, joined>>
      PROVE  IInv'
  <2>1. now' \in Ticks /\ rested' \in 0 .. RetryInterval
    BY <1>2, ElapseStep, DurationRange
  <2> QED
    BY <1>1, <1>2, <2>1
       DEF IInv, TypeOK, SessionNeedsWifi, PointInv, Points, wifiVars, mqttVars
<1>3. ASSUME NEW d \in Durations, NEW r \in RecoveryDurations,
             UNCHANGED app_sensors_ready,
             RegisterFailure(d, r, {joined}, "init_wifi"),
             ScheduleAfterFailure(d, r, FALSE), MqttAfterFailure(d)
      PROVE  IInv'
  <2>1. /\ pc # "reset" /\ ~app_wifi_connected
        /\ {joined} \in SUBSET BOOLEAN
        /\ app_next_send_ms' \in Ticks /\ app_sensors_ready' \in BOOLEAN
    BY <1>1, <1>3 DEF IInv, TypeOK, PointInv
  <2> QED
    BY <1>1, <1>3, <2>1, FailurePreserves
<1> QED
  BY <1>2, <1>3 DEF InitSensors

\* Shared by App_Init and EnsureWifiConnected.
LEMMA InitModuleIInv ==
  ASSUME IInv, pc # "reset", ~app_wifi_connected, mqtt_state = "DISCONNECTED",
         NEW onFailure \in {"ensure", "refresh"}, InitModule(onFailure)
  PROVE  IInv'
<1>1. UNCHANGED <<app_next_send_ms, app_sensors_ready, healthy>>
  BY DEF InitModule
<1>2. ASSUME NEW d \in Durations, Elapse(d), pc' = "ensure",
             app_wifi_module_ready' = TRUE, joined' = FALSE,
             UNCHANGED <<app_wifi_connected, app_next_retry_ms, mqttVars,
                         app_consecutive_failure_count>>
      PROVE  IInv'
  <2>1. now' \in Ticks /\ rested' \in 0 .. RetryInterval
    BY <1>2, ElapseStep, DurationRange
  <2> QED
    BY <1>1, <1>2, <2>1
       DEF IInv, TypeOK, SessionNeedsWifi, PointInv, Points, mqttVars
<1>3. ASSUME NEW d \in Durations, NEW r \in RecoveryDurations,
             RegisterFailure(d, r, {FALSE}, onFailure),
             ScheduleAfterFailure(d, r, TRUE), MqttAfterFailure(d)
      PROVE  IInv'
  <2>1. /\ {FALSE} \in SUBSET BOOLEAN
        /\ app_next_send_ms' \in Ticks /\ app_sensors_ready' \in BOOLEAN
        /\ onFailure # "init_wifi"
    BY <1>1 DEF IInv, TypeOK
  <2> QED
    BY <1>1, <1>3, <2>1, FailurePreserves
<1> QED
  BY <1>2, <1>3 DEF InitModule

LEMMA InitWifiIInv == ASSUME IInv, InitWifi PROVE IInv'
<1>1. pc # "reset" /\ ~app_wifi_connected /\ mqtt_state = "DISCONNECTED"
  BY DEF InitWifi, IInv, PointInv, SessionNeedsWifi, TypeOK
<1> QED
  BY <1>1, InitModuleIInv DEF InitWifi

LEMMA EnsureWaitsIInv == ASSUME IInv, EnsureWaits PROVE IInv'
  BY DEF EnsureWaits, IInv, TypeOK, SessionNeedsWifi, PointInv, Points, wifiVars,
     mqttVars

LEMMA EnsureModuleIInv == ASSUME IInv, EnsureModule PROVE IInv'
<1>1. pc # "reset" /\ ~app_wifi_connected /\ mqtt_state = "DISCONNECTED"
  BY DEF EnsureModule, IInv, SessionNeedsWifi, TypeOK
<1> QED
  BY <1>1, InitModuleIInv DEF EnsureModule

LEMMA EnsureSkipsIInv == ASSUME IInv, EnsureSkips PROVE IInv'
  BY DEF EnsureSkips, IInv, TypeOK, SessionNeedsWifi, PointInv, Points, wifiVars,
     mqttVars

LEMMA EnsureConnectIInv == ASSUME IInv, EnsureConnect PROVE IInv'
<1>1. /\ pc = "ensure" /\ app_wifi_module_ready /\ ~app_wifi_connected
      /\ UNCHANGED <<app_sensors_ready, app_next_send_ms, healthy>>
  BY DEF EnsureConnect
<1>2. ASSUME NEW d \in Durations, Elapse(d), joined' = TRUE, pc' = "local_ip",
             UNCHANGED <<wifiVars, mqttVars, app_consecutive_failure_count>>
      PROVE  IInv'
  <2>1. now' \in Ticks /\ rested' \in 0 .. RetryInterval
    BY <1>2, ElapseStep, DurationRange
  <2> QED
    BY <1>1, <1>2, <2>1
       DEF IInv, TypeOK, SessionNeedsWifi, PointInv, Points, wifiVars, mqttVars
<1>3. ASSUME NEW d \in Durations, NEW r \in RecoveryDurations,
             RegisterFailure(d, r, {joined, TRUE}, "refresh"),
             ScheduleAfterFailure(d, r, TRUE), MqttAfterFailure(d)
      PROVE  IInv'
  <2>1. /\ pc # "reset" /\ {joined, TRUE} \in SUBSET BOOLEAN
        /\ app_next_send_ms' \in Ticks /\ app_sensors_ready' \in BOOLEAN
    BY <1>1 DEF IInv, TypeOK
  <2> QED
    BY <1>1, <1>3, <2>1, FailurePreserves
<1> QED
  BY <1>2, <1>3 DEF EnsureConnect

LEMMA EnsureLocalIpIInv == ASSUME IInv, EnsureLocalIp PROVE IInv'
<1>1. /\ pc = "local_ip"
      /\ UNCHANGED <<app_sensors_ready, app_next_send_ms, healthy>>
  BY DEF EnsureLocalIp
<1>2. ASSUME app_wifi_connected' = TRUE, pc' = "process",
             UNCHANGED <<now, rested, app_wifi_module_ready, app_next_retry_ms,
                         mqttVars, app_consecutive_failure_count, joined>>
      PROVE  IInv'
  BY <1>1, <1>2 DEF IInv, TypeOK, SessionNeedsWifi, PointInv, Points, mqttVars
<1>3. ASSUME NEW d \in Durations, NEW r \in RecoveryDurations,
             RegisterFailure(d, r, JoinedAfterTeardown, "refresh"),
             ScheduleAfterFailure(d, r, TRUE), MqttAfterFailure(d)
      PROVE  IInv'
  <2>1. /\ pc # "reset" /\ JoinedAfterTeardown \in SUBSET BOOLEAN
        /\ app_next_send_ms' \in Ticks /\ app_sensors_ready' \in BOOLEAN
    BY <1>1 DEF IInv, TypeOK, JoinedAfterTeardown
  <2> QED
    BY <1>1, <1>3, <2>1, FailurePreserves
<1> QED
  BY <1>2, <1>3 DEF EnsureLocalIp

LEMMA ProcessWaitsIInv == ASSUME IInv, ProcessWaits PROVE IInv'
  BY DEF ProcessWaits, IInv, TypeOK, SessionNeedsWifi, PointInv, Points, wifiVars,
     mqttVars

LEMMA ProcessQuietIInv == ASSUME IInv, ProcessQuiet PROVE IInv'
<1>1. now' \in Ticks /\ rested' \in 0 .. RetryInterval
  BY ElapseStep, DurationRange DEF ProcessQuiet
<1> QED
  BY <1>1 DEF ProcessQuiet, IInv, TypeOK, SessionNeedsWifi, PointInv, Points,
     wifiVars, mqttVars

LEMMA ProcessConnectsIInv == ASSUME IInv, ProcessConnects PROVE IInv'
<1>1. now' \in Ticks /\ rested' \in 0 .. RetryInterval
  BY ElapseStep, DurationRange DEF ProcessConnects
<1> QED
  BY <1>1 DEF ProcessConnects, IInv, TypeOK, SessionNeedsWifi, PointInv, Points,
     wifiVars, mqttVars

LEMMA ProcessFailsIInv == ASSUME IInv, ProcessFails PROVE IInv'
<1>1. /\ pc # "reset" /\ {joined} \in SUBSET BOOLEAN
      /\ app_next_send_ms' \in Ticks /\ app_sensors_ready' \in BOOLEAN
      /\ UNCHANGED healthy
  BY DEF ProcessFails, IInv, TypeOK
<1>2. PICK d \in Durations, r \in RecoveryDurations :
        /\ ScheduleReconnect(Later(now, d))
        /\ RegisterFailure(d, r, {joined}, "due")
        /\ ScheduleAfterFailure(d, r, FALSE)
  BY DEF ProcessFails
<1> QED
  BY <1>1, <1>2, FailurePreserves

LEMMA ProcessMalformedIInv == ASSUME IInv, ProcessMalformed PROVE IInv'
<1>1. now' \in Ticks /\ rested' \in 0 .. RetryInterval
  BY ElapseStep, DurationRange DEF ProcessMalformed
<1>2. mqtt_state' = "DISCONNECTED" /\ mqtt_next_retry_ms' \in Ticks
  BY <1>1, ReconnectStep DEF ProcessMalformed
<1> QED
  BY <1>1, <1>2 DEF ProcessMalformed, IInv, TypeOK, SessionNeedsWifi, PointInv,
     Points, wifiVars

LEMMA ProcessWakeIInv == ASSUME IInv, ProcessWake PROVE IInv'
<1>1. now' \in Ticks /\ rested' \in 0 .. RetryInterval
  BY ElapseStep, DurationRange DEF ProcessWake
<1> QED
  BY <1>1 DEF ProcessWake, IInv, TypeOK, SessionNeedsWifi, PointInv, Points,
     wifiVars, mqttVars

LEMMA HandleWakeCommandIInv == ASSUME IInv, HandleWakeCommand PROVE IInv'
<1>1. pc = "wake" /\ UNCHANGED <<app_sensors_ready, app_next_send_ms, healthy>>
  BY DEF HandleWakeCommand
<1>2. ASSUME NEW d \in Durations, Elapse(d), pc' = "ack",
             app_consecutive_failure_count' = 0,
             UNCHANGED <<wifiVars, mqttVars, joined>>
      PROVE  IInv'
  <2>1. now' \in Ticks /\ rested' \in 0 .. RetryInterval
    BY <1>2, ElapseStep, DurationRange
  <2> QED
    BY <1>1, <1>2, <2>1, BootValues
       DEF IInv, TypeOK, SessionNeedsWifi, PointInv, Points, wifiVars, mqttVars
<1>3. ASSUME NEW d \in Durations, NEW r \in RecoveryDurations,
             RegisterFailure(d, r, {joined}, "ack"),
             ScheduleAfterFailure(d, r, FALSE), MqttAfterFailure(d)
      PROVE  IInv'
  <2>1. /\ pc # "reset" /\ {joined} \in SUBSET BOOLEAN
        /\ app_next_send_ms' \in Ticks /\ app_sensors_ready' \in BOOLEAN
    BY <1>1 DEF IInv, TypeOK
  <2> QED
    BY <1>1, <1>3, <2>1, FailurePreserves
<1> QED
  BY <1>2, <1>3 DEF HandleWakeCommand

LEMMA SendPubAckIInv == ASSUME IInv, SendPubAck PROVE IInv'
<1>1. now' \in Ticks /\ rested' \in 0 .. RetryInterval
  BY ElapseStep, DurationRange DEF SendPubAck
<1>2. mqtt_state' \in {mqtt_state, "DISCONNECTED"} /\ mqtt_next_retry_ms' \in Ticks
  BY <1>1, ReconnectStep DEF SendPubAck, mqttVars, IInv, TypeOK
<1> QED
  BY <1>1, <1>2 DEF SendPubAck, IInv, TypeOK, SessionNeedsWifi, PointInv, Points,
     wifiVars

LEMMA CheckDueIInv == ASSUME IInv, CheckDue PROVE IInv'
  BY DEF CheckDue, IInv, TypeOK, SessionNeedsWifi, PointInv, Points, wifiVars,
     mqttVars

LEMMA MeasureIInv == ASSUME IInv, Measure PROVE IInv'
<1>1. pc = "measure" /\ UNCHANGED healthy
  BY DEF Measure
<1>2. ASSUME NEW d \in Durations, Elapse(d), pc' = "send",
             app_sensors_ready' = TRUE,
             UNCHANGED <<wifiVars, app_next_send_ms, mqttVars, joined,
                         app_consecutive_failure_count>>
      PROVE  IInv'
  <2>1. now' \in Ticks /\ rested' \in 0 .. RetryInterval
    BY <1>2, ElapseStep, DurationRange
  <2> QED
    BY <1>1, <1>2, <2>1
       DEF IInv, TypeOK, SessionNeedsWifi, PointInv, Points, wifiVars, mqttVars
<1>3. ASSUME NEW d \in Durations, NEW r \in RecoveryDurations,
             RegisterFailure(d, r, {joined}, "refresh"),
             ScheduleAfterFailure(d, r, FALSE), MqttAfterFailure(d),
             app_next_send_ms' = ScheduleNextSend(now'),
             UNCHANGED app_sensors_ready
      PROVE  IInv'
  <2>1. /\ pc # "reset" /\ {joined} \in SUBSET BOOLEAN
        /\ app_sensors_ready' \in BOOLEAN
    BY <1>1, <1>3 DEF IInv, TypeOK
  <2>2. now' \in Ticks
    BY <1>3, <2>1, FailureStep
  <2>3. app_next_send_ms' \in Ticks
    BY <1>3, <2>2, LaterTicks, ConstantFacts DEF ScheduleNextSend
  <2> QED
    BY <1>1, <1>3, <2>1, <2>3, FailurePreserves
<1> QED
  BY <1>2, <1>3 DEF Measure

LEMMA SendSucceedsIInv == ASSUME IInv, SendSucceeds PROVE IInv'
<1>1. now' \in Ticks /\ rested' \in 0 .. RetryInterval
  BY ElapseStep, DurationRange DEF SendSucceeds
<1>2. app_next_send_ms' \in Ticks
  BY <1>1, LaterTicks, ConstantFacts DEF SendSucceeds, ScheduleNextSend
<1> QED
  BY <1>1, <1>2, BootValues
     DEF SendSucceeds, IInv, TypeOK, SessionNeedsWifi, PointInv, Points, wifiVars,
         mqttVars

LEMMA SendFailsIInv == ASSUME IInv, SendFails PROVE IInv'
<1>1. /\ pc # "reset" /\ {joined} \in SUBSET BOOLEAN
      /\ app_sensors_ready' \in BOOLEAN /\ UNCHANGED healthy
  BY DEF SendFails, IInv, TypeOK
<1>2. PICK d \in Durations, r \in RecoveryDurations :
        /\ RegisterFailure(d, r, {joined}, "refresh")
        /\ ScheduleAfterFailure(d, r, FALSE)
        /\ MqttAfterFailure(d)
  BY DEF SendFails
<1>3. now' \in Ticks
  BY <1>1, <1>2, FailureStep
<1>4. app_next_send_ms' \in Ticks
  BY <1>3, LaterTicks, ConstantFacts DEF SendFails, ScheduleSendRetry
<1> QED
  BY <1>1, <1>2, <1>4, FailurePreserves

LEMMA RefreshIInv == ASSUME IInv, Refresh PROVE IInv'
<1>1. now' \in Ticks /\ rested' \in 0 .. RetryInterval
  BY ElapseStep, ConstantFacts DEF Refresh
<1> QED
  BY <1>1 DEF Refresh, IInv, TypeOK, SessionNeedsWifi, PointInv, Points, wifiVars,
     mqttVars

LEMMA LinkLostIInv == ASSUME IInv, LinkLost PROVE IInv'
  BY DEF LinkLost, IInv, TypeOK, SessionNeedsWifi, PointInv, wifiVars, mqttVars

LEMMA BecomeHealthyIInv == ASSUME IInv, BecomeHealthy PROVE IInv'
  BY DEF BecomeHealthy, IInv, TypeOK, SessionNeedsWifi, PointInv, wifiVars, mqttVars

LEMMA NextIInv == IInv /\ [Next]_vars => IInv'
<1> SUFFICES ASSUME IInv, [Next]_vars PROVE IInv'
  OBVIOUS
<1>1. CASE UNCHANGED vars
  BY <1>1 DEF vars, wifiVars, mqttVars, IInv, TypeOK, SessionNeedsWifi, PointInv
<1>2. CASE Program
  BY <1>2, InitSensorsIInv, InitWifiIInv, EnsureWaitsIInv, EnsureModuleIInv,
     EnsureSkipsIInv, EnsureConnectIInv, EnsureLocalIpIInv, ProcessWaitsIInv,
     ProcessQuietIInv, ProcessConnectsIInv, ProcessFailsIInv,
     ProcessMalformedIInv, ProcessWakeIInv, HandleWakeCommandIInv,
     SendPubAckIInv, CheckDueIInv, MeasureIInv, SendSucceedsIInv, SendFailsIInv,
     RefreshIInv, BootIInv
     DEF Program, EnsureWifiConnected, MqttClient_Process, SendTelemetryCycle,
         SystemReset
<1>3. CASE Environment
  BY <1>3, BootIInv, LinkLostIInv, BecomeHealthyIInv DEF Environment, Restart
<1> QED
  BY <1>1, <1>2, <1>3 DEF Next

\* The inductive invariant holds.
THEOREM Invariance == Spec => []IInv
  BY InitIInv, NextIInv, PTL DEF Spec

\* The variables keep their types, the tick variables their 32 bits, and the
\* failure count never exceeds the reset threshold.
THEOREM TypeCorrect == Spec => []TypeOK
<1>1. IInv => TypeOK
  BY DEF IInv
<1> QED
  BY <1>1, Invariance, PTL

\* The MQTT session is trusted only over a trusted link, and the link only
\* over an initialised module, at every point of the program.
THEOREM SessionNeedsWifiHolds == Spec => []SessionNeedsWifi
<1>1. IInv => SessionNeedsWifi
  BY DEF IInv
<1> QED
  BY <1>1, Invariance, PTL

-----------------------------------------------------------------------------
(* App implements Escalation.                                              *)

polVars == <<app_consecutive_failure_count, app_wifi_connected>>

\* A registered failure is one of the three failure steps of the policy.
LEMMA FailureRefines ==
  ASSUME IInv, pc # "reset",
         NEW d \in Durations, NEW r \in RecoveryDurations, NEW J, NEW next,
         RegisterFailure(d, r, J, next)
  PROVE  Policy!Next
<1> DEFINE n == app_consecutive_failure_count
<1>1. n \in Nat /\ n < ResetThreshold /\ n' = n + 1
  BY DEF IInv, TypeOK, PointInv, RegisterFailure, FailureCount
<1>2. CASE ResetDue(FailureCount)
  <2>1. app_wifi_connected' = app_wifi_connected
    BY <1>2 DEF RegisterFailure, Recovers
  <2>2. n + 1 = ResetThreshold
    BY <1>1, <1>2, ConstantFacts DEF ResetDue, FailureCount
  <2> QED
    BY <1>1, <2>1, <2>2 DEF Policy!Next, Policy!GiveUp
<1>3. CASE Recovers
  <2>1. app_wifi_connected' = FALSE
    BY <1>3 DEF RegisterFailure, RecoverWifi, Recovers
  <2>2. n + 1 < ResetThreshold /\ (n + 1) % RecoveryThreshold = 0
    BY <1>1, <1>3, ConstantFacts DEF Recovers, ResetDue, RecoveryDue, FailureCount
  <2> QED
    BY <1>1, <2>1, <2>2 DEF Policy!Next, Policy!Recovery
<1>4. CASE ~ResetDue(FailureCount) /\ ~RecoveryDue(FailureCount)
  <2>1. app_wifi_connected' = app_wifi_connected
    BY <1>4 DEF RegisterFailure, Recovers
  <2>2. n + 1 < ResetThreshold /\ (n + 1) % RecoveryThreshold # 0
    BY <1>1, <1>4, ConstantFacts DEF ResetDue, RecoveryDue, FailureCount
  <2> QED
    BY <1>1, <2>1, <2>2 DEF Policy!Next, Policy!Failure
<1> QED
  BY <1>2, <1>3, <1>4 DEF Recovers

LEMMA NextRefines == IInv /\ [Next]_vars => [Policy!Next]_polVars
<1> SUFFICES ASSUME IInv, [Next]_vars PROVE [Policy!Next]_polVars
  OBVIOUS
<1>1. CASE UNCHANGED polVars
  BY <1>1
<1>2. CASE pc # "reset" /\ \E d \in Durations, r \in RecoveryDurations, J \in {{joined}, {FALSE}, {joined, TRUE}, JoinedAfterTeardown}, next \in Points :
             RegisterFailure(d, r, J, next)
  BY <1>2, FailureRefines
<1>3. CASE Boot
  BY <1>3 DEF Boot, Policy!Next, Policy!Restart
<1>4. CASE EnsureLocalIp
  <2>1. CASE app_wifi_connected' = TRUE /\ UNCHANGED app_consecutive_failure_count
    <3>1. app_consecutive_failure_count < ResetThreshold /\ ~app_wifi_connected
      BY <1>4 DEF EnsureLocalIp, IInv, PointInv
    <3> QED
      BY <2>1, <3>1 DEF Policy!Next, Policy!BringUp
  <2> QED
    BY <1>2, <1>4, <2>1 DEF EnsureLocalIp, Points
<1>5. CASE HandleWakeCommand
  <2>1. CASE app_consecutive_failure_count' = 0 /\ UNCHANGED app_wifi_connected
    <3>1. app_consecutive_failure_count < ResetThreshold
      BY <1>5 DEF HandleWakeCommand, IInv, PointInv
    <3> QED
      BY <2>1, <3>1 DEF Policy!Next, Policy!Success
  <2> QED
    BY <1>2, <1>5, <2>1 DEF HandleWakeCommand, wifiVars, Points
<1>6. CASE SendSucceeds
  <2>1. /\ app_consecutive_failure_count < ResetThreshold
        /\ app_consecutive_failure_count' = 0 /\ UNCHANGED app_wifi_connected
    BY <1>6 DEF SendSucceeds, IInv, PointInv, wifiVars
  <2> QED
    BY <2>1 DEF Policy!Next, Policy!Success
<1>7. CASE InitSensors \/ InitWifi \/ EnsureModule \/ EnsureConnect
  BY <1>1, <1>2, <1>7 DEF InitSensors, InitWifi, EnsureModule, InitModule,
     EnsureConnect, wifiVars, polVars, Points
<1>8. CASE ProcessFails \/ Measure \/ SendFails
  BY <1>1, <1>2, <1>8 DEF ProcessFails, Measure, SendFails, wifiVars, polVars,
     Points
<1>9. CASE \/ EnsureWaits \/ EnsureSkips \/ ProcessWaits \/ ProcessQuiet
           \/ ProcessConnects \/ ProcessMalformed \/ ProcessWake \/ SendPubAck
           \/ CheckDue \/ Refresh \/ LinkLost \/ BecomeHealthy
  BY <1>1, <1>9 DEF EnsureWaits, EnsureSkips, ProcessWaits, ProcessQuiet,
     ProcessConnects, ProcessMalformed, ProcessWake, SendPubAck, CheckDue,
     Refresh, LinkLost, BecomeHealthy, wifiVars, polVars
<1>10. CASE UNCHANGED vars
  BY <1>1, <1>10 DEF vars, wifiVars, polVars
<1> QED
  BY <1>3, <1>4, <1>5, <1>6, <1>7, <1>8, <1>9, <1>10
     DEF Next, Program, Environment, EnsureWifiConnected, MqttClient_Process,
         SendTelemetryCycle, SystemReset, Restart

\* app.c implements the escalation policy: failures are counted one by one,
\* each RecoveryThreshold-th takes the link down and nothing else does short
\* of a restart, the ResetThreshold-th leaves only a restart, and only a
\* success or a restart clears the count.
THEOREM ImplementsEscalation == Spec => EscalationPolicy
<1>1. Init => Policy!Init
  BY DEF Init, Policy!Init
<1> QED
  BY <1>1, Invariance, NextRefines, PTL DEF Spec, EscalationPolicy, Policy!Spec, polVars

-----------------------------------------------------------------------------
(* RetryPaced: while the module rests, the retry deadline lies ahead by      *)
(* exactly what is left of RetryInterval, wherever the 32-bit clock wraps.   *)

\* A deadline k ticks ahead is k ticks ahead, across the wrap too.
LEMMA ArmedAhead ==
  ASSUME NEW t \in Ticks, NEW k \in 0 .. HalfRange - 1
  PROVE  Since(Later(t, k), t) = k
  BY ConstantFacts DEF Ticks, TickMod, Later, Since

\* Letting d ticks pass brings a deadline d ticks closer.
LEMMA Approaching ==
  ASSUME NEW t \in Ticks, NEW s \in Ticks, NEW d \in 0 .. HalfRange - 1,
         d < Since(s, t)
  PROVE  Since(s, Later(t, d)) = Since(s, t) - d
  BY ConstantFacts DEF Ticks, TickMod, Later, Since

\* A deadline less than half the range ahead is not reached.
LEMMA AheadIsNotReached ==
  ASSUME NEW t \in Ticks, NEW s \in Ticks, Since(s, t) \in 1 .. HalfRange
  PROVE  ~TimeReached(t, s)
  BY ConstantFacts DEF Ticks, TickMod, Since, TimeReached

LEMMA LaterZero == \A t \in Ticks : Later(t, 0) = t
  BY ConstantFacts DEF Ticks, TickMod, Later

PacedInv ==
  rested < RetryInterval =>
    Since(app_next_retry_ms, now) = RetryInterval - rested

LEMMA ElapsePaced ==
  ASSUME IInv, PacedInv, NEW d \in 0 .. HalfRange - 1,
         now' = Later(now, d), rested' = RestedAfter(d),
         UNCHANGED app_next_retry_ms
  PROVE  PacedInv'
<1> SUFFICES ASSUME rested' < RetryInterval
             PROVE  Since(app_next_retry_ms', now') = RetryInterval - rested'
  BY DEF PacedInv
<1>1. now \in Ticks /\ app_next_retry_ms \in Ticks /\ rested \in Nat
  BY ConstantFacts DEF IInv, TypeOK
<1>2. rested + d < RetryInterval /\ rested' = rested + d
  BY <1>1, ConstantFacts DEF RestedAfter
<1>3. Since(app_next_retry_ms, now) = RetryInterval - rested
  BY <1>1, <1>2, ConstantFacts DEF PacedInv
<1>4. Since(app_next_retry_ms, Later(now, d)) = RetryInterval - rested - d
  BY <1>1, <1>2, <1>3, ConstantFacts, Approaching
<1> QED
  BY <1>1, <1>2, <1>4, ConstantFacts

LEMMA FailurePaced ==
  ASSUME IInv, PacedInv, pc # "reset",
         NEW d \in Durations, NEW r \in RecoveryDurations,
         NEW J \in SUBSET BOOLEAN, NEW next, NEW always \in BOOLEAN,
         RegisterFailure(d, r, J, next), ScheduleAfterFailure(d, r, always)
  PROVE  PacedInv'
<1>1. now' \in Ticks
  BY FailureStep
<1>2. CASE Recovers \/ always
  <2>1. app_next_retry_ms' = Later(now', RetryInterval) /\ rested' = 0
    BY <1>2, Zenon DEF ScheduleAfterFailure, ScheduleRetry
  <2>2. Since(app_next_retry_ms', now') = RetryInterval
    BY <1>1, <2>1, ConstantFacts, ArmedAhead
  <2> QED
    BY <2>1, <2>2, ConstantFacts DEF PacedInv
<1>3. CASE ~(Recovers \/ always)
  <2>1. app_next_retry_ms' = app_next_retry_ms /\ rested' = RestedAfter(d + r)
    BY <1>3, Zenon DEF ScheduleAfterFailure
  <2>2. r = 0
    BY <1>3 DEF RegisterFailure
  <2>3. now \in Ticks /\ Later(now, d) \in Ticks /\ d \in 0 .. HalfRange - 1
    BY LaterTicks, DurationRange DEF IInv, TypeOK
  <2>4. now' = Later(now, d) /\ d + r = d
    BY <2>2, <2>3, LaterZero DEF RegisterFailure
  <2> QED
    BY <2>1, <2>3, <2>4, ElapsePaced
<1> QED
  BY <1>2, <1>3

LEMMA NextPaced == IInv /\ PacedInv /\ [Next]_vars => PacedInv'
<1> SUFFICES ASSUME IInv, PacedInv, [Next]_vars PROVE PacedInv'
  OBVIOUS
<1>1. CASE UNCHANGED <<now, app_next_retry_ms, rested>>
  BY <1>1 DEF PacedInv
<1>2. CASE \E d \in 0 .. HalfRange - 1 : Elapse(d) /\ UNCHANGED app_next_retry_ms
  BY <1>2, ElapsePaced DEF Elapse
<1>3. CASE pc # "reset" /\ \E d \in Durations, r \in RecoveryDurations, J \in SUBSET BOOLEAN, next \in Points, always \in BOOLEAN :
             RegisterFailure(d, r, J, next) /\ ScheduleAfterFailure(d, r, always)
  BY <1>3, FailurePaced
<1>4. CASE Boot
  BY <1>4, ConstantFacts DEF Boot, PacedInv
<1>5. /\ {joined} \in SUBSET BOOLEAN /\ {FALSE} \in SUBSET BOOLEAN
      /\ {joined, TRUE} \in SUBSET BOOLEAN
      /\ JoinedAfterTeardown \in SUBSET BOOLEAN
  BY DEF IInv, TypeOK, JoinedAfterTeardown
<1>6. CASE InitSensors \/ HandleWakeCommand
  BY <1>2, <1>3, <1>5, <1>6, DurationRange
     DEF InitSensors, HandleWakeCommand, wifiVars, Points
<1>7. CASE InitWifi \/ EnsureModule
  BY <1>2, <1>3, <1>5, <1>7, DurationRange
     DEF InitWifi, EnsureModule, InitModule, Points
<1>8. CASE EnsureConnect \/ EnsureLocalIp
  BY <1>1, <1>2, <1>3, <1>5, <1>8, DurationRange
     DEF EnsureConnect, EnsureLocalIp, wifiVars, Points
<1>9. CASE ProcessFails \/ Measure \/ SendFails
  BY <1>2, <1>3, <1>5, <1>9, DurationRange
     DEF ProcessFails, Measure, SendFails, wifiVars, Points
<1>10. CASE \/ ProcessQuiet \/ ProcessConnects \/ ProcessMalformed \/ ProcessWake
            \/ SendPubAck \/ SendSucceeds \/ Refresh
  BY <1>2, <1>10, DurationRange, ConstantFacts
     DEF ProcessQuiet, ProcessConnects, ProcessMalformed, ProcessWake, SendPubAck,
         SendSucceeds, Refresh, wifiVars
<1>11. CASE \/ EnsureWaits \/ EnsureSkips \/ ProcessWaits \/ CheckDue
            \/ LinkLost \/ BecomeHealthy \/ UNCHANGED vars
  BY <1>1, <1>11 DEF EnsureWaits, EnsureSkips, ProcessWaits, CheckDue, LinkLost,
     BecomeHealthy, vars, wifiVars
<1> QED
  BY <1>4, <1>6, <1>7, <1>8, <1>9, <1>10, <1>11
     DEF Next, Program, Environment, EnsureWifiConnected, MqttClient_Process,
         SendTelemetryCycle, SystemReset, Restart

\* After every failed bring-up and every teardown the module is left alone for
\* RetryInterval, for every length of the clock and every interval below half
\* of it.
THEOREM RetryPacedHolds == Spec => []RetryPaced
<1>1. Init => PacedInv
  BY ConstantFacts DEF Init, PacedInv
<1>2. ASSUME IInv, PacedInv PROVE RetryPaced
  <2> SUFFICES ASSUME RetryReached, rested < RetryInterval PROVE FALSE
    BY <1>2, ConstantFacts DEF RetryPaced, IInv, TypeOK
  <2>1. now \in Ticks /\ app_next_retry_ms \in Ticks /\ rested \in Nat
    BY <1>2, ConstantFacts DEF IInv, TypeOK
  <2>2. Since(app_next_retry_ms, now) \in 1 .. HalfRange
    BY <1>2, <2>1, ConstantFacts DEF PacedInv
  <2> QED
    BY <2>1, <2>2, AheadIsNotReached DEF RetryReached
<1> QED
  BY <1>1, <1>2, NextPaced, Invariance, PTL DEF Spec
=============================================================================
