-------------------------------- MODULE App ---------------------------------
(***************************************************************************)
(* The application super-loop of app.c: App_Init, then App_Loop for ever.  *)
(* A pass brings Wi-Fi up if it must, serves the MQTT client, sends        *)
(* telemetry when it is due, refreshes the watchdog and sleeps.  Failures  *)
(* in a row are counted wherever they occur and escalate to a Wi-Fi        *)
(* recovery and then to an MCU reset.                                      *)
(*                                                                         *)
(* The firmware has one thread, so pc names the point it has reached;      *)
(* between two points the access point may be lost, the environment may    *)
(* become quiet, or the MCU may restart.  A step takes as long as its      *)
(* blocking calls do, at most CallTime.  The outcome of each call is       *)
(* constrained by the services that are Flaky (fail until the environment  *)
(* is quiet) or Down (never work).  What a session says on the wire is the *)
(* subject of the MQTT client's own module; here MqttClient_Process is its *)
(* effect on the state app.c and mqtt_client.c share.                      *)
(***************************************************************************)
EXTENDS Ticks

CONSTANTS
  SendInterval,       \* APP_SEND_INTERVAL_MS
  SendRetryInterval,  \* APP_SEND_RETRY_INTERVAL_MS
  RetryInterval,      \* APP_RETRY_INTERVAL_MS
  MqttRetryInterval,  \* APP_MQTT_RETRY_INTERVAL_MS
  LoopDelay,          \* the HAL_Delay(100U) that ends a pass
  CallTime,           \* the longest a step's blocking calls take,
  RecoveryTime,       \* and the longest those of RecoverWifi take
  RecoveryThreshold,  \* APP_WIFI_RECOVERY_FAILURE_THRESHOLD
  ResetThreshold,     \* APP_SYSTEM_RESET_FAILURE_THRESHOLD
  Flaky, Down         \* services that may fail for a while, or always fail

Services == {"sensors", "wifi", "mqtt", "wol", "api", "link", "power"}

ASSUME AppAssumption ==
  /\ {SendInterval, SendRetryInterval, RetryInterval, MqttRetryInterval,
      LoopDelay, RecoveryThreshold, ResetThreshold} \subseteq Nat \ {0}
  /\ {CallTime, RecoveryTime} \subseteq Nat
  /\ {SendInterval, SendRetryInterval, RetryInterval, MqttRetryInterval,
      LoopDelay, CallTime, RecoveryTime} \subseteq 0 .. HalfRange - 1
  /\ Flaky \subseteq Services /\ Down \subseteq Services

VARIABLES
  now,                            \* HAL_GetTick()
  pc,                             \* the point of App_Init or App_Loop reached
  app_wifi_connected, app_wifi_module_ready, app_sensors_ready,
  app_next_send_ms, app_next_retry_ms,
  app_consecutive_failure_count,
  mqtt_state, mqtt_next_retry_ms, \* what RecoverWifi resets in mqtt_client.c
  joined,                         \* the module is associated with the AP
  healthy,                        \* the environment has become quiet for good
  rested                          \* ghost: ticks since Wi-Fi last failed or was
                                  \* torn down, counted up to RetryInterval

wifiVars == <<app_wifi_connected, app_wifi_module_ready, app_next_retry_ms>>
mqttVars == <<mqtt_state, mqtt_next_retry_ms>>
vars == <<now, pc, wifiVars, app_sensors_ready, app_next_send_ms,
          app_consecutive_failure_count, mqttVars, joined, healthy, rested>>

Points == {"init", "init_wifi", "ensure", "local_ip", "process", "wake", "ack",
           "due", "measure", "send", "refresh", "reset"}

TypeOK ==
  /\ now \in Ticks
  /\ pc \in Points
  /\ app_wifi_connected \in BOOLEAN
  /\ app_wifi_module_ready \in BOOLEAN
  /\ app_sensors_ready \in BOOLEAN
  /\ app_next_send_ms \in Ticks
  /\ app_next_retry_ms \in Ticks
  /\ app_consecutive_failure_count \in 0 .. ResetThreshold
  /\ mqtt_state \in {"DISCONNECTED", "CONNECTED"}
  /\ mqtt_next_retry_ms \in Ticks
  /\ joined \in BOOLEAN
  /\ healthy \in BOOLEAN
  /\ rested \in 0 .. RetryInterval

-----------------------------------------------------------------------------
(* The environment's answers. *)

Durations == 0 .. CallTime
RecoveryDurations == 0 .. RecoveryTime

\* Wrong in itself, whatever the link.
Disturbed(service) == service \in Down \/ (service \in Flaky /\ ~healthy)

\* A peer is reached only through the access point.
PeerFails(service) == Disturbed(service) \/ ~joined
PeerWorks(service) == joined /\ service \notin Down

\* Disconnect and ResetModule ignore errors: they may leave the module joined.
JoinedAfterTeardown ==
  IF Disturbed("wifi") THEN {FALSE, joined} ELSE {FALSE}

-----------------------------------------------------------------------------
(* Failure registration and its two escalations. *)

ScheduleRetry(t) == Later(t, RetryInterval)
ScheduleNextSend(t) == Later(t, SendInterval)
ScheduleSendRetry(t) == Later(t, SendRetryInterval)

\* Mutants: the threshold is missed by one; the reset is forgotten.
ResetLate(n) == n > ResetThreshold
ResetNever(n) == FALSE

ResetDue(n) == n >= ResetThreshold

\* Mutant: every failure from the threshold on recovers again.
RecoveryFromThresholdOn(n) == n >= RecoveryThreshold

RecoveryDue(n) == n % RecoveryThreshold = 0

\* Mutant: the counter saturates just below the recovery threshold.
SaturatedCount ==
  IF app_consecutive_failure_count + 1 >= RecoveryThreshold
  THEN RecoveryThreshold - 1
  ELSE app_consecutive_failure_count + 1

\* The count once the failure at hand is registered.
FailureCount == app_consecutive_failure_count + 1

\* Whether registering it runs RecoverWifi.
Recovers == ~ResetDue(FailureCount) /\ RecoveryDue(FailureCount)

RestedAfter(d) ==
  IF rested + d >= RetryInterval THEN RetryInterval ELSE rested + d

\* mqtt_client.c: the session is given up and its socket closed.
ScheduleReconnect(t) ==
  /\ mqtt_state' = "DISCONNECTED"
  /\ mqtt_next_retry_ms' = Later(t, MqttRetryInterval)

MqttClient_Reset(t) == ScheduleReconnect(t)

\* The flags RecoverWifi clears, and the module it leaves behind.
RecoverWifi ==
  /\ app_wifi_connected' = FALSE
  /\ app_wifi_module_ready' = FALSE
  /\ joined' \in JoinedAfterTeardown

\* A failure is counted d ticks into the step and, when the count asks for
\* it, recovery takes r more; the schedules that go with it are set by the
\* operators below.  joinedAfter is what the failed call left of the link.
\* RequestSystemReset does not return: what a step at "reset" leaves in the
\* schedules is never read.
RegisterFailure(d, r, joinedAfter, next) ==
  /\ app_consecutive_failure_count' = FailureCount
  /\ now' = Later(Later(now, d), r)
  /\ \/ /\ ResetDue(FailureCount)
        /\ r = 0
        /\ pc' = "reset"
        /\ joined' \in joinedAfter
        /\ UNCHANGED <<app_wifi_connected, app_wifi_module_ready>>
     \/ /\ Recovers
        /\ pc' = next
        /\ RecoverWifi
     \/ /\ ~ResetDue(FailureCount) /\ ~RecoveryDue(FailureCount)
        /\ r = 0
        /\ pc' = next
        /\ joined' \in joinedAfter
        /\ UNCHANGED <<app_wifi_connected, app_wifi_module_ready>>

\* Mutant: only the callers schedule, RecoverWifi does not.
ScheduleByCallerOnly(d, r, always) ==
  /\ IF always THEN app_next_retry_ms' = ScheduleRetry(now')
               ELSE UNCHANGED app_next_retry_ms
  /\ rested' = IF Recovers \/ always THEN 0 ELSE RestedAfter(d + r)

\* RecoverWifi schedules the next bring-up; so do the callers that failed in
\* it (always).
ScheduleAfterFailure(d, r, always) ==
  IF Recovers \/ always
  THEN app_next_retry_ms' = ScheduleRetry(now') /\ rested' = 0
  ELSE UNCHANGED app_next_retry_ms /\ rested' = RestedAfter(d + r)

\* Mutant: RecoverWifi forgets MqttClient_Reset.
MqttForgotten(d) == UNCHANGED mqttVars

MqttAfterFailure(d) ==
  IF Recovers THEN MqttClient_Reset(Later(now, d)) ELSE UNCHANGED mqttVars

\* A step that registers no failure and takes d ticks.
Elapse(d) ==
  /\ now' = Later(now, d)
  /\ rested' = RestedAfter(d)

-----------------------------------------------------------------------------
(* App_Init. *)

InitSensors ==
  /\ pc = "init"
  /\ UNCHANGED <<app_next_send_ms, healthy>>
  /\ \E d \in Durations :
       \/ /\ "sensors" \notin Down
          /\ app_sensors_ready' = TRUE
          /\ pc' = "init_wifi"
          /\ Elapse(d)
          /\ UNCHANGED <<wifiVars, app_consecutive_failure_count, mqttVars, joined>>
       \/ /\ Disturbed("sensors")
          /\ UNCHANGED app_sensors_ready
          /\ \E r \in RecoveryDurations :
               /\ RegisterFailure(d, r, {joined}, "init_wifi")
               /\ ScheduleAfterFailure(d, r, FALSE)
               /\ MqttAfterFailure(d)

\* WifiService_Init: the driver pulses the module's reset pin first, so the
\* module forgets its association whether or not the rest succeeds.
InitModule(onFailure) ==
  /\ UNCHANGED <<app_next_send_ms, app_sensors_ready, healthy>>
  /\ \E d \in Durations :
       \/ /\ "wifi" \notin Down
          /\ app_wifi_module_ready' = TRUE
          /\ joined' = FALSE
          /\ pc' = "ensure"
          /\ Elapse(d)
          /\ UNCHANGED <<app_wifi_connected, app_next_retry_ms, mqttVars,
                         app_consecutive_failure_count>>
       \/ /\ Disturbed("wifi")
          /\ \E r \in RecoveryDurations :
               /\ RegisterFailure(d, r, {FALSE}, onFailure)
               /\ ScheduleAfterFailure(d, r, TRUE)
               /\ MqttAfterFailure(d)

InitWifi == pc = "init_wifi" /\ InitModule("ensure")

-----------------------------------------------------------------------------
(* EnsureWifiConnected. *)

RetryReached == TimeReached(now, app_next_retry_ms)

EnsureWaits ==
  /\ pc = "ensure"
  /\ ~app_wifi_module_ready \/ ~app_wifi_connected
  /\ ~RetryReached
  /\ pc' = "refresh"
  /\ UNCHANGED <<now, wifiVars, app_sensors_ready, app_next_send_ms, mqttVars,
                 app_consecutive_failure_count, joined, healthy, rested>>

EnsureModule ==
  /\ pc = "ensure"
  /\ ~app_wifi_module_ready
  /\ RetryReached
  /\ InitModule("refresh")

EnsureSkips ==
  /\ pc = "ensure"
  /\ app_wifi_module_ready /\ app_wifi_connected
  /\ pc' = "process"
  /\ UNCHANGED <<now, wifiVars, app_sensors_ready, app_next_send_ms, mqttVars,
                 app_consecutive_failure_count, joined, healthy, rested>>

\* WifiService_Connect may report an error after the module has joined (its
\* second half only reads the network settings).
EnsureConnect ==
  /\ pc = "ensure"
  /\ app_wifi_module_ready /\ ~app_wifi_connected
  /\ RetryReached
  /\ UNCHANGED <<app_sensors_ready, app_next_send_ms, healthy>>
  /\ \E d \in Durations :
       \/ /\ "wifi" \notin Down
          /\ joined' = TRUE
          /\ pc' = "local_ip"
          /\ Elapse(d)
          /\ UNCHANGED <<wifiVars, mqttVars, app_consecutive_failure_count>>
       \/ /\ Disturbed("wifi")
          /\ \E r \in RecoveryDurations :
               /\ RegisterFailure(d, r, {joined, TRUE}, "refresh")
               /\ ScheduleAfterFailure(d, r, TRUE)
               /\ MqttAfterFailure(d)

EnsureLocalIp ==
  /\ pc = "local_ip"
  /\ UNCHANGED <<app_sensors_ready, app_next_send_ms, healthy>>
  /\ \/ /\ app_wifi_connected' = TRUE
        /\ pc' = "process"
        /\ UNCHANGED <<now, rested, app_wifi_module_ready, app_next_retry_ms,
                       mqttVars, app_consecutive_failure_count, joined>>
     \/ /\ Disturbed("wifi")
        /\ \E d \in Durations, r \in RecoveryDurations :
             /\ RegisterFailure(d, r, JoinedAfterTeardown, "refresh")
             /\ ScheduleAfterFailure(d, r, TRUE)
             /\ MqttAfterFailure(d)

-----------------------------------------------------------------------------
(* MqttClient_Process, HandleWakeCommand and the acknowledgement. *)

MqttRetryReached == TimeReached(now, mqtt_next_retry_ms)

\* Disconnected and not yet time to retry.
ProcessWaits ==
  /\ pc = "process"
  /\ mqtt_state = "DISCONNECTED" /\ ~MqttRetryReached
  /\ pc' = "due"
  /\ UNCHANGED <<now, wifiVars, app_sensors_ready, app_next_send_ms, mqttVars,
                 app_consecutive_failure_count, joined, healthy, rested>>

\* Connected and nothing to act on: a PINGREQ if one is due, and a poll that
\* brings nothing, an acknowledgement, or an error, which is ignored.
ProcessQuiet ==
  /\ pc = "process"
  /\ mqtt_state = "CONNECTED"
  /\ pc' = "due"
  /\ \E d \in Durations : Elapse(d)
  /\ UNCHANGED <<wifiVars, app_sensors_ready, app_next_send_ms, mqttVars,
                 app_consecutive_failure_count, joined, healthy>>

\* Open, CONNECT, CONNACK, SUBSCRIBE, SUBACK.
ProcessConnects ==
  /\ pc = "process"
  /\ mqtt_state = "DISCONNECTED" /\ MqttRetryReached
  /\ PeerWorks("mqtt")
  /\ mqtt_state' = "CONNECTED"
  /\ pc' = "due"
  /\ \E d \in Durations : Elapse(d)
  /\ UNCHANGED <<wifiVars, app_sensors_ready, app_next_send_ms, joined,
                 mqtt_next_retry_ms, app_consecutive_failure_count, healthy>>

\* A step of the bring-up or a PINGREQ fails: MqttClient_Process reports it
\* and App_Loop counts it.
ProcessFails ==
  /\ pc = "process"
  /\ mqtt_state = "CONNECTED" \/ MqttRetryReached
  /\ PeerFails("mqtt")
  /\ \E d \in Durations, r \in RecoveryDurations :
       /\ ScheduleReconnect(Later(now, d))
       /\ RegisterFailure(d, r, {joined}, "due")
       /\ ScheduleAfterFailure(d, r, FALSE)
  /\ UNCHANGED <<app_sensors_ready, app_next_send_ms, healthy>>

\* A packet that does not parse ends the session, and is not reported.
ProcessMalformed ==
  /\ pc = "process"
  /\ mqtt_state = "CONNECTED"
  /\ joined /\ Disturbed("mqtt")
  /\ pc' = "due"
  /\ \E d \in Durations : Elapse(d) /\ ScheduleReconnect(now')
  /\ UNCHANGED <<wifiVars, app_sensors_ready, app_next_send_ms, joined,
                 app_consecutive_failure_count, healthy>>

\* A PUBLISH whose payload is "wake": the callback runs inside the client.
ProcessWake ==
  /\ pc = "process"
  /\ mqtt_state = "CONNECTED"
  /\ PeerWorks("mqtt")
  /\ pc' = "wake"
  /\ \E d \in Durations : Elapse(d)
  /\ UNCHANGED <<wifiVars, app_sensors_ready, app_next_send_ms, mqttVars,
                 app_consecutive_failure_count, joined, healthy>>

HandleWakeCommand ==
  /\ pc = "wake"
  /\ UNCHANGED <<app_sensors_ready, app_next_send_ms, healthy>>
  /\ \E d \in Durations :
       \/ /\ PeerWorks("wol")
          /\ app_consecutive_failure_count' = 0
          /\ pc' = "ack"
          /\ Elapse(d)
          /\ UNCHANGED <<wifiVars, mqttVars, joined>>
       \/ /\ PeerFails("wol")
          /\ \E r \in RecoveryDurations :
               /\ RegisterFailure(d, r, {joined}, "ack")
               /\ ScheduleAfterFailure(d, r, FALSE)
               /\ MqttAfterFailure(d)

\* The end of HandlePublish: a QoS 1 publish is acknowledged, and failing to
\* do so ends the session.  MqttClient_Process returns OK either way.
SendPubAck ==
  /\ pc = "ack"
  /\ pc' = "due"
  /\ \E d \in Durations :
       /\ Elapse(d)
       /\ \/ UNCHANGED mqttVars
          \/ PeerFails("mqtt") /\ ScheduleReconnect(now')
  /\ UNCHANGED <<wifiVars, app_sensors_ready, app_next_send_ms, joined,
                 app_consecutive_failure_count, healthy>>

-----------------------------------------------------------------------------
(* SendTelemetryCycle. *)

\* Mutant: telemetry waits for the broker.
SendNeedsBroker ==
  mqtt_state = "CONNECTED" /\ TimeReached(now, app_next_send_ms)

SendReached == TimeReached(now, app_next_send_ms)

CheckDue ==
  /\ pc = "due"
  /\ pc' = IF SendReached THEN "measure" ELSE "refresh"
  /\ UNCHANGED <<now, wifiVars, app_sensors_ready, app_next_send_ms, mqttVars,
                 app_consecutive_failure_count, joined, healthy, rested>>

Measure ==
  /\ pc = "measure"
  /\ UNCHANGED healthy
  /\ \E d \in Durations :
       \/ /\ app_sensors_ready \/ "sensors" \notin Down
          /\ app_sensors_ready' = TRUE
          /\ pc' = "send"
          /\ Elapse(d)
          /\ UNCHANGED <<wifiVars, app_next_send_ms, mqttVars, joined,
                         app_consecutive_failure_count>>
       \/ /\ ~app_sensors_ready
          /\ Disturbed("sensors")
          /\ \E r \in RecoveryDurations :
               /\ RegisterFailure(d, r, {joined}, "refresh")
               /\ ScheduleAfterFailure(d, r, FALSE)
               /\ MqttAfterFailure(d)
          /\ app_next_send_ms' = ScheduleNextSend(now')
          /\ UNCHANGED app_sensors_ready

\* ApiClient_SendTelemetry answered with an HTTP 200.
SendSucceeds ==
  /\ pc = "send"
  /\ PeerWorks("api")
  /\ app_consecutive_failure_count' = 0
  /\ pc' = "refresh"
  /\ \E d \in Durations : Elapse(d)
  /\ app_next_send_ms' = ScheduleNextSend(now')
  /\ UNCHANGED <<wifiVars, app_sensors_ready, mqttVars, joined, healthy>>

SendFails ==
  /\ pc = "send"
  /\ PeerFails("api")
  /\ \E d \in Durations, r \in RecoveryDurations :
       /\ RegisterFailure(d, r, {joined}, "refresh")
       /\ ScheduleAfterFailure(d, r, FALSE)
       /\ MqttAfterFailure(d)
  /\ app_next_send_ms' = ScheduleSendRetry(now')
  /\ UNCHANGED <<app_sensors_ready, healthy>>

-----------------------------------------------------------------------------
(* The end of a pass, and the restart of the MCU. *)

\* SystemHealth_WatchdogRefresh, HAL_Delay and back to the top of main's loop.
Refresh ==
  /\ pc = "refresh"
  /\ pc' = "ensure"
  /\ Elapse(LoopDelay)
  /\ UNCHANGED <<wifiVars, app_sensors_ready, app_next_send_ms, mqttVars,
                 app_consecutive_failure_count, joined, healthy>>

\* Every static variable is initialised afresh and the tick restarts.  The
\* module is powered separately and stays joined.
Boot ==
  /\ now' = 0
  /\ pc' = "init"
  /\ app_wifi_connected' = FALSE
  /\ app_wifi_module_ready' = FALSE
  /\ app_sensors_ready' = FALSE
  /\ app_next_send_ms' = 0
  /\ app_next_retry_ms' = 0
  /\ app_consecutive_failure_count' = 0
  /\ mqtt_state' = "DISCONNECTED"
  /\ mqtt_next_retry_ms' = 0
  /\ rested' = RetryInterval
  /\ UNCHANGED <<joined, healthy>>

\* SystemHealth_RequestReset at the end of RequestSystemReset.
SystemReset == pc = "reset" /\ Boot

-----------------------------------------------------------------------------
(* The environment. *)

\* Power loss, brown-out, reset pin or independent watchdog, at any point.
Restart == Disturbed("power") /\ Boot

\* The access point or the association is lost; nobody tells the firmware.
LinkLost ==
  /\ joined /\ Disturbed("link")
  /\ joined' = FALSE
  /\ UNCHANGED <<now, pc, wifiVars, app_sensors_ready, app_next_send_ms, mqttVars,
                 app_consecutive_failure_count, healthy, rested>>

BecomeHealthy ==
  /\ ~healthy
  /\ healthy' = TRUE
  /\ UNCHANGED <<now, pc, wifiVars, app_sensors_ready, app_next_send_ms, mqttVars,
                 app_consecutive_failure_count, joined, rested>>

-----------------------------------------------------------------------------
Init ==
  /\ now = 0
  /\ pc = "init"
  /\ app_wifi_connected = FALSE
  /\ app_wifi_module_ready = FALSE
  /\ app_sensors_ready = FALSE
  /\ app_next_send_ms = 0
  /\ app_next_retry_ms = 0
  /\ app_consecutive_failure_count = 0
  /\ mqtt_state = "DISCONNECTED"
  /\ mqtt_next_retry_ms = 0
  /\ joined = FALSE
  /\ healthy = FALSE
  /\ rested = RetryInterval

EnsureWifiConnected ==
  EnsureWaits \/ EnsureModule \/ EnsureSkips \/ EnsureConnect \/ EnsureLocalIp

MqttClient_Process ==
  \/ ProcessWaits \/ ProcessQuiet \/ ProcessConnects \/ ProcessFails
  \/ ProcessMalformed \/ ProcessWake \/ HandleWakeCommand \/ SendPubAck

SendTelemetryCycle == CheckDue \/ Measure \/ SendSucceeds \/ SendFails

Program ==
  \/ InitSensors \/ InitWifi
  \/ EnsureWifiConnected \/ MqttClient_Process \/ SendTelemetryCycle
  \/ Refresh \/ SystemReset

Environment == Restart \/ LinkLost \/ BecomeHealthy

Next == Program \/ Environment

Spec == Init /\ [][Next]_vars

\* The processor keeps running: the program is one thread that always has a
\* next step, and nothing is assumed of the environment.
FairSpec == Spec /\ WF_vars(Program)

-----------------------------------------------------------------------------
(* Properties. *)

\* A session of the MQTT client is only ever trusted over a link the
\* application trusts, and that link only over an initialised module: however
\* a failure arises - even inside the wake callback, while HandlePublish still
\* runs - RecoverWifi drops all three (app.c:100-116).
SessionNeedsWifi ==
  /\ mqtt_state = "CONNECTED" => app_wifi_connected
  /\ app_wifi_connected => app_wifi_module_ready

\* The signed tick comparison never mistakes an overdue deadline for a distant
\* one: whenever a deadline is consulted, the firmware has at most one interval
\* left to wait, however long the deadline was not looked at (app.c:69-72,
\* mqtt_client.c:28-31).
WaitBounded ==
  /\ pc = "ensure" /\ ~app_wifi_connected =>
       Remaining(now, app_next_retry_ms) <= RetryInterval
  /\ pc = "process" /\ mqtt_state = "DISCONNECTED" =>
       Remaining(now, mqtt_next_retry_ms) <= MqttRetryInterval
  /\ pc = "due" => Remaining(now, app_next_send_ms) <= SendInterval

\* The module is left alone for RetryInterval after every failed bring-up and
\* every teardown, whichever path scheduled it (app.c:74-77, 115).
RetryPaced ==
  pc = "ensure" /\ ~app_wifi_connected /\ RetryReached => rested >= RetryInterval

\* app.c's policy is Escalation's.
Policy == INSTANCE Escalation WITH
  failures <- app_consecutive_failure_count,
  link <- app_wifi_connected

\* Failures escalate to a recovery at each RecoveryThreshold-th and to a reset
\* at the ResetThreshold-th, the link is given up for no other reason, and only
\* a success forgives (app.c:118-146).
EscalationPolicy == Policy!Spec

\* Once the environment is quiet, telemetry is delivered again and again: from
\* any state a fault can leave behind, the recovery loop gets out (README,
\* "Self-Healing Behavior").
SelfHealing == <>[]healthy => []<><<SendSucceeds>>_vars

\* Once the environment is quiet the device listens for wake commands again
\* and again: a session lost unnoticed with the link is found out and replaced
\* (mqtt_client.c:378-421 under app.c:338-359).
ListensAgain == <>[]healthy => []<>(mqtt_state = "CONNECTED" /\ joined)

\* Recovery is a clean reconnection (README.md:234): nothing is sent over the
\* link between the teardown and the next bring-up.
SendsOnlyWhenConnected == pc = "send" => app_wifi_connected
=============================================================================
