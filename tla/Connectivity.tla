---------------------------- MODULE Connectivity ----------------------------
(***************************************************************************)
(* The four users of the Wi-Fi driver over EsWifi: bring-up and recovery   *)
(* (app.c), the API client (api_client.c), the MQTT client's session       *)
(* socket (mqtt_client.c) and the Wake-on-LAN sender (wol.c).  Each is a   *)
(* list of driver calls with its own way out of a failed one; they share   *)
(* the module's three sockets, the count of consecutive failures and the   *)
(* recovery it triggers.                                                   *)
(*                                                                         *)
(* A pass of App_Loop goes through the points ensure, process, poll,       *)
(* (puback) and due; a job is what is done at a point.  Timers are left to *)
(* App and MqttClient: here a retry, a ping or a send may be due or not.   *)
(***************************************************************************)
EXTENDS EsWifi

CONSTANTS
  RecoveryThreshold,  \* APP_WIFI_RECOVERY_FAILURE_THRESHOLD
  ResetThreshold,     \* APP_SYSTEM_RESET_FAILURE_THRESHOLD
  WakesGoOn           \* wake commands still come when the environment is calm

ASSUME ConnectivityAssumption ==
  /\ {RecoveryThreshold, ResetThreshold} \subseteq Nat \ {0}
  /\ WakesGoOn \in BOOLEAN

VARIABLES
  pass,         \* the point of App_Loop reached, or to go on from
  job, at,      \* the job in progress and the call it has reached
  failed,       \* the job has failed
  app_wifi_module_ready, app_wifi_connected, app_local_ip,
  app_consecutive_failure_count,
  mqtt_connected   \* mqtt_state = MQTT_STATE_CONNECTED

flags == <<app_wifi_module_ready, app_wifi_connected, app_local_ip, mqtt_connected>>
jobVars == <<pass, job, at, failed>>
programVars == <<jobVars, flags, app_consecutive_failure_count>>
vars == <<driverVars, moduleVars, late, ghosts, calm, programVars>>

\* The calls of each job, in the order they are made when all goes well.
RecoverWifi ==
  <<Call("Close", Api), Call("Close", Mqtt), Call("Disconnect", Api),
    Call("ResetModule", Api)>>

ApiClient_SendTelemetry ==
  <<Call("OpenTcp", Api), Call("Send", Api), Call("Receive", Api), Call("Close", Api)>>

Wol_SendMagicPacket == <<Call("OpenUdp", Wol), Call("Send", Wol), Call("Close", Wol)>>

ConnectAndSubscribe ==
  <<Call("OpenTcp", Mqtt), Call("Send", Mqtt), Call("Receive", Mqtt),
    Call("Send", Mqtt), Call("Receive", Mqtt)>>

ScheduleReconnect == <<Call("Close", Mqtt)>>

Plan == [
  init         |-> <<Call("Init", Api)>>,
  connect      |-> <<Call("Connect", Api)>>,
  recover      |-> RecoverWifi,
  telemetry    |-> ApiClient_SendTelemetry,
  wake         |-> Wol_SendMagicPacket,
  mqtt         |-> ConnectAndSubscribe,
  ping         |-> <<Call("Send", Mqtt)>>,
  poll         |-> <<Call("Receive", Mqtt)>>,
  puback       |-> <<Call("Send", Mqtt)>>,
  mqtt_failed  |-> ScheduleReconnect,
  mqtt_dropped |-> ScheduleReconnect]

TypeOK ==
  /\ DriverTypeOK /\ ModuleTypeOK
  /\ pass \in {"ensure", "process", "poll", "puback", "due"}
  /\ job \in DOMAIN Plan \cup {"none"}
  /\ at \in 0 .. 5
  /\ failed \in BOOLEAN
  /\ {app_wifi_module_ready, app_wifi_connected, mqtt_connected} \subseteq BOOLEAN
  /\ app_local_ip \in Networks \cup {NoNetwork}
  /\ app_consecutive_failure_count \in 0 .. ResetThreshold - 1

Idle == job = "none" /\ call = NoCall
Returned == job # "none" /\ call = NoCall

-----------------------------------------------------------------------------
(* A job from call to call. *)

Start(name) == job' = name /\ at' = 1 /\ failed' = FALSE
             /\ StartCall(Plan[name][1].op, Plan[name][1].socket)

\* Mutant: a failed exchange leaves the connection open.
LeaveAtOnce == Len(Plan[job]) + 1

\* ApiClient_SendTelemetry and Wol_SendMagicPacket close the socket after any
\* failure but that of the open.
CallAfterFailure ==
  IF job = "recover" THEN at + 1
  ELSE IF job \in {"telemetry", "wake"} /\ 1 < at /\ at < Len(Plan[job])
  THEN Len(Plan[job])
  ELSE Len(Plan[job]) + 1

\* Mutant: a request that went out is taken for delivered.
SentIsEnough == ret = "ERROR"

\* A reply that is not the expected one is a failure like any other.
CallFailed ==
  \/ ret = "ERROR"
  \/ Plan[job][at].op = "Receive" /\ job # "poll" /\ data # "expected"

NextCall == IF CallFailed THEN CallAfterFailure ELSE at + 1

\* The status of a closing call is not looked at.
JobFailed == failed \/ (CallFailed /\ job # "recover" /\ Plan[job][at].op # "Close")

Continue ==
  /\ Returned /\ NextCall <= Len(Plan[job])
  /\ at' = NextCall
  /\ failed' = JobFailed
  /\ StartCall(Plan[job][NextCall].op, Plan[job][NextCall].socket)
  /\ UNCHANGED <<moduleVars, late, ghosts, calm>>
  /\ UNCHANGED <<pass, job, flags, app_consecutive_failure_count>>

\* The job is over and has failed or not.
Over(name, outcome) ==
  /\ Returned /\ job = name
  /\ NextCall > Len(Plan[job])
  /\ JobFailed = outcome
  /\ accepted' = FALSE /\ astray' = FALSE
  /\ UNCHANGED <<moduleVars, late, clean, leaked, calm>>

Finish ==
  /\ job' = "none" /\ at' = 0 /\ failed' = FALSE
  /\ ret' = "OK" /\ data' = "none"
  /\ UNCHANGED <<call, step, IsConnected, IP_Addr>>

-----------------------------------------------------------------------------
(* Failures and successes. *)

\* Mutant: the count starts over with every failure.
CountsOne == 1

FailureCount == app_consecutive_failure_count + 1

\* SystemHealth_RequestReset, or a reset from outside, the watchdog's included:
\* the program starts afresh, the module does not notice.
Restarted ==
  /\ pass' = "ensure" /\ job' = "none" /\ at' = 0 /\ failed' = FALSE
  /\ app_wifi_module_ready' = FALSE /\ app_wifi_connected' = FALSE
  /\ app_local_ip' = NoNetwork /\ mqtt_connected' = FALSE
  /\ app_consecutive_failure_count' = 0
  /\ call' = NoCall /\ step' = 1 /\ ret' = "OK" /\ data' = "none"
  /\ IsConnected' = FALSE /\ IP_Addr' = NoNetwork

\* Mutant: the failures before this one.
RecoversLate == app_consecutive_failure_count % RecoveryThreshold = 0

Recovers == FailureCount % RecoveryThreshold = 0

\* Mutant: off by one.
ExhaustedLate == FailureCount > ResetThreshold

Exhausted == FailureCount >= ResetThreshold

\* RegisterFailure.  The pass goes on at next; session is what the caller has
\* left of the MQTT session.
RegisterFailure(next, session) ==
  \/ Exhausted /\ Restarted
  \/ /\ ~Exhausted
     /\ app_consecutive_failure_count' = FailureCount
     /\ pass' = next
     /\ mqtt_connected' = (session /\ ~Recovers)
     /\ IF Recovers THEN Start("recover") ELSE Finish
     /\ UNCHANGED <<app_wifi_module_ready, app_wifi_connected, app_local_ip>>

\* RegisterSuccess.
RegisterSuccess(next) ==
  /\ app_consecutive_failure_count' = 0
  /\ pass' = next
  /\ Finish
  /\ UNCHANGED flags

-----------------------------------------------------------------------------
(* EnsureWifiConnected. *)

\* A job is started from a point of the pass.
Begin(point, name, next) ==
  /\ Idle /\ pass = point
  /\ Start(name)
  /\ pass' = next
  /\ UNCHANGED <<moduleVars, late, ghosts, calm, flags, app_consecutive_failure_count>>

\* The pass goes on without one.
Skip(point, next) ==
  /\ Idle /\ pass = point
  /\ pass' = next
  /\ UNCHANGED <<driverVars, moduleVars, late, ghosts, calm, job, at, failed, flags,
                 app_consecutive_failure_count>>

EnsureModule == ~app_wifi_module_ready /\ Begin("ensure", "init", "ensure")

EnsureConnect ==
  /\ app_wifi_module_ready /\ ~app_wifi_connected
  /\ Begin("ensure", "connect", "ensure")

EnsureSkips ==
  /\ app_wifi_module_ready /\ app_wifi_connected
  /\ Skip("ensure", "process")

ModuleInitialized ==
  /\ Over("init", FALSE)
  /\ app_wifi_module_ready' = TRUE
  /\ Finish
  /\ UNCHANGED <<pass, app_wifi_connected, app_local_ip, mqtt_connected,
                 app_consecutive_failure_count>>

\* WifiService_GetLocalIp cannot fail here: the join has just set IsConnected.
Connected ==
  /\ Over("connect", FALSE)
  /\ app_wifi_connected' = IsConnected
  /\ app_local_ip' = IF IsConnected THEN IP_Addr ELSE app_local_ip
  /\ pass' = "process"
  /\ Finish
  /\ UNCHANGED <<app_wifi_module_ready, mqtt_connected, app_consecutive_failure_count>>

EnsureFails ==
  /\ Over("init", TRUE) \/ Over("connect", TRUE)
  /\ RegisterFailure("ensure", mqtt_connected)

Recovered ==
  /\ Over("recover", FALSE)
  /\ app_wifi_module_ready' = FALSE /\ app_wifi_connected' = FALSE
  /\ Finish
  /\ UNCHANGED <<pass, app_local_ip, mqtt_connected, app_consecutive_failure_count>>

-----------------------------------------------------------------------------
(* MqttClient_Process and the wake callback. *)

ProcessConnects == ~mqtt_connected /\ Begin("process", "mqtt", "due")
ProcessWaits == ~mqtt_connected /\ Skip("process", "due")
ProcessPings == mqtt_connected /\ Begin("process", "ping", "poll")
ProcessSkipsPing == mqtt_connected /\ Skip("process", "poll")
Poll == Begin("poll", "poll", "due")

SessionOpened ==
  /\ Over("mqtt", FALSE)
  /\ mqtt_connected' = TRUE
  /\ Finish
  /\ UNCHANGED <<pass, app_wifi_module_ready, app_wifi_connected, app_local_ip,
                 app_consecutive_failure_count>>

\* A job over without consequence for flags or count.
OverQuietly(name, outcome) ==
  /\ Over(name, outcome)
  /\ Finish
  /\ UNCHANGED <<pass, flags, app_consecutive_failure_count>>

\* ScheduleReconnect, after which MqttClient_Process returns next.
GiveUpSession(name, outcome, next) ==
  /\ Over(name, outcome)
  /\ mqtt_connected' = FALSE
  /\ Start(next)
  /\ pass' = "due"
  /\ UNCHANGED <<app_wifi_module_ready, app_wifi_connected, app_local_ip,
                 app_consecutive_failure_count>>

MqttFails ==
  GiveUpSession("mqtt", TRUE, "mqtt_failed") \/ GiveUpSession("ping", TRUE, "mqtt_failed")

ProcessFails == Over("mqtt_failed", FALSE) /\ RegisterFailure("due", FALSE)

\* What the poll brought may be a wake command; one of QoS 1 is acknowledged
\* after the callback.
WakeArrives ==
  /\ Over("poll", FALSE)
  /\ data = "expected" /\ (~calm \/ WakesGoOn)
  /\ Start("wake")
  /\ pass' \in {"puback", "due"}
  /\ UNCHANGED <<flags, app_consecutive_failure_count>>

WakeSucceeds == Over("wake", FALSE) /\ RegisterSuccess(pass)
WakeFails == Over("wake", TRUE) /\ RegisterFailure(pass, mqtt_connected)

\* Or an unsupported command of QoS 1, which is acknowledged all the same.
IgnoredCommand ==
  /\ Over("poll", FALSE)
  /\ data = "expected"
  /\ pass' = "puback"
  /\ Finish
  /\ UNCHANGED <<flags, app_consecutive_failure_count>>

\* Or something that ReadRemainingLength or HandlePublish finds malformed.
MalformedPacket == data = "other" /\ GiveUpSession("poll", FALSE, "mqtt_dropped")

SendPubAck == Begin("puback", "puback", "due")
PubAckFails == GiveUpSession("puback", TRUE, "mqtt_dropped")

\* Or a packet, or a piece of one, that asks for nothing; or nothing.
QuietEnd ==
  \/ OverQuietly("ping", FALSE) \/ \E outcome \in BOOLEAN : OverQuietly("poll", outcome)
  \/ OverQuietly("puback", FALSE) \/ OverQuietly("mqtt_dropped", FALSE)

-----------------------------------------------------------------------------
(* SendTelemetryCycle. *)

StartTelemetry == Begin("due", "telemetry", "ensure")
SkipTelemetry == Skip("due", "ensure")
TelemetrySucceeds == Over("telemetry", FALSE) /\ RegisterSuccess("ensure")
TelemetryFails == Over("telemetry", TRUE) /\ RegisterFailure("ensure", mqtt_connected)

-----------------------------------------------------------------------------
(* The whole. *)

DriverStep == Driver /\ UNCHANGED programVars

Program ==
  \/ EnsureModule \/ EnsureConnect \/ EnsureSkips \/ ModuleInitialized \/ Connected
  \/ EnsureFails \/ Recovered
  \/ ProcessConnects \/ ProcessWaits \/ ProcessPings \/ ProcessSkipsPing \/ Poll
  \/ SessionOpened \/ MqttFails \/ ProcessFails
  \/ WakeArrives \/ WakeSucceeds \/ WakeFails \/ IgnoredCommand \/ MalformedPacket
  \/ SendPubAck \/ PubAckFails \/ QuietEnd
  \/ StartTelemetry \/ SkipTelemetry \/ TelemetrySucceeds \/ TelemetryFails
  \/ Continue \/ DriverStep

Restart ==
  /\ Wrong("restart")
  /\ Restarted
  /\ accepted' = FALSE /\ astray' = FALSE
  /\ UNCHANGED <<moduleVars, late, clean, leaked, calm>>

ModuleStep == (LinkLost \/ Answers \/ BecomeCalm) /\ UNCHANGED programVars

Init ==
  /\ DriverInit /\ ModuleInit
  /\ pass = "ensure" /\ job = "none" /\ at = 0 /\ failed = FALSE
  /\ app_wifi_module_ready = FALSE /\ app_wifi_connected = FALSE
  /\ app_local_ip = NoNetwork /\ mqtt_connected = FALSE
  /\ app_consecutive_failure_count = 0

Next == Program \/ Restart \/ ModuleStep

Spec == Init /\ [][Next]_vars

\* The thread goes on, and telemetry falls due again and again.
FairSpec == Spec /\ WF_vars(Program) /\ SF_vars(StartTelemetry)

-----------------------------------------------------------------------------
(* Properties. *)

\* SendTelemetryCycle counts a success only if the server accepted this very
\* request: not for a request cut short, an earlier request's late answer, or
\* another command's answer (api_client.c:217-240, app.c:276-285); unless a late
\* OK was read for a command of this very request that was not carried out.
ReportedIsAccepted ==
  Returned /\ job = "telemetry" /\ NextCall > Len(Plan[job]) /\ ~JobFailed =>
    accepted \/ astray

\* The address the board relies on, in its payload and for the broadcast that
\* wakes the PC, is that of the network it is in, although IsConnected goes on
\* claiming a connection once there has been one (app.c:205, es_wifi.c:839) and
\* an address once read stays in NetSettings.  That holds as long as every
\* command was answered since the module's reset; a join one answer behind takes
\* another answer for that to C? and leaves the address as it was before.
AddressCurrent ==
  app_wifi_connected /\ Associated /\ clean => app_local_ip = joined

\* As long as every command was answered since the module's reset and no close
\* was refused, every socket is closed that is not in use, whichever other step
\* of an exchange was refused (api_client.c:217-245, wol.c:71-90,
\* mqtt_client.c:33-38).
SocketsReturned ==
  Idle /\ clean /\ ~leaked /\ app_wifi_module_ready =>
    open \subseteq (IF mqtt_connected THEN {Mqtt} ELSE {})

\* What the driver sends and reads goes through the socket it was asked to use,
\* whatever is unanswered, refused or answered late; unless a late OK was read
\* for a command of the same job that was not carried out (es_wifi.c:1598-1669).
OwnSocket ==
  [][(Exchange \/ Unanswered) /\ Command \in {"S3", "R0", "P6=0", "P6=1"} =>
       selected = call.socket \/ astray]_vars

\* The policy of Escalation.  A recovery in progress has given the link up: its
\* flag is cleared last (app.c:100-116).
Policy == INSTANCE Escalation WITH
  failures <- app_consecutive_failure_count,
  link <- app_wifi_connected /\ job # "recover"

\* With every driver call a step of its own, and restarts at any command, each
\* RecoveryThreshold-th failure in a row of whichever service takes the link
\* down, nothing else but a restart does, and only a success or a restart
\* forgives (app.c:100-146).
EscalationPolicy == Policy!Spec

\* However the sockets and the module were left, when the environment is calm
\* telemetry gets through again and again (README.md:228-236).
TelemetryHeals ==
  <>[]calm => []<>(Returned /\ job = "telemetry" /\ NextCall > Len(Plan[job]) /\ ~JobFailed)

\* When the environment is calm and wake commands keep coming, the magic packet
\* is sent again and again (README.md:125).
WakesHeal ==
  <>[]calm /\ []<>(job = "wake") =>
    []<>(Returned /\ job = "wake" /\ NextCall > Len(Plan[job]) /\ ~JobFailed)
=============================================================================
