# A verification of the weather-station firmware

TLA+ specifications, TLC configurations and TLAPS proofs for the firmware under
`src/`: an STM32L475 board that posts temperature, humidity and pressure to an
HTTP endpoint, keeps an MQTT session in order to wake a PC on the local network,
and tries to survive every failure unattended.

## The system

The firmware has one thread, `main`'s endless loop over `App_Loop`. Interrupts
only advance the millisecond tick and move SPI data. What makes it hard is not
parallel code but the environment - access point, broker, server, module,
watchdog and power, each of which may change between any two statements of the
loop - and the way one failure path is entered from another.

| Component | State | Operations | Interacts with |
|---|---|---|---|
| Super-loop, `app.c` | `app_wifi_connected`, `app_wifi_module_ready`, `app_sensors_ready`, two deadlines, `app_consecutive_failure_count`, statistics | `App_Init`, `App_Loop` (bring-up, MQTT, telemetry, refresh), `RegisterFailure`/`Success`, `RecoverWifi`, `RequestSystemReset` | calls everything below; called back by the MQTT client |
| MQTT client, `mqtt_client.c` | session state, retry deadline, time of the last packet, packet identifier | `Process` (connect, ping, poll, dispatch), `Reset`, the wake callback | socket 1 of the module, the broker; `RecoverWifi` resets it |
| System health, `system_health.c` | reset reason, whether the IWDG runs | `Init`, `WatchdogRefresh`, `RequestReset` | reset controller, IWDG, fault handlers |
| Wi-Fi service, `wifi_service.c` | none | one wrapper per call, a status reduced to OK or ERROR | driver |
| Driver, `wifi.c`, `es_wifi.c` | `NetSettings` with `IsConnected`, the AT buffer | init, join, disconnect, module reset, sockets: each a script of AT commands | SPI transport, ISM43362 module, whose association, socket selection and open sockets it shares with every caller |
| SPI transport, `es_wifi_io.c` | SPI handle | send and receive in words of two bytes, module reset | module |
| API client, `api_client.c` | none | `SendTelemetry`: open, send, receive, close on socket 0 | driver, server |
| Wake-on-LAN, `wol.c` | none | `SendMagicPacket`: open, send, close on socket 2 | driver |
| Telemetry, `telemetry.c` and BSP | sensor objects | init, five samples averaged | I2C |
| Log, peripheral set-up, HAL | - | - | - |

Hard behaviours, and what has to be right about them:

* *Escalation.* Failures of unrelated services share one count. Each third must
  recover the link, the twelfth must reset the MCU, a success must forgive -
  also when the failure happens inside the wake callback, with `HandlePublish`
  still on the stack.
* *Consistency of three views of the link.* The application's flags, the MQTT
  client's state and the module's association change in different places; errors
  of the teardown are ignored; nobody reports that the access point has gone.
* *Time.* Deadlines are compared with `(int32_t)(now - t) >= 0` on a tick that
  wraps after 49.7 days, and some are left alone for a long time.
* *Getting out again.* From every combination of flags, deadlines and module
  state that failures and restarts leave behind.
* *The wire.* Lost connections, failed calls, several packets in one buffer.
* *One module for all.* Three services share its sockets and the one that is
  selected. Its answers carry no name, so one that comes late is read as the answer
  to another command, one that was lost included; it is reset by a recovery but not by
  an MCU reset; and what a caller does not close, or fails to close, stays open.
* *Bytes.* Payload and trailer arrive as one stream cut into words and chunks; a
  packet's lengths are the sender's claim, and the sums over them are sixteen bits wide.
* *The last resort.* Reset flags that accumulate, a reset in the middle of
  `SystemHealth_Init`, a watchdog that may not have started or not have taken its
  prescaler, and that is fed once a pass, however long the pass.

## Modules

`Ticks` - the 32-bit tick. `HalfRange` is 2^31 in the firmware; a small value lets
TLC walk the clock round. Modular sums are written with a conditional
subtraction, which is the same function for increments below the modulus and is
what the prover's arithmetic can follow.

`Escalation` - the abstract policy: a failure count and whether the application
relies on the link. No clock, module or sockets.

`WakeTopic` - what the MQTT client promises of wake commands: published, on their way,
acted on, acknowledged. No session, packets or clock. Any of them may be lost, since a
session begins clean and nothing is kept for it; none is acted on twice or after a
later one, or acknowledged before.

`App` - `app.c` (with the effect of `MqttClient_Process` on the state the two share).
`pc` names the point the thread has reached; an action is what happens from one
point to the next, every call included:

| Actions | Code |
|---|---|
| `InitSensors`, `InitWifi`, `Boot` | `App_Init` 290-336 |
| `EnsureWaits`, `EnsureModule`, `EnsureSkips`, `EnsureConnect`, `EnsureLocalIp` | `EnsureWifiConnected` 163-224 |
| `ProcessWaits`, `ProcessConnects`, `ProcessFails`, `ProcessQuiet`, `ProcessMalformed`, `ProcessWake`, `SendPubAck` | `MqttClient_Process` and the failure it returns, `App_Loop` 347-350 |
| `HandleWakeCommand` | 40-52, run between `ProcessWake` and `SendPubAck` |
| `CheckDue`, `Measure`, `SendSucceeds`, `SendFails` | 352-355 and `SendTelemetryCycle` 226-288 |
| `Refresh`, `SystemReset` | 357-358; `RequestSystemReset` 89-98 |
| `Restart`, `LinkLost`, `BecomeHealthy` | the environment |

`RegisterFailure` (118-139) is an operator of every failing action and contains
`RecoverWifi`; the tick it leaves (`now`) is later by the failed call's time and the
recovery's, and each schedule is computed at the instant at which the code reads
the tick. `SystemHealth_RequestReset` does not return, so a failure that reaches the
threshold goes to `pc = "reset"`, from where only `SystemReset` leads on. Steps are
interleaved with the environment's, so the link may go or the power fail between
any two calls. Every call has the outcomes its service admits: one that is *flaky*
may fail until the environment becomes quiet, one that is *down* always fails.

`MqttClient` - `mqtt_client.c` against a broker, packet by packet: bring-up, pings,
polls that fail, packets lost or torn, several in one buffer, `MqttClient_Reset`
from outside and from within the wake callback, a broker that gives a silent
client up, a connection that dies unnoticed. A packet is its type, its QoS and the
number of the wake command it carries (0 for any other payload).

`SystemHealth` - `SystemHealth_Init` step by step, with either timeout of
`StartIndependentWatchdog` (no LSI: no watchdog; `SR` still busy: a watchdog that may
count to its default of half a second), the main loop as the watchdog sees it, passes
of any length, endless loops, and resets at any instant, from the application or outside.

`EsWifi` - the driver and the module, one AT command at a time. A driver call is a
script, named after the function it stands for; `Take` is the rule by which it goes
on or returns, `Execute` what the module does with a command. Any command may be
refused. It may be lost, or executed and not answered in time, and the answer to an
executed one may come after the driver has given up, to be read in place of the next
(`late`). Then the driver stays one answer behind until the module is reset or an answer
is missing once more: a command that is lost while an answer waits is taken for
answered (`Unanswered`). At most one answer waits, because the driver reads one after
every command. Three ghosts say what the answers were worth: `clean`, every command was
answered since the module's reset; `leaked`, the close of an open socket was refused;
`astray`, in the present job a late OK was read for a command that was not carried out.
`NetSettings` is what the driver remembers, `joined`, `selected` and `open` what is true.
The module is external: its part is written from the commands the driver sends and the
answers it looks for. Where that leaves a choice - whether an open socket may be opened
again - `Reopens` has both. `ResetPin` always pulses the pin: `HAL_SPI_Init`, which comes
before it (es_wifi_io.c:165-168), fails only when its handle is null, and the handle is
the address of a static variable.

`Connectivity` - the four users of the driver over `EsWifi`, composed: bring-up and
recovery, `ApiClient_SendTelemetry`, `ConnectAndSubscribe` with ping, poll and
acknowledgement, `Wol_SendMagicPacket`. Each job is a list of driver calls (`Plan`)
with its own way out of a failed one (`CallAfterFailure`), its end one of the actions
`Connected`, `TelemetryFails`, `WakeSucceeds` and so on, which contain
`RegisterFailure` and `RegisterSuccess` whole. What a poll brings may be a wake command of
either QoS, another command (`IgnoredCommand`, acknowledged if of QoS 1), something
malformed that ends the session (`MalformedPacket`), or nothing of note. A pass goes through the same points as in
`App`; time is left to `App` and `MqttClient`: a retry, a ping or a send may be due or
not. So `App` has the clocks and treats a service's call as one step, `Connectivity`
has the steps of the calls and no clock.

`MqttCodec` - remaining length, strings, whose length is cut to sixteen bits, and the
offsets of `HandlePublish` as operators over a packet's bytes. `Half` is 128 in the firmware; a smaller one makes lengths of
several bytes, and sums that wrap, short.

`Framing` - the way of the bytes: the words and chunks of `SPI_WIFI_ReceiveData`,
`ReceiveShortDataLen` and `ReceiveLongDataLen`, then what the client makes of the packet;
and the building of CONNECT and SUBSCRIBE. `MCFraming` gives it the text "wake".

`AppProofs` and `AppWaitProofs`, `SystemHealthProofs`, `MqttClientProofs` and
`KeepAliveProofs`, `FramingProofs` and `CodecProofs`, `ConnectivityProofs` - the theorems.

Three refinements:

* `App` implements `Escalation` (`EscalationPolicy`, with `failures <-
  app_consecutive_failure_count`, `link <- app_wifi_connected`).
* `Connectivity` implements it as well, with the commands of each call as its steps. There
  a recovery is a job of many steps, and the link counts as given up from its first
  (`link <- app_wifi_connected /\ job # "recover"`) although the code clears the flag last.
  The step to a reset, two in `App`, is one, so the policy's `GiveUp` does not occur.
* `MqttClient` implements `WakeTopic` (`WakesInOrder`); on their way are the commands in the
  module and the one the callback is about to get.

`App` and `MqttClient` share the session state: `App`'s `Process...` actions are
`MqttClient`'s actions seen from outside. Showing that as a refinement is left in
the plan.

## Runs

| Run | Shows | Bounds |
|---|---|---|
| `app_escalation` | `TypeOK`, `SessionNeedsWifi`, `RetryPaced`, `EscalationPolicy` with all services flaky and restarts anywhere | tick of 16, intervals 4/3/2/2, thresholds 2 and 4; 3.2 million states |
| `app_healing` | `SelfHealing`, `ListensAgain`, and `WaitBounded`: no deadline is left alone until the comparison inverts | tick of 16, calls take no time; 1.2 million states |
| `app_broker_outage` | `SelfHealing` with the firmware's own intervals and thresholds while no broker answers | one tick is 10 s: 30/6/3/3, thresholds 3 and 12, calls up to 10 s; 0.9 million states |
| `app_clean_reconnect` | violates `SendsOnlyWhenConnected` | the same scale |
| `mqtt_session` | `TypeOK`, `KeepAliveHonoured`, `WakesInOrder`, `Reconnects` with failing calls, lost and torn packets | tick of 8, ping interval 3, calls and the rest of a pass up to 1; two waiting packets, one wake command, QoS 0 and 1; 2.3 million states |
| `mqtt_coalesced` | violates `WakeReachesHandler` | no faults but two packets in one buffer |
| `mqtt_refused` | violates `ConnectedMeansSubscribed` | the broker may refuse |
| `health` | `TypeOK`, `ReasonTruthful`, `NoSpuriousReset`, `WatchedLoopEnds` | a watchdog period of 4, a default of 1, passes of up to 6 |
| `health_unwatched` | violates `StuckResets` | the same |
| `wifi_sockets` | `TypeOK`, `ReportedIsAccepted`, `AddressCurrent`, `SocketsReturned`, `OwnSocket`, `EscalationPolicy`, `TelemetryHeals` with commands refused, lost, unanswered or answered late, connections refused and lost, moves between networks, and restarts at every command | thresholds 2 and 4, two networks, either answer to opening an open socket; 0.6 million states |
| `wifi_wake_masked` | violates `WakesHeal` | one network, unanswered commands, a module that refuses to open an open socket |
| `framing` | `TypeOK`, `PayloadExact`, `WritesInBounds`, `ReadsInBounds`, `UnderstoodAsMeant`, `SentWellFormed` | every payload up to each length asked for; packets of up to 8 bytes whose first five after the header may be anything, the others 0 or 1; a byte of six values, a buffer of 28; 0.3 million states |

Why the bounds are enough. What the properties of `App` tell apart is the order of
deadlines, whether a count has reached a threshold, and whether an interval
straddles the wrap. The small tick wraps several times before a state repeats,
both thresholds are reached (the second through at least one recovery), and in
`app_escalation` each interval is a different number of ticks where a run could
confuse them. `app_healing` keeps the one ratio `WaitBounded` depends on: a reset
comes before failures have used up half the range. `app_broker_outage` needs the real ratios because its question is
whether the broker's 30 s retries and the 60 s send retries fall into step. Two
packets in the module are what coalescing and queueing need; one wake command is
enough for an acknowledgement to go wrong or for a command to be acted on twice, two for
one to be lost behind another (`mqtt_coalesced`); the order of any number is proved.
`TypeOK` bounds the inbox by `MaxInbox`: further answers of the broker are left out.
In `Connectivity` the three sockets and the scripts are the firmware's, one answer can be
late at a time because the driver reads one after every command, and two networks are
what it takes for an address to be stale. Its thresholds of 2 and 4 let a recovery, and
failures after it, come before a reset, as 3 and 12 do; the firmware's own are those of
`wifi_wake_masked` and `app_broker_outage`, and every safety property of the run is proved
for all. The passes of `health` are shorter than, as long as and longer than either
timeout of its watchdog. In
`framing`, `Half = 3` makes a length of two bytes begin at 3, and the 36 values of a
remaining length's digits and two-byte numbers go beyond the buffer, whose sums wrap in
16 bits at 36, as the lengths of the strings 36 and 38 are cut; five free bytes hold the longest remaining length and the first byte of a
topic's length. The trailer has its real eight bytes, and the lengths asked for lie on
both sides of it, odd and even.

Deadlock is checked in every passing run but `framing`, which ends when its packet has
been handled or built, and in `App`, `MqttClient`, `Connectivity` and `SystemHealth` the
loop always has a next step.

Fairness. `App` and `MqttClient` assume weak fairness of the program alone: the
thread has a next step at every point, so the processor takes it. Nothing is
assumed of the environment but the premise of the property, that it becomes quiet
for good (`<>[]healthy`, `<>[]calm`). `SystemHealth` assumes it of the hardware
only: the IWDG has its own clock and keeps counting whatever the program does.
`Connectivity` adds strong fairness of `StartTelemetry`: it has no clock, and a pass that
reaches `due` finds telemetry due again and again because the send interval elapses
(which `App` shows with the clock in it).

### What the violations say

* `app_clean_reconnect`. README.md:234 promises a clean reconnection. If the failure
  that triggers recovery is MQTT's, the pass goes on and telemetry that is due is
  sent through the module just torn down. That failure counts too. At the
  firmware's own intervals a broker that is down can so bring about an MCU reset
  although the API is reachable: the ninth MQTT failure since the last delivery
  meets a due send (the tenth failure, in the same pass), and two more MQTT retries
  make twelve before the send is retried. `app_broker_outage` shows that telemetry
  still recurs.
* `mqtt_coalesced`. Only the first packet of a receive buffer is dispatched
  (mqtt_client.c:302-334), so a wake command behind a PINGRESP or another publish is
  dropped while the session goes on (README.md:125).
* `mqtt_refused`. The SUBACK's return code is not read (mqtt_client.c:346), yet the
  log says "connected and subscribed" (mqtt_client.c:418).
* `health_unwatched`. README.md:232 says the board resets automatically when it
  blocks. If the LSI clock is late the IWDG is not started (system_health.c:69), and
  the firmware goes on without; it does report `watchdog_enabled` as 0.

* `wifi_wake_masked`. If the module executes `P6=1` but its answer does not arrive whole,
  `Wol_SendMagicPacket` returns without closing the socket (wol.c:67). Assuming that the
  module refuses to open an open socket, every later wake fails. The failures would
  bring a recovery, which resets the module, but each telemetry delivered in between
  clears the count they share (app.c:143). So while telemetry works the PC is not woken
  again (README.md:125, 230).

### What holds only under a condition

* `TelemetryHeals` is checked for an environment in which wake commands stop coming once it
  is calm (`WakesGoOn = FALSE`). With a Wake-on-LAN socket left open as above, wake commands
  that keep failing bring recovery after recovery, and nothing in a model without a clock
  excludes that each comes just before telemetry.
* `SocketsReturned` speaks of modules that answered every command since their reset and
  refused no close of an open socket (`clean /\ ~leaked`). After a missing answer a socket
  may be left open until the next open, close or recovery. A close that is refused
  is not tried again (api_client.c:245, wol.c:90, mqtt_client.c:37), so its socket stays
  open as long. `TelemetryHeals` is what is left.
* `AddressCurrent` speaks of modules that answered every command since their reset
  (`clean`). After a missing answer, while the driver is one answer behind, a join takes
  another answer for that to `C?`, finds no address in it and leaves `NetSettings` as it was:
  the board is then connected with the address of an earlier network, or with none,
  until the module is reset.
* `OwnSocket` and `ReportedIsAccepted` make an exception of a job that was led `astray`. A `P0`
  that is lost while a late OK is read leaves the selection with another's socket, and
  the request goes there; an `S3` so lost counts as sent. Nothing in the driver
  can tell (es_wifi.c:506-515).
* `KeepAliveHonoured` speaks of sessions that have so far gone smoothly (`smooth`): each pass
  took at most two thirds of the ping interval (a third of the keepalive, 20 s in the
  firmware), each poll emptied the module, and publishes came with QoS 1. Nothing in the
  code makes them so. An exchange with the API server in the same pass as a ping may
  take longer with its timeouts of 10 s each; then more answers may wait than the polls
  take, and with a queue long enough the broker gives the client up. Inbound QoS 0
  traffic restarts the ping timer without the broker hearing anything, so a steady
  stream of it keeps the client from pinging. Answers that failed polls left waiting do
  the same later. In each of these cases the broker may drop the client, and `Reconnects`
  is what is left.
* `WaitBounded` needs an outage to end in a reset long before half the clock's range is
  over: `OutagesFit` of `AppWaitProofs`.
* `NoSpuriousReset` does not say that a working firmware is never reset. A pass that
  itself lasts the whole timeout is: four calls at `APP_NETWORK_TIMEOUT_MS` (10 s each), or
  one wait of `ES_WIFI_TIMEOUT` (65.5 s), come to more than the 32 s of the watchdog, and
  then a slow network, not a stuck firmware, resets the board. If the IWDG has not taken
  its prescaler when `SystemHealth_Init` stops waiting, half a second is enough.

## Proofs

`AppProofs` proves, for every `HalfRange` and all values of the constants that
`AppAssumption` admits (positive intervals below half the range, positive
thresholds, any `Flaky` and `Down`):

* `TypeCorrect`, `Spec => []TypeOK`: among the rest that the deadlines stay within the
  tick's width and the failure count never passes `ResetThreshold`.
* `SessionNeedsWifiHolds`, `Spec => []SessionNeedsWifi`.
* `ImplementsEscalation`, `Spec => EscalationPolicy`.
* `RetryPacedHolds`, `Spec => []RetryPaced`.

The first two are not inductive. A failure could push the count past the threshold
unless it is known that outside `"reset"` it lies below; and a session may be
established only because `pc = "process"` is reached over a connected link. These
facts are `PointInv`, and `IInv == TypeOK /\ SessionNeedsWifi /\ PointInv` is inductive:
one lemma per action, with `FailureStep` and `ScheduleStep` saying once what a
registered failure does. The refinement needs `IInv` (the policy's steps are guarded
by the count) and `FailureRefines`, which sorts a failure into the policy's three
kinds. `RetryPaced` rests on `PacedInv`: as long as the module rests, the retry deadline
lies ahead by exactly what is left of the interval. `ArmedAhead`, `Approaching` and
`AheadIsNotReached` carry it across the wrap of the clock.

`AppWaitProofs` proves `WaitsAreBounded`, `Spec => []WaitBounded`, under `OutagesFit`: a failed
send is retried no later than a successful one is followed (60 s and 300 s), and what the
longest outage takes, which is the failures up to `ResetThreshold` with a retry interval and
a few calls each, is less than `HalfRange` together with the longest wait. In the firmware
that is minutes against 24.8 days; the constants of `app_healing` satisfy it too. `WaitBounded` says nothing of how a wait comes about, so `WaitInv` bounds
the ticks each deadline has been left alone by a toll for every failure still counted:
a deadline that is not consulted is one that failures keep from being reached,
and twelve of them bring the reset.

`SystemHealthProofs` proves, for every timeout of the watchdog, the default one
included, and passes of any length:

* `ReasonIsTruthful`, `Spec => []ReasonTruthful`, from `FlagsInv`: until the flags are
  cleared they are the resets since they were last clear, but for the pin's flag,
  which every reset sets, and the power-on, which sets none. `ReadReason` is the lemma
  about the order of the tests.
* `ShortPassesNeverAddUp`, `Spec => []NoSpuriousReset`, from `FedInv`: a counting
  watchdog is known to the program and has counted no more than the current pass. So
  only an endless loop, or one pass as long as the timeout, lets it expire.
* `TypeCorrect`, `Spec => []TypeOK`.

`MqttClientProofs` proves, for every tick width, every interval and call time below half
of it, any QoS levels, any bound on the inbox and any set of faults:

* `TypeCorrect`, `Spec => []TypeOK`.
* `WakesAreInOrder`, `Spec => WakesInOrder`. `WakesInv` says that the packet in hand at the
  acknowledgement has been acted on, and that whatever waits in the module was published;
  `IInv == PlainTypes /\ WakesInv` is inductive, and `ShorterQueue`, `LongerQueue` and `LaterQueue`
  are the lemmas about the inbox as a sequence. `OrderInv` adds that the commands in the module stand
  in the order of their numbers, all later than those acted on; one in the client's hands
  is later than these and earlier than those. A restart or a lost connection only takes
  commands away, so it refines to `Lose`.

`KeepAliveProofs` proves `KeptAlive`, `Spec => []KeepAliveHonoured`, for queues of any length and
calls and passes of any duration; what is smooth is said of the session in the property,
not assumed of the constants. `KeepInv` relates what the broker sees, the ticks of silence,
to what the client sees, the ticks since its last I/O. A pass that is prompt takes two
thirds of a ping interval at most; so an answer, which waits only right after something
was sent, is read before the next ping is due, and there is at most one (`AnswerInv`).
The timer therefore passes its mark by less than a pass (`QuietInv`), and the silence is longer than
the client's own count by no more than two passes (`SilenceInv`), which stays below three
intervals. All bounds are in thirds of an interval.

`FramingProofs` proves, for every width of a byte, every buffer, every length asked for,
every even trailer and packets of any length:

* `ReceivesPayload`, `Spec => []PayloadExact`, and `ReceivesInBounds`, `Spec =>
  []WritesInBounds`, from `StreamInv`: what has been received and what is still in the
  module add up to the stream, words keep the count even until the stream ends, and a
  full first chunk exceeds what was asked for by at most the padding of an odd number.
* `ReadsWhatWasReceived`, `Spec => []ReadsInBounds`, from `HandledInv`: `HandlePublish`'s first test, of the
  remaining length against the packet, is what keeps the 16-bit sum from wrapping.
* `TypeCorrect`, `Spec => []TypeOK`.

`CodecProofs` goes on, for every `Half`, that is, every width of a byte:

* `RoundTrip`, a lemma: `RemainingLength` reads back what `EncodeRemainingLength` wrote, from
  one to four bytes. Both are sums over digits, so it rests on `DigitSum` and on facts about
  quotients and remainders that the solver needs one at a time.
* `SendsWellFormed`, `Spec => []SentWellFormed`: CONNECT and SUBSCRIBE, with strings of any
  length that fit.
* `UnderstandsPublishes`, `Spec => []UnderstoodAsMeant`. `PublishFramed` says where the fields
  of a PUBLISH are, `FramedUnderstood` that `HandlePublish`'s sixteen-bit offsets meet them.
  Because a packet fits its buffer and the buffer is below the limit of a length, no sum
  wraps on a packet that is well formed.

`ConnectivityProofs` proves, for all thresholds, networks and faults, and either answer
of the module to an open of an open socket:

* `OwnSocketHolds`, `Spec => OwnSocket`, from `SelectedInv`: past the first command of a
  socket call the selection is the caller's, or the job was led astray.
  `PassedIsExecuted` is the lemma behind it: the driver goes past a command only if
  that was carried out, unless the ghost `astray` was already set or is set by this step.
* `ReportedWasAccepted`, `Spec => []ReportedIsAccepted`, from `AcceptedInv`. `ReportedIsAccepted`
  says nothing of how the exchange got there; inductive is what holds at each of its
  calls unless it was led astray: after an open nothing is waiting (`OpenClears`), so a
  response that waits or is owed is one to this request (`ResponseInv`); only `R0`'s own
  answer is taken for a response (`ReadsResponse`); and the exchange closes without a
  failure only after reading one (`ClosingInv`).
* `AddressIsCurrent`, `Spec => []AddressCurrent`, from `InStepInv` (while every command was
  answered no answer is late), `JoiningInv` (the network is joined only while the link is
  not trusted) and `ReadAddressInv` (a join that ends well in step with the answers has
  read the address of the network it joined).
* `SocketsAreReturned`, `Spec => []SocketsReturned`, from `ReturnedInv`. Its core, `OpenInv`,
  says of a module that answered every command and refused no close that the only
  sockets open are the session's own and what the job in progress has `Borrowed`: what it
  opened at an earlier call and has still to close. `InStepInv` supplies that such a job
  reads its own answers, `BringUpInv` and `GivenUpInv` that a module being brought up or a
  session being given up has no other job's socket. What a recovery finds open is of no
  account, because the module is reset after it.
* `TypeCorrect`, `Spec => []TypeOK`: among the rest that every call's position lies
  within its script, and the count of failures below the threshold of the reset.
* `ImplementsEscalation`, `Spec => EscalationPolicy`. Every failing job ends in
  `RegisterFailure`, and `FailurePolicy` sorts that into the policy's steps; it needs the
  count's type, to know that no failure comes after the last. A join is the policy's
  `BringUp` because of `JoiningInv`. All other steps are `Unseen`.

`Next` has some thirty actions, most of which only begin, continue or end a job. `StepKinds`
sorts every step once into six kinds, and each invariant is proved by kind.

Only model-checked: the liveness properties `SelfHealing`, `ListensAgain`, `Reconnects`,
`WatchedLoopEnds` and `TelemetryHeals`. Liveness under fairness is out of the prover's reach, as
are `ENABLED` and induction over data. Every invariant, action property and refinement that
a passing run checks is proved.

## Not modelled, and simplifications

* Vendored code: HAL, LL, CMSIS, BSP and sensor drivers. It is some 98 % of the lines of the
  repository, so the share of all lines that the modules stand for is small although
  nearly all of the firmware's own control code is modelled. The modules take it by what
  `Core/Src` relies on: a tick, a reset controller, a watchdog.
* Operations of the driver that the firmware never calls: scanning, access-point mode,
  server sockets, ping, certificates, firmware update, UART transport.
* `SPI_WIFI_SendData`, pin handling and the prompt in `SPI_WIFI_Init`: a command is sent
  whole or not answered. A timeout within the data of an answer (`es_wifi.c:608`) takes
  65.5 s, longer than the watchdog's period. The trailer's text is taken not to occur in
  a payload, nor by chance behind a full buffer (`es_wifi.c:612`).
* Layout: JSON, HTTP, the contents of MQTT strings, the magic packet, sensor averages, log
  lines. The statistics sent with the payload (`app_last_error`, `app_sequence`, the
  success, failure, recovery and reconnect counters) are never read by the firmware.
* `Telemetry_Read` cannot fail, since `app.c` passes a non-null pointer.
  `EnsureLocalIp` of `App` keeps the failure of `WifiService_GetLocalIp` although the driver's
  `IsConnected` flag is set by the join just before: `App` allows more than the driver
  does, and `Connectivity` has what the driver does.
* In `App`, `MqttClient_Process` with a malformed packet, an ignored receive error, or
  an acknowledgement that fails is reduced to its effect on the session.
* In `MqttClient`, the rest of a pass is a delay of up to `PassRest` and the calls of
  `RecoverWifi` from elsewhere are `MqttClient_Reset`.
* In `Connectivity`, a restart may come at any command, whether the watchdog's or another;
  sensors and time are `App`'s. A command takes effect before the driver's next one or not at all.
* The reports of the module's own text (`AT_ParseConnSettings` and its like) are reduced to
  whether they are the answer to the command that was sent.
* `NextPacketId` and packet identifiers but the one `HandlePublish` returns: the SUBACK's
  is not compared.
* Generated set-up code.

## Plan

Done: `Ticks`, `Escalation`, `WakeTopic`, `App`, `SystemHealth`, `MqttClient`, `EsWifi`,
`Connectivity`, `MqttCodec`, `Framing`, and the proofs about them.

Left:

1. `MqttClient` as a refinement of `App`'s view of the session.
2. A clock in `Connectivity`, to bound how long a Wake-on-LAN socket left open delays
   telemetry.
