------------------------- MODULE ConnectivityProofs -------------------------
(***************************************************************************)
(* Proofs about Connectivity for all thresholds, networks and faults, and  *)
(* whatever the module does when an open socket is opened.                 *)
(***************************************************************************)
EXTENDS Connectivity, SequenceTheorems, TLAPS

-----------------------------------------------------------------------------
(* Scripts and plans. *)

SocketOps == {"OpenTcp", "OpenUdp", "Close", "Send", "Receive"}
ModuleOps == {"Init", "Connect", "Disconnect", "ResetModule"}

\* Commands that go through the selected socket.
ThroughSocket == {"S3", "R0", "P6=0", "P6=1"}

LEMMA ScriptDomain == DOMAIN Script = SocketOps \cup ModuleOps
  BY DEF Script, SocketOps, ModuleOps

LEMMA SocketScripts ==
  ASSUME NEW op \in SocketOps
  PROVE  /\ Len(Script[op]) \in 2 .. 6
         /\ Script[op][1] = "P0"
         /\ \A i \in 1 .. Len(Script[op]) : Script[op][i] = "P0" => i = 1
         /\ \A i \in 1 .. Len(Script[op]) : Script[op][i] \notin {"reset", "ZR", "CD", "C0"}
         /\ \A i \in 1 .. Len(Script[op]) : Script[op][i] = "R0" => op = "Receive" /\ i = 4
         /\ \A i \in 1 .. Len(Script[op]) : Script[op][i] = "S3" => op = "Send"
<1>1. CASE op = "OpenTcp"
  BY <1>1 DEF Script, StartTcpClient
<1>2. CASE op = "OpenUdp"
  BY <1>2 DEF Script, StartUdpClient
<1>3. CASE op = "Close"
  BY <1>3 DEF Script, ES_WIFI_StopClientConnection
<1>4. CASE op = "Send"
  BY <1>4 DEF Script, ES_WIFI_SendData
<1>5. CASE op = "Receive"
  BY <1>5 DEF Script, ES_WIFI_ReceiveData
<1> QED
  BY <1>1, <1>2, <1>3, <1>4, <1>5 DEF SocketOps

LEMMA ModuleScripts ==
  ASSUME NEW op \in ModuleOps
  PROVE  /\ Len(Script[op]) \in 1 .. 6
         /\ \A i \in 1 .. Len(Script[op]) :
              Script[op][i] \notin ThroughSocket \cup {"P0", "P2"}
<1>1. CASE op = "Init"
  BY <1>1 DEF Script, ES_WIFI_Init, ThroughSocket
<1>2. CASE op = "Connect"
  BY <1>2 DEF Script, ES_WIFI_Connect, ThroughSocket
<1>3. CASE op = "Disconnect"
  BY <1>3 DEF Script, ES_WIFI_Disconnect, ThroughSocket
<1>4. CASE op = "ResetModule"
  BY <1>4 DEF Script, ES_WIFI_ResetModule, ThroughSocket
<1> QED
  BY <1>1, <1>2, <1>3, <1>4 DEF ModuleOps

Jobs == {"init", "connect", "recover", "telemetry", "wake", "mqtt", "ping", "poll",
         "puback", "mqtt_failed", "mqtt_dropped"}

LEMMA PlanDomain == DOMAIN Plan = Jobs
  BY DEF Plan, Jobs

\* Every job consists of calls the driver has.
LEMMA PlanFacts ==
  ASSUME NEW name \in Jobs
  PROVE  /\ Len(Plan[name]) \in 1 .. 5
         /\ \A i \in 1 .. Len(Plan[name]) :
              /\ Plan[name][i].op \in DOMAIN Script
              /\ Plan[name][i] = Call(Plan[name][i].op, Plan[name][i].socket)
<1> USE ScriptDomain DEF Call, SocketOps, ModuleOps
<1>1. CASE name \in {"init", "connect", "ping", "poll", "puback"}
  BY <1>1 DEF Plan
<1>2. CASE name = "recover"
  BY <1>2 DEF Plan, RecoverWifi
<1>3. CASE name = "telemetry"
  BY <1>3 DEF Plan, ApiClient_SendTelemetry
<1>4. CASE name = "wake"
  BY <1>4 DEF Plan, Wol_SendMagicPacket
<1>5. CASE name = "mqtt"
  BY <1>5 DEF Plan, ConnectAndSubscribe
<1>6. CASE name \in {"mqtt_failed", "mqtt_dropped"}
  BY <1>6 DEF Plan, ScheduleReconnect
<1> QED
  BY <1>1, <1>2, <1>3, <1>4, <1>5, <1>6 DEF Jobs

LEMMA TelemetryPlan ==
  /\ Len(Plan["telemetry"]) = 4
  /\ Plan["telemetry"][1] = Call("OpenTcp", Api)
  /\ Plan["telemetry"][2] = Call("Send", Api)
  /\ Plan["telemetry"][3] = Call("Receive", Api)
  /\ Plan["telemetry"][4] = Call("Close", Api)
  BY DEF Plan, ApiClient_SendTelemetry

-----------------------------------------------------------------------------
(* What a step does to the call in progress: one lemma for the many steps  *)
(* of the program that only begin, continue or end a job.                  *)

\* The call in progress is one of its job's, at one of its commands.
CallInv ==
  /\ call = NoCall => step = 1
  /\ call # NoCall =>
       /\ job \in Jobs /\ at \in 1 .. Len(Plan[job]) /\ call = Plan[job][at]
       /\ step \in 1 .. Len(Script[call.op])
  /\ job # "none" => job \in Jobs /\ at \in 1 .. Len(Plan[job])

\* The module is left alone.
Apart == UNCHANGED <<moduleVars, late, clean, leaked>> /\ astray' \in {astray, FALSE}

Begins(name) ==
  /\ job' = name /\ at' = 1 /\ failed' = FALSE
  /\ call' = Plan[name][1] /\ step' = 1
  /\ ret' = "OK" /\ data' = "none"
  /\ Apart

Ends ==
  /\ job' = "none"
  /\ call' = NoCall /\ step' = 1
  /\ ret' = "OK"
  /\ Apart

Stays ==
  UNCHANGED <<job, at, failed, call, step, ret, data, IP_Addr, moduleVars, late, ghosts>>

SomeBegins == \E name \in Jobs : Begins(name)

LEMMA StartBegins ==
  ASSUME NEW name \in Jobs, Start(name), Apart
  PROVE  SomeBegins
<1>1. Call(Plan[name][1].op, Plan[name][1].socket) = Plan[name][1]
  BY PlanFacts
<1>2. Begins(name)
  BY <1>1 DEF Start, StartCall, Begins
<1> QED
  BY <1>2 DEF SomeBegins

LEMMA FinishEnds ==
  ASSUME CallInv, Returned, Finish, Apart
  PROVE  Ends
  BY DEF CallInv, Returned, Finish, Ends

LEMMA OverFacts ==
  ASSUME NEW name, NEW outcome, Over(name, outcome)
  PROVE  Returned /\ Apart
  BY DEF Over, Apart

LEMMA FailureKinds ==
  ASSUME CallInv, Returned, Apart,
         NEW point, NEW session, RegisterFailure(point, session)
  PROVE  Ends \/ SomeBegins
<1>1. CASE Restarted
  BY <1>1 DEF Restarted, Ends
<1>2. CASE Start("recover")
  BY <1>2, StartBegins DEF Jobs
<1>3. CASE Finish
  BY <1>3, FinishEnds
<1> QED
  BY <1>1, <1>2, <1>3 DEF RegisterFailure

LEMMA BeginKinds ==
  ASSUME NEW point, NEW name \in Jobs, NEW after, Begin(point, name, after)
  PROVE  SomeBegins
  BY StartBegins DEF Begin, Apart, ghosts

LEMMA SkipKinds ==
  ASSUME NEW point, NEW after, Skip(point, after)
  PROVE  Stays
  BY DEF Skip, Stays, driverVars

LEMMA GiveUpSessionKinds ==
  ASSUME NEW name, NEW outcome, NEW closing \in {"mqtt_failed", "mqtt_dropped"},
         GiveUpSession(name, outcome, closing)
  PROVE  SomeBegins
<1>1. Apart /\ Start(closing) /\ closing \in Jobs
  BY OverFacts DEF GiveUpSession, Jobs
<1> QED
  BY <1>1, StartBegins

\* Points of the pass that begin a job or go on without one.
Passing ==
  \/ EnsureModule \/ EnsureConnect \/ EnsureSkips
  \/ ProcessConnects \/ ProcessWaits \/ ProcessPings \/ ProcessSkipsPing \/ Poll
  \/ SendPubAck \/ StartTelemetry \/ SkipTelemetry

LEMMA PassingKinds == Passing => Stays \/ SomeBegins
<1> SUFFICES ASSUME Passing PROVE Stays \/ SomeBegins
  OBVIOUS
<1> USE DEF Jobs
<1>1. CASE EnsureModule \/ EnsureConnect
  BY <1>1, BeginKinds DEF EnsureModule, EnsureConnect
<1>2. CASE ProcessConnects \/ ProcessPings \/ Poll
  BY <1>2, BeginKinds DEF ProcessConnects, ProcessPings, Poll
<1>3. CASE SendPubAck \/ StartTelemetry
  BY <1>3, BeginKinds DEF SendPubAck, StartTelemetry
<1>4. CASE EnsureSkips \/ ProcessWaits \/ ProcessSkipsPing \/ SkipTelemetry
  BY <1>4, SkipKinds DEF EnsureSkips, ProcessWaits, ProcessSkipsPing, SkipTelemetry
<1> QED
  BY <1>1, <1>2, <1>3, <1>4 DEF Passing

\* Ends of jobs.
Closing ==
  \/ ModuleInitialized \/ Connected \/ EnsureFails \/ Recovered
  \/ SessionOpened \/ MqttFails \/ ProcessFails
  \/ WakeArrives \/ WakeSucceeds \/ WakeFails \/ IgnoredCommand \/ MalformedPacket
  \/ PubAckFails \/ QuietEnd
  \/ TelemetrySucceeds \/ TelemetryFails

LEMMA ClosingKinds == CallInv /\ Closing => Ends \/ SomeBegins
<1> SUFFICES ASSUME CallInv, Closing PROVE Ends \/ SomeBegins
  OBVIOUS
<1>1. CASE ModuleInitialized \/ Connected \/ Recovered \/ SessionOpened
  BY <1>1, OverFacts, FinishEnds DEF ModuleInitialized, Connected, Recovered, SessionOpened
<1>2. CASE EnsureFails \/ ProcessFails \/ WakeFails \/ TelemetryFails
  BY <1>2, OverFacts, FailureKinds DEF EnsureFails, ProcessFails, WakeFails, TelemetryFails
<1>3. CASE MqttFails \/ MalformedPacket \/ PubAckFails
  BY <1>3, GiveUpSessionKinds DEF MqttFails, MalformedPacket, PubAckFails
<1>4. CASE WakeArrives
  BY <1>4, OverFacts, StartBegins DEF WakeArrives, Jobs
<1>5. CASE WakeSucceeds \/ TelemetrySucceeds \/ IgnoredCommand
  BY <1>5, OverFacts, FinishEnds
     DEF WakeSucceeds, TelemetrySucceeds, RegisterSuccess, IgnoredCommand
<1>6. CASE QuietEnd
  <2>1. PICK name \in Jobs, outcome \in BOOLEAN : OverQuietly(name, outcome)
    BY <1>6 DEF QuietEnd, Jobs
  <2> QED
    BY <2>1, OverFacts, FinishEnds DEF OverQuietly
<1> QED
  BY <1>1, <1>2, <1>3, <1>4, <1>5, <1>6 DEF Closing

Surroundings == LinkLost \/ Answers \/ BecomeCalm

LEMMA StepKinds ==
  ASSUME CallInv, [Next]_vars
  PROVE  \/ SomeBegins \/ Ends \/ Stays \/ Continue
         \/ Driver /\ UNCHANGED programVars
         \/ Surroundings /\ UNCHANGED programVars
<1>1. CASE Program
  <2>1. Passing \/ Closing \/ Continue \/ DriverStep
    BY <1>1 DEF Program, Passing, Closing
  <2> QED
    BY <2>1, PassingKinds, ClosingKinds DEF DriverStep
<1>2. CASE Restart
  BY <1>2 DEF Restart, Restarted, Ends, Apart
<1>3. CASE ModuleStep
  BY <1>3 DEF ModuleStep, Surroundings
<1>4. CASE UNCHANGED vars
  BY <1>4 DEF vars, driverVars, programVars, jobVars, Stays
<1> QED
  BY <1>1, <1>2, <1>3, <1>4 DEF Next

\* What Continue does.
LEMMA ContinueFacts ==
  ASSUME CallInv, Continue
  PROVE  /\ job \in Jobs /\ job' = job
         /\ NextCall \in 1 .. Len(Plan[job]) /\ at' = NextCall
         /\ failed' = JobFailed
         /\ call' = Plan[job][NextCall] /\ step' = 1
         /\ ret' = "OK" /\ data' = "none"
         /\ UNCHANGED <<moduleVars, late, ghosts>>
<1>1. job \in Jobs /\ at \in 1 .. Len(Plan[job])
  BY DEF Continue, Returned, CallInv
<1>2. Len(Plan[job]) \in 1 .. 5
  BY <1>1, PlanFacts
<1>3. NextCall \in 1 .. Len(Plan[job])
  BY <1>1, <1>2 DEF Continue, NextCall, CallAfterFailure
<1>4. Call(Plan[job][NextCall].op, Plan[job][NextCall].socket) = Plan[job][NextCall]
  BY <1>1, <1>3, PlanFacts
<1> QED
  BY <1>1, <1>3, <1>4 DEF Continue, StartCall

-----------------------------------------------------------------------------
(* OwnSocket.                                                              *)

\* The selection is the caller's once its first command has passed, unless that
\* was not carried out.
SelectedInv == call.op \in SocketOps /\ step > 1 => selected = call.socket \/ astray

SocketInv == CallInv /\ SelectedInv

LEMMA CallFacts ==
  ASSUME CallInv, call # NoCall
  PROVE  /\ job \in Jobs /\ at \in 1 .. Len(Plan[job]) /\ call = Plan[job][at]
         /\ call.op \in SocketOps \cup ModuleOps
         /\ Len(Script[call.op]) \in 1 .. 6
         /\ step \in 1 .. Len(Script[call.op])
<1>1. job \in Jobs /\ at \in 1 .. Len(Plan[job]) /\ call = Plan[job][at]
      /\ step \in 1 .. Len(Script[call.op])
  BY DEF CallInv
<1>2. call.op \in SocketOps \cup ModuleOps
  BY <1>1, PlanFacts, ScriptDomain
<1>3. Len(Script[call.op]) \in 1 .. 6
  BY <1>2, SocketScripts, ModuleScripts
<1> QED
  BY <1>1, <1>2, <1>3

\* The first command of a call that begins.
LEMMA FirstCommand ==
  ASSUME NEW name \in Jobs, NEW i \in 1 .. Len(Plan[name])
  PROVE  /\ Plan[name][i] # NoCall
         /\ 1 \in 1 .. Len(Script[Plan[name][i].op])
<1>1. Plan[name][i].op \in SocketOps \cup ModuleOps
  BY PlanFacts, ScriptDomain
<1>2. Plan[name][i].op # NoCall.op
  BY <1>1 DEF NoCall, Call, SocketOps, ModuleOps
<1>3. Len(Script[Plan[name][i].op]) \in 1 .. 6
  BY <1>1, SocketScripts, ModuleScripts
<1>4. Plan[name][i] # NoCall
  BY <1>2
<1>5. \A n \in 1 .. 6 : 1 \in 1 .. n
  OBVIOUS
<1> QED
  BY <1>3, <1>4, <1>5

\* A step of the driver goes on to the next command or returns.
LEMMA DriverGoesOn ==
  ASSUME CallInv, Driver
  PROVE  /\ call # NoCall
         /\ \/ call' = call /\ step' = step + 1 /\ step < Len(Script[call.op])
            \/ call' = NoCall /\ step' = 1
  BY DEF Driver, Exchange, Unanswered, ResetPin, Take

\* Of the commands only P0 and the resets touch the selection.
LEMMA ExecuteSelected ==
  ASSUME NEW answer, Execute(answer), Command # "ZR"
  PROVE  /\ Command # "P0" => selected' = selected
         /\ Command = "P0" /\ answer = "OK" => selected' = call.socket
<1>0. CASE Refuse(answer)
  BY <1>0 DEF Refuse, moduleVars
<1>1. CASE Command \in Settings
  BY <1>0, <1>1 DEF Execute, Settings, moduleVars
<1>2. CASE Command = "P0"
  BY <1>0, <1>2 DEF Execute, Settings
<1>3. CASE Command \in {"C0", "CD"}
  BY <1>0, <1>3 DEF Execute, Settings, Join, Left
<1>4. CASE Command \in {"P6=1", "P6=0", "S3", "R0"}
  BY <1>0, <1>4 DEF Execute, Settings, StartClient, StopClient, SendData, HandOver
<1> QED
  BY <1>0, <1>1, <1>2, <1>3, <1>4 DEF Execute

\* A command that has passed was carried out, or the driver is misled; but for
\* P2, which need not be carried out.
Passed == call # NoCall /\ (call' # NoCall \/ ret' = "OK")

LEMMA PassedIsExecuted ==
  ASSUME Exchange \/ Unanswered, Passed, Command \notin {"P2", "ZR"}, ~astray'
  PROVE  ~astray /\ Execute("OK")
<1>1. ASSUME NEW status, Take(status) PROVE status = "OK"
  BY <1>1 DEF Take, GoesOn, Passed
<1>2. CASE Exchange
  <2>1. PICK answer \in {"OK", "ERROR"} :
          /\ Execute(answer)
          /\ \E status : /\ Take(status)
                         /\ astray' = (~Resets(answer) /\ (astray \/ Misled(status, answer)))
    BY <1>2 DEF Exchange
  <2>2. ~Resets(answer)
    BY DEF Resets
  <2>3. ~astray /\ ~Misled("OK", answer)
    BY <1>1, <2>1, <2>2
  <2> QED
    BY <2>1, <2>3 DEF Misled
<1>3. CASE Unanswered
  <2>1. PICK status :
          /\ Take(status)
          /\ \/ astray' = (astray \/ status = "OK")
             \/ \E answer \in {"OK", "ERROR"} :
                  Execute(answer) /\ astray' = (astray \/ Misled(status, answer))
    BY <1>3 DEF Unanswered
  <2>2. PICK answer \in {"OK", "ERROR"} :
          Execute(answer) /\ astray' = (astray \/ Misled("OK", answer))
    BY <1>1, <2>1
  <2> QED
    BY <2>2 DEF Misled
<1> QED
  BY <1>2, <1>3

\* Once misled, until the job is over or the module reset.
LEMMA StaysAstray ==
  ASSUME Exchange \/ Unanswered, Command # "ZR", astray
  PROVE  astray'
  BY DEF Exchange, Unanswered, Resets

LEMMA DriverSelected ==
  ASSUME SocketInv, Driver, call.op \in SocketOps, step' > 1
  PROVE  call' = call /\ (selected' = call.socket \/ astray')
<1>1. /\ call # NoCall /\ call' = call /\ step' = step + 1
      /\ step \in 1 .. Len(Script[call.op]) /\ Len(Script[call.op]) \in Nat
  BY DriverGoesOn, CallFacts DEF SocketInv
<1>2. /\ Command \notin {"reset", "ZR"}
      /\ step = 1 => Command = "P0"
      /\ step # 1 => selected = call.socket \/ astray
  BY <1>1, SocketScripts DEF Command, SocketInv, SelectedInv
<1>3. Exchange \/ Unanswered
  BY <1>2 DEF Driver, ResetPin
<1>4. CASE step = 1
  <2>1. Passed /\ Command \notin {"P2", "ZR"}
    BY <1>1, <1>2, <1>4 DEF Passed
  <2> QED
    BY <1>1, <1>2, <1>3, <1>4, <2>1, PassedIsExecuted, ExecuteSelected
<1>5. CASE step # 1
  <2>1. Command # "P0"
    BY <1>1, <1>2, <1>5, SocketScripts DEF Command
  <2>2. selected' = selected
    <3>1. UNCHANGED selected \/ \E answer : Execute(answer)
      BY <1>3 DEF Exchange, Unanswered, moduleVars
    <3> QED
      BY <1>2, <2>1, <3>1, ExecuteSelected
  <2> QED
    BY <1>1, <1>2, <1>3, <1>5, <2>2, StaysAstray
<1> QED
  BY <1>4, <1>5

LEMMA InitSocket == Init => SocketInv
<1> SUFFICES ASSUME Init PROVE SocketInv
  OBVIOUS
<1>1. call = NoCall /\ step = 1 /\ job = "none"
  BY DEF Init, DriverInit
<1> QED
  BY <1>1 DEF SocketInv, CallInv, SelectedInv

LEMMA NextCallInv ==
  ASSUME CallInv, [Next]_vars
  PROVE  CallInv'
<1>1. CASE SomeBegins
  <2>1. PICK name \in Jobs : Begins(name)
    BY <1>1 DEF SomeBegins
  <2>2. 1 \in 1 .. Len(Plan[name])
    BY PlanFacts
  <2> QED
    BY <2>1, <2>2, FirstCommand DEF Begins, CallInv
<1>2. CASE Ends
  BY <1>2 DEF Ends, CallInv
<1>3. CASE Stays
  BY <1>3 DEF Stays, CallInv
<1>4. CASE Continue
  <2>1. /\ job' \in Jobs /\ at' \in 1 .. Len(Plan[job'])
        /\ call' = Plan[job'][at'] /\ step' = 1
    BY <1>4, ContinueFacts
  <2>2. call' # NoCall /\ 1 \in 1 .. Len(Script[call'.op])
    BY <2>1, FirstCommand
  <2> QED
    BY <2>1, <2>2 DEF CallInv
<1>5. CASE Driver /\ UNCHANGED programVars
  <2>1. UNCHANGED <<job, at>>
    BY <1>5 DEF programVars, jobVars
  <2> QED
    BY <1>5, <2>1, DriverGoesOn, CallFacts DEF CallInv
<1>6. CASE Surroundings /\ UNCHANGED programVars
  <2>1. UNCHANGED <<job, at, call, step>>
    BY <1>6 DEF Surroundings, LinkLost, Answers, BecomeCalm, programVars, jobVars,
                driverVars
  <2> QED
    BY <2>1 DEF CallInv
<1> QED
  BY <1>1, <1>2, <1>3, <1>4, <1>5, <1>6, StepKinds

LEMMA NextSocket == SocketInv /\ [Next]_vars => SocketInv'
<1> SUFFICES ASSUME SocketInv, [Next]_vars PROVE SocketInv'
  OBVIOUS
<1> USE DEF SocketInv
<1>1. CallInv'
  BY NextCallInv
<1>2. CASE SomeBegins
  BY <1>1, <1>2 DEF SomeBegins, Begins, SelectedInv
<1>3. CASE Ends
  BY <1>1, <1>3 DEF Ends, SelectedInv
<1>4. CASE Stays
  BY <1>1, <1>4 DEF Stays, moduleVars, ghosts, SelectedInv
<1>5. CASE Continue
  BY <1>1, <1>5, ContinueFacts DEF SelectedInv
<1>6. CASE Driver /\ UNCHANGED programVars
  <2>1. SelectedInv'
    <3>1. CASE call' = call
      BY <1>6, <3>1, DriverSelected DEF SelectedInv
    <3>2. CASE step' = 1
      BY <3>2 DEF SelectedInv
    <3> QED
      BY <1>6, <3>1, <3>2, DriverGoesOn
  <2> QED
    BY <1>1, <2>1
<1>7. CASE Surroundings /\ UNCHANGED programVars
  <2>1. UNCHANGED <<call, step, selected, astray>>
    BY <1>7 DEF Surroundings, LinkLost, Answers, BecomeCalm, driverVars, moduleVars, ghosts
  <2> QED
    BY <1>1, <2>1 DEF SelectedInv
<1> QED
  BY <1>2, <1>3, <1>4, <1>5, <1>6, <1>7, StepKinds

THEOREM SocketInvariant == Spec => []SocketInv
  BY InitSocket, NextSocket, PTL DEF Spec

\* What goes through a socket is the second command of its call or a later one.
LEMMA ThroughOwnSocket ==
  ASSUME SocketInv, Exchange \/ Unanswered, Command \in ThroughSocket
  PROVE  selected = call.socket \/ astray
<1>1. /\ call.op \in SocketOps \cup ModuleOps
      /\ step \in 1 .. Len(Script[call.op])
      /\ Len(Script[call.op]) \in 1 .. 6
  BY CallFacts DEF SocketInv, Exchange, Unanswered
<1>2. call.op \in SocketOps
  BY <1>1, ModuleScripts DEF Command
<1>3. step # 1
  BY <1>2, SocketScripts DEF Command, ThroughSocket
<1> QED
  BY <1>1, <1>2, <1>3 DEF SocketInv, SelectedInv

\* Each exchange goes through the socket it was asked to use, whatever was lost,
\* refused, left unanswered, answered late or cut off by a restart; unless a
\* late OK was read, in the same job, for a command that was not carried out:
\* with the answers counted on to be in step, nothing in the driver could tell
\* (es_wifi.c:506-515, 1290-1303, 1598-1669).
THEOREM OwnSocketHolds == Spec => OwnSocket
<1>1. SocketInv /\ [Next]_vars =>
        [(Exchange \/ Unanswered) /\ Command \in {"S3", "R0", "P6=0", "P6=1"} =>
           selected = call.socket \/ astray]_vars
  BY ThroughOwnSocket DEF ThroughSocket
<1> QED
  BY <1>1, SocketInvariant, PTL DEF Spec, OwnSocket

-----------------------------------------------------------------------------
(* ReportedIsAccepted.                                                     *)

\* Once the API client's socket was opened, a response that waits or is owed is
\* one to the present request.
ResponseInv ==
  job = "telemetry" /\ response \in {"owed", "expected"}
    /\ (at \in {2, 3} \/ (at = 1 /\ call = NoCall /\ ret = "OK")) => accepted \/ astray

\* A response was read, or the exchange is closed without a failure.
ReadInv == job = "telemetry" /\ data = "expected" => accepted \/ astray
ClosingInv == job = "telemetry" /\ at = 4 /\ ~failed => accepted \/ astray

AnswerTypes == ret \in {"OK", "ERROR"} /\ late \in {"none", "OK", "ERROR"}

AcceptedInv == SocketInv /\ AnswerTypes /\ ResponseInv /\ ReadInv /\ ClosingInv

\* A step of the driver, for a call of the API client.
LEMMA TelemetryCall ==
  ASSUME CallInv, call # NoCall, job = "telemetry"
  PROVE  /\ call.socket = Api
         /\ call.op \in SocketOps
         /\ at \in 1 .. 4
         /\ at = 1 => call.op = "OpenTcp"
         /\ at = 2 => call.op = "Send"
         /\ at = 3 => call.op = "Receive"
         /\ at = 4 => call.op = "Close"
<1>1. at \in 1 .. 4 /\ call = Plan["telemetry"][at]
  BY CallFacts, TelemetryPlan
<1> QED
  BY <1>1, TelemetryPlan DEF Call, SocketOps

LEMMA ExecuteAccepts ==
  ASSUME NEW answer, Execute(answer), Command \notin {"reset", "ZR", "CD", "C0"}
  PROVE  /\ accepted => accepted'
         /\ Command # "S3" => accepted' = accepted
         /\ response' \in {"owed", "expected"} =>
              response' = response \/ accepted'
<1>0. CASE Refuse(answer)
  BY <1>0 DEF Refuse, moduleVars
<1> SUFFICES ASSUME ~Refuse(answer)
             PROVE  /\ accepted => accepted'
                    /\ Command # "S3" => accepted' = accepted
                    /\ response' \in {"owed", "expected"} => response' = response \/ accepted'
  BY <1>0
<1>1. CASE Command \in Settings
  BY <1>1 DEF Execute, Settings, moduleVars
<1>2. CASE Command = "P0"
  BY <1>2 DEF Execute, Settings
<1>3. CASE Command = "P6=1"
  BY <1>3 DEF Execute, Settings, StartClient
<1>4. CASE Command = "P6=0"
  BY <1>4 DEF Execute, Settings, StopClient
<1>5. CASE Command = "S3"
  <2>1. SendData(answer)
    BY <1>5 DEF Execute, Settings
  <2>2. \/ UNCHANGED <<response, accepted>>
        \/ accepted' = TRUE
        \/ response' \in {response, "none"} /\ UNCHANGED accepted
    BY <2>1 DEF SendData, ServerGetsRequest, ServerGetsOther
  <2> QED
    BY <1>5, <2>2
<1>6. CASE Command = "R0"
  BY <1>6 DEF Execute, Settings, HandOver
<1> QED
  BY <1>1, <1>2, <1>3, <1>4, <1>5, <1>6 DEF Execute, Settings

\* The same for a whole step of the driver.
LEMMA DriverAccepts ==
  ASSUME SocketInv, Driver, job = "telemetry"
  PROVE  /\ Command \notin {"reset", "ZR", "CD", "C0"}
         /\ accepted \/ astray => accepted' \/ astray'
         /\ response' \in {"owed", "expected"} => response' = response \/ accepted'
<1>1. call # NoCall /\ CallInv
  BY DriverGoesOn DEF SocketInv
<1>2. Command \notin {"reset", "ZR", "CD", "C0"}
  BY <1>1, TelemetryCall, CallFacts, SocketScripts DEF Command
<1>3. Exchange \/ Unanswered
  BY <1>2 DEF Driver, ResetPin
<1>4. UNCHANGED <<response, accepted>> \/ \E answer : Execute(answer)
  BY <1>3 DEF Exchange, Unanswered, moduleVars
<1>5. /\ accepted => accepted'
      /\ response' \in {"owed", "expected"} => response' = response \/ accepted'
  BY <1>2, <1>4, ExecuteAccepts
<1> QED
  BY <1>2, <1>3, <1>5, StaysAstray

LEMMA DriverTypes ==
  ASSUME AnswerTypes, Driver
  PROVE  AnswerTypes'
<1>1. ASSUME NEW status, Take(status) PROVE ret' \in {"OK", "ERROR"}
  BY <1>1 DEF Take, AnswerTypes
<1>2. ret' \in {"OK", "ERROR"}
  BY <1>1 DEF Driver, Exchange, Unanswered, ResetPin
<1>3. late' \in {"none", "OK", "ERROR"}
  <2>1. ASSUME NEW answer \in {"OK", "ERROR"}
        PROVE  /\ Mistaken(answer) \subseteq {"OK", "ERROR"}
               /\ LateAnswers(answer) \subseteq {late, "OK", "ERROR"}
    BY DEF Mistaken, LateAnswers
  <2> QED
    BY <2>1 DEF Driver, Exchange, Unanswered, ResetPin, AnswerTypes
<1> QED
  BY <1>2, <1>3 DEF AnswerTypes

\* An open that succeeded has cleared the way.
LEMMA OpenClears ==
  ASSUME SocketInv, Driver, job = "telemetry", at = 1,
         call' = NoCall, ret' = "OK", ~astray'
  PROVE  response' = "none"
<1>1. /\ call # NoCall /\ call.op = "OpenTcp" /\ call.socket = Api
      /\ step \in 1 .. Len(Script[call.op])
  BY DriverGoesOn, TelemetryCall, CallFacts DEF SocketInv
<1>2. Script["OpenTcp"] = <<"P0", "P1", "P4", "P3", "P6=1">>
  BY DEF Script, StartTcpClient
<1>3. Command \notin {"P2", "reset", "ZR"}
  BY <1>1, <1>2 DEF Command
<1>4. Exchange \/ Unanswered
  BY <1>3 DEF Driver, ResetPin
<1>5. ~astray /\ Execute("OK")
  <2>1. Passed
    BY <1>1 DEF Passed
  <2> QED
    BY <1>3, <1>4, <2>1, PassedIsExecuted
<1>6. step = 5
  <2>1. PICK status : Take(status)
    BY <1>4 DEF Exchange, Unanswered
  <2> QED
    BY <1>1, <1>2, <2>1 DEF Take
<1>7. Command = "P6=1"
  BY <1>1, <1>2, <1>6 DEF Command
<1>8. selected = Api
  BY <1>1, <1>5, <1>6 DEF SocketInv, SelectedInv, SocketOps
<1> QED
  BY <1>5, <1>7, <1>8 DEF Execute, Refuse, Settings, StartClient

\* What is read as the expected response has been waiting.
LEMMA ReadsResponse ==
  ASSUME SocketInv, Driver, job = "telemetry", data' = "expected"
  PROVE  at = 3 /\ response = "expected"
<1>1. /\ call # NoCall /\ call.op \in SocketOps /\ call.socket = Api
      /\ at \in 1 .. 4 /\ step \in 1 .. Len(Script[call.op])
  BY DriverGoesOn, TelemetryCall, CallFacts DEF SocketInv
<1>2. Command # "reset"
  BY <1>1, SocketScripts DEF Command
<1>3. Exchange
  BY <1>2 DEF Driver, Unanswered, ResetPin
<1>4. Command = "R0" /\ data' \in Received
  BY <1>3 DEF Exchange
<1>5. call.op = "Receive"
  BY <1>1, <1>4, SocketScripts DEF Command
<1>6. at = 3
  BY <1>1, <1>5, TelemetryCall DEF SocketInv
<1> QED
  BY <1>1, <1>4, <1>6 DEF Received

LEMMA InitAccepted == Init => AcceptedInv
<1> SUFFICES ASSUME Init PROVE AcceptedInv
  OBVIOUS
<1>1. job = "none" /\ ret = "OK" /\ late = "none"
  BY DEF Init, DriverInit, ModuleInit
<1> QED
  BY <1>1, InitSocket DEF AcceptedInv, AnswerTypes, ResponseInv, ReadInv, ClosingInv

\* The exchange goes on to its next call.
LEMMA ContinueAccepted ==
  ASSUME AcceptedInv, Continue
  PROVE  ResponseInv' /\ ReadInv' /\ ClosingInv'
<1>1. /\ job' = job /\ at' = NextCall /\ failed' = JobFailed
      /\ data' = "none" /\ NextCall \in 1 .. Len(Plan[job])
      /\ UNCHANGED <<moduleVars, accepted, astray>>
  BY ContinueFacts DEF AcceptedInv, SocketInv, ghosts
<1>2. CASE job # "telemetry"
  BY <1>1, <1>2 DEF ResponseInv, ReadInv, ClosingInv
<1>3. CASE job = "telemetry"
  <2>1. at \in 1 .. 4 /\ NextCall \in 1 .. 4
    BY <1>1, <1>3, TelemetryPlan DEF Continue, Returned, AcceptedInv, SocketInv, CallInv
  <2>2. /\ Plan[job][at].op = "Receive" <=> at = 3
        /\ at # 4 => Plan[job][at].op # "Close"
    BY <1>3, <2>1, TelemetryPlan DEF Call
  <2>3. NextCall = at + 1 \/ (CallFailed /\ NextCall = 4)
    BY <1>3, <2>1, TelemetryPlan DEF NextCall, CallAfterFailure
  <2>4. at < 4
    BY <1>3, <2>1, TelemetryPlan DEF NextCall, CallAfterFailure
  <2>5. CallFailed => JobFailed
    BY <1>3, <2>2, <2>4 DEF JobFailed
  <2>6. ReadInv'
    BY <1>1 DEF ReadInv
  <2>7. ClosingInv'
    <3> SUFFICES ASSUME at' = 4, ~failed' PROVE accepted' \/ astray'
      BY <1>1, <1>3 DEF ClosingInv
    <3>1. ~CallFailed /\ at = 3
      BY <1>1, <2>1, <2>3, <2>5
    <3>2. data = "expected"
      BY <1>3, <2>2, <3>1 DEF CallFailed
    <3> QED
      BY <1>1, <1>3, <3>2 DEF AcceptedInv, ReadInv
  <2>8. ResponseInv'
    <3> SUFFICES ASSUME response' \in {"owed", "expected"},
                        at' \in {2, 3} \/ at' = 1
                 PROVE  accepted' \/ astray'
      BY DEF ResponseInv
    <3>1. at' = at + 1 /\ at \in {1, 2}
      BY <1>1, <2>1, <2>3
    <3>2. response \in {"owed", "expected"}
      BY <1>1 DEF moduleVars
    <3>3. CASE at = 2
      BY <1>1, <1>3, <3>2, <3>3 DEF AcceptedInv, ResponseInv
    <3>4. CASE at = 1
      <4>1. CallAfterFailure = 5
        BY <1>3, <3>4, TelemetryPlan DEF CallAfterFailure
      <4>2. ~CallFailed
        BY <2>1, <4>1 DEF NextCall
      <4>3. ret = "OK" /\ call = NoCall
        BY <4>2 DEF CallFailed, Continue, Returned, AcceptedInv, AnswerTypes
      <4> QED
        BY <1>1, <1>3, <3>2, <3>4, <4>3 DEF AcceptedInv, ResponseInv
    <3> QED
      BY <3>1, <3>3, <3>4
  <2> QED
    BY <2>6, <2>7, <2>8
<1> QED
  BY <1>2, <1>3

LEMMA DriverAccepted ==
  ASSUME AcceptedInv, Driver, UNCHANGED programVars
  PROVE  ResponseInv' /\ ReadInv' /\ ClosingInv'
<1>1. UNCHANGED <<job, at, failed>>
  BY DEF programVars, jobVars
<1>2. CASE job # "telemetry"
  BY <1>1, <1>2 DEF ResponseInv, ReadInv, ClosingInv
<1>3. CASE job = "telemetry"
  <2>1. /\ accepted \/ astray => accepted' \/ astray'
        /\ response' \in {"owed", "expected"} => response' = response \/ accepted'
    BY <1>3, DriverAccepts DEF AcceptedInv
  <2>2. ClosingInv'
    BY <1>1, <2>1 DEF AcceptedInv, ClosingInv
  <2>3. ReadInv'
    <3> SUFFICES ASSUME data' = "expected" PROVE accepted' \/ astray'
      BY DEF ReadInv
    <3>1. at = 3 /\ response = "expected"
      BY <1>3, ReadsResponse DEF AcceptedInv
    <3> QED
      BY <1>3, <2>1, <3>1 DEF AcceptedInv, ResponseInv
  <2>4. ResponseInv'
    <3> SUFFICES ASSUME response' \in {"owed", "expected"},
                        at \in {2, 3} \/ (at = 1 /\ call' = NoCall /\ ret' = "OK")
                 PROVE  accepted' \/ astray'
      BY <1>1 DEF ResponseInv
    <3>1. CASE at \in {2, 3}
      BY <1>3, <2>1, <3>1 DEF AcceptedInv, ResponseInv
    <3>2. CASE at = 1 /\ call' = NoCall /\ ret' = "OK"
      BY <1>3, <2>1, <3>2, OpenClears DEF AcceptedInv
    <3> QED
      BY <3>1, <3>2
  <2> QED
    BY <2>2, <2>3, <2>4
<1> QED
  BY <1>2, <1>3

LEMMA NextAccepted == AcceptedInv /\ [Next]_vars => AcceptedInv'
<1> SUFFICES ASSUME AcceptedInv, [Next]_vars PROVE AcceptedInv'
  OBVIOUS
<1>1. SocketInv'
  BY NextSocket DEF AcceptedInv
<1>2. CASE SomeBegins
  <2>1. PICK name \in Jobs : Begins(name)
    BY <1>2 DEF SomeBegins
  <2>2. call' # NoCall
    <3>1. 1 \in 1 .. Len(Plan[name])
      BY PlanFacts
    <3> QED
      BY <2>1, <3>1, FirstCommand DEF Begins
  <2> QED
    BY <1>1, <2>1, <2>2 DEF Begins, Apart, AcceptedInv, AnswerTypes, ResponseInv, ReadInv, ClosingInv
<1>3. CASE Ends
  BY <1>1, <1>3 DEF Ends, Apart, AcceptedInv, AnswerTypes, ResponseInv, ReadInv, ClosingInv
<1>4. CASE Stays
  BY <1>1, <1>4
     DEF Stays, moduleVars, ghosts, AcceptedInv, AnswerTypes, ResponseInv, ReadInv, ClosingInv
<1>5. CASE Continue
  <2>1. AnswerTypes'
    BY <1>5, ContinueFacts DEF AcceptedInv, SocketInv, AnswerTypes
  <2> QED
    BY <1>1, <1>5, <2>1, ContinueAccepted DEF AcceptedInv
<1>6. CASE Driver /\ UNCHANGED programVars
  BY <1>1, <1>6, DriverTypes, DriverAccepted DEF AcceptedInv
<1>7. CASE Surroundings /\ UNCHANGED programVars
  <2>1. /\ UNCHANGED <<job, at, failed, call, ret, data, late, accepted, astray>>
        /\ response' = response \/ (response = "owed" /\ response' = "expected")
    BY <1>7 DEF Surroundings, LinkLost, Answers, BecomeCalm, programVars, jobVars,
                driverVars, moduleVars, ghosts
  <2> QED
    BY <1>1, <2>1 DEF AcceptedInv, AnswerTypes, ResponseInv, ReadInv, ClosingInv
<1> QED
  BY <1>2, <1>3, <1>4, <1>5, <1>6, <1>7, StepKinds DEF AcceptedInv, SocketInv

THEOREM AcceptedInvariant == Spec => []AcceptedInv
  BY InitAccepted, NextAccepted, PTL DEF Spec

\* SendTelemetryCycle counts a success only for a request the server accepted,
\* although answers carry no name, late ones are taken for others', and the
\* server may answer an earlier request late or never (api_client.c:212-250);
\* unless a late OK was read, during this very request, for a command of it that
\* was not carried out.
THEOREM ReportedWasAccepted == Spec => []ReportedIsAccepted
<1>1. AcceptedInv => ReportedIsAccepted
  <2> SUFFICES ASSUME AcceptedInv, Returned, job = "telemetry",
                      NextCall > Len(Plan[job]), ~JobFailed
               PROVE  accepted \/ astray
    BY DEF ReportedIsAccepted
  <2>1. at \in 1 .. 4
    BY TelemetryPlan DEF Returned, AcceptedInv, SocketInv, CallInv
  <2>2. at # 4 => Plan[job][at].op # "Close"
    BY <2>1, TelemetryPlan DEF Call
  <2>3. at = 4
    BY <2>1, <2>2, TelemetryPlan DEF NextCall, JobFailed
  <2> QED
    BY <2>3 DEF AcceptedInv, ClosingInv, JobFailed
<1> QED
  BY <1>1, AcceptedInvariant, PTL

-----------------------------------------------------------------------------
(* AddressCurrent.                                                         *)

LEMMA ConnectPlan ==
  /\ \A op \in DOMAIN Script, i \in 1 .. 6 :
       i <= Len(Script[op]) /\ Script[op][i] = "C0" => op = "Connect"
  /\ \A name \in Jobs, i \in 1 .. 5 :
       i <= Len(Plan[name]) /\ Plan[name][i].op = "Connect" => name = "connect"
  /\ Len(Plan["connect"]) = 1 /\ Plan["connect"][1].op = "Connect"
<1>1. ASSUME NEW op \in DOMAIN Script, NEW i \in 1 .. 6,
             i <= Len(Script[op]), Script[op][i] = "C0"
      PROVE  op = "Connect"
  <2>1. CASE op \in SocketOps
    BY <1>1, <2>1, SocketScripts
  <2>2. CASE op \in {"Init", "Disconnect", "ResetModule"}
    BY <1>1, <2>2 DEF Script, ES_WIFI_Init, ES_WIFI_Disconnect, ES_WIFI_ResetModule
  <2> QED
    BY <2>1, <2>2, ScriptDomain DEF ModuleOps
<1>2. ASSUME NEW name \in Jobs, NEW i \in 1 .. 5,
             i <= Len(Plan[name]), Plan[name][i].op = "Connect"
      PROVE  name = "connect"
  <2> USE DEF Plan, Call
  <2>1. CASE name \in {"init", "ping", "poll", "puback", "mqtt_failed", "mqtt_dropped"}
    BY <1>2, <2>1 DEF ScheduleReconnect
  <2>2. CASE name = "recover"
    BY <1>2, <2>2 DEF RecoverWifi
  <2>3. CASE name = "telemetry"
    BY <1>2, <2>3 DEF ApiClient_SendTelemetry
  <2>4. CASE name = "wake"
    BY <1>2, <2>4 DEF Wol_SendMagicPacket
  <2>5. CASE name = "mqtt"
    BY <1>2, <2>5 DEF ConnectAndSubscribe
  <2> QED
    BY <2>1, <2>2, <2>3, <2>4, <2>5 DEF Jobs
<1>3. Len(Plan["connect"]) = 1 /\ Plan["connect"][1].op = "Connect"
  BY DEF Plan, Call
<1> QED
  BY <1>1, <1>2, <1>3

\* The network is joined only while the link is not trusted, and the address
\* that was read then is that of the network.
JoiningInv == job = "connect" => app_wifi_connected = FALSE
ReadAddressInv ==
  job = "connect" /\ call = NoCall /\ ret = "OK" /\ Associated /\ clean => IP_Addr = joined

\* As long as every command was answered, each answer was its own.
InStepInv == clean => late = "none" /\ ~astray

AddressInv ==
  CallInv /\ AnswerTypes /\ InStepInv /\ JoiningInv /\ ReadAddressInv /\ AddressCurrent

FlagsKept == UNCHANGED <<app_wifi_connected, app_local_ip>>
FlagsLowered == app_wifi_connected' = FALSE

LEMMA FailureFlags ==
  ASSUME NEW point, NEW session, RegisterFailure(point, session)
  PROVE  (FlagsKept \/ FlagsLowered) /\ job' # "connect"
  BY DEF RegisterFailure, Restarted, Start, Finish, FlagsKept, FlagsLowered

\* The flags are raised by Connected alone, and EnsureConnect alone begins to
\* join.
LEMMA FlagKinds ==
  ASSUME CallInv, [Next]_vars
  PROVE  /\ FlagsKept \/ FlagsLowered \/ Connected
         /\ job' = "connect" => job = "connect" \/ (app_wifi_connected = FALSE /\ FlagsKept)
<1> USE DEF FlagsKept, flags
<1>1. CASE Passing
  <2>1. CASE EnsureConnect
    BY <2>1 DEF EnsureConnect, Begin
  <2>2. CASE EnsureModule \/ ProcessConnects \/ ProcessPings \/ Poll \/ SendPubAck
             \/ StartTelemetry
    BY <2>2 DEF EnsureModule, ProcessConnects, ProcessPings, Poll, SendPubAck,
                StartTelemetry, Begin, Start
  <2>3. CASE EnsureSkips \/ ProcessWaits \/ ProcessSkipsPing \/ SkipTelemetry
    BY <2>3 DEF EnsureSkips, ProcessWaits, ProcessSkipsPing, SkipTelemetry, Skip
  <2> QED
    BY <1>1, <2>1, <2>2, <2>3 DEF Passing
<1>2. CASE Closing
  <2>1. CASE EnsureFails \/ ProcessFails \/ WakeFails \/ TelemetryFails
    BY <2>1, FailureFlags DEF EnsureFails, ProcessFails, WakeFails, TelemetryFails
  <2>2. CASE ModuleInitialized \/ Recovered \/ SessionOpened \/ Connected
    BY <2>2 DEF ModuleInitialized, Recovered, SessionOpened, Connected, Finish, FlagsLowered
  <2>3. CASE MqttFails \/ MalformedPacket \/ PubAckFails \/ WakeArrives
    BY <2>3 DEF MqttFails, MalformedPacket, PubAckFails, GiveUpSession, WakeArrives, Start
  <2>4. CASE WakeSucceeds \/ TelemetrySucceeds \/ IgnoredCommand \/ QuietEnd
    BY <2>4 DEF WakeSucceeds, TelemetrySucceeds, RegisterSuccess, IgnoredCommand, QuietEnd,
                OverQuietly, Finish
  <2> QED
    BY <1>2, <2>1, <2>2, <2>3, <2>4 DEF Closing
<1>3. CASE Continue
  BY <1>3 DEF Continue
<1>4. CASE UNCHANGED programVars \/ UNCHANGED vars
  BY <1>4 DEF programVars, jobVars, vars
<1>5. CASE Restart
  BY <1>5 DEF Restart, Restarted, FlagsLowered
<1> QED
  BY <1>1, <1>2, <1>3, <1>4, <1>5 DEF Next, Program, Passing, Closing, DriverStep, ModuleStep

LEMMA ExecuteJoined ==
  ASSUME NEW answer, Execute(answer)
  PROVE  /\ Command = "C0" \/ joined' \in {joined, NoNetwork}
         /\ Resets(answer) => joined' = NoNetwork
         /\ Command = "C?" => joined' = joined
<1>0. CASE Refuse(answer)
  BY <1>0 DEF Refuse, moduleVars, Resets
<1>1. CASE Command \in Settings
  BY <1>1 DEF Execute, Refuse, Settings, moduleVars, Resets
<1>2. CASE Command \in {"P0", "CD", "ZR"}
  BY <1>0, <1>2 DEF Execute, Settings, Forgotten, Resets
<1>3. CASE Command \in {"P6=1", "P6=0", "S3", "R0"}
  BY <1>0, <1>3 DEF Execute, Settings, StartClient, StopClient, SendData, HandOver, Resets
<1>4. CASE Command = "C0"
  BY <1>4 DEF Resets
<1> QED
  BY <1>0, <1>1, <1>2, <1>3, <1>4 DEF Execute

\* Outside of a join the module stays in its network or leaves it, and answers
\* fall into step only when it is reset.
LEMMA DriverJoined ==
  ASSUME CallInv, Driver, job # "connect"
  PROVE  /\ joined' \in {joined, NoNetwork}
         /\ clean' => clean \/ joined' = NoNetwork
<1>1. /\ call.op \in DOMAIN Script /\ step \in 1 .. 6 /\ step <= Len(Script[call.op])
      /\ job \in Jobs /\ at \in 1 .. 5 /\ at <= Len(Plan[job]) /\ call = Plan[job][at]
  <2>1. /\ call # NoCall
        /\ \A n \in 1 .. 6 : \A i \in 1 .. n : i \in 1 .. 6 /\ i <= n
        /\ \A n \in 1 .. 5 : \A i \in 1 .. n : i \in 1 .. 5 /\ i <= n
    BY DriverGoesOn
  <2>2. Len(Plan[job]) \in 1 .. 5
    BY <2>1, CallFacts, PlanFacts
  <2>3. /\ job \in Jobs /\ at \in 1 .. Len(Plan[job]) /\ call = Plan[job][at]
        /\ Len(Script[call.op]) \in 1 .. 6 /\ step \in 1 .. Len(Script[call.op])
        /\ call.op \in SocketOps \cup ModuleOps
    BY <2>1, CallFacts
  <2>4. call.op \in DOMAIN Script
    BY <2>3, ScriptDomain
  <2>5. step \in 1 .. 6 /\ step <= Len(Script[call.op])
    BY <2>1, <2>3
  <2>6. at \in 1 .. 5 /\ at <= Len(Plan[job])
    BY <2>1, <2>2, <2>3
  <2> QED
    BY <2>3, <2>4, <2>5, <2>6
<1>2. Command # "C0"
  BY <1>1, ConnectPlan DEF Command
<1>3. CASE Exchange
  <2>1. PICK answer \in {"OK", "ERROR"} :
          Execute(answer) /\ clean' = (clean \/ Resets(answer))
    BY <1>3 DEF Exchange
  <2> QED
    BY <1>2, <2>1, ExecuteJoined
<1>4. CASE Unanswered
  BY <1>2, <1>4, ExecuteJoined DEF Unanswered, moduleVars
<1>5. CASE ResetPin
  BY <1>5 DEF ResetPin, Forgotten
<1> QED
  BY <1>3, <1>4, <1>5 DEF Driver

LEMMA DriverReadsAddress ==
  ASSUME CallInv, InStepInv, Driver, job = "connect",
         call' = NoCall, ret' = "OK", clean'
  PROVE  IP_Addr' = joined'
<1>1. /\ call # NoCall /\ call.op = "Connect"
      /\ step \in 1 .. Len(Script[call.op])
  BY DriverGoesOn, CallFacts, ConnectPlan
<1>2. Script["Connect"] = <<"C1", "C2", "C3", "C0", "C?">>
  BY DEF Script, ES_WIFI_Connect
<1>3. Command \notin {"P2", "reset", "ZR"}
  BY <1>1, <1>2 DEF Command
<1>4. Exchange
  BY <1>3 DEF Driver, Unanswered, ResetPin
<1>5. late = "none"
  BY <1>3, <1>4 DEF Exchange, Resets, InStepInv
<1>6. PICK answer \in {"OK", "ERROR"} :
        Execute(answer) /\ Take(answer) /\ NetSettings(answer, TRUE)
  BY <1>4, <1>5 DEF Exchange
<1>7. answer = "OK" /\ step = 5
  BY <1>1, <1>2, <1>3, <1>6 DEF Take, GoesOn
<1>8. Command = "C?"
  BY <1>1, <1>2, <1>7 DEF Command
<1> QED
  BY <1>6, <1>7, <1>8, ExecuteJoined DEF NetSettings

\* The driver falls out of step with the first command unanswered, and into
\* step again when the module is reset.
LEMMA NextInStep ==
  ASSUME CallInv, InStepInv, [Next]_vars
  PROVE  InStepInv'
<1>1. CASE SomeBegins \/ Ends
  BY <1>1 DEF SomeBegins, Begins, Ends, Apart, InStepInv
<1>2. CASE Stays
  BY <1>2 DEF Stays, ghosts, InStepInv
<1>3. CASE Continue
  BY <1>3, ContinueFacts DEF ghosts, InStepInv
<1>4. CASE Exchange
  BY <1>4 DEF Exchange, Misled, InStepInv
<1>5. CASE Unanswered \/ ResetPin
  BY <1>5 DEF Unanswered, ResetPin, InStepInv
<1>6. CASE Surroundings
  BY <1>6 DEF Surroundings, LinkLost, Answers, BecomeCalm, ghosts, InStepInv
<1> QED
  BY <1>1, <1>2, <1>3, <1>4, <1>5, <1>6, StepKinds DEF Driver

LEMMA InitAddress == Init => AddressInv
<1> SUFFICES ASSUME Init PROVE AddressInv
  OBVIOUS
<1>1. job = "none" /\ app_wifi_connected = FALSE /\ late = "none" /\ ~astray
  BY DEF Init, ModuleInit
<1>2. CallInv /\ AnswerTypes
  BY InitAccepted DEF AcceptedInv, SocketInv
<1> QED
  BY <1>1, <1>2 DEF AddressInv, InStepInv, JoiningInv, ReadAddressInv, AddressCurrent

\* The join that ends well has read the address it hands on.
LEMMA ConnectedReads ==
  ASSUME AddressInv, Connected
  PROVE  AddressCurrent' /\ job' = "none"
<1>1. /\ job = "connect" /\ call = NoCall
      /\ NextCall > Len(Plan["connect"]) /\ JobFailed = FALSE
  BY DEF Connected, Over, Returned
<1>2. at = 1
  BY <1>1, ConnectPlan DEF AddressInv, CallInv
<1>3. ret = "OK"
  BY <1>1, <1>2, ConnectPlan DEF JobFailed, CallFailed, AddressInv, AnswerTypes
<1>4. UNCHANGED <<joined, clean, IP_Addr>> /\ job' = "none"
  BY DEF Connected, Over, Finish, moduleVars
<1>5. Associated /\ clean => IP_Addr = joined
  BY <1>1, <1>3 DEF AddressInv, ReadAddressInv
<1>6. app_wifi_connected' => app_local_ip' = IP_Addr
  BY DEF Connected
<1> QED
  BY <1>4, <1>5, <1>6 DEF AddressCurrent, Associated

\* A step that leaves the module alone leaves the address current.
LEMMA ProgramAddress ==
  ASSUME AddressInv, [Next]_vars, UNCHANGED <<joined, clean>>
  PROVE  JoiningInv' /\ AddressCurrent'
<1>1. CASE Connected
  BY <1>1, ConnectedReads DEF JoiningInv
<1>2. CASE FlagsLowered
  BY <1>2 DEF FlagsLowered, JoiningInv, AddressCurrent
<1>3. CASE FlagsKept
  <2>1. app_wifi_connected' = app_wifi_connected /\ app_local_ip' = app_local_ip
    BY <1>3 DEF FlagsKept
  <2>2. JoiningInv'
    BY <2>1, FlagKinds DEF AddressInv, JoiningInv
  <2>3. AddressCurrent'
    BY <2>1 DEF AddressInv, AddressCurrent, Associated
  <2> QED
    BY <2>2, <2>3
<1> QED
  BY <1>1, <1>2, <1>3, FlagKinds DEF AddressInv

LEMMA NextAddress == AddressInv /\ [Next]_vars => AddressInv'
<1> SUFFICES ASSUME AddressInv, [Next]_vars PROVE AddressInv'
  OBVIOUS
<1>1. CallInv'
  <2>1. [Next]_vars /\ CallInv
    BY DEF AddressInv
  <2> QED
    BY <2>1, NextCallInv
<1>0. InStepInv'
  <2>1. [Next]_vars /\ CallInv /\ InStepInv
    BY DEF AddressInv
  <2> QED
    BY <2>1, NextInStep
<1>2. CASE SomeBegins
  <2>1. PICK name \in Jobs : Begins(name)
    BY <1>2 DEF SomeBegins
  <2>2. call' # NoCall
    <3>1. 1 \in 1 .. Len(Plan[name])
      BY PlanFacts
    <3> QED
      BY <2>1, <3>1, FirstCommand DEF Begins
  <2>3. AnswerTypes' /\ UNCHANGED <<joined, clean>>
    BY <2>1 DEF Begins, Apart, moduleVars, AddressInv, AnswerTypes
  <2> QED
    BY <1>0, <1>1, <2>2, <2>3, ProgramAddress DEF AddressInv, ReadAddressInv
<1>3. CASE Ends
  <2>1. AnswerTypes' /\ UNCHANGED <<joined, clean>> /\ job' = "none"
    BY <1>3 DEF Ends, Apart, moduleVars, AddressInv, AnswerTypes
  <2> QED
    BY <1>0, <1>1, <2>1, ProgramAddress DEF AddressInv, ReadAddressInv
<1>4. CASE Stays
  <2>1. UNCHANGED <<job, call, ret, IP_Addr, joined, late, clean>>
    BY <1>4 DEF Stays, moduleVars, ghosts
  <2> QED
    BY <1>0, <1>1, <2>1, ProgramAddress
       DEF AddressInv, AnswerTypes, ReadAddressInv, Associated
<1>5. CASE Continue
  <2>1. /\ call' = Plan[job][NextCall] /\ job \in Jobs
        /\ NextCall \in 1 .. Len(Plan[job])
        /\ ret' = "OK" /\ UNCHANGED <<joined, late, clean>>
    BY <1>5, ContinueFacts DEF AddressInv, moduleVars, ghosts
  <2>2. call' # NoCall
    BY <2>1, FirstCommand
  <2>3. AnswerTypes'
    BY <2>1 DEF AddressInv, AnswerTypes
  <2> QED
    BY <1>0, <1>1, <2>1, <2>2, <2>3, ProgramAddress DEF AddressInv, ReadAddressInv
<1>6. CASE Driver /\ UNCHANGED programVars
  <2>1. UNCHANGED <<job, app_wifi_connected, app_local_ip>>
    BY <1>6 DEF programVars, jobVars, flags
  <2>2. AnswerTypes'
    BY <1>6, DriverTypes DEF AddressInv
  <2>3. JoiningInv'
    BY <2>1 DEF AddressInv, JoiningInv
  <2>4. ReadAddressInv'
    BY <1>6, <2>1, DriverReadsAddress DEF AddressInv, ReadAddressInv
  <2>5. AddressCurrent'
    <3>1. CASE job = "connect"
      BY <2>1, <3>1 DEF AddressInv, JoiningInv, AddressCurrent
    <3>2. CASE job # "connect"
      <4>1. /\ joined' \in {joined, NoNetwork}
            /\ clean' => clean \/ joined' = NoNetwork
        BY <1>6, <3>2, DriverJoined DEF AddressInv
      <4> QED
        BY <2>1, <4>1 DEF AddressInv, AddressCurrent, Associated
    <3> QED
      BY <3>1, <3>2
  <2> QED
    BY <1>0, <1>1, <2>2, <2>3, <2>4, <2>5 DEF AddressInv
<1>7. CASE Surroundings /\ UNCHANGED programVars
  <2>1. /\ UNCHANGED <<job, call, ret, IP_Addr, late, clean, app_wifi_connected,
                      app_local_ip>>
        /\ joined' \in {joined, NoNetwork}
    BY <1>7 DEF Surroundings, LinkLost, Answers, BecomeCalm, programVars, jobVars,
                flags, driverVars, moduleVars, ghosts
  <2> QED
    BY <1>0, <1>1, <2>1
       DEF AddressInv, AnswerTypes, JoiningInv, ReadAddressInv, AddressCurrent, Associated
<1> QED
  BY <1>2, <1>3, <1>4, <1>5, <1>6, <1>7, StepKinds DEF AddressInv

THEOREM AddressInvariant == Spec => []AddressInv
  BY InitAddress, NextAddress, PTL DEF Spec

\* As long as every command was answered since the module's reset, the address
\* in the payload, from which the broadcast address is made, is that of the
\* network the board is in, although a link is lost unnoticed, commands are
\* refused and IsConnected goes on claiming a connection (app.c:205,
\* es_wifi.c:839).  After an answer that came late the address may be an old one
\* or none, and the theorem says nothing.
THEOREM AddressIsCurrent == Spec => []AddressCurrent
<1>1. AddressInv => AddressCurrent
  BY DEF AddressInv
<1> QED
  BY <1>1, AddressInvariant, PTL

-----------------------------------------------------------------------------
(* SocketsReturned.                                                        *)

Session == IF mqtt_connected THEN {Mqtt} ELSE {}

\* The socket a job may have open in the middle of its calls.
Opened(socket, last) ==
  IF \/ 1 < at /\ at < last
     \/ at = 1 /\ call = NoCall /\ ret = "OK"
     \/ at = last /\ call # NoCall
  THEN {socket} ELSE {}

Borrowed ==
  IF job = "telemetry" THEN Opened(Api, 4)
  ELSE IF job = "wake" THEN Opened(Wol, 3)
  ELSE IF job = "mqtt" \/ (job \in {"mqtt_failed", "mqtt_dropped"} /\ call # NoCall)
  THEN {Mqtt} ELSE {}

\* A module that answered every command and refused no close has no other socket
\* open; what a recovery leaves is of no account, since the module is reset after
\* it.
OpenInv ==
  clean /\ ~leaked /\ app_wifi_module_ready /\ job # "recover" =>
    open \subseteq Session \cup Borrowed

BringUpInv ==
  job = "init" =>
    /\ ~app_wifi_module_ready
    /\ step > 1 \/ call = NoCall => open = {}

GivenUpInv == job \in {"mqtt_failed", "mqtt_dropped"} => ~mqtt_connected

ReturnedInv ==
  SocketInv /\ AnswerTypes /\ OpenInv /\ InStepInv /\ BringUpInv /\ GivenUpInv

ModuleKept == UNCHANGED <<open, late, clean, leaked>> /\ astray' \in {astray, FALSE}

LEMMA InitReturned == Init => ReturnedInv
<1> SUFFICES ASSUME Init PROVE ReturnedInv
  OBVIOUS
<1>1. /\ job = "none" /\ app_wifi_module_ready = FALSE /\ late = "none" /\ ~astray
      /\ SocketInv /\ AnswerTypes
  BY InitAccepted DEF Init, DriverInit, ModuleInit, AcceptedInv
<1> QED
  BY <1>1 DEF ReturnedInv, OpenInv, InStepInv, BringUpInv, GivenUpInv

\* The other invariants are kept in every step that leaves the module alone.
LEMMA KeptInStep ==
  ASSUME InStepInv, ModuleKept
  PROVE  InStepInv'
  BY DEF InStepInv, ModuleKept

LEMMA StartFacts ==
  ASSUME NEW name \in Jobs, Start(name)
  PROVE  /\ job' = name /\ at' = 1 /\ step' = 1 /\ call' # NoCall
         /\ call' = Plan[name][1]
<1>1. 1 \in 1 .. Len(Plan[name])
  BY PlanFacts
<1>2. Call(Plan[name][1].op, Plan[name][1].socket) = Plan[name][1]
  BY <1>1, PlanFacts
<1> QED
  BY <1>1, <1>2, FirstCommand DEF Start, StartCall

\* Between jobs nothing is borrowed.
LEMMA BeginReturned ==
  ASSUME ReturnedInv, NEW point, NEW name \in Jobs, NEW after, Begin(point, name, after),
         name = "init" => ~app_wifi_module_ready,
         name \notin {"recover", "mqtt_failed", "mqtt_dropped"}
  PROVE  OpenInv' /\ InStepInv' /\ BringUpInv' /\ GivenUpInv'
<1>1. /\ job = "none" /\ ModuleKept
      /\ job' = name /\ step' = 1 /\ call' # NoCall
      /\ UNCHANGED <<app_wifi_module_ready, mqtt_connected>>
  BY StartFacts DEF Begin, Idle, moduleVars, ghosts, flags, ModuleKept
<1>2. OpenInv'
  <2>1. Borrowed = {}
    BY <1>1 DEF Borrowed
  <2>2. Session' = Session
    BY <1>1 DEF Session
  <2> QED
    BY <1>1, <2>1, <2>2 DEF ReturnedInv, OpenInv, ModuleKept
<1> QED
  BY <1>1, <1>2, KeptInStep DEF ReturnedInv, BringUpInv, GivenUpInv

LEMMA PassingReturned ==
  ASSUME ReturnedInv, Passing
  PROVE  OpenInv' /\ InStepInv' /\ BringUpInv' /\ GivenUpInv'
<1> USE DEF Jobs
<1>1. CASE EnsureModule
  BY <1>1, BeginReturned DEF EnsureModule
<1>2. CASE EnsureConnect
  BY <1>2, BeginReturned DEF EnsureConnect
<1>3. CASE ProcessConnects \/ ProcessPings \/ Poll
  BY <1>3, BeginReturned DEF ProcessConnects, ProcessPings, Poll
<1>4. CASE SendPubAck \/ StartTelemetry
  BY <1>4, BeginReturned DEF SendPubAck, StartTelemetry
<1>5. CASE EnsureSkips \/ ProcessWaits \/ ProcessSkipsPing \/ SkipTelemetry
  <2>1. UNCHANGED <<job, at, call, ret, step, open, late, ghosts,
                    app_wifi_module_ready, mqtt_connected>>
    BY <1>5 DEF EnsureSkips, ProcessWaits, ProcessSkipsPing, SkipTelemetry, Skip,
                driverVars, moduleVars, flags
  <2>2. Session' = Session /\ Borrowed' = Borrowed
    BY <2>1 DEF Session, Borrowed, Opened
  <2> QED
    BY <2>1, <2>2 DEF ghosts, ReturnedInv, OpenInv, InStepInv, BringUpInv, GivenUpInv
<1> QED
  BY <1>1, <1>2, <1>3, <1>4, <1>5 DEF Passing

LEMMA WakePlan ==
  /\ Len(Plan["wake"]) = 3
  /\ Plan["wake"][1] = Call("OpenUdp", Wol)
  /\ Plan["wake"][2] = Call("Send", Wol)
  /\ Plan["wake"][3] = Call("Close", Wol)
  BY DEF Plan, Wol_SendMagicPacket

\* A job that is over has given back what it borrowed, but for the session.
LEMMA OverReturns ==
  ASSUME ReturnedInv, NEW name, NEW outcome, Over(name, outcome), name # "mqtt"
  PROVE  /\ Borrowed = {} /\ ModuleKept
         /\ clean /\ ~leaked /\ app_wifi_module_ready /\ name # "recover" =>
              open \subseteq Session
<1>1. job = name /\ call = NoCall /\ NextCall > Len(Plan[job]) /\ ModuleKept
  BY DEF Over, Returned, moduleVars, ModuleKept
<1>2. ASSUME name = "telemetry" PROVE Borrowed = {}
  <2>1. at \in 1 .. 4
    BY <1>1, <1>2, TelemetryPlan DEF ReturnedInv, SocketInv, CallInv
  <2>2. at \notin {2, 3}
    BY <1>1, <1>2, TelemetryPlan DEF NextCall, CallAfterFailure
  <2>3. at = 1 => ret = "ERROR"
    BY <1>1, <1>2, TelemetryPlan DEF NextCall, CallFailed, Call
  <2> QED
    BY <1>1, <1>2, <2>1, <2>2, <2>3 DEF Borrowed, Opened
<1>3. ASSUME name = "wake" PROVE Borrowed = {}
  <2>1. at \in 1 .. 3
    BY <1>1, <1>3, WakePlan DEF ReturnedInv, SocketInv, CallInv
  <2>2. at # 2
    BY <1>1, <1>3, WakePlan DEF NextCall, CallAfterFailure
  <2>3. at = 1 => ret = "ERROR"
    BY <1>1, <1>3, WakePlan DEF NextCall, CallFailed, Call
  <2> QED
    BY <1>1, <1>3, <2>1, <2>2, <2>3 DEF Borrowed, Opened
<1>4. ASSUME name \notin {"telemetry", "wake"} PROVE Borrowed = {}
  BY <1>1, <1>4 DEF Borrowed
<1>5. Borrowed = {}
  BY <1>2, <1>3, <1>4
<1> QED
  BY <1>1, <1>5 DEF ReturnedInv, OpenInv

\* A job ends and none follows.
LEMMA FinishReturned ==
  ASSUME ReturnedInv, ModuleKept, job' = "none",
         clean /\ ~leaked /\ app_wifi_module_ready' => open \subseteq Session'
  PROVE  OpenInv' /\ InStepInv' /\ BringUpInv' /\ GivenUpInv'
<1>1. OpenInv'
  BY DEF OpenInv, ModuleKept
<1> QED
  BY <1>1, KeptInStep DEF ReturnedInv, BringUpInv, GivenUpInv

LEMMA FailureReturned ==
  ASSUME ReturnedInv, ModuleKept, NEW point, NEW session, RegisterFailure(point, session),
         clean /\ ~leaked /\ app_wifi_module_ready =>
           open \subseteq IF session THEN {Mqtt} ELSE {}
  PROVE  OpenInv' /\ InStepInv' /\ BringUpInv' /\ GivenUpInv'
<1>1. CASE Restarted
  BY <1>1, FinishReturned DEF Restarted
<1>2. CASE Start("recover")
  <2>1. job' = "recover"
    BY <1>2 DEF Start
  <2> QED
    BY <2>1, KeptInStep DEF ReturnedInv, OpenInv, BringUpInv, GivenUpInv
<1>3. CASE ~Restarted /\ ~Start("recover")
  <2>1. ~Recovers /\ Finish /\ mqtt_connected' = (session /\ ~Recovers)
        /\ UNCHANGED app_wifi_module_ready
    BY <1>3 DEF RegisterFailure
  <2>2. Session' = IF session THEN {Mqtt} ELSE {}
    BY <2>1 DEF Session
  <2> QED
    BY <2>1, <2>2, FinishReturned DEF Finish
<1> QED
  BY <1>1, <1>2, <1>3

LEMMA GiveUpReturned ==
  ASSUME ReturnedInv, NEW name \in {"mqtt", "ping", "poll", "puback"}, NEW outcome,
         NEW closing \in {"mqtt_failed", "mqtt_dropped"}, GiveUpSession(name, outcome, closing)
  PROVE  OpenInv' /\ InStepInv' /\ BringUpInv' /\ GivenUpInv'
<1>1. /\ job = name /\ ModuleKept
      /\ job' = closing /\ call' # NoCall
      /\ mqtt_connected' = FALSE /\ UNCHANGED app_wifi_module_ready
  BY StartFacts DEF GiveUpSession, Over, moduleVars, ModuleKept, Jobs
<1>2. Session \cup Borrowed \subseteq {Mqtt}
  BY <1>1 DEF Session, Borrowed
<1>3. Borrowed' = {Mqtt}
  BY <1>1 DEF Borrowed
<1>4. OpenInv'
  BY <1>1, <1>2, <1>3 DEF ReturnedInv, OpenInv, ModuleKept
<1> QED
  BY <1>1, <1>4, KeptInStep DEF ReturnedInv, BringUpInv, GivenUpInv

LEMMA ClosingReturned ==
  ASSUME ReturnedInv, Closing
  PROVE  OpenInv' /\ InStepInv' /\ BringUpInv' /\ GivenUpInv'
<1>1. CASE ModuleInitialized
  <2>1. job = "init" /\ call = NoCall /\ ModuleKept /\ job' = "none"
    BY <1>1 DEF ModuleInitialized, Over, Returned, Finish, moduleVars, ModuleKept
  <2>2. open = {}
    BY <2>1 DEF ReturnedInv, BringUpInv
  <2> QED
    BY <2>1, <2>2, FinishReturned
<1>2. CASE Connected \/ WakeSucceeds \/ TelemetrySucceeds
  <2>1. PICK name \in {"connect", "wake", "telemetry"} : Over(name, FALSE)
    BY <1>2 DEF Connected, WakeSucceeds, TelemetrySucceeds
  <2>2. job' = "none" /\ UNCHANGED <<app_wifi_module_ready, mqtt_connected>>
    BY <1>2 DEF Connected, WakeSucceeds, TelemetrySucceeds, RegisterSuccess, Finish, flags
  <2>3. Session' = Session
    BY <2>2 DEF Session
  <2> QED
    BY <2>1, <2>2, <2>3, OverReturns, FinishReturned
<1>3. CASE EnsureFails \/ WakeFails \/ TelemetryFails
  <2>1. PICK name \in {"init", "connect", "wake", "telemetry"} : Over(name, TRUE)
    BY <1>3 DEF EnsureFails, WakeFails, TelemetryFails
  <2>2. PICK point : RegisterFailure(point, mqtt_connected)
    BY <1>3 DEF EnsureFails, WakeFails, TelemetryFails
  <2> QED
    BY <2>1, <2>2, OverReturns, FailureReturned DEF Session
<1>4. CASE ProcessFails
  <2>1. /\ Over("mqtt_failed", FALSE) /\ RegisterFailure("due", FALSE)
        /\ job = "mqtt_failed"
    BY <1>4 DEF ProcessFails, Over
  <2>2. Session = {}
    BY <2>1 DEF ReturnedInv, GivenUpInv, Session
  <2>3. ModuleKept /\ (clean /\ ~leaked /\ app_wifi_module_ready => open \subseteq {})
    <3>1. PICK name \in {"mqtt_failed"}, outcome \in BOOLEAN : Over(name, outcome)
      BY <2>1
    <3> QED
      BY <2>2, <3>1, OverReturns
  <2> QED
    BY <2>1, <2>3, FailureReturned
<1>5. CASE Recovered
  BY <1>5, OverReturns, FinishReturned DEF Recovered, Finish
<1>6. CASE SessionOpened
  <2>1. /\ job = "mqtt" /\ ModuleKept /\ job' = "none"
        /\ mqtt_connected' = TRUE /\ UNCHANGED app_wifi_module_ready
    BY <1>6 DEF SessionOpened, Over, Finish, moduleVars, ModuleKept
  <2>2. Session \cup Borrowed \subseteq {Mqtt} /\ Session' = {Mqtt}
    BY <2>1 DEF Session, Borrowed
  <2> QED
    BY <2>1, <2>2, FinishReturned DEF ReturnedInv, OpenInv
<1>7. CASE MqttFails \/ MalformedPacket \/ PubAckFails
  BY <1>7, GiveUpReturned DEF MqttFails, MalformedPacket, PubAckFails
<1>8. CASE WakeArrives
  <2>1. Over("poll", FALSE) /\ Start("wake") /\ UNCHANGED <<app_wifi_module_ready, mqtt_connected>>
    BY <1>8 DEF WakeArrives, flags
  <2>2. /\ ModuleKept
        /\ clean /\ ~leaked /\ app_wifi_module_ready => open \subseteq Session
    <3>1. PICK name \in {"poll"}, outcome \in BOOLEAN : Over(name, outcome)
      BY <2>1
    <3> QED
      BY <3>1, OverReturns
  <2>3. Session' = Session
    BY <2>1 DEF Session
  <2>4. OpenInv'
    BY <2>1, <2>2, <2>3 DEF OpenInv, ModuleKept
  <2>5. job' = "wake"
    BY <2>1 DEF Start
  <2> QED
    BY <2>2, <2>4, <2>5, KeptInStep DEF ReturnedInv, BringUpInv, GivenUpInv
<1>9. CASE QuietEnd \/ IgnoredCommand
  <2>1. PICK name \in {"ping", "poll", "puback", "mqtt_dropped"}, outcome \in BOOLEAN :
          OverQuietly(name, outcome) \/ (Over(name, outcome) /\ IgnoredCommand)
    BY <1>9 DEF QuietEnd, IgnoredCommand
  <2>2. /\ Over(name, outcome) /\ job' = "none"
        /\ UNCHANGED <<app_wifi_module_ready, mqtt_connected>>
    BY <2>1 DEF OverQuietly, IgnoredCommand, Finish, flags
  <2>3. Session' = Session
    BY <2>2 DEF Session
  <2> QED
    BY <2>2, <2>3, OverReturns, FinishReturned
<1> QED
  BY <1>1, <1>2, <1>3, <1>4, <1>5, <1>6, <1>7, <1>8, <1>9 DEF Closing

\* Which calls close a socket, and which one.
LEMMA ClosePlan ==
  ASSUME NEW name \in Jobs \ {"recover"}, NEW i \in 1 .. Len(Plan[name])
  PROVE  /\ name = "telemetry" => i \in 1 .. 4 /\ Plan[name][i].socket = Api
                                  /\ (Plan[name][i].op = "Close" <=> i = 4)
         /\ name = "wake" => i \in 1 .. 3 /\ Plan[name][i].socket = Wol
                             /\ (Plan[name][i].op = "Close" <=> i = 3)
         /\ name \in {"mqtt_failed", "mqtt_dropped"} => Plan[name][i] = Call("Close", Mqtt)
         /\ name = "mqtt" => Plan[name][i].op # "Close"
<1>1. CASE name = "telemetry"
  BY <1>1, TelemetryPlan DEF Call
<1>2. CASE name = "wake"
  BY <1>2, WakePlan DEF Call
<1>3. CASE name \in {"mqtt_failed", "mqtt_dropped"}
  BY <1>3 DEF Plan, ScheduleReconnect
<1>4. CASE name = "mqtt"
  BY <1>4 DEF Plan, ConnectAndSubscribe, Call
<1> QED
  BY <1>1, <1>2, <1>3, <1>4

\* The longer jobs go from call to call; what they borrowed they keep.
LEMMA ContinueReturned ==
  ASSUME ReturnedInv, Continue
  PROVE  OpenInv' /\ InStepInv' /\ BringUpInv' /\ GivenUpInv'
<1>1. /\ job \in Jobs /\ job' = job /\ at' = NextCall
      /\ NextCall \in 1 .. Len(Plan[job]) /\ at \in 1 .. Len(Plan[job])
      /\ call' = Plan[job][NextCall] /\ step' = 1 /\ call' # NoCall
      /\ ModuleKept /\ UNCHANGED <<app_wifi_module_ready, mqtt_connected>>
  <2>1. /\ job \in Jobs /\ job' = job /\ at' = NextCall
        /\ NextCall \in 1 .. Len(Plan[job])
        /\ call' = Plan[job][NextCall] /\ step' = 1
    BY ContinueFacts DEF ReturnedInv, SocketInv
  <2>2. call' # NoCall
    BY <2>1, FirstCommand
  <2>3. at \in 1 .. Len(Plan[job])
    BY DEF Continue, Returned, ReturnedInv, SocketInv, CallInv
  <2>4. ModuleKept /\ UNCHANGED <<app_wifi_module_ready, mqtt_connected>>
    BY DEF Continue, moduleVars, ghosts, ModuleKept, flags
  <2> QED
    BY <2>1, <2>2, <2>3, <2>4
<1>2. Len(Plan[job]) \in 1 .. 5
  BY <1>1, PlanFacts
<1>3. NextCall > 1
  BY <1>1, <1>2 DEF NextCall, CallAfterFailure
<1>4. Session' = Session
  BY <1>1 DEF Session
<1>5. Borrowed \subseteq Borrowed'
  <2>1. CASE job = "telemetry"
    BY <1>1, <1>3, <2>1, TelemetryPlan DEF Borrowed, Opened
  <2>2. CASE job = "wake"
    BY <1>1, <1>3, <2>2, WakePlan DEF Borrowed, Opened
  <2>3. CASE job \notin {"telemetry", "wake"}
    BY <1>1, <2>3 DEF Borrowed
  <2> QED
    BY <2>1, <2>2, <2>3
<1>6. OpenInv'
  BY <1>1, <1>4, <1>5 DEF ReturnedInv, OpenInv, ModuleKept
<1>7. BringUpInv'
  <2>1. Len(Plan["init"]) = 1
    BY DEF Plan
  <2> QED
    BY <1>1, <1>3, <2>1 DEF BringUpInv
<1> QED
  BY <1>1, <1>6, <1>7, KeptInStep DEF ReturnedInv, GivenUpInv

LEMMA NextAnswers ==
  ASSUME CallInv, AnswerTypes, [Next]_vars
  PROVE  AnswerTypes'
<1>1. CASE SomeBegins \/ Ends
  BY <1>1 DEF SomeBegins, Begins, Ends, Apart, AnswerTypes
<1>2. CASE Stays
  BY <1>2 DEF Stays, AnswerTypes
<1>3. CASE Continue
  BY <1>3, ContinueFacts DEF AnswerTypes
<1>4. CASE Driver
  BY <1>4, DriverTypes
<1>5. CASE Surroundings
  BY <1>5 DEF Surroundings, LinkLost, Answers, BecomeCalm, driverVars, AnswerTypes
<1> QED
  BY <1>1, <1>2, <1>3, <1>4, <1>5, StepKinds

\* Sockets are opened by the first call of the jobs that borrow them.
LEMMA OpenPlan ==
  ASSUME NEW name \in Jobs, NEW i \in 1 .. Len(Plan[name]),
         Plan[name][i].op \in {"OpenTcp", "OpenUdp"}
  PROVE  /\ i = 1 /\ name \in {"telemetry", "wake", "mqtt"}
         /\ name = "telemetry" => Plan[name][i].socket = Api
         /\ name = "wake" => Plan[name][i].socket = Wol
         /\ name = "mqtt" => Plan[name][i].socket = Mqtt
<1> USE DEF Call
<1>1. CASE name \in {"init", "connect", "ping", "poll", "puback"}
  BY <1>1 DEF Plan
<1>2. CASE name = "recover"
  BY <1>2 DEF Plan, RecoverWifi
<1>3. CASE name = "telemetry"
  BY <1>3, TelemetryPlan
<1>4. CASE name = "wake"
  BY <1>4, WakePlan
<1>5. CASE name = "mqtt"
  BY <1>5 DEF Plan, ConnectAndSubscribe
<1>6. CASE name \in {"mqtt_failed", "mqtt_dropped"}
  BY <1>6 DEF Plan, ScheduleReconnect
<1> QED
  BY <1>1, <1>2, <1>3, <1>4, <1>5, <1>6 DEF Jobs

LEMMA OpenScripts ==
  ASSUME NEW op \in SocketOps \cup ModuleOps, NEW i \in 1 .. Len(Script[op]),
         Script[op][i] = "P6=1"
  PROVE  op \in {"OpenTcp", "OpenUdp"} /\ i = Len(Script[op]) /\ i > 1
<1>1. op \notin ModuleOps
  BY ModuleScripts DEF ThroughSocket
<1>2. CASE op = "OpenTcp"
  BY <1>2 DEF Script, StartTcpClient
<1>3. CASE op = "OpenUdp"
  BY <1>3 DEF Script, StartUdpClient
<1>4. CASE op = "Close"
  BY <1>4 DEF Script, ES_WIFI_StopClientConnection
<1>5. CASE op = "Send"
  BY <1>5 DEF Script, ES_WIFI_SendData
<1>6. CASE op = "Receive"
  BY <1>6 DEF Script, ES_WIFI_ReceiveData
<1> QED
  BY <1>1, <1>2, <1>3, <1>4, <1>5, <1>6 DEF SocketOps

LEMMA ExecuteOpens ==
  ASSUME NEW answer, Execute(answer)
  PROVE  /\ \/ open' \subseteq open
            \/ Command = "P6=1" /\ answer = "OK" /\ open' = open \cup {selected}
         /\ Command = "P6=0" /\ answer = "OK" => open' = open \ {selected}
         /\ Resets(answer) => open' = {}
         /\ Command = "I?" => open' = open
<1>0. CASE Refuse(answer)
  BY <1>0 DEF Refuse, moduleVars, Resets
<1>1. CASE Command \in Settings
  BY <1>1 DEF Execute, Refuse, Settings, moduleVars, Resets
<1>2. CASE Command \in {"P0", "C0", "CD", "ZR"}
  BY <1>0, <1>2 DEF Execute, Settings, Join, Left, Forgotten, Resets
<1>3. CASE Command \in {"P6=1", "P6=0", "S3", "R0"}
  BY <1>0, <1>3
     DEF Execute, Settings, StartClient, StopClient, SendData, HandOver, Resets
<1> QED
  BY <1>1, <1>2, <1>3, <1>0 DEF Execute

\* The reset pin is the first command of the bring-up.
LEMMA BringUpClears ==
  ASSUME ReturnedInv, Driver, job = "init", step' > 1 \/ call' = NoCall
  PROVE  open' = {}
<1>1. /\ call # NoCall /\ call = Plan["init"][1]
      /\ step \in 1 .. Len(Script[call.op])
  <2>1. Len(Plan["init"]) = 1
    BY DEF Plan
  <2> QED
    BY <2>1, DriverGoesOn, CallFacts DEF ReturnedInv, SocketInv
<1>2. call.op = "Init"
  BY <1>1 DEF Plan, Call
<1>3. Script["Init"] = <<"reset", "I?">>
  BY DEF Script, ES_WIFI_Init
<1>4. CASE step = 1
  BY <1>2, <1>3, <1>4 DEF Command, Driver, Exchange, Unanswered, ResetPin, Forgotten
<1>5. CASE step = 2
  <2>1. Command = "I?" /\ open = {}
    BY <1>2, <1>3, <1>5 DEF Command, ReturnedInv, BringUpInv
  <2> QED
    BY <2>1, ExecuteOpens DEF Driver, Exchange, Unanswered, ResetPin, moduleVars
<1> QED
  BY <1>1, <1>2, <1>3, <1>4, <1>5

\* A call that was answered and has returned leaves open what it should, if it
\* was not a close refused.
LEMMA ExchangeReturned ==
  ASSUME ReturnedInv, Exchange, UNCHANGED programVars, clean, ~leaked',
         app_wifi_module_ready, job # "recover"
  PROVE  open' \subseteq Session \cup Borrowed'
<1>1. /\ call # NoCall
      /\ job \in Jobs /\ at \in 1 .. Len(Plan[job]) /\ call = Plan[job][at]
      /\ call.op \in SocketOps \cup ModuleOps
      /\ step \in 1 .. Len(Script[call.op]) /\ Len(Script[call.op]) \in 1 .. 6
  BY CallFacts DEF ReturnedInv, SocketInv, Exchange
<1>2. UNCHANGED <<job, at>>
  BY DEF programVars, jobVars
<1>3. PICK answer \in {"OK", "ERROR"} :
        /\ Execute(answer) /\ Take(answer)
        /\ ~Resets(answer) =>
             ~leaked /\ (call.op = "Close" /\ call.socket \in open => answer = "OK")
  BY DEF ReturnedInv, InStepInv, Exchange
<1>0. ~astray
  BY DEF ReturnedInv, InStepInv
<1>10. CASE Resets(answer)
  BY <1>3, <1>10, ExecuteOpens
<1> SUFFICES ASSUME ~Resets(answer) PROVE open' \subseteq Session \cup Borrowed'
  BY <1>10
<1>4. open \subseteq Session \cup Borrowed
  BY <1>3 DEF ReturnedInv, OpenInv
<1>5. /\ job = "telemetry" => at \in 1 .. 4 /\ call.socket = Api /\ (call.op = "Close" <=> at = 4)
      /\ job = "wake" => at \in 1 .. 3 /\ call.socket = Wol /\ (call.op = "Close" <=> at = 3)
      /\ job \in {"mqtt_failed", "mqtt_dropped"} => call = Call("Close", Mqtt)
      /\ job = "mqtt" => call.op # "Close"
  BY <1>1, ClosePlan
<1>6. CASE Command = "P6=1" /\ answer = "OK" /\ open' = open \cup {selected}
  <2>1. call.op \in {"OpenTcp", "OpenUdp"} /\ step = Len(Script[call.op]) /\ step > 1
    BY <1>1, <1>6, OpenScripts DEF Command
  <2>2. call' = NoCall /\ ret' = "OK"
    BY <1>1, <1>3, <1>6, <2>1 DEF Take, GoesOn
  <2>3. selected = call.socket
    BY <1>0, <2>1 DEF ReturnedInv, SocketInv, SelectedInv, SocketOps
  <2>4. /\ at = 1 /\ job \in {"telemetry", "wake", "mqtt"}
        /\ job = "telemetry" => selected = Api
        /\ job = "wake" => selected = Wol
        /\ job = "mqtt" => selected = Mqtt
    BY <1>1, <2>1, <2>3, OpenPlan
  <2>5. Borrowed' = {selected}
    BY <1>2, <2>2, <2>4 DEF Borrowed, Opened
  <2>6. Borrowed \subseteq {selected}
    BY <2>4 DEF Borrowed, Opened
  <2> QED
    BY <1>4, <1>6, <2>5, <2>6
<1>7. CASE open' \subseteq open /\ call' = call
  <2>1. Borrowed' = Borrowed
    BY <1>1, <1>2, <1>7 DEF Borrowed, Opened
  <2> QED
    BY <1>4, <1>7, <2>1
<1>8. CASE open' \subseteq open /\ call' = NoCall /\ call.op = "Close"
  <2>1. Script["Close"] = <<"P0", "P6=0">>
    BY DEF Script, ES_WIFI_StopClientConnection
  <2>3. open' \subseteq open \ {call.socket}
    <3>1. CASE call.socket \notin open
      BY <1>8, <3>1
    <3>2. CASE call.socket \in open
      <4>1. answer = "OK" /\ step = 2
        BY <1>1, <1>3, <1>8, <2>1, <3>2 DEF Take, GoesOn
      <4>2. Command = "P6=0"
        BY <1>8, <2>1, <4>1 DEF Command
      <4>3. selected = call.socket
        BY <1>0, <1>8, <4>1 DEF ReturnedInv, SocketInv, SelectedInv, SocketOps
      <4> QED
        BY <1>3, <4>1, <4>2, <4>3, ExecuteOpens
    <3> QED
      BY <3>1, <3>2
  <2>4. Borrowed \subseteq {call.socket}
    <3>1. CASE job \in {"telemetry", "wake"}
      BY <1>5, <3>1 DEF Borrowed, Opened
    <3>2. CASE job \in {"mqtt_failed", "mqtt_dropped"}
      BY <1>5, <3>2 DEF Borrowed, Call
    <3>3. CASE job \notin {"telemetry", "wake", "mqtt_failed", "mqtt_dropped"}
      BY <1>8, <1>5, <3>3 DEF Borrowed
    <3> QED
      BY <3>1, <3>2, <3>3
  <2> QED
    BY <1>4, <2>3, <2>4
<1>9. CASE open' \subseteq open /\ call' = NoCall /\ call.op # "Close"
  <2>1. Borrowed \subseteq Borrowed'
    <3>1. CASE job = "telemetry"
      BY <1>1, <1>2, <1>9, <1>5, <3>1 DEF Borrowed, Opened
    <3>2. CASE job = "wake"
      BY <1>1, <1>2, <1>9, <1>5, <3>2 DEF Borrowed, Opened
    <3>3. job \notin {"mqtt_failed", "mqtt_dropped"}
      BY <1>9, <1>5 DEF Call
    <3>4. CASE job \notin {"telemetry", "wake"}
      BY <1>2, <3>3, <3>4 DEF Borrowed
    <3> QED
      BY <3>1, <3>2, <3>4
  <2> QED
    BY <1>4, <1>9, <2>1
<1> QED
  BY <1>3, <1>6, <1>7, <1>8, <1>9, ExecuteOpens DEF Take

LEMMA DriverReturned ==
  ASSUME ReturnedInv, Driver, UNCHANGED programVars
  PROVE  OpenInv' /\ InStepInv' /\ BringUpInv' /\ GivenUpInv'
<1>1. UNCHANGED <<job, at, app_wifi_module_ready, mqtt_connected>>
  BY DEF programVars, jobVars, flags
<1>2. InStepInv'
  BY DEF Driver, Exchange, Unanswered, ResetPin, Misled, ReturnedInv, InStepInv
<1>3. BringUpInv'
  BY <1>1, BringUpClears DEF ReturnedInv, BringUpInv
<1>4. GivenUpInv'
  BY <1>1 DEF ReturnedInv, GivenUpInv
<1>5. OpenInv'
  <2> SUFFICES ASSUME clean', ~leaked', app_wifi_module_ready', job' # "recover"
               PROVE  open' \subseteq Session' \cup Borrowed'
    BY DEF OpenInv
  <2>1. Session' = Session
    BY <1>1 DEF Session
  <2>2. CASE ResetPin
    BY <2>2 DEF ResetPin, Forgotten
  <2>3. CASE Exchange /\ clean
    BY <1>1, <2>1, <2>3, ExchangeReturned
  <2>4. CASE Exchange /\ ~clean
    <3>1. PICK answer : Execute(answer) /\ Resets(answer)
      BY <2>4 DEF Exchange
    <3> QED
      BY <3>1, ExecuteOpens
  <2> QED
    BY <2>2, <2>3, <2>4 DEF Driver, Unanswered
<1> QED
  BY <1>2, <1>3, <1>4, <1>5

LEMMA NextReturned == ReturnedInv /\ [Next]_vars => ReturnedInv'
<1> SUFFICES ASSUME ReturnedInv, [Next]_vars PROVE ReturnedInv'
  OBVIOUS
<1>1. SocketInv' /\ AnswerTypes'
  <2>1. SocketInv'
    BY NextSocket DEF ReturnedInv
  <2>2. CallInv /\ AnswerTypes
    BY DEF ReturnedInv, SocketInv
  <2>3. AnswerTypes'
    BY <2>2, NextAnswers
  <2> QED
    BY <2>1, <2>3
<1>2. CASE Passing
  BY <1>1, <1>2, PassingReturned DEF ReturnedInv
<1>3. CASE Closing
  BY <1>1, <1>3, ClosingReturned DEF ReturnedInv
<1>4. CASE Continue
  BY <1>1, <1>4, ContinueReturned DEF ReturnedInv
<1>5. CASE DriverStep
  BY <1>1, <1>5, DriverReturned DEF ReturnedInv, DriverStep
<1>6. CASE Restart
  <2>1. ModuleKept /\ job' = "none" /\ app_wifi_module_ready' = FALSE
    BY <1>6 DEF Restart, Restarted, moduleVars, ModuleKept
  <2> QED
    BY <1>1, <2>1, FinishReturned DEF ReturnedInv
<1>7. CASE ModuleStep \/ UNCHANGED vars
  <2>1. UNCHANGED <<job, at, call, ret, step, open, late, ghosts,
                    app_wifi_module_ready, mqtt_connected>>
    BY <1>7 DEF ModuleStep, LinkLost, Answers, BecomeCalm, vars, driverVars, moduleVars,
                programVars, jobVars, flags
  <2>2. Session' = Session /\ Borrowed' = Borrowed
    BY <2>1 DEF Session, Borrowed, Opened
  <2> QED
    BY <1>1, <2>1, <2>2 DEF ghosts, ReturnedInv, OpenInv, InStepInv, BringUpInv, GivenUpInv
<1> QED
  BY <1>2, <1>3, <1>4, <1>5, <1>6, <1>7 DEF Next, Program, Passing, Closing

THEOREM ReturnedInvariant == Spec => []ReturnedInv
  BY InitReturned, NextReturned, PTL DEF Spec

\* As long as every command was answered and no close of an open socket refused
\* since the module's reset, each socket is closed that is not in use, whichever
\* other command of an exchange was refused (api_client.c:217-245, wol.c:71-90,
\* mqtt_client.c:33-38).  The close is not tried again: a refused one leaves the
\* socket open until it is opened again or the module is reset.
THEOREM SocketsAreReturned == Spec => []SocketsReturned
<1>1. ReturnedInv => SocketsReturned
  BY DEF ReturnedInv, OpenInv, Session, Borrowed, Idle, SocketsReturned
<1> QED
  BY <1>1, ReturnedInvariant, PTL

-----------------------------------------------------------------------------
(* Type correctness.                                                       *)

Addresses == Networks \cup {NoNetwork}

SettingTypes ==
  /\ data \in {"none", "expected", "other"}
  /\ IsConnected \in BOOLEAN /\ IP_Addr \in Addresses

ModuleTypes ==
  /\ joined \in Addresses /\ selected \in Sockets /\ open \subseteq Sockets
  /\ response \in {"none", "owed", "expected"}
  /\ accepted \in BOOLEAN /\ astray \in BOOLEAN /\ clean \in BOOLEAN
  /\ leaked \in BOOLEAN /\ calm \in BOOLEAN

JobTypes ==
  /\ pass \in {"ensure", "process", "poll", "puback", "due"}
  /\ job \in Jobs \cup {"none"} /\ at \in 0 .. 5
  /\ failed \in BOOLEAN

FlagTypes ==
  /\ app_wifi_module_ready \in BOOLEAN /\ app_wifi_connected \in BOOLEAN
  /\ mqtt_connected \in BOOLEAN
  /\ app_local_ip \in Addresses
  /\ app_consecutive_failure_count \in 0 .. ResetThreshold - 1

PlainInv == SettingTypes /\ ModuleTypes /\ JobTypes /\ FlagTypes

TypeInv == SocketInv /\ AnswerTypes /\ PlainInv

LEMMA PlanSockets ==
  ASSUME NEW name \in Jobs, NEW i \in 1 .. Len(Plan[name])
  PROVE  Plan[name][i].socket \in Sockets
<1> USE DEF Call, Sockets
<1>1. CASE name \in {"init", "connect", "ping", "poll", "puback"}
  BY <1>1 DEF Plan
<1>2. CASE name = "recover"
  BY <1>2 DEF Plan, RecoverWifi
<1>3. CASE name = "telemetry"
  BY <1>3, TelemetryPlan
<1>4. CASE name = "wake"
  BY <1>4, WakePlan
<1>5. CASE name = "mqtt"
  BY <1>5 DEF Plan, ConnectAndSubscribe
<1>6. CASE name \in {"mqtt_failed", "mqtt_dropped"}
  BY <1>6 DEF Plan, ScheduleReconnect
<1> QED
  BY <1>1, <1>2, <1>3, <1>4, <1>5, <1>6 DEF Jobs

LEMMA TypeFromInv == TypeInv => TypeOK
<1> SUFFICES ASSUME TypeInv PROVE TypeOK
  OBVIOUS
<1>1. CASE call = NoCall
  <2>1. call \in [op : DOMAIN Script, socket : Sockets] \cup {NoCall} /\ step \in 1 .. 6
    BY <1>1 DEF TypeInv, SocketInv, CallInv
  <2> QED
    BY <2>1, PlanDomain DEF TypeOK, DriverTypeOK, ModuleTypeOK, TypeInv, AnswerTypes,
       PlainInv, SettingTypes, ModuleTypes, JobTypes, FlagTypes, Addresses
<1>2. CASE call # NoCall
  <2>1. /\ job \in Jobs /\ at \in 1 .. Len(Plan[job]) /\ call = Plan[job][at]
        /\ Len(Script[call.op]) \in 1 .. 6 /\ step \in 1 .. Len(Script[call.op])
    BY <1>2, CallFacts DEF TypeInv, SocketInv
  <2>2. /\ call.op \in DOMAIN Script /\ call.socket \in Sockets
        /\ call = Call(call.op, call.socket)
    BY <2>1, PlanFacts, PlanSockets
  <2>3. call \in [op : DOMAIN Script, socket : Sockets]
    BY <2>2 DEF Call
  <2>4. step \in 1 .. 6
    <3>1. \A n \in 1 .. 6 : \A i \in 1 .. n : i \in 1 .. 6
      OBVIOUS
    <3> QED
      BY <2>1, <3>1
  <2> QED
    BY <2>3, <2>4, PlanDomain DEF TypeOK, DriverTypeOK, ModuleTypeOK, TypeInv, AnswerTypes,
       PlainInv, SettingTypes, ModuleTypes, JobTypes, FlagTypes, Addresses
<1> QED
  BY <1>1, <1>2

LEMMA InitTypes == Init => TypeInv
<1> SUFFICES ASSUME Init PROVE TypeInv
  OBVIOUS
<1>1. SocketInv /\ AnswerTypes
  BY InitAccepted DEF AcceptedInv
<1>2. 0 \in 0 .. ResetThreshold - 1
  BY ConnectivityAssumption
<1>3. SettingTypes /\ ModuleTypes
  BY DEF Init, DriverInit, ModuleInit, SettingTypes, ModuleTypes, Addresses, Sockets
<1>4. JobTypes
  <2>1. pass \in {"ensure", "process", "poll", "puback", "due"} /\ job \in Jobs \cup {"none"}
    BY DEF Init
  <2>2. at \in 0 .. 5
    BY DEF Init
  <2>3. failed \in BOOLEAN
    BY ZenonT(30) DEF Init
  <2> QED
    BY <2>1, <2>2, <2>3 DEF JobTypes
<1>5. FlagTypes
  BY <1>2 DEF Init, FlagTypes, Addresses
<1> QED
  BY <1>1, <1>3, <1>4, <1>5 DEF TypeInv, PlainInv

LEMMA ExecuteTypes ==
  ASSUME ModuleTypes, NEW answer, Execute(answer), call.socket \in Sockets
  PROVE  /\ joined' \in Addresses /\ selected' \in Sockets /\ open' \subseteq Sockets
         /\ response' \in {"none", "owed", "expected"}
         /\ accepted' \in BOOLEAN
<1> USE DEF ModuleTypes
<1>0. CASE Refuse(answer)
  BY <1>0 DEF Refuse, moduleVars
<1>1. CASE Command \in Settings
  BY <1>0, <1>1 DEF Execute, Settings, moduleVars
<1>2. CASE Command \in {"P0", "CD", "ZR"}
  BY <1>0, <1>2 DEF Execute, Settings, Left, Forgotten, Addresses, Sockets
<1>3. CASE Command = "C0"
  BY <1>0, <1>3 DEF Execute, Settings, Join, Left, Addresses
<1>4. CASE Command \in {"P6=1", "P6=0", "R0"}
  BY <1>0, <1>4 DEF Execute, Settings, StartClient, StopClient, HandOver
<1>5. CASE Command = "S3" /\ ~Refuse(answer)
  <2>1. SendData(answer)
    BY <1>5 DEF Execute, Settings
  <2> QED
    BY <2>1 DEF SendData, ServerGetsRequest, ServerGetsOther
<1> QED
  BY <1>0, <1>1, <1>2, <1>3, <1>4, <1>5 DEF Execute

LEMMA DriverPlain ==
  ASSUME TypeInv, Driver
  PROVE  SettingTypes' /\ ModuleTypes'
<1>1. call.socket \in Sockets
  <2>1. /\ job \in Jobs /\ at \in 1 .. Len(Plan[job]) /\ call = Plan[job][at]
    BY DriverGoesOn, CallFacts DEF TypeInv, SocketInv
  <2> QED
    BY <2>1, PlanSockets
<1>2. SettingTypes /\ ModuleTypes
  BY DEF TypeInv, PlainInv
<1>3. ASSUME NEW status, NEW own, NetSettings(status, own)
      PROVE  IsConnected' \in BOOLEAN /\ IP_Addr' \in Addresses
  BY <1>2, <1>3 DEF NetSettings, SettingTypes, ModuleTypes
<1>4. Received \subseteq {"none", "expected", "other"}
  BY <1>2 DEF Received, ModuleTypes
<1>5. CASE Exchange
  <2>1. PICK answer \in {"OK", "ERROR"} :
          /\ Execute(answer)
          /\ \E status, own : NetSettings(status, own)
          /\ astray' \in BOOLEAN
          /\ clean' = (clean \/ Resets(answer))
          /\ leaked' \in BOOLEAN
    BY <1>5 DEF Exchange
  <2>2. clean' \in BOOLEAN /\ calm' \in BOOLEAN
    BY <1>2, <1>5, <2>1 DEF Exchange, ModuleTypes
  <2>3. data' \in {"none", "expected", "other"}
    BY <1>4, <1>5 DEF Exchange
  <2>4. IsConnected' \in BOOLEAN /\ IP_Addr' \in Addresses
    BY <1>3, <2>1
  <2>5. /\ joined' \in Addresses /\ selected' \in Sockets /\ open' \subseteq Sockets
        /\ response' \in {"none", "owed", "expected"}
        /\ accepted' \in BOOLEAN
    BY <1>1, <1>2, <2>1, ExecuteTypes
  <2> QED
    BY <2>1, <2>2, <2>3, <2>4, <2>5 DEF SettingTypes, ModuleTypes
<1>6. CASE Unanswered
  <2>1. /\ \E status : NetSettings(status, FALSE)
        /\ data' \in {"none", "other"}
        /\ astray' \in BOOLEAN /\ clean' = FALSE /\ leaked' = FALSE /\ calm' = calm
        /\ UNCHANGED <<moduleVars, accepted>> \/ \E answer : Execute(answer)
    BY <1>6 DEF Unanswered
  <2>2. IsConnected' \in BOOLEAN /\ IP_Addr' \in Addresses
    BY <1>3, <2>1
  <2>3. /\ joined' \in Addresses /\ selected' \in Sockets /\ open' \subseteq Sockets
        /\ response' \in {"none", "owed", "expected"}
        /\ accepted' \in BOOLEAN
    BY <1>1, <1>2, <2>1, ExecuteTypes DEF ModuleTypes, moduleVars
  <2> QED
    BY <1>2, <2>1, <2>2, <2>3 DEF SettingTypes, ModuleTypes
<1>7. CASE ResetPin
  BY <1>2, <1>7 DEF ResetPin, Forgotten, SettingTypes, ModuleTypes, Addresses, Sockets
<1> QED
  BY <1>5, <1>6, <1>7 DEF Driver

\* A step of the program leaves the module alone, and the driver's settings
\* alone or as they are at the beginning.
Aside ==
  /\ data' \in {data, "none"}
  /\ UNCHANGED <<IsConnected, IP_Addr>> \/ (IsConnected' = FALSE /\ IP_Addr' = NoNetwork)
  /\ UNCHANGED <<moduleVars, clean, leaked, calm>>
  /\ accepted' \in {accepted, FALSE} /\ astray' \in {astray, FALSE}

LEMMA AsideTypes ==
  ASSUME SettingTypes, ModuleTypes, Aside
  PROVE  SettingTypes' /\ ModuleTypes'
  BY DEF Aside, SettingTypes, ModuleTypes, moduleVars, Addresses

StartKept == data' = "none" /\ UNCHANGED <<IsConnected, IP_Addr>>

LEMMA StartTypes ==
  ASSUME NEW name \in Jobs, Start(name)
  PROVE  /\ StartKept
         /\ job' \in Jobs \cup {"none"} /\ at' \in 0 .. 5 /\ failed' \in BOOLEAN
<1>1. StartKept /\ job' = name /\ at' = 1 /\ failed' = FALSE
  BY DEF Start, StartCall, StartKept
<1>2. 1 \in 0 .. 5 /\ FALSE \in BOOLEAN
  OBVIOUS
<1> QED
  BY <1>1, <1>2

LEMMA FinishTypes ==
  ASSUME Finish
  PROVE  /\ StartKept
         /\ job' \in Jobs \cup {"none"} /\ at' \in 0 .. 5 /\ failed' \in BOOLEAN
<1>1. StartKept /\ job' = "none" /\ at' = 0 /\ failed' = FALSE
  BY DEF Finish, StartKept
<1>2. 0 \in 0 .. 5 /\ FALSE \in BOOLEAN
  OBVIOUS
<1> QED
  BY <1>1, <1>2

Points == {"ensure", "process", "poll", "puback", "due"}

LEMMA BeginTypes ==
  ASSUME PlainInv, NEW point, NEW name \in Jobs, NEW after \in Points,
         Begin(point, name, after)
  PROVE  Aside /\ JobTypes' /\ FlagTypes'
<1>1. Aside /\ JobTypes'
  BY StartTypes DEF Begin, ghosts, Aside, StartKept, JobTypes, Points
<1>2. FlagTypes'
  BY DEF Begin, flags, PlainInv, FlagTypes
<1> QED
  BY <1>1, <1>2

LEMMA SkipTypes ==
  ASSUME PlainInv, NEW point, NEW after \in Points, Skip(point, after)
  PROVE  Aside /\ JobTypes' /\ FlagTypes'
<1>1. Aside
  BY DEF Skip, Aside, driverVars, ghosts
<1>2. JobTypes' /\ FlagTypes'
  BY DEF Skip, flags, PlainInv, JobTypes, FlagTypes, Points
<1> QED
  BY <1>1, <1>2

LEMMA PassingTypes ==
  ASSUME PlainInv, Passing
  PROVE  Aside /\ JobTypes' /\ FlagTypes'
<1> USE DEF Jobs, Points
<1>1. CASE EnsureModule \/ EnsureConnect
  BY <1>1, BeginTypes DEF EnsureModule, EnsureConnect
<1>2. CASE ProcessConnects \/ ProcessPings \/ Poll
  BY <1>2, BeginTypes DEF ProcessConnects, ProcessPings, Poll
<1>3. CASE SendPubAck \/ StartTelemetry
  BY <1>3, BeginTypes DEF SendPubAck, StartTelemetry
<1>4. CASE EnsureSkips \/ ProcessWaits \/ ProcessSkipsPing \/ SkipTelemetry
  BY <1>4, SkipTypes DEF EnsureSkips, ProcessWaits, ProcessSkipsPing, SkipTelemetry
<1> QED
  BY <1>1, <1>2, <1>3, <1>4 DEF Passing

OverAside ==
  /\ UNCHANGED <<moduleVars, clean, leaked, calm>>
  /\ accepted' \in {accepted, FALSE} /\ astray' \in {astray, FALSE}

LEMMA RestartedTypes ==
  ASSUME Restarted, OverAside
  PROVE  Aside /\ JobTypes' /\ FlagTypes'
<1>1. 0 \in 0 .. ResetThreshold - 1
  BY ConnectivityAssumption
<1>2. Aside
  BY DEF Restarted, OverAside, Aside, DriverInit
<1>4. JobTypes'
  <2>1. pass' = "ensure" /\ job' = "none" /\ at' = 0 /\ failed' = FALSE
    BY DEF Restarted
  <2>2. 0 \in 0 .. 5 /\ FALSE \in BOOLEAN
    OBVIOUS
  <2> QED
    BY <2>1, <2>2 DEF JobTypes
<1>3. FlagTypes'
  BY <1>1 DEF Restarted, FlagTypes, Addresses
<1> QED
  BY <1>2, <1>3, <1>4

\* A failure is counted only below the reset's threshold.
LEMMA FailureTypes ==
  ASSUME PlainInv, OverAside, NEW after \in Points, NEW session \in BOOLEAN,
         RegisterFailure(after, session)
  PROVE  Aside /\ JobTypes' /\ FlagTypes'
<1>1. CASE Restarted
  BY <1>1, RestartedTypes
<1>2. CASE ~Restarted
  <2>1. /\ ~Exhausted
        /\ app_consecutive_failure_count' = FailureCount
        /\ pass' = after
        /\ mqtt_connected' = (session /\ ~Recovers)
        /\ Start("recover") \/ Finish
        /\ UNCHANGED <<app_wifi_module_ready, app_wifi_connected, app_local_ip>>
    BY <1>2 DEF RegisterFailure
  <2>2. app_consecutive_failure_count' \in 0 .. ResetThreshold - 1
    BY <2>1, ConnectivityAssumption DEF PlainInv, FlagTypes, FailureCount, Exhausted
  <2>3. /\ StartKept
        /\ job' \in Jobs \cup {"none"} /\ at' \in 0 .. 5 /\ failed' \in BOOLEAN
    BY <2>1, StartTypes, FinishTypes DEF Jobs
  <2>4. mqtt_connected' \in BOOLEAN
    BY <2>1
  <2>5. FlagTypes'
    BY <2>1, <2>2, <2>4 DEF PlainInv, FlagTypes
  <2> QED
    BY <2>1, <2>3, <2>5 DEF OverAside, Aside, StartKept, JobTypes, Points
<1> QED
  BY <1>1, <1>2

LEMMA EndTypes ==
  ASSUME PlainInv, OverAside, StartKept, pass' \in Points,
         job' \in Jobs \cup {"none"}, at' \in 0 .. 5, failed' \in BOOLEAN
  PROVE  Aside /\ JobTypes'
  BY DEF OverAside, StartKept, Aside, JobTypes, Points

LEMMA ClosingTypes ==
  ASSUME PlainInv, Closing
  PROVE  Aside /\ JobTypes' /\ FlagTypes'
<1>1. OverAside
  <2>1. ASSUME NEW name, NEW outcome, Over(name, outcome) PROVE OverAside
    BY <2>1 DEF Over, OverAside
  <2>2. \E name, outcome : Over(name, outcome)
    BY DEF Closing, ModuleInitialized, Connected, EnsureFails, Recovered, SessionOpened,
           MqttFails, GiveUpSession, ProcessFails, WakeArrives, WakeSucceeds, WakeFails,
           IgnoredCommand, MalformedPacket, PubAckFails, QuietEnd, OverQuietly, TelemetrySucceeds, TelemetryFails
  <2> QED
    BY <2>1, <2>2
<1>2. pass \in Points /\ FlagTypes /\ SettingTypes
  BY DEF PlainInv, JobTypes, Points
<1>3. 0 \in 0 .. ResetThreshold - 1
  BY ConnectivityAssumption
<1>4. CASE ModuleInitialized \/ Connected \/ Recovered \/ SessionOpened
  <2>1. Finish /\ pass' \in Points
    BY <1>2, <1>4 DEF ModuleInitialized, Connected, Recovered, SessionOpened, Points
  <2>2. FlagTypes'
    BY <1>2, <1>4 DEF ModuleInitialized, Connected, Recovered, SessionOpened,
                      FlagTypes, SettingTypes
  <2> QED
    BY <1>1, <2>1, <2>2, FinishTypes, EndTypes
<1>5. CASE EnsureFails \/ WakeFails \/ TelemetryFails
  <2>1. PICK after \in Points : RegisterFailure(after, mqtt_connected)
    BY <1>2, <1>5 DEF EnsureFails, WakeFails, TelemetryFails, Points
  <2>2. mqtt_connected \in BOOLEAN
    BY <1>2 DEF FlagTypes
  <2> QED
    BY <1>1, <2>1, <2>2, FailureTypes
<1>6. CASE ProcessFails
  <2>1. PICK after \in Points, session \in BOOLEAN : RegisterFailure(after, session)
    BY <1>6 DEF ProcessFails, Points
  <2> QED
    BY <1>1, <2>1, FailureTypes
<1>7. CASE MqttFails \/ MalformedPacket \/ PubAckFails \/ WakeArrives
  <2>1. PICK name \in Jobs : Start(name)
    BY <1>7 DEF MqttFails, MalformedPacket, PubAckFails, GiveUpSession, WakeArrives, Jobs
  <2>2. pass' \in Points /\ FlagTypes'
    BY <1>2, <1>7 DEF MqttFails, MalformedPacket, PubAckFails, GiveUpSession, WakeArrives,
                      flags, FlagTypes, Points
  <2> QED
    BY <1>1, <2>1, <2>2, StartTypes, EndTypes
<1>8. CASE WakeSucceeds \/ TelemetrySucceeds \/ IgnoredCommand \/ QuietEnd
  <2>1. Finish /\ pass' \in Points
    BY <1>2, <1>8 DEF WakeSucceeds, TelemetrySucceeds, RegisterSuccess, IgnoredCommand,
                      QuietEnd, OverQuietly, Points
  <2>2. FlagTypes'
    BY <1>2, <1>3, <1>8 DEF WakeSucceeds, TelemetrySucceeds, RegisterSuccess,
                            IgnoredCommand, QuietEnd, OverQuietly, flags, FlagTypes
  <2> QED
    BY <1>1, <2>1, <2>2, FinishTypes, EndTypes
<1> QED
  BY <1>4, <1>5, <1>6, <1>7, <1>8 DEF Closing

LEMMA ContinueTypes ==
  ASSUME TypeInv, Continue
  PROVE  Aside /\ JobTypes' /\ FlagTypes'
<1>1. /\ job \in Jobs /\ job' = job /\ at' = NextCall
      /\ NextCall \in 1 .. Len(Plan[job]) /\ failed' = JobFailed
      /\ data' = "none"
  BY ContinueFacts DEF TypeInv, SocketInv
<1>2. at' \in 0 .. 5
  BY <1>1, PlanFacts
<1>3. failed' \in BOOLEAN
  BY <1>1 DEF JobFailed
<1>4. /\ UNCHANGED <<pass, app_consecutive_failure_count, flags>>
      /\ UNCHANGED <<IsConnected, IP_Addr, moduleVars, ghosts, calm>>
  BY DEF Continue, StartCall
<1>5. JobTypes'
  BY <1>1, <1>2, <1>3, <1>4 DEF TypeInv, PlainInv, JobTypes
<1>6. FlagTypes'
  BY <1>4 DEF flags, TypeInv, PlainInv, FlagTypes
<1> QED
  BY <1>1, <1>4, <1>5, <1>6 DEF Aside, ghosts

LEMMA NextTypes == TypeInv /\ [Next]_vars => TypeInv'
<1> SUFFICES ASSUME TypeInv, [Next]_vars PROVE TypeInv'
  OBVIOUS
<1>1. SocketInv' /\ AnswerTypes'
  <2>1. SocketInv'
    BY NextSocket DEF TypeInv
  <2>2. CallInv /\ AnswerTypes
    BY DEF TypeInv, SocketInv
  <2>3. AnswerTypes'
    BY <2>2, NextAnswers
  <2> QED
    BY <2>1, <2>3
<1>2. PlainInv
  BY DEF TypeInv
<1>3. CASE Passing \/ Closing \/ Continue \/ Restart
  <2>1. Aside /\ JobTypes' /\ FlagTypes'
    <3>1. Restart => Restarted /\ OverAside
      BY DEF Restart, OverAside
    <3> QED
      BY <1>2, <1>3, <3>1, PassingTypes, ClosingTypes, ContinueTypes, RestartedTypes
  <2> QED
    BY <1>1, <1>2, <2>1, AsideTypes DEF TypeInv, PlainInv
<1>4. CASE DriverStep
  <2>1. SettingTypes' /\ ModuleTypes'
    BY <1>4, DriverPlain DEF DriverStep
  <2>2. JobTypes' /\ FlagTypes'
    BY <1>2, <1>4 DEF DriverStep, programVars, jobVars, flags, PlainInv, JobTypes, FlagTypes
  <2> QED
    BY <1>1, <2>1, <2>2 DEF TypeInv, PlainInv
<1>5. CASE ModuleStep \/ UNCHANGED vars
  <2>1. UNCHANGED <<data, IsConnected, IP_Addr, programVars>>
    BY <1>5 DEF ModuleStep, LinkLost, Answers, BecomeCalm, vars, driverVars
  <2>2. /\ UNCHANGED <<selected, open, accepted, astray, clean, leaked>>
        /\ joined' \in {joined, NoNetwork} /\ response' \in {response, "expected"}
        /\ calm' \in {calm, TRUE}
    BY <1>5 DEF ModuleStep, LinkLost, Answers, BecomeCalm, vars, moduleVars, ghosts
  <2>3. SettingTypes' /\ ModuleTypes'
    BY <1>2, <2>1, <2>2 DEF PlainInv, SettingTypes, ModuleTypes, Addresses
  <2>4. JobTypes' /\ FlagTypes'
    BY <1>2, <2>1 DEF programVars, jobVars, flags, PlainInv, JobTypes, FlagTypes
  <2> QED
    BY <1>1, <2>3, <2>4 DEF TypeInv, PlainInv
<1> QED
  BY <1>3, <1>4, <1>5 DEF Next, Program, Passing, Closing

THEOREM TypeInvariant == Spec => []TypeInv
  BY InitTypes, NextTypes, PTL DEF Spec

\* The variables keep their types; above all the driver is always at a command
\* of its script and the count of failures below the reset's threshold.
THEOREM TypeCorrect == Spec => []TypeOK
  BY TypeInvariant, TypeFromInv, PTL

-----------------------------------------------------------------------------
(* Refinement of Escalation.                                               *)

\* The policy's view of the link.
Link == app_wifi_connected /\ job # "recover"
polVars == <<app_consecutive_failure_count, Link>>

\* Nothing changes for the policy.
Unseen == UNCHANGED <<app_consecutive_failure_count, Link>>

LEMMA UnseenStutters == Unseen => UNCHANGED polVars
  BY DEF Unseen, polVars

\* A registered failure of any service is a step of the policy: one that counts,
\* one that gives the link up, or one that ends in a restart.
LEMMA FailurePolicy ==
  ASSUME FlagTypes, job # "recover",
         NEW point, NEW session, RegisterFailure(point, session)
  PROVE  Policy!Next
<1> DEFINE n == app_consecutive_failure_count
<1>1. n \in Nat /\ n < ResetThreshold
  BY ConnectivityAssumption DEF FlagTypes
<1>2. CASE Exhausted /\ Restarted
  BY <1>2 DEF Restarted, Policy!Next, Policy!Restart
<1>3. CASE ~Exhausted /\ Recovers
  <2>1. n' = n + 1 /\ n + 1 < ResetThreshold /\ (n + 1) % RecoveryThreshold = 0
    BY <1>1, <1>3, ConnectivityAssumption
       DEF RegisterFailure, Exhausted, Recovers, FailureCount
  <2>2. job' = "recover"
    BY <1>3 DEF RegisterFailure, Start
  <2> QED
    BY <2>1, <2>2 DEF Policy!Next, Policy!Recovery
<1>4. CASE ~Exhausted /\ ~Recovers
  <2>1. n' = n + 1 /\ n + 1 < ResetThreshold /\ (n + 1) % RecoveryThreshold # 0
    BY <1>1, <1>4, ConnectivityAssumption
       DEF RegisterFailure, Exhausted, Recovers, FailureCount
  <2>2. job' = "none" /\ app_wifi_connected' = app_wifi_connected
    BY <1>4 DEF RegisterFailure, Finish
  <2> QED
    BY <2>1, <2>2 DEF Policy!Next, Policy!Failure
<1> QED
  BY <1>2, <1>3, <1>4 DEF RegisterFailure

LEMMA SuccessPolicy ==
  ASSUME FlagTypes, job # "recover", NEW point, RegisterSuccess(point)
  PROVE  Policy!Next
<1>1. app_consecutive_failure_count < ResetThreshold
  BY ConnectivityAssumption DEF FlagTypes
<1>2. /\ app_consecutive_failure_count' = 0
      /\ job' = "none" /\ app_wifi_connected' = app_wifi_connected
  BY DEF RegisterSuccess, Finish, flags
<1> QED
  BY <1>1, <1>2 DEF Policy!Next, Policy!Success

\* The link is brought up only when it was down: a join never begins over a
\* trusted link.
LEMMA ConnectedPolicy ==
  ASSUME SettingTypes, FlagTypes, JoiningInv, Connected
  PROVE  Policy!Next \/ Unseen
<1>1. app_wifi_connected = FALSE /\ job' = "none" /\ app_wifi_connected' = IsConnected
      /\ UNCHANGED app_consecutive_failure_count
  BY DEF Connected, Over, JoiningInv, Finish
<1>2. app_consecutive_failure_count < ResetThreshold
  BY ConnectivityAssumption DEF FlagTypes
<1>3. CASE IsConnected = TRUE
  BY <1>1, <1>2, <1>3 DEF Policy!Next, Policy!BringUp
<1>4. CASE IsConnected = FALSE
  BY <1>1, <1>4 DEF Unseen, Link
<1> QED
  BY <1>3, <1>4 DEF SettingTypes

LEMMA BeginUnseen ==
  ASSUME NEW point, NEW name, name # "recover", NEW next, Begin(point, name, next)
  PROVE  Unseen
  BY DEF Begin, Idle, Start, flags, Unseen, Link

LEMMA SkipUnseen ==
  ASSUME NEW point, NEW next, Skip(point, next)
  PROVE  Unseen
  BY DEF Skip, flags, Unseen, Link

LEMMA GiveUpSessionUnseen ==
  ASSUME NEW name, name # "recover", NEW outcome, NEW next, next # "recover",
         GiveUpSession(name, outcome, next)
  PROVE  Unseen
  BY DEF GiveUpSession, Over, Start, Unseen, Link

LEMMA PassingUnseen == Passing => Unseen
<1> SUFFICES ASSUME Passing PROVE Unseen
  OBVIOUS
<1>1. CASE EnsureModule \/ EnsureConnect
  BY <1>1, BeginUnseen DEF EnsureModule, EnsureConnect
<1>2. CASE ProcessConnects \/ ProcessPings \/ Poll
  BY <1>2, BeginUnseen DEF ProcessConnects, ProcessPings, Poll
<1>3. CASE SendPubAck \/ StartTelemetry
  BY <1>3, BeginUnseen DEF SendPubAck, StartTelemetry
<1>4. CASE EnsureSkips \/ ProcessWaits \/ ProcessSkipsPing \/ SkipTelemetry
  BY <1>4, SkipUnseen DEF EnsureSkips, ProcessWaits, ProcessSkipsPing, SkipTelemetry
<1> QED
  BY <1>1, <1>2, <1>3, <1>4 DEF Passing

LEMMA ClosingPolicy ==
  ASSUME SettingTypes, FlagTypes, JoiningInv, Closing
  PROVE  Policy!Next \/ Unseen
<1>1. CASE EnsureFails \/ ProcessFails \/ WakeFails \/ TelemetryFails
  <2>1. job # "recover"
    BY <1>1 DEF EnsureFails, ProcessFails, WakeFails, TelemetryFails, Over
  <2> QED
    BY <1>1, <2>1, FailurePolicy DEF EnsureFails, ProcessFails, WakeFails, TelemetryFails
<1>2. CASE WakeSucceeds \/ TelemetrySucceeds
  <2>1. job # "recover"
    BY <1>2 DEF WakeSucceeds, TelemetrySucceeds, Over
  <2> QED
    BY <1>2, <2>1, SuccessPolicy DEF WakeSucceeds, TelemetrySucceeds
<1>3. CASE Connected
  BY <1>3, ConnectedPolicy
<1>4. CASE Recovered
  BY <1>4 DEF Recovered, Over, Unseen, Link
<1>5. CASE MqttFails \/ MalformedPacket \/ PubAckFails
  BY <1>5, GiveUpSessionUnseen DEF MqttFails, MalformedPacket, PubAckFails
<1>6. CASE ModuleInitialized \/ SessionOpened
  BY <1>6 DEF ModuleInitialized, SessionOpened, Over, Finish, Unseen, Link
<1>7. CASE WakeArrives
  BY <1>7 DEF WakeArrives, Over, Start, flags, Unseen, Link
<1>8. CASE QuietEnd \/ IgnoredCommand
  BY <1>8 DEF QuietEnd, IgnoredCommand, OverQuietly, Over, Finish, flags, Unseen, Link
<1> QED
  BY <1>1, <1>2, <1>3, <1>4, <1>5, <1>6, <1>7, <1>8 DEF Closing

LEMMA NextPolicy ==
  ASSUME TypeInv, JoiningInv, [Next]_vars
  PROVE  [Policy!Next]_polVars
<1>1. SettingTypes /\ FlagTypes
  BY DEF TypeInv, PlainInv
<1>2. CASE Passing \/ Closing
  BY <1>1, <1>2, PassingUnseen, ClosingPolicy, UnseenStutters
<1>3. CASE Continue
  <2>1. Unseen
    BY <1>3 DEF Continue, flags, Unseen, Link
  <2> QED
    BY <2>1, UnseenStutters
<1>4. CASE Restart
  BY <1>4 DEF Restart, Restarted, Policy!Next, Policy!Restart
<1>5. CASE DriverStep \/ ModuleStep \/ UNCHANGED vars
  <2>1. Unseen
    BY <1>5 DEF DriverStep, ModuleStep, vars, programVars, jobVars, flags, Unseen, Link
  <2> QED
    BY <2>1, UnseenStutters
<1> QED
  BY <1>2, <1>3, <1>4, <1>5 DEF Next, Program, Passing, Closing

\* The escalation policy survives the way its calls are carried out: whatever
\* fails at whatever command, a recovery begins with each RecoveryThreshold-th
\* failure in a row and with no other, and only a success or a restart forgives
\* (app.c:100-146).
THEOREM ImplementsEscalation == Spec => EscalationPolicy
<1>1. Init => Policy!Init
  BY DEF Init, Policy!Init
<1>2. TypeInv /\ JoiningInv /\ [Next]_vars => [Policy!Next]_polVars
  BY NextPolicy
<1>3. AddressInv => JoiningInv
  BY DEF AddressInv
<1> QED
  BY <1>1, <1>2, <1>3, TypeInvariant, AddressInvariant, PTL
     DEF Spec, EscalationPolicy, Policy!Spec, polVars, Link
=============================================================================
