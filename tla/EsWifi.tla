------------------------------- MODULE EsWifi -------------------------------
(***************************************************************************)
(* The driver of the ISM43362 module (wifi_service.c, wifi.c, es_wifi.c)   *)
(* and the module itself, one AT command at a time.  A call of the driver  *)
(* is a fixed script of commands; it goes on as long as they are answered  *)
(* OK and returns at the first that is not.  Answers carry no name: what   *)
(* the driver reads after a command is taken for the answer to it.         *)
(*                                                                         *)
(* The module keeps its association, the socket that P0 selected last and  *)
(* the sockets that are open; it knows nothing of the program's idea of    *)
(* them.  A command may be refused.  It may stay unanswered, executed or   *)
(* not, and the answer to an executed one may still come, to be read in    *)
(* place of the answer to the next command, or of one that is lost.        *)
(***************************************************************************)
EXTENDS Integers, Sequences

CONSTANTS
  Networks, \* the networks the access point may put the module in
  Reopens,  \* what the module does when an open socket is opened: "refuse"
            \* it, "renew" the connection
  Faults    \* what may go wrong until the environment is calm

NoNetwork == "none"

ASSUME EsWifiAssumption ==
  /\ Networks # {} /\ NoNetwork \notin Networks
  /\ Reopens # {} /\ Reopens \subseteq {"refuse", "renew"}
  /\ Faults \subseteq {"silence", "late", "refusal", "peer", "link", "restart"}

\* APP_SOCKET_ID, APP_MQTT_SOCKET_ID and APP_WOL_SOCKET_ID.
Api == 0
Mqtt == 1
Wol == 2
Sockets == {Api, Mqtt, Wol}

VARIABLES
  call, step,    \* the driver call in progress and the command it is at
  ret, data,     \* what the last call returned: its status, what it received
  IsConnected, IP_Addr,   \* NetSettings; an address is the network it is of
  joined,        \* the network the module is associated with
  selected,      \* the socket P0 selected
  open,          \* the sockets that are open in the module
  response,      \* on the API socket: "none" of use, the "expected" one, or that
                 \* one still "owed" by the server
  late,          \* an answer the driver did not wait for
  accepted,      \* ghost: the server has accepted the present request
  astray,        \* ghost: in the present job and since the module's reset, a late
                 \* OK has passed for the answer to a command not carried out
  clean,         \* ghost: every command was answered since the module's reset
  leaked,        \* ghost: clean, but the close of an open socket was refused
  calm           \* from here on nothing goes wrong

driverVars == <<call, step, ret, data, IsConnected, IP_Addr>>
moduleVars == <<joined, selected, open, response>>
ghosts == <<accepted, astray, clean, leaked>>

Call(op, socket) == [op |-> op, socket |-> socket]
NoCall == Call("none", Api)

\* The AT commands of each call, by their names; "reset" is the reset pin.
ES_WIFI_Init == <<"reset", "I?">>
ES_WIFI_Connect == <<"C1", "C2", "C3", "C0", "C?">>
ES_WIFI_Disconnect == <<"CD">>
ES_WIFI_ResetModule == <<"ZR">>
StartTcpClient == <<"P0", "P1", "P4", "P3", "P6=1">>
StartUdpClient == <<"P0", "P1", "P2", "P4", "P3", "P6=1">>
ES_WIFI_StopClientConnection == <<"P0", "P6=0">>

\* Mutant: a send relies on the socket selected last.
SendWithoutSelect == <<"S2", "S3">>

ES_WIFI_SendData == <<"P0", "S2", "S3">>
ES_WIFI_ReceiveData == <<"P0", "R1", "R2", "R0">>

Script == [
  Init        |-> ES_WIFI_Init,
  Connect     |-> ES_WIFI_Connect,
  Disconnect  |-> ES_WIFI_Disconnect,
  ResetModule |-> ES_WIFI_ResetModule,
  OpenTcp     |-> StartTcpClient,
  OpenUdp     |-> StartUdpClient,
  Close       |-> ES_WIFI_StopClientConnection,
  Send        |-> ES_WIFI_SendData,
  Receive     |-> ES_WIFI_ReceiveData]

\* Commands that only set parameters, or read them.
Settings == {"I?", "C1", "C2", "C3", "C?", "P1", "P2", "P3", "P4", "S2", "R1", "R2"}

Command == Script[call.op][step]

DriverTypeOK ==
  /\ call \in [op : DOMAIN Script, socket : Sockets] \cup {NoCall}
  /\ step \in 1 .. 6
  /\ ret \in {"OK", "ERROR"}
  /\ data \in {"none", "expected", "other"}
  /\ IsConnected \in BOOLEAN
  /\ IP_Addr \in Networks \cup {NoNetwork}

ModuleTypeOK ==
  /\ joined \in Networks \cup {NoNetwork}
  /\ selected \in Sockets
  /\ open \subseteq Sockets
  /\ response \in {"none", "owed", "expected"}
  /\ late \in {"none", "OK", "ERROR"}
  /\ {accepted, astray, clean, leaked, calm} \subseteq BOOLEAN

Wrong(fault) == fault \in Faults /\ ~calm

-----------------------------------------------------------------------------
(* What the module does with a command. *)

Associated == joined # NoNetwork

Forgotten ==
  joined' = NoNetwork /\ selected' = Api /\ open' = {} /\ response' = "none"

\* Leaving a network may or may not end its connections.
Left == open' \in {open, {}} /\ UNCHANGED <<selected, response>>

Join(answer) ==
  /\ Left
  /\ \/ answer = "OK" /\ joined' \in Networks
     \/ answer = "ERROR" /\ Wrong("peer") /\ joined' = NoNetwork

StartClient(answer) ==
  /\ UNCHANGED <<joined, selected>>
  /\ \/ /\ answer = "OK" /\ Associated
        /\ selected \in open => "renew" \in Reopens
        /\ open' = open \cup {selected}
        /\ response' = IF selected = Api THEN "none" ELSE response
     \/ /\ answer = "ERROR"
        /\ ~Associated \/ Wrong("peer") \/ (selected \in open /\ "refuse" \in Reopens)
        /\ UNCHANGED <<open, response>>

\* There may be nothing to close.
StopClient(answer) ==
  /\ UNCHANGED <<joined, selected>>
  /\ \/ /\ answer = "OK"
        /\ open' = open \ {selected}
        /\ response' = IF selected = Api THEN "none" ELSE response
     \/ /\ answer = "ERROR" /\ selected \notin open
        /\ UNCHANGED <<open, response>>

\* A server that accepts the request may answer late or never.  One that does
\* not leaves what it sent before or answers otherwise; so it does with what was
\* meant for another socket.
ServerGetsRequest ==
  \/ response' = "expected" /\ accepted' = TRUE
  \/ Wrong("peer") /\ response' = "owed" /\ accepted' = TRUE

ServerGetsOther == response' \in {response, "none"} /\ UNCHANGED accepted

\* S3 is answered "-1" when the connection is gone.
SendData(answer) ==
  /\ UNCHANGED <<joined, selected, open>>
  /\ \/ /\ answer = "OK" /\ Associated /\ selected \in open
        /\ \/ selected # Api /\ UNCHANGED <<response, accepted>>
           \/ selected = Api /\ call.socket = Api /\ ServerGetsRequest
           \/ selected = Api /\ (call.socket # Api \/ Wrong("peer")) /\ ServerGetsOther
     \/ /\ answer = "ERROR"
        /\ ~Associated \/ selected \notin open \/ Wrong("peer")
        /\ UNCHANGED <<response, accepted>>

\* R0 hands over what has come; nothing is an answer too.
HandOver(answer) ==
  /\ answer = IF selected \in open THEN "OK" ELSE "ERROR"
  /\ response' = IF selected = Api /\ response # "owed" THEN "none" ELSE response
  /\ UNCHANGED <<joined, selected, open>>

\* Any command may be refused.
Refuse(answer) == Wrong("refusal") /\ answer = "ERROR" /\ UNCHANGED <<moduleVars, accepted>>

Execute(answer) ==
  /\ Command # "S3" => UNCHANGED accepted
  /\ \/ Refuse(answer)
     \/ Command \in Settings /\ answer = "OK" /\ UNCHANGED moduleVars
     \/ /\ Command = "P0" /\ answer = "OK"
        /\ selected' = call.socket
        /\ UNCHANGED <<joined, open, response>>
     \/ Command = "C0" /\ Join(answer)
     \/ Command = "CD" /\ answer = "OK" /\ joined' = NoNetwork /\ Left
     \/ Command = "ZR" /\ answer = "OK" /\ Forgotten
     \/ Command = "P6=1" /\ StartClient(answer)
     \/ Command = "P6=0" /\ StopClient(answer)
     \/ Command = "S3" /\ SendData(answer)
     \/ Command = "R0" /\ HandOver(answer)

\* The module is as after the reset pin.
Resets(answer) == Command = "ZR" /\ answer = "OK"

-----------------------------------------------------------------------------
(* What the driver does with an answer. *)

StartCall(op, socket) ==
  /\ call' = Call(op, socket)
  /\ step' = 1
  /\ ret' = "OK" /\ data' = "none"
  /\ UNCHANGED <<IsConnected, IP_Addr>>

\* StartClientConnection gives up on P2 only when it is refused.
GoesOn(status) == status = "OK" \/ (status = "IO_ERROR" /\ Command = "P2")

\* The status of the command at hand.
Take(status) ==
  IF GoesOn(status) /\ step < Len(Script[call.op])
  THEN step' = step + 1 /\ UNCHANGED <<call, ret>>
  ELSE /\ call' = NoCall /\ step' = 1
       /\ ret' = IF GoesOn(status) THEN "OK" ELSE "ERROR"

\* Mutant: the address is read once and kept.
KeptNetSettings(status, own) ==
  /\ IsConnected' = (IsConnected \/ (Command = "C0" /\ status = "OK"))
  /\ IP_Addr' = IF Command = "C?" /\ status = "OK" /\ own /\ IP_Addr = NoNetwork
                THEN joined ELSE IP_Addr

\* NetSettings after a command.  The answer to another command has no address
\* in it: AT_ParseConnSettings then leaves the address as it was.
NetSettings(status, own) ==
  /\ IsConnected' = (IsConnected \/ (Command = "C0" /\ status = "OK"))
  /\ IP_Addr' = IF Command = "C?" /\ status = "OK" /\ own THEN joined ELSE IP_Addr

\* What R0 handed over, if it was R0's answer that was read.
Received ==
  IF selected # call.socket THEN {"none", "other"}
  ELSE IF selected = Api THEN {IF response = "owed" THEN "none" ELSE response}
  ELSE {"expected"} \cup (IF Wrong("peer") THEN {"none", "other"} ELSE {})

\* How an answer looks to a command that is not its own: the "-1" that S3 gets
\* when the connection is gone comes with an OK, and only S3 looks for it.
Mistaken(answer) ==
  {answer} \cup (IF Command = "S3" THEN {"OK"} ELSE {})

\* A late OK is read for a command that was refused.
Misled(status, answer) == status = "OK" /\ answer = "ERROR"

\* The command is executed, or refused, and the next answer in the module is
\* read.  Not every answer to another command looks like one to R0.
Exchange ==
  /\ call # NoCall /\ Command # "reset"
  /\ \E answer \in {"OK", "ERROR"} :
       /\ Execute(answer)
       /\ \E status \in IF late = "none" THEN {answer}
                        ELSE {late} \cup (IF Command = "R0" THEN {"IO_ERROR"} ELSE {}) :
            /\ Take(status) /\ NetSettings(status, late = "none")
            /\ astray' = (~Resets(answer) /\ (astray \/ Misled(status, answer)))
       /\ late' \in IF late = "none" \/ Resets(answer) THEN {"none"} ELSE Mistaken(answer)
       /\ clean' = (clean \/ Resets(answer))
       /\ leaked' = /\ clean /\ ~Resets(answer)
                    /\ leaked \/ (call.op = "Close" /\ call.socket \in open /\ answer = "ERROR")
  /\ data' \in IF Command # "R0" THEN {"none"} ELSE IF late = "none" THEN Received ELSE {"other"}
  /\ UNCHANGED calm

\* The answer to a command that has none read in time: it comes late, unless
\* one waits already, or never.
LateAnswers(answer) ==
  {late} \cup (IF late = "none" /\ Wrong("late") THEN Mistaken(answer) ELSE {})

\* The command is lost, or executed and not answered within ES_WIFI_TIMEOUT, or
\* answered in pieces without OK or ERROR in them.  AT_ExecuteCommand reports
\* all alike, unless it reads a late answer instead.
Unanswered ==
  /\ call # NoCall /\ Command # "reset"
  /\ Wrong("silence")
  /\ \E status \in {"IO_ERROR"} \cup ({late} \ {"none"}) :
       /\ \/ /\ UNCHANGED <<moduleVars, accepted>>
             /\ late' = IF status = "IO_ERROR" THEN late ELSE "none"
             /\ astray' = (astray \/ status = "OK")
          \/ \E answer \in {"OK", "ERROR"} :
               /\ Execute(answer)
               /\ late' \in IF status = "IO_ERROR" THEN LateAnswers(answer) ELSE {"none"}
               /\ astray' = (astray \/ Misled(status, answer))
       /\ Take(status) /\ NetSettings(status, FALSE)
       /\ data' = IF Command = "R0" /\ status # "IO_ERROR" THEN "other" ELSE "none"
  /\ clean' = FALSE /\ leaked' = FALSE
  /\ UNCHANGED calm

\* SPI_WIFI_Init always pulses the reset pin: HAL_SPI_Init, before it, fails
\* only without a handle.
ResetPin ==
  /\ call # NoCall /\ Command = "reset"
  /\ Forgotten
  /\ late' = "none" /\ astray' = FALSE /\ clean' = TRUE /\ leaked' = FALSE
  /\ Take("OK") \/ (Wrong("silence") /\ Take("IO_ERROR"))
  /\ UNCHANGED <<data, IsConnected, IP_Addr, accepted, calm>>

Driver == Exchange \/ Unanswered \/ ResetPin

-----------------------------------------------------------------------------
(* What happens to the module by itself. *)

\* The access point goes; the module's sockets stay as they are.
LinkLost ==
  /\ Associated /\ Wrong("link")
  /\ joined' = NoNetwork
  /\ UNCHANGED <<driverVars, selected, open, response, late, ghosts, calm>>

\* The server answers after all.
Answers ==
  /\ response = "owed" /\ Associated
  /\ response' = "expected"
  /\ UNCHANGED <<driverVars, joined, selected, open, late, ghosts, calm>>

BecomeCalm ==
  /\ ~calm
  /\ calm' = TRUE
  /\ UNCHANGED <<driverVars, moduleVars, late, ghosts>>

DriverInit ==
  /\ call = NoCall /\ step = 1
  /\ ret = "OK" /\ data = "none"
  /\ IsConnected = FALSE /\ IP_Addr = NoNetwork

ModuleInit ==
  /\ joined = NoNetwork /\ selected = Api /\ open = {} /\ response = "none"
  /\ late = "none"
  /\ accepted = FALSE /\ astray = FALSE /\ clean = TRUE /\ leaked = FALSE
  /\ calm = FALSE
=============================================================================
