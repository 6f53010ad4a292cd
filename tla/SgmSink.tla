------------------------------- MODULE SgmSink -------------------------------
(***************************************************************************)
(* The SGMsink process: the sink thread (SgmSink), the message protocol    *)
(* and MQTT client it drives (MqttProtocol, MqttClient), and the socket on *)
(* which sensors hand in their packets (SinkSocket).                       *)
(*                                                                         *)
(* The network is a NetworkProvider, composed by conjunction: the sink's   *)
(* calls and their answers are joint steps with it, and every notice it    *)
(* gives is a step of MqttProtocol::onNetworkStatusChange, which runs in   *)
(* whatever thread the provider ticks in.  MqttProtocol's itsEventMutex is *)
(* held from sendMessage's test to the end of publishMessage, that is,     *)
(* while pc = "publishing"; the callback waits for it.                     *)
(***************************************************************************)
EXTENDS NetworkProvider, Integers

CONSTANTS
  MaxListenIterationsCount,
  MaxDescriptors,   \* accepted sockets the process may have open at once
  MaxBacklog,       \* bound: sensors waiting at the listening socket
  AcceptReturns     \* what SinkSocket::connect, which lacks a return, may return

ASSUME SinkAssumption ==
  /\ MaxListenIterationsCount \in Nat \ {0}
  /\ MaxDescriptors \in Nat \ {0}
  /\ MaxBacklog \in Nat \ {0}
  /\ AcceptReturns \in (SUBSET {"EAGAIN", "OTHER"}) \ {{}}

SinkState == {"NO_CONNECTION", "CONNECTED", "LISTENING_CONNECTED", "LISTENING_DISCONNECTED"}

VARIABLES
  itsCurrentState,
  listenIterationsCount,
  isNetworkReady,       \* MqttProtocol's flag
  isConnected,          \* MqttClient's flag
  session,              \* MQTTClient_isConnected(): what the library knows
  backlog,              \* sensors waiting to be accepted
  peer,                 \* the sensor on acceptedSocketDescriptor: "none" if -1
  leaked,               \* accepted sockets that are open and forgotten
  pc                    \* where the sink thread is

sinkVars == <<itsCurrentState, listenIterationsCount>>
client   == <<isConnected, session>>
socket   == <<backlog, peer, leaked>>
vars == <<providerVars, sinkVars, isNetworkReady, client, socket, pc>>

Pc == {"tick", "calling", "receiving", "sending", "publishing",
       "failing", "leaving", "exited"}

Init ==
  /\ ProviderInit
  /\ itsCurrentState = "NO_CONNECTION"
  /\ listenIterationsCount = 0
  /\ isNetworkReady = FALSE
  /\ isConnected = FALSE
  /\ session = FALSE
  /\ backlog \in 0..MaxBacklog
  /\ peer = "none"
  /\ leaked = 0
  /\ pc = "tick"

GoTo(from, to) == pc = from /\ pc' = to

\* Mutant: while(true).
TickInForever(state) ==
  /\ pc = "tick"
  /\ itsCurrentState = state

\* The loop test of operator()() lets tick() run in the given state.
TickIn(state) ==
  /\ pc = "tick"
  /\ itsCurrentState = state
  /\ listenIterationsCount < MaxListenIterationsCount

------------------------------------------------------------------------------
(* The environment. *)

\* Mutant: the callback does not take itsEventMutex.
OnNetworkStatusChangeUnlocked(status) ==
  /\ Tell(status)
  /\ isNetworkReady' = (status = "CONNECTED")
  /\ UNCHANGED <<sinkVars, client, socket, pc>>

OnNetworkStatusChange(status) ==
  /\ Tell(status)
  /\ pc # "publishing"
  /\ isNetworkReady' = (status = "CONNECTED")
  /\ UNCHANGED <<sinkVars, client, socket, pc>>

SensorConnects ==
  /\ backlog < MaxBacklog
  /\ backlog' = backlog + 1
  /\ UNCHANGED <<providerVars, sinkVars, isNetworkReady, client, peer,
                 leaked, pc>>

\* The sensor has closed its end, and everything it sent has been read.
SensorCloses ==
  /\ peer = "sending"
  /\ peer' = "closed"
  /\ UNCHANGED <<providerVars, sinkVars, isNetworkReady, client, backlog,
                 leaked, pc>>

------------------------------------------------------------------------------
(* NO_CONNECTION and CONNECTED. *)

ConnectNetwork ==
  /\ TickIn("NO_CONNECTION")
  /\ CallProvider("connect")
  /\ pc' = "calling"
  /\ UNCHANGED <<sinkVars, isNetworkReady, client, socket>>

\* Whatever the failure, the sink sleeps and tries again for ever.
NetworkAnswers(status) ==
  /\ GoTo("calling", "tick")
  /\ AnswerConnect(status)
  /\ itsCurrentState' = IF status = "CONNECTED" THEN "CONNECTED" ELSE itsCurrentState
  /\ UNCHANGED <<listenIterationsCount, isNetworkReady, client, socket>>

\* MqttClient::connect() believes its own flag; otherwise the library connects or
\* fails.  MqttProtocol::connect() then answers what the library knows.
ConnectClient(succeeds) ==
  /\ isConnected' = (isConnected \/ succeeds)
  /\ session' = (session \/ (~isConnected /\ succeeds))

ConnectProtocol(succeeds) ==
  /\ TickIn("CONNECTED")
  /\ ConnectClient(succeeds)
  /\ IF session'
     THEN listenIterationsCount' = 0 /\ itsCurrentState' = "LISTENING_CONNECTED"
     ELSE UNCHANGED sinkVars
  /\ UNCHANGED <<providerVars, isNetworkReady, socket, pc>>

\* publish, waitForCompletion and yield may find the session broken.  Nothing
\* else does: no callbacks are set, so that the library has no thread of its own.
LibraryRuns == session' \in {session, FALSE}

------------------------------------------------------------------------------
(* LISTENING_CONNECTED: processMessageQueue, and the ++ after the sleep. *)

OpenDescriptors == leaked + (IF peer = "none" THEN 0 ELSE 1)
DescriptorsLeft == OpenDescriptors < MaxDescriptors

\* Mutant: an attempt in vain is not counted.
NobodyWaitsUncounted ==
  /\ TickIn("LISTENING_CONNECTED")
  /\ DescriptorsLeft
  /\ backlog = 0
  /\ leaked' = OpenDescriptors
  /\ peer' = "none"
  /\ UNCHANGED <<providerVars, sinkVars, isNetworkReady, client, backlog, pc>>

\* SinkSocket::connect() forgets a descriptor that was not closed: accept()'s
\* result, -1 included, overwrites it.
NobodyWaits ==
  /\ TickIn("LISTENING_CONNECTED")
  /\ DescriptorsLeft
  /\ backlog = 0
  /\ leaked' = OpenDescriptors
  /\ peer' = "none"
  /\ listenIterationsCount' = listenIterationsCount + 1
  /\ UNCHANGED <<providerVars, itsCurrentState, isNetworkReady, client,
                 backlog, pc>>

\* A runtime_error: out of descriptors, or a passing trouble of the kernel's.
AcceptFails ==
  /\ TickIn("LISTENING_CONNECTED")
  /\ leaked' = OpenDescriptors
  /\ peer' = "none"
  /\ UNCHANGED <<providerVars, sinkVars, isNetworkReady, client, backlog, pc>>

\* If what connect() happens to return is EAGAIN, the sensor just accepted is
\* taken for none.
AcceptSensor(rc) ==
  /\ TickIn("LISTENING_CONNECTED")
  /\ DescriptorsLeft
  /\ backlog > 0
  /\ backlog' = backlog - 1
  /\ leaked' = OpenDescriptors
  /\ peer' = "sending"
  /\ IF rc = "EAGAIN"
     THEN listenIterationsCount' = listenIterationsCount + 1 /\ UNCHANGED pc
     ELSE listenIterationsCount' = 0 /\ pc' = "receiving"
  /\ UNCHANGED <<providerVars, itsCurrentState, isNetworkReady, client>>

\* A packet of the right size; one whose point and quantity are not mapped is
\* dropped by sendMessage before it takes the mutex.
ReceivePacket(mapped) ==
  /\ pc = "receiving"
  /\ peer = "sending"
  /\ pc' = IF mapped THEN "sending" ELSE "receiving"
  /\ UNCHANGED <<providerVars, sinkVars, isNetworkReady, client, socket>>

\* A size mismatch is a runtime_error, and the socket stays open.
ReceiveShort ==
  /\ GoTo("receiving", "tick")
  /\ peer = "sending"
  /\ UNCHANGED <<providerVars, sinkVars, isNetworkReady, client, socket>>

\* recv() tells the end or an error; a packet of 11 bytes is taken for EAGAIN.
\* The socket is closed, and the library may run in yield().
ReceiveEnds ==
  /\ GoTo("receiving", "tick")
  /\ peer' = "none"
  /\ LibraryRuns
  /\ listenIterationsCount' = listenIterationsCount + 1
  /\ UNCHANGED <<providerVars, itsCurrentState, isNetworkReady, isConnected,
                 backlog, leaked>>

\* sendMessage takes itsEventMutex and looks at the client, then at the flag.
\* ERROR_PROTOCOL is an unhandled return code: the packet is lost.
SendMessage ==
  /\ pc = "sending"
  /\ \/ ~session /\ pc' = "failing"
     \/ session /\ isNetworkReady /\ pc' = "publishing"
     \/ session /\ ~isNetworkReady /\ pc' = "receiving"
  /\ UNCHANGED <<providerVars, sinkVars, isNetworkReady, client, socket>>

\* publishMessage waits a second for the broker; its result is not looked at.
Publish ==
  /\ GoTo("publishing", "receiving")
  /\ LibraryRuns
  /\ UNCHANGED <<providerVars, sinkVars, isNetworkReady, isConnected, socket>>

\* Mutant: MqttClient::disconnect() keeps the flag.
SendingExceptionKeepsFlag ==
  /\ GoTo("failing", "tick")
  /\ itsCurrentState' = "NO_CONNECTION"
  /\ listenIterationsCount' = 0
  /\ session' = FALSE
  /\ UNCHANGED <<providerVars, isNetworkReady, isConnected, socket>>

\* The handler of SendingException; the sensor's socket stays open.
SendingException ==
  /\ GoTo("failing", "tick")
  /\ itsCurrentState' = "NO_CONNECTION"
  /\ listenIterationsCount' = 0
  /\ isConnected' = FALSE
  /\ session' = FALSE
  /\ UNCHANGED <<providerVars, isNetworkReady, socket>>

------------------------------------------------------------------------------
(* After the loop. *)

\* Mutant: the network is hung up with the session still open.
LeaveConnected ==
  /\ GoTo("tick", "leaving")
  /\ listenIterationsCount >= MaxListenIterationsCount
  /\ UNCHANGED <<providerVars, sinkVars, isNetworkReady, client, socket>>

Leave ==
  /\ GoTo("tick", "leaving")
  /\ listenIterationsCount >= MaxListenIterationsCount
  /\ isConnected' = FALSE
  /\ session' = FALSE
  /\ UNCHANGED <<providerVars, sinkVars, isNetworkReady, socket>>

HangUp ==
  /\ GoTo("leaving", "calling")
  /\ CallProvider("disconnect")
  /\ UNCHANGED <<sinkVars, isNetworkReady, client, socket>>

Exit(status) ==
  /\ GoTo("calling", "exited")
  /\ AnswerDisconnect(status)
  /\ UNCHANGED <<sinkVars, isNetworkReady, client, socket>>

------------------------------------------------------------------------------
Environment ==
  \/ \E status \in Notices : OnNetworkStatusChange(status)
  \/ SensorConnects \/ SensorCloses

Answers ==
  \/ \E status \in ConnectAnswers : NetworkAnswers(status)
  \/ \E status \in DisconnectAnswers : Exit(status)

Accepts == NobodyWaits \/ \E rc \in AcceptReturns : AcceptSensor(rc)

\* What the sink thread does by itself once it is scheduled.
SinkSteps ==
  \/ ConnectNetwork \/ ConnectProtocol(TRUE)
  \/ Accepts \/ (peer = "closed" /\ ReceiveEnds) \/ SendMessage \/ Publish
  \/ SendingException \/ Leave \/ HangUp

\* What depends on what a sensor sends, or goes wrong.
Inputs ==
  \/ \E mapped \in BOOLEAN : ReceivePacket(mapped)
  \/ ReceiveShort \/ (peer = "sending" /\ ReceiveEnds) \/ ConnectProtocol(FALSE) \/ AcceptFails

Next == Environment \/ Answers \/ SinkSteps \/ Inputs

\* The sink thread runs, and neither accept() nor the broker fails for ever.  The
\* provider owes no answer, and a client need not send or close.
Fairness ==
  /\ WF_vars(SinkSteps)
  /\ SF_vars(Accepts)
  /\ SF_vars(ConnectProtocol(TRUE))

Spec == Init /\ [][Next]_vars /\ Fairness

------------------------------------------------------------------------------
(* Properties. *)

\* Every variable has its type.
TypeOK ==
  /\ told \in Notices \union {NoStatus}
  /\ call \in {"connect", "disconnect", "none"}
  /\ answer \in Notices \union {NoStatus, "UNKNOWN_ERROR"}
  /\ itsCurrentState \in SinkState \ {"LISTENING_DISCONNECTED"}
  /\ listenIterationsCount \in 0..MaxListenIterationsCount
  /\ isNetworkReady \in BOOLEAN
  /\ isConnected \in BOOLEAN /\ session \in BOOLEAN
  /\ backlog \in 0..MaxBacklog
  /\ peer \in {"none", "sending", "closed"}
  /\ leaked \in 0..MaxDescriptors
  /\ pc \in Pc

\* A message is published only while the network counts as ready, for the whole
\* time publishMessage takes: a loss reported meanwhile waits for the mutex.
PublishesOnlyWhenReady == pc = "publishing" => isNetworkReady /\ told = "CONNECTED"

\* MqttClient's flag covers the library's session, is on while the sink listens,
\* and is off when the sink starts from scratch, so that the next connect() is a
\* real one.
ConnectedFlagFollowsState ==
  /\ session => isConnected
  /\ itsCurrentState = "NO_CONNECTION" => ~isConnected
  /\ itsCurrentState = "LISTENING_CONNECTED" /\ pc \notin {"leaving", "calling", "exited"}
       => isConnected

\* A sensor being served holds off the idle exit: its count starts anew.
ServedSensorRestartsCount ==
  pc \in {"receiving", "sending", "publishing", "failing"} => listenIterationsCount = 0

\* The MQTT session is over before the network is hung up, and stays over.
MqttClosedBeforeNetwork ==
  call = "disconnect" \/ pc = "exited" => ~session /\ ~isConnected

\* The sink is past its loop, or not listening.
NotListening ==
  itsCurrentState # "LISTENING_CONNECTED" \/ pc \in {"leaving", "calling", "exited"}

\* When no sensor comes any more, descriptors are left and the last client does not
\* stay in silence (recv() has no timeout), a listening sink comes to an end: it
\* exits, or has lost its session and starts from scratch.
IdleSinkExits ==
  (<>[](backlog = 0 /\ DescriptorsLeft) /\ []<>(peer # "sending"))
    => (~NotListening ~> NotListening)

\* "Could not connect to MQTT server. Resuming in %d seconds": once there is a
\* network, and unless the broker refuses for ever, the sink gets to listen; a
\* flag left on by an earlier session would keep it from connecting again.
MqttConnectResumes ==
  itsCurrentState = "CONNECTED" ~> itsCurrentState = "LISTENING_CONNECTED"

\* What the log line "Listening for incoming packets, attempt %d / %d" promises:
\* when no sensor comes any more, the attempts come to an end.
ListeningAttemptsEnd == <>[](backlog = 0) => (~NotListening ~> NotListening)
==============================================================================
