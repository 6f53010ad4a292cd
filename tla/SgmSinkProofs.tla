---------------------------- MODULE SgmSinkProofs ----------------------------
(***************************************************************************)
(* Proofs of the safety properties of SgmSink, for any number of listening *)
(* attempts, descriptors and waiting sensors, whatever SinkSocket::connect *)
(* returns, and against every provider that keeps the NetworkProvider      *)
(* promise.                                                                *)
(***************************************************************************)
EXTENDS SgmSink, TLAPS

\* Where the sink thread is, beside its state and its call to the provider.
Places ==
  /\ pc \in {"receiving", "sending", "publishing", "failing", "leaving", "exited"}
       => itsCurrentState = "LISTENING_CONNECTED"
  /\ call = "connect" => pc = "calling" /\ itsCurrentState = "NO_CONNECTION"
  /\ call = "disconnect" => pc = "calling" /\ itsCurrentState = "LISTENING_CONNECTED"
  /\ pc = "calling" => call # "none"
  /\ itsCurrentState # "LISTENING_CONNECTED" => listenIterationsCount = 0

\* Once the loop is left there is no session.
Left ==
  pc \in {"leaving", "exited"} \/ call = "disconnect" => ~session /\ ~isConnected

\* What MqttProtocol knows of the network.
Ready ==
  /\ isNetworkReady <=> told = "CONNECTED"
  /\ pc = "publishing" => isNetworkReady

Counted ==
  pc \in {"receiving", "sending", "publishing", "failing"} => listenIterationsCount = 0

Connected ==
  /\ session => isConnected
  /\ itsCurrentState = "NO_CONNECTION" => ~isConnected
  /\ itsCurrentState = "LISTENING_CONNECTED" /\ pc \notin {"leaving", "exited"}
       /\ call # "disconnect" => isConnected

\* accept() gives no descriptor when none is left.
Descriptors == OpenDescriptors <= MaxDescriptors

IInv == TypeOK /\ Places /\ Left /\ Ready /\ Counted /\ Connected /\ Descriptors

\* The process starts with nothing connected.
LEMMA InitIInv == Init => IInv
<1> SUFFICES ASSUME Init PROVE IInv
  OBVIOUS
<1> USE SinkAssumption DEF Init, ProviderInit, NoStatus
<1>1. /\ isNetworkReady \in BOOLEAN
      /\ isConnected \in BOOLEAN /\ session \in BOOLEAN
  BY Zenon
<1>2. TypeOK
  BY <1>1 DEF TypeOK, Notices, SinkState, Pc
<1>3. Descriptors
  BY DEF Descriptors, OpenDescriptors
<1>4. Places /\ Left /\ Ready /\ Counted /\ Connected
  BY DEF Places, Left, Ready, Counted, Connected
<1> QED
  BY <1>2, <1>3, <1>4 DEF IInv

\* Every step preserves the types and the bound on the open descriptors.
LEMMA NextTypeOK == IInv /\ [Next]_vars => (TypeOK /\ Descriptors)'
<1> SUFFICES ASSUME IInv, [Next]_vars PROVE (TypeOK /\ Descriptors)'
  OBVIOUS
<1> USE SinkAssumption DEF IInv, TypeOK, Counted, Descriptors, OpenDescriptors, Notices, NoStatus, SinkState, Pc,
        providerVars, sinkVars, client, socket
<1>1. ASSUME NEW status \in Notices, OnNetworkStatusChange(status) PROVE (TypeOK /\ Descriptors)'
  BY <1>1 DEF OnNetworkStatusChange, Tell, Notices
<1>2. ASSUME SensorConnects PROVE (TypeOK /\ Descriptors)'
  BY <1>2 DEF SensorConnects
<1>3. ASSUME SensorCloses PROVE (TypeOK /\ Descriptors)'
  BY <1>3 DEF SensorCloses
<1>4. ASSUME NEW status \in ConnectAnswers, NetworkAnswers(status) PROVE (TypeOK /\ Descriptors)'
  BY <1>4 DEF NetworkAnswers, AnswerConnect, ConnectAnswers, Notices, GoTo
<1>5. ASSUME NEW status \in DisconnectAnswers, Exit(status) PROVE (TypeOK /\ Descriptors)'
  BY <1>5 DEF Exit, AnswerDisconnect, DisconnectAnswers, Notices, GoTo
<1>6. ASSUME ConnectNetwork PROVE (TypeOK /\ Descriptors)'
  BY <1>6 DEF ConnectNetwork, CallProvider, TickIn
<1>7. ASSUME NEW succeeds \in BOOLEAN, ConnectProtocol(succeeds) PROVE (TypeOK /\ Descriptors)'
  BY <1>7 DEF ConnectProtocol, ConnectClient, TickIn
<1>8. ASSUME NobodyWaits PROVE (TypeOK /\ Descriptors)'
  BY <1>8 DEF NobodyWaits, TickIn, DescriptorsLeft
<1>9. ASSUME NEW rc \in AcceptReturns, AcceptSensor(rc) PROVE (TypeOK /\ Descriptors)'
  BY <1>9 DEF AcceptSensor, TickIn, DescriptorsLeft
<1>10. ASSUME AcceptFails PROVE (TypeOK /\ Descriptors)'
  BY <1>10 DEF AcceptFails, TickIn
<1>11. ASSUME NEW mapped \in BOOLEAN, ReceivePacket(mapped) PROVE (TypeOK /\ Descriptors)'
  BY <1>11 DEF ReceivePacket
<1>12. ASSUME ReceiveShort PROVE (TypeOK /\ Descriptors)'
  BY <1>12 DEF ReceiveShort, GoTo
<1>13. ASSUME ReceiveEnds PROVE (TypeOK /\ Descriptors)'
  <2>1. session' \in BOOLEAN
    BY <1>13, Zenon DEF ReceiveEnds, LibraryRuns, GoTo
  <2> QED
    BY <1>13, <2>1 DEF ReceiveEnds, LibraryRuns, GoTo
<1>14. ASSUME SendMessage PROVE (TypeOK /\ Descriptors)'
  BY <1>14 DEF SendMessage
<1>15. ASSUME Publish PROVE (TypeOK /\ Descriptors)'
  <2>1. session' \in BOOLEAN
    BY <1>15, Zenon DEF Publish, LibraryRuns, GoTo
  <2> QED
    BY <1>15, <2>1 DEF Publish, LibraryRuns, GoTo
<1>16. ASSUME SendingException PROVE (TypeOK /\ Descriptors)'
  <2>1. session' \in BOOLEAN /\ isConnected' \in BOOLEAN
    BY <1>16, Zenon DEF SendingException, GoTo
  <2> QED
    BY <1>16, <2>1 DEF SendingException, GoTo
<1>17. ASSUME Leave PROVE (TypeOK /\ Descriptors)'
  <2>1. session' \in BOOLEAN /\ isConnected' \in BOOLEAN
    BY <1>17, Zenon DEF Leave, GoTo
  <2> QED
    BY <1>17, <2>1 DEF Leave, GoTo
<1>18. ASSUME HangUp PROVE (TypeOK /\ Descriptors)'
  BY <1>18 DEF HangUp, CallProvider, GoTo
<1>19. ASSUME UNCHANGED vars PROVE (TypeOK /\ Descriptors)'
  BY <1>19 DEF vars
<1> QED
  BY <1>1, <1>2, <1>3, <1>4, <1>5, <1>6, <1>7, <1>8, <1>9, <1>10, <1>11, <1>12, <1>13, <1>14, <1>15, <1>16, <1>17, <1>18, <1>19
  DEF Next, Environment, Answers, SinkSteps, Inputs, Accepts

\* Every step keeps the thread, its state and its call together.
LEMMA NextPlaces == IInv /\ [Next]_vars => Places'
<1> SUFFICES ASSUME IInv, [Next]_vars PROVE Places'
  OBVIOUS
<1> USE SinkAssumption DEF IInv, TypeOK, Places,
        providerVars, sinkVars, client, socket
<1>1. ASSUME NEW status \in Notices, OnNetworkStatusChange(status) PROVE Places'
  BY <1>1 DEF OnNetworkStatusChange, Tell, Notices
<1>2. ASSUME SensorConnects PROVE Places'
  BY <1>2 DEF SensorConnects
<1>3. ASSUME SensorCloses PROVE Places'
  BY <1>3 DEF SensorCloses
<1>4. ASSUME NEW status \in ConnectAnswers, NetworkAnswers(status) PROVE Places'
  BY <1>4 DEF NetworkAnswers, AnswerConnect, ConnectAnswers, Notices, GoTo
<1>5. ASSUME NEW status \in DisconnectAnswers, Exit(status) PROVE Places'
  BY <1>5 DEF Exit, AnswerDisconnect, DisconnectAnswers, Notices, GoTo
<1>6. ASSUME ConnectNetwork PROVE Places'
  BY <1>6 DEF ConnectNetwork, CallProvider, TickIn
<1>7. ASSUME NEW succeeds \in BOOLEAN, ConnectProtocol(succeeds) PROVE Places'
  BY <1>7 DEF ConnectProtocol, ConnectClient, TickIn
<1>8. ASSUME NobodyWaits PROVE Places'
  BY <1>8 DEF NobodyWaits, TickIn, DescriptorsLeft
<1>9. ASSUME NEW rc \in AcceptReturns, AcceptSensor(rc) PROVE Places'
  BY <1>9 DEF AcceptSensor, TickIn, DescriptorsLeft
<1>10. ASSUME AcceptFails PROVE Places'
  BY <1>10 DEF AcceptFails, TickIn
<1>11. ASSUME NEW mapped \in BOOLEAN, ReceivePacket(mapped) PROVE Places'
  BY <1>11 DEF ReceivePacket
<1>12. ASSUME ReceiveShort PROVE Places'
  BY <1>12 DEF ReceiveShort, GoTo
<1>13. ASSUME ReceiveEnds PROVE Places'
  BY <1>13 DEF ReceiveEnds, LibraryRuns, GoTo
<1>14. ASSUME SendMessage PROVE Places'
  BY <1>14 DEF SendMessage
<1>15. ASSUME Publish PROVE Places'
  BY <1>15 DEF Publish, LibraryRuns, GoTo
<1>16. ASSUME SendingException PROVE Places'
  BY <1>16 DEF SendingException, GoTo
<1>17. ASSUME Leave PROVE Places'
  BY <1>17 DEF Leave, GoTo
<1>18. ASSUME HangUp PROVE Places'
  BY <1>18 DEF HangUp, CallProvider, GoTo
<1>19. ASSUME UNCHANGED vars PROVE Places'
  BY <1>19 DEF vars
<1> QED
  BY <1>1, <1>2, <1>3, <1>4, <1>5, <1>6, <1>7, <1>8, <1>9, <1>10, <1>11, <1>12, <1>13, <1>14, <1>15, <1>16, <1>17, <1>18, <1>19
  DEF Next, Environment, Answers, SinkSteps, Inputs, Accepts

\* Every step keeps the client's flag right, before and after the loop.
LEMMA NextClient == IInv /\ [Next]_vars => (Left /\ Connected)'
<1> SUFFICES ASSUME IInv, [Next]_vars PROVE (Left /\ Connected)'
  OBVIOUS
<1> USE SinkAssumption DEF IInv, TypeOK, Places, Left, Connected,
        providerVars, sinkVars, client, socket
<1>1. ASSUME NEW status \in Notices, OnNetworkStatusChange(status) PROVE (Left /\ Connected)'
  BY <1>1 DEF OnNetworkStatusChange, Tell, Notices
<1>2. ASSUME SensorConnects PROVE (Left /\ Connected)'
  BY <1>2 DEF SensorConnects
<1>3. ASSUME SensorCloses PROVE (Left /\ Connected)'
  BY <1>3 DEF SensorCloses
<1>4. ASSUME NEW status \in ConnectAnswers, NetworkAnswers(status) PROVE (Left /\ Connected)'
  BY <1>4 DEF NetworkAnswers, AnswerConnect, ConnectAnswers, Notices, GoTo
<1>5. ASSUME NEW status \in DisconnectAnswers, Exit(status) PROVE (Left /\ Connected)'
  BY <1>5 DEF Exit, AnswerDisconnect, DisconnectAnswers, Notices, GoTo
<1>6. ASSUME ConnectNetwork PROVE (Left /\ Connected)'
  BY <1>6 DEF ConnectNetwork, CallProvider, TickIn
<1>7. ASSUME NEW succeeds \in BOOLEAN, ConnectProtocol(succeeds) PROVE (Left /\ Connected)'
  BY <1>7 DEF ConnectProtocol, ConnectClient, TickIn
<1>8. ASSUME NobodyWaits PROVE (Left /\ Connected)'
  BY <1>8 DEF NobodyWaits, TickIn, DescriptorsLeft
<1>9. ASSUME NEW rc \in AcceptReturns, AcceptSensor(rc) PROVE (Left /\ Connected)'
  BY <1>9 DEF AcceptSensor, TickIn, DescriptorsLeft
<1>10. ASSUME AcceptFails PROVE (Left /\ Connected)'
  BY <1>10 DEF AcceptFails, TickIn
<1>11. ASSUME NEW mapped \in BOOLEAN, ReceivePacket(mapped) PROVE (Left /\ Connected)'
  BY <1>11 DEF ReceivePacket
<1>12. ASSUME ReceiveShort PROVE (Left /\ Connected)'
  BY <1>12 DEF ReceiveShort, GoTo
<1>13. ASSUME ReceiveEnds PROVE (Left /\ Connected)'
  BY <1>13 DEF ReceiveEnds, LibraryRuns, GoTo
<1>14. ASSUME SendMessage PROVE (Left /\ Connected)'
  BY <1>14 DEF SendMessage
<1>15. ASSUME Publish PROVE (Left /\ Connected)'
  BY <1>15 DEF Publish, LibraryRuns, GoTo
<1>16. ASSUME SendingException PROVE (Left /\ Connected)'
  BY <1>16 DEF SendingException, GoTo
<1>17. ASSUME Leave PROVE (Left /\ Connected)'
  BY <1>17 DEF Leave, GoTo
<1>18. ASSUME HangUp PROVE (Left /\ Connected)'
  BY <1>18 DEF HangUp, CallProvider, GoTo
<1>19. ASSUME UNCHANGED vars PROVE (Left /\ Connected)'
  BY <1>19 DEF vars
<1> QED
  BY <1>1, <1>2, <1>3, <1>4, <1>5, <1>6, <1>7, <1>8, <1>9, <1>10, <1>11, <1>12, <1>13, <1>14, <1>15, <1>16, <1>17, <1>18, <1>19
  DEF Next, Environment, Answers, SinkSteps, Inputs, Accepts

\* Every step keeps the protocol's flag right and the count of a served sensor at 0.
LEMMA NextReady == IInv /\ [Next]_vars => (Ready /\ Counted)'
<1> SUFFICES ASSUME IInv, [Next]_vars PROVE (Ready /\ Counted)'
  OBVIOUS
<1> USE SinkAssumption DEF IInv, TypeOK, Ready, Counted,
        providerVars, sinkVars, client, socket
<1>1. ASSUME NEW status \in Notices, OnNetworkStatusChange(status) PROVE (Ready /\ Counted)'
  BY <1>1 DEF OnNetworkStatusChange, Tell, Notices
<1>2. ASSUME SensorConnects PROVE (Ready /\ Counted)'
  BY <1>2 DEF SensorConnects
<1>3. ASSUME SensorCloses PROVE (Ready /\ Counted)'
  BY <1>3 DEF SensorCloses
<1>4. ASSUME NEW status \in ConnectAnswers, NetworkAnswers(status) PROVE (Ready /\ Counted)'
  BY <1>4 DEF NetworkAnswers, AnswerConnect, ConnectAnswers, Notices, GoTo
<1>5. ASSUME NEW status \in DisconnectAnswers, Exit(status) PROVE (Ready /\ Counted)'
  BY <1>5 DEF Exit, AnswerDisconnect, DisconnectAnswers, Notices, GoTo
<1>6. ASSUME ConnectNetwork PROVE (Ready /\ Counted)'
  BY <1>6 DEF ConnectNetwork, CallProvider, TickIn
<1>7. ASSUME NEW succeeds \in BOOLEAN, ConnectProtocol(succeeds) PROVE (Ready /\ Counted)'
  BY <1>7 DEF ConnectProtocol, ConnectClient, TickIn
<1>8. ASSUME NobodyWaits PROVE (Ready /\ Counted)'
  BY <1>8 DEF NobodyWaits, TickIn, DescriptorsLeft
<1>9. ASSUME NEW rc \in AcceptReturns, AcceptSensor(rc) PROVE (Ready /\ Counted)'
  BY <1>9 DEF AcceptSensor, TickIn, DescriptorsLeft
<1>10. ASSUME AcceptFails PROVE (Ready /\ Counted)'
  BY <1>10 DEF AcceptFails, TickIn
<1>11. ASSUME NEW mapped \in BOOLEAN, ReceivePacket(mapped) PROVE (Ready /\ Counted)'
  BY <1>11 DEF ReceivePacket
<1>12. ASSUME ReceiveShort PROVE (Ready /\ Counted)'
  BY <1>12 DEF ReceiveShort, GoTo
<1>13. ASSUME ReceiveEnds PROVE (Ready /\ Counted)'
  BY <1>13 DEF ReceiveEnds, LibraryRuns, GoTo
<1>14. ASSUME SendMessage PROVE (Ready /\ Counted)'
  BY <1>14 DEF SendMessage
<1>15. ASSUME Publish PROVE (Ready /\ Counted)'
  BY <1>15 DEF Publish, LibraryRuns, GoTo
<1>16. ASSUME SendingException PROVE (Ready /\ Counted)'
  BY <1>16 DEF SendingException, GoTo
<1>17. ASSUME Leave PROVE (Ready /\ Counted)'
  BY <1>17 DEF Leave, GoTo
<1>18. ASSUME HangUp PROVE (Ready /\ Counted)'
  BY <1>18 DEF HangUp, CallProvider, GoTo
<1>19. ASSUME UNCHANGED vars PROVE (Ready /\ Counted)'
  BY <1>19 DEF vars
<1> QED
  BY <1>1, <1>2, <1>3, <1>4, <1>5, <1>6, <1>7, <1>8, <1>9, <1>10, <1>11, <1>12, <1>13, <1>14, <1>15, <1>16, <1>17, <1>18, <1>19
  DEF Next, Environment, Answers, SinkSteps, Inputs, Accepts

\* The invariant every property below follows from.
THEOREM Inductive == Spec => []IInv
<1>1. IInv /\ [Next]_vars => IInv'
  BY NextTypeOK, NextPlaces, NextClient, NextReady DEF IInv
<1> QED
  BY InitIInv, <1>1, PTL DEF Spec

\* Every variable keeps its type: the count stays within its limit and the
\* process within its descriptors.
THEOREM TypeCorrect == Spec => []TypeOK
<1>1. IInv => TypeOK
  BY DEF IInv
<1> QED
  BY Inductive, <1>1, PTL

\* Nothing is published while the network is known to be gone, thanks to the
\* mutex the callback waits for.
THEOREM PublishesWhenReady == Spec => []PublishesOnlyWhenReady
<1>1. IInv => PublishesOnlyWhenReady
  BY DEF IInv, Ready, PublishesOnlyWhenReady
<1> QED
  BY Inductive, <1>1, PTL

\* MqttClient's cached flag is right wherever connect() relies on it.
THEOREM ConnectedFlagRight == Spec => []ConnectedFlagFollowsState
<1>1. IInv => ConnectedFlagFollowsState
  BY DEF IInv, Connected, Places, ConnectedFlagFollowsState, TypeOK
<1> QED
  BY Inductive, <1>1, PTL

\* No idle exit strikes while a sensor is served.
THEOREM ServedSensorCounts == Spec => []ServedSensorRestartsCount
<1>1. IInv => ServedSensorRestartsCount
  BY DEF IInv, Counted, ServedSensorRestartsCount
<1> QED
  BY Inductive, <1>1, PTL

\* The session is closed before the network is hung up.
THEOREM MqttClosedFirst == Spec => []MqttClosedBeforeNetwork
<1>1. IInv => MqttClosedBeforeNetwork
  BY DEF IInv, Left, MqttClosedBeforeNetwork
<1> QED
  BY Inductive, <1>1, PTL
==============================================================================
