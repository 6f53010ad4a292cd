------------------------ MODULE SensorPipelineProofs ------------------------
(***************************************************************************)
(* Proofs about the pipeline: what SgmSink promises holds across the deaths *)
(* and restarts of the sink process, values are compensated with their own *)
(* temperature, and the pipeline implements MeasurementFeed, for any       *)
(* number of runs, waiting connections and descriptors.                    *)
(***************************************************************************)
EXTENDS SensorPipeline, SgmSinkProofs

------------------------------------------------------------------------------
(* The inductive invariant. *)

\* Where the sensor process is, and what it has.
SensorInv ==
  /\ SensorTypeOK
  /\ sensorPc # "off" => run \in Runs
  /\ sensorPc # "sending" => sent = 0
  /\ sensorPc \in {"off", "registering"} => itsSensorVector = <<>> /\ measurementsData = <<>>
  /\ sensorPc \notin {"off", "registering"} => itsSensorVector = <<"AIR">>
  /\ sensorPc = "acquiring" => Len(measurementsData) < Count
  /\ sensorPc \in {"connecting", "sending"} => Len(measurementsData) = Count
  /\ measurementsData # <<>> => tFine = run
  /\ CompensatedWithOwnTemperature

\* The sensor has not connected yet.
Early == sensorPc \in {"registering", "acquiring", "connecting"}

\* A measurement that has left the sensor.
HasLeft(r, k) ==
  /\ r <= run
  /\ Early => r < run
  /\ sensorPc = "sending" /\ r = run => k <= sent

\* What is in a connection has left its sensor, in order; other clients have no
\* measurements.
InOrder(c) ==
  /\ c \in Connection
  /\ HasLeft(c.of, 0)
  /\ c.of = OtherClient => c.packets = <<>>
  /\ \A i \in DOMAIN c.packets : HasLeft(c.of, c.packets[i])
  /\ \A i, j \in DOMAIN c.packets : i < j => c.packets[i] < c.packets[j]

Precedes(c, d) == c.of # OtherClient /\ d.of # OtherClient => c.of < d.of

\* Connections wait in the order of their runs, and all after the one served.
ConnectionsInv ==
  /\ connections \in Seq(Connection)
  /\ Len(connections) = backlog
  /\ InOrder(served)
  /\ \A i \in DOMAIN connections : InOrder(connections[i]) /\ Precedes(served, connections[i])
  /\ \A i, j \in DOMAIN connections : i < j => Precedes(connections[i], connections[j])

\* A packet is older than all that is in a connection.
Older(p, c) == \A i \in DOMAIN c.packets : Feed!Before(p, <<c.of, c.packets[i]>>)

PacketInv ==
  /\ packet = NoPacket \/ packet \in Runs \X Indices
  /\ packet # NoPacket => HasLeft(packet[1], packet[2])
  /\ Older(packet, served)
  /\ \A i \in DOMAIN connections : Older(packet, connections[i])

PublishedInv ==
  /\ published \in (0..MaxRuns) \X (0..Count)
  /\ HasLeft(published[1], 0)

PipelineInv == IInv /\ SensorInv /\ ConnectionsInv /\ PacketInv /\ PublishedInv

------------------------------------------------------------------------------
(* The sink across deaths and restarts. *)

\* A step of the pipeline is one of SgmSink, or none, or a restart.
LEMMA StepOfSink == [PipelineNext]_pipelineVars => [Next]_vars \/ SinkStartsAgain
<1> SUFFICES ASSUME [PipelineNext]_pipelineVars PROVE [Next]_vars \/ SinkStartsAgain
  OBVIOUS
<1>1. ASSUME SensorSteps PROVE [Next]_vars
  BY <1>1 DEF SensorSteps, SensorOpens, SensorSends, Next, Environment
<1>2. CASE TimerOrDeath
  BY <1>2 DEF TimerOrDeath
<1>3. ASSUME SinkAlone PROVE Next
  BY <1>3 DEF SinkAlone, Next, Environment, Inputs
<1>4. ASSUME SinkAcceptSteps PROVE Next
  BY <1>4 DEF SinkAcceptSteps, SinkAccepts, Next, SinkSteps, Accepts
<1>5. ASSUME ProtocolConnects PROVE Next
  BY <1>5 DEF ProtocolConnects, Next, SinkSteps
<1>6. ASSUME SinkReads PROVE Next
  <2>1. ReceivePacket(TRUE) \/ ReceivePacket(FALSE)
    BY <1>6 DEF SinkReads, ReceivePacket
  <2> QED
    BY <2>1 DEF Next, Inputs
<1>7. ASSUME SinkSends \/ SinkPublishes PROVE Next
  BY <1>7 DEF SinkSends, SinkPublishes, Next, SinkSteps
<1>8. ASSUME ClientInputs PROVE Next
  BY <1>8 DEF ClientInputs, OtherClientOpens, ClientCloses, SinkReadsOther, Next, Environment, Inputs
<1>9. ASSUME SinkProgress PROVE Next \/ SinkStartsAgain
  BY <1>4, <1>5, <1>6, <1>7, <1>9 DEF SinkProgress, Next, SinkSteps
<1>10. CASE UNCHANGED pipelineVars
  BY <1>10 DEF pipelineVars
<1> QED
  BY <1>1, <1>2, <1>3, <1>8, <1>9, <1>10 DEF PipelineNext

\* A process that is started for a waiting connection knows of nothing.
LEMMA RestartIInv == IInv /\ SinkStartsAgain => IInv'
<1> SUFFICES ASSUME IInv, SinkStartsAgain PROVE IInv'
  OBVIOUS
<1> USE SinkAssumption DEF IInv, SinkStartsAgain, NoStatus
<1>1. /\ isNetworkReady' \in BOOLEAN
      /\ isConnected' \in BOOLEAN /\ session' \in BOOLEAN
  BY Zenon
<1>2. TypeOK'
  BY <1>1 DEF TypeOK, Notices, SinkState, Pc
<1>3. Descriptors'
  BY DEF Descriptors, OpenDescriptors
<1>4. (Places /\ Left /\ Ready /\ Counted /\ Connected)'
  BY DEF Places, Left, Ready, Counted, Connected
<1> QED
  BY <1>2, <1>3, <1>4

\* SgmSink's invariant holds for every life of the process.
LEMMA StepIInv == IInv /\ [PipelineNext]_pipelineVars => IInv'
<1>1. IInv /\ [Next]_vars => IInv'
  BY NextTypeOK, NextPlaces, NextClient, NextReady DEF IInv
<1> QED
  BY <1>1, StepOfSink, RestartIInv

\* What SgmSink promises of the network and of the MQTT session survives whatever
\* happens to the process and to its clients.
THEOREM SinkPromisesKept ==
  PipelineSpec =>
    [](PublishesOnlyWhenReady /\ ConnectedFlagFollowsState /\ MqttClosedBeforeNetwork)
<1>1. PipelineInit => IInv
  BY InitIInv DEF PipelineInit
<1>2. IInv => PublishesOnlyWhenReady /\ ConnectedFlagFollowsState /\ MqttClosedBeforeNetwork
  BY DEF IInv, TypeOK, Places, Left, Ready, Connected, PublishesOnlyWhenReady,
         ConnectedFlagFollowsState, MqttClosedBeforeNetwork
<1> QED
  BY <1>1, <1>2, StepIInv, PTL DEF PipelineSpec

------------------------------------------------------------------------------
(* What a step does to the measurements. *)

\* Nothing moves, and something may be lost.
Idle ==
  /\ served' \in {served, Nobody}
  /\ packet' \in {packet, NoPacket}
  /\ UNCHANGED <<sensorVars, connections, backlog, published>>

Opens ==
  /\ Connect
  /\ connections' = Append(connections, NewConnection(run)) /\ backlog' = backlog + 1
  /\ UNCHANGED <<served, packet, published>>

OtherOpens ==
  /\ connections' = Append(connections, Nobody) /\ backlog' = backlog + 1
  /\ UNCHANGED <<sensorVars, served, packet, published>>

Takes ==
  /\ backlog > 0 /\ backlog' = backlog - 1
  /\ served' = Head(connections) /\ connections' = Tail(connections)
  /\ UNCHANGED <<sensorVars, packet, published>>

Reads ==
  /\ served.packets # <<>>
  /\ served' = [served EXCEPT !.packets = Tail(@)]
  /\ packet' \in {Message(served), NoPacket}
  /\ UNCHANGED <<sensorVars, connections, backlog, published>>

Hands ==
  /\ packet # NoPacket /\ packet' = NoPacket
  /\ published' = packet
  /\ UNCHANGED <<sensorVars, connections, backlog, served>>

SensorAlone ==
  /\ RegisterSensor \/ Measure \/ SensorEnds \/ TimerStarts
  /\ UNCHANGED <<connections, backlog, served, packet, published>>

View == Idle \/ Opens \/ OtherOpens \/ SensorSends \/ Takes \/ Reads \/ Hands \/ SensorAlone

\* Every step is one of these.
LEMMA StepView == [PipelineNext]_pipelineVars => View
<1> SUFFICES ASSUME [PipelineNext]_pipelineVars PROVE View
  OBVIOUS
<1> USE DEF socket
<1>1. CASE SensorSteps \/ TimerOrDeath
  BY <1>1 DEF SensorSteps, TimerOrDeath, SensorOpens, SensorConnects, View, Opens, SensorAlone, vars
<1>2. ASSUME NothingPasses, UNCHANGED <<sensorVars, backlog>> PROVE Idle
  BY <1>2 DEF NothingPasses, Idle
<1>3. CASE SinkAlone
  <2>1. UNCHANGED backlog
    BY <1>3 DEF SinkAlone, OnNetworkStatusChange, Answers, NetworkAnswers, Exit, ConnectProtocol, AcceptFails
  <2> QED
    BY <1>2, <1>3, <2>1 DEF SinkAlone, View
<1>4. CASE SinkAcceptSteps
  BY <1>2, <1>4 DEF SinkAcceptSteps, SinkAccepts, NobodyWaits, AcceptSensor, View, Takes
<1>5. CASE ProtocolConnects
  BY <1>2, <1>5 DEF ProtocolConnects, ConnectProtocol, View
<1>6. CASE SinkReads
  BY <1>6 DEF SinkReads, ReceivePacket, View, Reads
<1>7. CASE SinkSends
  BY <1>7 DEF SinkSends, SendMessage, View, Idle
<1>8. CASE SinkPublishes
  BY <1>8 DEF SinkPublishes, Publish, View, Idle, Hands
<1>9. CASE SinkStartsAgain
  BY <1>9 DEF SinkStartsAgain, View, Idle
<1>10. CASE /\ \/ ConnectNetwork \/ ReceiveEnds \/ SendingException \/ Leave \/ HangUp
            /\ NothingPasses /\ UNCHANGED sensorVars
  BY <1>2, <1>10 DEF ConnectNetwork, ReceiveEnds, SendingException, Leave, HangUp, View
<1>11. CASE OtherClientOpens
  BY <1>11 DEF OtherClientOpens, SensorConnects, View, OtherOpens
<1>12. CASE ClientCloses \/ SinkReadsOther
  BY <1>2, <1>12 DEF ClientCloses, SensorCloses, SinkReadsOther, ReceiveShort, ReceivePacket, View
<1>13. CASE SinkProgress
  BY <1>4, <1>5, <1>6, <1>7, <1>8, <1>9, <1>10, <1>13 DEF SinkProgress
<1>14. CASE ClientInputs
  BY <1>10, <1>11, <1>12, <1>14 DEF ClientInputs
<1>15. CASE UNCHANGED pipelineVars
  BY <1>15 DEF pipelineVars, vars, View, Idle
<1> QED
  BY <1>1, <1>3, <1>9, <1>13, <1>14, <1>15 DEF PipelineNext

------------------------------------------------------------------------------
(* The sensor process. *)

\* It is off, and nothing is anywhere.
LEMMA InitPipelineInv == PipelineInit => PipelineInv
<1> SUFFICES ASSUME PipelineInit PROVE PipelineInv
  OBVIOUS
<1> USE RunsAssumption DEF PipelineInit, SensorInit, NoPacket, Nobody, NewConnection, OtherClient
<1>1. IInv
  BY InitIInv
<1>2. SensorInv
  BY DEF SensorInv, SensorTypeOK, SensorPc, SgmProcessData, Count, CompensatedWithOwnTemperature
<1>3. InOrder(served)
  BY DEF InOrder, HasLeft, Connection, Early, Indices, Count
<1>4. ConnectionsInv
  BY <1>3 DEF ConnectionsInv
<1>5. PacketInv /\ PublishedInv
  BY DEF PacketInv, PublishedInv, HasLeft, Older, Early, Count
<1> QED
  BY <1>1, <1>2, <1>4, <1>5 DEF PipelineInv

\* What the k-th call of measure() appends, given that the vector holds the sensor.
LEMMA MeasureAppends ==
  SensorInv /\ Measure =>
    /\ measurementsData' = Append(measurementsData, Measured(AcquireOrder[Len(measurementsData) + 1]))
    /\ Measured(AcquireOrder[Len(measurementsData) + 1]) \in SgmProcessData
    /\ Measured(AcquireOrder[Len(measurementsData) + 1]).tFine = run
    /\ tFine' = run
<1> SUFFICES ASSUME SensorInv, Measure
             PROVE  LET quantity == AcquireOrder[Len(measurementsData) + 1]
                    IN  /\ measurementsData' = Append(measurementsData, Measured(quantity))
                        /\ Measured(quantity) \in SgmProcessData
                        /\ Measured(quantity).tFine = run
                        /\ tFine' = run
  OBVIOUS
<1> DEFINE quantity == AcquireOrder[Len(measurementsData) + 1]
<1>1. /\ sensorPc = "acquiring"
      /\ Compensate(quantity)
      /\ measurementsData' = Append(measurementsData, Measured(quantity))
  BY DEF Measure
<1>2. /\ measurementsData \in Seq(SgmProcessData) /\ Len(measurementsData) < 3
      /\ measurementsData # <<>> => tFine = run
      /\ itsSensorVector[1] = "AIR" /\ run \in 0..MaxRuns
  BY <1>1 DEF SensorInv, SensorTypeOK, Count
<1>3. quantity \in PhysQuantity
  BY <1>2 DEF AcquireOrder, PhysQuantity
<1>4. measurementsData = <<>> => quantity = "TEMPERATURE"
  BY DEF AcquireOrder
<1> HIDE DEF quantity
<1>5. tFine' = run
  BY <1>1, <1>2, <1>4 DEF Compensate
<1>6. Measured(quantity) = [measPoint |-> "AIR", physQuantityType |-> quantity, tFine |-> run]
  BY <1>2, <1>5 DEF Measured
<1>7. Measured(quantity) \in SgmProcessData /\ Measured(quantity).tFine = run
  BY <1>2, <1>3, <1>6 DEF SgmProcessData, MeasurementPoint
<1> QED
  BY <1>1, <1>5, <1>7 DEF quantity

\* What the process has fits where it is.
LEMMA NextSensor == SensorInv /\ View => SensorInv'
<1> SUFFICES ASSUME SensorInv, View PROVE SensorInv'
  OBVIOUS
<1> USE RunsAssumption DEF SensorInv, SensorTypeOK, CompensatedWithOwnTemperature, SensorPc, Count, Runs
<1>1. CASE UNCHANGED sensorVars
  BY <1>1 DEF sensorVars
<1>2. CASE Connect
  BY <1>2 DEF Connect
<1>3. CASE SendPacket
  BY <1>3 DEF SendPacket
<1>4. CASE TimerStarts
  BY <1>4 DEF TimerStarts
<1>5. CASE RegisterSensor
  <2>1. itsSensorVector' = <<"AIR">>
    BY <1>5 DEF RegisterSensor
  <2> QED
    BY <1>5, <2>1 DEF RegisterSensor
<1>6. CASE Measure
  <2> DEFINE new == Measured(AcquireOrder[Len(measurementsData) + 1])
  <2>1. /\ measurementsData' = Append(measurementsData, new)
        /\ new \in SgmProcessData /\ new.tFine = run /\ tFine' = run
    BY <1>6, MeasureAppends
  <2> HIDE DEF new
  <2>2. /\ measurementsData' \in Seq(SgmProcessData)
        /\ Len(measurementsData') = Len(measurementsData) + 1
        /\ \A i \in DOMAIN measurementsData' : measurementsData'[i].tFine = run
    BY <2>1
  <2>3. /\ sensorPc = "acquiring" /\ UNCHANGED <<run, itsSensorVector, sent>>
        /\ sensorPc' = IF Len(measurementsData') = 3 THEN "connecting" ELSE "acquiring"
    BY <1>6 DEF Measure
  <2> QED
    BY <2>1, <2>2, <2>3
<1>7. CASE SensorEnds
  BY <1>7 DEF SensorEnds
<1> QED
  BY <1>1, <1>2, <1>3, <1>4, <1>5, <1>6, <1>7
  DEF View, Idle, Opens, OtherOpens, SensorSends, Takes, Reads, Hands, SensorAlone

\* The temperature a value is compensated with is of the same acquisition.
THEOREM CompensationIsOwn == PipelineSpec => []CompensatedWithOwnTemperature
<1>1. PipelineInit => SensorInv
  BY InitPipelineInv DEF PipelineInv
<1>2. SensorInv /\ [PipelineNext]_pipelineVars => SensorInv'
  BY StepView, NextSensor
<1>3. SensorInv => CompensatedWithOwnTemperature
  BY DEF SensorInv
<1> QED
  BY <1>1, <1>2, <1>3, PTL DEF PipelineSpec

------------------------------------------------------------------------------
(* The connections. *)

\* What has left the sensor has left it for good.
LEMMA LeftForGood ==
  SensorInv /\ View => \A r, k \in Nat : HasLeft(r, k) => HasLeft(r, k)'
<1> SUFFICES ASSUME SensorInv, View, NEW r \in Nat, NEW k \in Nat, HasLeft(r, k)
             PROVE  HasLeft(r, k)'
  OBVIOUS
<1> USE RunsAssumption DEF HasLeft, Early
<1>1. run \in Nat /\ sent \in Nat
  BY DEF SensorInv, SensorTypeOK, Count
<1>2. CASE UNCHANGED sensorVars
  BY <1>2 DEF sensorVars
<1>3. CASE Connect
  BY <1>1, <1>3 DEF Connect
<1>4. CASE SendPacket
  BY <1>1, <1>4 DEF SendPacket
<1>5. CASE TimerStarts
  BY <1>1, <1>5 DEF TimerStarts
<1>6. CASE RegisterSensor \/ Measure
  BY <1>1, <1>6 DEF RegisterSensor, Measure
<1>7. CASE SensorEnds
  BY <1>1, <1>7 DEF SensorEnds
<1> QED
  BY <1>2, <1>3, <1>4, <1>5, <1>6, <1>7
  DEF View, Idle, Opens, OtherOpens, SensorSends, Takes, Reads, Hands, SensorAlone

\* What is in a connection to which nothing is written stays in order.
LEMMA StaysInOrder ==
  ASSUME SensorInv, View, NEW c, InOrder(c)
  PROVE  InOrder(c)'
<1>1. \A r, k \in Nat : HasLeft(r, k) => HasLeft(r, k)'
  BY LeftForGood
<1>2. /\ c \in Connection
      /\ HasLeft(c.of, 0)
      /\ c.of = OtherClient => c.packets = <<>>
      /\ \A i \in DOMAIN c.packets : HasLeft(c.of, c.packets[i])
      /\ \A i, j \in DOMAIN c.packets : i < j => c.packets[i] < c.packets[j]
  BY DEF InOrder
<1>3. /\ c.of \in Nat
      /\ \A i \in DOMAIN c.packets : c.packets[i] \in Nat
  BY <1>2, RunsAssumption DEF Connection, Indices, Count
<1>4. /\ HasLeft(c.of, 0)'
      /\ \A i \in DOMAIN c.packets : HasLeft(c.of, c.packets[i])'
  BY <1>1, <1>2, <1>3
<1> QED
  BY <1>2, <1>4 DEF InOrder

\* A packet is written behind what has left its sensor before.
LEMMA WrittenInOrder ==
  ASSUME SensorInv, SendPacket, NEW c, InOrder(c), c.of = run,
         NEW d, d = [c EXCEPT !.packets = Append(@, sent')]
  PROVE  InOrder(d)'
<1>1. /\ sensorPc = "sending" /\ sensorPc' = "sending"
      /\ run' = run /\ run \in Runs
      /\ sent' = sent + 1 /\ sent \in Nat /\ sent' \in Indices
  BY DEF SensorInv, SensorTypeOK, SendPacket, Indices, Count
<1>2. /\ c \in Connection /\ Len(c.packets) \in Nat
      /\ \A i \in DOMAIN c.packets : c.packets[i] \in Indices /\ c.packets[i] <= sent
      /\ \A i, j \in DOMAIN c.packets : i < j => c.packets[i] < c.packets[j]
  BY <1>1 DEF InOrder, HasLeft, Connection
<1>3. d = [of |-> run, packets |-> Append(c.packets, sent')]
  <2>1. c \in Connection
    BY <1>2
  <2>2. c = [of |-> run, packets |-> c.packets]
    BY <2>1 DEF Connection
  <2> QED
    BY <2>2
<1>4. Append(c.packets, sent') \in Seq(Indices) /\ run \in 0..MaxRuns
  BY <1>1, <1>2 DEF Connection, Runs
<1>5. /\ DOMAIN d.packets = 1..(Len(c.packets) + 1)
      /\ \A i \in DOMAIN d.packets :
           d.packets[i] = IF i \in DOMAIN c.packets THEN c.packets[i] ELSE sent'
  BY <1>2, <1>3 DEF Connection
<1>6. d \in Connection
  BY <1>3, <1>4 DEF Connection
<1>7. \A i \in DOMAIN d.packets : d.packets[i] \in Indices /\ d.packets[i] <= sent'
  BY <1>1, <1>2, <1>5 DEF Indices
<1>8. ASSUME NEW i \in DOMAIN d.packets, NEW j \in DOMAIN d.packets, i < j
      PROVE  d.packets[i] < d.packets[j]
  <2>1. i \in DOMAIN c.packets
    BY <1>2, <1>5, <1>8 DEF Connection
  <2>2. CASE j \in DOMAIN c.packets
    BY <1>2, <1>5, <1>8, <2>1, <2>2
  <2>3. CASE j \notin DOMAIN c.packets
    <3>1. /\ d.packets[j] = sent + 1 /\ sent \in Nat
          /\ d.packets[i] \in Indices /\ d.packets[i] <= sent
      BY <1>1, <1>2, <1>5, <1>8, <2>1, <2>3
    <3> QED
      BY <3>1 DEF Indices, Count
  <2> QED
    BY <2>2, <2>3
<1>9. d.of = run /\ run # OtherClient
  BY <1>1, <1>3 DEF Runs, OtherClient
<1> QED
  <2>1. HasLeft(d.of, 0)' /\ \A i \in DOMAIN d.packets : HasLeft(d.of, d.packets[i])'
    BY <1>1, <1>7, <1>9 DEF HasLeft, Early, Runs
  <2> QED
    BY <1>6, <1>8, <1>9, <2>1 DEF InOrder

\* Taking the oldest packet leaves the others in order.
LEMMA RestInOrder ==
  ASSUME NEW c, InOrder(c), c.packets # <<>>
  PROVE  InOrder([c EXCEPT !.packets = Tail(@)])
<1> DEFINE d == [c EXCEPT !.packets = Tail(@)]
<1>1. /\ c \in Connection /\ Len(c.packets) \in Nat \ {0}
      /\ HasLeft(c.of, 0) /\ c.of # OtherClient
      /\ \A i \in DOMAIN c.packets : HasLeft(c.of, c.packets[i])
      /\ \A i, j \in DOMAIN c.packets : i < j => c.packets[i] < c.packets[j]
  BY DEF InOrder, Connection
<1>2. d = [of |-> c.of, packets |-> Tail(c.packets)]
  BY <1>1 DEF Connection
<1>3. /\ DOMAIN d.packets = 1..(Len(c.packets) - 1)
      /\ \A i \in DOMAIN d.packets : i + 1 \in DOMAIN c.packets /\ d.packets[i] = c.packets[i + 1]
  BY <1>1, <1>2 DEF Connection
<1>4. d \in Connection
  <2>1. Tail(c.packets) \in Seq(Indices) /\ c.of \in 0..MaxRuns
    BY <1>1 DEF Connection
  <2> HIDE DEF d
  <2> QED
    BY <1>2, <2>1 DEF Connection
<1> HIDE DEF d
<1>5. \A i \in DOMAIN d.packets : HasLeft(d.of, d.packets[i])
  BY <1>1, <1>2, <1>3
<1>6. \A i, j \in DOMAIN d.packets : i < j => d.packets[i] < d.packets[j]
  BY <1>1, <1>3
<1>7. InOrder(d)
  BY <1>1, <1>2, <1>4, <1>5, <1>6 DEF InOrder
<1> QED
  BY <1>7 DEF d

\* ConnectionsInv of the next state, for given values of its variables.
LEMMA NextConnectionsAre ==
  ASSUME NEW s, s = served', NEW cs, cs = connections',
         cs \in Seq(Connection), Len(cs) = backlog', InOrder(s)',
         \A i \in DOMAIN cs : InOrder(cs[i])',
         \A i \in DOMAIN cs : Precedes(s, cs[i]),
         \A i, j \in DOMAIN cs : i < j => Precedes(cs[i], cs[j])
  PROVE  ConnectionsInv'
<1>1. InOrder(served)'
  BY DEF InOrder, HasLeft, Early
<1>2. \A i \in DOMAIN connections' : InOrder(connections[i])'
  BY DEF InOrder, HasLeft, Early
<1>3. \A i \in DOMAIN connections' : Precedes(served, connections[i])'
  BY DEF Precedes
<1>4. \A i, j \in DOMAIN connections' : i < j => Precedes(connections[i], connections[j])'
  BY DEF Precedes
<1> QED
  BY <1>1, <1>2, <1>3, <1>4 DEF ConnectionsInv

\* Nobody has left anything.
LEMMA NobodyInOrder == ASSUME SensorInv', NEW c, c = Nobody PROVE InOrder(c)'
<1>1. c = [of |-> 0, packets |-> <<>>] /\ c \in Connection
  BY RunsAssumption DEF Nobody, NewConnection, OtherClient, Connection
<1>2. HasLeft(0, 0)'
  BY RunsAssumption DEF SensorInv, SensorTypeOK, HasLeft, Early, Runs, Count
<1> QED
  BY <1>1, <1>2 DEF InOrder

\* Every step keeps the connections in order.
LEMMA NextConnections == SensorInv /\ ConnectionsInv /\ View => ConnectionsInv'
<1> SUFFICES ASSUME SensorInv, ConnectionsInv, View PROVE ConnectionsInv'
  OBVIOUS
<1>1. SensorInv'
  BY NextSensor
<1>2. \A c : InOrder(c) => InOrder(c)'
  BY StaysInOrder
<1>3. \A c : c = Nobody => InOrder(c)'
  BY <1>1, NobodyInOrder
<1>4. PICK s : s = served'
  OBVIOUS
<1>5. PICK cs : cs = connections'
  OBVIOUS
<1>6. /\ connections \in Seq(Connection) /\ Len(connections) = backlog
      /\ InOrder(served)
      /\ \A i \in DOMAIN connections : InOrder(connections[i]) /\ Precedes(served, connections[i])
      /\ \A i, j \in DOMAIN connections : i < j => Precedes(connections[i], connections[j])
  BY DEF ConnectionsInv
<1>7. CASE Idle \/ Hands \/ SensorAlone
  <2>1. /\ connections' = connections /\ backlog' = backlog
        /\ served' = served \/ served' = Nobody
    BY <1>7 DEF Idle, Hands, SensorAlone
  <2>2. InOrder(s)'
    BY <1>2, <1>3, <1>4, <1>6, <2>1
  <2>3. \A i \in DOMAIN cs : Precedes(s, cs[i])
    BY <1>4, <1>5, <1>6, <2>1 DEF Precedes, Nobody, NewConnection
  <2> QED
    BY <1>2, <1>4, <1>5, <1>6, <2>1, <2>2, <2>3, NextConnectionsAre
<1>8. ASSUME NEW new, connections' = Append(connections, new), backlog' = backlog + 1,
             served' = served, new \in Connection, InOrder(new)',
             Precedes(served, new),
             \A i \in DOMAIN connections : Precedes(connections[i], new)
      PROVE  ConnectionsInv'
  <2>1. /\ cs \in Seq(Connection) /\ Len(cs) = backlog'
        /\ \A i \in DOMAIN cs :
             \/ i \in DOMAIN connections /\ cs[i] = connections[i]
             \/ i = Len(connections) + 1 /\ cs[i] = new
    BY <1>5, <1>6, <1>8
  <2>2. \A i \in DOMAIN cs : InOrder(cs[i])'
    BY <1>2, <1>6, <1>8, <2>1
  <2>3. \A i \in DOMAIN cs : Precedes(s, cs[i])
    BY <1>4, <1>6, <1>8, <2>1
  <2>4. \A i, j \in DOMAIN cs : i < j => Precedes(cs[i], cs[j])
    <3> SUFFICES ASSUME NEW i \in DOMAIN cs, NEW j \in DOMAIN cs, i < j
                 PROVE  Precedes(cs[i], cs[j])
      OBVIOUS
    <3>1. Len(connections) \in Nat /\ DOMAIN cs = 1..(Len(connections) + 1)
          /\ DOMAIN connections = 1..Len(connections)
      BY <1>5, <1>6, <1>8
    <3>2. i \in DOMAIN connections /\ cs[i] = connections[i]
      BY <2>1, <3>1
    <3> QED
      BY <1>6, <1>8, <2>1, <3>2
  <2> QED
    BY <1>2, <1>4, <1>5, <1>6, <1>8, <2>1, <2>2, <2>3, <2>4, NextConnectionsAre
<1>9. CASE Opens
  <2>1. PICK new : new = NewConnection(run)
    OBVIOUS
  <2>2. /\ sensorPc = "connecting" /\ run \in Runs /\ run' = run
        /\ sensorPc' = "sending" /\ sent' = 0
    BY <1>9 DEF Opens, Connect, SensorInv
  <2>3. new = [of |-> run, packets |-> <<>>] /\ new \in Connection /\ run # OtherClient
    BY <2>1, <2>2 DEF NewConnection, Connection, Runs, OtherClient
  <2>4. HasLeft(run, 0)'
    BY <2>2 DEF HasLeft, Early, Runs
  <2>5. InOrder(new)'
    BY <2>2, <2>3, <2>4 DEF InOrder
  <2>6. \A c : InOrder(c) => Precedes(c, new)
    BY <2>2, <2>3 DEF InOrder, HasLeft, Early, Precedes
  <2> QED
    BY <1>6, <1>8, <1>9, <2>1, <2>3, <2>5, <2>6 DEF Opens
<1>10. CASE OtherOpens
  <2>1. PICK new : new = Nobody
    OBVIOUS
  <2>2. new \in Connection /\ \A c : Precedes(c, new)
    BY <2>1, RunsAssumption DEF Nobody, NewConnection, Connection, Precedes, OtherClient
  <2> QED
    BY <1>3, <1>8, <1>10, <2>1, <2>2 DEF OtherOpens
<1>11. CASE Takes
  <2>1. connections # <<>>
    BY <1>6, <1>11 DEF Takes
  <2>2. /\ cs \in Seq(Connection) /\ Len(cs) = backlog'
        /\ \A i \in DOMAIN cs : i + 1 \in DOMAIN connections /\ cs[i] = connections[i + 1]
        /\ 1 \in DOMAIN connections /\ s = connections[1]
        /\ \A i \in DOMAIN cs : i \in Nat /\ 1 < i + 1
    BY <1>4, <1>5, <1>6, <1>11, <2>1 DEF Takes
  <2>3. \A i, j \in DOMAIN cs : i < j => Precedes(cs[i], cs[j])
    BY <1>6, <2>2
  <2>4. \A i \in DOMAIN cs : Precedes(s, cs[i]) /\ InOrder(cs[i])'
    BY <1>2, <1>6, <2>2
  <2>5. InOrder(s)'
    BY <1>2, <1>6, <2>2
  <2> QED
    BY <1>4, <1>5, <2>2, <2>3, <2>4, <2>5, NextConnectionsAre
<1>12. CASE Reads
  <2>1. PICK d : d = [served EXCEPT !.packets = Tail(@)]
    OBVIOUS
  <2>2. s = d /\ connections' = connections /\ backlog' = backlog
    BY <1>4, <1>12, <2>1 DEF Reads
  <2>3. InOrder(d)
    BY <1>6, <1>12, <2>1, RestInOrder DEF Reads
  <2>4. d.of = served.of
    BY <1>6, <2>1 DEF InOrder, Connection
  <2> QED
    BY <1>2, <1>4, <1>5, <1>6, <2>2, <2>3, <2>4, NextConnectionsAre DEF Precedes
<1>13. CASE SensorSends
  <2> DEFINE Write(c) == IF c.of = run THEN [c EXCEPT !.packets = Append(@, sent')] ELSE c
  <2>1. SendPacket /\ backlog' = backlog /\ s = Write(served)
        /\ cs = [i \in DOMAIN connections |-> Write(connections[i])]
    BY <1>4, <1>5, <1>13 DEF SensorSends, vars, socket
  <2>2. ASSUME NEW c, InOrder(c), NEW d, d = Write(c)
        PROVE  d \in Connection /\ d.of = c.of /\ InOrder(d)'
    <3>1. c \in Connection
      BY <2>2 DEF InOrder
    <3>2. CASE c.of = run
      <4>1. d = [c EXCEPT !.packets = Append(@, sent')]
        BY <2>2, <3>2
      <4>2. InOrder(d)'
        BY <2>1, <2>2, <3>2, <4>1, WrittenInOrder
      <4>3. d \in Connection
        BY <4>2 DEF InOrder
      <4> QED
        BY <3>1, <4>1, <4>2, <4>3 DEF Connection
    <3>3. CASE c.of # run
      BY <1>2, <2>2, <3>1, <3>3
    <3> QED
      BY <3>2, <3>3
  <2> HIDE DEF Write
  <2>3. DOMAIN cs = DOMAIN connections /\ \A i \in DOMAIN cs : cs[i] = Write(connections[i])
    BY <2>1
  <2>4. \A i \in DOMAIN cs : cs[i] \in Connection /\ cs[i].of = connections[i].of /\ InOrder(cs[i])'
    BY <1>6, <2>2, <2>3
  <2>5. s.of = served.of /\ InOrder(s)'
    BY <1>6, <2>1, <2>2
  <2>6. DOMAIN connections = 1..Len(connections) /\ Len(connections) \in Nat
    BY <1>6
  <2>7. cs \in [1..Len(connections) -> Connection]
    BY <2>1, <2>3, <2>4, <2>6
  <2>8. cs \in Seq(Connection) /\ Len(cs) = Len(connections)
    BY <2>6, <2>7, <2>3
  <2>9. \A i \in DOMAIN cs : Precedes(s, cs[i])
    BY <1>6, <2>3, <2>4, <2>5 DEF Precedes
  <2>10. \A i, j \in DOMAIN cs : i < j => Precedes(cs[i], cs[j])
    BY <1>6, <2>3, <2>4 DEF Precedes
  <2> QED
    BY <1>4, <1>5, <1>6, <2>1, <2>4, <2>5, <2>8, <2>9, <2>10, NextConnectionsAre
<1> QED
  BY <1>7, <1>9, <1>10, <1>11, <1>12, <1>13 DEF View

------------------------------------------------------------------------------
(* The packet the sink has, and the last one published. *)

\* What has left the sensor is older than what is written next.
LEMMA OlderThanWritten ==
  ASSUME SensorInv, SendPacket, NEW c \in Connection, c.of = run,
         NEW r \in Nat, NEW k \in Nat, HasLeft(r, k), Older(<<r, k>>, c),
         NEW d, d = [c EXCEPT !.packets = Append(@, sent')]
  PROVE  Older(<<r, k>>, d)
<1>1. /\ sensorPc = "sending" /\ sent' = sent + 1 /\ sent \in Nat /\ run \in Nat
  BY RunsAssumption DEF SendPacket, SensorInv, SensorTypeOK, Count
<1>2. r < run \/ (r = run /\ k < sent')
  BY <1>1 DEF HasLeft
<1>3. c = [of |-> run, packets |-> c.packets] /\ c.packets \in Seq(Indices)
  BY DEF Connection
<1>4. d = [of |-> run, packets |-> Append(c.packets, sent')]
  BY <1>3
<1>5. /\ d.of = run
      /\ \A i \in DOMAIN d.packets :
           d.packets[i] = sent' \/ (i \in DOMAIN c.packets /\ d.packets[i] = c.packets[i])
  BY <1>3, <1>4
<1>6. \A i \in DOMAIN c.packets : r < run \/ (r = run /\ k < c.packets[i])
  BY DEF Older, Feed!Before
<1>7. \A i \in DOMAIN d.packets : r < run \/ (r = run /\ k < d.packets[i])
  BY <1>2, <1>5, <1>6
<1> QED
  BY <1>5, <1>7 DEF Older, Feed!Before

\* The oldest packet of a connection is older than the rest of it.
LEMMA HeadIsOlder ==
  ASSUME NEW c, InOrder(c), c.packets # <<>>
  PROVE  /\ Message(c) \in Runs \X Indices /\ HasLeft(Message(c)[1], Message(c)[2])
         /\ c.of # OtherClient
         /\ Older(Message(c), [c EXCEPT !.packets = Tail(@)])
         /\ \A d : Precedes(c, d) /\ InOrder(d) => Older(Message(c), d)
<1> DEFINE e == [c EXCEPT !.packets = Tail(@)]
<1>1. /\ c \in Connection /\ Len(c.packets) \in Nat \ {0} /\ 1 \in DOMAIN c.packets
      /\ c.of # OtherClient
      /\ \A i \in DOMAIN c.packets : HasLeft(c.of, c.packets[i])
      /\ \A i, j \in DOMAIN c.packets : i < j => c.packets[i] < c.packets[j]
  BY DEF InOrder, Connection
<1>2. /\ c.of \in Runs /\ c.packets[1] \in Indices
      /\ Message(c) = <<c.of, c.packets[1]>>
  BY <1>1, RunsAssumption DEF Connection, Runs, OtherClient, Message
<1>3. e = [of |-> c.of, packets |-> Tail(c.packets)]
  <2>1. c \in Connection
    BY <1>1
  <2>2. c = [of |-> c.of, packets |-> c.packets]
    BY <2>1 DEF Connection
  <2> QED
    BY <2>2
<1>4. /\ e.of = c.of
      /\ \A i \in DOMAIN e.packets : i + 1 \in DOMAIN c.packets /\ e.packets[i] = c.packets[i + 1]
                                      /\ 1 < i + 1
  BY <1>1, <1>3 DEF Connection
<1> HIDE DEF e
<1>5. Older(Message(c), e)
  BY <1>1, <1>2, <1>4 DEF Older, Feed!Before
<1>6. ASSUME NEW d, Precedes(c, d), InOrder(d) PROVE Older(Message(c), d)
  BY <1>1, <1>2, <1>6 DEF Precedes, InOrder, Older, Feed!Before
<1>7. Message(c) \in Runs \X Indices /\ HasLeft(Message(c)[1], Message(c)[2])
  BY <1>1, <1>2
<1>8. \A d : Precedes(c, d) /\ InOrder(d) => Older(Message(c), d)
  BY <1>6
<1> QED
  BY <1>1, <1>5, <1>7, <1>8 DEF e

\* PacketInv of the next state, for given values of its variables.
LEMMA NextPacketIs ==
  ASSUME NEW p, p = packet', p = NoPacket \/ (p \in Runs \X Indices /\ HasLeft(p[1], p[2])'),
         Older(p, served'), \A i \in DOMAIN connections' : Older(p, connections'[i])
  PROVE  PacketInv'
<1>1. packet' # NoPacket => HasLeft(packet[1], packet[2])'
  BY DEF HasLeft, Early
<1>2. Older(packet, served)' /\ \A i \in DOMAIN connections' : Older(packet, connections[i])'
  BY DEF Older
<1> QED
  BY <1>1, <1>2 DEF PacketInv, NoPacket

\* Every step keeps the sink's packet older than all that it has not read yet.
LEMMA NextPacket == SensorInv /\ ConnectionsInv /\ PacketInv /\ View => PacketInv'
<1> SUFFICES ASSUME SensorInv, ConnectionsInv, PacketInv, View PROVE PacketInv'
  OBVIOUS
<1>1. /\ connections \in Seq(Connection) /\ Len(connections) = backlog
      /\ InOrder(served)
      /\ \A i \in DOMAIN connections : InOrder(connections[i]) /\ Precedes(served, connections[i])
  BY DEF ConnectionsInv
<1>2. /\ packet = NoPacket \/ (packet \in Runs \X Indices /\ HasLeft(packet[1], packet[2]))
      /\ Older(packet, served) /\ \A i \in DOMAIN connections : Older(packet, connections[i])
  BY DEF PacketInv
<1>3. \A r, k \in Nat : HasLeft(r, k) => HasLeft(r, k)'
  BY LeftForGood
<1>4. PICK p : p = packet'
  OBVIOUS
<1>5. CASE packet' = NoPacket
  <2>1. ConnectionsInv'
    BY NextConnections
  <2>2. \A c : InOrder(c)' => Older(NoPacket, c)
    <3> SUFFICES ASSUME NEW c, InOrder(c)' PROVE Older(NoPacket, c)
      OBVIOUS
    <3>1. ASSUME NEW i \in DOMAIN c.packets PROVE c.of > 0
      BY RunsAssumption DEF InOrder, Connection, OtherClient
    <3> QED
      BY <3>1 DEF Older, NoPacket, Feed!Before
  <2>3. PICK s : s = served'
    OBVIOUS
  <2>4. PICK cs : cs = connections'
    OBVIOUS
  <2>5. InOrder(s)' /\ \A i \in DOMAIN cs : InOrder(cs[i])'
    BY <2>1, <2>3, <2>4 DEF ConnectionsInv, InOrder, HasLeft, Early
  <2>6. Older(NoPacket, s) /\ \A i \in DOMAIN cs : Older(NoPacket, cs[i])
    BY <2>2, <2>5
  <2> QED
    BY <1>4, <1>5, <2>3, <2>4, <2>6, NextPacketIs
<1>6. CASE packet' # NoPacket /\ packet' = packet
  <2>1. p = packet /\ p # NoPacket /\ p \in Runs \X Indices /\ HasLeft(p[1], p[2])
    BY <1>2, <1>4, <1>6
  <2>2. p[1] \in Nat /\ p[2] \in Nat /\ p = <<p[1], p[2]>>
    BY <2>1, RunsAssumption DEF Runs, Indices, Count
  <2>3. HasLeft(p[1], p[2])'
    BY <1>3, <2>1, <2>2
  <2>4. SUFFICES Older(p, served') /\ \A i \in DOMAIN connections' : Older(p, connections'[i])
    BY <1>4, <2>1, <2>3, NextPacketIs
  <2>5. Older(p, served) /\ \A i \in DOMAIN connections : Older(p, connections[i])
    BY <1>2, <2>1
  <2>6. \A c : c.packets = <<>> => Older(p, c)
    BY DEF Older
  <2>7. Older(p, Nobody)
    BY <2>6 DEF Nobody, NewConnection
  <2>8. CASE Idle \/ SensorAlone
    BY <2>5, <2>7, <2>8 DEF Idle, SensorAlone
  <2>9. CASE Opens \/ OtherOpens
    <3>1. PICK new : connections' = Append(connections, new) /\ new.packets = <<>>
      BY <2>9 DEF Opens, OtherOpens, NewConnection, Nobody
    <3>2. \A i \in DOMAIN connections' :
            connections'[i] = new \/ (i \in DOMAIN connections /\ connections'[i] = connections[i])
      BY <1>1, <3>1
    <3>3. served' = served
      BY <2>9 DEF Opens, OtherOpens
    <3> QED
      BY <2>5, <2>6, <3>1, <3>2, <3>3
  <2>10. CASE Takes
    <3>1. connections # <<>>
      BY <1>1, <2>10 DEF Takes
    <3>2. /\ \A i \in DOMAIN connections' : i + 1 \in DOMAIN connections /\ connections'[i] = connections[i + 1]
          /\ 1 \in DOMAIN connections /\ served' = connections[1]
      BY <1>1, <2>10, <3>1 DEF Takes
    <3> QED
      BY <2>5, <3>2
  <2>11. CASE SensorSends
    <3> DEFINE Write(c) == IF c.of = run THEN [c EXCEPT !.packets = Append(@, sent')] ELSE c
    <3>1. SendPacket /\ served' = Write(served)
          /\ connections' = [i \in DOMAIN connections |-> Write(connections[i])]
      BY <2>11 DEF SensorSends
    <3>2. ASSUME NEW c \in Connection, Older(p, c), NEW d, d = Write(c) PROVE Older(p, d)
      <4>1. CASE c.of = run
        <5>1. d = [c EXCEPT !.packets = Append(@, sent')]
          BY <3>2, <4>1
        <5>2. HasLeft(p[1], p[2]) /\ Older(<<p[1], p[2]>>, c)
          BY <2>1, <2>2, <3>2
        <5>3. Older(<<p[1], p[2]>>, d)
          BY <2>2, <3>1, <4>1, <5>1, <5>2, OlderThanWritten
        <5> QED
          BY <2>2, <5>3
      <4>2. CASE c.of # run
        BY <3>2, <4>2
      <4> QED
        BY <4>1, <4>2
    <3> HIDE DEF Write
    <3>3. served \in Connection /\ \A i \in DOMAIN connections : connections[i] \in Connection
      BY <1>1 DEF InOrder
    <3>4. \A c : c \in Connection /\ Older(p, c) => Older(p, Write(c))
      BY <3>2
    <3>5. \A i \in DOMAIN connections' : i \in DOMAIN connections /\ connections'[i] = Write(connections[i])
      BY <3>1
    <3> QED
      BY <2>5, <3>1, <3>3, <3>4, <3>5
  <2>12. CASE Reads
    <3>1. InOrder(served) /\ served.packets # <<>> /\ p = Message(served)
      BY <1>1, <1>4, <1>6, <2>12 DEF Reads
    <3>2. /\ served' = [served EXCEPT !.packets = Tail(@)]
          /\ connections' = connections
      BY <2>12 DEF Reads
    <3> QED
      BY <1>1, <3>1, <3>2, HeadIsOlder
  <2> QED
    BY <1>6, <2>8, <2>9, <2>10, <2>11, <2>12 DEF View, Hands
<1>7. CASE packet' # NoPacket /\ packet' # packet
  <2>1. Reads /\ p = Message(served) /\ served.packets # <<>>
    BY <1>4, <1>7 DEF View, Idle, Opens, OtherOpens, SensorSends, Takes, Reads, Hands, SensorAlone
  <2>2. /\ served' = [served EXCEPT !.packets = Tail(@)]
        /\ connections' = connections
    BY <2>1 DEF Reads
  <2>3. /\ p \in Runs \X Indices /\ HasLeft(p[1], p[2])
        /\ Older(p, served') /\ \A i \in DOMAIN connections' : Older(p, connections'[i])
    BY <1>1, <2>1, <2>2, HeadIsOlder
  <2>4. HasLeft(p[1], p[2])'
    BY <1>3, <2>3, RunsAssumption DEF Runs, Indices, Count
  <2> QED
    BY <1>4, <2>3, <2>4, NextPacketIs
<1> QED
  BY <1>5, <1>6, <1>7

\* What is published has left the sensor.
LEMMA NextPublished == SensorInv /\ PacketInv /\ PublishedInv /\ View => PublishedInv'
<1> SUFFICES ASSUME SensorInv, PacketInv, PublishedInv, View PROVE PublishedInv'
  OBVIOUS
<1>1. \A r, k \in Nat : HasLeft(r, k) => HasLeft(r, k)'
  BY LeftForGood
<1>2. PICK b : b = published'
  OBVIOUS
<1>3. b \in (0..MaxRuns) \X (0..Count) /\ HasLeft(b[1], 0)
  <2>1. CASE Hands
    BY <1>2, <2>1, RunsAssumption
    DEF Hands, PacketInv, HasLeft, Runs, Indices, Count, SensorInv, SensorTypeOK
  <2>2. CASE published' = published
    BY <1>2, <2>2 DEF PublishedInv
  <2> QED
    BY <2>1, <2>2 DEF View, Idle, Opens, OtherOpens, SensorSends, Takes, Reads, SensorAlone
<1>4. HasLeft(b[1], 0)'
  BY <1>1, <1>3, RunsAssumption
<1> QED
  BY <1>2, <1>3, <1>4 DEF PublishedInv, HasLeft, Early

\* The invariant of the pipeline.
LEMMA PipelineInductive == PipelineSpec => []PipelineInv
<1>1. PipelineInv /\ [PipelineNext]_pipelineVars => PipelineInv'
  BY StepIInv, StepView, NextSensor, NextConnections, NextPacket, NextPublished DEF PipelineInv
<1> QED
  BY InitPipelineInv, <1>1, PTL DEF PipelineSpec

\* Every variable keeps its type, and what waits is what SgmSink counts.
THEOREM PipelineTypeCorrect == PipelineSpec => []PipelineTypeOK
<1>1. PipelineInv => PipelineTypeOK
  BY RunsAssumption
  DEF PipelineInv, IInv, SensorInv, ConnectionsInv, PacketInv, PublishedInv, InOrder,
      PipelineTypeOK, NoPacket, Runs, Indices, Count
<1> QED
  BY <1>1, PipelineInductive, PTL

------------------------------------------------------------------------------
(* The pipeline implements the feed. *)

\* What is in flight, one measurement at a time.
LEMMA IsInFlight ==
  ASSUME NEW m
  PROVE  m \in InFlight <=>
           /\ m \in Runs \X Indices
           /\ \/ InSensor(m) \/ InConnection(served, m) \/ packet = m
              \/ \E i \in DOMAIN connections : InConnection(connections[i], m)
BY DEF InFlight

\* A step loses something, or nothing, if what is in flight after it was before.
LEMMA LoseStep ==
  ASSUME published' = published,
         \A m \in Runs \X Indices :
           /\ InSensor(m)' => m \in InFlight
           /\ InConnection(served, m)' => m \in InFlight
           /\ packet' = m => m \in InFlight
           /\ \A i \in DOMAIN connections' : InConnection(connections[i], m)' => m \in InFlight
  PROVE  Feed!Lose
<1>1. InFlight' \subseteq InFlight
  BY DEF InFlight
<1> QED
  BY <1>1 DEF Feed!Lose

\* All that is in flight is older than what the sensor measures next.
LEMMA OlderThanMeasured ==
  ASSUME PipelineInv, sensorPc = "acquiring", NEW m \in InFlight
  PROVE  m[1] < run \/ (m[1] = run /\ m[2] <= Len(measurementsData))
<1>1. Early /\ m \in Runs \X Indices /\ run \in Nat
  BY RunsAssumption DEF Early, InFlight, PipelineInv, SensorInv, SensorTypeOK
<1>2. CASE InSensor(m)
  BY <1>2 DEF InSensor
<1>3. CASE packet = m
  BY <1>1, <1>3 DEF PipelineInv, PacketInv, HasLeft, NoPacket, Runs, Indices
<1>4. ASSUME NEW c, InOrder(c), InConnection(c, m) PROVE m[1] < run
  BY <1>1, <1>4 DEF InOrder, HasLeft, InConnection
<1>5. CASE InConnection(served, m)
  BY <1>4, <1>5 DEF PipelineInv, ConnectionsInv
<1>6. CASE \E i \in DOMAIN connections : InConnection(connections[i], m)
  BY <1>4, <1>6 DEF PipelineInv, ConnectionsInv
<1> QED
  BY <1>2, <1>3, <1>5, <1>6 DEF InFlight

\* The measurement that is published is older than the others in flight.
LEMMA OlderThanOthers ==
  ASSUME PipelineInv, packet # NoPacket, NEW m \in Runs \X Indices,
         \/ InSensor(m) \/ InConnection(served, m)
         \/ \E i \in DOMAIN connections : InConnection(connections[i], m)
  PROVE  Feed!Before(packet, m)
<1>1. ASSUME NEW c, Older(packet, c), InConnection(c, m) PROVE Feed!Before(packet, m)
  BY <1>1 DEF Older, InConnection
<1>2. CASE InSensor(m)
  <2>1. /\ m[1] = run /\ sent < m[2] /\ measurementsData # <<>>
        /\ HasLeft(packet[1], packet[2]) /\ packet \in Runs \X Indices
        /\ measurementsData # <<>> => sensorPc \notin {"off", "registering"}
        /\ sensorPc \in SensorPc /\ run \in Nat /\ sent \in Nat
    BY <1>2, RunsAssumption
    DEF InSensor, PipelineInv, SensorInv, SensorTypeOK, PacketInv, Indices, Count
  <2>2. packet[1] < run \/ (packet[1] = run /\ packet[2] <= sent)
    BY <2>1 DEF HasLeft, Early, SensorPc, Runs
  <2> QED
    BY <2>1, <2>2 DEF Feed!Before, Runs, Indices
<1>3. CASE InConnection(served, m)
  BY <1>1, <1>3 DEF PipelineInv, PacketInv
<1>4. CASE \E i \in DOMAIN connections : InConnection(connections[i], m)
  BY <1>1, <1>4 DEF PipelineInv, PacketInv
<1> QED
  BY <1>2, <1>3, <1>4

\* Every step is one of the feed, or changes nothing in it.
LEMMA FeedStep == PipelineInv /\ View => [Feed!FeedNext]_(Feed!feedVars)
<1> SUFFICES ASSUME PipelineInv, View PROVE Feed!FeedNext
  OBVIOUS
<1>1. ASSUME Feed!Lose PROVE Feed!FeedNext
  BY <1>1 DEF Feed!FeedNext
<1>2. /\ connections \in Seq(Connection) /\ Len(connections) = backlog
      /\ served \in Connection
      /\ run \in Nat /\ sent \in Nat /\ measurementsData \in Seq(SgmProcessData)
  BY RunsAssumption
  DEF PipelineInv, ConnectionsInv, InOrder, SensorInv, SensorTypeOK, Count
<1>3. ASSUME NEW c, NEW m, c.packets = <<>> PROVE ~InConnection(c, m)
  BY <1>3 DEF InConnection
<1>4. CASE Idle
  <2>1. \A m : ~InConnection(Nobody, m)
    BY <1>3 DEF Nobody, NewConnection
  <2>2. NoPacket \notin Runs \X Indices
    BY DEF NoPacket, Runs, Indices
  <2>3. Feed!Lose
    BY <1>4, <2>1, <2>2, LoseStep, IsInFlight DEF Idle, sensorVars, InSensor, InConnection
  <2> QED
    BY <1>1, <2>3
<1>5. CASE Opens \/ OtherOpens
  <2>1. PICK new : connections' = Append(connections, new) /\ new.packets = <<>>
    BY <1>5 DEF Opens, OtherOpens, NewConnection, Nobody
  <2>2. \A i \in DOMAIN connections' :
          connections'[i] = new \/ (i \in DOMAIN connections /\ connections'[i] = connections[i])
    BY <1>2, <2>1
  <2>3. /\ UNCHANGED <<run, sent, measurementsData, served, packet, published>>
    BY <1>5 DEF Opens, OtherOpens, Connect, sensorVars
  <2>4. Feed!Lose
    BY <1>3, <2>1, <2>2, <2>3, LoseStep, IsInFlight DEF InSensor, InConnection
  <2> QED
    BY <1>1, <2>4
<1>6. CASE Takes
  <2>1. connections # <<>>
    BY <1>2, <1>6 DEF Takes
  <2>2. /\ \A i \in DOMAIN connections' : i + 1 \in DOMAIN connections /\ connections'[i] = connections[i + 1]
        /\ 1 \in DOMAIN connections /\ served' = connections[1]
    BY <1>2, <1>6, <2>1 DEF Takes
  <2>3. Feed!Lose
    BY <1>6, <2>2, LoseStep, IsInFlight DEF Takes, sensorVars, InSensor, InConnection
  <2> QED
    BY <1>1, <2>3
<1>7. CASE Reads
  <2>1. /\ served.packets \in Seq(Indices) /\ served.packets # <<>>
        /\ served' = [served EXCEPT !.packets = Tail(@)]
        /\ served = [of |-> served.of, packets |-> served.packets]
    BY <1>2, <1>7 DEF Reads, Connection
  <2>2. /\ served'.of = served.of
        /\ \A i \in DOMAIN served'.packets :
             i + 1 \in DOMAIN served.packets /\ served'.packets[i] = served.packets[i + 1]
    BY <2>1
  <2>3. \A m : InConnection(served, m)' => InConnection(served, m)
    BY <2>2 DEF InConnection
  <2>4. InConnection(served, Message(served))
    BY <2>1 DEF InConnection, Message
  <2>5. NoPacket \notin Runs \X Indices
    BY DEF NoPacket, Runs, Indices
  <2>6. Feed!Lose
    BY <1>7, <2>3, <2>4, <2>5, LoseStep, IsInFlight DEF Reads, sensorVars, InSensor, InConnection
  <2> QED
    BY <1>1, <2>6
<1>8. CASE SensorSends
  <2> DEFINE Write(c) == IF c.of = run THEN [c EXCEPT !.packets = Append(@, sent')] ELSE c
  <2>1. /\ SendPacket /\ served' = Write(served)
        /\ connections' = [i \in DOMAIN connections |-> Write(connections[i])]
        /\ packet' = packet /\ published' = published
    BY <1>8 DEF SensorSends
  <2>2. sent' = sent + 1 /\ sent < Len(measurementsData) /\ UNCHANGED <<run, measurementsData>>
    BY <2>1 DEF SendPacket
  <2>3. ASSUME NEW c \in Connection, NEW m \in Runs \X Indices, NEW d, d = Write(c), InConnection(d, m)
        PROVE  InConnection(c, m) \/ InSensor(m)
    <3>1. CASE c.of = run
      <4>1. c = [of |-> run, packets |-> c.packets] /\ c.packets \in Seq(Indices)
        BY <3>1 DEF Connection
      <4>2. d = [of |-> run, packets |-> Append(c.packets, sent')]
        BY <2>3, <3>1, <4>1
      <4>3. d.of = run /\ \A i \in DOMAIN d.packets :
              d.packets[i] = sent' \/ (i \in DOMAIN c.packets /\ d.packets[i] = c.packets[i])
        BY <4>1, <4>2
      <4> QED
        BY <1>2, <2>2, <2>3, <3>1, <4>3 DEF InConnection, InSensor
    <3>2. CASE c.of # run
      BY <2>3, <3>2
    <3> QED
      BY <3>1, <3>2
  <2> HIDE DEF Write
  <2>4. \A i \in DOMAIN connections' : i \in DOMAIN connections /\ connections'[i] = Write(connections[i])
                                       /\ connections[i] \in Connection
    BY <1>2, <2>1
  <2>5. \A m \in Runs \X Indices : InSensor(m)' => InSensor(m)
    BY <1>2, <2>2 DEF InSensor, Indices
  <2>6. ASSUME NEW m \in Runs \X Indices
        PROVE  /\ InConnection(served, m)' => InConnection(served, m) \/ InSensor(m)
               /\ \A i \in DOMAIN connections' :
                    InConnection(connections[i], m)' => InConnection(connections[i], m) \/ InSensor(m)
    <3>1. \A c \in Connection : InConnection(Write(c), m) => InConnection(c, m) \/ InSensor(m)
      BY <2>3
    <3>2. /\ InConnection(served, m)' <=> InConnection(Write(served), m)
          /\ \A i \in DOMAIN connections' :
               InConnection(connections[i], m)' <=> InConnection(Write(connections[i]), m)
      BY <2>1, <2>4 DEF InConnection
    <3> QED
      BY <1>2, <2>4, <3>1, <3>2
  <2>7. Feed!Lose
    BY <2>1, <2>4, <2>5, <2>6, LoseStep, IsInFlight
  <2> QED
    BY <1>1, <2>7
<1>9. CASE Hands
  <2>1. packet # NoPacket /\ packet \in Runs \X Indices
    BY <1>9 DEF Hands, PipelineInv, PacketInv
  <2>2. packet \in InFlight
    BY <2>1, IsInFlight
  <2>3. NoPacket \notin Runs \X Indices
    BY DEF NoPacket, Runs, Indices
  <2>4. ASSUME NEW m \in InFlight'
        PROVE  /\ m \in Runs \X Indices
               /\ \/ InSensor(m) \/ InConnection(served, m)
                  \/ \E i \in DOMAIN connections : InConnection(connections[i], m)
    BY <1>9, <2>3 DEF Hands, InFlight, sensorVars, InSensor, InConnection
  <2>5. ASSUME NEW m \in InFlight' PROVE m \in InFlight /\ Feed!Before(packet, m)
    BY <2>1, <2>4, OlderThanOthers, IsInFlight
  <2>6. InFlight' \subseteq {m \in InFlight : Feed!Before(packet, m)}
    BY <2>5
  <2>7. Feed!Publish(packet)
    BY <1>9, <2>2, <2>6 DEF Feed!Publish, Hands
  <2> QED
    BY <2>1, <2>7 DEF Feed!FeedNext, Feed!Measurements, Runs, Indices
<1>10. CASE SensorAlone /\ ~Measure
  <2>1. /\ \A m \in Runs \X Indices : InSensor(m)' => InSensor(m)
        /\ UNCHANGED <<connections, served, packet, published>>
    BY <1>2, <1>10
    DEF SensorAlone, RegisterSensor, SensorEnds, TimerStarts, InSensor, PipelineInv, SensorInv, Indices
  <2>2. Feed!Lose
    BY <2>1, LoseStep, IsInFlight DEF InConnection
  <2> QED
    BY <1>1, <2>2
<1>11. CASE SensorAlone /\ Measure
  <2> DEFINE new == <<run, Len(measurementsData) + 1>>
  <2>1. /\ sensorPc = "acquiring" /\ Len(measurementsData') = Len(measurementsData) + 1
        /\ Len(measurementsData) < 3 /\ run \in Runs /\ sent = 0
        /\ Len(measurementsData) \in Nat
        /\ UNCHANGED <<run, sent, connections, served, packet, published>>
    BY <1>2, <1>11 DEF SensorAlone, Measure, PipelineInv, SensorInv, Count
  <2>2. new \in Runs \X Indices /\ new \in Feed!Measurements
    BY <2>1 DEF Runs, Indices, Count, Feed!Measurements
  <2>3. \A m \in Runs \X Indices : InSensor(m)' <=> InSensor(m) \/ m = new
    BY <2>1 DEF InSensor, Indices, Runs
  <2>4. InFlight' = InFlight \union {new}
    BY <2>1, <2>2, <2>3 DEF InFlight, InConnection
  <2>5. \A m \in InFlight : Feed!Before(m, new)
    BY <1>2, <2>1, OlderThanMeasured, RunsAssumption DEF InFlight, Runs, Indices, Feed!Before
  <2>6. Feed!Before(published, new)
    BY <2>1 DEF PipelineInv, PublishedInv, HasLeft, Early, Feed!Before
  <2>7. Feed!Acquire(new)
    BY <2>1, <2>4, <2>5, <2>6 DEF Feed!Acquire
  <2> QED
    BY <2>2, <2>7 DEF Feed!FeedNext
<1> QED
  BY <1>4, <1>5, <1>6, <1>7, <1>8, <1>9, <1>10, <1>11 DEF View

\* Whatever is lost, killed and started again, measurements reach the broker in the
\* order in which they were acquired, and each at most once.
THEOREM PipelineImplementsFeed == PipelineSpec => ImplementsFeed
<1>1. PipelineInit => Feed!FeedInit
  <2> SUFFICES ASSUME PipelineInit PROVE InFlight = {} /\ published = <<0, 0>>
    BY DEF Feed!FeedInit, Feed!None
  <2> QED
    BY DEF PipelineInit, SensorInit, InFlight, InSensor, InConnection, Nobody, NewConnection,
           NoPacket, Runs, Indices
<1>2. PipelineInv /\ [PipelineNext]_pipelineVars => [Feed!FeedNext]_(Feed!feedVars)
  BY StepView, FeedStep
<1> QED
  BY <1>1, <1>2, PipelineInductive, PTL DEF PipelineSpec, ImplementsFeed, Feed!FeedSpec

\* What was published last is older than all that is in flight.
PublishedIsOldest ==
  /\ InFlight \subseteq Feed!Measurements
  /\ published \in Feed!Measurements \union {Feed!None}
  /\ \A m \in InFlight : Feed!Before(published, m)

\* The broker's retained message is never replaced by an older one, nor by itself:
\* what MeasurementFeed promises, of the pipeline.
THEOREM NewestIsRetained == PipelineSpec => Feed!NeverOlder
<1>1. Feed!FeedInit => PublishedIsOldest
  BY DEF Feed!FeedInit, PublishedIsOldest
<1>2. PublishedIsOldest /\ [Feed!FeedNext]_(Feed!feedVars) => PublishedIsOldest'
  <2> SUFFICES ASSUME PublishedIsOldest, [Feed!FeedNext]_(Feed!feedVars)
               PROVE  PublishedIsOldest'
    OBVIOUS
  <2> USE DEF PublishedIsOldest
  <2>1. CASE Feed!Lose
    BY <2>1 DEF Feed!Lose
  <2>2. ASSUME NEW m \in Feed!Measurements, Feed!Acquire(m) PROVE PublishedIsOldest'
    BY <2>2 DEF Feed!Acquire
  <2>3. ASSUME NEW m \in Feed!Measurements, Feed!Publish(m) PROVE PublishedIsOldest'
    BY <2>3 DEF Feed!Publish
  <2>4. CASE UNCHANGED Feed!feedVars
    BY <2>4 DEF Feed!feedVars
  <2> QED
    BY <2>1, <2>2, <2>3, <2>4 DEF Feed!FeedNext
<1>3. PublishedIsOldest /\ [Feed!FeedNext]_(Feed!feedVars)
        => [published' # published => Feed!Before(published, published')]_(Feed!feedVars)
  BY DEF PublishedIsOldest, Feed!FeedNext, Feed!Lose, Feed!Acquire, Feed!Publish, Feed!feedVars
<1> QED
  BY PipelineImplementsFeed, <1>1, <1>2, <1>3, PTL DEF ImplementsFeed, Feed!FeedSpec, Feed!NeverOlder
==============================================================================
