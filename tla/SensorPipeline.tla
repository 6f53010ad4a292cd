---------------------------- MODULE SensorPipeline ----------------------------
(***************************************************************************)
(* The way of a measurement: the SGMsensor process, the listening socket   *)
(* that systemd owns, and the SGMsink process, which is started for a      *)
(* waiting connection, and again after it has exited or died.              *)
(*                                                                         *)
(* What SgmSink leaves open, who connects and what is sent, is decided     *)
(* here: its steps with a client are joint steps with the sensor, or with  *)
(* any other program that uses the socket (its mode is 0666), such as      *)
(* meteo's socketTest.                                                     *)
(***************************************************************************)
EXTENDS SensorService, SgmSink

OtherClient == 0

VARIABLES
  connections,   \* the connections waiting at the listening socket
  served,        \* the one on acceptedSocketDescriptor, Nobody if that is -1
  packet,        \* the measurement the sink thread is sending, if it has one
  published      \* the last measurement the broker has got

pipelineVars == <<sensorVars, vars, connections, served, packet, published>>

\* A connection: the run of its sensor, and the packets nobody has read yet.
NewConnection(of) == [of |-> of, packets |-> <<>>]
Nobody == NewConnection(OtherClient)
NoPacket == <<0, 0>>

unitMap ==
  {<<"AIR", "PRESSURE">>, <<"AIR", "TEMPERATURE">>, <<"AIR", "HUMIDITY">>,
   <<"AIR", "LIGHT">>, <<"SOIL", "HUMIDITY">>, <<"DEVICE", "TEMPERATURE">>}

\* prepareTopic() of the k-th measurement of a run.
IsMapped(k) == <<"AIR", AcquireOrder[k]>> \in unitMap

\* What prepareMessage() makes of a packet (value, divider, unit and time) tells it
\* from every other: the run and the index.
Message(c) == <<c.of, Head(c.packets)>>

PipelineInit ==
  /\ SensorInit
  /\ Init
  /\ backlog = 0
  /\ connections = <<>>
  /\ served = Nobody
  /\ packet = NoPacket
  /\ published = NoPacket

\* Nothing passes; if the socket is closed or forgotten, what is in it is lost.
NothingPasses ==
  /\ served' = IF peer' = "none" THEN Nobody ELSE served
  /\ UNCHANGED <<connections, packet, published>>

------------------------------------------------------------------------------
(* The listening socket outlives both processes: a connection waits in it, with *)
(* what was sent and when its client has gone as well.                          *)

SensorOpens ==
  /\ Connect
  /\ SensorConnects
  /\ connections' = Append(connections, NewConnection(run))
  /\ UNCHANGED <<served, packet, published>>

\* meteo's socketTest(), or any other program.
OtherClientOpens ==
  /\ SensorConnects
  /\ connections' = Append(connections, Nobody)
  /\ UNCHANGED <<sensorVars, served, packet, published>>

\* The packet is written to the connection, wherever that is; if the sink has
\* closed or forgotten it, the packet is lost.
SensorSends ==
  LET Write(c) == IF c.of = run THEN [c EXCEPT !.packets = Append(@, sent')] ELSE c
  IN  /\ SendPacket
      /\ connections' = [i \in DOMAIN connections |-> Write(connections[i])]
      /\ served' = Write(served)
      /\ UNCHANGED <<vars, packet, published>>

\* Mutant: the youngest connection is served first.
SinkAcceptsYoungest(rc) ==
  /\ AcceptSensor(rc)
  /\ served' = connections[Len(connections)]
  /\ connections' = SubSeq(connections, 1, Len(connections) - 1)
  /\ UNCHANGED <<sensorVars, packet, published>>

SinkAccepts(rc) ==
  /\ AcceptSensor(rc)
  /\ served' = Head(connections)
  /\ connections' = Tail(connections)
  /\ UNCHANGED <<sensorVars, packet, published>>

\* The client has closed its end and nothing is left to read.
ClientCloses ==
  /\ SensorCloses
  /\ served.packets = <<>>
  /\ ~(served.of = run /\ sensorPc = "sending")
  /\ NothingPasses /\ UNCHANGED sensorVars

\* The next packet of a sensor.
SinkReads ==
  /\ served.packets # <<>>
  /\ ReceivePacket(IsMapped(Head(served.packets)))
  /\ served' = [served EXCEPT !.packets = Tail(@)]
  /\ packet' = IF pc' = "sending" THEN Message(served) ELSE NoPacket
  /\ UNCHANGED <<sensorVars, connections, published>>

\* Another client may send anything, of any size; what of it is published (the
\* packet of socketTest is) is not a measurement of SGMsensor.
SinkReadsOther ==
  /\ served.of = OtherClient
  /\ ReceiveShort \/ \E mapped \in BOOLEAN : ReceivePacket(mapped)
  /\ NothingPasses /\ UNCHANGED sensorVars

\* What sendMessage does not publish is lost.
SinkSends ==
  /\ SendMessage
  /\ packet' = IF pc' = "publishing" THEN packet ELSE NoPacket
  /\ UNCHANGED <<sensorVars, connections, served, published>>

\* The message is retained: it becomes the broker's last one of its topic, unless
\* it does not get there.
SinkPublishes ==
  /\ Publish
  /\ packet' = NoPacket
  /\ published' \in {published, IF packet = NoPacket THEN published ELSE packet}
  /\ UNCHANGED <<sensorVars, connections, served>>

\* The SGMsink process has exited or dies (a signal aborts it), and systemd
\* starts it for a waiting connection.
SinkStartsAgain ==
  /\ backlog > 0
  /\ told' = NoStatus /\ call' = "none" /\ answer' = "UNKNOWN_ERROR"
  /\ itsCurrentState' = "NO_CONNECTION" /\ listenIterationsCount' = 0
  /\ isNetworkReady' = FALSE /\ isConnected' = FALSE /\ session' = FALSE
  /\ peer' = "none" /\ leaked' = 0
  /\ pc' = "tick"
  /\ served' = Nobody /\ packet' = NoPacket
  /\ UNCHANGED <<backlog, sensorVars, connections, published>>

------------------------------------------------------------------------------
SensorSteps ==
  \/ SensorOpens \/ SensorSends
  \/ /\ RegisterSensor \/ Measure \/ (AllSent /\ SensorEnds)
     /\ UNCHANGED <<vars, connections, served, packet, published>>

TimerOrDeath ==
  /\ TimerStarts \/ SensorEnds
  /\ UNCHANGED <<vars, connections, served, packet, published>>

\* What the sink does without a client.
SinkAlone ==
  /\ \/ \E status \in Notices : OnNetworkStatusChange(status)
     \/ Answers \/ ConnectProtocol(FALSE) \/ AcceptFails
  /\ NothingPasses /\ UNCHANGED sensorVars

SinkAcceptSteps ==
  \/ NobodyWaits /\ NothingPasses /\ UNCHANGED sensorVars
  \/ \E rc \in AcceptReturns : SinkAccepts(rc)

ProtocolConnects == ConnectProtocol(TRUE) /\ NothingPasses /\ UNCHANGED sensorVars

SinkProgress ==
  \/ SinkAcceptSteps \/ ProtocolConnects \/ SinkReads \/ SinkSends \/ SinkPublishes
  \/ /\ \/ ConnectNetwork \/ (peer = "closed" /\ ReceiveEnds)
        \/ SendingException \/ Leave \/ HangUp
     /\ NothingPasses /\ UNCHANGED sensorVars
  \/ pc = "exited" /\ SinkStartsAgain

ClientInputs ==
  \/ OtherClientOpens \/ ClientCloses \/ SinkReadsOther
  \/ peer = "sending" /\ ReceiveEnds /\ NothingPasses /\ UNCHANGED sensorVars

PipelineNext ==
  SensorSteps \/ TimerOrDeath \/ SinkAlone \/ SinkProgress \/ ClientInputs \/ SinkStartsAgain

\* SGMsensor has no loop: once it has ended, the kernel reports its end.
SensorsEndIsSeen == ClientCloses /\ served.of # OtherClient

\* As in SgmSink; and the sensor process runs, and systemd does its work.  Other
\* clients owe nothing.
PipelineFairness ==
  /\ WF_pipelineVars(SensorSteps)
  /\ SF_pipelineVars(SensorOpens)
  /\ WF_pipelineVars(SinkProgress)
  /\ SF_pipelineVars(SinkAcceptSteps)
  /\ SF_pipelineVars(ProtocolConnects)
  /\ WF_pipelineVars(SensorsEndIsSeen)

PipelineSpec == PipelineInit /\ [][PipelineNext]_pipelineVars /\ PipelineFairness

------------------------------------------------------------------------------
(* Properties. *)

Connection == [of : 0..MaxRuns, packets : Seq(Indices)]

\* Every variable has its type, and what waits is what SgmSink counts.
PipelineTypeOK ==
  /\ SensorTypeOK
  /\ TypeOK
  /\ connections \in Seq(Connection) /\ Len(connections) = backlog
  /\ served \in Connection
  /\ packet \in (0..MaxRuns) \X (0..Count)
  /\ published \in (0..MaxRuns) \X (0..Count)

\* A measurement is in flight while the sensor process has it, while it is in a
\* connection, and while the sink thread has it.
InSensor(m) == m[1] = run /\ sent < m[2] /\ m[2] <= Len(measurementsData)

InConnection(c, m) == c.of = m[1] /\ \E n \in DOMAIN c.packets : c.packets[n] = m[2]

InFlight ==
  {m \in Runs \X Indices :
     \/ InSensor(m)
     \/ InConnection(served, m)
     \/ \E i \in DOMAIN connections : InConnection(connections[i], m)
     \/ packet = m}

Feed == INSTANCE MeasurementFeed WITH inFlight <- InFlight

\* The pipeline implements the feed: whatever is lost, killed and started again,
\* a measurement of SGMsensor is published at most once and none after a later
\* one, so that the broker's retained message is the newest it was given of them.
ImplementsFeed == Feed!FeedSpec

\* A sensor process does not hang for ever in connect() at a full backlog, however
\* many others wait before it and whatever they send, but for three reasons: the
\* sink does not get to listen any more, it has run out of descriptors, or another
\* client sits on the accepted connection in silence, in a recv() without timeout.
SensorRunEnds ==
  ([]<>~NotListening /\ <>[]DescriptorsLeft /\ []<>(served.of # OtherClient \/ peer # "sending"))
    => (sensorPc # "off" ~> sensorPc = "off")
===============================================================================
