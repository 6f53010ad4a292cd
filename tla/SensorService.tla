---------------------------- MODULE SensorService ----------------------------
(***************************************************************************)
(* The SGMsensor process, which a timer starts again and again: it         *)
(* registers its BME280 with the SensorHub, acquires temperature, pressure *)
(* and humidity, and hands the packets to the sink through a ClientSocket. *)
(*                                                                         *)
(* A measurement is the k-th packet of a run.  Its value is left out; what *)
(* is kept is the run whose temperature the value was compensated with,    *)
(* which the driver remembers as t_fine between two calls.                 *)
(***************************************************************************)
EXTENDS Integers, Sequences

CONSTANT MaxRuns   \* bound: how often the timer starts the service

ASSUME RunsAssumption == MaxRuns \in Nat

Runs == 1..MaxRuns

VARIABLES
  run,               \* the number of the current or last run, 0 before the first
  sensorPc,          \* where the process is, "off" if there is none
  itsSensorVector,   \* the sensors SensorHub::acquireAll goes through
  tFine,             \* the run whose temperature t_fine is of, 0 if garbage
  measurementsData,  \* the packets acquired so far
  sent               \* how many of them it has given to its socket

sensorVars == <<run, sensorPc, itsSensorVector, tFine, measurementsData, sent>>

SensorPc == {"off", "registering", "acquiring", "connecting", "sending"}
PhysQuantity == {"PRESSURE", "TEMPERATURE", "HUMIDITY", "LIGHT"}
MeasurementPoint == {"SOIL", "AIR", "DEVICE", "NONE"}

\* What is kept of a packet.
SgmProcessData ==
  [measPoint : MeasurementPoint, physQuantityType : PhysQuantity, tFine : 0..MaxRuns]

\* What the BME280 says it can do.
Capabilities == <<"PRESSURE", "TEMPERATURE", "HUMIDITY">>

\* Mutant: acquire() goes through the capabilities.
CapabilityOrder == Capabilities

\* The order in which acquire() measures.
AcquireOrder == <<"TEMPERATURE", "PRESSURE", "HUMIDITY">>
Count == 3
Indices == 1..Count

SensorInit ==
  /\ run = 0
  /\ sensorPc = "off"
  /\ itsSensorVector = <<>>
  /\ tFine = 0
  /\ measurementsData = <<>>
  /\ sent = 0

\* The timer starts the service only if it is not running.  The constructors
\* initialise and configure the chip; no result is looked at, and t_fine is
\* not initialised.
TimerStarts ==
  /\ sensorPc = "off"
  /\ run < MaxRuns
  /\ run' = run + 1
  /\ sensorPc' = "registering"
  /\ UNCHANGED <<itsSensorVector, tFine, measurementsData, sent>>

\* isReady() is always true; whatever overlaps, the sensor is in the vector.
RegisterSensor ==
  /\ sensorPc = "registering"
  /\ sensorPc' = "acquiring"
  /\ itsSensorVector' = Append(itsSensorVector, "AIR")
  /\ UNCHANGED <<run, tFine, measurementsData, sent>>

\* Compensating the temperature computes t_fine; pressure and humidity are
\* compensated with the one that is there.
Compensate(quantity) == tFine' = IF quantity = "TEMPERATURE" THEN run ELSE tFine

Measured(quantity) ==
  [measPoint |-> itsSensorVector[1], physQuantityType |-> quantity, tFine |-> tFine']

\* A call of measure(): a forced reading of everything, whose result is not looked
\* at, then the compensation of one quantity.
Measure ==
  /\ sensorPc = "acquiring"
  /\ LET quantity == AcquireOrder[Len(measurementsData) + 1]
     IN  /\ Compensate(quantity)
         /\ measurementsData' = Append(measurementsData, Measured(quantity))
  /\ sensorPc' = IF Len(measurementsData') = Count THEN "connecting" ELSE "acquiring"
  /\ UNCHANGED <<run, itsSensorVector, sent>>

\* The ClientSocket is constructed; sendPacket() can start.
Connect ==
  /\ sensorPc = "connecting"
  /\ sensorPc' = "sending"
  /\ UNCHANGED <<run, itsSensorVector, tFine, measurementsData, sent>>

\* sendPacket() of one packet.  What comes back is only logged, so that the loop
\* goes on whether or not somebody still reads the socket.
SendPacket ==
  /\ sensorPc = "sending"
  /\ sent < Len(measurementsData)
  /\ sent' = sent + 1
  /\ UNCHANGED <<run, sensorPc, itsSensorVector, tFine, measurementsData>>

\* The process ends: everything is sent, or the constructor of the socket threw
\* and the measurements are lost, or it is killed (SIGPIPE, systemd, power).
SensorEnds ==
  /\ sensorPc # "off"
  /\ sensorPc' = "off"
  /\ itsSensorVector' = <<>>
  /\ tFine' = 0
  /\ measurementsData' = <<>>
  /\ sent' = 0
  /\ UNCHANGED run

\* Mutant: the loop waits for one packet too many.
AllSentAndMore == sensorPc = "sending" /\ sent > Len(measurementsData)

AllSent == sensorPc = "sending" /\ sent = Len(measurementsData)

SensorTypeOK ==
  /\ run \in 0..MaxRuns
  /\ sensorPc \in SensorPc
  /\ itsSensorVector \in {<<>>, <<"AIR">>}
  /\ tFine \in 0..MaxRuns
  /\ measurementsData \in Seq(SgmProcessData) /\ Len(measurementsData) <= Count
  /\ sent \in 0..Count

\* Every value is compensated with a temperature of its own acquisition, never
\* with a t_fine that nobody has set: acquire() measures temperature first.
CompensatedWithOwnTemperature ==
  \A i \in DOMAIN measurementsData : measurementsData[i].tFine = run
==============================================================================
