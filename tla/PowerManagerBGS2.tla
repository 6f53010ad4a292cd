--------------------------- MODULE PowerManagerBGS2 ---------------------------
(***************************************************************************)
(* PowerManager with the driver BGS2CMux, step by step, in one process     *)
(* that may be killed and started again: what the clients find in shared   *)
(* memory beside what is on the serial port and in /dev.                   *)
(*                                                                         *)
(* main calls turnOn() in "settling" and turnOff() in "muxOff", each time  *)
(* with eventMutex held, and goes on when the call has returned.  Neither  *)
(* component guards the other: that the calls alternate, which BGS2CMux    *)
(* needs, is a property here.                                              *)
(***************************************************************************)
EXTENDS PowerManager, Naturals

CONSTANT NumNodes

ASSUME NumNodesAssumption == NumNodes \in Nat \ {0}
ASSUME LeftoverIsAnything == Leftover = BOOLEAN
ASSUME DriverIsBGS2CMux == MuxDriver = BGS2Driver

VARIABLES
  node, serial_fd, opened, attached, major, step, called,   \* of BGS2CMux
  driverPc,   \* its pc
  inDriver    \* has main called the driver and not come back?

Driver == INSTANCE BGS2CMux WITH pc <- driverPc

driverVars == <<node, serial_fd, opened, attached, major, step, called, driverPc>>
systemVars == <<vars, driverVars, inDriver>>

SystemInit == Init /\ Driver!Init /\ inDriver = FALSE

------------------------------------------------------------------------------
CallTurnOn ==
  /\ pc["main"] = "settling" /\ ~inDriver
  /\ Driver!EnterTurnOn
  /\ inDriver' = TRUE
  /\ UNCHANGED vars

CallTurnOff ==
  /\ pc["main"] = "muxOff" /\ ~inDriver
  /\ Driver!EnterTurnOff
  /\ inDriver' = TRUE
  /\ UNCHANGED vars

DriverRuns == Driver!DriverSteps /\ UNCHANGED <<vars, inDriver>>

\* The call returns.
DriverReturns ==
  /\ inDriver /\ driverPc = "idle"
  /\ DriverCalls
  /\ inDriver' = FALSE
  /\ UNCHANGED driverVars

\* Every step of PowerManager and its environment that is not a call of the driver.
ManagerRuns ==
  /\ Environment \/ OwnSteps \/ IsrSteps \/ ControllerSteps
  /\ UNCHANGED <<driverVars, inDriver>>

\* The process is killed outside of the shared memory (inside of it, the next run
\* never gets the mutex) and started again, with the flags and nodes as they are,
\* or with the machine, without any.
Restart ==
  /\ shmMutex = Nobody
  /\ Driver!Restart
  /\ inDriver' = FALSE
  /\ \/ modemReady' = modemReady /\ cmuxReady' = cmuxReady /\ node' = node
     \/ modemReady' = FALSE /\ cmuxReady' = FALSE
        /\ node' = [n \in Driver!Node |-> Driver!Missing]
  /\ edge' = FALSE
  /\ itsLockingMutex' = Nobody /\ eventMutex' = Nobody
  /\ powerStateChanged' = FALSE
  /\ seenInd' = "OFF"
  /\ itsPowerState' = "UNDEFINED" /\ initialState' = "UNDEFINED"
  /\ storedPowerState' = HistoricalValue("UNDEFINED")
  /\ itsDeviceState' = HistoricalValue("UNDEFINED")
  /\ readySent' = FALSE
  /\ pc' = [t \in Thread |-> CASE t = "main" -> "construct"
                               [] t = "controller" -> "notStarted"
                               [] t = "isr" -> "idle"]
  /\ UNCHANGED <<powerInd, enablePin, powerPin, shmMutex>>

SystemNext ==
  CallTurnOn \/ CallTurnOff \/ DriverRuns \/ DriverReturns \/ ManagerRuns \/ Restart

SystemSpec == SystemInit /\ [][SystemNext]_systemVars

------------------------------------------------------------------------------
(* Properties. *)

\* Every variable has its type.
SystemTypeOK == TypeOK /\ Driver!TypeOK /\ inDriver \in BOOLEAN

\* PowerManager is the caller that BGS2CMux counts on: its calls alternate,
\* whatever the modem does and whenever the process is killed, so that no port is
\* opened over an open one and no descriptor closed twice.
ImplementsDriver == Driver!Init /\ [][Driver!Next]_driverVars

\* From the first READY=1 of a run on, the clients see cmuxReady only while the
\* driver is at rest after a turnOn(), when it neither builds nor dismantles
\* anything, and if they find the first node it has a multiplexer behind it.
\* turnOn() answers MUX_ON even if it has failed, at any of its steps, in which
\* case the multiplexer may be down, but then there is no node to dial on.
ReadyNodeHasMux ==
  readySent /\ cmuxReady =>
    /\ ~inDriver /\ called = "turnOn"
    /\ node[1] # Driver!Missing => attached

\* While the device state is MODEM_OFF and no event is processed, nothing of the
\* multiplexer is left: the port is closed, and a turnOff() has removed the nodes.
OffMeansReleased ==
  eventMutex = Nobody /\ itsDeviceState.now = "MODEM_OFF" =>
    /\ opened = 0 /\ ~attached
    /\ called = "turnOff" => \A n \in Driver!Node : node[n] = Driver!Missing
===============================================================================
