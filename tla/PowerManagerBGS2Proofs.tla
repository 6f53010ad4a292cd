------------------------ MODULE PowerManagerBGS2Proofs ------------------------
(***************************************************************************)
(* The safety of PowerManager with BGS2CMux, for every number of nodes:    *)
(* each component's invariant holds beside the other, and Calls ties the   *)
(* state machine of the one to the last call of the other.                 *)
(***************************************************************************)
EXTENDS PowerManagerBGS2, PowerManagerProofs

\* BGS2CMux with its theorems.
Proven == INSTANCE BGS2CMuxProofs WITH pc <- driverPc

\* Where main is when the driver runs, and what it has called last otherwise.
Calls ==
  /\ driverPc # "idle" => inDriver
  /\ inDriver => \/ pc["main"] = "settling" /\ called = "turnOn"
                 \/ pc["main"] = "muxOff" /\ called = "turnOff"
  /\ ~inDriver =>
       /\ called = "turnOn" <=> itsDeviceState.now = "MODEM_CMUX" \/ pc["main"] = "publish"
       /\ called = "turnOff" => itsDeviceState.now = "MODEM_OFF"

Tie == Calls /\ inDriver \in BOOLEAN

SystemInv == IInv /\ Proven!IInv /\ Tie

------------------------------------------------------------------------------
\* The instance with the theorems is the instance of the system.
LEMMA SameSteps ==
  /\ Driver!Init <=> Proven!Init
  /\ Driver!Next <=> Proven!Next
BY DEF Driver!Init, Driver!Next, Proven!Init, Proven!Next, Driver!TurnOn, Proven!TurnOn,
  Driver!EnterTurnOn, Proven!EnterTurnOn, Driver!TurnOff, Proven!TurnOff,
  Driver!EnterTurnOff, Proven!EnterTurnOff, Driver!Restart, Proven!Restart,
  Driver!DriverSteps, Proven!DriverSteps, Driver!GoTo, Proven!GoTo, Driver!Loop, Proven!Loop,
  Driver!Fail, Proven!Fail,
  Driver!RemoveNode, Proven!RemoveNode, Driver!OpenSerial, Proven!OpenSerial, Driver!OpenFails, Proven!OpenFails,
  Driver!Configure, Proven!Configure, Driver!SendAt, Proven!SendAt, Driver!SetDiscipline, Proven!SetDiscipline,
  Driver!SetConf, Proven!SetConf, Driver!StepFails, Proven!StepFails, Driver!GetMajor, Proven!GetMajor,
  Driver!MakeNode, Proven!MakeNode, Driver!CloseSerial, Proven!CloseSerial,
  Driver!files, Proven!files, Driver!Node, Proven!Node, Driver!Missing, Proven!Missing,
  Driver!Major, Proven!Major, Driver!Commands, Proven!Commands

\* What the driver's own steps leave alone.
LEMMA DriverSteps ==
  ASSUME Driver!DriverSteps
  PROVE  UNCHANGED called /\ driverPc # "idle"
BY DEF Driver!DriverSteps, Driver!RemoveNode, Driver!OpenSerial, Driver!OpenFails,
   Driver!Configure, Driver!SendAt, Driver!SetDiscipline, Driver!SetConf, Driver!StepFails,
   Driver!GetMajor, Driver!MakeNode, Driver!CloseSerial, Driver!GoTo, Driver!Loop, Driver!Fail

\* Every step of the system is one of PowerManager, leaves it alone, or restarts it.
LEMMA ManagerStep == [SystemNext]_systemVars => [Next]_vars \/ Restart
BY DEF SystemNext, CallTurnOn, CallTurnOff, DriverRuns, DriverReturns, ManagerRuns, Next,
   MainSteps, systemVars

\* A restarted process is one that starts, whatever it finds in shared memory.
LEMMA RestartIsInit == IInv /\ Restart => Init'
<1> SUFFICES ASSUME IInv, Restart PROVE Init'
  OBVIOUS
<1>1. powerInd' \in {"ON", "OFF"} /\ powerPin' \in {"ON", "OFF"} /\ enablePin' \in {"IDLE", "IGNITION"}
  BY DEF IInv, TypeOK, Restart
<1>2. modemReady' \in Leftover /\ cmuxReady' \in Leftover
  <2>1. CASE modemReady' = modemReady /\ cmuxReady' = cmuxReady
    BY <2>1, LeftoverIsAnything DEF IInv, TypeOK
  <2>2. CASE modemReady' = FALSE /\ cmuxReady' = FALSE
    BY <2>2, LeftoverIsAnything, Zenon
  <2> QED
    BY <2>1, <2>2 DEF Restart
<1>3. edge' = FALSE /\ powerStateChanged' = FALSE /\ readySent' = FALSE
  BY DEF Restart
<1>4. shmMutex' = Nobody /\ itsLockingMutex' = Nobody /\ eventMutex' = Nobody
  BY DEF Restart
<1>5. /\ seenInd' = "OFF" /\ itsPowerState' = "UNDEFINED" /\ initialState' = "UNDEFINED"
      /\ storedPowerState' = HistoricalValue("UNDEFINED")
      /\ itsDeviceState' = HistoricalValue("UNDEFINED")
      /\ pc' = [t \in Thread |-> CASE t = "main" -> "construct"
                                   [] t = "controller" -> "notStarted"
                                   [] t = "isr" -> "idle"]
  BY DEF Restart
<1> QED
  BY <1>1, <1>2, <1>3, <1>4, <1>5 DEF Init

\* Every step of the system is one of BGS2CMux or leaves it alone: main calls
\* turnOn() only in MODEM_OFF, where the last call was another one, and turnOff()
\* only in MODEM_READY or MODEM_CMUX.
LEMMA DriverStep ==
  ASSUME IInv, Calls, [SystemNext]_systemVars
  PROVE  [Driver!Next]_driverVars
<1>1. CASE CallTurnOn
  <2>1. called # "turnOn"
    BY <1>1 DEF CallTurnOn, Calls, IInv, Device
  <2> QED
    BY <1>1, <2>1 DEF CallTurnOn, Driver!Next, Driver!TurnOn
<1>2. CASE CallTurnOff
  <2>1. called # "turnOff"
    BY <1>2 DEF CallTurnOff, Calls, IInv, Device
  <2> QED
    BY <1>2, <2>1 DEF CallTurnOff, Driver!Next, Driver!TurnOff
<1>3. CASE DriverRuns \/ Restart
  BY <1>3 DEF DriverRuns, Restart, Driver!Next
<1>4. CASE DriverReturns \/ ManagerRuns \/ UNCHANGED systemVars
  BY <1>4 DEF DriverReturns, ManagerRuns, systemVars
<1> QED
  BY <1>1, <1>2, <1>3, <1>4 DEF SystemNext

\* Outside of the driver main does not move while it is in it, and only
\* determineInitialConditions and PublishCmux change the device state.
LEMMA ManagerSteps ==
  ASSUME IInv, Environment \/ OwnSteps \/ IsrSteps \/ ControllerSteps
  PROVE  /\ pc["main"] \in {"settling", "muxOff"} => UNCHANGED <<pc["main"], itsDeviceState>>
         /\ (itsDeviceState'.now = "MODEM_CMUX" \/ pc'["main"] = "publish")
              <=> (itsDeviceState.now = "MODEM_CMUX" \/ pc["main"] = "publish")
         /\ itsDeviceState.now = "MODEM_OFF" /\ pc["main"] # "publish"
              => itsDeviceState'.now = "MODEM_OFF"
<1> USE DEF IInv, TypeOK, Owners, Device, Unset, GoTo, Thread, states,
            ConstructPc, InitialPc, LoopPc, ProcessPc
<1>1. CASE SetInitialDevice
  BY <1>1 DEF SetInitialDevice, SetValue, InitialDeviceState, PowerState, Historical
<1>2. CASE PublishCmux
  BY <1>2 DEF PublishCmux, SetValue
<1>3. CASE MainComputes
  BY <1>3 DEF MainComputes
<1>4. CASE \/ ConstructOn \/ ConstructOff \/ StabilizeResponding \/ StabilizeHung
           \/ StabilizeOff \/ CutPower \/ RestorePower \/ RegisterIsr
  BY <1>4 DEF ConstructOn, ConstructOff, StabilizeResponding, StabilizeHung, StabilizeOff,
       CutPower, RestorePower, RegisterIsr
<1>5. CASE \/ StartController \/ ReadInitialState \/ StoreInitialState \/ Ignite \/ PowerOn
           \/ MainWaits \/ WithdrawCmux
  BY <1>5 DEF StartController, ReadInitialState, StoreInitialState, Ignite, PowerOn,
       MainWaits, WithdrawCmux
<1>6. CASE Environment \/ IsrSteps \/ ControllerSteps
  BY <1>6 DEF Environment, FlipPowerInd, SpuriousWakeup, IsrSteps, IsrFires, IsrSetsChanged,
       ControllerSteps, ControllerWakes, ReadIndication, StartAccess, UpdatePowerState,
       StorePowerState, NotifyMain, ControllerFinishes
<1> QED
  BY <1>1, <1>2, <1>3, <1>4, <1>5, <1>6 DEF OwnSteps

\* The driver says MUX_ON and nothing else.
LEMMA Returns ==
  ASSUME DriverReturns
  PROVE  \/ /\ pc["main"] = "settling" /\ pc' = [pc EXCEPT !["main"] = "publish"]
            /\ UNCHANGED <<itsDeviceState, cmuxReady, readySent>>
         \/ /\ pc["main"] = "muxOff" /\ pc' = [pc EXCEPT !["main"] = "loop"]
            /\ itsDeviceState'.now = "MODEM_OFF"
            /\ UNCHANGED <<cmuxReady, readySent>>
<1>1. CASE MuxTurnsOn
  <2>1. PICK result \in MuxDriver : MuxTurnsOn!(result)
    BY <1>1 DEF MuxTurnsOn
  <2>2. result = "MUX_ON"
    BY DriverIsBGS2CMux DEF BGS2Driver
  <2> QED
    BY <2>1, <2>2 DEF GoTo, shared
<1>2. CASE MuxTurnsOff
  BY <1>2 DEF MuxTurnsOff, GoTo, SetValue, shared
<1> QED
  BY <1>1, <1>2 DEF DriverReturns, DriverCalls

\* Every step but a restart preserves the tie between the two state machines.
LEMMA NextCalls ==
  ASSUME IInv, Calls, [SystemNext]_systemVars, ~Restart
  PROVE  Calls'
<1> USE DEF IInv, Device
<1>1. CASE CallTurnOn
  BY <1>1 DEF CallTurnOn, Driver!EnterTurnOn, Calls, vars
<1>2. CASE CallTurnOff
  BY <1>2 DEF CallTurnOff, Driver!EnterTurnOff, Calls, vars
<1>3. CASE DriverRuns
  BY <1>3, DriverSteps DEF DriverRuns, Calls, vars, states
<1>4. CASE DriverReturns
  <2>1. ~inDriver' /\ inDriver /\ UNCHANGED <<called, driverPc>> /\ driverPc = "idle"
    BY <1>4, Zenon DEF DriverReturns, driverVars
  <2>2. pc \in [Thread -> ConstructPc \union InitialPc \union LoopPc \union ProcessPc
                       \union ControllerPc \union {"idle", "locking"}]
    BY DEF TypeOK
  <2> QED
    BY <1>4, <2>1, <2>2, Returns DEF Calls, Thread
<1>5. CASE ManagerRuns
  <2>1. UNCHANGED <<called, driverPc, inDriver>>
    BY <1>5 DEF ManagerRuns, driverVars
  <2>2. ~inDriver /\ called = "turnOff" => pc["main"] # "publish"
    BY DEF Calls
  <2> QED
    BY <1>5, <2>1, <2>2, ManagerSteps DEF ManagerRuns, Calls
<1>6. CASE UNCHANGED systemVars
  BY <1>6 DEF systemVars, driverVars, vars, states, Calls
<1> QED
  BY <1>1, <1>2, <1>3, <1>4, <1>5, <1>6 DEF SystemNext

------------------------------------------------------------------------------
\* The system starts, and starts again, with nothing called yet.
Uncalled == Init /\ driverPc = "idle" /\ called = "none" /\ inDriver = FALSE

LEMMA StartsTied == Uncalled => Tie
<1> SUFFICES ASSUME Uncalled PROVE Tie
  OBVIOUS
<1>1. itsDeviceState.now = "UNDEFINED" /\ pc["main"] = "construct"
  BY DEF Uncalled, Init, HistoricalValue, Thread
<1>2. inDriver \in BOOLEAN /\ ~inDriver
  BY Zenon DEF Uncalled
<1> QED
  BY <1>1, <1>2 DEF Tie, Calls, Uncalled

\* The system starts as its components do.
LEMMA InitSystemInv == SystemInit => SystemInv
<1> SUFFICES ASSUME SystemInit PROVE SystemInv
  OBVIOUS
<1>1. IInv
  BY InitIInv DEF SystemInit
<1>2. Proven!IInv
  BY SameSteps, NumNodesAssumption, Proven!InitIInv DEF SystemInit
<1>3. Tie
  BY StartsTied DEF SystemInit, Driver!Init, Uncalled
<1> QED
  BY <1>1, <1>2, <1>3 DEF SystemInv

\* Every step preserves what each component knows of itself and of the other.
LEMMA NextSystemInv == SystemInv /\ [SystemNext]_systemVars => SystemInv'
<1> SUFFICES ASSUME SystemInv, [SystemNext]_systemVars PROVE SystemInv'
  OBVIOUS
<1> USE DEF SystemInv, Tie
<1>1. IInv'
  <2>1. CASE [Next]_vars
    BY <2>1, NextTypeOK, NextOwners, NextModemFlag, NextDevice, NextFlag DEF IInv
  <2>2. CASE Restart
    <3>1. Init'
      BY <2>2, RestartIsInit
    <3>2. Init' => IInv'
      BY InitIInv, PTL
    <3> QED
      BY <3>1, <3>2
  <2> QED
    BY <2>1, <2>2, ManagerStep
<1>2. Proven!IInv'
  <2>1. [Driver!Next]_driverVars
    BY DriverStep
  <2>2. [Proven!Next]_(Proven!vars)
    BY <2>1, SameSteps DEF driverVars, Proven!vars, Proven!files
  <2> QED
    BY <2>2, NumNodesAssumption, Proven!NextIInv
<1>3. Tie'
  <2>1. CASE Restart
    <3>1. Uncalled'
      BY <2>1, RestartIsInit DEF Restart, Driver!Restart, Uncalled
    <3>2. Uncalled' => Tie'
      BY StartsTied, PTL
    <3> QED
      BY <3>1, <3>2
  <2>2. CASE ~Restart
    <3>1. inDriver' \in BOOLEAN
      BY <2>2, Zenon DEF SystemNext, CallTurnOn, CallTurnOff, DriverRuns, DriverReturns,
        ManagerRuns, systemVars
    <3> QED
      BY <2>2, <3>1, NextCalls
  <2> QED
    BY <2>1, <2>2
<1> QED
  BY <1>1, <1>2, <1>3

\* The invariants of both components and of their tie hold in every state.
THEOREM SystemInductive == SystemSpec => []SystemInv
BY InitSystemInv, NextSystemInv, PTL DEF SystemSpec

\* Every variable of the two components keeps its type, through any number of
\* restarts; in particular the process never has two descriptors of the port.
THEOREM SystemTypeCorrect == SystemSpec => []SystemTypeOK
<1>1. SystemInv => SystemTypeOK
  BY DEF SystemInv, Tie, IInv, SystemTypeOK, Proven!IInv, Proven!TypeOK, Driver!TypeOK,
    Proven!Node, Driver!Node, Proven!Major, Driver!Major, Proven!Missing, Driver!Missing,
    Proven!Pc, Driver!Pc
<1> QED
  BY SystemInductive, <1>1, PTL

\* PowerManager drives BGS2CMux as its model assumes: the assumption under which
\* the theorems of BGS2CMuxProofs hold is discharged by the caller.
THEOREM DriverImplemented == SystemSpec => ImplementsDriver
<1>1. SystemInit => Driver!Init
  BY DEF SystemInit
<1>2. SystemInv /\ [SystemNext]_systemVars => [Driver!Next]_driverVars
  BY DriverStep DEF SystemInv, Tie
<1> QED
  BY SystemInductive, <1>1, <1>2, PTL DEF SystemSpec, ImplementsDriver

\* A client that sees cmuxReady after READY=1 sees a driver at rest, ...
LEMMA AtRest == SystemInv /\ readySent /\ cmuxReady => ~inDriver /\ called = "turnOn"
<1> SUFFICES ASSUME SystemInv, readySent, cmuxReady PROVE ~inDriver /\ called = "turnOn"
  OBVIOUS
<1>1. CmuxReadyBacked
  BY DEF SystemInv, IInv, Flag, CmuxReadyHeals
<1> QED
  BY <1>1 DEF SystemInv, IInv, Device, Tie, Calls, CmuxReadyBacked

\* ... and dials on a node only if there is a multiplexer behind it, wherever
\* turnOn() has failed and whatever nodes an earlier run has left.
THEOREM ReadyNodeMuxed == SystemSpec => []ReadyNodeHasMux
<1>1. SystemInv => ReadyNodeHasMux
  <2> SUFFICES ASSUME SystemInv, readySent /\ cmuxReady
               PROVE  ~inDriver /\ called = "turnOn" /\ (node[1] # Driver!Missing => attached)
    BY DEF ReadyNodeHasMux
  <2>1. ~inDriver /\ called = "turnOn"
    BY AtRest
  <2>2. driverPc = "idle"
    BY <2>1 DEF SystemInv, Tie, Calls
  <2>3. Proven!FirstNodeHasMux
    BY DEF SystemInv, Proven!IInv
  <2> QED
    BY <2>1, <2>2, <2>3 DEF Proven!FirstNodeHasMux, Proven!Missing, Driver!Missing
<1> QED
  BY SystemInductive, <1>1, PTL

\* In MODEM_OFF the port is closed and the nodes of the last turnOn() are gone.
THEOREM OffReleased == SystemSpec => []OffMeansReleased
<1>1. SystemInv => OffMeansReleased
  <2> SUFFICES ASSUME SystemInv, eventMutex = Nobody, itsDeviceState.now = "MODEM_OFF"
               PROVE  /\ opened = 0 /\ ~attached
                      /\ called = "turnOff" => \A n \in Driver!Node : node[n] = Driver!Missing
    BY DEF OffMeansReleased
  <2>1. pc["main"] \notin ProcessPc
    BY DEF SystemInv, IInv, Owners, Nobody
  <2>2. ~inDriver /\ driverPc = "idle" /\ called # "turnOn"
    BY <2>1 DEF SystemInv, Tie, Calls, ProcessPc
  <2>3. called \in {"none", "turnOff"}
    BY <2>2 DEF SystemInv, Proven!IInv, Proven!TypeOK
  <2>4. opened = 0 /\ ~attached
    BY <2>2, <2>3 DEF SystemInv, Proven!IInv, Proven!Port, Proven!Discipline
  <2>5. Proven!TurnedOffLeavesNoNode
    BY DEF SystemInv, Proven!IInv
  <2> QED
    BY <2>2, <2>4, <2>5 DEF Proven!TurnedOffLeavesNoNode, Proven!Missing, Driver!Missing,
      Proven!Node, Driver!Node
<1> QED
  BY SystemInductive, <1>1, PTL

\* What the theorems of PowerManagerProofs say of one run of the process that
\* finds the flags of another holds through any number of kills and restarts.
THEOREM SurvivesRestarts == SystemSpec => [](NoCircularWait /\ EventGateIsOpen /\ ModemReadyHeals /\ CmuxReadyHeals)
<1>1. SystemInv => NoCircularWait /\ EventGateIsOpen /\ ModemReadyHeals /\ CmuxReadyHeals
  BY CircleFree, GateOpen, ModemReadyHealed, CmuxReadyHealed DEF SystemInv
<1> QED
  BY SystemInductive, <1>1, PTL
==============================================================================
