----------------------------- MODULE PowerManager -----------------------------
(***************************************************************************)
(* The SGMpowermgr process: ModemPowerController watches the modem's power *)
(* indication pin and PowerManager turns the multiplexer (CMUX) on and off *)
(* after it, telling the other processes through shared memory.            *)
(*                                                                         *)
(* Three threads: "main" constructs the objects and then runs              *)
(* PowerManager::run(); "controller" runs ModemPowerController::operator() *)
(* and, at the end of its handler, PowerManager::onPowerIndChange; "isr"   *)
(* is the interrupt thread of the GPIO library.                            *)
(*                                                                         *)
(* Three mutexes: itsLockingMutex protects powerStateChanged and is held   *)
(* by the controller for its whole handler; shmMutex is the mutex in       *)
(* shared memory; eventMutex is held by main while it processes an event.  *)
(* The condition variable of main has no predicate: a notification while   *)
(* main is not waiting is lost.                                            *)
(***************************************************************************)
EXTENDS HistoricalValue

CONSTANTS
  Leftover,   \* what an earlier run may have left in the shared flags
  MuxDriver   \* what ICMuxDriver::turnOn() may answer, true or not

Thread == {"main", "controller", "isr"}
Nobody == "nobody"

PowerState == {"UNDEFINED", "DISABLED_POWERED", "ENABLED", "DISABLED_UNPOWERED"}
DeviceState == {"UNDEFINED", "MODEM_READY", "MODEM_CMUX", "MODEM_OFF", "MODEM_FAILED"}
MuxResult == {"MUX_ON", "MUX_OFF", "MUX_ERROR"}

\* CMuxMock, the driver main() uses: it does nothing and says MUX_ON.
CMuxMockDriver == {"MUX_ON"}

\* BGS2CMux, whose turnOn() logs a failure of cMuxOn() and says MUX_ON too.
BGS2Driver == {"MUX_ON"}

ASSUME LeftoverAssumption == Leftover \in (SUBSET BOOLEAN) \ {{}}
ASSUME MuxDriverAssumption == MuxDriver \subseteq MuxResult

VARIABLES
  powerInd,            \* the indication pin: is the modem on?
  edge,                \* an interrupt is pending (pending ones coalesce)
  enablePin,           \* the ignition line
  powerPin,            \* the power line
  itsLockingMutex,     \* the thread that owns it, or Nobody
  eventMutex,
  shmMutex,
  powerStateChanged,
  seenInd,             \* the indication the handler has read
  itsPowerState,
  initialState,        \* what determineInitialConditions has read
  storedPowerState,    \* HistoricalValue<PowerState>
  itsDeviceState,      \* HistoricalValue<DeviceState>
  modemReady,          \* the two flags in shared memory
  cmuxReady,
  readySent,           \* has systemd been told READY=1?
  pc

pins    == <<powerInd, edge, enablePin, powerPin>>
mutexes == <<itsLockingMutex, eventMutex, shmMutex>>
powers  == <<powerStateChanged, seenInd, itsPowerState>>
states  == <<initialState, storedPowerState, itsDeviceState>>
shared  == <<modemReady, cmuxReady>>
vars == <<pins, mutexes, powers, states, shared, readySent, pc>>

ConstructPc == {"construct", "stabilize", "cutPower", "restorePower", "registerIsr"}
InitialPc == {"startController", "initRead", "initStored", "initDevice", "ignite", "powerOn"}
LoopPc == {"loop", "waiting", "woken"}
ProcessPc == {"turnOff", "muxOff", "settling", "publish"}
ControllerPc == {"notStarted", "waiting", "reading", "access", "updating",
                 "callback", "notifying", "finishing"}

\* Shared memory outlives the process; the output pins keep their last level.
Init ==
  /\ powerInd \in {"ON", "OFF"}
  /\ edge = FALSE
  /\ enablePin \in {"IDLE", "IGNITION"}
  /\ powerPin \in {"ON", "OFF"}
  /\ itsLockingMutex = Nobody
  /\ eventMutex = Nobody
  /\ shmMutex = Nobody
  /\ powerStateChanged = FALSE
  /\ seenInd = "OFF"
  /\ itsPowerState = "UNDEFINED"
  /\ initialState = "UNDEFINED"
  /\ storedPowerState = HistoricalValue("UNDEFINED")
  /\ itsDeviceState = HistoricalValue("UNDEFINED")
  /\ modemReady \in Leftover
  /\ cmuxReady \in Leftover
  /\ readySent = FALSE
  /\ pc = [t \in Thread |-> CASE t = "main" -> "construct"
                              [] t = "controller" -> "notStarted"
                              [] t = "isr" -> "idle"]

GoTo(t, from, to) ==
  /\ pc[t] = from
  /\ pc' = [pc EXCEPT ![t] = to]

------------------------------------------------------------------------------
(* The environment. *)

\* The modem goes on or off.  The edge interrupts only once the ISR is
\* registered, at the end of the constructor.
FlipPowerInd ==
  /\ powerInd' = IF powerInd = "ON" THEN "OFF" ELSE "ON"
  /\ edge' = (edge \/ pc["main"] \notin ConstructPc)
  /\ UNCHANGED <<enablePin, powerPin, mutexes, powers, states, shared, readySent, pc>>

\* wait() may return without a notification.
SpuriousWakeup ==
  /\ GoTo("main", "waiting", "woken")
  /\ UNCHANGED <<pins, mutexes, powers, states, shared, readySent>>

------------------------------------------------------------------------------
(* main: the constructor of ModemPowerController, before any other thread. *)

\* The modem is on: keep its power and find out more.
ConstructOn ==
  /\ GoTo("main", "construct", "stabilize")
  /\ powerInd = "ON"
  /\ powerPin' = "ON"
  /\ UNCHANGED <<powerInd, edge, enablePin, mutexes, powers, states, shared, readySent>>

\* The modem is off: modemReady is left as it was.
ConstructOff ==
  /\ GoTo("main", "construct", "registerIsr")
  /\ powerInd = "OFF"
  /\ powerPin' = "OFF"
  /\ enablePin' = "IDLE"
  /\ itsPowerState' = "DISABLED_UNPOWERED"
  /\ UNCHANGED <<powerInd, edge, mutexes, powerStateChanged, seenInd, states, shared, readySent>>

\* stabilizePowerState() reads the pin again; the modem answers the query.
StabilizeResponding ==
  /\ GoTo("main", "stabilize", "registerIsr")
  /\ powerInd = "ON"
  /\ itsPowerState' = "ENABLED"
  /\ enablePin' = "IDLE"
  /\ powerPin' = "ON"
  /\ modemReady' = TRUE
  /\ UNCHANGED <<powerInd, edge, mutexes, powerStateChanged, seenInd, states,
                 cmuxReady, readySent>>

\* The modem does not answer: startAccess, setModemReady(false), endAccess.
StabilizeHung ==
  /\ GoTo("main", "stabilize", "cutPower")
  /\ powerInd = "ON"
  /\ modemReady' = FALSE
  /\ UNCHANGED <<pins, mutexes, powers, states, cmuxReady, readySent>>

\* The modem has gone off since the first read.  The level written to the power
\* pin, MODEM_IND_POWER_OFF, is the one that means on.
StabilizeOff ==
  /\ GoTo("main", "stabilize", "registerIsr")
  /\ powerInd = "OFF"
  /\ modemReady' = FALSE
  /\ powerPin' = "ON"
  /\ enablePin' = "IDLE"
  /\ itsPowerState' = "DISABLED_POWERED"
  /\ UNCHANGED <<powerInd, edge, mutexes, powerStateChanged, seenInd, states,
                 cmuxReady, readySent>>

\* The hard shutdown: power off for a second ...
CutPower ==
  /\ GoTo("main", "cutPower", "restorePower")
  /\ powerPin' = "OFF"
  /\ enablePin' = "IDLE"
  /\ UNCHANGED <<powerInd, edge, mutexes, powers, states, shared, readySent>>

\* ... and on again.
RestorePower ==
  /\ GoTo("main", "restorePower", "registerIsr")
  /\ powerPin' = "ON"
  /\ itsPowerState' = "DISABLED_UNPOWERED"
  /\ UNCHANGED <<powerInd, edge, enablePin, mutexes, powerStateChanged, seenInd,
                 states, shared, readySent>>

RegisterIsr ==
  /\ GoTo("main", "registerIsr", "startController")
  /\ UNCHANGED <<pins, mutexes, powers, states, shared, readySent>>

------------------------------------------------------------------------------
(* main: PowerManager::run() up to its loop, without any lock. *)

StartController ==
  /\ pc["main"] = "startController"
  /\ pc' = [pc EXCEPT !["main"] = "initRead", !["controller"] = "waiting"]
  /\ UNCHANGED <<pins, mutexes, powers, states, shared, readySent>>

\* determineInitialConditions() reads the power state ...
ReadInitialState ==
  /\ GoTo("main", "initRead", "initStored")
  /\ initialState' = itsPowerState
  /\ UNCHANGED <<pins, mutexes, powers, storedPowerState, itsDeviceState, shared, readySent>>

\* ... stores it, over what the controller may have stored since ...
StoreInitialState ==
  /\ GoTo("main", "initStored", "initDevice")
  /\ storedPowerState' = SetValue(storedPowerState, initialState)
  /\ UNCHANGED <<pins, mutexes, powers, initialState, itsDeviceState, shared, readySent>>

InitialDeviceState(powerState) ==
  CASE powerState = "ENABLED" -> "MODEM_READY"
    [] powerState \in {"DISABLED_POWERED", "DISABLED_UNPOWERED"} -> "MODEM_OFF"
    [] OTHER -> itsDeviceState.now

\* ... and derives the device state from what is stored by then.
SetInitialDevice ==
  /\ GoTo("main", "initDevice", "ignite")
  /\ itsDeviceState' =
       SetValue(itsDeviceState, InitialDeviceState(storedPowerState.now))
  /\ UNCHANGED <<pins, mutexes, powers, initialState, storedPowerState, shared, readySent>>

\* ModemPowerController::turnOn(): what reads like a lock of itsLockingMutex
\* declares a local variable of that name.
Ignite ==
  /\ GoTo("main", "ignite", "powerOn")
  /\ enablePin' = "IGNITION"
  /\ UNCHANGED <<powerInd, edge, powerPin, mutexes, powers, states, shared, readySent>>

PowerOn ==
  /\ GoTo("main", "powerOn", "loop")
  /\ powerPin' = "ON"
  /\ UNCHANGED <<powerInd, edge, enablePin, mutexes, powers, states, shared, readySent>>

------------------------------------------------------------------------------
(* main: the loop of PowerManager::run(). *)

\* Lock eventMutex and wait, which releases it.
MainWaits ==
  /\ GoTo("main", "loop", "waiting")
  /\ eventMutex = Nobody
  /\ UNCHANGED <<pins, mutexes, powers, states, shared, readySent>>

\* Mutant: one of the two off states is forgotten.
ComputeEventForgets(device, powerState) ==
  CASE ~HasChanged(device) -> "NONE"
    [] HasChanged(device) /\ device.now = "MODEM_OFF" ->
         IF powerState = "ENABLED" THEN "ASYNC_TURN_ON" ELSE "NONE"
    [] HasChanged(device) /\ device.now \in {"MODEM_READY", "MODEM_CMUX"} ->
         IF powerState = "DISABLED_UNPOWERED" THEN "ASYNC_TURN_OFF" ELSE "NONE"
    [] OTHER -> "UNDEFINED"

\* computeEvent().
ComputeEvent(device, powerState) ==
  CASE ~HasChanged(device) -> "NONE"
    [] HasChanged(device) /\ device.now = "MODEM_OFF" ->
         IF powerState = "ENABLED" THEN "ASYNC_TURN_ON" ELSE "NONE"
    [] HasChanged(device) /\ device.now \in {"MODEM_READY", "MODEM_CMUX"} ->
         IF powerState \in {"DISABLED_POWERED", "DISABLED_UNPOWERED"}
         THEN "ASYNC_TURN_OFF" ELSE "NONE"
    [] OTHER -> "UNDEFINED"

\* Woken, main relocks eventMutex and computes the event.  It keeps the mutex
\* while it processes one; the others change nothing.
MainComputes ==
  /\ eventMutex = Nobody
  /\ \/ /\ ComputeEvent(itsDeviceState, storedPowerState.now) = "ASYNC_TURN_OFF"
        /\ GoTo("main", "woken", "turnOff")
        /\ eventMutex' = "main"
     \/ /\ ComputeEvent(itsDeviceState, storedPowerState.now) = "ASYNC_TURN_ON"
        /\ GoTo("main", "woken", "settling")
        /\ eventMutex' = "main"
     \/ /\ ComputeEvent(itsDeviceState, storedPowerState.now) \in {"NONE", "UNDEFINED"}
        /\ GoTo("main", "woken", "loop")
        /\ UNCHANGED eventMutex
  /\ UNCHANGED <<pins, itsLockingMutex, shmMutex, powers, states, shared, readySent>>

\* Mutant: the flag is left set when the multiplexer goes down.
WithdrawCmuxNot ==
  /\ GoTo("main", "turnOff", "muxOff")
  /\ shmMutex = Nobody
  /\ UNCHANGED <<pins, mutexes, powers, states, shared, readySent>>

\* ASYNC_TURN_OFF: the flag first ...
WithdrawCmux ==
  /\ GoTo("main", "turnOff", "muxOff")
  /\ shmMutex = Nobody
  /\ cmuxReady' = FALSE
  /\ UNCHANGED <<pins, mutexes, powers, states, modemReady, readySent>>

\* Mutant: the device state is set only when the driver reports a failure.
MuxTurnsOffSilently ==
  /\ GoTo("main", "muxOff", "loop")
  /\ eventMutex' = Nobody
  /\ UNCHANGED <<pins, itsLockingMutex, shmMutex, powers, states, shared, readySent>>

\* ... then the multiplexer.
MuxTurnsOff ==
  /\ GoTo("main", "muxOff", "loop")
  /\ itsDeviceState' = SetValue(itsDeviceState, "MODEM_OFF")
  /\ eventMutex' = Nobody
  /\ UNCHANGED <<pins, itsLockingMutex, shmMutex, powers, initialState,
                 storedPowerState, shared, readySent>>

\* ASYNC_TURN_ON: fifteen seconds later, still with eventMutex, the multiplexer.
MuxTurnsOn ==
  \E result \in MuxDriver :
    /\ \/ /\ result = "MUX_ON"
          /\ GoTo("main", "settling", "publish")
          /\ UNCHANGED <<eventMutex, itsDeviceState>>
       \/ /\ result # "MUX_ON"
          /\ GoTo("main", "settling", "loop")
          /\ itsDeviceState' = SetValue(itsDeviceState, "MODEM_FAILED")
          /\ eventMutex' = Nobody
    /\ UNCHANGED <<pins, itsLockingMutex, shmMutex, powers, initialState,
                   storedPowerState, shared, readySent>>

\* Mutant: the device state is not told.
PublishCmuxKeepsState ==
  /\ GoTo("main", "publish", "loop")
  /\ shmMutex = Nobody
  /\ cmuxReady' = TRUE
  /\ readySent' = TRUE
  /\ eventMutex' = Nobody
  /\ UNCHANGED <<pins, itsLockingMutex, shmMutex, powers, states, modemReady>>

\* Then the flag, the device state and systemd.
PublishCmux ==
  /\ GoTo("main", "publish", "loop")
  /\ shmMutex = Nobody
  /\ cmuxReady' = TRUE
  /\ itsDeviceState' = SetValue(itsDeviceState, "MODEM_CMUX")
  /\ readySent' = TRUE
  /\ eventMutex' = Nobody
  /\ UNCHANGED <<pins, itsLockingMutex, shmMutex, powers, initialState,
                 storedPowerState, modemReady>>

------------------------------------------------------------------------------
(* isr: powerIndicationIsr. *)

IsrFires ==
  /\ GoTo("isr", "idle", "locking")
  /\ edge
  /\ edge' = FALSE
  /\ UNCHANGED <<powerInd, enablePin, powerPin, mutexes, powers, states, shared, readySent>>

\* The flag is set under itsLockingMutex, and the controller notified after it.
IsrSetsChanged ==
  /\ GoTo("isr", "locking", "idle")
  /\ itsLockingMutex = Nobody
  /\ powerStateChanged' = TRUE
  /\ UNCHANGED <<pins, mutexes, seenInd, itsPowerState, states, shared, readySent>>

------------------------------------------------------------------------------
(* controller: the loop, powerIndChangeHandler and onPowerIndChange. *)

\* The wait has a predicate, so it returns if and only if the flag is set.
ControllerWakes ==
  /\ GoTo("controller", "waiting", "reading")
  /\ itsLockingMutex = Nobody
  /\ powerStateChanged
  /\ itsLockingMutex' = "controller"
  /\ UNCHANGED <<pins, eventMutex, shmMutex, powers, states, shared, readySent>>

ReadIndication ==
  /\ GoTo("controller", "reading", "access")
  /\ seenInd' = powerInd
  /\ UNCHANGED <<pins, mutexes, powerStateChanged, itsPowerState, states, shared, readySent>>

StartAccess ==
  /\ GoTo("controller", "access", "updating")
  /\ shmMutex = Nobody
  /\ shmMutex' = "controller"
  /\ UNCHANGED <<pins, itsLockingMutex, eventMutex, powers, states, shared, readySent>>

\* Mutant: modemReady is left to the other branch.
ModemOffKeepsReady ==
  /\ seenInd = "OFF"
  /\ enablePin' = "IDLE"
  /\ powerPin' = "OFF"
  /\ itsPowerState' = "DISABLED_POWERED"
  /\ UNCHANGED modemReady

\* The indication is off: idle the lines.
ModemOff ==
  /\ seenInd = "OFF"
  /\ enablePin' = "IDLE"
  /\ powerPin' = "OFF"
  /\ modemReady' = FALSE
  /\ itsPowerState' = "DISABLED_POWERED"

\* After a sleep(1), still inside the access.
ModemOn ==
  /\ seenInd = "ON"
  /\ enablePin' = "IDLE"
  /\ itsPowerState' = "ENABLED"
  /\ modemReady' = TRUE
  /\ UNCHANGED powerPin

\* Mutant: the access is never ended.
UpdatePowerStateKeepsAccess ==
  /\ GoTo("controller", "updating", "callback")
  /\ ModemOff \/ ModemOn
  /\ UNCHANGED <<powerInd, edge, mutexes, powerStateChanged, seenInd, states,
                 cmuxReady, readySent>>

\* endAccess() comes before the callback.
UpdatePowerState ==
  /\ GoTo("controller", "updating", "callback")
  /\ ModemOff \/ ModemOn
  /\ shmMutex' = Nobody
  /\ UNCHANGED <<powerInd, edge, itsLockingMutex, eventMutex, powerStateChanged,
                 seenInd, states, cmuxReady, readySent>>

\* onPowerIndChange() stores the power state under eventMutex and notifies,
\* after it, only if the state is a new one.
StorePowerState ==
  /\ eventMutex = Nobody
  /\ storedPowerState' = SetValue(storedPowerState, itsPowerState)
  /\ \/ HasChanged(storedPowerState') /\ GoTo("controller", "callback", "notifying")
     \/ ~HasChanged(storedPowerState') /\ GoTo("controller", "callback", "finishing")
  /\ UNCHANGED <<pins, mutexes, powers, initialState, itsDeviceState, shared, readySent>>

\* notify_all() wakes main if it is waiting, and is lost otherwise.
NotifyMain ==
  /\ pc["controller"] = "notifying"
  /\ pc' = [pc EXCEPT !["controller"] = "finishing",
                      !["main"] = IF @ = "waiting" THEN "woken" ELSE @]
  /\ UNCHANGED <<pins, mutexes, powers, states, shared, readySent>>

ControllerFinishes ==
  /\ GoTo("controller", "finishing", "waiting")
  /\ powerStateChanged' = FALSE
  /\ itsLockingMutex' = Nobody
  /\ UNCHANGED <<pins, eventMutex, shmMutex, seenInd, itsPowerState, states, shared, readySent>>

------------------------------------------------------------------------------
Environment == FlipPowerInd \/ SpuriousWakeup

\* main inside the driver.
DriverCalls == MuxTurnsOff \/ MuxTurnsOn

OwnSteps ==
  \/ ConstructOn \/ ConstructOff \/ StabilizeResponding \/ StabilizeHung
  \/ StabilizeOff \/ CutPower \/ RestorePower \/ RegisterIsr \/ StartController
  \/ ReadInitialState \/ StoreInitialState \/ SetInitialDevice \/ Ignite \/ PowerOn
  \/ MainWaits \/ MainComputes \/ WithdrawCmux \/ PublishCmux

MainSteps == OwnSteps \/ DriverCalls

IsrSteps == IsrFires \/ IsrSetsChanged

ControllerSteps ==
  \/ ControllerWakes \/ ReadIndication \/ StartAccess \/ UpdatePowerState
  \/ StorePowerState \/ NotifyMain \/ ControllerFinishes

Next == Environment \/ MainSteps \/ IsrSteps \/ ControllerSteps

\* Runnable threads run, sleeps end, the driver returns, and a mutex that is
\* free again and again is obtained in the end.  A spurious wakeup may never come.
Fairness ==
  /\ SF_vars(MainSteps)
  /\ SF_vars(IsrSteps)
  /\ SF_vars(ControllerSteps)

Spec == Init /\ [][Next]_vars /\ Fairness

------------------------------------------------------------------------------
(* Properties. *)

TypeOK ==
  /\ powerInd \in {"ON", "OFF"} /\ seenInd \in {"ON", "OFF"}
  /\ powerPin \in {"ON", "OFF"} /\ enablePin \in {"IDLE", "IGNITION"}
  /\ edge \in BOOLEAN /\ powerStateChanged \in BOOLEAN
  /\ itsLockingMutex \in {"controller", Nobody}
  /\ eventMutex \in {"main", Nobody}
  /\ shmMutex \in {"controller", Nobody}
  /\ itsPowerState \in PowerState /\ initialState \in PowerState
  /\ storedPowerState \in Historical(PowerState)
  /\ itsDeviceState \in Historical(DeviceState)
  /\ modemReady \in BOOLEAN /\ cmuxReady \in BOOLEAN
  /\ readySent \in BOOLEAN
  /\ pc \in [Thread -> ConstructPc \union InitialPc \union LoopPc \union ProcessPc
                       \union ControllerPc \union {"idle", "locking"}]

\* The flag is set only after turnOn() has answered MUX_ON and withdrawn before
\* turnOff() is called, so that MODEM_CMUX stands behind it.
CmuxReadyBacked == cmuxReady => itsDeviceState.now = "MODEM_CMUX" /\ pc["main"] # "muxOff"

\* Whenever nobody is inside the shared memory, modemReady tells whether the
\* modem is ENABLED, from the end of the constructor on.
ModemReadyMatchesPowerState ==
  shmMutex = Nobody /\ pc["main"] \notin ConstructPc
    => (modemReady <=> itsPowerState = "ENABLED")

\* A cmuxReady that an earlier run left on (initData() resets it only in a new
\* segment) is believed by the clients until the first event: from then on, and
\* after any later event, it is on only if this run has set it for the turnOn()
\* it is in.  The exception is a driver that fails the first turnOn(): nothing
\* withdraws the flag, and MODEM_FAILED has no event that would.
CmuxReadyHeals ==
  \/ CmuxReadyBacked
  \/ ~readySent /\ (itsDeviceState.before = "UNDEFINED" \/ itsDeviceState.now = "MODEM_FAILED")

\* Whatever an earlier run left in shared memory, modemReady is wrong at most as
\* long as the modem is as the constructor found or left it (DISABLED_UNPOWERED).
ModemReadyHeals ==
  shmMutex = Nobody /\ pc["main"] \notin ConstructPc
    => (modemReady <=> itsPowerState = "ENABLED") \/ itsPowerState = "DISABLED_UNPOWERED"

\* The first test of computeEvent(), that the device state has changed, never
\* swallows an event: every set() of the history stores a new value.
EventGateIsOpen == pc["main"] \in LoopPc => HasChanged(itsDeviceState)

\* The threads that t waits for: the owner of the mutex it is about to lock.
WaitsFor(t) ==
  {u \in Thread :
     \/ pc[t] \in {"loop", "woken", "callback"} /\ eventMutex = u
     \/ pc[t] \in {"turnOff", "publish", "access"} /\ shmMutex = u
     \/ itsLockingMutex = u /\ (pc[t] = "locking" \/ (t = "controller" /\ pc[t] = "waiting"))}

\* No threads wait for each other around a circle: main takes shmMutex while it
\* owns eventMutex, and the controller, which takes both while it owns
\* itsLockingMutex, gives shmMutex back before it asks for eventMutex.
NoCircularWait ==
  \A S \in SUBSET Thread : S # {} => \E t \in S : WaitsFor(t) \cap S = {}

\* A modem whose multiplexer could not be turned on once is given up for the
\* life of the process: computeEvent() has no event for MODEM_FAILED.
FailedIsFinal ==
  [][itsDeviceState.now = "MODEM_FAILED" => itsDeviceState'.now = "MODEM_FAILED"]_vars

\* A modem found on at the start has to go off before it gets a multiplexer.
ReadyGoesOffFirst ==
  [][itsDeviceState.now = "MODEM_READY" => itsDeviceState'.now \in {"MODEM_READY", "MODEM_OFF"}]_vars

\* Once run() is in its loop, an edge of the indication pin reaches the state
\* machine, through the interrupt, the handler and the callback, and against
\* the three mutexes, unless the pin changes again.
EdgeReachesStateMachine ==
  /\ (edge /\ powerInd = "ON" /\ pc["main"] \in LoopPc)
       ~> (storedPowerState.now = "ENABLED" \/ powerInd = "OFF")
  /\ (edge /\ powerInd = "OFF" /\ pc["main"] \in LoopPc)
       ~> (storedPowerState.now = "DISABLED_POWERED" \/ powerInd = "ON")

\* A change notified while main is waiting is acted on: a modem that comes on is
\* multiplexed (or fails), one that goes off has its multiplexer turned off,
\* unless the state changes again.
NotifiedChangeIsFollowed ==
  /\ (/\ pc["controller"] = "notifying" /\ pc["main"] = "waiting"
      /\ storedPowerState.now = "ENABLED" /\ itsDeviceState.now = "MODEM_OFF")
       ~> (itsDeviceState.now # "MODEM_OFF" \/ storedPowerState.now # "ENABLED")
  /\ (/\ pc["controller"] = "notifying" /\ pc["main"] = "waiting"
      /\ storedPowerState.now = "DISABLED_POWERED" /\ itsDeviceState.now = "MODEM_CMUX")
       ~> (itsDeviceState.now = "MODEM_OFF" \/ storedPowerState.now = "ENABLED")

\* What the log line "Monitoring of incoming requests started" reports: from the
\* loop on, a modem that has come on and stays on is multiplexed.
ChangeIsFollowed ==
  (pc["main"] \in LoopPc /\ storedPowerState.now = "ENABLED" /\ itsDeviceState.now = "MODEM_OFF")
    ~> (itsDeviceState.now # "MODEM_OFF" \/ storedPowerState.now # "ENABLED")

\* What the unit file (Type = notify) expects: if the modem is on and stays on,
\* the service reports READY=1.
ServiceBecomesReady == <>[](powerInd = "ON") => <>readySent
===============================================================================
