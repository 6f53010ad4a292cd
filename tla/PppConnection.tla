---------------------------- MODULE PppConnection ----------------------------
(***************************************************************************)
(* The network provider of the SGMsink process.                            *)
(*                                                                         *)
(* Two threads share the object: the thread that owns it and calls its     *)
(* methods ("user"), and the power monitor thread the constructor starts   *)
(* ("monitor").  The monitor samples the flag cmuxReady, which the         *)
(* SGMpowermgr process writes into shared memory, and feeds DEVICE_LOST    *)
(* and DEVICE_RESTORED into the state machine the user drives with         *)
(* CONNECT_REQUEST and DISCONNECT_REQUEST.                                 *)
(*                                                                         *)
(* Two mutexes: itsEventMutex is held for a whole stateMachineTick;        *)
(* itsMonitoringMutex is held by the monitor from one wait_for to the next *)
(* (its own ticks included), and for a moment by startPowerMonitor,        *)
(* pausePowerMonitor and the destructor.  std::mutex is not recursive: a   *)
(* thread that locks a mutex it owns waits forever.                        *)
(***************************************************************************)
EXTENDS HistoricalValue

CONSTANTS
  Subscribers,   \* the callbacks passed to registerUserCallback
  StackGarbage   \* what the atomics may hold before they are initialised

ASSUME StackGarbageAssumption == StackGarbage \in (SUBSET BOOLEAN) \ {{}}

Thread == {"user", "monitor"}
Nobody == "nobody"

State == {"NO_CONNECTION", "CONNECTED", "DEVICE_UNAVAILABLE", "CONNECTION_LOST"}
Event == {"CONNECT_REQUEST", "DISCONNECT_REQUEST", "DEVICE_LOST", "DEVICE_RESTORED"}
NetworkStatus == {"CONNECTED", "DISCONNECTED", "CONNECTION_ERROR",
                  "TOO_MANY_ATTEMPTS", "DEVICE_UNAVAILABLE", "UNKNOWN_ERROR"}
NoStatus == "NO_STATUS"   \* a callback that was never called

VARIABLES
  cmuxReady,           \* the flag in shared memory
  pppd,                \* is a pppd process up?
  itsCurrentState,
  itsEventMutex,       \* the thread that owns it, or Nobody
  itsMonitoringMutex,
  isPowerMonitorOn,
  terminate,
  callbackList,        \* the registered subscribers
  told,                \* the last status each subscriber was called with
  status,              \* what the tick in progress will tell
  event,               \* the event each thread is feeding, or last fed
  cmuxReadyFlag,       \* the monitor's HistoricalValue<bool>
  retVal,              \* what the user's last call returned, or is to return
  pc                   \* where each thread is

device  == <<cmuxReady, pppd>>
mutexes == <<itsEventMutex, itsMonitoringMutex>>
flags   == <<isPowerMonitorOn, terminate>>
notices == <<callbackList, told, status>>
vars == <<device, itsCurrentState, mutexes, flags, notices, event,
          cmuxReadyFlag, retVal, pc>>

UserPc == {"constructing", "registering", "idle",
           "connectCheck", "disconnectCheck", "destroying", "joining", "destroyed"}
MonitorPc == {"starting", "top", "waiting", "sampling", "done"}
TickPc == {"tick", "handling", "startPowerMonitor", "pausePowerMonitor",
           "notify", "closing", "release"}

\* queryStatus(): reads itsCurrentState without a lock.
QueryStatus(state) ==
  CASE state = "CONNECTED" -> "CONNECTED"
    [] state = "DEVICE_UNAVAILABLE" -> "DEVICE_UNAVAILABLE"
    [] state = "NO_CONNECTION" -> "DISCONNECTED"
    [] state = "CONNECTION_LOST" -> "DEVICE_UNAVAILABLE"

\* The monitor thread is started by the first member initialiser, before the
\* two atomics are initialised: it may read whatever the stack held there.
Init ==
  /\ cmuxReady \in BOOLEAN
  /\ pppd = FALSE
  /\ itsCurrentState = "NO_CONNECTION"
  /\ itsEventMutex = Nobody
  /\ itsMonitoringMutex = Nobody
  /\ isPowerMonitorOn \in StackGarbage
  /\ terminate \in StackGarbage
  /\ callbackList = {}
  /\ told = [s \in Subscribers |-> NoStatus]
  /\ status = NoStatus
  /\ event = [t \in Thread |-> "DEVICE_LOST"]
  /\ cmuxReadyFlag = HistoricalValue(FALSE)
  /\ retVal = "UNKNOWN_ERROR"
  /\ pc = [t \in Thread |-> IF t = "user" THEN "constructing" ELSE "starting"]

GoTo(t, from, to) ==
  /\ pc[t] = from
  /\ pc' = [pc EXCEPT ![t] = to]

------------------------------------------------------------------------------
(* The environment. *)

\* SGMpowermgr turns the multiplexer on or off.
FlipCmuxReady ==
  /\ cmuxReady' = ~cmuxReady
  /\ UNCHANGED <<pppd, itsCurrentState, mutexes, flags, notices, event,
                 cmuxReadyFlag, retVal, pc>>

\* The pppd daemon exits by itself (the carrier drops, the peer hangs up).
PppdDies ==
  /\ pppd
  /\ pppd' = FALSE
  /\ UNCHANGED <<cmuxReady, itsCurrentState, mutexes, flags, notices, event,
                 cmuxReadyFlag, retVal, pc>>

------------------------------------------------------------------------------
(* stateMachineTick, run by either thread. *)

\* The lock_guard on itsEventMutex.
Tick(t) ==
  /\ GoTo(t, "tick", "handling")
  /\ itsEventMutex = Nobody
  /\ itsEventMutex' = t
  /\ UNCHANGED <<device, itsCurrentState, itsMonitoringMutex, flags, notices,
                 event, cmuxReadyFlag, retVal>>

\* PppEndpoint::open() succeeds: pppd detached itself with exit status 0.
OpenSucceeds == pppd' = TRUE

\* PppEndpoint::open() fails: whatever pppd was there before stays.
OpenFails == pppd' = pppd

RefuseConnect(t) ==
  /\ event[t] = "CONNECT_REQUEST"
  /\ itsCurrentState # "NO_CONNECTION"
  /\ GoTo(t, "handling", "release")
  /\ UNCHANGED <<device, itsCurrentState, status>>

ConnectOpened(t) ==
  /\ event[t] = "CONNECT_REQUEST"
  /\ itsCurrentState = "NO_CONNECTION"
  /\ GoTo(t, "handling", "startPowerMonitor")
  /\ OpenSucceeds
  /\ itsCurrentState' = "CONNECTED"
  /\ UNCHANGED <<cmuxReady, status>>

OpenFailed(t) ==
  /\ \/ event[t] = "CONNECT_REQUEST" /\ itsCurrentState = "NO_CONNECTION"
     \/ event[t] = "DEVICE_RESTORED"
  /\ GoTo(t, "handling", "notify")
  /\ OpenFails
  /\ itsCurrentState' = "NO_CONNECTION"
  /\ status' = "CONNECTION_ERROR"
  /\ UNCHANGED cmuxReady

\* DEVICE_RESTORED opens whatever the state is, and sets the state only after
\* startPowerMonitor has returned.
RestoreOpened(t) ==
  /\ event[t] = "DEVICE_RESTORED"
  /\ GoTo(t, "handling", "startPowerMonitor")
  /\ OpenSucceeds
  /\ UNCHANGED <<cmuxReady, itsCurrentState, status>>

HandleDisconnect(t) ==
  /\ event[t] = "DISCONNECT_REQUEST"
  /\ GoTo(t, "handling", IF itsCurrentState \in {"CONNECTED", "CONNECTION_LOST"}
                         THEN "pausePowerMonitor" ELSE "release")
  /\ UNCHANGED <<device, itsCurrentState, status>>

\* Mutant: the endpoint is not closed.
HandleDeviceLostLeavesPppd(t) ==
  /\ event[t] = "DEVICE_LOST"
  /\ GoTo(t, "handling", "notify")
  /\ itsCurrentState' = "CONNECTION_LOST"
  /\ status' = "DEVICE_UNAVAILABLE"
  /\ UNCHANGED device

\* The monitor keeps isPowerMonitorOn: nothing pauses it here.
HandleDeviceLost(t) ==
  /\ event[t] = "DEVICE_LOST"
  /\ GoTo(t, "handling", "notify")
  /\ pppd' = FALSE
  /\ itsCurrentState' = "CONNECTION_LOST"
  /\ status' = "DEVICE_UNAVAILABLE"
  /\ UNCHANGED cmuxReady

HandleEvent(t) ==
  /\ \/ RefuseConnect(t)
     \/ ConnectOpened(t)
     \/ OpenFailed(t)
     \/ RestoreOpened(t)
     \/ HandleDisconnect(t)
     \/ HandleDeviceLost(t)
  /\ UNCHANGED <<mutexes, flags, callbackList, told, event, cmuxReadyFlag, retVal>>

\* Mutant: itsMonitoringMutex is a recursive mutex.
StartPowerMonitorRecursive(t) ==
  /\ GoTo(t, "startPowerMonitor", "notify")
  /\ itsMonitoringMutex \in {Nobody, t}
  /\ isPowerMonitorOn' = TRUE
  /\ itsCurrentState' = "CONNECTED"
  /\ status' = "CONNECTED"
  /\ UNCHANGED <<device, mutexes, terminate, callbackList, told, event,
                 cmuxReadyFlag, retVal>>

\* startPowerMonitor() takes itsMonitoringMutex for a moment.  After it,
\* DEVICE_RESTORED sets the state CONNECT_REQUEST has set already.
StartPowerMonitor(t) ==
  /\ GoTo(t, "startPowerMonitor", "notify")
  /\ itsMonitoringMutex = Nobody
  /\ isPowerMonitorOn' = TRUE
  /\ itsCurrentState' = "CONNECTED"
  /\ status' = "CONNECTED"
  /\ UNCHANGED <<device, mutexes, terminate, callbackList, told, event,
                 cmuxReadyFlag, retVal>>

\* Mutant: the state is left as it was.
PausePowerMonitorKeepsState(t) ==
  /\ GoTo(t, "pausePowerMonitor", "notify")
  /\ itsMonitoringMutex = Nobody
  /\ isPowerMonitorOn' = FALSE
  /\ status' = "DISCONNECTED"
  /\ UNCHANGED <<device, itsCurrentState, mutexes, terminate, callbackList, told,
                 event, cmuxReadyFlag, retVal>>

\* Mutant: a disconnect goes on without telling the subscribers.
PausePowerMonitorSilently(t) ==
  /\ GoTo(t, "pausePowerMonitor", "closing")
  /\ itsMonitoringMutex = Nobody
  /\ isPowerMonitorOn' = FALSE
  /\ itsCurrentState' = "NO_CONNECTION"
  /\ UNCHANGED <<device, mutexes, terminate, notices, event, cmuxReadyFlag, retVal>>

PausePowerMonitor(t) ==
  /\ GoTo(t, "pausePowerMonitor", "notify")
  /\ itsMonitoringMutex = Nobody
  /\ isPowerMonitorOn' = FALSE
  /\ itsCurrentState' = "NO_CONNECTION"
  /\ status' = "DISCONNECTED"
  /\ UNCHANGED <<device, mutexes, terminate, callbackList, told, event,
                 cmuxReadyFlag, retVal>>

\* notifyByCallback(): every registered callback is called in turn.
NotifyByCallback(t) ==
  /\ GoTo(t, "notify",
          IF event[t] = "DISCONNECT_REQUEST" THEN "closing" ELSE "release")
  /\ told' = [s \in Subscribers |-> IF s \in callbackList THEN status ELSE told[s]]
  /\ UNCHANGED <<device, itsCurrentState, mutexes, flags, callbackList, status,
                 event, cmuxReadyFlag, retVal>>

\* A disconnect closes the endpoint after the subscribers have been told.
ClosePppd(t) ==
  /\ GoTo(t, "closing", "release")
  /\ pppd' = FALSE
  /\ UNCHANGED <<cmuxReady, itsCurrentState, mutexes, flags, notices, event,
                 cmuxReadyFlag, retVal>>

------------------------------------------------------------------------------
(* The user thread: constructor, registration, connect, disconnect,        *)
(* destructor.                                                             *)

\* The last member initialisers; neither atomic is read in between.
FinishConstruction ==
  /\ GoTo("user", "constructing", "registering")
  /\ isPowerMonitorOn' = FALSE
  /\ terminate' = FALSE
  /\ UNCHANGED <<device, itsCurrentState, mutexes, notices, event,
                 cmuxReadyFlag, retVal>>

\* push_back() without a lock.
RegisterUserCallback(s) ==
  /\ pc["user"] = "registering"
  /\ s \notin callbackList
  /\ callbackList' = callbackList \union {s}
  /\ UNCHANGED <<device, itsCurrentState, mutexes, flags, told, status, event,
                 cmuxReadyFlag, retVal, pc>>

\* The sink registers in its constructor, before its thread is started.
StartUsing ==
  /\ GoTo("user", "registering", "idle")
  /\ callbackList = Subscribers
  /\ UNCHANGED <<device, itsCurrentState, mutexes, flags, notices, event,
                 cmuxReadyFlag, retVal>>

\* The first test of connect() and of disconnect(): without a device the call
\* reports the loss and answers lostReply whatever the tick does.
CallMethod(lostReply, checkPc) ==
  /\ \/ /\ cmuxReady
        /\ GoTo("user", "idle", checkPc)
        /\ retVal' = "CONNECTION_ERROR"
        /\ UNCHANGED event
     \/ /\ ~cmuxReady
        /\ GoTo("user", "idle", "tick")
        /\ retVal' = lostReply
        /\ event' = [event EXCEPT !["user"] = "DEVICE_LOST"]
  /\ UNCHANGED <<device, itsCurrentState, mutexes, flags, notices, cmuxReadyFlag>>

\* The second test, without a lock, some time after the first: in state
\* doneState there is nothing to do, otherwise the request is fed in.
CheckState(checkPc, doneState, doneReply, request) ==
  /\ \/ /\ itsCurrentState = doneState
        /\ GoTo("user", checkPc, "idle")
        /\ retVal' = doneReply
        /\ UNCHANGED event
     \/ /\ itsCurrentState # doneState
        /\ GoTo("user", checkPc, "tick")
        /\ event' = [event EXCEPT !["user"] = request]
        /\ UNCHANGED retVal
  /\ UNCHANGED <<device, itsCurrentState, mutexes, flags, notices, cmuxReadyFlag>>

Connect == CallMethod("DEVICE_UNAVAILABLE", "connectCheck")
ConnectCheck ==
  CheckState("connectCheck", "CONNECTED", "CONNECTED", "CONNECT_REQUEST")

Disconnect == CallMethod("DISCONNECTED", "disconnectCheck")
DisconnectCheck ==
  CheckState("disconnectCheck", "NO_CONNECTION", "DISCONNECTED", "DISCONNECT_REQUEST")

\* What the call answers once its tick has returned the state.  disconnect()
\* compares with CONNECTED too, so that a completed one is an error.
TickReply(ev, state) ==
  CASE ev = "CONNECT_REQUEST" /\ state = "CONNECTED" -> "CONNECTED"
    [] ev = "DISCONNECT_REQUEST" /\ state = "CONNECTED" -> "DISCONNECTED"
    [] OTHER -> retVal

\* Mutant: an early return without the unlock.
UserReturnsLocked ==
  /\ GoTo("user", "release", "idle")
  /\ retVal' = TickReply(event["user"], itsCurrentState)
  /\ UNCHANGED <<device, itsCurrentState, mutexes, flags, notices, event,
                 cmuxReadyFlag>>

UserReturns ==
  /\ GoTo("user", "release", "idle")
  /\ itsEventMutex' = Nobody
  /\ retVal' = TickReply(event["user"], itsCurrentState)
  /\ UNCHANGED <<device, itsCurrentState, itsMonitoringMutex, flags, notices,
                 event, cmuxReadyFlag>>

\* ~PppConnection().
Destroy ==
  /\ GoTo("user", "idle", "destroying")
  /\ UNCHANGED <<device, itsCurrentState, mutexes, flags, notices, event,
                 cmuxReadyFlag, retVal>>

PostTerminate ==
  /\ GoTo("user", "destroying", "joining")
  /\ itsMonitoringMutex = Nobody
  /\ terminate' = TRUE
  /\ UNCHANGED <<device, itsCurrentState, mutexes, isPowerMonitorOn, notices,
                 event, cmuxReadyFlag, retVal>>

\* Mutant: the thread is detached, not joined.
DetachMonitor ==
  /\ GoTo("user", "joining", "destroyed")
  /\ pppd' = FALSE
  /\ UNCHANGED <<cmuxReady, itsCurrentState, mutexes, flags, notices, event,
                 cmuxReadyFlag, retVal>>

\* join() returns, and the members are destroyed: ~PppEndpoint() kills pppd.
JoinMonitor ==
  /\ GoTo("user", "joining", "destroyed")
  /\ pc["monitor"] = "done"
  /\ pppd' = FALSE
  /\ UNCHANGED <<cmuxReady, itsCurrentState, mutexes, flags, notices, event,
                 cmuxReadyFlag, retVal>>

------------------------------------------------------------------------------
(* powerMonitorThread. *)

MonitorStarts ==
  /\ GoTo("monitor", "starting", "top")
  /\ cmuxReadyFlag' = HistoricalValue(cmuxReady)
  /\ UNCHANGED <<device, itsCurrentState, mutexes, flags, notices, event, retVal>>

\* wait_for() finds its predicate true: the monitor keeps the mutex.
MonitorPolls ==
  /\ GoTo("monitor", "top", "sampling")
  /\ itsMonitoringMutex = Nobody
  /\ isPowerMonitorOn \/ terminate
  /\ itsMonitoringMutex' = "monitor"
  /\ UNCHANGED <<device, itsCurrentState, itsEventMutex, flags, notices, event,
                 cmuxReadyFlag, retVal>>

\* The predicate is false: the monitor releases the mutex for up to a second.
MonitorWaits ==
  /\ GoTo("monitor", "top", "waiting")
  /\ itsMonitoringMutex = Nobody
  /\ ~(isPowerMonitorOn \/ terminate)
  /\ UNCHANGED <<device, itsCurrentState, mutexes, flags, notices, event,
                 cmuxReadyFlag, retVal>>

\* Mutant: wait() instead of wait_for(); nobody notifies, so it never returns.
MonitorNeverTimesOut == FALSE

\* Nobody notifies the condition variable.  After a second the monitor goes on,
\* whatever the predicate says: pausing it only makes it slower.
MonitorTimesOut ==
  /\ GoTo("monitor", "waiting", "sampling")
  /\ itsMonitoringMutex = Nobody
  /\ itsMonitoringMutex' = "monitor"
  /\ UNCHANGED <<device, itsCurrentState, itsEventMutex, flags, notices, event,
                 cmuxReadyFlag, retVal>>

\* Mutant: a paused monitor leaves the loop.
MonitorLeavesWhenPaused ==
  /\ GoTo("monitor", "sampling", "done")
  /\ terminate \/ ~isPowerMonitorOn
  /\ itsMonitoringMutex' = Nobody
  /\ UNCHANGED <<device, itsCurrentState, itsEventMutex, flags, notices, event,
                 cmuxReadyFlag, retVal>>

\* break out of the loop: the unique_lock releases the mutex.
MonitorLeaves ==
  /\ GoTo("monitor", "sampling", "done")
  /\ terminate
  /\ itsMonitoringMutex' = Nobody
  /\ UNCHANGED <<device, itsCurrentState, itsEventMutex, flags, notices, event,
                 cmuxReadyFlag, retVal>>

\* On an edge of the flag the monitor ticks, still owning itsMonitoringMutex.
MonitorSamples ==
  /\ ~terminate
  /\ cmuxReadyFlag' = SetValue(cmuxReadyFlag, cmuxReady)
  /\ \/ /\ HasChanged(cmuxReadyFlag')
        /\ GoTo("monitor", "sampling", "tick")
        /\ event' = [event EXCEPT !["monitor"] =
                       IF cmuxReady THEN "DEVICE_RESTORED" ELSE "DEVICE_LOST"]
        /\ UNCHANGED itsMonitoringMutex
     \/ /\ ~HasChanged(cmuxReadyFlag')
        /\ GoTo("monitor", "sampling", "top")
        /\ itsMonitoringMutex' = Nobody
        /\ UNCHANGED event
  /\ UNCHANGED <<device, itsCurrentState, itsEventMutex, flags, notices, retVal>>

\* The tick's lock_guard and then the loop's unique_lock go out of scope.
MonitorLoops ==
  /\ GoTo("monitor", "release", "top")
  /\ itsEventMutex' = Nobody
  /\ itsMonitoringMutex' = Nobody
  /\ UNCHANGED <<device, itsCurrentState, flags, notices, event, cmuxReadyFlag,
                 retVal>>

------------------------------------------------------------------------------
Environment == FlipCmuxReady \/ PppdDies

StateMachineTick(t) ==
  \/ Tick(t) \/ HandleEvent(t) \/ StartPowerMonitor(t) \/ PausePowerMonitor(t)
  \/ NotifyByCallback(t) \/ ClosePppd(t)

\* Steps inside a call, which the thread takes once it is scheduled.
UserSteps ==
  \/ StateMachineTick("user")
  \/ FinishConstruction
  \/ \E s \in Subscribers : RegisterUserCallback(s)
  \/ StartUsing \/ ConnectCheck \/ DisconnectCheck \/ UserReturns
  \/ PostTerminate \/ JoinMonitor

\* The calls, which the owner makes when it likes.
UserCalls == Connect \/ Disconnect \/ Destroy

MonitorSteps ==
  \/ StateMachineTick("monitor")
  \/ MonitorStarts \/ MonitorPolls \/ MonitorWaits \/ MonitorTimesOut
  \/ MonitorLeaves \/ MonitorSamples \/ MonitorLoops

Next == Environment \/ UserSteps \/ UserCalls \/ MonitorSteps

\* A runnable thread runs, wait_for() times out and open() returns (the chat
\* script has a time limit).  A mutex that is free again and again is obtained
\* in the end: the monitor, which spins over its mutex while isPowerMonitorOn,
\* is preempted wherever it is.
Fairness ==
  /\ SF_vars(UserSteps)
  /\ SF_vars(MonitorSteps)

Spec == Init /\ [][Next]_vars /\ Fairness

------------------------------------------------------------------------------
(* Properties. *)

TypeOK ==
  /\ cmuxReady \in BOOLEAN
  /\ pppd \in BOOLEAN
  /\ itsCurrentState \in State
  /\ itsEventMutex \in Thread \union {Nobody}
  /\ itsMonitoringMutex \in Thread \union {Nobody}
  /\ isPowerMonitorOn \in BOOLEAN
  /\ terminate \in BOOLEAN
  /\ callbackList \in SUBSET Subscribers
  /\ told \in [Subscribers -> NetworkStatus \union {NoStatus}]
  /\ status \in NetworkStatus \union {NoStatus}
  /\ event \in [Thread -> Event]
  /\ cmuxReadyFlag \in Historical(BOOLEAN)
  /\ retVal \in NetworkStatus
  /\ pc \in [Thread -> UserPc \union MonitorPc \union TickPc]

\* Whenever no tick is in progress, what each registered subscriber was last
\* told agrees with what queryStatus() would answer about being connected:
\* MqttProtocol publishes if and only if there is a connection, whichever
\* thread ran the last tick and however the ticks interleaved.
NotifiedMatchesState ==
  itsEventMutex = Nobody =>
    \A s \in callbackList :
      told[s] = "CONNECTED" <=> QueryStatus(itsCurrentState) = "CONNECTED"

\* The monitor polls the device every time round its loop, and has not ended but
\* for the destructor.
MonitorWatches ==
  isPowerMonitorOn /\ (pc["monitor"] # "done" \/ pc["user"] \in {"joining", "destroyed"})

\* If the monitor outlives the constructor, then from there on every connection is
\* watched until the destructor posts terminate: whenever no tick is in progress
\* the monitor is switched on and runs, whatever the ticks of both threads have
\* switched meanwhile.  The premise is what the code does not give: a monitor that
\* reads garbage in terminate, which is initialised after the thread has started,
\* may have ended by then, and every later connection goes unwatched.
WatchedWhileConnected ==
  [](pc["user"] = "registering" /\ pc["monitor"] # "done"
       => [](itsEventMutex = Nobody /\ itsCurrentState = "CONNECTED" => MonitorWatches))

\* Whenever no tick is in progress and the connection counts as lost, no pppd
\* is left running on a device that is gone.
LostMeansHungUp ==
  itsEventMutex = Nobody /\ itsCurrentState = "CONNECTION_LOST" => ~pppd

\* Once the destructor is over, the monitor thread has ended outside of every
\* tick, both mutexes are free and pppd is down: nothing uses the freed object.
DestroyedQuiescent ==
  pc["user"] = "destroyed" =>
    /\ pc["monitor"] = "done"
    /\ itsEventMutex = Nobody
    /\ itsMonitoringMutex = Nobody
    /\ ~pppd

\* The monitor thread ends only for the destructor, or in the constructor, where
\* it may read a terminate that is not initialised yet: while the object is in
\* use nothing, a pause included, ends the watch over the device.
MonitorOutlivesUse ==
  [][pc["monitor"] # "done" /\ pc'["monitor"] = "done"
       => pc["user"] \in {"constructing", "joining"}]_vars

\* A lost connection never becomes connected in one step: DEVICE_RESTORED does
\* not bring it back (startPowerMonitor waits for the mutex its own thread
\* owns), and CONNECT_REQUEST is refused.
LostNeverReconnectsDirectly ==
  [][itsCurrentState = "CONNECTION_LOST" => itsCurrentState' # "CONNECTED"]_vars

\* When connect() answers CONNECTED, every subscriber has been told so: the sink
\* that goes on to MQTT finds the protocol ready.  The test of itsCurrentState
\* takes no lock, so this rests on no other thread making the state CONNECTED
\* before its subscribers know.
ConnectAnswersAfterNotice ==
  [][pc["user"] \in {"connectCheck", "release"} /\ pc'["user"] = "idle"
       /\ retVal' = "CONNECTED"
     => \A s \in Subscribers : told[s] = "CONNECTED"]_vars

\* A destructor that has posted terminate comes to its end, whatever the
\* monitor was doing.
TerminatedJoins == pc["user"] = "joining" ~> pc["user"] = "destroyed"

\* The user thread is inside connect(), disconnect() or the destructor.
InCall ==
  pc["user"] \in TickPc \union {"connectCheck", "disconnectCheck", "destroying", "joining"}

\* As long as the device neither comes nor goes, connect(), disconnect() and the
\* destructor return: only an edge of the flag can hang the sink.
CallsReturnWhileDeviceStable ==
  ([]cmuxReady \/ []~cmuxReady)
    => (InCall ~> pc["user"] \in {"idle", "destroyed"})

\* The threads that t waits for: the owner of the mutex it is about to lock, or
\* the thread it joins.
WaitsFor(t) ==
  {u \in Thread :
     \/ pc[t] = "tick" /\ itsEventMutex = u
     \/ /\ pc[t] \in {"startPowerMonitor", "pausePowerMonitor", "destroying", "top", "waiting"}
        /\ itsMonitoringMutex = u
     \/ t = "user" /\ u = "monitor" /\ pc["user"] = "joining" /\ pc["monitor"] # "done"}

\* Some threads wait for each other, or one for itself: none of them goes on.
Hung == \E S \in SUBSET Thread : S # {} /\ \A t \in S : WaitsFor(t) \cap S # {}

\* The two mutexes and the join hang the threads in two ways and no other, both
\* of them in a tick of the monitor: it restores the connection and waits for its
\* own mutex, or it meets the tick of a connect or a disconnect that waits for
\* the monitor's.  No other order of calls, samples and destruction hangs a thread.
HangsInMonitorTickOnly ==
  Hung <=> \/ pc["monitor"] = "startPowerMonitor"
           \/ pc["monitor"] = "tick" /\ pc["user"] \in {"startPowerMonitor", "pausePowerMonitor"}

\* As long as the device neither comes nor goes nothing hangs: the history of the
\* flag starts with the flag itself, so that the first sample is no edge.
StableDeviceNeverHangs == ([]cmuxReady \/ []~cmuxReady) => []~Hung

\* When the device goes for good while its owner makes no call and the monitor
\* has sampled it as present, the monitor reports the loss.
SampledLossIsReported ==
  (/\ itsCurrentState = "CONNECTED" /\ pc["user"] = "idle"
   /\ cmuxReadyFlag.now /\ pc["monitor"] \in {"top", "waiting", "sampling"}
   /\ ~cmuxReady)
  ~> \/ itsCurrentState = "CONNECTION_LOST" \/ cmuxReady \/ pc["user"] # "idle"

\* What the log lines "PPP connection has been established" and "PPP connection
\* restored" report is reached: a tick that has opened the endpoint, of a connect()
\* or of the monitor when the device is back, gets past startPowerMonitor.
OpenedTickCompletes ==
  \A t \in Thread : pc[t] = "startPowerMonitor" ~> pc[t] # "startPowerMonitor"

------------------------------------------------------------------------------
(* The provider's promise. *)

\* The owner is inside connect(), or inside disconnect().
InConnect ==
  \/ pc["user"] = "connectCheck"
  \/ pc["user"] \in TickPc
       /\ (event["user"] = "CONNECT_REQUEST" \/ retVal = "DEVICE_UNAVAILABLE")
InDisconnect == pc["user"] \in TickPc \union {"disconnectCheck"} /\ ~InConnect

Call == IF InConnect THEN "connect" ELSE IF InDisconnect THEN "disconnect" ELSE "none"

Provider(s) ==
  INSTANCE NetworkProvider WITH told <- told[s], call <- Call,
             answer <- IF Call = "none" THEN retVal ELSE NoStatus

\* To every subscriber, the connection keeps the promise of a NetworkProvider:
\* what its owner is answered and what the callbacks hear fit together, however
\* the owner's ticks and the monitor's interleave.
ImplementsProvider ==
  /\ \A s \in Subscribers : Provider(s)!ProviderInit
  /\ [][\A s \in Subscribers : [Provider(s)!ProviderNext]_(Provider(s)!providerVars)]_vars
==============================================================================
