------------------------ MODULE PppConnectionProofs ------------------------
(***************************************************************************)
(* Proofs of the safety properties of PppConnection, for any set of        *)
(* subscribers and any garbage in the uninitialised atomics.               *)
(*                                                                         *)
(* Everything rests on who owns the two mutexes (Owners): in particular    *)
(* the monitor owns itsMonitoringMutex during its ticks, so that it never  *)
(* completes a startPowerMonitor, and only the user makes the state        *)
(* CONNECTED.  The same fact tells which waits can close a circle.         *)
(***************************************************************************)
EXTENDS PppConnection, TLAPS

\* The places where a thread owns itsEventMutex.
Ticking == TickPc \ {"tick"}

Owners ==
  /\ pc["user"] \in UserPc \union TickPc
  /\ pc["monitor"] \in MonitorPc \union (TickPc \ {"pausePowerMonitor", "closing"})
  /\ \A t \in Thread : itsEventMutex = t <=> pc[t] \in Ticking
  /\ itsMonitoringMutex = "monitor" <=> pc["monitor"] \in TickPc \union {"sampling"}
  /\ itsMonitoringMutex # "user"

\* Which thread feeds which event.
Feeds ==
  /\ event["user"] # "DEVICE_RESTORED"
  /\ event["monitor"] \in {"DEVICE_LOST", "DEVICE_RESTORED"}

\* Before the object is in use there is no connection.
Registration ==
  /\ pc["user"] \in {"constructing", "registering"} => itsCurrentState # "CONNECTED"
  /\ pc["user"] \in {"constructing", "registering"} \/ callbackList = Subscribers
  /\ \A s \in Subscribers \ callbackList : told[s] = NoStatus

Agreement ==
  \A s \in callbackList : told[s] = "CONNECTED" <=> itsCurrentState = "CONNECTED"

\* Only the user's ticks come between a new connection and its announcement.
Notices ==
  /\ pc["user"] = "startPowerMonitor" => itsCurrentState = "CONNECTED"
  /\ pc["user"] = "notify" => (status = "CONNECTED" <=> itsCurrentState = "CONNECTED")
  /\ pc["monitor"] = "notify" => status # "CONNECTED" /\ itsCurrentState # "CONNECTED"
  /\ \/ pc["user"] \in {"startPowerMonitor", "notify"}
     \/ pc["monitor"] = "notify"
     \/ Agreement

Watch ==
  itsCurrentState = "CONNECTED" => isPowerMonitorOn \/ pc["user"] = "startPowerMonitor"

HungUp ==
  itsCurrentState = "CONNECTION_LOST" /\ pppd => pc["monitor"] = "startPowerMonitor"

Destruction == pc["user"] = "destroyed" => pc["monitor"] = "done" /\ ~pppd

\* A call in progress has not decided to answer CONNECTED.
Reply ==
  pc["user"] \in TickPc \union {"connectCheck", "disconnectCheck"} => retVal # "CONNECTED"

IInv ==
  /\ TypeOK
  /\ Owners
  /\ Feeds
  /\ Registration
  /\ Notices
  /\ Watch
  /\ HungUp
  /\ Destruction
  /\ Reply

------------------------------------------------------------------------------
\* The object under construction.
LEMMA InitIInv == Init => IInv
<1> SUFFICES ASSUME Init PROVE IInv
  OBVIOUS
<1> USE StackGarbageAssumption DEF Init
<1>1. TypeOK
  BY DEF TypeOK, State, Event, NetworkStatus, NoStatus, Thread, Nobody, UserPc, MonitorPc,
         TickPc, Historical, HistoricalValue
<1>2. Owners
  BY DEF Owners, Ticking, Thread, Nobody, UserPc, MonitorPc, TickPc
<1>3. Feeds /\ Registration /\ Watch /\ HungUp
  BY DEF Feeds, Registration, Watch, HungUp, NoStatus, Thread
<1>4. Notices /\ Destruction /\ Reply
  BY DEF Notices, Agreement, Destruction, Reply, TickPc, Thread
<1> QED
  BY <1>1, <1>2, <1>3, <1>4 DEF IInv

\* Every step preserves the types.
LEMMA NextTypeOK == TypeOK /\ [Next]_vars => TypeOK'
<1> SUFFICES ASSUME TypeOK, [Next]_vars PROVE TypeOK'
  OBVIOUS
<1> USE DEF TypeOK, GoTo, device, mutexes, flags, notices, Thread, Nobody,
            State, Event, NetworkStatus, NoStatus, UserPc, MonitorPc, TickPc
<1>1. ASSUME FlipCmuxReady PROVE TypeOK'
  BY <1>1 DEF FlipCmuxReady
<1>2. ASSUME PppdDies PROVE TypeOK'
  <2>1. pppd' \in BOOLEAN
    BY <1>2, Zenon DEF PppdDies
  <2>2. UNCHANGED <<cmuxReady, itsCurrentState, mutexes, flags, notices, event, cmuxReadyFlag, retVal>>
         /\ UNCHANGED pc
    BY <1>2 DEF PppdDies
  <2> QED
    BY <2>1, <2>2
<1>3. ASSUME NEW t \in Thread, Tick(t) PROVE TypeOK'
  BY <1>3 DEF Tick
<1>4. ASSUME NEW t \in Thread, RefuseConnect(t), HandleEvent(t) PROVE TypeOK'
  BY <1>4 DEF RefuseConnect, HandleEvent
<1>5. ASSUME NEW t \in Thread, ConnectOpened(t), HandleEvent(t) PROVE TypeOK'
  BY <1>5 DEF ConnectOpened, OpenSucceeds, HandleEvent
<1>6. ASSUME NEW t \in Thread, OpenFailed(t), HandleEvent(t) PROVE TypeOK'
  BY <1>6 DEF OpenFailed, OpenFails, HandleEvent
<1>7. ASSUME NEW t \in Thread, RestoreOpened(t), HandleEvent(t) PROVE TypeOK'
  BY <1>7 DEF RestoreOpened, OpenSucceeds, HandleEvent
<1>8. ASSUME NEW t \in Thread, HandleDisconnect(t), HandleEvent(t) PROVE TypeOK'
  BY <1>8 DEF HandleDisconnect, HandleEvent
<1>9. ASSUME NEW t \in Thread, HandleDeviceLost(t), HandleEvent(t) PROVE TypeOK'
  BY <1>9 DEF HandleDeviceLost, HandleEvent
<1>10. ASSUME NEW t \in Thread, StartPowerMonitor(t) PROVE TypeOK'
  BY <1>10 DEF StartPowerMonitor
<1>11. ASSUME NEW t \in Thread, PausePowerMonitor(t) PROVE TypeOK'
  BY <1>11 DEF PausePowerMonitor
<1>12. ASSUME NEW t \in Thread, NotifyByCallback(t) PROVE TypeOK'
  BY <1>12 DEF NotifyByCallback
<1>13. ASSUME NEW t \in Thread, ClosePppd(t) PROVE TypeOK'
  <2>1. pppd' \in BOOLEAN
    BY <1>13, Zenon DEF ClosePppd
  <2>2. UNCHANGED <<cmuxReady, itsCurrentState, mutexes, flags, notices, event, cmuxReadyFlag, retVal>> /\ GoTo(t, "closing", "release")
    BY <1>13 DEF ClosePppd
  <2> QED
    BY <2>1, <2>2
<1>14. ASSUME FinishConstruction PROVE TypeOK'
  <2>1. isPowerMonitorOn' \in BOOLEAN
    BY <1>14, Zenon DEF FinishConstruction
  <2>2. terminate' \in BOOLEAN
    BY <1>14, Zenon DEF FinishConstruction
  <2>3. UNCHANGED <<cmuxReady, itsCurrentState, mutexes, pppd, notices, event, cmuxReadyFlag, retVal>> /\ GoTo("user", "constructing", "registering")
    BY <1>14 DEF FinishConstruction
  <2> QED
    BY <2>1, <2>2, <2>3
<1>15. ASSUME NEW s \in Subscribers, RegisterUserCallback(s) PROVE TypeOK'
  BY <1>15 DEF RegisterUserCallback
<1>16. ASSUME StartUsing PROVE TypeOK'
  BY <1>16 DEF StartUsing
<1>17. ASSUME Connect PROVE TypeOK'
  BY <1>17 DEF Connect, CallMethod
<1>18. ASSUME ConnectCheck PROVE TypeOK'
  BY <1>18 DEF ConnectCheck, CheckState
<1>19. ASSUME Disconnect PROVE TypeOK'
  BY <1>19 DEF Disconnect, CallMethod
<1>20. ASSUME DisconnectCheck PROVE TypeOK'
  BY <1>20 DEF DisconnectCheck, CheckState
<1>21. ASSUME UserReturns PROVE TypeOK'
  BY <1>21 DEF UserReturns, TickReply
<1>22. ASSUME Destroy PROVE TypeOK'
  BY <1>22 DEF Destroy
<1>23. ASSUME PostTerminate PROVE TypeOK'
  BY <1>23 DEF PostTerminate
<1>24. ASSUME JoinMonitor PROVE TypeOK'
  <2>1. pppd' \in BOOLEAN
    BY <1>24, Zenon DEF JoinMonitor
  <2>2. UNCHANGED <<cmuxReady, itsCurrentState, mutexes, flags, notices, event, cmuxReadyFlag, retVal>> /\ GoTo("user", "joining", "destroyed")
    BY <1>24 DEF JoinMonitor
  <2> QED
    BY <2>1, <2>2
<1>25. ASSUME MonitorStarts PROVE TypeOK'
  BY <1>25 DEF MonitorStarts, Historical, HistoricalValue
<1>26. ASSUME MonitorPolls PROVE TypeOK'
  BY <1>26 DEF MonitorPolls
<1>27. ASSUME MonitorWaits PROVE TypeOK'
  BY <1>27 DEF MonitorWaits
<1>28. ASSUME MonitorTimesOut PROVE TypeOK'
  BY <1>28 DEF MonitorTimesOut
<1>29. ASSUME MonitorLeaves PROVE TypeOK'
  BY <1>29 DEF MonitorLeaves
<1>30. ASSUME MonitorSamples PROVE TypeOK'
  BY <1>30 DEF MonitorSamples, Historical, SetValue
<1>31. ASSUME MonitorLoops PROVE TypeOK'
  BY <1>31 DEF MonitorLoops
<1>32. CASE UNCHANGED vars
  BY <1>32 DEF vars
<1> QED
  BY <1>1, <1>2, <1>3, <1>4, <1>5, <1>6, <1>7, <1>8, <1>9, <1>10, <1>11, <1>12, <1>13, <1>14,
     <1>15, <1>16, <1>17, <1>18, <1>19, <1>20, <1>21, <1>22, <1>23, <1>24, <1>25, <1>26, <1>27, <1>28,
     <1>29, <1>30, <1>31, <1>32
  DEF Next, Environment, UserSteps, UserCalls, MonitorSteps, StateMachineTick, HandleEvent

\* Every step preserves the ownership of the mutexes: a thread takes one only
\* where it is free and gives it back only where it owns it.
LEMMA NextOwners == (TypeOK /\ Owners /\ Feeds) /\ [Next]_vars => (Owners /\ Feeds)'
<1> SUFFICES ASSUME (TypeOK /\ Owners /\ Feeds), [Next]_vars PROVE (Owners /\ Feeds)'
  OBVIOUS
<1> USE DEF TypeOK, Owners, Feeds, Ticking, GoTo, device, mutexes, flags, notices,
            Thread, Nobody, UserPc, MonitorPc, TickPc
<1>1. ASSUME FlipCmuxReady PROVE (Owners /\ Feeds)'
  BY <1>1 DEF FlipCmuxReady
<1>2. ASSUME PppdDies PROVE (Owners /\ Feeds)'
  BY <1>2 DEF PppdDies
<1>3. ASSUME NEW t \in Thread, Tick(t) PROVE (Owners /\ Feeds)'
  BY <1>3 DEF Tick
<1>4. ASSUME NEW t \in Thread, RefuseConnect(t), HandleEvent(t) PROVE (Owners /\ Feeds)'
  BY <1>4 DEF RefuseConnect, HandleEvent
<1>5. ASSUME NEW t \in Thread, ConnectOpened(t), HandleEvent(t) PROVE (Owners /\ Feeds)'
  BY <1>5 DEF ConnectOpened, OpenSucceeds, HandleEvent
<1>6. ASSUME NEW t \in Thread, OpenFailed(t), HandleEvent(t) PROVE (Owners /\ Feeds)'
  BY <1>6 DEF OpenFailed, OpenFails, HandleEvent
<1>7. ASSUME NEW t \in Thread, RestoreOpened(t), HandleEvent(t) PROVE (Owners /\ Feeds)'
  BY <1>7 DEF RestoreOpened, OpenSucceeds, HandleEvent
<1>8. ASSUME NEW t \in Thread, HandleDisconnect(t), HandleEvent(t) PROVE (Owners /\ Feeds)'
  BY <1>8 DEF HandleDisconnect, HandleEvent
<1>9. ASSUME NEW t \in Thread, HandleDeviceLost(t), HandleEvent(t) PROVE (Owners /\ Feeds)'
  BY <1>9 DEF HandleDeviceLost, HandleEvent
<1>10. ASSUME NEW t \in Thread, StartPowerMonitor(t) PROVE (Owners /\ Feeds)'
  BY <1>10 DEF StartPowerMonitor
<1>11. ASSUME NEW t \in Thread, PausePowerMonitor(t) PROVE (Owners /\ Feeds)'
  BY <1>11 DEF PausePowerMonitor
<1>12. ASSUME NEW t \in Thread, NotifyByCallback(t) PROVE (Owners /\ Feeds)'
  BY <1>12 DEF NotifyByCallback
<1>13. ASSUME NEW t \in Thread, ClosePppd(t) PROVE (Owners /\ Feeds)'
  BY <1>13 DEF ClosePppd
<1>14. ASSUME FinishConstruction PROVE (Owners /\ Feeds)'
  BY <1>14 DEF FinishConstruction
<1>15. ASSUME NEW s \in Subscribers, RegisterUserCallback(s) PROVE (Owners /\ Feeds)'
  BY <1>15 DEF RegisterUserCallback
<1>16. ASSUME StartUsing PROVE (Owners /\ Feeds)'
  BY <1>16 DEF StartUsing
<1>17. ASSUME Connect PROVE (Owners /\ Feeds)'
  BY <1>17 DEF Connect, CallMethod
<1>18. ASSUME ConnectCheck PROVE (Owners /\ Feeds)'
  BY <1>18 DEF ConnectCheck, CheckState
<1>19. ASSUME Disconnect PROVE (Owners /\ Feeds)'
  BY <1>19 DEF Disconnect, CallMethod
<1>20. ASSUME DisconnectCheck PROVE (Owners /\ Feeds)'
  BY <1>20 DEF DisconnectCheck, CheckState
<1>21. ASSUME UserReturns PROVE (Owners /\ Feeds)'
  BY <1>21 DEF UserReturns, TickReply
<1>22. ASSUME Destroy PROVE (Owners /\ Feeds)'
  BY <1>22 DEF Destroy
<1>23. ASSUME PostTerminate PROVE (Owners /\ Feeds)'
  BY <1>23 DEF PostTerminate
<1>24. ASSUME JoinMonitor PROVE (Owners /\ Feeds)'
  BY <1>24 DEF JoinMonitor
<1>25. ASSUME MonitorStarts PROVE (Owners /\ Feeds)'
  BY <1>25 DEF MonitorStarts
<1>26. ASSUME MonitorPolls PROVE (Owners /\ Feeds)'
  BY <1>26 DEF MonitorPolls
<1>27. ASSUME MonitorWaits PROVE (Owners /\ Feeds)'
  BY <1>27 DEF MonitorWaits
<1>28. ASSUME MonitorTimesOut PROVE (Owners /\ Feeds)'
  BY <1>28 DEF MonitorTimesOut
<1>29. ASSUME MonitorLeaves PROVE (Owners /\ Feeds)'
  BY <1>29 DEF MonitorLeaves
<1>30. ASSUME MonitorSamples PROVE (Owners /\ Feeds)'
  BY <1>30 DEF MonitorSamples, HasChanged
<1>31. ASSUME MonitorLoops PROVE (Owners /\ Feeds)'
  BY <1>31 DEF MonitorLoops
<1>32. CASE UNCHANGED vars
  BY <1>32 DEF vars
<1> QED
  BY <1>1, <1>2, <1>3, <1>4, <1>5, <1>6, <1>7, <1>8, <1>9, <1>10, <1>11, <1>12, <1>13, <1>14,
     <1>15, <1>16, <1>17, <1>18, <1>19, <1>20, <1>21, <1>22, <1>23, <1>24, <1>25, <1>26, <1>27, <1>28,
     <1>29, <1>30, <1>31, <1>32
  DEF Next, Environment, UserSteps, UserCalls, MonitorSteps, StateMachineTick, HandleEvent

\* Every step preserves what is known of calls, registration and destruction.
LEMMA NextCalls == (TypeOK /\ Owners /\ Feeds /\ Registration /\ Destruction /\ Reply) /\ [Next]_vars => (Registration /\ Destruction /\ Reply)'
<1> SUFFICES ASSUME (TypeOK /\ Owners /\ Feeds /\ Registration /\ Destruction /\ Reply), [Next]_vars PROVE (Registration /\ Destruction /\ Reply)'
  OBVIOUS
<1> USE DEF TypeOK, Owners, Feeds, Registration, Destruction, Reply, Ticking, GoTo,
            device, mutexes, flags, notices, Thread, Nobody, NoStatus, UserPc, MonitorPc, TickPc
<1>1. ASSUME FlipCmuxReady PROVE (Registration /\ Destruction /\ Reply)'
  BY <1>1 DEF FlipCmuxReady
<1>2. ASSUME PppdDies PROVE (Registration /\ Destruction /\ Reply)'
  BY <1>2 DEF PppdDies
<1>3. ASSUME NEW t \in Thread, Tick(t) PROVE (Registration /\ Destruction /\ Reply)'
  BY <1>3 DEF Tick
<1>4. ASSUME NEW t \in Thread, RefuseConnect(t), HandleEvent(t) PROVE (Registration /\ Destruction /\ Reply)'
  BY <1>4 DEF RefuseConnect, HandleEvent
<1>5. ASSUME NEW t \in Thread, ConnectOpened(t), HandleEvent(t) PROVE (Registration /\ Destruction /\ Reply)'
  BY <1>5 DEF ConnectOpened, OpenSucceeds, HandleEvent
<1>6. ASSUME NEW t \in Thread, OpenFailed(t), HandleEvent(t) PROVE (Registration /\ Destruction /\ Reply)'
  BY <1>6 DEF OpenFailed, OpenFails, HandleEvent
<1>7. ASSUME NEW t \in Thread, RestoreOpened(t), HandleEvent(t) PROVE (Registration /\ Destruction /\ Reply)'
  BY <1>7 DEF RestoreOpened, OpenSucceeds, HandleEvent
<1>8. ASSUME NEW t \in Thread, HandleDisconnect(t), HandleEvent(t) PROVE (Registration /\ Destruction /\ Reply)'
  BY <1>8 DEF HandleDisconnect, HandleEvent
<1>9. ASSUME NEW t \in Thread, HandleDeviceLost(t), HandleEvent(t) PROVE (Registration /\ Destruction /\ Reply)'
  BY <1>9 DEF HandleDeviceLost, HandleEvent
<1>10. ASSUME NEW t \in Thread, StartPowerMonitor(t) PROVE (Registration /\ Destruction /\ Reply)'
  BY <1>10 DEF StartPowerMonitor
<1>11. ASSUME NEW t \in Thread, PausePowerMonitor(t) PROVE (Registration /\ Destruction /\ Reply)'
  BY <1>11 DEF PausePowerMonitor
<1>12. ASSUME NEW t \in Thread, NotifyByCallback(t) PROVE (Registration /\ Destruction /\ Reply)'
  BY <1>12 DEF NotifyByCallback
<1>13. ASSUME NEW t \in Thread, ClosePppd(t) PROVE (Registration /\ Destruction /\ Reply)'
  BY <1>13 DEF ClosePppd
<1>14. ASSUME FinishConstruction PROVE (Registration /\ Destruction /\ Reply)'
  BY <1>14 DEF FinishConstruction
<1>15. ASSUME NEW s \in Subscribers, RegisterUserCallback(s) PROVE (Registration /\ Destruction /\ Reply)'
  BY <1>15 DEF RegisterUserCallback
<1>16. ASSUME StartUsing PROVE (Registration /\ Destruction /\ Reply)'
  BY <1>16 DEF StartUsing
<1>17. ASSUME Connect PROVE (Registration /\ Destruction /\ Reply)'
  BY <1>17 DEF Connect, CallMethod
<1>18. ASSUME ConnectCheck PROVE (Registration /\ Destruction /\ Reply)'
  BY <1>18 DEF ConnectCheck, CheckState
<1>19. ASSUME Disconnect PROVE (Registration /\ Destruction /\ Reply)'
  BY <1>19 DEF Disconnect, CallMethod
<1>20. ASSUME DisconnectCheck PROVE (Registration /\ Destruction /\ Reply)'
  BY <1>20 DEF DisconnectCheck, CheckState
<1>21. ASSUME UserReturns PROVE (Registration /\ Destruction /\ Reply)'
  BY <1>21 DEF UserReturns, TickReply
<1>22. ASSUME Destroy PROVE (Registration /\ Destruction /\ Reply)'
  BY <1>22 DEF Destroy
<1>23. ASSUME PostTerminate PROVE (Registration /\ Destruction /\ Reply)'
  BY <1>23 DEF PostTerminate
<1>24. ASSUME JoinMonitor PROVE (Registration /\ Destruction /\ Reply)'
  BY <1>24 DEF JoinMonitor
<1>25. ASSUME MonitorStarts PROVE (Registration /\ Destruction /\ Reply)'
  BY <1>25 DEF MonitorStarts
<1>26. ASSUME MonitorPolls PROVE (Registration /\ Destruction /\ Reply)'
  BY <1>26 DEF MonitorPolls
<1>27. ASSUME MonitorWaits PROVE (Registration /\ Destruction /\ Reply)'
  BY <1>27 DEF MonitorWaits
<1>28. ASSUME MonitorTimesOut PROVE (Registration /\ Destruction /\ Reply)'
  BY <1>28 DEF MonitorTimesOut
<1>29. ASSUME MonitorLeaves PROVE (Registration /\ Destruction /\ Reply)'
  BY <1>29 DEF MonitorLeaves
<1>30. ASSUME MonitorSamples PROVE (Registration /\ Destruction /\ Reply)'
  BY <1>30 DEF MonitorSamples, HasChanged
<1>31. ASSUME MonitorLoops PROVE (Registration /\ Destruction /\ Reply)'
  BY <1>31 DEF MonitorLoops
<1>32. CASE UNCHANGED vars
  BY <1>32 DEF vars
<1> QED
  BY <1>1, <1>2, <1>3, <1>4, <1>5, <1>6, <1>7, <1>8, <1>9, <1>10, <1>11, <1>12, <1>13, <1>14,
     <1>15, <1>16, <1>17, <1>18, <1>19, <1>20, <1>21, <1>22, <1>23, <1>24, <1>25, <1>26, <1>27, <1>28,
     <1>29, <1>30, <1>31, <1>32
  DEF Next, Environment, UserSteps, UserCalls, MonitorSteps, StateMachineTick, HandleEvent

\* Every step preserves the agreement of the state with the subscribers, the
\* power monitor and pppd.
LEMMA NextConnection == (TypeOK /\ Owners /\ Feeds /\ Registration /\ Notices /\ Watch /\ HungUp) /\ [Next]_vars => (Notices /\ Watch /\ HungUp)'
<1> SUFFICES ASSUME (TypeOK /\ Owners /\ Feeds /\ Registration /\ Notices /\ Watch /\ HungUp), [Next]_vars PROVE (Notices /\ Watch /\ HungUp)'
  OBVIOUS
<1> USE DEF TypeOK, Owners, Feeds, Registration, Notices, Agreement, Watch, HungUp, Ticking, GoTo,
            device, mutexes, flags, notices, Thread, Nobody, NoStatus, UserPc, MonitorPc, TickPc
<1>1. ASSUME FlipCmuxReady PROVE (Notices /\ Watch /\ HungUp)'
  BY <1>1 DEF FlipCmuxReady
<1>2. ASSUME PppdDies PROVE (Notices /\ Watch /\ HungUp)'
  BY <1>2 DEF PppdDies
<1>3. ASSUME NEW t \in Thread, Tick(t) PROVE (Notices /\ Watch /\ HungUp)'
  BY <1>3 DEF Tick
<1>4. ASSUME NEW t \in Thread, RefuseConnect(t), HandleEvent(t) PROVE (Notices /\ Watch /\ HungUp)'
  BY <1>4 DEF RefuseConnect, HandleEvent
<1>5. ASSUME NEW t \in Thread, ConnectOpened(t), HandleEvent(t) PROVE (Notices /\ Watch /\ HungUp)'
  BY <1>5 DEF ConnectOpened, OpenSucceeds, HandleEvent
<1>6. ASSUME NEW t \in Thread, OpenFailed(t), HandleEvent(t) PROVE (Notices /\ Watch /\ HungUp)'
  BY <1>6 DEF OpenFailed, OpenFails, HandleEvent
<1>7. ASSUME NEW t \in Thread, RestoreOpened(t), HandleEvent(t) PROVE (Notices /\ Watch /\ HungUp)'
  BY <1>7 DEF RestoreOpened, OpenSucceeds, HandleEvent
<1>8. ASSUME NEW t \in Thread, HandleDisconnect(t), HandleEvent(t) PROVE (Notices /\ Watch /\ HungUp)'
  BY <1>8 DEF HandleDisconnect, HandleEvent
<1>9. ASSUME NEW t \in Thread, HandleDeviceLost(t), HandleEvent(t) PROVE (Notices /\ Watch /\ HungUp)'
  BY <1>9 DEF HandleDeviceLost, HandleEvent
<1>10. ASSUME NEW t \in Thread, StartPowerMonitor(t) PROVE (Notices /\ Watch /\ HungUp)'
  BY <1>10 DEF StartPowerMonitor
<1>11. ASSUME NEW t \in Thread, PausePowerMonitor(t) PROVE (Notices /\ Watch /\ HungUp)'
  BY <1>11 DEF PausePowerMonitor
<1>12. ASSUME NEW t \in Thread, NotifyByCallback(t) PROVE (Notices /\ Watch /\ HungUp)'
  BY <1>12 DEF NotifyByCallback
<1>13. ASSUME NEW t \in Thread, ClosePppd(t) PROVE (Notices /\ Watch /\ HungUp)'
  BY <1>13 DEF ClosePppd
<1>14. ASSUME FinishConstruction PROVE (Notices /\ Watch /\ HungUp)'
  BY <1>14 DEF FinishConstruction
<1>15. ASSUME NEW s \in Subscribers, RegisterUserCallback(s) PROVE (Notices /\ Watch /\ HungUp)'
  BY <1>15 DEF RegisterUserCallback
<1>16. ASSUME StartUsing PROVE (Notices /\ Watch /\ HungUp)'
  BY <1>16 DEF StartUsing
<1>17. ASSUME Connect PROVE (Notices /\ Watch /\ HungUp)'
  BY <1>17 DEF Connect, CallMethod
<1>18. ASSUME ConnectCheck PROVE (Notices /\ Watch /\ HungUp)'
  BY <1>18 DEF ConnectCheck, CheckState
<1>19. ASSUME Disconnect PROVE (Notices /\ Watch /\ HungUp)'
  BY <1>19 DEF Disconnect, CallMethod
<1>20. ASSUME DisconnectCheck PROVE (Notices /\ Watch /\ HungUp)'
  BY <1>20 DEF DisconnectCheck, CheckState
<1>21. ASSUME UserReturns PROVE (Notices /\ Watch /\ HungUp)'
  BY <1>21 DEF UserReturns, TickReply
<1>22. ASSUME Destroy PROVE (Notices /\ Watch /\ HungUp)'
  BY <1>22 DEF Destroy
<1>23. ASSUME PostTerminate PROVE (Notices /\ Watch /\ HungUp)'
  BY <1>23 DEF PostTerminate
<1>24. ASSUME JoinMonitor PROVE (Notices /\ Watch /\ HungUp)'
  BY <1>24 DEF JoinMonitor
<1>25. ASSUME MonitorStarts PROVE (Notices /\ Watch /\ HungUp)'
  BY <1>25 DEF MonitorStarts
<1>26. ASSUME MonitorPolls PROVE (Notices /\ Watch /\ HungUp)'
  BY <1>26 DEF MonitorPolls
<1>27. ASSUME MonitorWaits PROVE (Notices /\ Watch /\ HungUp)'
  BY <1>27 DEF MonitorWaits
<1>28. ASSUME MonitorTimesOut PROVE (Notices /\ Watch /\ HungUp)'
  BY <1>28 DEF MonitorTimesOut
<1>29. ASSUME MonitorLeaves PROVE (Notices /\ Watch /\ HungUp)'
  BY <1>29 DEF MonitorLeaves
<1>30. ASSUME MonitorSamples PROVE (Notices /\ Watch /\ HungUp)'
  BY <1>30 DEF MonitorSamples, HasChanged
<1>31. ASSUME MonitorLoops PROVE (Notices /\ Watch /\ HungUp)'
  BY <1>31 DEF MonitorLoops
<1>32. CASE UNCHANGED vars
  BY <1>32 DEF vars
<1> QED
  BY <1>1, <1>2, <1>3, <1>4, <1>5, <1>6, <1>7, <1>8, <1>9, <1>10, <1>11, <1>12, <1>13, <1>14,
     <1>15, <1>16, <1>17, <1>18, <1>19, <1>20, <1>21, <1>22, <1>23, <1>24, <1>25, <1>26, <1>27, <1>28,
     <1>29, <1>30, <1>31, <1>32
  DEF Next, Environment, UserSteps, UserCalls, MonitorSteps, StateMachineTick, HandleEvent

\* The invariant holds in every state of every behaviour.
THEOREM Inductive == Spec => []IInv
<1>1. IInv /\ [Next]_vars => IInv'
  BY NextTypeOK, NextOwners, NextCalls, NextConnection DEF IInv
<1> QED
  BY InitIInv, <1>1, PTL DEF Spec

\* Every variable keeps its type.
THEOREM TypeCorrect == Spec => []TypeOK
<1>1. IInv => TypeOK
  BY DEF IInv
<1> QED
  BY Inductive, <1>1, PTL

\* queryStatus() answers CONNECTED in the state CONNECTED and in no other.
LEMMA QueryStatusConnected ==
  ASSUME NEW state \in State
  PROVE  QueryStatus(state) = "CONNECTED" <=> state = "CONNECTED"
BY DEF QueryStatus, State

\* Between ticks the subscribers agree with queryStatus() (notifyByCallback).
THEOREM NotifiedMatches == Spec => []NotifiedMatchesState
<1>1. IInv => NotifiedMatchesState
  <2> SUFFICES ASSUME IInv, itsEventMutex = Nobody, NEW s \in callbackList
               PROVE  told[s] = "CONNECTED" <=> QueryStatus(itsCurrentState) = "CONNECTED"
    BY DEF NotifiedMatchesState
  <2>1. pc["user"] \notin Ticking /\ pc["monitor"] \notin Ticking
    BY DEF IInv, Owners, Thread, Nobody
  <2>2. Agreement
    BY <2>1 DEF IInv, Notices, Ticking, TickPc
  <2>3. itsCurrentState \in State
    BY DEF IInv, TypeOK
  <2> QED
    BY <2>2, <2>3, QueryStatusConnected DEF Agreement
<1> QED
  BY Inductive, <1>1, PTL

\* Between ticks a lost connection has no pppd (DEVICE_LOST closes it, and a
\* DEVICE_RESTORED that opens another never ends).
THEOREM LostHungUp == Spec => []LostMeansHungUp
<1>1. IInv => LostMeansHungUp
  BY DEF IInv, Owners, HungUp, LostMeansHungUp, Ticking, TickPc, Thread, Nobody
<1> QED
  BY Inductive, <1>1, PTL

\* The destructor leaves nothing running and nothing locked.
THEOREM Quiescent == Spec => []DestroyedQuiescent
<1>1. IInv => DestroyedQuiescent
  <2> SUFFICES ASSUME IInv, pc["user"] = "destroyed" PROVE DestroyedQuiescent
    BY DEF DestroyedQuiescent
  <2>1. pc["monitor"] = "done" /\ ~pppd
    BY DEF IInv, Destruction
  <2>2. itsEventMutex = Nobody
    BY <2>1 DEF IInv, TypeOK, Owners, Ticking, TickPc, Thread, Nobody
  <2>3. itsMonitoringMutex = Nobody
    BY <2>1 DEF IInv, TypeOK, Owners, TickPc, Thread, Nobody
  <2> QED
    BY <2>1, <2>2, <2>3 DEF DestroyedQuiescent
<1> QED
  BY Inductive, <1>1, PTL

\* Only a CONNECT_REQUEST in state NO_CONNECTION makes the state CONNECTED, and
\* only in the user's hands: whatever startPowerMonitor sets afterwards, it was
\* CONNECTED already, for the monitor's own startPowerMonitor never gets its mutex.
LEMMA OnlyUserConnects ==
  IInv /\ [Next]_vars /\ itsCurrentState' = "CONNECTED"
    => itsCurrentState \in {"CONNECTED", "NO_CONNECTION"}
<1> SUFFICES ASSUME IInv, [Next]_vars, itsCurrentState' = "CONNECTED"
             PROVE  itsCurrentState \in {"CONNECTED", "NO_CONNECTION"}
  OBVIOUS
<1>1. ASSUME NEW t \in Thread, HandleEvent(t)
      PROVE  itsCurrentState \in {"CONNECTED", "NO_CONNECTION"}
  BY <1>1 DEF HandleEvent, RefuseConnect, ConnectOpened, OpenFailed, RestoreOpened,
       HandleDisconnect, HandleDeviceLost, device
<1>2. ASSUME NEW t \in Thread, StartPowerMonitor(t)
      PROVE  itsCurrentState \in {"CONNECTED", "NO_CONNECTION"}
  BY <1>2 DEF StartPowerMonitor, GoTo, IInv, Owners, Notices, Thread, Nobody, TickPc
<1>3. ASSUME NEW t \in Thread, PausePowerMonitor(t) PROVE FALSE
  BY <1>3 DEF PausePowerMonitor
<1>4. ASSUME Environment \/ UserCalls \/ UNCHANGED vars PROVE UNCHANGED itsCurrentState
  BY <1>4 DEF Environment, FlipCmuxReady, PppdDies, UserCalls, Connect, Disconnect,
       CallMethod, Destroy, vars
<1>5. ASSUME NEW t \in Thread, Tick(t) \/ NotifyByCallback(t) \/ ClosePppd(t)
      PROVE  UNCHANGED itsCurrentState
  BY <1>5 DEF Tick, NotifyByCallback, ClosePppd
<1>6. ASSUME NEW s \in Subscribers, RegisterUserCallback(s) PROVE UNCHANGED itsCurrentState
  BY <1>6 DEF RegisterUserCallback
<1>7. ASSUME \/ FinishConstruction \/ StartUsing \/ ConnectCheck \/ DisconnectCheck
             \/ UserReturns \/ PostTerminate \/ JoinMonitor
      PROVE  UNCHANGED itsCurrentState
  BY <1>7 DEF FinishConstruction, StartUsing, ConnectCheck, DisconnectCheck, CheckState,
       UserReturns, PostTerminate, JoinMonitor
<1>8. ASSUME \/ MonitorStarts \/ MonitorPolls \/ MonitorWaits \/ MonitorTimesOut
             \/ MonitorLeaves \/ MonitorSamples \/ MonitorLoops
      PROVE  UNCHANGED itsCurrentState
  BY <1>8 DEF MonitorStarts, MonitorPolls, MonitorWaits, MonitorTimesOut, MonitorLeaves,
       MonitorSamples, MonitorLoops
<1>9. ASSUME NEW t \in Thread, StateMachineTick(t)
      PROVE  itsCurrentState \in {"CONNECTED", "NO_CONNECTION"}
  BY <1>9, <1>1, <1>2, <1>3, <1>5 DEF StateMachineTick
<1>10. CASE UserSteps \/ MonitorSteps
  BY <1>10, <1>6, <1>7, <1>8, <1>9 DEF UserSteps, MonitorSteps, Thread
<1> QED
  BY <1>4, <1>10 DEF Next

\* A lost connection is never brought back in one step, by either thread.
THEOREM LostNeverReconnects == Spec => LostNeverReconnectsDirectly
<1>1. IInv /\ [Next]_vars
        => [itsCurrentState = "CONNECTION_LOST" => itsCurrentState' # "CONNECTED"]_vars
  BY OnlyUserConnects
<1> QED
  BY Inductive, <1>1, PTL DEF Spec, LostNeverReconnectsDirectly

\* The user thread answers CONNECTED only where it has read the state CONNECTED
\* (or its tick has returned it) outside of its own notification.
LEMMA AnswersFromState ==
  ASSUME IInv, [Next]_vars, pc["user"] \in {"connectCheck", "release"},
         pc'["user"] = "idle", retVal' = "CONNECTED"
  PROVE  itsCurrentState = "CONNECTED"
<1>1. CASE ConnectCheck
  BY <1>1 DEF ConnectCheck, CheckState, GoTo, IInv, TypeOK, Thread
<1>2. CASE UserReturns
  BY <1>2 DEF UserReturns, TickReply, IInv, Reply, TickPc
<1>3. ASSUME NEW t \in Thread, NEW from \in TickPc \ {"release"},
             NEW to \in TickPc, GoTo(t, from, to)
      PROVE  FALSE
  BY <1>3 DEF GoTo, IInv, TypeOK, Thread, TickPc
<1>4. ASSUME NEW t \in Thread, HandleEvent(t) PROVE FALSE
  BY <1>3, <1>4 DEF HandleEvent, RefuseConnect, ConnectOpened, OpenFailed, RestoreOpened,
       HandleDisconnect, HandleDeviceLost, TickPc
<1>5. ASSUME NEW t \in Thread, StateMachineTick(t) PROVE FALSE
  BY <1>3, <1>4, <1>5 DEF StateMachineTick, Tick, StartPowerMonitor, PausePowerMonitor,
       NotifyByCallback, ClosePppd, TickPc
<1>6. ASSUME \/ MonitorStarts \/ MonitorPolls \/ MonitorWaits \/ MonitorTimesOut
             \/ MonitorLeaves \/ MonitorSamples \/ MonitorLoops
      PROVE  UNCHANGED pc["user"]
  BY <1>6 DEF MonitorStarts, MonitorPolls, MonitorWaits, MonitorTimesOut, MonitorLeaves,
       MonitorSamples, MonitorLoops, GoTo, IInv, TypeOK, Thread
<1>7. ASSUME NEW s \in Subscribers, RegisterUserCallback(s) PROVE FALSE
  BY <1>7 DEF RegisterUserCallback
<1>8. ASSUME \/ FinishConstruction \/ StartUsing \/ DisconnectCheck \/ PostTerminate
             \/ JoinMonitor
      PROVE  FALSE
  BY <1>8 DEF FinishConstruction, StartUsing, DisconnectCheck, CheckState, PostTerminate,
       JoinMonitor, GoTo
<1>9. ASSUME UserCalls PROVE FALSE
  BY <1>9 DEF UserCalls, Connect, Disconnect, CallMethod, Destroy, GoTo
<1>10. ASSUME Environment \/ UNCHANGED vars PROVE UNCHANGED pc["user"]
  BY <1>10 DEF Environment, FlipCmuxReady, PppdDies, vars
<1> QED
  BY <1>1, <1>2, <1>5, <1>6, <1>7, <1>8, <1>9, <1>10 DEF Next, UserSteps, MonitorSteps, Thread

\* connect() answers CONNECTED only after every subscriber has been told so.
THEOREM AnswersAfterNotice == Spec => ConnectAnswersAfterNotice
<1>1. ASSUME IInv, [Next]_vars, pc["user"] \in {"connectCheck", "release"},
             pc'["user"] = "idle", retVal' = "CONNECTED", NEW s \in Subscribers
      PROVE  told[s] = "CONNECTED"
  <2>1. itsCurrentState = "CONNECTED"
    BY <1>1, AnswersFromState
  <2>2. Agreement
    BY <1>1, <2>1 DEF IInv, Notices
  <2>3. callbackList = Subscribers
    BY <1>1 DEF IInv, Registration
  <2> QED
    BY <2>1, <2>2, <2>3 DEF Agreement
<1>2. IInv /\ [Next]_vars
        => [pc["user"] \in {"connectCheck", "release"} /\ pc'["user"] = "idle"
              /\ retVal' = "CONNECTED"
            => \A s \in Subscribers : told[s] = "CONNECTED"]_vars
  BY <1>1
<1> QED
  BY Inductive, <1>2, PTL DEF Spec, ConnectAnswersAfterNotice

------------------------------------------------------------------------------
\* When terminate may be on: before it is initialised, and for the destructor.
TerminateFor == terminate => pc["user"] \in {"constructing", "joining", "destroyed"}

\* No step but the destructor's posts terminate.
LEMMA NextTerminateFor == TypeOK /\ TerminateFor /\ [Next]_vars => TerminateFor'
<1> SUFFICES ASSUME TypeOK, TerminateFor, [Next]_vars PROVE TerminateFor'
  OBVIOUS
<1> USE DEF TerminateFor, TypeOK, GoTo, Thread, flags
<1>1. ASSUME NEW t \in Thread, NEW from \in TickPc, NEW to \in TickPc,
             GoTo(t, from, to), UNCHANGED terminate
      PROVE  TerminateFor'
  BY <1>1 DEF TickPc
<1>2. ASSUME NEW t \in Thread, HandleEvent(t) PROVE TerminateFor'
  BY <1>1, <1>2 DEF HandleEvent, RefuseConnect, ConnectOpened, OpenFailed, RestoreOpened,
       HandleDisconnect, HandleDeviceLost, TickPc
<1>3. ASSUME NEW t \in Thread, StateMachineTick(t) PROVE TerminateFor'
  BY <1>1, <1>2, <1>3 DEF StateMachineTick, Tick, StartPowerMonitor, PausePowerMonitor,
       NotifyByCallback, ClosePppd, TickPc
<1>4. ASSUME FinishConstruction \/ StartUsing \/ Destroy PROVE TerminateFor'
  BY <1>4 DEF FinishConstruction, StartUsing, Destroy
<1>5. ASSUME Connect \/ Disconnect \/ ConnectCheck \/ DisconnectCheck PROVE TerminateFor'
  BY <1>5 DEF Connect, Disconnect, CallMethod, ConnectCheck, DisconnectCheck, CheckState
<1>6. ASSUME NEW s \in Subscribers, RegisterUserCallback(s) PROVE TerminateFor'
  BY <1>6 DEF RegisterUserCallback
<1>7. ASSUME UserReturns \/ PostTerminate \/ JoinMonitor PROVE TerminateFor'
  BY <1>7 DEF UserReturns, PostTerminate, JoinMonitor
<1>8. ASSUME MonitorStarts \/ MonitorPolls \/ MonitorWaits \/ MonitorTimesOut
      PROVE  TerminateFor'
  BY <1>8 DEF MonitorStarts, MonitorPolls, MonitorWaits, MonitorTimesOut
<1>9. ASSUME MonitorLeaves \/ MonitorSamples \/ MonitorLoops PROVE TerminateFor'
  BY <1>9 DEF MonitorLeaves, MonitorSamples, MonitorLoops
<1>10. ASSUME Environment \/ UNCHANGED vars PROVE TerminateFor'
  BY <1>10 DEF Environment, FlipCmuxReady, PppdDies, vars
<1> QED
  BY <1>3, <1>4, <1>5, <1>6, <1>7, <1>8, <1>9, <1>10
  DEF Next, UserSteps, UserCalls, MonitorSteps

\* Only the end of the loop, where terminate is on, ends the monitor thread.
LEMMA OnlyMonitorLeaves ==
  ASSUME TypeOK, [Next]_vars, pc["monitor"] # "done", pc'["monitor"] = "done"
  PROVE  MonitorLeaves
<1> USE DEF TypeOK, GoTo, Thread
<1>1. ASSUME NEW t \in Thread, StateMachineTick(t) PROVE FALSE
  BY <1>1 DEF StateMachineTick, Tick, HandleEvent, RefuseConnect, ConnectOpened, OpenFailed,
       RestoreOpened, HandleDisconnect, HandleDeviceLost, StartPowerMonitor,
       PausePowerMonitor, NotifyByCallback, ClosePppd
<1>2. ASSUME \/ FinishConstruction \/ StartUsing \/ UserReturns \/ PostTerminate
             \/ JoinMonitor \/ UserCalls
      PROVE  FALSE
  BY <1>2 DEF FinishConstruction, StartUsing, UserReturns, PostTerminate, JoinMonitor,
       UserCalls, Connect, Disconnect, CallMethod, Destroy
<1>3. ASSUME ConnectCheck \/ DisconnectCheck PROVE FALSE
  BY <1>3 DEF ConnectCheck, DisconnectCheck, CheckState
<1>4. ASSUME \/ Environment \/ (\E s \in Subscribers : RegisterUserCallback(s))
             \/ UNCHANGED vars
      PROVE  FALSE
  BY <1>4 DEF Environment, FlipCmuxReady, PppdDies, RegisterUserCallback, vars
<1>5. ASSUME \/ MonitorStarts \/ MonitorPolls \/ MonitorWaits \/ MonitorTimesOut
             \/ MonitorSamples \/ MonitorLoops
      PROVE  FALSE
  BY <1>5 DEF MonitorStarts, MonitorPolls, MonitorWaits, MonitorTimesOut, MonitorSamples,
       MonitorLoops
<1> QED
  BY <1>1, <1>2, <1>3, <1>4, <1>5 DEF Next, UserSteps, MonitorSteps

\* Whatever the atomics hold before they are initialised, the device is watched
\* for as long as the object is in use by a monitor that survived its start.
THEOREM MonitorOutlives == Spec => MonitorOutlivesUse
<1>1. Init => TerminateFor
  BY DEF Init, TerminateFor, Thread
<1>2. Spec => []TerminateFor
  BY TypeCorrect, NextTerminateFor, <1>1, PTL DEF Spec
<1>3. ASSUME IInv, TerminateFor, [Next]_vars, pc["monitor"] # "done", pc'["monitor"] = "done"
      PROVE  pc["user"] \in {"constructing", "joining"}
  <2>1. MonitorLeaves
    BY <1>3, OnlyMonitorLeaves DEF IInv
  <2>2. pc["user"] \in {"constructing", "joining", "destroyed"}
    BY <1>3, <2>1 DEF MonitorLeaves, TerminateFor
  <2>3. pc["user"] # "destroyed"
    BY <1>3 DEF IInv, Destruction
  <2> QED
    BY <2>2, <2>3
<1>4. IInv /\ TerminateFor /\ [Next]_vars
        => [pc["monitor"] # "done" /\ pc'["monitor"] = "done"
            => pc["user"] \in {"constructing", "joining"}]_vars
  BY <1>3
<1> QED
  BY Inductive, <1>2, <1>4, PTL DEF Spec, MonitorOutlivesUse
\* A monitor that has outlived the constructor is there until the destructor.
Alive ==
  /\ pc["user"] # "constructing"
  /\ pc["monitor"] # "done" \/ pc["user"] \in {"joining", "destroyed"}

\* Nothing but the destructor ends it.
LEMMA NextAlive == TypeOK /\ TerminateFor /\ Alive /\ [Next]_vars => Alive'
<1> SUFFICES ASSUME TypeOK, TerminateFor, Alive, [Next]_vars PROVE Alive'
  OBVIOUS
<1> USE DEF Alive, TypeOK, GoTo, Thread
<1>1. ASSUME MonitorLeaves PROVE Alive'
  BY <1>1 DEF MonitorLeaves, TerminateFor
<1>2. ASSUME \/ MonitorStarts \/ MonitorPolls \/ MonitorWaits \/ MonitorTimesOut
             \/ MonitorSamples \/ MonitorLoops
      PROVE  Alive'
  BY <1>2 DEF MonitorStarts, MonitorPolls, MonitorWaits, MonitorTimesOut, MonitorSamples,
       MonitorLoops
<1>3. ASSUME NEW t \in Thread, StateMachineTick(t) PROVE Alive'
  BY <1>3 DEF StateMachineTick, Tick, HandleEvent, RefuseConnect, ConnectOpened, OpenFailed,
       RestoreOpened, HandleDisconnect, HandleDeviceLost, StartPowerMonitor,
       PausePowerMonitor, NotifyByCallback, ClosePppd
<1>4. ASSUME FinishConstruction \/ StartUsing \/ UserReturns \/ PostTerminate \/ JoinMonitor
      PROVE  Alive'
  BY <1>4 DEF FinishConstruction, StartUsing, UserReturns, PostTerminate, JoinMonitor
<1>5. ASSUME UserCalls \/ ConnectCheck \/ DisconnectCheck PROVE Alive'
  BY <1>5 DEF UserCalls, Connect, Disconnect, CallMethod, Destroy, ConnectCheck,
       DisconnectCheck, CheckState
<1>6. ASSUME \/ Environment \/ (\E s \in Subscribers : RegisterUserCallback(s))
             \/ UNCHANGED vars
      PROVE  Alive'
  BY <1>6 DEF Environment, FlipCmuxReady, PppdDies, RegisterUserCallback, vars
<1> QED
  BY <1>1, <1>2, <1>3, <1>4, <1>5, <1>6 DEF Next, UserSteps, MonitorSteps

\* Between ticks a connection is watched by a monitor that is switched on and
\* runs, if one has outlived the constructor.
THEOREM Watched == Spec => WatchedWhileConnected
<1>1. Init => TerminateFor
  BY DEF Init, TerminateFor, Thread
<1>2. IInv /\ TerminateFor /\ Alive /\ [Next]_vars => Alive'
  BY NextAlive DEF IInv
<1>3. IInv /\ TerminateFor /\ [Next]_vars => TerminateFor'
  BY NextTerminateFor DEF IInv
<1>4. IInv /\ Alive
        => (itsEventMutex = Nobody /\ itsCurrentState = "CONNECTED" => MonitorWatches)
  BY DEF IInv, Owners, Watch, Alive, MonitorWatches, Ticking, TickPc, Thread, Nobody
<1>5. pc["user"] = "registering" /\ pc["monitor"] # "done" => Alive
  BY DEF Alive
<1> QED
  BY Inductive, <1>1, <1>2, <1>3, <1>4, <1>5, PTL DEF Spec, WatchedWhileConnected

------------------------------------------------------------------------------
\* What hangs, in terms of where the threads are.
Entangled ==
  \/ pc["monitor"] = "startPowerMonitor"
  \/ pc["monitor"] = "tick" /\ pc["user"] \in {"startPowerMonitor", "pausePowerMonitor"}

\* The threads wait for each other exactly where the monitor restores, or its tick
\* meets that of a connect or a disconnect: the owners of the mutexes say so.
LEMMA HungIsEntangled ==
  ASSUME TypeOK, Owners
  PROVE  Hung <=> Entangled
<1> USE DEF TypeOK, Owners, Ticking, TickPc, UserPc, MonitorPc, Thread, Nobody, WaitsFor
<1>1. ASSUME pc["monitor"] = "startPowerMonitor" PROVE Hung
  <2>1. "monitor" \in WaitsFor("monitor")
    BY <1>1
  <2>2. {"monitor"} \in SUBSET Thread /\ {"monitor"} # {}
        /\ \A t \in {"monitor"} : WaitsFor(t) \cap {"monitor"} # {}
    BY <2>1
  <2> QED
    BY <2>2 DEF Hung
<1>2. ASSUME pc["monitor"] = "tick", pc["user"] \in {"startPowerMonitor", "pausePowerMonitor"}
      PROVE  Hung
  <2>1. "user" \in WaitsFor("monitor")
    BY <1>2
  <2>2. "monitor" \in WaitsFor("user")
    BY <1>2
  <2>3. Thread \in SUBSET Thread /\ Thread # {} /\ \A t \in Thread : WaitsFor(t) \cap Thread # {}
    BY <2>1, <2>2
  <2> QED
    BY <2>3 DEF Hung
<1>3. ASSUME NEW S \in SUBSET Thread, S # {}, \A t \in S : WaitsFor(t) \cap S # {}
      PROVE  Entangled
  <2>1. "user" \notin WaitsFor("user")
    OBVIOUS
  <2>2. "monitor" \in S
    <3>1. ASSUME "monitor" \notin S PROVE FALSE
      <4> HIDE DEF WaitsFor
      <4>1. S = {"user"}
        BY <1>3, <3>1
      <4> QED
        BY <1>3, <2>1, <4>1
    <3> QED
      BY <3>1
  <2>3. CASE "monitor" \in WaitsFor("monitor")
    BY <2>3 DEF Entangled
  <2>4. CASE "user" \in WaitsFor("monitor") /\ "user" \in S
    <3>1. pc["monitor"] = "tick" /\ itsEventMutex = "user"
      BY <2>4
    <3>2. pc["user"] \in Ticking
      BY <3>1
    <3>3. "monitor" \in WaitsFor("user")
      BY <1>3, <2>1, <2>4
    <3> QED
      BY <3>1, <3>2, <3>3 DEF Entangled
  <2>5. PICK u \in WaitsFor("monitor") : u \in S
    BY <1>3, <2>2
  <2> QED
    BY <2>3, <2>4, <2>5
<1> QED
  BY <1>1, <1>2, <1>3 DEF Hung, Entangled

\* Both deadlocks and no third one: every state with a thread that can never go on
\* for the mutexes or the join is one of the two.
THEOREM HangsOnlyThere == Spec => []HangsInMonitorTickOnly
<1>1. IInv => HangsInMonitorTickOnly
  BY HungIsEntangled DEF IInv, HangsInMonitorTickOnly, Entangled
<1> QED
  BY Inductive, <1>1, PTL

\* Neither thread of a hang has a step: std::mutex has no timeout.
LEMMA EntangledStuck ==
  ASSUME IInv, Entangled, [Next]_vars
  PROVE  UNCHANGED pc["monitor"] /\ (pc["monitor"] = "tick" => UNCHANGED pc["user"])
<1> USE DEF IInv, TypeOK, Owners, Entangled, GoTo, Ticking, TickPc, UserPc, MonitorPc, Thread, Nobody
<1>1. ASSUME Tick("monitor") \/ StartPowerMonitor("monitor") PROVE FALSE
  BY <1>1 DEF Tick, StartPowerMonitor
<1>2. ASSUME \/ HandleEvent("monitor") \/ PausePowerMonitor("monitor")
             \/ NotifyByCallback("monitor") \/ ClosePppd("monitor")
             \/ MonitorStarts \/ MonitorPolls \/ MonitorWaits \/ MonitorTimesOut
             \/ MonitorLeaves \/ MonitorSamples \/ MonitorLoops
      PROVE  FALSE
  BY <1>2 DEF HandleEvent, RefuseConnect, ConnectOpened, OpenFailed, RestoreOpened,
       HandleDisconnect, HandleDeviceLost, PausePowerMonitor, NotifyByCallback, ClosePppd,
       MonitorStarts, MonitorPolls, MonitorWaits, MonitorTimesOut, MonitorLeaves,
       MonitorSamples, MonitorLoops
<1>3. ASSUME StateMachineTick("user")
      PROVE  UNCHANGED pc["monitor"] /\ pc["monitor"] # "tick"
  BY <1>3 DEF StateMachineTick, Tick, HandleEvent, RefuseConnect, ConnectOpened, OpenFailed,
       RestoreOpened, HandleDisconnect, HandleDeviceLost, StartPowerMonitor,
       PausePowerMonitor, NotifyByCallback, ClosePppd
<1>4. ASSUME \/ FinishConstruction \/ StartUsing \/ UserReturns \/ PostTerminate
             \/ JoinMonitor \/ UserCalls
      PROVE  UNCHANGED pc["monitor"] /\ pc["monitor"] # "tick"
  BY <1>4 DEF FinishConstruction, StartUsing, UserReturns, PostTerminate, JoinMonitor,
       UserCalls, Connect, Disconnect, CallMethod, Destroy
<1>5. ASSUME ConnectCheck \/ DisconnectCheck
      PROVE  UNCHANGED pc["monitor"] /\ pc["monitor"] # "tick"
  BY <1>5 DEF ConnectCheck, DisconnectCheck, CheckState
<1>6. ASSUME \/ Environment \/ (\E s \in Subscribers : RegisterUserCallback(s))
             \/ UNCHANGED vars
      PROVE  UNCHANGED pc
  BY <1>6 DEF Environment, FlipCmuxReady, PppdDies, RegisterUserCallback, vars
<1> QED
  BY <1>1, <1>2, <1>3, <1>4, <1>5, <1>6 DEF Next, UserSteps, MonitorSteps, StateMachineTick

\* A hang lasts for ever, so that Hung is what its name says: the owner of the
\* mutex a thread waits for is never going to release it.
THEOREM HangsForEver == Spec => [][Hung => Hung']_vars
<1>1. ASSUME IInv, IInv', [Next]_vars, Hung PROVE Hung'
  <2>1. Entangled
    BY <1>1, HungIsEntangled DEF IInv
  <2>2. Entangled'
    BY <1>1, <2>1, EntangledStuck DEF Entangled
  <2>3. TypeOK' /\ Owners' => (Hung' <=> Entangled')
    BY HungIsEntangled, PTL
  <2> QED
    BY <1>1, <2>2, <2>3 DEF IInv
<1>2. IInv /\ IInv' /\ [Next]_vars => [Hung => Hung']_vars
  BY <1>1
<1> QED
  BY Inductive, <1>2, PTL DEF Spec

\* The monitor feeds no event, and has seen no edge.
Quiet ==
  /\ pc["monitor"] \notin TickPc
  /\ pc["monitor"] = "starting" \/ cmuxReadyFlag = HistoricalValue(cmuxReady)

\* While the flag stays as it is the monitor stays quiet.
LEMMA NextQuiet == IInv /\ Quiet /\ [Next]_vars /\ UNCHANGED cmuxReady => Quiet'
<1> SUFFICES ASSUME IInv, Quiet, [Next]_vars, UNCHANGED cmuxReady PROVE Quiet'
  OBVIOUS
<1> USE DEF IInv, TypeOK, Quiet, GoTo, TickPc, Thread
<1>1. ASSUME StateMachineTick("monitor") PROVE FALSE
  BY <1>1 DEF StateMachineTick, Tick, HandleEvent, RefuseConnect, ConnectOpened, OpenFailed,
       RestoreOpened, HandleDisconnect, HandleDeviceLost, StartPowerMonitor,
       PausePowerMonitor, NotifyByCallback, ClosePppd
<1>2. ASSUME StateMachineTick("user") PROVE UNCHANGED <<pc["monitor"], cmuxReadyFlag>>
  BY <1>2 DEF StateMachineTick, Tick, HandleEvent, RefuseConnect, ConnectOpened, OpenFailed,
       RestoreOpened, HandleDisconnect, HandleDeviceLost, StartPowerMonitor,
       PausePowerMonitor, NotifyByCallback, ClosePppd
<1>3. ASSUME \/ FinishConstruction \/ StartUsing \/ UserReturns \/ PostTerminate
             \/ JoinMonitor \/ UserCalls
      PROVE  UNCHANGED <<pc["monitor"], cmuxReadyFlag>>
  BY <1>3 DEF FinishConstruction, StartUsing, UserReturns, PostTerminate, JoinMonitor,
       UserCalls, Connect, Disconnect, CallMethod, Destroy
<1>4. ASSUME ConnectCheck \/ DisconnectCheck PROVE UNCHANGED <<pc["monitor"], cmuxReadyFlag>>
  BY <1>4 DEF ConnectCheck, DisconnectCheck, CheckState
<1>5. ASSUME \/ Environment \/ (\E s \in Subscribers : RegisterUserCallback(s))
             \/ UNCHANGED vars
      PROVE  UNCHANGED <<pc, cmuxReadyFlag>>
  BY <1>5 DEF Environment, FlipCmuxReady, PppdDies, RegisterUserCallback, vars
<1>6. ASSUME MonitorStarts PROVE Quiet'
  BY <1>6 DEF MonitorStarts
<1>7. ASSUME MonitorSamples PROVE Quiet'
  <2>1. cmuxReadyFlag = HistoricalValue(cmuxReady)
    BY <1>7 DEF MonitorSamples
  <2>2. cmuxReadyFlag' = HistoricalValue(cmuxReady)
    BY <1>7, <2>1 DEF MonitorSamples, SetValue, HistoricalValue
  <2>3. ~HasChanged(cmuxReadyFlag')
    BY <2>2 DEF HasChanged, HistoricalValue
  <2>4. pc'["monitor"] = "top"
    BY <1>7, <2>3 DEF MonitorSamples
  <2> QED
    BY <2>2, <2>4
<1>8. ASSUME \/ MonitorPolls \/ MonitorWaits \/ MonitorTimesOut \/ MonitorLeaves
      PROVE  Quiet'
  BY <1>8 DEF MonitorPolls, MonitorWaits, MonitorTimesOut, MonitorLeaves
<1>9. ASSUME MonitorLoops PROVE FALSE
  BY <1>9 DEF MonitorLoops
<1> QED
  BY <1>1, <1>2, <1>3, <1>4, <1>5, <1>6, <1>7, <1>8, <1>9
  DEF Next, UserSteps, MonitorSteps

\* As long as cmuxReady stays what it is, no thread ever hangs: the safety behind
\* the promise that calls return.
THEOREM StableNeverHangs == Spec => StableDeviceNeverHangs
<1>1. Init => Quiet
  BY DEF Init, Quiet, TickPc, Thread
<1>2. IInv /\ Quiet /\ [Next]_vars /\ cmuxReady /\ cmuxReady' => Quiet'
  BY NextQuiet
<1>3. IInv /\ IInv' /\ Quiet /\ [Next]_vars /\ ~cmuxReady /\ ~cmuxReady' => Quiet'
  BY NextQuiet DEF IInv, TypeOK
<1>4. IInv /\ Quiet => ~Hung
  BY HungIsEntangled DEF IInv, Quiet, Entangled, TickPc
<1> QED
  BY Inductive, <1>1, <1>2, <1>3, <1>4, PTL DEF Spec, StableDeviceNeverHangs

------------------------------------------------------------------------------
(* PppConnection implements NetworkProvider, for every subscriber.         *)
(*                                                                         *)
(* Every tick is one notice of the provider, given at NotifyByCallback,    *)
(* and every return of a method one answer; all other steps stutter.       *)
(* Beyond IInv this needs to know which event brings which status, and     *)
(* what a call in progress is going to answer.                             *)

\* What a call in progress answers unless its tick says otherwise.
Requests ==
  /\ pc["user"] \in {"connectCheck", "disconnectCheck"} => retVal = "CONNECTION_ERROR"
  /\ pc["user"] \in TickPc =>
       \/ event["user"] # "DEVICE_LOST" /\ retVal = "CONNECTION_ERROR"
       \/ event["user"] = "DEVICE_LOST" /\ retVal \in {"DEVICE_UNAVAILABLE", "DISCONNECTED"}

\* Which event the user's tick has when it passes these places, and which
\* status it is about to tell.
Outcome ==
  /\ pc["user"] = "startPowerMonitor" => event["user"] = "CONNECT_REQUEST"
  /\ pc["user"] \in {"pausePowerMonitor", "closing"} => event["user"] = "DISCONNECT_REQUEST"
  /\ pc["user"] = "notify" =>
       /\ event["user"] = "CONNECT_REQUEST" => status \in {"CONNECTED", "CONNECTION_ERROR"}
       /\ event["user"] = "DISCONNECT_REQUEST" => status = "DISCONNECTED"
       /\ event["user"] = "DEVICE_LOST" => status = "DEVICE_UNAVAILABLE"
  /\ pc["monitor"] = "notify" => status \in {"CONNECTION_ERROR", "DEVICE_UNAVAILABLE"}
  /\ "notify" \in {pc["user"], pc["monitor"]} /\ status = "DEVICE_UNAVAILABLE"
       => itsCurrentState = "CONNECTION_LOST"

\* A subscriber that was told of a loss knows the state to be CONNECTION_LOST,
\* unless it is about to be told otherwise.
LossKnown ==
  \/ \A s \in Subscribers : told[s] = "DEVICE_UNAVAILABLE" => itsCurrentState = "CONNECTION_LOST"
  \/ pc["monitor"] = "notify"
  \/ pc["user"] = "notify" /\ event["user"] = "DISCONNECT_REQUEST"

\* The user's DEVICE_LOST tick ends with every subscriber told.
LossTold ==
  pc["user"] = "release" /\ event["user"] = "DEVICE_LOST"
    => \A s \in Subscribers : told[s] = "DEVICE_UNAVAILABLE"

RInv == Requests /\ Outcome /\ LossKnown /\ LossTold

------------------------------------------------------------------------------
\* Every step preserves what a call in progress is going to answer and which
\* status its tick is going to tell.
LEMMA NextOutcome == IInv /\ Requests /\ Outcome /\ [Next]_vars => (Requests /\ Outcome)'
<1> SUFFICES ASSUME IInv, Requests, Outcome, [Next]_vars PROVE (Requests /\ Outcome)'
  OBVIOUS
<1> USE DEF IInv, TypeOK, Owners, Feeds, Ticking, Requests, Outcome, GoTo, device, mutexes, flags, notices, Thread, Nobody, UserPc, MonitorPc, TickPc
<1>1. ASSUME FlipCmuxReady PROVE (Requests /\ Outcome)'
  BY <1>1 DEF FlipCmuxReady
<1>2. ASSUME PppdDies PROVE (Requests /\ Outcome)'
  BY <1>2 DEF PppdDies
<1>3. ASSUME NEW t \in Thread, Tick(t) PROVE (Requests /\ Outcome)'
  BY <1>3 DEF Tick
<1>4. ASSUME NEW t \in Thread, RefuseConnect(t), HandleEvent(t) PROVE (Requests /\ Outcome)'
  BY <1>4 DEF RefuseConnect, HandleEvent
<1>5. ASSUME NEW t \in Thread, ConnectOpened(t), HandleEvent(t) PROVE (Requests /\ Outcome)'
  BY <1>5 DEF ConnectOpened, HandleEvent, OpenSucceeds
<1>6. ASSUME NEW t \in Thread, OpenFailed(t), HandleEvent(t) PROVE (Requests /\ Outcome)'
  BY <1>6 DEF OpenFailed, HandleEvent, OpenFails
<1>7. ASSUME NEW t \in Thread, RestoreOpened(t), HandleEvent(t) PROVE (Requests /\ Outcome)'
  BY <1>7 DEF RestoreOpened, HandleEvent, OpenSucceeds
<1>8. ASSUME NEW t \in Thread, HandleDisconnect(t), HandleEvent(t) PROVE (Requests /\ Outcome)'
  BY <1>8 DEF HandleDisconnect, HandleEvent
<1>9. ASSUME NEW t \in Thread, HandleDeviceLost(t), HandleEvent(t) PROVE (Requests /\ Outcome)'
  BY <1>9 DEF HandleDeviceLost, HandleEvent
<1>10. ASSUME NEW t \in Thread, StartPowerMonitor(t) PROVE (Requests /\ Outcome)'
  BY <1>10 DEF StartPowerMonitor
<1>11. ASSUME NEW t \in Thread, PausePowerMonitor(t) PROVE (Requests /\ Outcome)'
  BY <1>11 DEF PausePowerMonitor
<1>12. ASSUME NEW t \in Thread, NotifyByCallback(t) PROVE (Requests /\ Outcome)'
  BY <1>12 DEF NotifyByCallback
<1>13. ASSUME NEW t \in Thread, ClosePppd(t) PROVE (Requests /\ Outcome)'
  BY <1>13 DEF ClosePppd
<1>14. ASSUME FinishConstruction PROVE (Requests /\ Outcome)'
  BY <1>14 DEF FinishConstruction
<1>15. ASSUME NEW s \in Subscribers, RegisterUserCallback(s) PROVE (Requests /\ Outcome)'
  BY <1>15 DEF RegisterUserCallback
<1>16. ASSUME StartUsing PROVE (Requests /\ Outcome)'
  BY <1>16 DEF StartUsing
<1>17. ASSUME Connect PROVE (Requests /\ Outcome)'
  BY <1>17 DEF Connect, CallMethod
<1>18. ASSUME ConnectCheck PROVE (Requests /\ Outcome)'
  BY <1>18 DEF ConnectCheck, CheckState
<1>19. ASSUME Disconnect PROVE (Requests /\ Outcome)'
  BY <1>19 DEF Disconnect, CallMethod
<1>20. ASSUME DisconnectCheck PROVE (Requests /\ Outcome)'
  BY <1>20 DEF DisconnectCheck, CheckState
<1>21. ASSUME UserReturns PROVE (Requests /\ Outcome)'
  BY <1>21 DEF UserReturns, TickReply
<1>22. ASSUME Destroy PROVE (Requests /\ Outcome)'
  BY <1>22 DEF Destroy
<1>23. ASSUME PostTerminate PROVE (Requests /\ Outcome)'
  BY <1>23 DEF PostTerminate
<1>24. ASSUME JoinMonitor PROVE (Requests /\ Outcome)'
  BY <1>24 DEF JoinMonitor
<1>25. ASSUME MonitorStarts PROVE (Requests /\ Outcome)'
  BY <1>25 DEF MonitorStarts
<1>26. ASSUME MonitorPolls PROVE (Requests /\ Outcome)'
  BY <1>26 DEF MonitorPolls
<1>27. ASSUME MonitorWaits PROVE (Requests /\ Outcome)'
  BY <1>27 DEF MonitorWaits
<1>28. ASSUME MonitorTimesOut PROVE (Requests /\ Outcome)'
  BY <1>28 DEF MonitorTimesOut
<1>29. ASSUME MonitorLeaves PROVE (Requests /\ Outcome)'
  BY <1>29 DEF MonitorLeaves
<1>30. ASSUME MonitorSamples PROVE (Requests /\ Outcome)'
  BY <1>30 DEF MonitorSamples, HasChanged
<1>31. ASSUME MonitorLoops PROVE (Requests /\ Outcome)'
  BY <1>31 DEF MonitorLoops
<1>32. CASE UNCHANGED vars
  BY <1>32 DEF vars
<1> QED
  BY <1>1, <1>2, <1>3, <1>4, <1>5, <1>6, <1>7, <1>8, <1>9, <1>10, <1>11, <1>12, <1>13, <1>14,
     <1>15, <1>16, <1>17, <1>18, <1>19, <1>20, <1>21, <1>22, <1>23, <1>24, <1>25, <1>26, <1>27, <1>28,
     <1>29, <1>30, <1>31, <1>32
  DEF Next, Environment, UserSteps, UserCalls, MonitorSteps, StateMachineTick, HandleEvent

\* Every step preserves what the subscribers know of a loss.
LEMMA NextLoss == IInv /\ Outcome /\ LossKnown /\ LossTold /\ [Next]_vars => (LossKnown /\ LossTold)'
<1> SUFFICES ASSUME IInv, Outcome, LossKnown, LossTold, [Next]_vars PROVE (LossKnown /\ LossTold)'
  OBVIOUS
<1> USE DEF IInv, TypeOK, Owners, Feeds, Registration, Notices, Ticking, Outcome, LossKnown, LossTold, GoTo, device, mutexes, flags, notices, Thread, Nobody, UserPc, MonitorPc, TickPc, NoStatus
<1>1. ASSUME FlipCmuxReady PROVE (LossKnown /\ LossTold)'
  BY <1>1 DEF FlipCmuxReady
<1>2. ASSUME PppdDies PROVE (LossKnown /\ LossTold)'
  BY <1>2 DEF PppdDies
<1>3. ASSUME NEW t \in Thread, Tick(t) PROVE (LossKnown /\ LossTold)'
  BY <1>3 DEF Tick
<1>4. ASSUME NEW t \in Thread, RefuseConnect(t), HandleEvent(t) PROVE (LossKnown /\ LossTold)'
  BY <1>4 DEF RefuseConnect, HandleEvent
<1>5. ASSUME NEW t \in Thread, ConnectOpened(t), HandleEvent(t) PROVE (LossKnown /\ LossTold)'
  BY <1>5 DEF ConnectOpened, HandleEvent, OpenSucceeds
<1>6. ASSUME NEW t \in Thread, OpenFailed(t), HandleEvent(t) PROVE (LossKnown /\ LossTold)'
  BY <1>6 DEF OpenFailed, HandleEvent, OpenFails
<1>7. ASSUME NEW t \in Thread, RestoreOpened(t), HandleEvent(t) PROVE (LossKnown /\ LossTold)'
  BY <1>7 DEF RestoreOpened, HandleEvent, OpenSucceeds
<1>8. ASSUME NEW t \in Thread, HandleDisconnect(t), HandleEvent(t) PROVE (LossKnown /\ LossTold)'
  BY <1>8 DEF HandleDisconnect, HandleEvent
<1>9. ASSUME NEW t \in Thread, HandleDeviceLost(t), HandleEvent(t) PROVE (LossKnown /\ LossTold)'
  BY <1>9 DEF HandleDeviceLost, HandleEvent
<1>10. ASSUME NEW t \in Thread, StartPowerMonitor(t) PROVE (LossKnown /\ LossTold)'
  BY <1>10 DEF StartPowerMonitor
<1>11. ASSUME NEW t \in Thread, PausePowerMonitor(t) PROVE (LossKnown /\ LossTold)'
  BY <1>11 DEF PausePowerMonitor
<1>12. ASSUME NEW t \in Thread, NotifyByCallback(t) PROVE (LossKnown /\ LossTold)'
  BY <1>12 DEF NotifyByCallback
<1>13. ASSUME NEW t \in Thread, ClosePppd(t) PROVE (LossKnown /\ LossTold)'
  BY <1>13 DEF ClosePppd
<1>14. ASSUME FinishConstruction PROVE (LossKnown /\ LossTold)'
  BY <1>14 DEF FinishConstruction
<1>15. ASSUME NEW s \in Subscribers, RegisterUserCallback(s) PROVE (LossKnown /\ LossTold)'
  BY <1>15 DEF RegisterUserCallback
<1>16. ASSUME StartUsing PROVE (LossKnown /\ LossTold)'
  BY <1>16 DEF StartUsing
<1>17. ASSUME Connect PROVE (LossKnown /\ LossTold)'
  BY <1>17 DEF Connect, CallMethod
<1>18. ASSUME ConnectCheck PROVE (LossKnown /\ LossTold)'
  BY <1>18 DEF ConnectCheck, CheckState
<1>19. ASSUME Disconnect PROVE (LossKnown /\ LossTold)'
  BY <1>19 DEF Disconnect, CallMethod
<1>20. ASSUME DisconnectCheck PROVE (LossKnown /\ LossTold)'
  BY <1>20 DEF DisconnectCheck, CheckState
<1>21. ASSUME UserReturns PROVE (LossKnown /\ LossTold)'
  BY <1>21 DEF UserReturns, TickReply
<1>22. ASSUME Destroy PROVE (LossKnown /\ LossTold)'
  BY <1>22 DEF Destroy
<1>23. ASSUME PostTerminate PROVE (LossKnown /\ LossTold)'
  BY <1>23 DEF PostTerminate
<1>24. ASSUME JoinMonitor PROVE (LossKnown /\ LossTold)'
  BY <1>24 DEF JoinMonitor
<1>25. ASSUME MonitorStarts PROVE (LossKnown /\ LossTold)'
  BY <1>25 DEF MonitorStarts
<1>26. ASSUME MonitorPolls PROVE (LossKnown /\ LossTold)'
  BY <1>26 DEF MonitorPolls
<1>27. ASSUME MonitorWaits PROVE (LossKnown /\ LossTold)'
  BY <1>27 DEF MonitorWaits
<1>28. ASSUME MonitorTimesOut PROVE (LossKnown /\ LossTold)'
  BY <1>28 DEF MonitorTimesOut
<1>29. ASSUME MonitorLeaves PROVE (LossKnown /\ LossTold)'
  BY <1>29 DEF MonitorLeaves
<1>30. ASSUME MonitorSamples PROVE (LossKnown /\ LossTold)'
  BY <1>30 DEF MonitorSamples, HasChanged
<1>31. ASSUME MonitorLoops PROVE (LossKnown /\ LossTold)'
  BY <1>31 DEF MonitorLoops
<1>32. CASE UNCHANGED vars
  BY <1>32 DEF vars
<1> QED
  BY <1>1, <1>2, <1>3, <1>4, <1>5, <1>6, <1>7, <1>8, <1>9, <1>10, <1>11, <1>12, <1>13, <1>14,
     <1>15, <1>16, <1>17, <1>18, <1>19, <1>20, <1>21, <1>22, <1>23, <1>24, <1>25, <1>26, <1>27, <1>28,
     <1>29, <1>30, <1>31, <1>32
  DEF Next, Environment, UserSteps, UserCalls, MonitorSteps, StateMachineTick, HandleEvent

------------------------------------------------------------------------------
\* The places of the user thread in which it is in no call of the provider.
OutOfCall == UserPc \ {"connectCheck", "disconnectCheck"}

\* The user stays in the call it is in if it stays inside of its tick, or outside
\* of connect() and disconnect().
LEMMA SameCall ==
  ASSUME UNCHANGED <<retVal, event["user"]>>,
         \/ UNCHANGED pc["user"]
         \/ pc["user"] \in TickPc /\ pc'["user"] \in TickPc
         \/ pc["user"] \in OutOfCall /\ pc'["user"] \in OutOfCall
  PROVE  Call' = Call
BY DEF Call, InConnect, InDisconnect, OutOfCall, UserPc, TickPc

\* Such a step is none of the provider's if it tells s nothing.
LEMMA Stutters ==
  ASSUME NEW s \in Subscribers, UNCHANGED retVal, told'[s] = told[s], Call' = Call
  PROVE  UNCHANGED Provider(s)!providerVars
BY DEF Provider!providerVars, NoStatus, Provider!NoStatus

\* A round of callbacks is a notice the provider may give in that call.
LEMMA NoticeIsTell ==
  ASSUME NEW s \in Subscribers, NEW t \in Thread, IInv, RInv, NotifyByCallback(t)
  PROVE  [Provider(s)!ProviderNext]_(Provider(s)!providerVars)
<1>1. pc[t] = "notify" /\ itsEventMutex = t
  BY DEF NotifyByCallback, GoTo, IInv, Owners, Ticking, TickPc, Thread
<1>2. Call' = Call /\ UNCHANGED retVal
  <2>1. UNCHANGED <<retVal, event["user"]>>
    BY DEF NotifyByCallback
  <2>2. UNCHANGED pc["user"] \/ (pc["user"] \in TickPc /\ pc'["user"] \in TickPc)
    BY DEF NotifyByCallback, GoTo, IInv, TypeOK, Thread, TickPc
  <2> QED
    BY <2>1, <2>2, SameCall
<1>3. CASE s \notin callbackList
  <2>1. told'[s] = told[s]
    BY <1>3 DEF NotifyByCallback
  <2> QED
    BY <1>2, <2>1, Stutters
<1>4. CASE s \in callbackList
  <2>1. told'[s] = status
    BY <1>4 DEF NotifyByCallback
  <2>2. status \in Provider(s)!Notices
    BY <1>1 DEF RInv, Outcome, IInv, TypeOK, Feeds, Thread, Event, Provider!Notices
  <2>3. ASSUME status = "CONNECTED"
        PROVE  Call = "connect" /\ told[s] # "DEVICE_UNAVAILABLE"
    <3>1. t = "user" /\ itsCurrentState = "CONNECTED"
      BY <1>1, <2>3 DEF IInv, Notices, Thread
    <3>2. event["user"] = "CONNECT_REQUEST"
      BY <1>1, <2>3, <3>1 DEF RInv, Outcome, IInv, TypeOK, Feeds, Thread, Event
    <3>3. pc["monitor"] # "notify"
      BY <1>1, <3>1 DEF IInv, Owners, Thread, Ticking, TickPc
    <3>4. told[s] # "DEVICE_UNAVAILABLE"
      BY <3>1, <3>2, <3>3 DEF RInv, LossKnown
    <3> QED
      BY <1>1, <3>1, <3>2, <3>4 DEF Call, InConnect, TickPc
  <2>4. ASSUME status = "DISCONNECTED"
        PROVE  Call = "disconnect"
    <3>1. t = "user"
      BY <1>1, <2>4 DEF RInv, Outcome, Thread
    <3>2. event["user"] = "DISCONNECT_REQUEST"
      BY <1>1, <2>4, <3>1 DEF RInv, Outcome, IInv, TypeOK, Feeds, Thread, Event
    <3>3. retVal = "CONNECTION_ERROR"
      BY <1>1, <3>1, <3>2 DEF RInv, Requests, TickPc
    <3> QED
      BY <1>1, <3>1, <3>2, <3>3 DEF Call, InConnect, InDisconnect, TickPc
  <2>5. Provider(s)!Tell(status)
    BY <1>2, <2>1, <2>3, <2>4 DEF Provider!Tell, NoStatus, Provider!NoStatus
  <2> QED
    BY <2>2, <2>5 DEF Provider!ProviderNext
<1> QED
  BY <1>3, <1>4

\* A call that starts is a call of the provider.
LEMMA CallIsCall ==
  ASSUME NEW s \in Subscribers, IInv, Connect \/ Disconnect
  PROVE  [Provider(s)!ProviderNext]_(Provider(s)!providerVars)
<1>1. Call = "none" /\ UNCHANGED told
  BY DEF Connect, Disconnect, CallMethod, GoTo, Call, InConnect, InDisconnect, TickPc, notices
<1>2. ASSUME Connect PROVE Call' = "connect"
  BY <1>2 DEF Connect, CallMethod, GoTo, IInv, TypeOK, Thread, Call, InConnect, TickPc
<1>3. ASSUME Disconnect PROVE Call' = "disconnect"
  BY <1>3 DEF Disconnect, CallMethod, GoTo, IInv, TypeOK, Thread, Call, InConnect,
       InDisconnect, TickPc
<1>4. ASSUME NEW method \in {"connect", "disconnect"}, Call' = method
      PROVE  Provider(s)!CallProvider(method)
  BY <1>1, <1>4 DEF Provider!CallProvider, NoStatus, Provider!NoStatus
<1> QED
  BY <1>2, <1>3, <1>4 DEF Provider!ProviderNext

\* Between two ticks, and when the user's tick has told everybody, a subscriber
\* that is not about to hear anything knows whether there is a connection.
LEMMA KnowsConnection ==
  ASSUME NEW s \in Subscribers, IInv, pc["user"] \in {"connectCheck", "release"},
         pc["user"] = "release" \/ itsCurrentState = "CONNECTED"
  PROVE  told[s] = "CONNECTED" <=> itsCurrentState = "CONNECTED"
<1>1. s \in callbackList
  BY DEF IInv, Registration
<1>2. pc["monitor"] # "notify"
  BY DEF IInv, Notices, Owners, Thread, Ticking, TickPc
<1> QED
  BY <1>1, <1>2 DEF IInv, Notices, Agreement

\* connect() and disconnect() that find nothing to do answer, or go on to their
\* tick in the same call.
LEMMA CheckIsAnswer ==
  ASSUME NEW s \in Subscribers, IInv, RInv, ConnectCheck \/ DisconnectCheck
  PROVE  [Provider(s)!ProviderNext]_(Provider(s)!providerVars)
<1>1. retVal = "CONNECTION_ERROR" /\ UNCHANGED told
  BY DEF ConnectCheck, DisconnectCheck, CheckState, GoTo, RInv, Requests, notices
<1>2. CASE ConnectCheck /\ itsCurrentState = "CONNECTED"
  <2>1. Call = "connect" /\ Call' = "none" /\ retVal' = "CONNECTED"
    BY <1>2 DEF ConnectCheck, CheckState, GoTo, IInv, TypeOK, Thread, Call, InConnect,
         InDisconnect, TickPc
  <2>2. told[s] = "CONNECTED"
    BY <1>2, KnowsConnection DEF ConnectCheck, CheckState, GoTo
  <2>3. Provider(s)!AnswerConnect("CONNECTED")
    BY <1>1, <2>1, <2>2 DEF Provider!AnswerConnect
  <2> QED
    BY <2>3 DEF Provider!ProviderNext, Provider!ConnectAnswers
<1>3. CASE ConnectCheck /\ itsCurrentState # "CONNECTED"
  <2>1. Call = "connect" /\ Call' = "connect" /\ UNCHANGED retVal
    BY <1>3 DEF ConnectCheck, CheckState, GoTo, IInv, TypeOK, Thread, Call, InConnect, TickPc
  <2> QED
    BY <1>1, <2>1, Stutters
<1>4. CASE DisconnectCheck /\ itsCurrentState = "NO_CONNECTION"
  <2>1. Call = "disconnect" /\ Call' = "none" /\ retVal' = "DISCONNECTED"
    BY <1>4 DEF DisconnectCheck, CheckState, GoTo, IInv, TypeOK, Thread, Call, InConnect,
         InDisconnect, TickPc
  <2>2. Provider(s)!AnswerDisconnect("DISCONNECTED")
    BY <1>1, <2>1 DEF Provider!AnswerDisconnect
  <2> QED
    BY <2>2 DEF Provider!ProviderNext, Provider!DisconnectAnswers
<1>5. CASE DisconnectCheck /\ itsCurrentState # "NO_CONNECTION"
  <2>1. UNCHANGED retVal /\ pc["user"] = "disconnectCheck" /\ pc'["user"] = "tick"
         /\ event'["user"] = "DISCONNECT_REQUEST"
    BY <1>5 DEF DisconnectCheck, CheckState, GoTo, IInv, TypeOK, Thread
  <2>2. Call = "disconnect" /\ Call' = "disconnect"
    BY <1>1, <2>1 DEF Call, InConnect, InDisconnect, TickPc
  <2> QED
    BY <1>1, <2>1, <2>2, Stutters
<1> QED
  BY <1>2, <1>3, <1>4, <1>5

\* What a call answers after its tick fits what s was told.
LEMMA ReturnIsAnswer ==
  ASSUME NEW s \in Subscribers, IInv, RInv, UserReturns
  PROVE  [Provider(s)!ProviderNext]_(Provider(s)!providerVars)
<1>1. pc["user"] = "release" /\ pc'["user"] = "idle" /\ UNCHANGED told
  BY DEF UserReturns, GoTo, IInv, TypeOK, Thread, notices
<1>2. Call' = "none"
  BY <1>1 DEF Call, InConnect, InDisconnect, TickPc
<1>3. told[s] = "CONNECTED" <=> itsCurrentState = "CONNECTED"
  BY <1>1, KnowsConnection
<1>4. retVal' = TickReply(event["user"], itsCurrentState)
  BY DEF UserReturns
<1>5. CASE event["user"] = "CONNECT_REQUEST"
  <2>1. Call = "connect" /\ retVal = "CONNECTION_ERROR"
    BY <1>1, <1>5 DEF Call, InConnect, TickPc, RInv, Requests
  <2>2. retVal' = IF itsCurrentState = "CONNECTED" THEN "CONNECTED" ELSE "CONNECTION_ERROR"
    BY <1>4, <1>5, <2>1, Zenon DEF TickReply
  <2>3. Provider(s)!AnswerConnect(retVal')
    BY <1>1, <1>2, <1>3, <2>1, <2>2 DEF Provider!AnswerConnect
  <2> QED
    BY <2>2, <2>3 DEF Provider!ProviderNext, Provider!ConnectAnswers
<1>6. CASE event["user"] = "DISCONNECT_REQUEST"
  <2>1. Call = "disconnect" /\ retVal = "CONNECTION_ERROR"
    BY <1>1, <1>6 DEF Call, InConnect, InDisconnect, TickPc, RInv, Requests
  <2>2. retVal' = IF itsCurrentState = "CONNECTED" THEN "DISCONNECTED" ELSE "CONNECTION_ERROR"
    BY <1>4, <1>6, <2>1, Zenon DEF TickReply
  <2>3. Provider(s)!AnswerDisconnect(retVal')
    BY <1>1, <1>2, <2>1, <2>2 DEF Provider!AnswerDisconnect
  <2> QED
    BY <2>2, <2>3 DEF Provider!ProviderNext, Provider!DisconnectAnswers
<1>7. CASE event["user"] = "DEVICE_LOST"
  <2>1. told[s] = "DEVICE_UNAVAILABLE" /\ retVal \in {"DEVICE_UNAVAILABLE", "DISCONNECTED"}
    BY <1>1, <1>7 DEF RInv, LossTold, Requests, TickPc
  <2>2. retVal' = retVal
    BY <1>4, <1>7, Zenon DEF TickReply
  <2>3. CASE retVal = "DEVICE_UNAVAILABLE"
    <3>1. Call = "connect"
      BY <1>1, <2>3 DEF Call, InConnect, TickPc
    <3>2. Provider(s)!AnswerConnect("DEVICE_UNAVAILABLE")
      BY <1>1, <1>2, <2>1, <2>2, <2>3, <3>1 DEF Provider!AnswerConnect
    <3> QED
      BY <3>2 DEF Provider!ProviderNext, Provider!ConnectAnswers
  <2>4. CASE retVal = "DISCONNECTED"
    <3>1. Call = "disconnect"
      BY <1>1, <1>7, <2>4 DEF Call, InConnect, InDisconnect, TickPc
    <3>2. Provider(s)!AnswerDisconnect("DISCONNECTED")
      BY <1>1, <1>2, <2>2, <2>4, <3>1 DEF Provider!AnswerDisconnect
    <3> QED
      BY <3>2 DEF Provider!ProviderNext, Provider!DisconnectAnswers
  <2> QED
    BY <2>1, <2>3, <2>4
<1> QED
  BY <1>5, <1>6, <1>7 DEF IInv, TypeOK, Feeds, Thread, Event

\* All other steps are none of the provider's.
LEMMA StepOfProvider ==
  ASSUME NEW s \in Subscribers, IInv, RInv, [Next]_vars
  PROVE  [Provider(s)!ProviderNext]_(Provider(s)!providerVars)
<1> USE DEF GoTo, IInv, TypeOK, Thread, notices
<1>1. ASSUME UNCHANGED <<told, retVal, event["user"]>>,
             \/ UNCHANGED pc["user"]
             \/ pc["user"] \in TickPc /\ pc'["user"] \in TickPc
             \/ pc["user"] \in OutOfCall /\ pc'["user"] \in OutOfCall
      PROVE  UNCHANGED Provider(s)!providerVars
  BY <1>1, SameCall, Stutters
<1>2. ASSUME NEW t \in Thread, NEW from \in TickPc, NEW to \in TickPc, GoTo(t, from, to),
             UNCHANGED <<told, retVal, event>>
      PROVE  UNCHANGED Provider(s)!providerVars
  BY <1>1, <1>2
<1>3. ASSUME NEW t \in Thread, HandleEvent(t) PROVE UNCHANGED Provider(s)!providerVars
  BY <1>2, <1>3 DEF HandleEvent, RefuseConnect, ConnectOpened, OpenFailed, RestoreOpened,
       HandleDisconnect, HandleDeviceLost, TickPc
<1>4. ASSUME NEW t \in Thread, \/ Tick(t) \/ StartPowerMonitor(t) \/ PausePowerMonitor(t)
                               \/ ClosePppd(t)
      PROVE  UNCHANGED Provider(s)!providerVars
  BY <1>2, <1>4 DEF Tick, StartPowerMonitor, PausePowerMonitor, ClosePppd, TickPc
<1>5. ASSUME NEW from \in OutOfCall, NEW to \in OutOfCall, GoTo("user", from, to),
             UNCHANGED <<told, retVal, event>>
      PROVE  UNCHANGED Provider(s)!providerVars
  BY <1>1, <1>5
<1>6. ASSUME \/ FinishConstruction \/ StartUsing \/ Destroy \/ PostTerminate \/ JoinMonitor
      PROVE  UNCHANGED Provider(s)!providerVars
  BY <1>5, <1>6 DEF FinishConstruction, StartUsing, Destroy, PostTerminate, JoinMonitor,
       OutOfCall, UserPc
<1>7. ASSUME MonitorSteps, \A t \in Thread : ~StateMachineTick(t)
      PROVE  UNCHANGED Provider(s)!providerVars
  <2>1. UNCHANGED <<told, retVal, event["user"], pc["user"]>>
    BY <1>7 DEF MonitorSteps, MonitorStarts, MonitorPolls, MonitorWaits, MonitorTimesOut,
         MonitorLeaves, MonitorSamples, MonitorLoops
  <2> QED
    BY <1>1, <2>1
<1>8. ASSUME \/ Environment \/ (\E u \in Subscribers : RegisterUserCallback(u))
             \/ UNCHANGED vars
      PROVE  UNCHANGED Provider(s)!providerVars
  <2>1. UNCHANGED <<told, retVal, event, pc>>
    BY <1>8 DEF Environment, FlipCmuxReady, PppdDies, RegisterUserCallback, vars
  <2> QED
    BY <1>1, <2>1
<1> QED
  BY <1>3, <1>4, <1>6, <1>7, <1>8, NoticeIsTell, CallIsCall, CheckIsAnswer, ReturnIsAnswer
  DEF Next, UserSteps, UserCalls, MonitorSteps, StateMachineTick

\* Every state of the provider satisfies RInv too.
THEOREM ProviderInductive == Spec => [](IInv /\ RInv)
<1>1. Init => RInv
  BY DEF Init, RInv, Requests, Outcome, LossKnown, LossTold, NoStatus, Thread, TickPc
<1>2. IInv /\ RInv /\ [Next]_vars => RInv'
  BY NextOutcome, NextLoss DEF RInv
<1> QED
  BY Inductive, <1>1, <1>2, PTL DEF Spec

\* To every subscriber, PppConnection keeps the promise of a NetworkProvider.
THEOREM Implements == Spec => ImplementsProvider
<1>1. Init => \A s \in Subscribers : Provider(s)!ProviderInit
  BY DEF Init, Provider!ProviderInit, Call, InConnect, InDisconnect, Provider!NoStatus,
      NoStatus, TickPc, Thread
<1>2. IInv /\ RInv /\ [Next]_vars
        => [\A s \in Subscribers : [Provider(s)!ProviderNext]_(Provider(s)!providerVars)]_vars
  BY StepOfProvider
<1> QED
  BY ProviderInductive, <1>1, <1>2, PTL DEF Spec, ImplementsProvider
==============================================================================
