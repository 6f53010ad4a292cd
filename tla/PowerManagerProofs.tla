------------------------- MODULE PowerManagerProofs -------------------------
(***************************************************************************)
(* Proofs of the safety properties of PowerManager, for any leftovers in   *)
(* shared memory and for any multiplexer driver, whatever it answers.      *)
(***************************************************************************)
EXTENDS PowerManager, TLAPS

\* The controller owns itsLockingMutex from its wake-up to the end of its handler.
Handling == ControllerPc \ {"notStarted", "waiting"}

\* Where main is before its loop, in the order of run(); the device state is
\* set at the end of Unset.
Unset == ConstructPc \union {"startController", "initRead", "initStored", "initDevice"}

Owners ==
  /\ pc["main"] \in ConstructPc \union InitialPc \union LoopPc \union ProcessPc
  /\ pc["controller"] \in ControllerPc
  /\ pc["isr"] \in {"idle", "locking"}
  /\ eventMutex = "main" <=> pc["main"] \in ProcessPc
  /\ shmMutex = "controller" <=> pc["controller"] = "updating"
  /\ itsLockingMutex = "controller" <=> pc["controller"] \in Handling

\* What is known of the power state at each step of run(): from the end of the
\* constructor on it is defined, and so is what has been read from it.
Powers ==
  /\ pc["main"] \in ConstructPc \union {"startController"} => pc["controller"] = "notStarted"
  /\ itsPowerState = "UNDEFINED" => pc["main"] \in ConstructPc \ {"registerIsr"}
  /\ initialState = "UNDEFINED" => pc["main"] \in ConstructPc \union {"startController", "initRead"}
  /\ storedPowerState.now = "UNDEFINED"
       => pc["main"] \in ConstructPc \union {"startController", "initRead", "initStored"}

\* modemReady tells the power state, but for a leftover the constructor kept.
ModemFlag ==
  /\ pc["main"] \notin ConstructPc \ {"registerIsr"}
       => \/ modemReady <=> itsPowerState = "ENABLED"
          \/ Leftover # {FALSE} /\ itsPowerState = "DISABLED_UNPOWERED"
  /\ pc["main"] \in ConstructPc \ {"registerIsr"} /\ Leftover = {FALSE} => ~modemReady

\* The history of the device state at each step of main.
Device ==
  /\ pc["main"] \in Unset => itsDeviceState.now = "UNDEFINED"
  /\ pc["main"] \notin Unset =>
       /\ itsDeviceState.now # "UNDEFINED"
       /\ itsDeviceState.now # itsDeviceState.before
  /\ pc["main"] \in {"turnOff", "muxOff"} => itsDeviceState.now \in {"MODEM_READY", "MODEM_CMUX"}
  /\ pc["main"] \in {"settling", "publish"} => itsDeviceState.now = "MODEM_OFF"

\* The flag the clients read: with nothing left over the device state backs it
\* throughout.
Flag ==
  /\ CmuxReadyHeals
  /\ Leftover = {FALSE} => CmuxReadyBacked
  /\ pc["main"] = "muxOff" => ~cmuxReady

IInv ==
  /\ TypeOK
  /\ Owners
  /\ Powers
  /\ ModemFlag
  /\ Device
  /\ Flag

\* The object under construction.
LEMMA InitIInv == Init => IInv
<1> SUFFICES ASSUME Init PROVE IInv
  OBVIOUS
<1> USE LeftoverAssumption DEF Init, Thread, ConstructPc, InitialPc, LoopPc, ProcessPc, ControllerPc
<1>1. TypeOK
  BY DEF TypeOK, PowerState, DeviceState, Historical, HistoricalValue, Nobody
<1>2. Owners /\ Powers
  BY DEF Owners, Powers, Handling, Nobody, HistoricalValue
<1>3. ModemFlag
  BY DEF ModemFlag
<1>4. Device
  BY DEF Device, Unset, HistoricalValue
<1>5. Flag
  BY DEF Flag, CmuxReadyHeals, CmuxReadyBacked, HistoricalValue
<1> QED
  BY <1>1, <1>2, <1>3, <1>4, <1>5 DEF IInv

\* Every step preserves the types.
LEMMA NextTypeOK ==
  TypeOK /\ [Next]_vars => TypeOK'
<1> SUFFICES ASSUME TypeOK, [Next]_vars PROVE TypeOK'
  OBVIOUS
<1> USE DEF TypeOK, GoTo, Thread, pins, mutexes, powers, states, shared, ConstructPc, InitialPc, LoopPc, ProcessPc, ControllerPc,
            PowerState, DeviceState, Historical, Nobody
<1>1. ASSUME FlipPowerInd PROVE TypeOK'
  BY <1>1 DEF FlipPowerInd
<1>2. ASSUME SpuriousWakeup PROVE TypeOK'
  BY <1>2 DEF SpuriousWakeup
<1>3. ASSUME ConstructOn PROVE TypeOK'
  BY <1>3 DEF ConstructOn
<1>4. ASSUME ConstructOff PROVE TypeOK'
  BY <1>4 DEF ConstructOff
<1>5. ASSUME StabilizeResponding PROVE TypeOK'
  BY <1>5 DEF StabilizeResponding
<1>6. ASSUME StabilizeHung PROVE TypeOK'
  <2>1. modemReady' \in BOOLEAN
    BY <1>6, Zenon DEF StabilizeHung
  <2> QED
    BY <1>6, <2>1 DEF StabilizeHung
<1>7. ASSUME StabilizeOff PROVE TypeOK'
  <2>1. modemReady' \in BOOLEAN
    BY <1>7, Zenon DEF StabilizeOff
  <2> QED
    BY <1>7, <2>1 DEF StabilizeOff
<1>8. ASSUME CutPower PROVE TypeOK'
  BY <1>8 DEF CutPower
<1>9. ASSUME RestorePower PROVE TypeOK'
  BY <1>9 DEF RestorePower
<1>10. ASSUME RegisterIsr PROVE TypeOK'
  BY <1>10 DEF RegisterIsr
<1>11. ASSUME StartController PROVE TypeOK'
  BY <1>11 DEF StartController
<1>12. ASSUME ReadInitialState PROVE TypeOK'
  BY <1>12 DEF ReadInitialState
<1>13. ASSUME StoreInitialState PROVE TypeOK'
  BY <1>13 DEF StoreInitialState, SetValue
<1>14. ASSUME SetInitialDevice PROVE TypeOK'
  BY <1>14 DEF SetInitialDevice, SetValue, InitialDeviceState
<1>15. ASSUME Ignite PROVE TypeOK'
  BY <1>15 DEF Ignite
<1>16. ASSUME PowerOn PROVE TypeOK'
  BY <1>16 DEF PowerOn
<1>17. ASSUME MainWaits PROVE TypeOK'
  BY <1>17 DEF MainWaits
<1>18. ASSUME MainComputes PROVE TypeOK'
  BY <1>18 DEF MainComputes
<1>19. ASSUME WithdrawCmux PROVE TypeOK'
  <2>1. cmuxReady' \in BOOLEAN
    BY <1>19, Zenon DEF WithdrawCmux
  <2> QED
    BY <1>19, <2>1 DEF WithdrawCmux
<1>20. ASSUME MuxTurnsOff PROVE TypeOK'
  BY <1>20 DEF MuxTurnsOff, SetValue
<1>21. ASSUME MuxTurnsOn PROVE TypeOK'
  BY <1>21 DEF MuxTurnsOn, SetValue
<1>22. ASSUME PublishCmux PROVE TypeOK'
  BY <1>22 DEF PublishCmux, SetValue
<1>23. ASSUME IsrFires PROVE TypeOK'
  <2>1. edge' \in BOOLEAN
    BY <1>23, Zenon DEF IsrFires
  <2> QED
    BY <1>23, <2>1 DEF IsrFires
<1>24. ASSUME IsrSetsChanged PROVE TypeOK'
  BY <1>24 DEF IsrSetsChanged
<1>25. ASSUME ControllerWakes PROVE TypeOK'
  BY <1>25 DEF ControllerWakes
<1>26. ASSUME ReadIndication PROVE TypeOK'
  BY <1>26 DEF ReadIndication
<1>27. ASSUME StartAccess PROVE TypeOK'
  BY <1>27 DEF StartAccess
<1>28. ASSUME UpdatePowerState PROVE TypeOK'
  <2>1. modemReady' \in BOOLEAN
    BY <1>28, Zenon DEF UpdatePowerState, ModemOff, ModemOn
  <2> QED
    BY <1>28, <2>1 DEF UpdatePowerState, ModemOff, ModemOn
<1>29. ASSUME StorePowerState PROVE TypeOK'
  BY <1>29 DEF StorePowerState, SetValue, HasChanged
<1>30. ASSUME NotifyMain PROVE TypeOK'
  BY <1>30 DEF NotifyMain
<1>31. ASSUME ControllerFinishes PROVE TypeOK'
  <2>1. powerStateChanged' \in BOOLEAN
    BY <1>31, Zenon DEF ControllerFinishes
  <2> QED
    BY <1>31, <2>1 DEF ControllerFinishes
<1>32. CASE UNCHANGED vars
  BY <1>32 DEF vars
<1> QED
  BY <1>1, <1>2, <1>3, <1>4, <1>5, <1>6, <1>7, <1>8, <1>9, <1>10, <1>11, <1>12, <1>13, <1>14,
     <1>15, <1>16, <1>17, <1>18, <1>19, <1>20, <1>21, <1>22, <1>23, <1>24, <1>25, <1>26, <1>27, <1>28,
     <1>29, <1>30, <1>31, <1>32
  DEF Next, Environment, MainSteps, OwnSteps, DriverCalls, IsrSteps, ControllerSteps

\* Every step preserves the ownership of the mutexes, and a power state that has
\* been determined stays so.
LEMMA NextOwners ==
  TypeOK /\ Owners /\ Powers /\ [Next]_vars => (Owners /\ Powers)'
<1> SUFFICES ASSUME TypeOK, Owners, Powers, [Next]_vars PROVE (Owners /\ Powers)'
  OBVIOUS
<1> USE DEF TypeOK, Owners, Powers, Handling, GoTo, Thread, pins, mutexes, powers, states, shared,
            ConstructPc, InitialPc, LoopPc, ProcessPc, ControllerPc, Nobody
<1>1. ASSUME FlipPowerInd PROVE (Owners /\ Powers)'
  BY <1>1 DEF FlipPowerInd
<1>2. ASSUME SpuriousWakeup PROVE (Owners /\ Powers)'
  BY <1>2 DEF SpuriousWakeup
<1>3. ASSUME ConstructOn PROVE (Owners /\ Powers)'
  BY <1>3 DEF ConstructOn
<1>4. ASSUME ConstructOff PROVE (Owners /\ Powers)'
  BY <1>4 DEF ConstructOff
<1>5. ASSUME StabilizeResponding PROVE (Owners /\ Powers)'
  BY <1>5 DEF StabilizeResponding
<1>6. ASSUME StabilizeHung PROVE (Owners /\ Powers)'
  BY <1>6 DEF StabilizeHung
<1>7. ASSUME StabilizeOff PROVE (Owners /\ Powers)'
  BY <1>7 DEF StabilizeOff
<1>8. ASSUME CutPower PROVE (Owners /\ Powers)'
  BY <1>8 DEF CutPower
<1>9. ASSUME RestorePower PROVE (Owners /\ Powers)'
  BY <1>9 DEF RestorePower
<1>10. ASSUME RegisterIsr PROVE (Owners /\ Powers)'
  BY <1>10 DEF RegisterIsr
<1>11. ASSUME StartController PROVE (Owners /\ Powers)'
  BY <1>11 DEF StartController
<1>12. ASSUME ReadInitialState PROVE (Owners /\ Powers)'
  BY <1>12 DEF ReadInitialState
<1>13. ASSUME StoreInitialState PROVE (Owners /\ Powers)'
  BY <1>13 DEF StoreInitialState, SetValue
<1>14. ASSUME SetInitialDevice PROVE (Owners /\ Powers)'
  BY <1>14 DEF SetInitialDevice, SetValue, InitialDeviceState
<1>15. ASSUME Ignite PROVE (Owners /\ Powers)'
  BY <1>15 DEF Ignite
<1>16. ASSUME PowerOn PROVE (Owners /\ Powers)'
  BY <1>16 DEF PowerOn
<1>17. ASSUME MainWaits PROVE (Owners /\ Powers)'
  BY <1>17 DEF MainWaits
<1>18. ASSUME MainComputes PROVE (Owners /\ Powers)'
  BY <1>18 DEF MainComputes
<1>19. ASSUME WithdrawCmux PROVE (Owners /\ Powers)'
  BY <1>19 DEF WithdrawCmux
<1>20. ASSUME MuxTurnsOff PROVE (Owners /\ Powers)'
  BY <1>20 DEF MuxTurnsOff, SetValue
<1>21. ASSUME MuxTurnsOn PROVE (Owners /\ Powers)'
  BY <1>21 DEF MuxTurnsOn, SetValue
<1>22. ASSUME PublishCmux PROVE (Owners /\ Powers)'
  BY <1>22 DEF PublishCmux, SetValue
<1>23. ASSUME IsrFires PROVE (Owners /\ Powers)'
  BY <1>23 DEF IsrFires
<1>24. ASSUME IsrSetsChanged PROVE (Owners /\ Powers)'
  BY <1>24 DEF IsrSetsChanged
<1>25. ASSUME ControllerWakes PROVE (Owners /\ Powers)'
  BY <1>25 DEF ControllerWakes
<1>26. ASSUME ReadIndication PROVE (Owners /\ Powers)'
  BY <1>26 DEF ReadIndication
<1>27. ASSUME StartAccess PROVE (Owners /\ Powers)'
  BY <1>27 DEF StartAccess
<1>28. ASSUME UpdatePowerState PROVE (Owners /\ Powers)'
  BY <1>28 DEF UpdatePowerState, ModemOff, ModemOn
<1>29. ASSUME StorePowerState PROVE (Owners /\ Powers)'
  BY <1>29 DEF StorePowerState, SetValue, HasChanged
<1>30. ASSUME NotifyMain PROVE (Owners /\ Powers)'
  BY <1>30 DEF NotifyMain
<1>31. ASSUME ControllerFinishes PROVE (Owners /\ Powers)'
  BY <1>31 DEF ControllerFinishes
<1>32. CASE UNCHANGED vars
  BY <1>32 DEF vars
<1> QED
  BY <1>1, <1>2, <1>3, <1>4, <1>5, <1>6, <1>7, <1>8, <1>9, <1>10, <1>11, <1>12, <1>13, <1>14,
     <1>15, <1>16, <1>17, <1>18, <1>19, <1>20, <1>21, <1>22, <1>23, <1>24, <1>25, <1>26, <1>27, <1>28,
     <1>29, <1>30, <1>31, <1>32
  DEF Next, Environment, MainSteps, OwnSteps, DriverCalls, IsrSteps, ControllerSteps

\* Every step preserves the agreement of modemReady with the power state: the
\* handler changes both or neither.
LEMMA NextModemFlag ==
  TypeOK /\ Owners /\ Powers /\ ModemFlag /\ [Next]_vars => ModemFlag'
<1> SUFFICES ASSUME TypeOK, Owners, Powers, ModemFlag, [Next]_vars PROVE ModemFlag'
  OBVIOUS
<1> USE DEF TypeOK, Owners, Powers, ModemFlag, GoTo, Thread, pins, mutexes, powers, states, shared,
            ConstructPc, InitialPc, LoopPc, ProcessPc, ControllerPc
<1>1. ASSUME FlipPowerInd PROVE ModemFlag'
  BY <1>1 DEF FlipPowerInd
<1>2. ASSUME SpuriousWakeup PROVE ModemFlag'
  BY <1>2 DEF SpuriousWakeup
<1>3. ASSUME ConstructOn PROVE ModemFlag'
  BY <1>3 DEF ConstructOn
<1>4. ASSUME ConstructOff PROVE ModemFlag'
  BY <1>4 DEF ConstructOff
<1>5. ASSUME StabilizeResponding PROVE ModemFlag'
  BY <1>5 DEF StabilizeResponding
<1>6. ASSUME StabilizeHung PROVE ModemFlag'
  BY <1>6 DEF StabilizeHung
<1>7. ASSUME StabilizeOff PROVE ModemFlag'
  BY <1>7 DEF StabilizeOff
<1>8. ASSUME CutPower PROVE ModemFlag'
  BY <1>8 DEF CutPower
<1>9. ASSUME RestorePower PROVE ModemFlag'
  BY <1>9 DEF RestorePower
<1>10. ASSUME RegisterIsr PROVE ModemFlag'
  BY <1>10 DEF RegisterIsr
<1>11. ASSUME StartController PROVE ModemFlag'
  BY <1>11 DEF StartController
<1>12. ASSUME ReadInitialState PROVE ModemFlag'
  BY <1>12 DEF ReadInitialState
<1>13. ASSUME StoreInitialState PROVE ModemFlag'
  BY <1>13 DEF StoreInitialState, SetValue
<1>14. ASSUME SetInitialDevice PROVE ModemFlag'
  BY <1>14 DEF SetInitialDevice, SetValue, InitialDeviceState
<1>15. ASSUME Ignite PROVE ModemFlag'
  BY <1>15 DEF Ignite
<1>16. ASSUME PowerOn PROVE ModemFlag'
  BY <1>16 DEF PowerOn
<1>17. ASSUME MainWaits PROVE ModemFlag'
  BY <1>17 DEF MainWaits
<1>18. ASSUME MainComputes PROVE ModemFlag'
  BY <1>18 DEF MainComputes
<1>19. ASSUME WithdrawCmux PROVE ModemFlag'
  BY <1>19 DEF WithdrawCmux
<1>20. ASSUME MuxTurnsOff PROVE ModemFlag'
  BY <1>20 DEF MuxTurnsOff, SetValue
<1>21. ASSUME MuxTurnsOn PROVE ModemFlag'
  <2>1. PICK result \in MuxDriver : MuxTurnsOn!(result)
    BY <1>21 DEF MuxTurnsOn
  <2>2. UNCHANGED <<modemReady, itsPowerState>> /\ pc'["main"] \in {"publish", "loop"}
    BY <2>1
  <2> QED
    BY <2>2, <1>21 DEF MuxTurnsOn
<1>22. ASSUME PublishCmux PROVE ModemFlag'
  BY <1>22 DEF PublishCmux, SetValue
<1>23. ASSUME IsrFires PROVE ModemFlag'
  BY <1>23 DEF IsrFires
<1>24. ASSUME IsrSetsChanged PROVE ModemFlag'
  BY <1>24 DEF IsrSetsChanged
<1>25. ASSUME ControllerWakes PROVE ModemFlag'
  BY <1>25 DEF ControllerWakes
<1>26. ASSUME ReadIndication PROVE ModemFlag'
  BY <1>26 DEF ReadIndication
<1>27. ASSUME StartAccess PROVE ModemFlag'
  BY <1>27 DEF StartAccess
<1>28. ASSUME UpdatePowerState PROVE ModemFlag'
  BY <1>28 DEF UpdatePowerState, ModemOff, ModemOn
<1>29. ASSUME StorePowerState PROVE ModemFlag'
  BY <1>29 DEF StorePowerState, SetValue, HasChanged
<1>30. ASSUME NotifyMain PROVE ModemFlag'
  BY <1>30 DEF NotifyMain
<1>31. ASSUME ControllerFinishes PROVE ModemFlag'
  BY <1>31 DEF ControllerFinishes
<1>32. CASE UNCHANGED vars
  BY <1>32 DEF vars
<1> QED
  BY <1>1, <1>2, <1>3, <1>4, <1>5, <1>6, <1>7, <1>8, <1>9, <1>10, <1>11, <1>12, <1>13, <1>14,
     <1>15, <1>16, <1>17, <1>18, <1>19, <1>20, <1>21, <1>22, <1>23, <1>24, <1>25, <1>26, <1>27, <1>28,
     <1>29, <1>30, <1>31, <1>32
  DEF Next, Environment, MainSteps, OwnSteps, DriverCalls, IsrSteps, ControllerSteps

\* Every step preserves the history of the device state: whatever is stored
\* differs from what was there.
LEMMA NextDevice ==
  TypeOK /\ Owners /\ Powers /\ Device /\ [Next]_vars => Device'
<1> SUFFICES ASSUME TypeOK, Owners, Powers, Device, [Next]_vars PROVE Device'
  OBVIOUS
<1> USE DEF TypeOK, Owners, Powers, Device, Unset, GoTo, Thread, pins, mutexes, powers, states, shared,
            ConstructPc, InitialPc, LoopPc, ProcessPc, ControllerPc, PowerState, Historical
<1>1. ASSUME FlipPowerInd PROVE Device'
  BY <1>1 DEF FlipPowerInd
<1>2. ASSUME SpuriousWakeup PROVE Device'
  BY <1>2 DEF SpuriousWakeup
<1>3. ASSUME ConstructOn PROVE Device'
  BY <1>3 DEF ConstructOn
<1>4. ASSUME ConstructOff PROVE Device'
  BY <1>4 DEF ConstructOff
<1>5. ASSUME StabilizeResponding PROVE Device'
  BY <1>5 DEF StabilizeResponding
<1>6. ASSUME StabilizeHung PROVE Device'
  BY <1>6 DEF StabilizeHung
<1>7. ASSUME StabilizeOff PROVE Device'
  BY <1>7 DEF StabilizeOff
<1>8. ASSUME CutPower PROVE Device'
  BY <1>8 DEF CutPower
<1>9. ASSUME RestorePower PROVE Device'
  BY <1>9 DEF RestorePower
<1>10. ASSUME RegisterIsr PROVE Device'
  BY <1>10 DEF RegisterIsr
<1>11. ASSUME StartController PROVE Device'
  BY <1>11 DEF StartController
<1>12. ASSUME ReadInitialState PROVE Device'
  BY <1>12 DEF ReadInitialState
<1>13. ASSUME StoreInitialState PROVE Device'
  BY <1>13 DEF StoreInitialState, SetValue
<1>14. ASSUME SetInitialDevice PROVE Device'
  BY <1>14 DEF SetInitialDevice, SetValue, InitialDeviceState
<1>15. ASSUME Ignite PROVE Device'
  BY <1>15 DEF Ignite
<1>16. ASSUME PowerOn PROVE Device'
  BY <1>16 DEF PowerOn
<1>17. ASSUME MainWaits PROVE Device'
  BY <1>17 DEF MainWaits
<1>18. ASSUME MainComputes PROVE Device'
  BY <1>18 DEF MainComputes, ComputeEvent, HasChanged
<1>19. ASSUME WithdrawCmux PROVE Device'
  BY <1>19 DEF WithdrawCmux
<1>20. ASSUME MuxTurnsOff PROVE Device'
  BY <1>20 DEF MuxTurnsOff, SetValue
<1>21. ASSUME MuxTurnsOn PROVE Device'
  BY <1>21 DEF MuxTurnsOn, SetValue
<1>22. ASSUME PublishCmux PROVE Device'
  BY <1>22 DEF PublishCmux, SetValue
<1>23. ASSUME IsrFires PROVE Device'
  BY <1>23 DEF IsrFires
<1>24. ASSUME IsrSetsChanged PROVE Device'
  BY <1>24 DEF IsrSetsChanged
<1>25. ASSUME ControllerWakes PROVE Device'
  BY <1>25 DEF ControllerWakes
<1>26. ASSUME ReadIndication PROVE Device'
  BY <1>26 DEF ReadIndication
<1>27. ASSUME StartAccess PROVE Device'
  BY <1>27 DEF StartAccess
<1>28. ASSUME UpdatePowerState PROVE Device'
  BY <1>28 DEF UpdatePowerState, ModemOff, ModemOn
<1>29. ASSUME StorePowerState PROVE Device'
  BY <1>29 DEF StorePowerState, SetValue, HasChanged
<1>30. ASSUME NotifyMain PROVE Device'
  BY <1>30 DEF NotifyMain
<1>31. ASSUME ControllerFinishes PROVE Device'
  BY <1>31 DEF ControllerFinishes
<1>32. CASE UNCHANGED vars
  BY <1>32 DEF vars
<1> QED
  BY <1>1, <1>2, <1>3, <1>4, <1>5, <1>6, <1>7, <1>8, <1>9, <1>10, <1>11, <1>12, <1>13, <1>14,
     <1>15, <1>16, <1>17, <1>18, <1>19, <1>20, <1>21, <1>22, <1>23, <1>24, <1>25, <1>26, <1>27, <1>28,
     <1>29, <1>30, <1>31, <1>32
  DEF Next, Environment, MainSteps, OwnSteps, DriverCalls, IsrSteps, ControllerSteps

\* Every step keeps the device state behind the flag: it is set after turnOn()
\* and withdrawn before turnOff(), and a leftover goes with the first event.
LEMMA NextFlag ==
  TypeOK /\ Owners /\ Device /\ Flag /\ [Next]_vars => Flag'
<1> SUFFICES ASSUME TypeOK, Owners, Device, Flag, [Next]_vars PROVE Flag'
  OBVIOUS
<1> USE DEF TypeOK, Owners, Device, Flag, CmuxReadyHeals, CmuxReadyBacked, Unset, GoTo, Thread, pins, mutexes, powers, states, shared,
            ConstructPc, InitialPc, LoopPc, ProcessPc, ControllerPc
<1>1. ASSUME FlipPowerInd PROVE Flag'
  BY <1>1 DEF FlipPowerInd
<1>2. ASSUME SpuriousWakeup PROVE Flag'
  BY <1>2 DEF SpuriousWakeup
<1>3. ASSUME ConstructOn PROVE Flag'
  BY <1>3 DEF ConstructOn
<1>4. ASSUME ConstructOff PROVE Flag'
  BY <1>4 DEF ConstructOff
<1>5. ASSUME StabilizeResponding PROVE Flag'
  BY <1>5 DEF StabilizeResponding
<1>6. ASSUME StabilizeHung PROVE Flag'
  BY <1>6 DEF StabilizeHung
<1>7. ASSUME StabilizeOff PROVE Flag'
  BY <1>7 DEF StabilizeOff
<1>8. ASSUME CutPower PROVE Flag'
  BY <1>8 DEF CutPower
<1>9. ASSUME RestorePower PROVE Flag'
  BY <1>9 DEF RestorePower
<1>10. ASSUME RegisterIsr PROVE Flag'
  BY <1>10 DEF RegisterIsr
<1>11. ASSUME StartController PROVE Flag'
  BY <1>11 DEF StartController
<1>12. ASSUME ReadInitialState PROVE Flag'
  BY <1>12 DEF ReadInitialState
<1>13. ASSUME StoreInitialState PROVE Flag'
  BY <1>13 DEF StoreInitialState, SetValue
<1>14. ASSUME SetInitialDevice PROVE Flag'
  BY <1>14 DEF SetInitialDevice, SetValue, InitialDeviceState
<1>15. ASSUME Ignite PROVE Flag'
  BY <1>15 DEF Ignite
<1>16. ASSUME PowerOn PROVE Flag'
  BY <1>16 DEF PowerOn
<1>17. ASSUME MainWaits PROVE Flag'
  BY <1>17 DEF MainWaits
<1>18. ASSUME MainComputes PROVE Flag'
  BY <1>18 DEF MainComputes, ComputeEvent, HasChanged
<1>19. ASSUME WithdrawCmux PROVE Flag'
  BY <1>19 DEF WithdrawCmux
<1>20. ASSUME MuxTurnsOff PROVE Flag'
  BY <1>20 DEF MuxTurnsOff, SetValue
<1>21. ASSUME MuxTurnsOn PROVE Flag'
  <2>1. PICK result \in MuxDriver : MuxTurnsOn!(result)
    BY <1>21 DEF MuxTurnsOn
  <2>2. UNCHANGED <<cmuxReady, readySent>> /\ pc["main"] = "settling"
    BY <2>1
  <2>3. cmuxReady => ~readySent /\ Leftover # {FALSE}
    BY <2>2
  <2>4. pc'["main"] # "muxOff"
    BY <2>1
  <2>5. CASE result = "MUX_ON"
    <3>1. UNCHANGED itsDeviceState
      BY <2>1, <2>5
    <3> QED
      BY <2>2, <2>3, <2>4, <3>1
  <2>6. CASE result # "MUX_ON"
    <3>1. itsDeviceState'.now = "MODEM_FAILED"
      BY <2>1, <2>6 DEF SetValue
    <3> QED
      BY <2>2, <2>3, <2>4, <3>1
  <2> QED
    BY <2>5, <2>6
<1>22. ASSUME PublishCmux PROVE Flag'
  BY <1>22 DEF PublishCmux, SetValue
<1>23. ASSUME IsrFires PROVE Flag'
  BY <1>23 DEF IsrFires
<1>24. ASSUME IsrSetsChanged PROVE Flag'
  BY <1>24 DEF IsrSetsChanged
<1>25. ASSUME ControllerWakes PROVE Flag'
  BY <1>25 DEF ControllerWakes
<1>26. ASSUME ReadIndication PROVE Flag'
  BY <1>26 DEF ReadIndication
<1>27. ASSUME StartAccess PROVE Flag'
  BY <1>27 DEF StartAccess
<1>28. ASSUME UpdatePowerState PROVE Flag'
  BY <1>28 DEF UpdatePowerState, ModemOff, ModemOn
<1>29. ASSUME StorePowerState PROVE Flag'
  BY <1>29 DEF StorePowerState, SetValue, HasChanged
<1>30. ASSUME NotifyMain PROVE Flag'
  BY <1>30 DEF NotifyMain
<1>31. ASSUME ControllerFinishes PROVE Flag'
  BY <1>31 DEF ControllerFinishes
<1>32. CASE UNCHANGED vars
  BY <1>32 DEF vars
<1> QED
  BY <1>1, <1>2, <1>3, <1>4, <1>5, <1>6, <1>7, <1>8, <1>9, <1>10, <1>11, <1>12, <1>13, <1>14,
     <1>15, <1>16, <1>17, <1>18, <1>19, <1>20, <1>21, <1>22, <1>23, <1>24, <1>25, <1>26, <1>27, <1>28,
     <1>29, <1>30, <1>31, <1>32
  DEF Next, Environment, MainSteps, OwnSteps, DriverCalls, IsrSteps, ControllerSteps

\* The invariant holds in every state of every behaviour.
THEOREM Inductive == Spec => []IInv
<1>1. IInv /\ [Next]_vars => IInv'
  BY NextTypeOK, NextOwners, NextModemFlag, NextDevice, NextFlag DEF IInv
<1> QED
  BY InitIInv, <1>1, PTL DEF Spec

\* Every variable keeps its type.
THEOREM TypeCorrect == Spec => []TypeOK
<1>1. IInv => TypeOK
  BY DEF IInv
<1> QED
  BY Inductive, <1>1, PTL

\* computeEvent() never drops an event for want of a change of the device state.
LEMMA GateOpen == IInv => EventGateIsOpen
BY DEF IInv, Device, EventGateIsOpen, Unset, ConstructPc, LoopPc, HasChanged

THEOREM GateIsOpen == Spec => []EventGateIsOpen
BY Inductive, GateOpen, PTL

\* After a fresh boot modemReady tells whether the modem is ENABLED.
THEOREM ModemReadyMatches ==
  ASSUME Leftover = {FALSE}
  PROVE  Spec => []ModemReadyMatchesPowerState
<1>1. IInv => ModemReadyMatchesPowerState
  BY DEF IInv, ModemFlag, ModemReadyMatchesPowerState
<1> QED
  BY Inductive, <1>1, PTL

\* After a restart a stale modemReady lasts at most while DISABLED_UNPOWERED.
LEMMA ModemReadyHealed == IInv => ModemReadyHeals
BY DEF IInv, ModemFlag, ModemReadyHeals

THEOREM ModemReadyHealing == Spec => []ModemReadyHeals
BY Inductive, ModemReadyHealed, PTL

\* After a fresh boot cmuxReady is on only in MODEM_CMUX, and never when the
\* driver is called.
THEOREM CmuxReadyBackedAfterBoot ==
  ASSUME Leftover = {FALSE}
  PROVE  Spec => []CmuxReadyBacked
<1>1. IInv => CmuxReadyBacked
  BY DEF IInv, Flag
<1> QED
  BY Inductive, <1>1, PTL

\* After a restart the same holds from the first event on, but for a first
\* turnOn() that fails.
LEMMA CmuxReadyHealed == IInv => CmuxReadyHeals
BY DEF IInv, Flag

THEOREM CmuxReadyHealing == Spec => []CmuxReadyHeals
BY Inductive, CmuxReadyHealed, PTL

\* The device state changes in four places, and never back from MODEM_FAILED nor
\* straight from MODEM_READY to MODEM_CMUX.
LEMMA DeviceSteps ==
  ASSUME IInv, [Next]_vars
  PROVE  /\ itsDeviceState.now = "MODEM_FAILED" => itsDeviceState'.now = "MODEM_FAILED"
         /\ itsDeviceState.now = "MODEM_READY"
              => itsDeviceState'.now \in {"MODEM_READY", "MODEM_OFF"}
<1> USE DEF IInv, Device, states
<1>1. CASE SetInitialDevice
  BY <1>1 DEF SetInitialDevice, GoTo, Unset
<1>2. CASE MuxTurnsOff
  BY <1>2 DEF MuxTurnsOff, SetValue, GoTo
<1>3. CASE MuxTurnsOn
  BY <1>3 DEF MuxTurnsOn, SetValue, GoTo
<1>4. CASE PublishCmux
  BY <1>4 DEF PublishCmux, SetValue, GoTo
<1>5. CASE \/ ConstructOn \/ ConstructOff \/ StabilizeResponding \/ StabilizeHung
           \/ StabilizeOff \/ CutPower \/ RestorePower \/ RegisterIsr \/ StartController
           \/ ReadInitialState \/ StoreInitialState \/ Ignite \/ PowerOn
           \/ MainWaits \/ MainComputes \/ WithdrawCmux
  BY <1>5 DEF ConstructOn, ConstructOff, StabilizeResponding, StabilizeHung, StabilizeOff,
       CutPower, RestorePower, RegisterIsr, StartController, ReadInitialState,
       StoreInitialState, Ignite, PowerOn, MainWaits, MainComputes, WithdrawCmux
<1>6. CASE Environment \/ IsrSteps \/ ControllerSteps \/ UNCHANGED vars
  BY <1>6 DEF Environment, FlipPowerInd, SpuriousWakeup, IsrSteps, IsrFires, IsrSetsChanged,
       ControllerSteps, ControllerWakes, ReadIndication, StartAccess, UpdatePowerState,
       StorePowerState, NotifyMain, ControllerFinishes, vars
<1> QED
  BY <1>1, <1>2, <1>3, <1>4, <1>5, <1>6 DEF Next, MainSteps, OwnSteps, DriverCalls

\* A modem that has failed once is given up.
THEOREM FailureIsFinal == Spec => FailedIsFinal
<1>1. IInv /\ [Next]_vars
        => [itsDeviceState.now = "MODEM_FAILED" => itsDeviceState'.now = "MODEM_FAILED"]_vars
  BY DeviceSteps
<1> QED
  BY Inductive, <1>1, PTL DEF Spec, FailedIsFinal

\* A modem found on gets no multiplexer before it has been off.
THEOREM ReadyOffFirst == Spec => ReadyGoesOffFirst
<1>1. IInv /\ [Next]_vars
        => [itsDeviceState.now = "MODEM_READY"
              => itsDeviceState'.now \in {"MODEM_READY", "MODEM_OFF"}]_vars
  BY DeviceSteps
<1> QED
  BY Inductive, <1>1, PTL DEF Spec, ReadyGoesOffFirst

\* Main and the interrupt thread wait for the controller only, the controller for
\* main only, and never while it holds what main may wait for.
LEMMA Waits ==
  ASSUME TypeOK, Owners
  PROVE  /\ WaitsFor("isr") \subseteq {"controller"}
         /\ WaitsFor("main") \subseteq {"controller"}
         /\ WaitsFor("controller") \subseteq {"main"}
         /\ WaitsFor("controller") = {} \/ WaitsFor("main") = {}
<1> USE DEF TypeOK, Owners, Handling, Thread, Nobody, WaitsFor,
            ConstructPc, InitialPc, LoopPc, ProcessPc, ControllerPc
<1>1. WaitsFor("isr") \subseteq {"controller"}
  OBVIOUS
<1>2. WaitsFor("main") \subseteq {"controller"}
  OBVIOUS
<1>3. WaitsFor("controller") \subseteq {"main"}
  OBVIOUS
<1>4. ASSUME "main" \in WaitsFor("controller") PROVE "controller" \notin WaitsFor("main")
  BY <1>4
<1> QED
  BY <1>1, <1>2, <1>3, <1>4

LEMMA CircleFree == IInv => NoCircularWait
<1> SUFFICES ASSUME IInv, NEW S \in SUBSET Thread, S # {}
             PROVE  \E t \in S : WaitsFor(t) \cap S = {}
  BY DEF NoCircularWait
<1>1. CASE "controller" \notin S
  BY <1>1, Waits DEF IInv, Thread
<1>2. CASE "controller" \in S /\ WaitsFor("controller") \cap S # {}
  <2>1. "main" \in S /\ WaitsFor("main") = {}
    BY <1>2, Waits DEF IInv
  <2> QED
    BY <2>1
<1> QED
  BY <1>1, <1>2

\* The three mutexes are never waited for around a circle (onPowerIndChange is
\* called after endAccess).
THEOREM NoCircle == Spec => []NoCircularWait
BY Inductive, CircleFree, PTL
==============================================================================
