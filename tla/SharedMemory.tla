----------------------------- MODULE SharedMemory -----------------------------
(***************************************************************************)
(* SharedMemory: the segment /sgm_shared, through which SGMpowermgr tells  *)
(* the other processes about the modem.  Whoever finds no segment creates  *)
(* and initialises it; the others open it as it is.  It outlives them all  *)
(* until the next boot.                                                    *)
(*                                                                         *)
(* A process that accesses the segment does so in threads, each with a     *)
(* flag of its own: in SGMpowermgr main sets isCmuxReady and the           *)
(* controller isModemReady.  SGMsink reads isCmuxReady without the mutex.  *)
(* Any process may be killed at any step.  The mutex is an ordinary one:   *)
(* one whose owner has died stays locked.                                  *)
(***************************************************************************)
CONSTANTS
  Process,
  Thread,     \* the threads that call startAccess() and endAccess()
  ProcessOf,  \* the process of each of them
  Free, Dead  \* the mutex: free, or owned by a thread that has died

ASSUME SharedMemoryAssumption ==
  /\ ProcessOf \in [Thread -> Process]
  /\ {Free, Dead} \intersect Thread = {}
  /\ Free # Dead

VARIABLES
  exists,         \* is there a segment of that name?
  sized,          \* has it been extended to the size of SGMShared_t?
  mutex,          \* the owner: a thread, Free or Dead
  flag,           \* isCmuxReady and isModemReady, by the thread that sets it
  lastSet,        \* the value it was last set to since the segment exists
  usedEarly,      \* history: somebody went to use it before its creator was through
  isInitialized,  \* of each process: it has opened an existing segment
  pc,             \* of each process
  access          \* of each thread

segment == <<exists, sized, mutex, flag, lastSet, usedEarly>>
vars == <<segment, isInitialized, pc, access>>

InitPc == {"open", "truncate", "map", "initMutex", "initFlags"}

NoFlags == [t \in Thread |-> FALSE]

Init ==
  /\ exists = FALSE
  /\ sized = FALSE
  /\ mutex = Free
  /\ flag = NoFlags
  /\ lastSet = NoFlags
  /\ usedEarly = FALSE
  /\ isInitialized = [p \in Process |-> FALSE]
  /\ pc = [p \in Process |-> "down"]
  /\ access = [t \in Thread |-> "out"]

GoTo(p, from, to) ==
  /\ pc[p] = from
  /\ pc' = [pc EXCEPT ![p] = to]

------------------------------------------------------------------------------
(* Processes. *)

Start(p) ==
  /\ GoTo(p, "down", "open")
  /\ UNCHANGED <<segment, isInitialized, access>>

\* The end of a process, in the middle of whatever it does.
Ends(p) ==
  /\ pc' = [pc EXCEPT ![p] = "down"]
  /\ isInitialized' = [isInitialized EXCEPT ![p] = FALSE]
  /\ access' = [t \in Thread |-> IF ProcessOf[t] = p THEN "out" ELSE access[t]]

Kill(p) ==
  /\ pc[p] # "down"
  /\ Ends(p)
  /\ mutex' = IF \E t \in Thread : mutex = t /\ ProcessOf[t] = p THEN Dead ELSE mutex
  /\ UNCHANGED <<exists, sized, flag, lastSet, usedEarly>>

Reboot ==
  /\ exists' = FALSE
  /\ sized' = FALSE
  /\ mutex' = Free
  /\ flag' = NoFlags
  /\ lastSet' = NoFlags
  /\ usedEarly' = FALSE
  /\ isInitialized' = [p \in Process |-> FALSE]
  /\ pc' = [p \in Process |-> "down"]
  /\ access' = [t \in Thread |-> "out"]

------------------------------------------------------------------------------
(* init(). *)

\* shm_open with O_EXCL succeeds: a new segment is of size zero ...
Create(p) ==
  /\ GoTo(p, "open", "truncate")
  /\ ~exists
  /\ exists' = TRUE
  /\ UNCHANGED <<sized, mutex, flag, lastSet, usedEarly, isInitialized, access>>

\* Mutant: the process does not note that the segment was there.
OpenExistingUnnoted(p) ==
  /\ GoTo(p, "open", "truncate")
  /\ exists
  /\ UNCHANGED <<segment, isInitialized, access>>

\* Mutant: only the creator gives the segment its size.
OpenExistingSized(p) ==
  /\ GoTo(p, "open", "map")
  /\ exists
  /\ isInitialized' = [isInitialized EXCEPT ![p] = TRUE]
  /\ UNCHANGED <<segment, access>>

\* ... or with EEXIST, and the segment is opened as it is.
OpenExisting(p) ==
  /\ GoTo(p, "open", "truncate")
  /\ exists
  /\ isInitialized' = [isInitialized EXCEPT ![p] = TRUE]
  /\ UNCHANGED <<segment, access>>

\* ftruncate fills with zeros, which are a free mutex and two false flags.
Truncate(p) ==
  /\ GoTo(p, "truncate", "map")
  /\ sized' = TRUE
  /\ UNCHANGED <<exists, mutex, flag, lastSet, usedEarly, isInitialized, access>>

\* p has created the segment and is not through with its init().
Creator(p) ==
  pc[p] \in {"initMutex", "initFlags"} \/ (pc[p] \in {"truncate", "map"} /\ ~isInitialized[p])

\* Whoever has opened the segment goes on to use it without looking whether its
\* creator has got as far as initData().
Map(p) ==
  /\ GoTo(p, "map", IF isInitialized[p] THEN "running" ELSE "initMutex")
  /\ usedEarly' = (usedEarly \/ (isInitialized[p] /\ \E q \in Process : Creator(q)))
  /\ UNCHANGED <<exists, sized, mutex, flag, lastSet, isInitialized, access>>

\* initData(): the mutex first ...
InitMutex(p) ==
  /\ GoTo(p, "initMutex", "initFlags")
  /\ mutex' = Free
  /\ UNCHANGED <<exists, sized, flag, lastSet, usedEarly, isInitialized, access>>

\* ... then the flags.
InitFlags(p) ==
  /\ GoTo(p, "initFlags", "running")
  /\ flag' = NoFlags
  /\ UNCHANGED <<exists, sized, mutex, lastSet, usedEarly, isInitialized, access>>

\* Any of the calls fails: INIT_ERROR, and main() returns.
InitFails(p) ==
  /\ pc[p] \in {"open", "truncate", "map"}
  /\ Ends(p)
  /\ UNCHANGED segment

------------------------------------------------------------------------------
(* Accesses. *)

StartAccess(t) ==
  /\ pc[ProcessOf[t]] = "running"
  /\ access[t] = "out"
  /\ access' = [access EXCEPT ![t] = "waiting"]
  /\ UNCHANGED <<segment, isInitialized, pc>>

Lock(t) ==
  /\ access[t] = "waiting"
  /\ mutex = Free
  /\ mutex' = t
  /\ access' = [access EXCEPT ![t] = "in"]
  /\ UNCHANGED <<exists, sized, flag, lastSet, usedEarly, isInitialized, pc>>

\* setModemReady() or setCmuxReady().
SetFlag(t, value) ==
  /\ access[t] = "in"
  /\ flag' = [flag EXCEPT ![t] = value]
  /\ lastSet' = [lastSet EXCEPT ![t] = value]
  /\ access' = [access EXCEPT ![t] = "set"]
  /\ UNCHANGED <<exists, sized, mutex, usedEarly, isInitialized, pc>>

\* Mutant: the mutex is left locked.
EndAccessLocked(t) ==
  /\ access[t] = "set"
  /\ access' = [access EXCEPT ![t] = "out"]
  /\ UNCHANGED <<segment, isInitialized, pc>>

\* Unlocking an ordinary mutex frees it, whoever owns it.
EndAccess(t) ==
  /\ access[t] = "set"
  /\ mutex' = Free
  /\ access' = [access EXCEPT ![t] = "out"]
  /\ UNCHANGED <<exists, sized, flag, lastSet, usedEarly, isInitialized, pc>>

------------------------------------------------------------------------------
Inits(p) ==
  Create(p) \/ OpenExisting(p) \/ Truncate(p) \/ Map(p) \/ InitMutex(p) \/ InitFlags(p)

Within(t) == Lock(t) \/ (\E value \in BOOLEAN : SetFlag(t, value)) \/ EndAccess(t)

Next ==
  \/ \E p \in Process : Start(p) \/ Kill(p) \/ Inits(p) \/ InitFails(p)
  \/ \E t \in Thread : StartAccess(t) \/ Within(t)
  \/ Reboot

\* A thread leaves the access it is in, and gets a mutex that is free again and
\* again.  Nobody has to start, to be killed, or to begin an access.
Fairness == \A t \in Thread : SF_vars(Within(t))

Spec == Init /\ [][Next]_vars /\ Fairness

------------------------------------------------------------------------------
(* Properties. *)

\* Every variable has its type.
TypeOK ==
  /\ exists \in BOOLEAN
  /\ sized \in BOOLEAN
  /\ mutex \in Thread \union {Free, Dead}
  /\ flag \in [Thread -> BOOLEAN]
  /\ lastSet \in [Thread -> BOOLEAN]
  /\ usedEarly \in BOOLEAN
  /\ isInitialized \in [Process -> BOOLEAN]
  /\ pc \in [Process -> InitPc \union {"down", "running"}]
  /\ access \in [Thread -> {"out", "waiting", "in", "set"}]

\* Between startAccess() and endAccess() a thread owns the mutex, so that it is
\* alone there, whichever processes start, open the segment, fail or die.  Only one
\* thing can take the mutex from it, and the code does nothing against that: the
\* late initData() of a creator that somebody has overtaken.
AccessOwnsMutex ==
  usedEarly \/ \A t \in Thread : access[t] \in {"in", "set"} => mutex = t

\* Every flag has the value it was last set to, by whichever run of its process: no
\* start takes back what another process has told.  Only an overtaken creator's
\* initData() does, and it can leave a flag wrongly off, never wrongly on.
FlagsTellLastSet ==
  \A t \in Thread : flag[t] = lastSet[t] \/ (usedEarly /\ ~flag[t])

\* Whoever has mapped the segment finds it in full size, although its creator may
\* have been killed, or have failed, before it gave it one.
SizedBeforeUse == \A p \in Process : pc[p] \in {"initMutex", "initFlags", "running"} => sized

\* Only a process killed within an access can keep another thread waiting in
\* startAccess() for ever, or the initData() of a creator that was overtaken: to
\* reset a mutex that is in use is undefined, and need not wake who waits for it.
AccessGranted ==
  \A t \in Thread :
    access[t] = "waiting" ~> access[t] # "waiting" \/ mutex = Dead \/ usedEarly
===============================================================================
