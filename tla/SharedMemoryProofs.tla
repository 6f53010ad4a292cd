-------------------------- MODULE SharedMemoryProofs --------------------------
(***************************************************************************)
(* The safety properties of SharedMemory, for any processes and threads    *)
(* that start whenever they like.  What a creator's initData() would reset *)
(* is not in use unless somebody has overtaken it (usedEarly).             *)
(***************************************************************************)
EXTENDS SharedMemory, TLAPS

\* A segment has one creator.
OneCreator == \A p, q \in Process : Creator(p) /\ Creator(q) => p = q

\* A segment that does not exist is unused; so is one that is being created, as
\* long as nobody has overtaken its creator.
Unused ==
  /\ ~exists => mutex = Free /\ lastSet = NoFlags /\ flag = NoFlags
  /\ ~exists => \A p \in Process : pc[p] \in {"down", "open"}
  /\ \A p \in Process : Creator(p) /\ ~usedEarly =>
       lastSet = NoFlags /\ \A q \in Process : pc[q] # "running"

\* Only a process that is through with init() makes accesses.
Running == \A t \in Thread : access[t] # "out" => pc[ProcessOf[t]] = "running"

\* ftruncate comes before mmap.
Sized == \A p \in Process : pc[p] \in {"map", "initMutex", "initFlags", "running"} => sized

IInv == TypeOK /\ OneCreator /\ Unused /\ Running /\ Sized /\ AccessOwnsMutex /\ FlagsTellLastSet

LEMMA InitIInv == Init => IInv
<1> SUFFICES ASSUME Init
             PROVE  IInv
  OBVIOUS
<1>1. TypeOK
  BY SharedMemoryAssumption DEF Init, TypeOK, NoFlags
<1>2. OneCreator /\ Running /\ Sized /\ AccessOwnsMutex
  BY SharedMemoryAssumption DEF Init, OneCreator, Creator, Running, Sized, AccessOwnsMutex, InitPc
<1>3. Unused /\ FlagsTellLastSet
  BY DEF Init, Unused, FlagsTellLastSet, Creator
<1>. QED
  BY <1>1, <1>2, <1>3 DEF IInv

\* Every step keeps the types.
LEMMA NextTypeOK == TypeOK /\ [Next]_vars => TypeOK'
<1> SUFFICES ASSUME TypeOK, [Next]_vars
             PROVE  TypeOK'
  OBVIOUS
<1> USE SharedMemoryAssumption DEF TypeOK, InitPc
<1>1. ASSUME NEW p \in Process, Start(p) \/ Kill(p) \/ Inits(p) \/ InitFails(p)
      PROVE  TypeOK'
  BY <1>1 DEF Start, Kill, Ends, Inits, Create, OpenExisting, Truncate, Map, InitMutex,
    InitFlags, InitFails, GoTo, NoFlags, segment
<1>2. ASSUME NEW t \in Thread, StartAccess(t) \/ Within(t)
      PROVE  TypeOK'
  BY <1>2 DEF StartAccess, Within, Lock, SetFlag, EndAccess, segment
<1>3. CASE Reboot
  BY <1>3 DEF Reboot, NoFlags
<1>4. CASE UNCHANGED vars
  BY <1>4 DEF vars, segment
<1>. QED
  BY <1>1, <1>2, <1>3, <1>4 DEF Next

\* A process that starts has touched nothing yet.
LEMMA StartIInv ==
  ASSUME IInv, NEW p \in Process, Start(p)
  PROVE  (OneCreator /\ Unused /\ Running /\ Sized /\ AccessOwnsMutex /\ FlagsTellLastSet)'
<1> USE SharedMemoryAssumption DEF IInv, TypeOK, Start, GoTo, segment, InitPc
<1>1. OneCreator' /\ Sized'
  BY DEF OneCreator, Creator, Sized
<1>2. Unused'
  BY DEF Unused, Creator
<1>3. Running' /\ AccessOwnsMutex' /\ FlagsTellLastSet'
  BY DEF Running, AccessOwnsMutex, FlagsTellLastSet
<1>. QED
  BY <1>1, <1>2, <1>3

\* A process that ends takes its threads with it; its mutex stays locked.
LEMMA EndIInv ==
  ASSUME IInv, NEW p \in Process, Kill(p) \/ InitFails(p)
  PROVE  (OneCreator /\ Unused /\ Running /\ Sized /\ AccessOwnsMutex /\ FlagsTellLastSet)'
<1> USE SharedMemoryAssumption DEF IInv, TypeOK, Kill, InitFails, Ends, segment, InitPc
<1>1. OneCreator' /\ Sized' /\ FlagsTellLastSet'
  BY DEF OneCreator, Creator, Sized, FlagsTellLastSet
<1>2. Running'
  BY DEF Running
<1>3. AccessOwnsMutex'
  BY DEF AccessOwnsMutex
<1>4. ~exists => mutex' = Free
  BY DEF Unused
<1>5. Unused'
  BY <1>4 DEF Unused, Creator
<1>. QED
  BY <1>1, <1>2, <1>3, <1>5

\* While the creator is in init() nobody uses the segment, or usedEarly tells, so
\* that initData() takes nothing back.
LEMMA InitsIInv ==
  ASSUME IInv, NEW p \in Process, Inits(p)
  PROVE  (OneCreator /\ Unused /\ Running /\ Sized /\ AccessOwnsMutex /\ FlagsTellLastSet)'
<1> USE SharedMemoryAssumption DEF IInv, TypeOK, Inits, Create, OpenExisting, Truncate, Map,
      InitMutex, InitFlags, GoTo, segment, InitPc
<1>1. OneCreator'
  BY DEF OneCreator, Creator, Unused
<1>2. Sized'
  BY DEF Sized
<1>3. Running'
  BY DEF Running
<1>4. Unused'
  BY DEF Unused, Creator, OneCreator
<1>5. AccessOwnsMutex'
  <2>1. CASE InitMutex(p)
    <3>1. ~usedEarly => \A t \in Thread : access[t] = "out"
      BY <2>1 DEF Unused, Creator, Running
    <3>. QED
      BY <2>1, <3>1 DEF AccessOwnsMutex
  <2>2. CASE ~InitMutex(p)
    BY <2>2 DEF AccessOwnsMutex
  <2>. QED
    BY <2>1, <2>2
<1>6. FlagsTellLastSet'
  <2>1. CASE InitFlags(p)
    <3>1. ~usedEarly => lastSet = NoFlags
      BY <2>1 DEF Unused, Creator
    <3>. QED
      BY <2>1, <3>1 DEF FlagsTellLastSet, NoFlags
  <2>2. CASE ~InitFlags(p)
    BY <2>2 DEF FlagsTellLastSet
  <2>. QED
    BY <2>1, <2>2
<1>. QED
  BY <1>1, <1>2, <1>3, <1>4, <1>5, <1>6

\* An access needs the mutex, and an initialised segment.
LEMMA AccessIInv ==
  ASSUME IInv, NEW t \in Thread, StartAccess(t) \/ Within(t)
  PROVE  (OneCreator /\ Unused /\ Running /\ Sized /\ AccessOwnsMutex /\ FlagsTellLastSet)'
<1> USE SharedMemoryAssumption DEF IInv, TypeOK, StartAccess, Within, Lock, SetFlag, EndAccess,
      segment
<1>1. ProcessOf[t] \in Process /\ pc[ProcessOf[t]] = "running"
  BY DEF Running
<1>2. OneCreator' /\ Sized'
  BY DEF OneCreator, Creator, Sized
<1>3. Running'
  BY <1>1 DEF Running
<1>4. Unused'
  BY <1>1 DEF Unused, Creator
<1>5. AccessOwnsMutex'
  BY DEF AccessOwnsMutex
<1>6. FlagsTellLastSet'
  BY DEF FlagsTellLastSet
<1>. QED
  BY <1>2, <1>3, <1>4, <1>5, <1>6

LEMMA RebootIInv ==
  ASSUME IInv, Reboot
  PROVE  (OneCreator /\ Unused /\ Running /\ Sized /\ AccessOwnsMutex /\ FlagsTellLastSet)'
<1> USE SharedMemoryAssumption DEF IInv, TypeOK, Reboot
<1>1. OneCreator' /\ Running' /\ Sized' /\ AccessOwnsMutex'
  BY DEF OneCreator, Creator, Running, Sized, AccessOwnsMutex, InitPc
<1>2. Unused' /\ FlagsTellLastSet'
  BY DEF Unused, FlagsTellLastSet, Creator, NoFlags
<1>. QED
  BY <1>1, <1>2

\* Every step keeps the invariant.
LEMMA NextIInv == IInv /\ [Next]_vars => IInv'
<1> SUFFICES ASSUME IInv, [Next]_vars
             PROVE  IInv'
  OBVIOUS
<1>1. TypeOK'
  BY NextTypeOK DEF IInv
<1>2. (OneCreator /\ Unused /\ Running /\ Sized /\ AccessOwnsMutex /\ FlagsTellLastSet)'
  <2>1. CASE UNCHANGED vars
    BY <2>1 DEF vars, segment, IInv, OneCreator, Unused, Creator, Running, Sized,
      AccessOwnsMutex, FlagsTellLastSet
  <2>. QED
    BY <2>1, StartIInv, EndIInv, InitsIInv, AccessIInv, RebootIInv DEF Next
<1>. QED
  BY <1>1, <1>2 DEF IInv

\* The invariant holds in every state of every behaviour.
THEOREM Inductive == Spec => []IInv
<1>1. IInv /\ [Next]_vars => IInv'
  BY NextIInv
<1>. QED
  BY InitIInv, <1>1, PTL DEF Spec

\* Every variable has its type.
THEOREM TypeCorrect == Spec => []TypeOK
<1>1. Init => TypeOK
  BY InitIInv DEF IInv
<1>. QED
  BY <1>1, NextTypeOK, PTL DEF Spec

\* A thread within an access owns the mutex and is alone there, unless the creator
\* of the segment was overtaken.
THEOREM AccessExclusive == Spec => []AccessOwnsMutex
<1>1. Spec => []IInv
  BY Inductive
<1>. QED
  BY <1>1, PTL DEF IInv

\* Nobody's flag is taken back by another process, but by a creator that was
\* overtaken, which can only turn it off.
THEOREM FlagsKept == Spec => []FlagsTellLastSet
<1>1. Spec => []IInv
  BY Inductive
<1>. QED
  BY <1>1, PTL DEF IInv

\* Whoever has mapped the segment finds it in full size.
THEOREM SizedWhenUsed == Spec => []SizedBeforeUse
<1>1. Spec => []IInv
  BY Inductive
<1>2. IInv => SizedBeforeUse
  BY DEF IInv, Sized, SizedBeforeUse
<1>. QED
  BY <1>1, <1>2, PTL
===============================================================================
