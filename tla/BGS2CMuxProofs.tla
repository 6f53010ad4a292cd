---------------------------- MODULE BGS2CMuxProofs ----------------------------
(***************************************************************************)
(* The safety properties of BGS2CMux, for every number of nodes.           *)
(***************************************************************************)
EXTENDS BGS2CMux, TLAPS

\* Which call is in progress, and what it has on the serial port by then.
Port ==
  /\ pc \in {"cleanup", "open"} => called = "turnOn" /\ opened = 0
  /\ pc \in {"configure", "at", "discipline", "conf", "major", "nodes"} =>
       called = "turnOn" /\ serial_fd = "port" /\ opened = 1
  /\ pc \in {"remove", "close"} => called = "turnOff"
  /\ pc = "idle" /\ called \in {"none", "turnOff"} => opened = 0
  /\ pc = "idle" /\ called = "none" => serial_fd = "none"
  /\ pc = "idle" /\ called = "turnOn" => (serial_fd = "port" <=> opened = 1)

\* The discipline is attached to an open port only.
Discipline ==
  /\ attached => opened = 1
  /\ pc \in {"conf", "major", "nodes"} => attached

\* The nodes removed so far.
Removed ==
  /\ pc \in {"cleanup", "remove"} => \A n \in Node : n < step => node[n] = Missing
  /\ pc = "open" => node[1] = Missing
  /\ pc = "close" => \A n \in Node : node[n] = Missing

IInv ==
  /\ TypeOK
  /\ Port
  /\ Discipline
  /\ Removed
  /\ ClosesItsOwn
  /\ FirstNodeHasMux
  /\ TurnedOffLeavesNoNode

LEMMA InitIInv == Init => IInv
<1> SUFFICES ASSUME Init
             PROVE  IInv
  OBVIOUS
<1>1. TypeOK
  <2>1. node \in [Node -> Major \union {Missing}] /\ major \in Major
    BY DEF Init, Major
  <2>2. step \in Nat \ {0} /\ opened \in {0, 1}
    BY DEF Init
  <2>4. attached \in BOOLEAN
    BY Zenon DEF Init
  <2>3. pc \in Pc /\ pc \notin {"cleanup", "nodes", "remove"}
    BY DEF Init, Pc
  <2>. QED
    BY <2>1, <2>2, <2>3, <2>4 DEF Init, TypeOK
<1>2. Port /\ Discipline /\ Removed
  BY DEF Init, Port, Discipline, Removed
<1>3. ClosesItsOwn /\ FirstNodeHasMux /\ TurnedOffLeavesNoNode
  BY DEF Init, ClosesItsOwn, FirstNodeHasMux, TurnedOffLeavesNoNode
<1>. QED
  BY <1>1, <1>2, <1>3 DEF IInv

\* One turn of remove_nodes() removes one node more, and the last turn all of them.
LEMMA RemoveNodeIInv ==
  ASSUME IInv, NEW from, NEW to,
         \/ from = "cleanup" /\ to = "open"
         \/ from = "remove" /\ to = "close",
         RemoveNode(from, to)
  PROVE  IInv'
<1> USE NumNodesAssumption DEF RemoveNode, Loop, IInv, TypeOK, Node, Pc, Major
<1>1. TypeOK'
  OBVIOUS
<1>2. \A n \in Node : n <= step => node'[n] = Missing
  BY DEF Removed
<1>3. Port' /\ Discipline' /\ ClosesItsOwn'
  BY DEF Port, Discipline, ClosesItsOwn
<1>4. Removed'
  BY <1>2 DEF Removed
<1>5. FirstNodeHasMux'
  BY <1>2, 1 \in Node DEF FirstNodeHasMux
<1>6. TurnedOffLeavesNoNode'
  BY DEF TurnedOffLeavesNoNode
<1>. QED
  BY <1>1, <1>3, <1>4, <1>5, <1>6

\* So does every other step.
LEMMA ActionIInv ==
  ASSUME IInv,
         \/ TurnOn \/ TurnOff \/ OpenSerial \/ OpenFails \/ Configure \/ SendAt
         \/ SetDiscipline \/ SetConf \/ StepFails \/ GetMajor \/ MakeNode
         \/ CloseSerial \/ Restart
  PROVE  IInv'
<1> USE NumNodesAssumption DEF IInv, TypeOK, Port, Discipline, Removed, ClosesItsOwn,
      FirstNodeHasMux, TurnedOffLeavesNoNode, Pc, Node, Major,
      GoTo, files
<1>1. CASE TurnOn
  BY <1>1 DEF TurnOn, EnterTurnOn
<1>2. CASE TurnOff
  BY <1>2 DEF TurnOff, EnterTurnOff
<1>3. CASE OpenSerial
  BY <1>3 DEF OpenSerial
<1>4. CASE OpenFails
  BY <1>4 DEF OpenFails, Fail
<1>5. CASE Configure
  BY <1>5 DEF Configure
<1>6. CASE SendAt
  BY <1>6 DEF SendAt, Loop, Commands
<1>7. CASE SetDiscipline
  BY <1>7 DEF SetDiscipline
<1>8. CASE SetConf
  BY <1>8 DEF SetConf
<1>9. CASE StepFails
  BY <1>9 DEF StepFails, Fail
<1>10. CASE GetMajor
  BY <1>10 DEF GetMajor
<1>11. CASE MakeNode
  BY <1>11 DEF MakeNode, Loop
<1>12. CASE CloseSerial
  <2>1. opened' = 0
    BY <1>12 DEF CloseSerial
  <2>2. ~(opened' > 0)
    BY <2>1
  <2>3. attached' \in BOOLEAN /\ ~attached'
    BY <1>12, <2>2, Zenon DEF CloseSerial
  <2>. QED
    BY <1>12, <2>1, <2>3 DEF CloseSerial
<1>13. CASE Restart
  <2>1. attached' \in BOOLEAN /\ ~attached'
    BY <1>13, Zenon DEF Restart
  <2>2. node' \in [Node -> Major \union {Missing}]
    BY <1>13 DEF Restart
  <2>3. /\ pc' = "idle" /\ step' = 1 /\ serial_fd' = "none" /\ opened' = 0
        /\ called' = "none" /\ major' = major
    BY <1>13 DEF Restart
  <2>. QED
    BY <2>1, <2>2, <2>3
<1>. QED
  BY <1>1, <1>2, <1>3, <1>4, <1>5, <1>6, <1>7, <1>8, <1>9, <1>10, <1>11, <1>12, <1>13

LEMMA NextIInv == IInv /\ [Next]_vars => IInv'
<1> SUFFICES ASSUME IInv, [Next]_vars
             PROVE  IInv'
  OBVIOUS
<1>1. CASE RemoveNode("cleanup", "open") \/ RemoveNode("remove", "close")
  BY <1>1, RemoveNodeIInv
<1>2. CASE UNCHANGED vars
  BY <1>2 DEF vars, files, IInv, TypeOK, Port, Discipline, Removed, ClosesItsOwn,
    FirstNodeHasMux, TurnedOffLeavesNoNode
<1>. QED
  BY <1>1, <1>2, ActionIInv DEF Next, DriverSteps

\* The invariant holds in every state of every behaviour.
THEOREM Inductive == Spec => []IInv
  BY InitIInv, NextIInv, PTL DEF Spec

\* Every variable has its type; there is never more than one open port.
THEOREM TypeCorrect == Spec => []TypeOK
  BY Inductive, PTL DEF IInv

\* turnOff() closes the port, or nothing.
THEOREM ClosesOwnPort == Spec => []ClosesItsOwn
  BY Inductive, PTL DEF IInv

\* The first node has a multiplexer behind it.
THEOREM FirstNodeMuxed == Spec => []FirstNodeHasMux
  BY Inductive, PTL DEF IInv

\* turnOff() leaves no node, however many there are and whoever made them.
THEOREM NoNodeLeft == Spec => []TurnedOffLeavesNoNode
  BY Inductive, PTL DEF IInv
===============================================================================
